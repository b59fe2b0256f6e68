----------------------------- MODULE PvGeometry -----------------------------
(***************************************************************************)
(* Where windows go: the rectangle arithmetic of PVHOOK (guest/pvhook/     *)
(* pvhook.c), which runs inside the programs, and of PVMON (guest/pvmon/   *)
(* pvmon.c), which runs afterwards and has to agree with it.  The screen   *)
(* is a row of columns SlotW wide: the shell's, of which a phone shows a   *)
(* part, and one slot for every application.                               *)
(*                                                                         *)
(* A frame f is what both know of the screen: w and h, the part of the     *)
(* shell's column that the phone shows, and real, the height of the        *)
(* screen.  A style s is what is known of a program's windows: whether     *)
(* their layout is fixed, whether its module is in KeepSize, the cap on    *)
(* its height ([PVMon] MaxHeight, 0 for none) and the size it is to start  *)
(* with ([PVMon] Size or DefaultSize).                                     *)
(***************************************************************************)
EXTENDS Integers

CONSTANTS SlotW    \* the width of a column

ASSUME GeometryAssumption == SlotW \in Nat \ {0}

Least(a, b) == IF a <= b THEN a ELSE b

Rect  == [x : Int, y : Int, w : Nat, h : Nat]
Frame == {f \in [w : Nat, h : Nat, real : Nat] : f.w <= SlotW /\ f.h <= f.real}
Style == [fixed : BOOLEAN, keep : BOOLEAN, cap : Nat, size : [w : Nat, h : Nat]]

Right(r)  == r.x + r.w
Bottom(r) == r.y + r.h

\* The column a coordinate falls into, and its slot; the shell's has none.
ColumnOf(x) == (x \div SlotW) * SlotW
ColSlot(x)  == IF x >= SlotW THEN x \div SlotW - 1 ELSE -1
SlotX(slot) == SlotW * (slot + 1)

\* Keep [v, v + n) within [lo, hi), the lower end first.
Clamp(v, n, lo, hi) == LET u == IF v + n > hi THEN hi - n ELSE v
                       IN IF u < lo THEN lo ELSE u

\* clamp_into: a rectangle inside a column.
ClampInto(r, colX, colR, frameH) ==
  [r EXCEPT !.x = Clamp(r.x, r.w, colX, colR), !.y = Clamp(r.y, r.h, 0, frameH)]

-----------------------------------------------------------------------------
(* PVHOOK.                                                                 *)

\* The frame a window must fit (max_w_for, frame_h_for).
HookW(s, f) == IF s.keep THEN SlotW ELSE f.w
HookH(s, f) == IF s.cap # 0 /\ s.cap < f.h THEN s.cap ELSE f.h

\* A window's size, clamped (WM_WINDOWPOSCHANGING, HCBT_ACTIVATE); in the mutant
\* whatever its layout.
FittedAlways(r, s, f) == [r EXCEPT !.w = Least(@, HookW(s, f)), !.h = Least(@, HookH(s, f))]
Fitted(r, s, f) ==
  IF s.fixed THEN r ELSE [r EXCEPT !.w = Least(@, HookW(s, f)), !.h = Least(@, HookH(s, f))]

\* A fixed layout is moved into one column when it straddles two.
InOneColumn(r) ==
  LET colX == IF r.x < SlotW THEN SlotW ELSE ColumnOf(r.x)
  IN IF r.x < SlotW \/ Right(r) > colX + SlotW \/ r.y < 0
     THEN [r EXCEPT !.x = colX, !.y = 0] ELSE r

\* Birth: in the staging column, the module's size or DefaultSize at most.
Born(r, s, f) ==
  LET sized == IF s.fixed \/ s.keep THEN r
               ELSE [r EXCEPT !.w = Least(@, s.size.w), !.h = Least(@, s.size.h)]
  IN [Fitted(sized, s, f) EXCEPT !.x = SlotW, !.y = 0]

\* The zoomed rectangle (clamp_minmax): the column, or for a layout of the
\* window's own its normal rectangle.
Zoomed(normal, s, f) ==
  IF s.fixed \/ s.keep
  THEN [normal EXCEPT !.w = Least(@, IF s.fixed THEN 2 * SlotW ELSE SlotW),
                      !.h = Least(@, IF s.fixed THEN f.real ELSE HookH(s, f))]
  ELSE [x |-> IF normal.x >= SlotW THEN ColumnOf(normal.x) ELSE SlotW, y |-> 0,
        w |-> f.w, h |-> HookH(s, f)]

\* Below the owner, to its right, or in the middle of it.
Centred(o, w, h) == [x |-> (o.x + Right(o) - w) \div 2, y |-> (o.y + Bottom(o) - h) \div 2,
                     w |-> w, h |-> h]
Beside(o, w, h, colR, frameH) ==
  IF Bottom(o) + h <= frameH   THEN [x |-> o.x, y |-> Bottom(o), w |-> w, h |-> h]
  ELSE IF Right(o) + w <= colR THEN [x |-> Right(o), y |-> o.y, w |-> w, h |-> h]
  ELSE Centred(o, w, h)

\* place_owned, at an owned window's birth; and where it is kept after that.
HookPlaced(o, w, h, f) ==
  IF o.x < SlotW THEN ClampInto(Centred(o, w, h), 0, f.w, f.h)
  ELSE LET colX == ColumnOf(o.x)
       IN ClampInto(Beside(o, w, h, colX + SlotW, f.real), colX, colX + SlotW, f.real)
HookKept(r, o, f) ==
  IF o.x < SlotW THEN ClampInto(r, 0, f.w, f.h)
  ELSE ClampInto(r, ColumnOf(o.x), ColumnOf(o.x) + SlotW, f.real)

-----------------------------------------------------------------------------
(* PVMON.                                                                  *)

\* The limits of park; double: the window has two slots.
ColW(s, double)     == IF s.fixed /\ double THEN 2 * SlotW ELSE SlotW
ParkW(s, double, f) == IF s.fixed THEN ColW(s, double) ELSE IF s.keep THEN SlotW ELSE f.w
ParkH(s, f) == IF s.fixed THEN f.real
               ELSE Least(f.h, IF s.cap # 0 /\ s.cap < f.real THEN s.cap ELSE f.real)

\* apply_initial_size, once for every window.
Initial(r, s, slot, f) ==
  IF s.fixed \/ s.keep THEN r
  ELSE [x |-> SlotX(slot), y |-> 0, w |-> Least(s.size.w, SlotW), h |-> Least(s.size.h, f.real)]

\* park, for a window that is not zoomed: within its limits, at its slot.
TooLarge(r, s, double, f) == r.w > ParkW(s, double, f) \/ r.h > ParkH(s, f)
Parked(r, s, slot, double, f) ==
  IF TooLarge(r, s, double, f)
  THEN [x |-> SlotX(slot), y |-> 0, w |-> Least(r.w, ParkW(s, double, f)), h |-> Least(r.h, ParkH(s, f))]
  ELSE IF r.x # SlotX(slot) \/ r.y < 0 THEN [r EXCEPT !.x = SlotX(slot), !.y = 0]
  ELSE r

\* ... and for one that is: it may stay so where it is within them, else it is
\* restored and brought in by hand.
MayStayZoomed(r, s, slot, double, f) ==
  /\ ~TooLarge(r, s, double, f)
  /\ r.x >= SlotX(slot) /\ Right(r) <= SlotX(slot) + ColW(s, double)
Unzoomed(r, s, slot, double, f) ==
  LET own == s.fixed \/ s.keep
  IN [x |-> SlotX(slot), y |-> 0,
      w |-> IF own THEN Least(r.w, ParkW(s, double, f)) ELSE ParkW(s, double, f),
      h |-> IF own THEN Least(r.h, ParkH(s, f)) ELSE ParkH(s, f)]

\* An owned window whose owner has a slot: placed when first seen, and whenever
\* it has left the column.  In the mutant it is looked at only once.
OwnedOnce(r, o, slot, fresh, f) ==
  LET colX == SlotX(slot)
  IN IF ~fresh THEN r
     ELSE ClampInto(Beside(o, r.w, r.h, colX + SlotW, f.real), colX, colX + SlotW, f.real)
OwnedParked(r, o, slot, fresh, f) ==
  LET colX == SlotX(slot)
  IN IF ~fresh /\ r.x >= colX /\ Right(r) <= colX + SlotW THEN r
     ELSE ClampInto(Beside(o, r.w, r.h, colX + SlotW, f.real), colX, colX + SlotW, f.real)

\* ... and one whose owner is in the desktop column, or somewhere else.
OwnedByShell(r, o, f) ==
  IF \/ r.x >= 0 /\ Right(r) <= f.w /\ r.y >= 0 /\ Bottom(r) <= f.h
     \/ o.x >= SlotW
  THEN r
  ELSE ClampInto([r EXCEPT !.x = (f.w - r.w) \div 2, !.y = (o.y + Bottom(o) - r.h) \div 2], 0, f.w, f.h)

\* The desktop layout: a window brought on to a screen of that size, smaller if
\* it must be (desktop_fit; FitWindow for one that does not fill the old screen).
OnScreen(r, cx, cy) == r.x >= 0 /\ r.y >= 0 /\ Right(r) <= cx /\ Bottom(r) <= cy
DesktopFit(r, cx, cy) ==
  LET sized == [r EXCEPT !.w = Least(@, cx), !.h = Least(@, cy)] IN ClampInto(sized, 0, cx, cy)

\* A window that fills, or nearly, the screen it comes from (FitWindow).
Fills(r, cx, cy) == r.w >= cx - cx \div 20 /\ r.h >= cy - cy \div 20
=============================================================================
