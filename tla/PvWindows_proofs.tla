-------------------------- MODULE PvWindows_proofs --------------------------
(***************************************************************************)
(* What the rectangle arithmetic of PVHOOK and PVMON guarantees, for every *)
(* rectangle, column width, screen and style: what is brought into a place *)
(* is in it, nothing is moved twice, and neither of the two undoes what    *)
(* the other has done.                                                     *)
(*                                                                         *)
(* And of PvWindows, for every number of windows and slots, every screen   *)
(* and whatever the programs and the user do, that a layer's slot is that  *)
(* of the window it shows (SlotHolds).                                     *)
(*                                                                         *)
(* The invariant is about Bonds, the pairs of a window that is there and a *)
(* slot that it has: every line PVMON vouches for, shown, received or on   *)
(* its way back in a command, is one of them.  Only what hides or destroys *)
(* a window takes a bond away, and it makes the lines about that window    *)
(* doubtful; a slot is given away only when it is in no bond.              *)
(*                                                                         *)
(* On it stand the types of everything, with what a pass and its list can  *)
(* be about (TypesHold), and that a layout of a program's own keeps its    *)
(* size and a menu its place (LayoutsKept).                                *)
(*                                                                         *)
(* Last, that what PVMON has gone over is in its place (WindowsPlaced).    *)
(* That is so only at the end of a pass, so the invariant says for every   *)
(* window, whenever nothing has happened since the pass began: it is where *)
(* it belongs, or the pass is still to come to it.                         *)
(***************************************************************************)
EXTENDS PvWindows, WellFoundedInduction, SequenceTheorems, TLAPS

-----------------------------------------------------------------------------
(* Geometry: lemmas about the operators.                                   *)

\* What is clamped into a range is not before it, is not past it where it fits,
\* and does not move if it was in there.
LEMMA ClampInside ==
  ASSUME NEW v \in Int, NEW n \in Int, NEW lo \in Int, NEW hi \in Int
  PROVE  /\ Clamp(v, n, lo, hi) \in Int
         /\ Clamp(v, n, lo, hi) >= lo
         /\ n <= hi - lo => Clamp(v, n, lo, hi) + n <= hi
         /\ v >= lo /\ v + n <= hi => Clamp(v, n, lo, hi) = v
BY DEF Clamp

\* A rectangle has its four fields and is determined by them.
LEMMA RectFields ==
  ASSUME NEW r \in Rect
  PROVE  /\ r.x \in Int /\ r.y \in Int /\ r.w \in Nat /\ r.h \in Nat
         /\ r = [x |-> r.x, y |-> r.y, w |-> r.w, h |-> r.h]
BY DEF Rect

LEMMA SameRect ==
  ASSUME NEW p \in Rect, NEW q \in Rect, p.x = q.x, p.y = q.y, p.w = q.w, p.h = q.h
  PROVE  p = q
BY DEF Rect

\* A rectangle moved.
LEMMA RectMoved ==
  ASSUME NEW r \in Rect, NEW a \in Int, NEW b \in Int
  PROVE  [r EXCEPT !.x = a, !.y = b] = [x |-> a, y |-> b, w |-> r.w, h |-> r.h]
<1> DEFINE p == [r EXCEPT !.x = a, !.y = b]
           q == [x |-> a, y |-> b, w |-> r.w, h |-> r.h]
<1>1. p \in Rect /\ q \in Rect
  BY DEF Rect
<1>2. p.x = q.x /\ p.y = q.y /\ p.w = q.w /\ p.h = q.h
  BY DEF Rect
<1> HIDE DEF p, q
<1>3. p = q
  BY <1>1, <1>2, SameRect
<1> QED BY <1>3 DEF p, q

\* A rectangle resized.
LEMMA RectResized ==
  ASSUME NEW r \in Rect, NEW a \in Nat, NEW b \in Nat
  PROVE  [r EXCEPT !.w = a, !.h = b] = [x |-> r.x, y |-> r.y, w |-> a, h |-> b]
<1> DEFINE p == [r EXCEPT !.w = a, !.h = b]
           q == [x |-> r.x, y |-> r.y, w |-> a, h |-> b]
<1>1. p \in Rect /\ q \in Rect
  BY DEF Rect
<1>2. p.x = q.x /\ p.y = q.y /\ p.w = q.w /\ p.h = q.h
  BY DEF Rect
<1> HIDE DEF p, q
<1>3. p = q
  BY <1>1, <1>2, SameRect
<1> QED BY <1>3 DEF p, q

\* clamp_into moves a rectangle and does nothing else to it.
LEMMA ClampIntoMoves ==
  ASSUME NEW r \in Rect, NEW a \in Int, NEW b \in Int, NEW c \in Int
  PROVE  ClampInto(r, a, b, c) = [x |-> Clamp(r.x, r.w, a, b), y |-> Clamp(r.y, r.h, 0, c), w |-> r.w, h |-> r.h]
<1>1. ClampInto(r, a, b, c) = [r EXCEPT !.x = Clamp(r.x, r.w, a, b), !.y = Clamp(r.y, r.h, 0, c)]
  BY DEF ClampInto
<1> QED BY <1>1 DEF Rect

\* The column of a slot starts where the slot does.
LEMMA ColumnOfSlot ==
  ASSUME NEW slot \in Nat
  PROVE  /\ SlotX(slot) \in Nat /\ SlotX(slot) >= SlotW
         /\ ColumnOf(SlotX(slot)) = SlotX(slot)
<1> DEFINE q == (SlotW * (slot + 1)) \div SlotW
<1>1. SlotW \in Nat /\ SlotW > 0
  BY GeometryAssumption
<1>2. SlotW * (slot + 1) \in Nat /\ SlotW * (slot + 1) >= SlotW
  BY <1>1
<1>3. q \in Int /\ SlotW * q <= SlotW * (slot + 1) /\ SlotW * (slot + 1) < SlotW * q + SlotW
  BY <1>1, <1>2
<1> HIDE DEF q
<1>4. q = slot + 1
  <2>1. CASE q > slot + 1
    <3>1. SlotW * (q - (slot + 1)) > 0
      BY <1>1, <1>3, <2>1
    <3> QED BY <1>1, <1>3, <3>1
  <2>2. CASE q < slot + 1
    <3>1. SlotW * (slot + 1 - (q + 1)) >= 0
      BY <1>1, <1>3, <2>2
    <3> QED BY <1>1, <1>3, <3>1
  <2> QED BY <1>3, <2>1, <2>2
<1> QED BY <1>1, <1>2, <1>4 DEF SlotX, ColumnOf, q

\* The limits of the two for a layout that is not fixed are the same.
LEMMA LimitsAgree ==
  ASSUME NEW s \in Style, NEW f \in Frame, NEW d \in BOOLEAN
  PROVE  /\ ParkW(s, d, f) \in Nat /\ ParkH(s, f) \in Nat /\ f.real \in Nat
         /\ HookW(s, f) \in Nat /\ HookH(s, f) \in Nat
         /\ ~s.fixed => ParkW(s, d, f) = HookW(s, f) /\ ParkH(s, f) = HookH(s, f)
BY GeometryAssumption DEF Style, Frame, ParkW, ParkH, ColW, HookW, HookH, Least

-----------------------------------------------------------------------------
(* Geometry: PVMON's pass.                                                 *)

\* park (pvmon.c) leaves a window within its limits, at its slot, and what it
\* has parked the next pass leaves alone: the layout does not move a window
\* for ever.
THEOREM ParkedStays ==
  ASSUME NEW r \in Rect, NEW s \in Style, NEW f \in Frame, NEW slot \in Nat, NEW d \in BOOLEAN
  PROVE  /\ Parked(r, s, slot, d, f).x = SlotX(slot) /\ Parked(r, s, slot, d, f).y >= 0
         /\ ~TooLarge(Parked(r, s, slot, d, f), s, d, f)
         /\ Parked(Parked(r, s, slot, d, f), s, slot, d, f) = Parked(r, s, slot, d, f)
<1> DEFINE p == Parked(r, s, slot, d, f)
           pw == ParkW(s, d, f)
           ph == ParkH(s, f)
<1>1. pw \in Nat /\ ph \in Nat /\ SlotX(slot) \in Int
  BY LimitsAgree, ColumnOfSlot
<1>2. r.x \in Int /\ r.y \in Int /\ r.w \in Nat /\ r.h \in Nat
  BY RectFields
<1>3. p.x = SlotX(slot) /\ p.y \in Int /\ p.y >= 0 /\ p.w \in Nat /\ p.h \in Nat /\ p.w <= pw /\ p.h <= ph
  <2>1. CASE TooLarge(r, s, d, f)
    <3>1. p = [x |-> SlotX(slot), y |-> 0, w |-> Least(r.w, pw), h |-> Least(r.h, ph)]
      BY <2>1 DEF Parked
    <3> QED BY <1>1, <1>2, <3>1 DEF Least
  <2>2. CASE ~TooLarge(r, s, d, f)
    <3>1. r.w <= pw /\ r.h <= ph
      BY <1>1, <1>2, <2>2 DEF TooLarge
    <3>2. CASE r.x # SlotX(slot) \/ r.y < 0
      <4>1. p = [r EXCEPT !.x = SlotX(slot), !.y = 0]
        BY <2>2, <3>2 DEF Parked
      <4> QED BY <1>1, <1>2, <3>1, <4>1 DEF Rect
    <3>3. CASE ~(r.x # SlotX(slot) \/ r.y < 0)
      <4>1. p = r
        BY <2>2, <3>3 DEF Parked
      <4> QED BY <1>2, <3>1, <3>3, <4>1
    <3> QED BY <3>2, <3>3
  <2> QED BY <2>1, <2>2
<1> HIDE DEF p
<1>4. ~TooLarge(p, s, d, f)
  BY <1>1, <1>3 DEF TooLarge
<1>5. Parked(p, s, slot, d, f) = p
  BY <1>3, <1>4 DEF Parked
<1> QED BY <1>3, <1>4, <1>5 DEF p

\* desktop_fit (pvmon.c): a window brought on to a screen is on it, and one that
\* is on it stays as it is, so a second pass changes nothing.
THEOREM DesktopFitStays ==
  ASSUME NEW r \in Rect, NEW cx \in Nat, NEW cy \in Nat
  PROVE  /\ OnScreen(DesktopFit(r, cx, cy), cx, cy)
         /\ OnScreen(r, cx, cy) => DesktopFit(r, cx, cy) = r
         /\ DesktopFit(DesktopFit(r, cx, cy), cx, cy) = DesktopFit(r, cx, cy)
<1>1. \A q \in Rect : /\ DesktopFit(q, cx, cy) \in Rect /\ OnScreen(DesktopFit(q, cx, cy), cx, cy)
                      /\ OnScreen(q, cx, cy) => DesktopFit(q, cx, cy) = q
  <2> SUFFICES ASSUME NEW q \in Rect
               PROVE  /\ DesktopFit(q, cx, cy) \in Rect /\ OnScreen(DesktopFit(q, cx, cy), cx, cy)
                      /\ OnScreen(q, cx, cy) => DesktopFit(q, cx, cy) = q
    OBVIOUS
  <2> DEFINE w == Least(q.w, cx)
             h == Least(q.h, cy)
             x == Clamp(q.x, w, 0, cx)
             y == Clamp(q.y, h, 0, cy)
             cutR == [q EXCEPT !.w = w, !.h = h]
  <2>1. q.x \in Int /\ q.y \in Int /\ q.w \in Nat /\ q.h \in Nat /\ q = [x |-> q.x, y |-> q.y, w |-> q.w, h |-> q.h]
    BY RectFields
  <2>2. w \in Nat /\ h \in Nat /\ w <= cx /\ h <= cy /\ (q.w <= cx => w = q.w) /\ (q.h <= cy => h = q.h)
    BY <2>1 DEF Least
  <2>3. cutR = [x |-> q.x, y |-> q.y, w |-> w, h |-> h]
    BY <2>2, RectResized, Zenon
  <2>4. DesktopFit(q, cx, cy) = ClampInto(cutR, 0, cx, cy)
    BY DEF DesktopFit
  <2> HIDE DEF w, h, cutR
  <2>5. cutR \in Rect
    BY <2>1, <2>2, <2>3 DEF Rect
  <2>6. cutR.x = q.x /\ cutR.y = q.y /\ cutR.w = w /\ cutR.h = h
    BY <2>3
  <2>7. DesktopFit(q, cx, cy) = [x |-> x, y |-> y, w |-> w, h |-> h]
    BY <2>4, <2>5, <2>6, ClampIntoMoves
  <2>8. /\ x \in Int /\ x >= 0 /\ x + w <= cx /\ (q.x >= 0 /\ q.x + w <= cx => x = q.x)
        /\ y \in Int /\ y >= 0 /\ y + h <= cy /\ (q.y >= 0 /\ q.y + h <= cy => y = q.y)
    BY <2>1, <2>2 DEF Clamp
  <2> HIDE DEF x, y
  <2>9. DesktopFit(q, cx, cy) \in Rect
    BY <2>2, <2>7, <2>8 DEF Rect
  <2>10. OnScreen(DesktopFit(q, cx, cy), cx, cy)
    BY <2>7, <2>8 DEF OnScreen, Right, Bottom
  <2>11. ASSUME OnScreen(q, cx, cy)
         PROVE  DesktopFit(q, cx, cy) = q
    <3>1. q.x >= 0 /\ q.y >= 0 /\ q.x + q.w <= cx /\ q.y + q.h <= cy
      BY <2>11 DEF OnScreen, Right, Bottom
    <3>2. q.w <= cx /\ q.h <= cy
      BY <2>1, <3>1
    <3>3. w = q.w /\ h = q.h /\ x = q.x /\ y = q.y
      BY <2>2, <2>8, <3>1, <3>2
    <3> QED BY <2>1, <2>7, <3>3
  <2> QED BY <2>9, <2>10, <2>11
<1> QED BY <1>1

-----------------------------------------------------------------------------
(* Geometry: PVHOOK and PVMON together.                                    *)

\* What PVMON has parked passes PVHOOK's WM_WINDOWPOSCHANGING unchanged: the
\* SetWindowPos of the pass has the effect it asks for.
THEOREM ParkedIsFitted ==
  ASSUME NEW r \in Rect, NEW s \in Style, NEW f \in Frame, NEW slot \in Nat, NEW d \in BOOLEAN
  PROVE  Fitted(Parked(r, s, slot, d, f), s, f) = Parked(r, s, slot, d, f)
<1> DEFINE p == Parked(r, s, slot, d, f)
<1>1. p \in Rect
  <2>1. r.x \in Int /\ r.y \in Int /\ r.w \in Nat /\ r.h \in Nat
    BY RectFields
  <2>2. ParkW(s, d, f) \in Nat /\ ParkH(s, f) \in Nat /\ SlotX(slot) \in Int
    BY LimitsAgree, ColumnOfSlot
  <2>3. Least(r.w, ParkW(s, d, f)) \in Nat /\ Least(r.h, ParkH(s, f)) \in Nat
    BY <2>1, <2>2 DEF Least
  <2>4. [x |-> SlotX(slot), y |-> 0, w |-> Least(r.w, ParkW(s, d, f)), h |-> Least(r.h, ParkH(s, f))] \in Rect
    BY <2>2, <2>3 DEF Rect
  <2>5. [r EXCEPT !.x = SlotX(slot), !.y = 0] \in Rect
    <3>1. [r EXCEPT !.x = SlotX(slot), !.y = 0] = [x |-> SlotX(slot), y |-> 0, w |-> r.w, h |-> r.h]
      <4>1. 0 \in Int
        OBVIOUS
      <4> QED BY <2>2, <4>1, RectMoved, Zenon
    <3> QED BY <2>1, <2>2, <3>1 DEF Rect
  <2> QED BY <2>4, <2>5 DEF Parked
<1>2. ~TooLarge(p, s, d, f)
  BY ParkedStays
<1> HIDE DEF p
<1>3. CASE s.fixed
  BY <1>3 DEF Fitted, p
<1>4. CASE ~s.fixed
  <2>1. p.w \in Nat /\ p.h \in Nat
    BY <1>1, RectFields
  <2>2. HookW(s, f) \in Nat /\ HookH(s, f) \in Nat /\ ParkW(s, d, f) = HookW(s, f) /\ ParkH(s, f) = HookH(s, f)
    BY <1>4, LimitsAgree
  <2>3. p.w <= HookW(s, f) /\ p.h <= HookH(s, f)
    BY <1>2, <2>1, <2>2 DEF TooLarge
  <2>4. Least(p.w, HookW(s, f)) = p.w /\ Least(p.h, HookH(s, f)) = p.h
    BY <2>3 DEF Least
  <2>5. Fitted(p, s, f) = [p EXCEPT !.w = Least(p.w, HookW(s, f)), !.h = Least(p.h, HookH(s, f))]
    BY <1>4 DEF Fitted
  <2> QED BY <1>1, <2>4, <2>5 DEF Rect, p
<1> QED BY <1>3, <1>4

\* A window that PVHOOK lets a program zoom (clamp_minmax), of a module with no
\* layout of its own and with its normal rectangle at its slot, is one that
\* park leaves zoomed: the two do not fight over it.
THEOREM ZoomedMayStay ==
  ASSUME NEW r \in Rect, NEW s \in Style, NEW f \in Frame, NEW slot \in Nat, NEW d \in BOOLEAN,
         ~s.fixed, ~s.keep, r.x = SlotX(slot)
  PROVE  MayStayZoomed(Zoomed(r, s, f), s, slot, d, f)
<1>1. SlotX(slot) \in Nat /\ SlotX(slot) >= SlotW /\ ColumnOf(SlotX(slot)) = SlotX(slot)
  BY ColumnOfSlot
<1>2. Zoomed(r, s, f) = [x |-> SlotX(slot), y |-> 0, w |-> f.w, h |-> HookH(s, f)]
  BY <1>1 DEF Zoomed
<1>3. ParkW(s, d, f) = f.w /\ ColW(s, d) = SlotW /\ SlotW \in Nat
  BY GeometryAssumption DEF ParkW, ColW
<1>4. ParkH(s, f) = HookH(s, f) /\ HookH(s, f) \in Nat
  BY LimitsAgree
<1>5. f.w \in Nat /\ f.w <= SlotW
  BY DEF Frame
<1> QED BY <1>1, <1>2, <1>3, <1>4, <1>5 DEF MayStayZoomed, TooLarge, Right

\* An owned window no wider than a column is in its owner's column after the
\* pass, and the next pass, for which it is no longer new, leaves it alone.
THEOREM OwnedStays ==
  ASSUME NEW r \in Rect, NEW o \in Rect, NEW f \in Frame, NEW slot \in Nat, NEW fresh \in BOOLEAN, r.w <= SlotW
  PROVE  /\ OwnedParked(r, o, slot, fresh, f).x >= SlotX(slot)
         /\ Right(OwnedParked(r, o, slot, fresh, f)) <= SlotX(slot) + SlotW
         /\ OwnedParked(OwnedParked(r, o, slot, fresh, f), o, slot, FALSE, f) = OwnedParked(r, o, slot, fresh, f)
<1> DEFINE p == OwnedParked(r, o, slot, fresh, f)
           b == Beside(o, r.w, r.h, SlotX(slot) + SlotW, f.real)
<1>1. SlotX(slot) \in Int /\ SlotW \in Nat /\ f.real \in Int
  BY GeometryAssumption, ColumnOfSlot, LimitsAgree DEF Frame
<1>2. /\ r.x \in Int /\ r.y \in Int /\ r.w \in Nat /\ r.h \in Nat
      /\ o.x \in Int /\ o.y \in Int /\ o.w \in Nat /\ o.h \in Nat
  BY RectFields
<1>3. b \in Rect /\ b.w = r.w
  <2>1. (o.x + Right(o) - r.w) \div 2 \in Int /\ (o.y + Bottom(o) - r.h) \div 2 \in Int
    BY <1>2 DEF Right, Bottom
  <2>2. Right(o) \in Int /\ Bottom(o) \in Int
    BY <1>2 DEF Right, Bottom
  <2>3. \E x, y \in Int : b = [x |-> x, y |-> y, w |-> r.w, h |-> r.h]
    BY <1>2, <2>1, <2>2 DEF Beside, Centred
  <2> QED BY <1>2, <2>3 DEF Rect
<1> HIDE DEF b
<1>4. p.x >= SlotX(slot) /\ p.x + p.w <= SlotX(slot) + SlotW
  <2>1. CASE ~fresh /\ r.x >= SlotX(slot) /\ Right(r) <= SlotX(slot) + SlotW
    BY <2>1 DEF OwnedParked, Right
  <2>2. CASE ~(~fresh /\ r.x >= SlotX(slot) /\ Right(r) <= SlotX(slot) + SlotW)
    <3>1. p = ClampInto(b, SlotX(slot), SlotX(slot) + SlotW, f.real)
      BY <2>2 DEF OwnedParked, b
    <3>2. p.x = Clamp(b.x, b.w, SlotX(slot), SlotX(slot) + SlotW) /\ p.w = b.w
      BY <1>1, <1>3, <3>1, ClampIntoMoves
    <3>3. b.x \in Int /\ b.w \in Nat
      BY <1>3, RectFields
    <3> QED BY <1>1, <1>2, <1>3, <3>2, <3>3 DEF Clamp
  <2> QED BY <2>1, <2>2
<1> HIDE DEF p
<1>5. OwnedParked(p, o, slot, FALSE, f) = p
  BY <1>4 DEF OwnedParked, Right
<1> QED BY <1>4, <1>5 DEF Right, p

\* Where PVHOOK keeps an owned window no wider than a column, its owner being in
\* a slot's column, PVMON has nothing to correct: it is in that column already.
THEOREM KeptIsLeftAlone ==
  ASSUME NEW r \in Rect, NEW o \in Rect, NEW f \in Frame, NEW slot \in Nat,
         r.w <= SlotW, o.x >= SlotW, ColumnOf(o.x) = SlotX(slot)
  PROVE  OwnedParked(HookKept(r, o, f), o, slot, FALSE, f) = HookKept(r, o, f)
<1> DEFINE p == HookKept(r, o, f)
<1>1. SlotX(slot) \in Int /\ SlotW \in Nat /\ f.real \in Int
  BY GeometryAssumption, ColumnOfSlot DEF Frame
<1>2. r.x \in Int /\ r.w \in Nat /\ o.x \in Int
  BY RectFields
<1>3. p = ClampInto(r, SlotX(slot), SlotX(slot) + SlotW, f.real)
  BY <1>1, <1>2 DEF HookKept
<1>4. p.x = Clamp(r.x, r.w, SlotX(slot), SlotX(slot) + SlotW) /\ p.w = r.w
  BY <1>1, <1>3, ClampIntoMoves
<1>5. p.x >= SlotX(slot) /\ p.x + p.w <= SlotX(slot) + SlotW
  BY <1>1, <1>2, <1>4 DEF Clamp
<1> HIDE DEF p
<1>6. OwnedParked(p, o, slot, FALSE, f) = p
  BY <1>5 DEF OwnedParked, Right
<1> QED BY <1>6 DEF p

-----------------------------------------------------------------------------
(* Bonds.                                                                  *)

WindowFields == {"kind", "owner", "style", "vis", "mode", "rect", "normal", "asked", "own"}
LineFields   == {"tag", "wnd", "slot", "rect", "sure"}
CmdFields    == {"what", "slot", "wnd", "sure"}
IsRecord(r, fields) == r = [f \in fields |-> r[f]]
IsWindow(w) == IsRecord(w, WindowFields)

\* A window that is still of its kind, and visible if it was.
Stays(w, v) == IsWindow(v) /\ v.kind = w.kind /\ (w.vis => v.vis)

Bonds == {b \in H \X Slots : slots[b[2]] = b[1] /\ Visible(b[1]) /\ b[1] \notin dead}
Vouched(L, B) == L.sure => <<L.wnd, L.slot>> \in B
Lines(list, B) == /\ \E S : list \in Seq(S)
                  /\ \A k \in DOMAIN list : IsRecord(list[k], LineFields) /\ Vouched(list[k], B)

SlotsOK == slots \in [Slots -> H \cup {NoWnd}]
WndOK   == wnd = [h \in H |-> wnd[h]] /\ \A h \in H : IsWindow(wnd[h])
PageOK  == /\ Lines(layers, Bonds)
           /\ IsRecord(pending, {"on", "list"}) /\ Lines(pending.list, Bonds)
           /\ cmd # None => /\ IsRecord(cmd, CmdFields) /\ Vouched(cmd, Bonds)
                            /\ cmd.what \in {"activate", "close", "restore", "minimise"}
IInv == habit \in Habits /\ posts \subseteq H /\ SlotsOK /\ WndOK /\ PageOK

-----------------------------------------------------------------------------
(* Windows that stay what they are.                                        *)

LEMMA StaysTwice ==
  ASSUME NEW u, NEW v, NEW w, Stays(u, v), Stays(v, w)
  PROVE  Stays(u, w)
BY DEF Stays

LEMMA StaysSame ==
  ASSUME NEW w, IsWindow(w)
  PROVE  Stays(w, w)
BY DEF Stays

\* SetWindowPos changes neither what a window is nor that it is visible.
LEMMA MovedStays ==
  ASSUME NEW w, IsWindow(w), NEW r
  PROVE  Stays(w, At(w, r)) /\ Stays(w, Moved(w, r))
<1>1. \A q : Stays(w, At(w, q))
  BY DEF At, Stays, IsWindow, IsRecord, WindowFields
<1> QED BY <1>1 DEF Moved

\* Nor does park.
LEMMA ParksStays ==
  ASSUME NEW w, IsWindow(w), NEW h, NEW slot, NEW s, NEW first
  PROVE  Stays(w, Parks(w, h, slot, s, first))
<1> DEFINE at == IF first THEN Moved(w, Initial(w.rect, w.style, slot, MonFrame)) ELSE w
           two == Double(h, slot, s)
           out == [at EXCEPT !.mode = "normal", !.rect = at.normal]
<1>1. Stays(w, at) /\ IsWindow(at)
  BY MovedStays, StaysSame DEF Stays
<1>2. Parks(w, h, slot, s, first) =
        IF at.mode # "zoomed" THEN Moved(at, Parked(at.rect, w.style, slot, two, MonFrame))
        ELSE IF MayStayZoomed(at.rect, w.style, slot, two, MonFrame) THEN at
        ELSE Moved(out, Unzoomed(at.normal, w.style, slot, two, MonFrame))
  BY DEF Parks
<1> HIDE DEF at
<1>3. Stays(at, out) /\ IsWindow(out)
  BY <1>1 DEF Stays, IsWindow, IsRecord, WindowFields
<1> HIDE DEF out
<1>4. \A r : Stays(at, Moved(at, r)) /\ Stays(out, Moved(out, r))
  BY <1>1, <1>3, MovedStays
<1>5. \A r : Stays(w, Moved(at, r)) /\ Stays(w, Moved(out, r))
  BY <1>1, <1>3, <1>4 DEF Stays
<1> QED BY <1>1, <1>2, <1>5

\* Nor what programs do to their windows, but for hiding and closing them.
LEMMA ProgramStays ==
  ASSUME NEW w, IsWindow(w)
  PROVE  Stays(w, Activated(w)) /\ Stays(w, Maximised(w)) /\ Stays(w, Restored(w)) /\ Stays(w, Minimised(w))
<1>1. \A r : Stays(w, Moved(w, r)) /\ Stays(w, w)
  BY MovedStays, StaysSame
<1>2. Stays(w, Activated(w))
  BY <1>1 DEF Activated
<1>3. Stays(w, Maximised(w)) /\ Stays(w, Minimised(w))
  BY DEF Maximised, Minimised, Stays, IsWindow, IsRecord, WindowFields
<1>4. Stays(w, Restored(w))
  <2> DEFINE v == [w EXCEPT !.mode = "normal", !.vis = TRUE, !.own = TRUE]
  <2>1. Stays(w, [w EXCEPT !.vis = TRUE]) /\ Stays(w, v)
    BY DEF Stays, IsWindow, IsRecord, WindowFields
  <2> HIDE DEF v
  <2>2. Stays(v, Moved(v, w.normal))
    BY <2>1, MovedStays DEF Stays
  <2>3. Stays(w, Moved(v, w.normal))
    BY <2>1, <2>2, StaysTwice
  <2> QED BY <2>1, <2>3 DEF Restored, v
<1> QED BY <1>2, <1>3, <1>4

\* Nor what the page commands.
LEMMA OrderedStays ==
  ASSUME NEW w, IsWindow(w), NEW what \in {"activate", "close", "restore", "minimise"}
  PROVE  Stays(w, Ordered(w, what))
<1>1. Stays(w, Activated(w)) /\ Stays(w, Minimised(w)) /\ Stays(w, Restored(w)) /\ Stays(w, w)
  BY ProgramStays, StaysSame
<1>2. Stays(Restored(w), Activated(Restored(w)))
  BY <1>1, ProgramStays DEF Stays
<1>3. Stays(w, Activated(Restored(w)))
  BY <1>1, <1>2, StaysTwice
<1> QED BY <1>1, <1>3 DEF Ordered

\* Nor fit_windows.
LEMMA FitWindowStays ==
  ASSUME NEW w, IsWindow(w), NEW was, NEW now
  PROVE  Stays(w, FitWindow(w, was, now))
<1>1. \A r : Stays(w, At(w, r))
  BY MovedStays
<1>2. \A r : IsWindow([At(w, r) EXCEPT !.own = FALSE]) /\ Stays(At(w, r), [At(w, r) EXCEPT !.own = FALSE])
  BY <1>1 DEF Stays, IsWindow, IsRecord, WindowFields
<1>3. \A r : Stays(w, [At(w, r) EXCEPT !.own = FALSE])
  BY <1>1, <1>2, StaysTwice
<1> QED BY <1>3 DEF FitWindow

\* Windows that are new, and those that are no more.
LEMMA OpenedIsWindow ==
  ASSUME NEW h, NEW d, NEW r
  PROVE  IsWindow(Opened(h, d, r))
BY DEF Opened, IsWindow, IsRecord, WindowFields

LEMMA ClosedIsWindow == IsWindow(Closed)
BY DEF Closed, IsWindow, IsRecord, WindowFields

LEMMA FirstIsWindow ==
  ASSUME NEW w, IsWindow(w), NEW k, NEW o, NEW s, NEW r
  PROVE  IsWindow([w EXCEPT !.kind = k, !.owner = o, !.style = s, !.vis = TRUE, !.rect = r, !.normal = r, !.asked = r])
BY DEF IsWindow, IsRecord, WindowFields

-----------------------------------------------------------------------------
(* Slots.                                                                  *)

\* A nonempty set of slots has a lowest one: a relation with no infinite descent
\* has a minimal element in it.
LEMMA LowestIn ==
  ASSUME NEW S \in SUBSET Nat, S # {}
  PROVE  Lowest(S) \in S /\ \A j \in S : Lowest(S) <= j
<1> DEFINE R == OpToRel(<, Nat)
<1>1. R = {p \in Nat \X Nat : p[1] < p[2]}
  BY Zenon DEF OpToRel
<1>2. PICK x \in S : \A y \in S : <<y, x>> \notin R
  BY NatLessThanWellFounded, WFMin
<1> HIDE DEF R
<1>3. \A y \in S : x <= y
  <2> TAKE y \in S
  <2>1. ~(y < x)
    BY <1>1, <1>2
  <2> QED BY <2>1
<1> QED BY <1>2, <1>3 DEF Lowest

\* slot_of (pvmon.c) gives a window a slot that it then has, and takes only free
\* ones away from others.
LEMMA SlotOfGives ==
  ASSUME SlotsOK, NEW h \in H, NEW wide
  PROVE  LET a == SlotOf(h, wide) IN
         /\ a.slots \in [Slots -> H \cup {NoWnd}]
         /\ a.slot >= 0 => a.slot \in Slots /\ a.slots[a.slot] = h
         /\ \A i \in Slots : ~SlotFree(i) => a.slots[i] = slots[i]
<1> DEFINE has  == {i \in Slots : slots[i] = h}
           free == {i \in Slots : SlotFree(i)}
           two  == {i \in free : i + 1 \in free}
           a    == SlotOf(h, wide)
<1>1. /\ Slots \subseteq Nat /\ has \subseteq Slots /\ free \subseteq Slots /\ two \subseteq free
      /\ has \in SUBSET Nat /\ free \in SUBSET Nat /\ two \in SUBSET Nat
  BY PvWindowsAssumption DEF Slots
<1>2. CASE has # {}
  <2>1. a = [slot |-> Lowest(has), slots |-> slots]
    BY <1>2 DEF SlotOf, Given
  <2>2. Lowest(has) \in has
    BY <1>1, <1>2, LowestIn
  <2> HIDE DEF a
  <2>3. a.slot \in Slots /\ slots[a.slot] = h /\ a.slots = slots
    BY <2>1, <2>2
  <2> QED BY <2>3 DEF SlotsOK, a
<1>3. CASE has = {} /\ wide /\ two # {}
  <2>1. a = [slot |-> Lowest(two), slots |-> [slots EXCEPT ![Lowest(two)] = h, ![Lowest(two) + 1] = h]]
    BY <1>3 DEF SlotOf, Given
  <2>2. Lowest(two) \in two
    BY <1>1, <1>3, LowestIn
  <2> DEFINE n == Lowest(two)
  <2>3. n \in Slots /\ n + 1 \in Slots /\ SlotFree(n) /\ SlotFree(n + 1)
    BY <1>1, <2>2
  <2> HIDE DEF a, n
  <2>4. a.slot = n /\ a.slots = [slots EXCEPT ![n] = h, ![n + 1] = h]
    BY <2>1 DEF n
  <2>5. a.slots \in [Slots -> H \cup {NoWnd}] /\ a.slots[n] = h
    BY <2>3, <2>4 DEF SlotsOK
  <2>6. \A i \in Slots : i # n /\ i # n + 1 => a.slots[i] = slots[i]
    BY <2>4 DEF SlotsOK
  <2> QED BY <2>3, <2>4, <2>5, <2>6 DEF a
<1>4. CASE has = {} /\ ~(wide /\ two # {}) /\ free # {}
  <2>1. a = [slot |-> Lowest(free), slots |-> [slots EXCEPT ![Lowest(free)] = h]]
    BY <1>4 DEF SlotOf, Given
  <2>2. Lowest(free) \in free
    BY <1>1, <1>4, LowestIn
  <2> DEFINE n == Lowest(free)
  <2>3. n \in Slots /\ SlotFree(n)
    BY <1>1, <2>2
  <2> HIDE DEF a, n
  <2>4. a.slot = n /\ a.slots = [slots EXCEPT ![n] = h]
    BY <2>1 DEF n
  <2>5. a.slots \in [Slots -> H \cup {NoWnd}] /\ a.slots[n] = h
    BY <2>3, <2>4 DEF SlotsOK
  <2>6. \A i \in Slots : i # n => a.slots[i] = slots[i]
    BY <2>4 DEF SlotsOK
  <2> QED BY <2>3, <2>4, <2>5, <2>6 DEF a
<1>5. CASE has = {} /\ ~(wide /\ two # {}) /\ free = {}
  <2>1. a = [slot |-> -1, slots |-> slots]
    BY <1>5 DEF SlotOf, Given
  <2> HIDE DEF a
  <2> QED BY <2>1 DEF SlotsOK, a
<1> QED BY <1>2, <1>3, <1>4, <1>5

\* A bond lasts where its slot, if it is not free, is left alone and its window,
\* while there, stays and is not being destroyed.
LEMMA BondLasts ==
  ASSUME SlotsOK, NEW b \in Bonds,
         ~SlotFree(b[2]) => slots'[b[2]] = slots[b[2]],
         Visible(b[1]) => Stays(wnd[b[1]], wnd'[b[1]]) /\ b[1] \notin dead'
  PROVE  b \in Bonds'
<1>1. b \in H \X Slots /\ slots[b[2]] = b[1] /\ Visible(b[1]) /\ b[1] \notin dead
  BY DEF Bonds
<1>2. ~SlotFree(b[2])
  BY <1>1, PvWindowsAssumption DEF SlotFree
<1>3. slots'[b[2]] = b[1] /\ b[1] \notin dead' /\ Stays(wnd[b[1]], wnd'[b[1]])
  BY <1>1, <1>2
<1>4. Visible(b[1])'
  BY <1>1, <1>3 DEF Visible, Exists, Stays
<1> QED BY <1>1, <1>3, <1>4 DEF Bonds

-----------------------------------------------------------------------------
(* Lists.                                                                  *)

LEMMA NoLines ==
  ASSUME NEW B
  PROVE  Lines(<<>>, B)
BY DEF Lines

LEMMA LineIsRecord ==
  ASSUME NEW tag, NEW h, NEW slot, NEW r, NEW sure
  PROVE  /\ IsRecord(Line(tag, h, slot, r, sure), LineFields)
         /\ Line(tag, h, slot, r, sure).wnd = h /\ Line(tag, h, slot, r, sure).slot = slot
         /\ Line(tag, h, slot, r, sure).sure = sure
BY DEF Line, IsRecord, LineFields

LEMMA LineNotSure ==
  ASSUME NEW tag, NEW h, NEW slot, NEW r
  PROVE  IsRecord(Line(tag, h, slot, r, FALSE), LineFields) /\ ~Line(tag, h, slot, r, FALSE).sure
BY DEF Line, IsRecord, LineFields

LEMMA LinesMore ==
  ASSUME NEW list, NEW B, NEW C, Lines(list, B), B \subseteq C
  PROVE  Lines(list, C)
BY DEF Lines, Vouched

LEMMA LineAdded ==
  ASSUME NEW list, NEW B, NEW L, Lines(list, B), IsRecord(L, LineFields), Vouched(L, B)
  PROVE  Lines(list \o <<L>>, B)
<1>1. PICK S : list \in Seq(S)
  BY DEF Lines
<1> DEFINE T == S \cup {L}
           long == list \o <<L>>
<1>2. list \in Seq(T) /\ <<L>> \in Seq(T) /\ Len(<<L>>) = 1 /\ <<L>>[1] = L
  BY <1>1
<1>3. long \in Seq(T)
  BY <1>2
<1>4. \A k \in DOMAIN long : (k \in DOMAIN list /\ long[k] = list[k]) \/ long[k] = L
  <2>1. DOMAIN long = 1 .. Len(list) + 1 /\ DOMAIN list = 1 .. Len(list) /\ Len(list) \in Nat
    BY <1>2
  <2>2. \A k \in 1 .. Len(list) + 1 : long[k] = IF k <= Len(list) THEN list[k] ELSE <<L>>[k - Len(list)]
    BY <1>2
  <2> QED BY <1>2, <2>1, <2>2
<1> HIDE DEF long, T
<1>5. \A k \in DOMAIN long : IsRecord(long[k], LineFields) /\ Vouched(long[k], B)
  BY <1>4 DEF Lines
<1>6. Lines(long, B)
  BY <1>3, <1>5 DEF Lines
<1> QED BY <1>6 DEF long

\* What is left of a list when the bonds of one window have gone.
LEMMA LinesDoubted ==
  ASSUME NEW list, NEW B, NEW C, NEW h, Lines(list, B), \A b \in B : b[1] # h => b \in C
  PROVE  Lines(Doubted(h, list), C)
<1>1. PICK S : list \in Seq(S)
  BY DEF Lines
<1> DEFINE one(k) == [list[k] EXCEPT !.sure = list[k].sure /\ list[k].wnd # h]
           T == {one(k) : k \in DOMAIN list}
           after == Doubted(h, list)
<1>2. after = [k \in DOMAIN list |-> one(k)]
  BY DEF Doubted
<1>3. DOMAIN list = 1 .. Len(list) /\ Len(list) \in Nat
  BY <1>1
<1>4. \A k \in DOMAIN list : IsRecord(one(k), LineFields) /\ Vouched(one(k), C)
  <2> TAKE k \in DOMAIN list
  <2>1. IsRecord(list[k], LineFields) /\ Vouched(list[k], B)
    BY DEF Lines
  <2>2. IsRecord(one(k), LineFields) /\ one(k).wnd = list[k].wnd /\ one(k).slot = list[k].slot
        /\ (one(k).sure <=> list[k].sure /\ list[k].wnd # h)
    BY <2>1 DEF IsRecord, LineFields
  <2> HIDE DEF one
  <2> QED BY <2>1, <2>2 DEF Vouched
<1> HIDE DEF one
<1>5. after \in Seq(T)
  BY <1>2, <1>3
<1> HIDE DEF after, T
<1>6. \A k \in DOMAIN after : IsRecord(after[k], LineFields) /\ Vouched(after[k], C)
  BY <1>2, <1>4
<1>7. Lines(after, C)
  BY <1>5, <1>6 DEF Lines
<1> QED BY <1>7 DEF after

-----------------------------------------------------------------------------
(* What a step does to the page.                                           *)

LEMMA PageStays ==
  ASSUME PageOK, UNCHANGED page, Bonds \subseteq Bonds'
  PROVE  PageOK'
<1>1. layers' = layers /\ pending' = pending /\ cmd' = cmd
  BY DEF page
<1>2. Lines(layers, Bonds') /\ Lines(pending.list, Bonds')
  BY LinesMore DEF PageOK
<1>3. cmd # None => Vouched(cmd, Bonds')
  BY DEF PageOK, Vouched
<1> QED BY <1>1, <1>2, <1>3 DEF PageOK

\* PVHOOK may have begun a list.
LEMMA PageBegun ==
  ASSUME PageOK, NEW sends, pending' = Begun(sends), UNCHANGED <<cmd, layers>>, Bonds \subseteq Bonds'
  PROVE  PageOK'
<1>1. Lines(layers, Bonds') /\ Lines(pending.list, Bonds') /\ Lines(<<>>, Bonds')
  BY LinesMore, NoLines DEF PageOK
<1>2. cmd # None => Vouched(cmd, Bonds')
  BY DEF PageOK, Vouched
<1>3. pending' = PVB \/ pending' = pending
  BY DEF Begun
<1>4. IsRecord(PVB, {"on", "list"}) /\ PVB.list = <<>>
  BY DEF PVB, IsRecord
<1>5. IsRecord(pending', {"on", "list"}) /\ Lines(pending'.list, Bonds')
  BY <1>1, <1>3, <1>4 DEF PageOK
<1> QED BY <1>1, <1>2, <1>5 DEF PageOK

\* A line comes, or none, that is vouched for by what is so after the step.
LEMMA PageHears ==
  ASSUME PageOK, NEW lines, NEW last, Hears(lines, last), Bonds \subseteq Bonds',
         lines = <<>> \/ \E L : lines = <<L>> /\ IsRecord(L, LineFields) /\ Vouched(L, Bonds')
  PROVE  PageOK'
<1>1. Lines(layers, Bonds') /\ Lines(pending.list, Bonds') /\ Lines(<<>>, Bonds')
  BY LinesMore, NoLines DEF PageOK
<1>2. cmd' = cmd /\ (cmd # None => Vouched(cmd, Bonds'))
  BY DEF PageOK, Vouched, Hears
<1>3. Lines(pending.list \o lines, Bonds')
  <2>1. CASE lines = <<>>
    <3>1. PICK S : pending.list \in Seq(S)
      BY <1>1 DEF Lines
    <3>2. pending.list \o lines = pending.list
      BY <2>1, <3>1
    <3> QED BY <1>1, <3>2
  <2>2. ASSUME NEW L, lines = <<L>>, IsRecord(L, LineFields), Vouched(L, Bonds')
        PROVE  Lines(pending.list \o lines, Bonds')
    BY <1>1, <2>2, LineAdded
  <2> QED BY <2>1, <2>2
<1>4. Lines(Heard(lines), Bonds')
  BY <1>1, <1>3 DEF Heard
<1>5. Lines(layers', Bonds')
  BY <1>1, <1>4 DEF Hears
<1>6. IsRecord(pending', {"on", "list"}) /\ Lines(pending'.list, Bonds')
  <2>1. CASE last
    <3>1. pending' = NoList
      BY <2>1 DEF Hears
    <3> QED BY <1>1, <3>1 DEF NoList, IsRecord
  <2>2. CASE ~last
    <3>1. pending' = [pending EXCEPT !.list = Heard(lines)]
      BY <2>2 DEF Hears
    <3>2. IsRecord(pending, {"on", "list"})
      BY DEF PageOK
    <3>3. IsRecord(pending', {"on", "list"}) /\ pending'.list = Heard(lines)
      BY <3>1, <3>2 DEF IsRecord
    <3> QED BY <1>4, <3>3
  <2> QED BY <2>1, <2>2
<1> QED BY <1>2, <1>5, <1>6 DEF PageOK

\* A window's lines become doubtful.
LEMMA PageDoubts ==
  ASSUME PageOK, NEW h, NEW sends, Doubts(h, sends), \A b \in Bonds : b[1] # h => b \in Bonds'
  PROVE  PageOK'
<1>1. Lines(Doubted(h, layers), Bonds') /\ Lines(Doubted(h, pending.list), Bonds') /\ Lines(<<>>, Bonds')
  BY LinesDoubted, NoLines DEF PageOK
<1>2. IsRecord(pending', {"on", "list"}) /\ Lines(pending'.list, Bonds')
  <2>1. CASE sends /\ Phone
    <3>1. pending' = PVB
      BY <2>1 DEF Doubts
    <3> QED BY <1>1, <3>1 DEF PVB, IsRecord
  <2>2. CASE ~(sends /\ Phone)
    <3>1. pending' = [pending EXCEPT !.list = Doubted(h, pending.list)]
      BY <2>2 DEF Doubts
    <3>2. IsRecord(pending, {"on", "list"})
      BY DEF PageOK
    <3>3. IsRecord(pending', {"on", "list"}) /\ pending'.list = Doubted(h, pending.list)
      BY <3>1, <3>2 DEF IsRecord
    <3> QED BY <1>1, <3>3
  <2> QED BY <2>1, <2>2
<1>3. ASSUME cmd' # None
      PROVE  /\ IsRecord(cmd', CmdFields) /\ Vouched(cmd', Bonds')
             /\ cmd'.what \in {"activate", "close", "restore", "minimise"}
  <2>1. CASE cmd # None /\ cmd.wnd = h
    <3>1. cmd' = [cmd EXCEPT !.sure = FALSE]
      BY <2>1 DEF Doubts
    <3>2. IsRecord(cmd, CmdFields) /\ cmd.what \in {"activate", "close", "restore", "minimise"}
      BY <2>1 DEF PageOK
    <3>3. IsRecord(cmd', CmdFields) /\ cmd'.what = cmd.what /\ cmd'.sure = FALSE
      BY <3>1, <3>2 DEF IsRecord, CmdFields
    <3> QED BY <3>2, <3>3 DEF Vouched
  <2>2. CASE ~(cmd # None /\ cmd.wnd = h)
    <3>1. cmd' = cmd
      BY <2>2 DEF Doubts
    <3> QED BY <1>3, <2>2, <3>1 DEF PageOK, Vouched
  <2> QED BY <2>1, <2>2
<1>4. layers' = Doubted(h, layers)
  BY DEF Doubts
<1> QED BY <1>1, <1>2, <1>3, <1>4 DEF PageOK

-----------------------------------------------------------------------------
(* The steps.                                                              *)

\* A step that leaves the slots and what is being destroyed alone and changes one
\* window, which stays what it is.
LEMMA OneStays ==
  ASSUME SlotsOK, WndOK, NEW h \in H, NEW w, Stays(wnd[h], w), wnd' = [wnd EXCEPT ![h] = w],
         UNCHANGED dead, \A i \in Slots : ~SlotFree(i) => slots'[i] = slots[i]
  PROVE  WndOK' /\ Bonds \subseteq Bonds'
<1>1. \A g \in H : wnd'[g] = IF g = h THEN w ELSE wnd[g]
  BY DEF WndOK
<1>2. \A g \in H : Stays(wnd[g], wnd'[g])
  BY <1>1, StaysSame DEF WndOK
<1>3. WndOK'
  <2>1. wnd' = [g \in H |-> wnd'[g]]
    BY DEF WndOK
  <2> QED BY <1>2, <2>1 DEF WndOK, Stays
<1>4. \A b \in Bonds : b \in Bonds'
  <2> TAKE b \in Bonds
  <2>1. b[1] \in H /\ b[2] \in Slots /\ b[1] \notin dead'
    BY DEF Bonds
  <2> QED BY <1>2, <2>1, BondLasts
<1> QED BY <1>3, <1>4

\* One that changes neither windows nor slots nor what is being destroyed.
LEMMA NoneChanges ==
  ASSUME SlotsOK, WndOK, UNCHANGED <<wnd, slots, dead>>
  PROVE  SlotsOK' /\ WndOK' /\ Bonds' = Bonds
<1>1. SlotsOK' /\ WndOK'
  BY DEF SlotsOK, WndOK
<1> QED BY <1>1 DEF Bonds, Visible, Exists

\* Whatever is posted is a window.
LEMMA PostedWindows ==
  ASSUME NEW queue \in SUBSET H, NEW h \in H, NEW now
  PROVE  Posted(queue, h, now) \in SUBSET H
BY DEF Posted

\* A window is given its slot and parked.
LEMMA SlottedStep ==
  ASSUME SlotsOK, WndOK, NEW h \in H, NEW wide, NEW park, NEW queue \in SUBSET H,
         Slotted(h, wide, park, queue), UNCHANGED dead
  PROVE  SlotsOK' /\ WndOK' /\ posts' \subseteq H /\ Bonds \subseteq Bonds'
<1> DEFINE a     == SlotOf(h, wide)
           parks == park /\ a.slot >= 0
           now   == IF parks /\ Exists(h) /\ ~Iconic(h)
                    THEN Parks(wnd[h], h, a.slot, a.slots, ~Contains(sized, h)) ELSE wnd[h]
<1>1. slots' = a.slots /\ wnd' = [wnd EXCEPT ![h] = now] /\ posts' = Posted(queue, h, now)
  BY DEF Slotted
<1>2. a.slots \in [Slots -> H \cup {NoWnd}] /\ \A i \in Slots : ~SlotFree(i) => a.slots[i] = slots[i]
  BY SlotOfGives
<1>3. Stays(wnd[h], now)
  <2>1. IsWindow(wnd[h])
    BY DEF WndOK
  <2> QED BY <2>1, ParksStays, StaysSame
<1> HIDE DEF a, now
<1>4. WndOK' /\ Bonds \subseteq Bonds'
  BY <1>1, <1>2, <1>3, OneStays
<1>5. SlotsOK'
  BY <1>1, <1>2 DEF SlotsOK
<1>6. posts' \subseteq H
  BY <1>1, PostedWindows
<1> QED BY <1>4, <1>5, <1>6

LEMMA PlaceStep == IInv /\ Place => IInv'
<1> SUFFICES ASSUME IInv, Place PROVE IInv'
  OBVIOUS
<1>1. SlotsOK /\ WndOK /\ PageOK /\ posts \in SUBSET H /\ habit' = habit /\ dead' = dead /\ UNCHANGED page
  BY DEF IInv, Place
<1>2. SlotsOK' /\ WndOK' /\ posts' \subseteq H /\ Bonds \subseteq Bonds'
  <2> DEFINE t == Head(mon.todo)
  <2>1. PICK h \in H : \/ \E wide \in Wide(h) : Slotted(h, wide, t.item.kind = "A" /\ Phone, posts)
                       \/ \E o : PlaceOwned(h, o)
                       \/ FitOnce(h)
    BY DEF Place
  <2>2. ASSUME NEW wide, Slotted(h, wide, t.item.kind = "A" /\ Phone, posts)
        PROVE  SlotsOK' /\ WndOK' /\ posts' \subseteq H /\ Bonds \subseteq Bonds'
    BY <1>1, <2>2, SlottedStep
  <2>3. IsWindow(wnd[h])
    BY <1>1 DEF WndOK
  <2>4. ASSUME NEW owner, PlaceOwned(h, owner)
        PROVE  SlotsOK' /\ WndOK' /\ posts' \subseteq H /\ Bonds \subseteq Bonds'
    <3>1. posts' = posts /\ slots' = slots
      BY <2>4 DEF PlaceOwned
    <3>2. WndOK' /\ Bonds \subseteq Bonds'
      <4>1. CASE Exists(h) /\ ~Iconic(h)
        <5>1. \E r : wnd' = [wnd EXCEPT ![h] = Moved(wnd[h], r)]
          BY <2>4, <4>1 DEF PlaceOwned
        <5>2. PICK r : wnd' = [wnd EXCEPT ![h] = Moved(wnd[h], r)]
          BY <5>1
        <5> DEFINE w == Moved(wnd[h], r)
        <5>3. Stays(wnd[h], w)
          BY <2>3, MovedStays
        <5> HIDE DEF w
        <5> QED BY <1>1, <3>1, <5>2, <5>3, OneStays DEF w
      <4>2. CASE ~(Exists(h) /\ ~Iconic(h))
        <5>1. wnd' = wnd
          BY <2>4, <4>2 DEF PlaceOwned
        <5> QED BY <1>1, <3>1, <5>1, NoneChanges
      <4> QED BY <4>1, <4>2
    <3> QED BY <1>1, <3>1, <3>2 DEF SlotsOK
  <2>5. CASE FitOnce(h)
    <3>1. posts' = posts /\ slots' = slots
      BY <2>5 DEF FitOnce
    <3>2. WndOK' /\ Bonds \subseteq Bonds'
      <4> DEFINE gone == ~Visible(h) \/ h \in dead \/ Iconic(h)
      <4>1. CASE ~gone /\ ~OnTheScreen(wnd[h])
        <5> DEFINE w == At(wnd[h], IF wnd[h].mode = "zoomed" THEN WholeScreen
                                   ELSE DesktopFit(wnd[h].rect, screen.w, screen.h))
        <5>1. wnd' = [wnd EXCEPT ![h] = w]
          BY <2>5, <4>1 DEF FitOnce
        <5>2. Stays(wnd[h], w)
          BY <2>3, MovedStays
        <5> HIDE DEF w
        <5> QED BY <1>1, <3>1, <5>1, <5>2, OneStays
      <4>2. CASE ~gone /\ OnTheScreen(wnd[h])
        <5>1. wnd' = wnd
          BY <2>5, <4>2 DEF FitOnce
        <5> QED BY <1>1, <3>1, <5>1, NoneChanges
      <4>3. CASE gone
        <5> DEFINE w == [wnd[h] EXCEPT !.own = Exists(h)]
        <5>1. wnd' = [wnd EXCEPT ![h] = w]
          BY <2>5, <4>3 DEF FitOnce
        <5>2. Stays(wnd[h], w)
          BY <2>3 DEF Stays, IsWindow, IsRecord, WindowFields
        <5> HIDE DEF w
        <5> QED BY <1>1, <3>1, <5>1, <5>2, OneStays
      <4> QED BY <4>1, <4>2, <4>3
    <3> QED BY <1>1, <3>1, <3>2 DEF SlotsOK
  <2> QED BY <2>1, <2>2, <2>4, <2>5
<1>3. PageOK'
  BY <1>1, <1>2, PageStays
<1> QED BY <1>1, <1>2, <1>3 DEF IInv

\* A line PVMON sends is vouched for by the slot it gives.
LEMMA SayStep == IInv /\ Say => IInv'
<1> SUFFICES ASSUME IInv, Say PROVE IInv'
  OBVIOUS
<1>1. /\ SlotsOK /\ WndOK /\ PageOK /\ posts' = posts /\ posts \subseteq H
      /\ habit' = habit /\ dead' = dead /\ wnd' = wnd
  BY DEF IInv, Say, program
<1>2. CASE mon.todo = <<>> /\ Says(<<>>) /\ UNCHANGED slots
  <2>1. SlotsOK' /\ WndOK' /\ Bonds' = Bonds
    BY <1>1, <1>2, NoneChanges
  <2>2. PageOK'
    BY <1>1, <1>2, <2>1, PageHears DEF Says
  <2> QED BY <1>1, <2>1, <2>2 DEF IInv
<1>3. ASSUME NEW i, NEW h \in H, h = i.wnd, i.kind \in {"A", "I"}, NEW wide,
             slots' = SlotOf(h, wide).slots, Says(<<MonLine(i, SlotOf(h, wide).slot)>>)
      PROVE  IInv'
  <2> DEFINE a == SlotOf(h, wide)
             L == MonLine(i, a.slot)
  <2>1. /\ a.slots \in [Slots -> H \cup {NoWnd}]
        /\ a.slot >= 0 => a.slot \in Slots /\ a.slots[a.slot] = h
        /\ \A k \in Slots : ~SlotFree(k) => a.slots[k] = slots[k]
    BY <1>1, SlotOfGives
  <2> HIDE DEF a
  <2>2. SlotsOK' /\ slots' = a.slots
    BY <1>3, <2>1 DEF SlotsOK, a
  <2>3. WndOK'
    BY <1>1 DEF WndOK
  <2>4. Bonds \subseteq Bonds'
    <3> SUFFICES ASSUME NEW b \in Bonds PROVE b \in Bonds'
      OBVIOUS
    <3>1. b[1] \in H /\ b[2] \in Slots /\ b[1] \notin dead'
      BY <1>1 DEF Bonds
    <3>2. Stays(wnd[b[1]], wnd'[b[1]])
      BY <1>1, <3>1, StaysSame DEF WndOK
    <3> QED BY <1>1, <2>1, <2>2, <3>1, <3>2, BondLasts
  <2>5. IsRecord(L, LineFields) /\ L.wnd = h /\ L.slot = a.slot
        /\ (L.sure => a.slot >= 0 /\ Visible(h) /\ h \notin dead)
    <3>1. L = IF i.kind = "A"
              THEN Line(IF a.slot >= 0 THEN "W" ELSE "X", h, a.slot, wnd[h].rect,
                        a.slot >= 0 /\ Visible(h) /\ h \notin dead)
              ELSE Line("I", h, a.slot, Nowhere, a.slot >= 0 /\ Visible(h) /\ h \notin dead)
      BY <1>3 DEF MonLine
    <3> DEFINE sure == a.slot >= 0 /\ Visible(h) /\ h \notin dead
    <3>2. PICK tag, r : L = Line(tag, h, a.slot, r, sure)
      BY <3>1
    <3> HIDE DEF L, sure
    <3>3. IsRecord(L, LineFields) /\ L.wnd = h /\ L.slot = a.slot /\ L.sure = sure
      BY <3>2, LineIsRecord
    <3> QED BY <3>3 DEF sure
  <2>6. Vouched(L, Bonds')
    <3>1. SUFFICES ASSUME L.sure PROVE <<h, a.slot>> \in Bonds'
      BY <2>5 DEF Vouched
    <3>2. a.slot \in Slots /\ slots'[a.slot] = h /\ Visible(h)' /\ h \notin dead'
      BY <1>1, <2>1, <2>2, <2>5, <3>1 DEF Visible, Exists
    <3> QED BY <3>2 DEF Bonds
  <2>7. Hears(<<L>>, Len(mon.todo) <= 1)
    BY <1>3 DEF Says, a
  <2> HIDE DEF L
  <2>8. PageOK'
    BY <1>1, <2>4, <2>5, <2>6, <2>7, PageHears
  <2> QED BY <1>1, <2>2, <2>3, <2>8 DEF IInv
<1>4. ASSUME NEW i, NEW h \in H, h = i.wnd, i.kind \in {"O", "T"}, Says(<<MonLine(i, -1)>>), UNCHANGED slots
      PROVE  IInv'
  <2> DEFINE L == MonLine(i, -1)
  <2>1. SlotsOK' /\ WndOK' /\ Bonds' = Bonds
    BY <1>1, <1>4, NoneChanges
  <2>2. IsRecord(L, LineFields) /\ ~L.sure
    <3>1. L = IF i.kind = "O" THEN Line("O", h, OwnerSlot(i.owner), wnd[h].rect, FALSE)
              ELSE Line("T", h, -1, wnd[h].rect, FALSE)
      BY <1>4 DEF MonLine
    <3>2. PICK tag, slot, r : L = Line(tag, h, slot, r, FALSE)
      BY <3>1
    <3> HIDE DEF L
    <3> QED BY <3>2, LineNotSure
  <2>3. Hears(<<L>>, Len(mon.todo) <= 1)
    BY <1>4 DEF Says
  <2> HIDE DEF L
  <2>4. Vouched(L, Bonds')
    BY <2>2 DEF Vouched
  <2>5. PageOK'
    BY <1>1, <2>1, <2>2, <2>3, <2>4, PageHears
  <2> QED BY <1>1, <2>1, <2>5 DEF IInv
<1> QED BY <1>2, <1>3, <1>4 DEF Say

\* PVHOOK's lines are not vouched for.
LEMMA HookSaysStep == IInv /\ HookSays => IInv'
<1> SUFFICES ASSUME IInv, HookSays PROVE IInv'
  OBVIOUS
<1>1. /\ SlotsOK /\ WndOK /\ PageOK /\ posts' = posts /\ posts \subseteq H
      /\ habit' = habit /\ UNCHANGED <<wnd, slots, dead>>
  BY DEF IInv, HookSays, program, memory
<1>2. SlotsOK' /\ WndOK' /\ Bonds' = Bonds
  BY <1>1, NoneChanges
<1>0. PICK ahead : Hears(IF ahead = <<>> THEN <<>> ELSE <<HookLine(Last(ahead))>>, Len(ahead) <= 1)
  BY DEF HookSays
<1> DEFINE L == HookLine(Last(ahead))
           lines == IF ahead = <<>> THEN <<>> ELSE <<L>>
<1>3. IsRecord(L, LineFields) /\ Vouched(L, Bonds')
  <2>1. \E tag, h, slot, r : L = Line(tag, h, slot, r, FALSE)
    BY DEF HookLine
  <2>2. PICK tag, h, slot, r : L = Line(tag, h, slot, r, FALSE)
    BY <2>1
  <2> HIDE DEF L
  <2>3. IsRecord(L, LineFields) /\ ~L.sure
    BY <2>2, LineNotSure
  <2> QED BY <2>3 DEF Vouched
<1>4. Hears(lines, Len(ahead) <= 1)
  BY <1>0
<1> HIDE DEF L
<1>5. lines = <<>> \/ lines = <<L>>
  OBVIOUS
<1> HIDE DEF lines
<1>6. PageOK'
  BY <1>1, <1>2, <1>3, <1>4, <1>5, PageHears
<1> QED BY <1>1, <1>2, <1>6 DEF IInv

\* The rest of PVMON's polls: nothing, a command, or a window past the frame.
LEMMA PollStep == IInv /\ (Poll \/ Collect \/ Compare) => IInv'
<1> SUFFICES ASSUME IInv, Poll \/ Collect \/ Compare PROVE IInv'
  OBVIOUS
<1>1. /\ SlotsOK /\ WndOK /\ PageOK /\ posts' = posts /\ posts \subseteq H
      /\ habit' = habit /\ UNCHANGED <<wnd, slots, dead>>
  BY DEF IInv, Poll, Collect, Compare, program, memory
<1>2. SlotsOK' /\ WndOK' /\ Bonds' = Bonds
  BY <1>1, NoneChanges
<1>3. PageOK'
  <2>1. CASE Poll \/ Collect
    <3>1. UNCHANGED page
      BY <2>1 DEF Poll, Collect
    <3> QED BY <1>1, <1>2, <3>1, PageStays
  <2>2. CASE Compare
    <3>1. UNCHANGED <<cmd, layers>> /\ pending' \in {pending, PVB}
      BY <2>2 DEF Compare
    <3>2. CASE pending' = pending
      BY <1>1, <1>2, <3>1, <3>2, PageStays DEF page
    <3>3. CASE pending' = PVB
      <4>1. IsRecord(PVB, {"on", "list"}) /\ PVB.list = <<>>
        BY DEF PVB, IsRecord
      <4>2. Lines(<<>>, Bonds')
        BY NoLines
      <4> QED BY <1>1, <1>2, <3>1, <3>3, <4>1, <4>2 DEF PageOK
    <3> QED BY <3>1, <3>2, <3>3
  <2> QED BY <2>1, <2>2
<1> QED BY <1>1, <1>2, <1>3 DEF IInv

LEMMA RunCommandStep == IInv /\ RunCommand => IInv'
<1> SUFFICES ASSUME IInv, RunCommand PROVE IInv'
  OBVIOUS
<1>1. /\ SlotsOK /\ WndOK /\ PageOK /\ posts \in SUBSET H /\ habit' = habit /\ slots' = slots
      /\ cmd # None /\ cmd' = None /\ UNCHANGED <<pending, layers>>
  BY DEF IInv, RunCommand, memory
<1> DEFINE h == IF cmd.slot \in Slots THEN slots[cmd.slot] ELSE NoWnd
<1>2. SlotsOK' /\ WndOK' /\ posts' \subseteq H /\ Bonds \subseteq Bonds'
  <2>1. CASE h = NoWnd \/ (h # NoWnd /\ ~Exists(h))
    <3>1. UNCHANGED <<wnd, dead, posts>>
      BY <2>1 DEF RunCommand, program
    <3> QED BY <1>1, <3>1, NoneChanges
  <2>2. CASE ~(h = NoWnd \/ (h # NoWnd /\ ~Exists(h)))
    <3>1. /\ wnd' = [wnd EXCEPT ![h] = Ordered(wnd[h], cmd.what)]
          /\ posts' = Posted(posts, h, Ordered(wnd[h], cmd.what)) /\ dead' = dead
      BY <2>2 DEF RunCommand
    <3>2. h \in H
      BY <1>1, <2>2 DEF SlotsOK
    <3> HIDE DEF h
    <3>3. Stays(wnd[h], Ordered(wnd[h], cmd.what))
      BY <1>1, <3>2, OrderedStays DEF WndOK, PageOK
    <3>4. WndOK' /\ Bonds \subseteq Bonds'
      BY <1>1, <3>1, <3>2, <3>3, OneStays
    <3>5. posts' \subseteq H
      BY <1>1, <3>1, <3>2, PostedWindows
    <3> QED BY <1>1, <3>4, <3>5 DEF SlotsOK
  <2> QED BY <2>1, <2>2
<1>3. PageOK'
  <2>1. Lines(layers, Bonds') /\ Lines(pending.list, Bonds') /\ IsRecord(pending, {"on", "list"})
    BY <1>1, <1>2, LinesMore DEF PageOK
  <2> QED BY <1>1, <2>1 DEF PageOK
<1> QED BY <1>1, <1>2, <1>3 DEF IInv

LEMMA ParkPostedStep == IInv /\ ParkPosted => IInv'
<1> SUFFICES ASSUME IInv, ParkPosted PROVE IInv'
  OBVIOUS
<1>1. SlotsOK /\ WndOK /\ PageOK /\ posts \in SUBSET H /\ habit' = habit /\ dead' = dead /\ UNCHANGED page
  BY DEF IInv, ParkPosted
<1>2. PICK h \in posts : \/ \E wide \in Wide(h) : Slotted(h, wide, TRUE, posts \ {h})
                         \/ posts' = posts \ {h} /\ UNCHANGED <<wnd, memory>>
  BY DEF ParkPosted
<1>3. SlotsOK' /\ WndOK' /\ posts' \subseteq H /\ Bonds \subseteq Bonds'
  <2>1. CASE \E wide \in Wide(h) : Slotted(h, wide, TRUE, posts \ {h})
    <3>1. h \in H /\ posts \ {h} \in SUBSET H
      BY <1>1
    <3> QED BY <1>1, <2>1, <3>1, SlottedStep
  <2>2. CASE posts' = posts \ {h} /\ UNCHANGED <<wnd, memory>>
    BY <1>1, <2>2, NoneChanges DEF memory
  <2> QED BY <1>2, <2>1, <2>2
<1>4. PageOK'
  BY <1>1, <1>3, PageStays
<1> QED BY <1>1, <1>3, <1>4 DEF IInv

\* Another screen: every window stays what it is.
LEMMA ScreenStep == IInv /\ (FinishSwitch \/ NewScreen) => IInv'
<1> SUFFICES ASSUME IInv, FinishSwitch \/ NewScreen PROVE IInv'
  OBVIOUS
<1>1. /\ SlotsOK /\ WndOK /\ PageOK /\ posts' = posts /\ posts \subseteq H
      /\ habit' = habit /\ UNCHANGED <<slots, dead>> /\ UNCHANGED page
  BY DEF IInv, FinishSwitch, NewScreen, memory, Does
<1>2. wnd' = wnd \/ \E was, now : wnd' = Fits(was, now)
  BY DEF FinishSwitch, NewScreen
<1>3. WndOK' /\ \A h \in H : Stays(wnd[h], wnd'[h])
  <2>1. CASE wnd' = wnd
    BY <1>1, <2>1, StaysSame DEF WndOK
  <2>2. ASSUME NEW was, NEW now, wnd' = Fits(was, now)
        PROVE  WndOK' /\ \A h \in H : Stays(wnd[h], wnd'[h])
    <3> DEFINE w(h) == CASE wnd[h].kind = "menu" -> wnd[h]
                         [] wnd[h].kind # "menu" /\ (~Visible(h) \/ Iconic(h)) -> [wnd[h] EXCEPT !.own = Exists(h)]
                         [] OTHER -> FitWindow(wnd[h], was, now)
    <3>1. \A h \in H : Stays(wnd[h], w(h))
      <4> TAKE h \in H
      <4>1. IsWindow(wnd[h])
        BY <1>1 DEF WndOK
      <4>2. Stays(wnd[h], FitWindow(wnd[h], was, now))
        BY <4>1, FitWindowStays
      <4>3. Stays(wnd[h], [wnd[h] EXCEPT !.own = Exists(h)])
        BY <4>1 DEF Stays, IsWindow, IsRecord, WindowFields
      <4>4. Stays(wnd[h], wnd[h])
        BY <4>1, StaysSame
      <4> QED BY <4>2, <4>3, <4>4
    <3>2. wnd' = [h \in H |-> w(h)]
      BY <2>2 DEF Fits
    <3> HIDE DEF w
    <3> QED BY <3>1, <3>2 DEF WndOK, Stays
  <2> QED BY <1>2, <2>1, <2>2
<1>4. Bonds \subseteq Bonds'
  <2> SUFFICES ASSUME NEW b \in Bonds PROVE b \in Bonds'
    OBVIOUS
  <2>1. b[1] \in H /\ b[1] \notin dead' /\ slots' = slots
    BY <1>1 DEF Bonds
  <2> QED BY <1>1, <1>3, <2>1, BondLasts
<1>5. PageOK'
  BY <1>1, <1>4, PageStays
<1> QED BY <1>1, <1>3, <1>4, <1>5 DEF IInv, SlotsOK

\* A program makes a window, under a handle that is nobody's.
LEMMA CreateStep == \A h \in H : IInv /\ Create(h) => IInv'
<1> SUFFICES ASSUME IInv, NEW h \in H, Create(h) PROVE IInv'
  OBVIOUS
<1>1. /\ SlotsOK /\ WndOK /\ PageOK /\ posts' = posts /\ posts \subseteq H
      /\ habit' = habit /\ slots' = slots /\ dead' = dead \ {h} /\ UNCHANGED page /\ ~Exists(h)
  BY DEF IInv, Create, Does, Others, memory
<1>2. PICK d, r : wnd' = [wnd EXCEPT ![h] = Opened(h, d, r)]
  BY DEF Create
<1> DEFINE w == Opened(h, d, r)
<1>3. IsWindow(w)
  BY OpenedIsWindow
<1> HIDE DEF w
<1>4. \A g \in H : wnd'[g] = IF g = h THEN w ELSE wnd[g]
  BY <1>1, <1>2 DEF WndOK, w
<1>5. WndOK'
  <2>1. wnd' = [g \in H |-> wnd'[g]]
    BY <1>1, <1>2 DEF WndOK
  <2> QED BY <1>1, <1>3, <1>4, <2>1 DEF WndOK
<1>6. Bonds \subseteq Bonds'
  <2> SUFFICES ASSUME NEW b \in Bonds PROVE b \in Bonds'
    OBVIOUS
  <2>1. b[1] \in H /\ b[1] # h /\ b[1] \notin dead
    BY <1>1 DEF Bonds, Visible
  <2>2. Stays(wnd[b[1]], wnd'[b[1]])
    BY <1>1, <1>4, <2>1, StaysSame DEF WndOK
  <2> QED BY <1>1, <2>1, <2>2, BondLasts
<1>7. PageOK'
  BY <1>1, <1>6, PageStays
<1> QED BY <1>1, <1>5, <1>7 DEF IInv, SlotsOK

\* Or it changes one that stays what it is.
LEMMA ChangeStep ==
  \A h \in H : IInv /\ (Show(h) \/ Activate(h) \/ Resize(h) \/ Move(h) \/ Maximise(h) \/ Restore(h) \/ Minimise(h)) => IInv'
<1> SUFFICES ASSUME IInv, NEW h \in H,
                    Show(h) \/ Activate(h) \/ Resize(h) \/ Move(h) \/ Maximise(h) \/ Restore(h) \/ Minimise(h)
             PROVE  IInv'
  OBVIOUS
<1>1. SlotsOK /\ WndOK /\ PageOK /\ posts \in SUBSET H /\ IsWindow(wnd[h])
  BY DEF IInv, WndOK
<1>2. habit' = habit /\ slots' = slots /\ dead' = dead
  BY DEF Show, Activate, Resize, Move, Maximise, Restore, Minimise, ShowAs, Does, Others, memory
<1>3. \E w : Stays(wnd[h], w) /\ Now(h, w)
  <2>1. CASE Show(h)
    <3>1. Stays(wnd[h], [wnd[h] EXCEPT !.vis = TRUE])
      BY <1>1 DEF Stays, IsWindow, IsRecord, WindowFields
    <3> QED BY <2>1, <3>1 DEF Show
  <2>2. CASE Activate(h)
    BY <1>1, <2>2, ProgramStays DEF Activate
  <2>3. CASE Resize(h) \/ Move(h)
    <3>1. \E r, q : Now(h, [Moved(wnd[h], r) EXCEPT !.asked = q, !.own = TRUE])
                    \/ Now(h, [Moved(wnd[h], r) EXCEPT !.own = TRUE])
      BY <2>3 DEF Resize, Move
    <3>2. PICK r, q : Now(h, [Moved(wnd[h], r) EXCEPT !.asked = q, !.own = TRUE])
                      \/ Now(h, [Moved(wnd[h], r) EXCEPT !.own = TRUE])
      BY <3>1
    <3> DEFINE m == Moved(wnd[h], r)
    <3>3. Stays(wnd[h], m)
      BY <1>1, MovedStays
    <3> HIDE DEF m
    <3>4. Stays(m, [m EXCEPT !.asked = q, !.own = TRUE]) /\ Stays(m, [m EXCEPT !.own = TRUE])
      BY <3>3 DEF Stays, IsWindow, IsRecord, WindowFields
    <3>5. Stays(wnd[h], [m EXCEPT !.asked = q, !.own = TRUE]) /\ Stays(wnd[h], [m EXCEPT !.own = TRUE])
      BY <3>3, <3>4, StaysTwice
    <3> QED BY <3>2, <3>5 DEF m
  <2>4. CASE Maximise(h) \/ Restore(h) \/ Minimise(h)
    BY <1>1, <2>4, ProgramStays DEF Maximise, Restore, Minimise, ShowAs
  <2> QED BY <2>1, <2>2, <2>3, <2>4
<1>4. PICK w : Stays(wnd[h], w) /\ wnd' = [wnd EXCEPT ![h] = w] /\ posts' = Posted(posts, h, w)
  BY <1>3 DEF Now
<1>5. WndOK' /\ Bonds \subseteq Bonds'
  BY <1>1, <1>2, <1>4, OneStays
<1>6. posts' \subseteq H
  BY <1>1, <1>4, PostedWindows
<1>7. PageOK'
  <2>1. CASE Show(h) \/ Activate(h)
    <3>1. UNCHANGED <<cmd, layers>> /\ \E sends : pending' = Begun(sends)
      BY <2>1 DEF Show, Activate
    <3> QED BY <1>1, <1>5, <3>1, PageBegun
  <2>2. CASE ~(Show(h) \/ Activate(h))
    <3>1. UNCHANGED page
      BY <2>2 DEF Resize, Move, Maximise, Restore, Minimise, ShowAs
    <3> QED BY <1>1, <1>5, <3>1, PageStays
  <2> QED BY <2>1, <2>2
<1> QED BY <1>1, <1>2, <1>5, <1>6, <1>7 DEF IInv, SlotsOK

\* Or it hides one: its lines become doubtful, and no other window's.
LEMMA HideStep == \A h \in H : IInv /\ Hide(h) => IInv'
<1> SUFFICES ASSUME IInv, NEW h \in H, Hide(h) PROVE IInv'
  OBVIOUS
<1> DEFINE w == [wnd[h] EXCEPT !.vis = FALSE]
<1>1. /\ SlotsOK /\ WndOK /\ PageOK /\ posts \in SUBSET H /\ habit' = habit /\ slots' = slots /\ dead' = dead
      /\ wnd' = [wnd EXCEPT ![h] = w] /\ posts' = Posted(posts, h, w)
  BY DEF IInv, Hide, Does, Others, memory, Now
<1>2. IsWindow(w)
  <2>1. IsWindow(wnd[h])
    BY <1>1 DEF WndOK
  <2> QED BY <2>1 DEF IsWindow, IsRecord, WindowFields
<1>3. \E sends : Doubts(h, sends)
  BY DEF Hide
<1> HIDE DEF w
<1>4. \A g \in H : wnd'[g] = IF g = h THEN w ELSE wnd[g]
  BY <1>1 DEF WndOK
<1>5. WndOK'
  <2>1. wnd' = [g \in H |-> wnd'[g]]
    BY <1>1 DEF WndOK
  <2> QED BY <1>1, <1>2, <1>4, <2>1 DEF WndOK
<1>6. \A b \in Bonds : b[1] # h => b \in Bonds'
  <2> SUFFICES ASSUME NEW b \in Bonds, b[1] # h PROVE b \in Bonds'
    OBVIOUS
  <2>1. b[1] \in H /\ b[1] \notin dead
    BY DEF Bonds
  <2>2. Stays(wnd[b[1]], wnd'[b[1]])
    BY <1>1, <1>4, <2>1, StaysSame DEF WndOK
  <2> QED BY <1>1, <2>1, <2>2, BondLasts
<1>7. PageOK' /\ posts' \subseteq H
  BY <1>1, <1>3, <1>6, PageDoubts, PostedWindows
<1> QED BY <1>1, <1>5, <1>7 DEF IInv, SlotsOK

\* Or it destroys one, or what that owns.
LEMMA DiesStep == \A h \in H : IInv /\ (Destroy(h) \/ DestroyOwned(h)) => IInv'
<1> SUFFICES ASSUME IInv, NEW h \in H, Destroy(h) \/ DestroyOwned(h) PROVE IInv'
  OBVIOUS
<1>1. /\ SlotsOK /\ WndOK /\ PageOK /\ posts' = posts /\ posts \subseteq H /\ habit' = habit
      /\ slots' = slots /\ wnd' = wnd /\ dead' = dead \cup {h}
  BY DEF IInv, Destroy, DestroyOwned, Dies, Does, Others, memory
<1>2. \E sends : Doubts(h, sends)
  BY DEF Destroy, DestroyOwned, Dies
<1>3. WndOK'
  BY <1>1 DEF WndOK
<1>4. \A b \in Bonds : b[1] # h => b \in Bonds'
  <2> SUFFICES ASSUME NEW b \in Bonds, b[1] # h PROVE b \in Bonds'
    OBVIOUS
  <2>1. b[1] \in H /\ b[1] \notin dead'
    BY <1>1 DEF Bonds
  <2>2. Stays(wnd[b[1]], wnd'[b[1]])
    BY <1>1, <2>1, StaysSame DEF WndOK
  <2> QED BY <1>1, <2>1, <2>2, BondLasts
<1>5. PageOK'
  BY <1>1, <1>2, <1>4, PageDoubts
<1> QED BY <1>1, <1>3, <1>5 DEF IInv, SlotsOK

\* What was being destroyed has gone: it had no bond any more.
LEMMA GoneStep == \A h \in H : IInv /\ Gone(h) => IInv'
<1> SUFFICES ASSUME IInv, NEW h \in H, Gone(h) PROVE IInv'
  OBVIOUS
<1>1. /\ SlotsOK /\ WndOK /\ PageOK /\ posts' = posts /\ posts \subseteq H /\ habit' = habit
      /\ slots' = slots /\ h \in dead /\ dead' = dead \ {h} /\ wnd' = [wnd EXCEPT ![h] = Closed] /\ UNCHANGED page
  BY DEF IInv, Gone, Others, memory
<1>2. \A g \in H : wnd'[g] = IF g = h THEN Closed ELSE wnd[g]
  BY <1>1 DEF WndOK
<1>3. WndOK'
  <2>1. wnd' = [g \in H |-> wnd'[g]]
    BY <1>1 DEF WndOK
  <2> QED BY <1>1, <1>2, <2>1, ClosedIsWindow DEF WndOK
<1>4. Bonds \subseteq Bonds'
  <2> SUFFICES ASSUME NEW b \in Bonds PROVE b \in Bonds'
    OBVIOUS
  <2>1. b[1] \in H /\ b[1] \notin dead /\ b[1] # h
    BY <1>1 DEF Bonds
  <2>2. Stays(wnd[b[1]], wnd'[b[1]])
    BY <1>1, <1>2, <2>1, StaysSame DEF WndOK
  <2> QED BY <1>1, <2>1, <2>2, BondLasts
<1>5. PageOK'
  BY <1>1, <1>4, PageStays
<1> QED BY <1>1, <1>3, <1>5 DEF IInv, SlotsOK

\* A tap takes its slot from a layer.
LEMMA TapStep == IInv /\ Tap => IInv'
<1> SUFFICES ASSUME IInv, Tap PROVE IInv'
  OBVIOUS
<1>1. /\ SlotsOK /\ WndOK /\ PageOK /\ posts' = posts /\ posts \subseteq H /\ habit \in Habits /\ habit' = habit
      /\ UNCHANGED <<wnd, slots, dead>> /\ UNCHANGED <<pending, layers>>
  BY DEF IInv, Tap, Does, Others, memory, program
<1>2. SlotsOK' /\ WndOK' /\ Bonds' = Bonds
  BY <1>1, NoneChanges
<1>3. PICK k \in DOMAIN layers, what \in habit.taps :
        cmd' = [what |-> what, slot |-> layers[k].slot, wnd |-> layers[k].wnd, sure |-> layers[k].sure]
  BY DEF Tap
<1>4. what \in {"activate", "close", "restore", "minimise"}
  BY <1>1, PvWindowsAssumption
<1>5. Vouched(layers[k], Bonds)
  BY <1>1 DEF PageOK, Lines
<1>6. IsRecord(cmd', CmdFields) /\ cmd'.what = what
  BY <1>3 DEF IsRecord, CmdFields
<1>7. Vouched(cmd', Bonds')
  BY <1>2, <1>3, <1>5 DEF Vouched
<1>8. PageOK'
  <2>1. Lines(layers, Bonds') /\ Lines(pending.list, Bonds')
    BY <1>1, <1>2, LinesMore DEF PageOK
  <2> QED BY <1>1, <1>4, <1>6, <1>7, <2>1 DEF PageOK
<1> QED BY <1>1, <1>2, <1>8 DEF IInv

\* Another height, and another layout: nothing that the page has.
LEMMA HostStep == IInv /\ (ShellSize \/ SetDesktop) => IInv'
<1> SUFFICES ASSUME IInv, ShellSize \/ SetDesktop PROVE IInv'
  OBVIOUS
<1>1. /\ SlotsOK /\ WndOK /\ PageOK /\ posts' = posts /\ posts \subseteq H /\ habit' = habit
      /\ UNCHANGED <<wnd, slots, dead>> /\ UNCHANGED page
  BY DEF IInv, ShellSize, SetDesktop, Does, memory, program
<1>2. SlotsOK' /\ WndOK' /\ Bonds' = Bonds
  BY <1>1, NoneChanges
<1>3. PageOK'
  BY <1>1, <1>2, PageStays
<1> QED BY <1>1, <1>2, <1>3 DEF IInv

-----------------------------------------------------------------------------
(* The theorem.                                                            *)

LEMMA InitInv == Init => IInv
<1> SUFFICES ASSUME Init PROVE IInv
  OBVIOUS
<1>1. habit \in Habits /\ posts = {} /\ layers = <<>> /\ pending = NoList /\ cmd = None
  BY DEF Init
<1>2. SlotsOK
  BY DEF Init, SlotsOK
<1>3. WndOK
  <2>1. PICK pick :
          wnd = [h \in H |-> IF Contains(habit.open, h)
                             THEN [Closed EXCEPT !.kind = pick[h].kind, !.owner = pick[h].owner, !.style = pick[h].style,
                                     !.vis = TRUE, !.rect = pick[h].rect, !.normal = pick[h].rect, !.asked = pick[h].rect]
                             ELSE Closed]
    BY DEF Init
  <2>2. \A h \in H :
          IsWindow([Closed EXCEPT !.kind = pick[h].kind, !.owner = pick[h].owner, !.style = pick[h].style,
                      !.vis = TRUE, !.rect = pick[h].rect, !.normal = pick[h].rect, !.asked = pick[h].rect])
    BY ClosedIsWindow, FirstIsWindow
  <2>3. \A h \in H : IsWindow(wnd[h])
    BY <2>1, <2>2, ClosedIsWindow
  <2>4. wnd = [h \in H |-> wnd[h]]
    BY <2>1
  <2> QED BY <2>3, <2>4 DEF WndOK
<1>4. IsRecord(pending, {"on", "list"}) /\ pending.list = <<>>
  BY <1>1 DEF NoList, IsRecord
<1>5. PageOK
  BY <1>1, <1>4, NoLines DEF PageOK
<1> QED BY <1>1, <1>2, <1>3, <1>5 DEF IInv

LEMMA NextInv == IInv /\ [Next]_vars => IInv'
<1> SUFFICES ASSUME IInv, [Next]_vars PROVE IInv'
  OBVIOUS
<1>1. CASE Pvmon
  BY <1>1, PollStep, RunCommandStep, PlaceStep, SayStep, ParkPostedStep, ScreenStep DEF Pvmon
<1>2. CASE HookSays
  BY <1>2, HookSaysStep
<1>3. CASE Program
  BY <1>3, CreateStep, ChangeStep, HideStep, DiesStep DEF Program
<1>4. CASE Ending
  BY <1>4, DiesStep, GoneStep DEF Ending
<1>5. CASE Host
  BY <1>5, TapStep, HostStep, ScreenStep DEF Host
<1>6. CASE UNCHANGED vars
  <2>1. /\ SlotsOK /\ WndOK /\ PageOK /\ posts' = posts /\ posts \subseteq H /\ habit \in Habits /\ habit' = habit
        /\ UNCHANGED <<wnd, slots, dead>> /\ UNCHANGED page
    BY <1>6 DEF IInv, vars, program, memory
  <2>2. SlotsOK' /\ WndOK' /\ Bonds' = Bonds
    BY <2>1, NoneChanges
  <2>3. PageOK'
    BY <2>1, <2>2, PageStays
  <2> QED BY <2>1, <2>2, <2>3 DEF IInv
<1> QED BY <1>1, <1>2, <1>3, <1>4, <1>5, <1>6 DEF Next

\* The slot of a layer or a command that PVMON vouches for is that of the window
\* shown, until that is hidden or destroyed.
THEOREM SlotsHold == Spec => []SlotHolds
<1>1. IInv => SlotHolds
  BY DEF IInv, PageOK, Lines, Vouched, Bonds, SlotHolds
<1> QED BY InitInv, NextInv, <1>1, PTL DEF Spec


-----------------------------------------------------------------------------
(* Lists of windows.                                                       *)

In(x, list) == \E k \in 1 .. Len(list) : list[k] = x

\* A sequence with one more element.
LEMMA InAppended ==
  ASSUME NEW T, NEW list \in Seq(T), NEW e \in T
  PROVE  /\ Append(list, e) \in Seq(T)
         /\ \A x : In(x, Append(list, e)) <=> (In(x, list) \/ x = e)
<1>1. /\ Append(list, e) \in Seq(T) /\ Len(Append(list, e)) = Len(list) + 1 /\ Len(list) \in Nat
      /\ \A k \in 1 .. Len(list) : Append(list, e)[k] = list[k]
      /\ Append(list, e)[Len(list) + 1] = e
  OBVIOUS
<1>2. \A k \in 1 .. Len(list) + 1 : k \in 1 .. Len(list) \/ k = Len(list) + 1
  BY <1>1
<1>3. \A k \in 1 .. Len(list) : k \in 1 .. Len(list) + 1
  BY <1>1
<1>4. Len(list) + 1 \in 1 .. Len(list) + 1
  BY <1>1
<1> QED BY <1>1, <1>2, <1>3, <1>4 DEF In

\* Two sequences, one after the other.
LEMMA InJoined ==
  ASSUME NEW T, NEW p \in Seq(T), NEW q \in Seq(T)
  PROVE  /\ p \o q \in Seq(T)
         /\ \A x : In(x, p \o q) <=> (In(x, p) \/ In(x, q))
<1>1. /\ p \o q \in Seq(T) /\ Len(p \o q) = Len(p) + Len(q) /\ Len(p) \in Nat /\ Len(q) \in Nat
      /\ \A k \in 1 .. Len(p) + Len(q) : (p \o q)[k] = IF k <= Len(p) THEN p[k] ELSE q[k - Len(p)]
  OBVIOUS
<1> DEFINE m == Len(p)
           n == Len(q)
           r == p \o q
<1> HIDE DEF m, n, r
<1>2. /\ Len(r) = m + n /\ Len(p) = m /\ Len(q) = n /\ m \in Nat /\ n \in Nat
      /\ \A k \in 1 .. m + n : r[k] = IF k <= m THEN p[k] ELSE q[k - m]
  BY <1>1 DEF m, n, r
<1>3. ASSUME NEW x, In(x, r) PROVE In(x, p) \/ In(x, q)
  <2>1. PICK k \in 1 .. m + n : r[k] = x
    BY <1>2, <1>3 DEF In
  <2>2. CASE k <= m
    <3>1. k \in 1 .. m /\ p[k] = x
      BY <1>2, <2>1, <2>2
    <3> QED BY <1>2, <3>1 DEF In
  <2>3. CASE ~(k <= m)
    <3>1. k - m \in 1 .. n /\ q[k - m] = x
      BY <1>2, <2>1, <2>3
    <3> QED BY <1>2, <3>1 DEF In
  <2> QED BY <2>2, <2>3
<1>4. ASSUME NEW x, In(x, p) PROVE In(x, r)
  <2>1. PICK k \in 1 .. m : p[k] = x
    BY <1>2, <1>4 DEF In
  <2>2. k \in 1 .. m + n /\ r[k] = x
    BY <1>2, <2>1
  <2> QED BY <1>2, <2>2 DEF In
<1>5. ASSUME NEW x, In(x, q) PROVE In(x, r)
  <2>1. PICK k \in 1 .. n : q[k] = x
    BY <1>2, <1>5 DEF In
  <2>2. k + m \in 1 .. m + n /\ ~(k + m <= m) /\ (k + m) - m = k
    BY <1>2, <2>1
  <2>3. r[k + m] = x
    BY <1>2, <2>1, <2>2
  <2> QED BY <1>2, <2>2, <2>3 DEF In
<1>6. r \in Seq(T)
  BY <1>1 DEF r
<1> QED BY <1>3, <1>4, <1>5, <1>6 DEF r

\* What the recursion of Those defines: the members of a list that are in a set.
LEMMA ThoseAre ==
  ASSUME NEW T, NEW list \in Seq(T), NEW S
  PROVE  /\ Those(list, S) \in Seq(T)
         /\ \A x : In(x, Those(list, S)) <=> (In(x, list) /\ x \in S)
<1> DEFINE N == Len(list)
           Step(f, i) == IF i = 0 THEN <<>> ELSE IF list[i] \in S THEN Append(f[i - 1], list[i]) ELSE f[i - 1]
           Is(f, n) == f = [i \in 0 .. n |-> Step(f, i)]
<1>1. N \in Nat
  OBVIOUS
<1> HIDE DEF N
<1>2. \A n \in 0 .. N : \E f : Is(f, n)
  <2> DEFINE bad == {n \in 0 .. N : ~\E f : Is(f, n)}
  <2> SUFFICES ASSUME bad # {} PROVE FALSE
    OBVIOUS
  <2>1. bad \in SUBSET Nat
    <3>1. 0 .. N \subseteq Nat
      BY <1>1
    <3> QED BY <3>1, Zenon
  <2> DEFINE n == Lowest(bad)
  <2>2. n \in bad /\ \A m \in bad : n <= m
    BY <2>1, LowestIn
  <2> HIDE DEF n
  <2>3. n \in 0 .. N /\ ~\E f : Is(f, n)
    BY <2>2
  <2>4. CASE n = 0
    <3> DEFINE f == [i \in 0 .. 0 |-> <<>>]
    <3>1. f = [i \in 0 .. 0 |-> Step(f, i)]
      OBVIOUS
    <3> QED BY <2>3, <2>4, <3>1
  <2>5. CASE n # 0
    <3>1. n - 1 \in 0 .. N /\ ~(n <= n - 1) /\ n \in Nat
      BY <1>1, <2>3, <2>5
    <3>2. n - 1 \notin bad
      BY <2>2, <3>1
    <3>3. PICK f : Is(f, n - 1)
      BY <3>1, <3>2
    <3> DEFINE g == [i \in 0 .. n |-> IF i = n THEN Step(f, n) ELSE f[i]]
    <3>4. \A i \in 0 .. n - 1 : f[i] = Step(f, i)
      BY <3>3
    <3>5. \A i \in 0 .. n : g[i] = Step(g, i)
      <4> TAKE i \in 0 .. n
      <4>1. CASE i = n
        <5>1. i # 0 /\ i - 1 \in 0 .. n /\ i - 1 # n
          BY <2>5, <3>1, <4>1
        <5> QED BY <4>1, <5>1
      <4>2. CASE i # n
        <5>1. i \in 0 .. n - 1 /\ (i # 0 => i - 1 \in 0 .. n /\ i - 1 # n)
          BY <3>1, <4>2
        <5>2. g[i] = f[i] /\ (i # 0 => g[i - 1] = f[i - 1])
          BY <4>2, <5>1
        <5> QED BY <3>4, <5>1, <5>2
      <4> QED BY <4>1, <4>2
    <3>6. g = [i \in 0 .. n |-> g[i]]
      OBVIOUS
    <3> HIDE DEF g
    <3>7. Is(g, n)
      BY <3>5, <3>6
    <3> QED BY <2>3, <3>7
  <2> QED BY <2>4, <2>5
<1> DEFINE F == CHOOSE f : Is(f, N)
<1>3. Those(list, S) = F[N]
  BY DEF Those, N
<1>4. Is(F, N)
  <2>1. N \in 0 .. N
    BY <1>1
  <2>2. \E f : Is(f, N)
    BY <1>2, <2>1, Zenon
  <2> QED BY <2>2, Zenon
<1> HIDE DEF F
<1>5. \A i \in 0 .. N : F[i] = Step(F, i)
  BY <1>4
<1> HIDE DEF Is
<1> DEFINE Has(i) == F[i] \in Seq(T) /\ \A x : In(x, F[i]) <=> \E k \in 1 .. i : list[k] = x /\ x \in S
<1>6. \A i \in 0 .. N : Has(i)
  <2> DEFINE bad == {i \in 0 .. N : ~Has(i)}
  <2> SUFFICES ASSUME bad # {} PROVE FALSE
    OBVIOUS
  <2>1. bad \in SUBSET Nat
    BY <1>1
  <2> DEFINE n == Lowest(bad)
  <2>2. n \in bad /\ \A m \in bad : n <= m
    BY <2>1, LowestIn
  <2> HIDE DEF n
  <2>3. n \in 0 .. N /\ ~Has(n)
    BY <2>2
  <2>4. CASE n = 0
    <3>1. F[n] = <<>>
      BY <1>5, <2>3, <2>4
    <3>2. <<>> \in Seq(T) /\ ~\E k \in 1 .. 0 : TRUE
      OBVIOUS
    <3>3. \A x : ~In(x, <<>>)
      BY DEF In
    <3> QED BY <2>3, <2>4, <3>1, <3>2, <3>3
  <2>5. CASE n # 0
    <3>1. n - 1 \in 0 .. N /\ ~(n <= n - 1) /\ n \in 1 .. N
      BY <1>1, <2>3, <2>5
    <3>2. Has(n - 1)
      BY <2>2, <3>1
    <3>3. F[n] = IF list[n] \in S THEN Append(F[n - 1], list[n]) ELSE F[n - 1]
      BY <1>5, <2>3, <2>5
    <3>4. list[n] \in T
      BY <3>1 DEF N
    <3>5. \A k \in 1 .. n : k \in 1 .. n - 1 \/ k = n
      BY <1>1, <2>3
    <3>6. n \in 1 .. n /\ \A k \in 1 .. n - 1 : k \in 1 .. n
      BY <1>1, <3>1
    <3>7. CASE list[n] \in S
      <4>1. F[n] \in Seq(T) /\ \A x : In(x, F[n]) <=> (In(x, F[n - 1]) \/ x = list[n])
        BY <3>2, <3>3, <3>4, <3>7, InAppended
      <4>2. Has(n)
        BY <3>2, <3>5, <3>6, <3>7, <4>1
      <4> QED BY <2>3, <4>2
    <3>8. CASE list[n] \notin S
      <4>1. F[n] = F[n - 1]
        BY <3>3, <3>8
      <4>2. Has(n)
        BY <3>2, <3>5, <3>6, <3>8, <4>1
      <4> QED BY <2>3, <4>2
    <3> QED BY <3>7, <3>8
  <2> QED BY <2>4, <2>5
<1>7. N \in 0 .. N
  BY <1>1
<1>8. Has(N)
  BY <1>6, <1>7
<1>9. \A x : In(x, list) /\ x \in S <=> \E k \in 1 .. N : list[k] = x /\ x \in S
  BY DEF In, N
<1> QED BY <1>3, <1>8, <1>9

-----------------------------------------------------------------------------
(* Geometry: rectangles stay rectangles, and what keeps its size.          *)

SameSize(r, q) == r.w = q.w /\ r.h = q.h
Sizes == [w : Nat, h : Nat, real : Nat]

\* Four numbers make a rectangle.
LEMMA FourRect ==
  ASSUME NEW x \in Int, NEW y \in Int, NEW w \in Nat, NEW h \in Nat
  PROVE  [x |-> x, y |-> y, w |-> w, h |-> h] \in Rect
BY DEF Rect

\* What the arithmetic needs to know of the width of a column.
LEMMA SlotWIs == SlotW \in Nat /\ SlotW > 0 /\ SlotW \in Int /\ 2 * SlotW \in Nat
BY GeometryAssumption

\* Where a slot begins is a coordinate ...
LEMMA SlotXIs ==
  ASSUME NEW slot \in Nat
  PROVE  SlotX(slot) \in Int
BY ColumnOfSlot

\* ... and so is where a column does.
LEMMA ColumnOfIs ==
  ASSUME NEW x \in Int
  PROVE  ColumnOf(x) \in Int
BY SlotWIs DEF ColumnOf

\* The lesser of two numbers.
LEMMA LeastIs ==
  ASSUME NEW a \in Nat, NEW b \in Nat
  PROVE  Least(a, b) \in Nat /\ Least(a, b) <= a /\ Least(a, b) <= b /\ (a <= b => Least(a, b) = a)
BY DEF Least

\* Only the size is changed, or only the place.
LEMMA RectMovedIs ==
  ASSUME NEW r \in Rect, NEW a \in Int, NEW b \in Int
  PROVE  /\ [r EXCEPT !.x = a, !.y = b] \in Rect
         /\ SameSize([r EXCEPT !.x = a, !.y = b], r)
         /\ [r EXCEPT !.x = a, !.y = b].x = a /\ [r EXCEPT !.x = a, !.y = b].y = b
BY DEF Rect, SameSize

\* A rectangle with another size.
LEMMA RectResizedIs ==
  ASSUME NEW r \in Rect, NEW a \in Nat, NEW b \in Nat
  PROVE  /\ [r EXCEPT !.w = a, !.h = b] \in Rect
         /\ [r EXCEPT !.w = a, !.h = b].w = a /\ [r EXCEPT !.w = a, !.h = b].h = b
         /\ [r EXCEPT !.w = a, !.h = b].x = r.x /\ [r EXCEPT !.w = a, !.h = b].y = r.y
BY DEF Rect

\* clamp_into keeps the size.
LEMMA ClampIntoIs ==
  ASSUME NEW r \in Rect, NEW a \in Int, NEW b \in Int, NEW c \in Int
  PROVE  ClampInto(r, a, b, c) \in Rect /\ SameSize(ClampInto(r, a, b, c), r)
<1>1. r.x \in Int /\ r.y \in Int /\ r.w \in Nat /\ r.h \in Nat
  BY RectFields
<1>2. 0 \in Int /\ r.w \in Int /\ r.h \in Int
  BY <1>1
<1>3. Clamp(r.x, r.w, a, b) \in Int /\ Clamp(r.y, r.h, 0, c) \in Int
  BY <1>1, <1>2, ClampInside
<1> DEFINE cx == Clamp(r.x, r.w, a, b)
           cy == Clamp(r.y, r.h, 0, c)
<1>4. ClampInto(r, a, b, c) = [r EXCEPT !.x = cx, !.y = cy]
  BY DEF ClampInto
<1> HIDE DEF cx, cy
<1>5. cx \in Int /\ cy \in Int
  BY <1>3 DEF cx, cy
<1>6. [r EXCEPT !.x = cx, !.y = cy] \in Rect /\ SameSize([r EXCEPT !.x = cx, !.y = cy], r)
  BY <1>5, RectMovedIs, Zenon
<1> QED BY <1>4, <1>6, Zenon

\* PVHOOK's limits are sizes ...
LEMMA HookLimits ==
  ASSUME NEW s \in Style, NEW f \in Sizes
  PROVE  HookW(s, f) \in Nat /\ HookH(s, f) \in Nat
BY SlotWIs DEF HookW, HookH, Style, Sizes

\* ... and PVMON's, which leave a fixed layout at least a column.
LEMMA ParkLimits ==
  ASSUME NEW s \in Style, NEW f \in Sizes, NEW d \in BOOLEAN
  PROVE  /\ ParkW(s, d, f) \in Nat /\ ParkH(s, f) \in Nat /\ ColW(s, d) \in Nat
         /\ s.fixed => ParkW(s, d, f) >= SlotW /\ ParkH(s, f) = f.real
BY SlotWIs DEF ParkW, ParkH, ColW, Least, Style, Sizes

\* PVHOOK leaves a fixed layout its size ...
LEMMA FittedIs ==
  ASSUME NEW r \in Rect, NEW s \in Style, NEW f \in Sizes
  PROVE  Fitted(r, s, f) \in Rect /\ (s.fixed => Fitted(r, s, f) = r)
<1>1. r.w \in Nat /\ r.h \in Nat
  BY RectFields
<1>2. Least(r.w, HookW(s, f)) \in Nat /\ Least(r.h, HookH(s, f)) \in Nat
  BY <1>1, HookLimits, LeastIs
<1>3. [r EXCEPT !.w = Least(r.w, HookW(s, f)), !.h = Least(r.h, HookH(s, f))] \in Rect
  BY <1>2, RectResizedIs
<1> QED BY <1>3 DEF Fitted

\* ... when it takes it into one column ...
LEMMA InOneColumnIs ==
  ASSUME NEW r \in Rect
  PROVE  InOneColumn(r) \in Rect /\ SameSize(InOneColumn(r), r)
<1> DEFINE colX == IF r.x < SlotW THEN SlotW ELSE ColumnOf(r.x)
<1>1. r.x \in Int
  BY RectFields
<1>2. colX \in Int /\ 0 \in Int
  BY <1>1, ColumnOfIs, SlotWIs
<1>3. InOneColumn(r) = [r EXCEPT !.x = colX, !.y = 0] \/ InOneColumn(r) = r
  BY DEF InOneColumn
<1> HIDE DEF colX
<1>4. SameSize(r, r)
  BY DEF SameSize
<1> QED BY <1>2, <1>3, <1>4, RectMovedIs

\* ... and at its birth.
LEMMA BornIs ==
  ASSUME NEW r \in Rect, NEW s \in Style, NEW f \in Sizes
  PROVE  Born(r, s, f) \in Rect /\ (s.fixed => SameSize(Born(r, s, f), r))
<1> DEFINE small == IF s.fixed \/ s.keep THEN r
                    ELSE [r EXCEPT !.w = Least(@, s.size.w), !.h = Least(@, s.size.h)]
           fit == Fitted(small, s, f)
<1>1. r.w \in Nat /\ r.h \in Nat /\ s.size.w \in Nat /\ s.size.h \in Nat
  BY RectFields DEF Style
<1>2. Least(r.w, s.size.w) \in Nat /\ Least(r.h, s.size.h) \in Nat
  BY <1>1, LeastIs
<1>3. small \in Rect /\ (s.fixed => small = r)
  BY <1>2, RectResizedIs
<1> HIDE DEF small
<1>4. fit \in Rect /\ (s.fixed => fit = r)
  BY <1>3, FittedIs
<1>5. Born(r, s, f) = [fit EXCEPT !.x = SlotW, !.y = 0]
  BY DEF Born, fit, small
<1> HIDE DEF fit
<1>6. SlotW \in Int /\ 0 \in Int
  BY SlotWIs
<1>7. [fit EXCEPT !.x = SlotW, !.y = 0] \in Rect /\ SameSize([fit EXCEPT !.x = SlotW, !.y = 0], fit)
  BY <1>4, <1>6, RectMovedIs, Zenon
<1>8. Born(r, s, f) \in Rect /\ SameSize(Born(r, s, f), fit)
  BY <1>5, <1>7, Zenon
<1> QED BY <1>4, <1>8, Zenon

\* A zoomed rectangle is one.
LEMMA ZoomedIs ==
  ASSUME NEW r \in Rect, NEW s \in Style, NEW f \in Sizes
  PROVE  Zoomed(r, s, f) \in Rect
<1>1. r.w \in Nat /\ r.h \in Nat /\ r.x \in Int /\ f.w \in Nat /\ f.real \in Nat
  BY RectFields DEF Sizes
<1>2. HookH(s, f) \in Nat /\ SlotW \in Nat /\ 2 * SlotW \in Nat
  BY HookLimits, SlotWIs
<1>3. ColumnOf(r.x) \in Int
  BY <1>1, ColumnOfIs
<1> DEFINE a == IF s.fixed THEN 2 * SlotW ELSE SlotW
           b == IF s.fixed THEN f.real ELSE HookH(s, f)
           c == IF r.x >= SlotW THEN ColumnOf(r.x) ELSE SlotW
<1>4. a \in Nat /\ b \in Nat /\ c \in Int /\ 0 \in Int
  BY <1>1, <1>2, <1>3
<1>5. Zoomed(r, s, f) = IF s.fixed \/ s.keep THEN [r EXCEPT !.w = Least(r.w, a), !.h = Least(r.h, b)]
                        ELSE [x |-> c, y |-> 0, w |-> f.w, h |-> HookH(s, f)]
  BY DEF Zoomed
<1> HIDE DEF a, b, c
<1>6. Least(r.w, a) \in Nat /\ Least(r.h, b) \in Nat
  BY <1>1, <1>4, LeastIs
<1>7. [r EXCEPT !.w = Least(r.w, a), !.h = Least(r.h, b)] \in Rect
  BY <1>6, RectResizedIs
<1>8. [x |-> c, y |-> 0, w |-> f.w, h |-> HookH(s, f)] \in Rect
  BY <1>1, <1>2, <1>4, FourRect
<1> QED BY <1>5, <1>7, <1>8

\* An owned window's place, in the middle of its owner ...
LEMMA CentredIs ==
  ASSUME NEW o \in Rect, NEW w \in Nat, NEW h \in Nat
  PROVE  Centred(o, w, h) \in Rect /\ SameSize(Centred(o, w, h), [w |-> w, h |-> h])
<1>1. o.x \in Int /\ o.y \in Int /\ o.w \in Nat /\ o.h \in Nat
  BY RectFields
<1>2. (o.x + Right(o) - w) \div 2 \in Int /\ (o.y + Bottom(o) - h) \div 2 \in Int
  BY <1>1 DEF Right, Bottom
<1>3. Centred(o, w, h) \in Rect
  BY <1>2, FourRect DEF Centred
<1> QED BY <1>3 DEF Centred, SameSize

\* ... or below it or beside it, has the size asked for.
LEMMA BesideIs ==
  ASSUME NEW o \in Rect, NEW w \in Nat, NEW h \in Nat, NEW a, NEW b
  PROVE  Beside(o, w, h, a, b) \in Rect /\ SameSize(Beside(o, w, h, a, b), [w |-> w, h |-> h])
<1>1. o.x \in Int /\ o.y \in Int /\ o.w \in Nat /\ o.h \in Nat
  BY RectFields
<1>2. Right(o) \in Int /\ Bottom(o) \in Int
  BY <1>1 DEF Right, Bottom
<1>3. [x |-> o.x, y |-> Bottom(o), w |-> w, h |-> h] \in Rect /\ [x |-> Right(o), y |-> o.y, w |-> w, h |-> h] \in Rect
  BY <1>1, <1>2, FourRect
<1>4. Centred(o, w, h) \in Rect /\ SameSize(Centred(o, w, h), [w |-> w, h |-> h])
  BY CentredIs
<1> QED BY <1>3, <1>4 DEF Beside, SameSize

\* Where PVHOOK has an owned window born ...
LEMMA HookPlacedIs ==
  ASSUME NEW o \in Rect, NEW w \in Nat, NEW h \in Nat, NEW f \in Sizes
  PROVE  HookPlaced(o, w, h, f) \in Rect
<1>1. o.x \in Int /\ f.w \in Int /\ f.h \in Int /\ f.real \in Int /\ SlotW \in Int /\ 0 \in Int
  BY RectFields, SlotWIs DEF Sizes
<1> DEFINE c == ColumnOf(o.x)
<1>2. c \in Int
  BY <1>1, ColumnOfIs
<1>3. HookPlaced(o, w, h, f) = IF o.x < SlotW THEN ClampInto(Centred(o, w, h), 0, f.w, f.h)
                               ELSE ClampInto(Beside(o, w, h, c + SlotW, f.real), c, c + SlotW, f.real)
  BY DEF HookPlaced
<1> HIDE DEF c
<1>4. c + SlotW \in Int
  BY <1>1, <1>2
<1>5. Centred(o, w, h) \in Rect /\ Beside(o, w, h, c + SlotW, f.real) \in Rect
  BY CentredIs, BesideIs
<1> QED BY <1>1, <1>2, <1>3, <1>4, <1>5, ClampIntoIs

\* ... and where it keeps it, with its size.
LEMMA HookKeptIs ==
  ASSUME NEW r \in Rect, NEW o \in Rect, NEW f \in Sizes
  PROVE  HookKept(r, o, f) \in Rect /\ SameSize(HookKept(r, o, f), r)
<1>1. o.x \in Int /\ f.w \in Int /\ f.h \in Int /\ f.real \in Int /\ SlotW \in Int /\ 0 \in Int
  BY RectFields, SlotWIs DEF Sizes
<1>2. ColumnOf(o.x) \in Int /\ ColumnOf(o.x) + SlotW \in Int
  BY <1>1, ColumnOfIs
<1> QED BY <1>1, <1>2, ClampIntoIs DEF HookKept

\* apply_initial_size leaves a fixed layout alone.
LEMMA InitialIs ==
  ASSUME NEW r \in Rect, NEW s \in Style, NEW slot \in Nat, NEW f \in Sizes
  PROVE  Initial(r, s, slot, f) \in Rect /\ (s.fixed => Initial(r, s, slot, f) = r)
<1>1. s.size.w \in Nat /\ s.size.h \in Nat /\ f.real \in Nat /\ SlotW \in Nat /\ 0 \in Int
  BY SlotWIs DEF Style, Sizes
<1>2. Least(s.size.w, SlotW) \in Nat /\ Least(s.size.h, f.real) \in Nat
  BY <1>1, LeastIs
<1>3. [x |-> SlotX(slot), y |-> 0, w |-> Least(s.size.w, SlotW), h |-> Least(s.size.h, f.real)] \in Rect
  BY <1>1, <1>2, SlotXIs, FourRect
<1> QED BY <1>3 DEF Initial

\* What park does to a layout of its own that a column has room for.
Fits1(r, s, f) == s.fixed /\ r.w <= SlotW /\ r.h <= f.real

\* park keeps a size that fits.
LEMMA ParkedIs ==
  ASSUME NEW r \in Rect, NEW s \in Style, NEW slot \in Nat, NEW d \in BOOLEAN, NEW f \in Sizes
  PROVE  Parked(r, s, slot, d, f) \in Rect /\ (Fits1(r, s, f) => SameSize(Parked(r, s, slot, d, f), r))
<1>1. r.w \in Nat /\ r.h \in Nat /\ SlotX(slot) \in Int /\ 0 \in Int
  BY RectFields, SlotXIs
<1> DEFINE pw == ParkW(s, d, f)
           ph == ParkH(s, f)
<1>2. pw \in Nat /\ ph \in Nat /\ (s.fixed => pw >= SlotW /\ ph = f.real)
  BY ParkLimits
<1>3. Parked(r, s, slot, d, f) =
        IF TooLarge(r, s, d, f) THEN [x |-> SlotX(slot), y |-> 0, w |-> Least(r.w, pw), h |-> Least(r.h, ph)]
        ELSE IF r.x # SlotX(slot) \/ r.y < 0 THEN [r EXCEPT !.x = SlotX(slot), !.y = 0] ELSE r
  BY DEF Parked
<1>4. TooLarge(r, s, d, f) <=> (r.w > pw \/ r.h > ph)
  BY DEF TooLarge
<1> HIDE DEF pw, ph
<1>5. Least(r.w, pw) \in Nat /\ Least(r.h, ph) \in Nat
  BY <1>1, <1>2, LeastIs
<1>6. [x |-> SlotX(slot), y |-> 0, w |-> Least(r.w, pw), h |-> Least(r.h, ph)] \in Rect
  BY <1>1, <1>5, FourRect
<1>7. [r EXCEPT !.x = SlotX(slot), !.y = 0] \in Rect /\ SameSize([r EXCEPT !.x = SlotX(slot), !.y = 0], r)
  BY <1>1, RectMovedIs
<1>8. Parked(r, s, slot, d, f) \in Rect
  BY <1>3, <1>6, <1>7
<1>9. Fits1(r, s, f) => ~TooLarge(r, s, d, f)
  BY <1>1, <1>2, <1>4, SlotWIs DEF Fits1
<1>10. SameSize(r, r)
  BY DEF SameSize
<1> QED BY <1>3, <1>7, <1>8, <1>9, <1>10

\* So does it when it restores a window; that is then within its limits, at its slot.
LEMMA UnzoomedIs ==
  ASSUME NEW r \in Rect, NEW s \in Style, NEW slot \in Nat, NEW d \in BOOLEAN, NEW f \in Sizes
  PROVE  /\ Unzoomed(r, s, slot, d, f) \in Rect
         /\ Fits1(r, s, f) => SameSize(Unzoomed(r, s, slot, d, f), r)
         /\ Unzoomed(r, s, slot, d, f).x = SlotX(slot) /\ Unzoomed(r, s, slot, d, f).y = 0
         /\ ~TooLarge(Unzoomed(r, s, slot, d, f), s, d, f)
<1>1. r.w \in Nat /\ r.h \in Nat /\ SlotX(slot) \in Int /\ 0 \in Int
  BY RectFields, SlotXIs
<1> DEFINE pw == ParkW(s, d, f)
           ph == ParkH(s, f)
           q  == Unzoomed(r, s, slot, d, f)
           qw == IF s.fixed \/ s.keep THEN Least(r.w, pw) ELSE pw
           qh == IF s.fixed \/ s.keep THEN Least(r.h, ph) ELSE ph
<1>2. pw \in Nat /\ ph \in Nat /\ (s.fixed => pw >= SlotW /\ ph = f.real)
  BY ParkLimits
<1>3. q = [x |-> SlotX(slot), y |-> 0, w |-> qw, h |-> qh]
  BY DEF Unzoomed
<1>4. TooLarge(q, s, d, f) <=> (q.w > pw \/ q.h > ph)
  BY DEF TooLarge
<1> HIDE DEF pw, ph, q
<1>5. Least(r.w, pw) \in Nat /\ Least(r.h, ph) \in Nat /\ Least(r.w, pw) <= pw /\ Least(r.h, ph) <= ph
      /\ (r.w <= pw => Least(r.w, pw) = r.w) /\ (r.h <= ph => Least(r.h, ph) = r.h)
  BY <1>1, <1>2, LeastIs
<1>6. qw \in Nat /\ qh \in Nat /\ qw <= pw /\ qh <= ph
  BY <1>2, <1>5
<1>7. Fits1(r, s, f) => qw = r.w /\ qh = r.h
  BY <1>1, <1>2, <1>5, SlotWIs DEF Fits1
<1> HIDE DEF qw, qh
<1>8. q \in Rect
  BY <1>1, <1>3, <1>6, FourRect
<1>9. q.w = qw /\ q.h = qh /\ q.x = SlotX(slot) /\ q.y = 0
  BY <1>3
<1>10. ~TooLarge(q, s, d, f)
  BY <1>2, <1>4, <1>6, <1>9
<1> QED BY <1>7, <1>8, <1>9, <1>10 DEF SameSize, q

\* PVMON keeps the size of an owned window, in the column of its owner ...
LEMMA OwnedParkedIs ==
  ASSUME NEW r \in Rect, NEW o \in Rect, NEW slot \in Nat, NEW fresh, NEW f \in Sizes
  PROVE  OwnedParked(r, o, slot, fresh, f) \in Rect /\ SameSize(OwnedParked(r, o, slot, fresh, f), r)
<1> DEFINE c == SlotX(slot)
           b == Beside(o, r.w, r.h, c + SlotW, f.real)
<1>1. r.w \in Nat /\ r.h \in Nat /\ SlotW \in Int /\ f.real \in Int
  BY RectFields, SlotWIs DEF Sizes
<1>2. c \in Int
  BY SlotXIs
<1>3. b \in Rect /\ SameSize(b, r)
  <2>1. b \in Rect /\ SameSize(b, [w |-> r.w, h |-> r.h])
    BY <1>1, BesideIs
  <2> HIDE DEF b
  <2> QED BY <2>1 DEF SameSize
<1>4. OwnedParked(r, o, slot, fresh, f) = r \/ OwnedParked(r, o, slot, fresh, f) = ClampInto(b, c, c + SlotW, f.real)
  BY DEF OwnedParked
<1> HIDE DEF b, c
<1>5. ClampInto(b, c, c + SlotW, f.real) \in Rect /\ SameSize(ClampInto(b, c, c + SlotW, f.real), b)
  BY <1>1, <1>2, <1>3, ClampIntoIs
<1> QED BY <1>3, <1>4, <1>5 DEF SameSize

\* ... or of the shell.
LEMMA OwnedByShellIs ==
  ASSUME NEW r \in Rect, NEW o \in Rect, NEW f \in Sizes
  PROVE  OwnedByShell(r, o, f) \in Rect /\ SameSize(OwnedByShell(r, o, f), r)
<1>1. /\ r.w \in Nat /\ r.h \in Nat /\ o.y \in Int /\ o.h \in Nat
      /\ f.w \in Nat /\ f.h \in Nat /\ 0 \in Int /\ f.w \in Int /\ f.h \in Int
  BY RectFields DEF Sizes
<1> DEFINE a == (f.w - r.w) \div 2
           b == (o.y + Bottom(o) - r.h) \div 2
           q == [r EXCEPT !.x = a, !.y = b]
<1>2. a \in Int /\ b \in Int
  BY <1>1 DEF Bottom
<1>3. OwnedByShell(r, o, f) = r \/ OwnedByShell(r, o, f) = ClampInto(q, 0, f.w, f.h)
  BY DEF OwnedByShell
<1> HIDE DEF a, b
<1>4. q \in Rect /\ SameSize(q, r)
  BY <1>2, RectMovedIs
<1> HIDE DEF q
<1>5. ClampInto(q, 0, f.w, f.h) \in Rect /\ SameSize(ClampInto(q, 0, f.w, f.h), q)
  BY <1>1, <1>4, ClampIntoIs
<1> QED BY <1>3, <1>4, <1>5 DEF SameSize

\* desktop_fit keeps a size that fits.
LEMMA DesktopFitIs ==
  ASSUME NEW r \in Rect, NEW cx \in Nat, NEW cy \in Nat
  PROVE  /\ DesktopFit(r, cx, cy) \in Rect
         /\ r.w <= cx /\ r.h <= cy => SameSize(DesktopFit(r, cx, cy), r)
<1> DEFINE q == [r EXCEPT !.w = Least(@, cx), !.h = Least(@, cy)]
<1>1. r.w \in Nat /\ r.h \in Nat /\ 0 \in Int /\ cx \in Int /\ cy \in Int
  BY RectFields
<1>2. Least(r.w, cx) \in Nat /\ Least(r.h, cy) \in Nat /\ (r.w <= cx => Least(r.w, cx) = r.w) /\ (r.h <= cy => Least(r.h, cy) = r.h)
  BY <1>1, LeastIs
<1>3. q \in Rect /\ q.w = Least(r.w, cx) /\ q.h = Least(r.h, cy)
  BY <1>2, RectResizedIs
<1>4. DesktopFit(r, cx, cy) = ClampInto(q, 0, cx, cy)
  BY DEF DesktopFit
<1> HIDE DEF q
<1>5. ClampInto(q, 0, cx, cy) \in Rect /\ SameSize(ClampInto(q, 0, cx, cy), q)
  BY <1>1, <1>3, ClampIntoIs
<1> QED BY <1>2, <1>3, <1>4, <1>5 DEF SameSize

-----------------------------------------------------------------------------
(* Windows: what they are, whatever is done to them.                       *)

\* A window that there is: it has an owner if it is a dialog, and is where it
\* normally is if it is neither zoomed nor an icon.
There == [kind : {"app", "dialog", "menu"}, owner : H \cup {Shell, NoWnd}, style : Style, vis : BOOLEAN,
          mode : {"normal", "zoomed", "iconic"}, rect : Rect, normal : Rect, asked : Rect, own : BOOLEAN]
Sound(w) == w \in There /\ (w.kind = "dialog" <=> w.owner # NoWnd) /\ KeepsSize(w)
Good(w)  == Sound(w) /\ (w.mode = "normal" => w.rect = w.normal)
\* A rectangle of the size that a window must keep, if it must.
Room(w, r) == w.kind = "app" /\ w.style.fixed /\ FitsAll(w.asked) => SameSize(r, w.asked)
\* Only the place has changed.
Alike(w, v) == /\ v.kind = w.kind /\ v.owner = w.owner /\ v.style = w.style /\ v.vis = w.vis
               /\ v.asked = w.asked /\ v.own = w.own /\ (v.mode = "iconic" <=> w.mode = "iconic")

WinsOK  == \A h \in H : wnd[h] = Closed \/ Good(wnd[h])
FrameOK == /\ layout \in {"phone", "desktop"} /\ switching \in 0 .. SettlePolls
           /\ screen \in {PhoneScreen} \cup Desktops /\ shellH \in Heights /\ hookReal \in Nat

\* What both know of the screen, typed.
LEMMA Frames ==
  ASSUME FrameOK
  PROVE  /\ HookFrame \in Sizes /\ MonFrame \in Sizes /\ ShellRect \in Rect /\ WholeScreen \in Rect
         /\ screen \in [w : Nat, h : Nat] /\ MonFrame.real = screen.h /\ HookFrame.h = shellH
         /\ shellH \in Nat /\ ShellW \in Nat
<1>1. screen \in [w : Nat, h : Nat]
  BY PvWindowsAssumption DEF FrameOK
<1>2. PhoneScreen.h \in Nat
  BY PvWindowsAssumption
<1>3. shellH \in Nat
  BY <1>2, PvWindowsAssumption DEF FrameOK
<1>4. ShellW \in Nat
  BY GeometryAssumption, PvWindowsAssumption
<1>5. hookReal \in Nat /\ screen.w \in Nat /\ screen.h \in Nat
  BY <1>1 DEF FrameOK
<1> QED BY <1>1, <1>3, <1>4, <1>5 DEF HookFrame, MonFrame, ShellRect, WholeScreen, Sizes, Rect

\* A window's rectangle, or the shell's.
LEMMA RectOfIs ==
  ASSUME WinsOK, FrameOK, NEW o \in H \cup {Shell}
  PROVE  RectOf(o) \in Rect
<1>1. ShellRect \in Rect
  BY Frames
<1>2. ASSUME o \in H PROVE wnd[o].rect \in Rect
  <2>1. Closed.rect \in Rect
    BY DEF Closed, Nowhere, Rect
  <2> QED BY <1>2, <2>1 DEF WinsOK, Good, Sound, There
<1> QED BY <1>1, <1>2 DEF RectOf

\* The fields of a window ...
LEMMA SoundFields ==
  ASSUME NEW w, Sound(w)
  PROVE  /\ w.rect \in Rect /\ w.normal \in Rect /\ w.asked \in Rect /\ w.style \in Style
         /\ w.kind \in {"app", "dialog", "menu"} /\ w.owner \in H \cup {Shell, NoWnd}
         /\ w.mode \in {"normal", "zoomed", "iconic"} /\ w.vis \in BOOLEAN /\ w.own \in BOOLEAN
         /\ Room(w, w.normal) /\ w.style.fixed \in BOOLEAN
BY DEF Sound, There, Room, KeepsSize, SameSize, Style

\* ... and of one whose rectangle is its normal one.
LEMMA FieldsOf ==
  ASSUME NEW w, Good(w)
  PROVE  /\ Sound(w)
         /\ w.rect \in Rect /\ w.normal \in Rect /\ w.asked \in Rect /\ w.style \in Style
         /\ w.kind \in {"app", "dialog", "menu"} /\ w.owner \in H \cup {Shell, NoWnd}
         /\ w.mode \in {"normal", "zoomed", "iconic"} /\ w.vis \in BOOLEAN /\ w.own \in BOOLEAN
         /\ Room(w, w.normal) /\ (w.mode = "normal" => Room(w, w.rect))
         /\ w.style.fixed \in BOOLEAN
BY SoundFields DEF Good

\* A size that fits all screens.
LEMMA FitsScreen ==
  ASSUME FrameOK, NEW a \in Rect, FitsAll(a)
  PROVE  a.w <= SlotW /\ a.w <= screen.w /\ a.h <= screen.h /\ ~Fills(a, screen.w, screen.h)
<1>1. a.w \in Nat /\ a.h \in Nat /\ a.w <= SlotW /\ a.h <= PhoneScreen.h
  BY RectFields DEF FitsAll
<1>2. CASE screen \in Desktops
  BY <1>1, <1>2 DEF FitsAll
<1>3. CASE screen = PhoneScreen
  <2>1. PhoneScreen.w \in Nat /\ MaxSlots \in Nat \ {0} /\ PhoneScreen.w >= SlotW * (MaxSlots + 1) /\ SlotW \in Nat /\ SlotW > 0
    BY PvWindowsAssumption, SlotWIs
  <2>2. SlotW * (MaxSlots + 1) >= 2 * SlotW
    BY <2>1
  <2> DEFINE p == PhoneScreen.w
  <2>3. p >= 2 * SlotW /\ p \in Nat
    BY <2>1, <2>2
  <2> HIDE DEF p
  <2>4. a.w <= p /\ ~(a.w >= p - p \div 20)
    BY <1>1, <2>1, <2>3
  <2> QED BY <1>1, <1>3, <2>4 DEF Fills, p
<1> QED BY <1>2, <1>3 DEF FrameOK

\* SetWindowPos.
LEMMA AtGood ==
  ASSUME NEW w, Sound(w), NEW r \in Rect, w.mode = "normal" => Room(w, r)
  PROVE  Good(At(w, r)) /\ Alike(w, At(w, r)) /\ At(w, r).rect = r /\ At(w, r).mode = w.mode
<1> DEFINE n == IF w.mode = "normal" THEN r ELSE w.normal
           v == At(w, r)
<1>1. w \in There /\ n \in Rect
  BY DEF Sound, There
<1>2. v = [w EXCEPT !.rect = r, !.normal = n]
  BY DEF At
<1> HIDE DEF v
<1>3. /\ v \in There /\ v.rect = r /\ v.normal = n /\ v.kind = w.kind /\ v.owner = w.owner /\ v.style = w.style
      /\ v.vis = w.vis /\ v.asked = w.asked /\ v.own = w.own /\ v.mode = w.mode
  BY <1>1, <1>2 DEF There
<1>4. v.mode = "normal" => v.rect = v.normal
  BY <1>3
<1>5. Room(w, n)
  BY SoundFields
<1> HIDE DEF n
<1>6. KeepsSize(v)
  BY <1>3, <1>5 DEF KeepsSize, Room, SameSize
<1>7. v.kind = "dialog" <=> v.owner # NoWnd
  BY <1>3 DEF Sound
<1> QED BY <1>3, <1>4, <1>6, <1>7 DEF Good, Sound, Alike, v

\* PVHOOK's WM_WINDOWPOSCHANGING keeps the size of a fixed layout.
LEMMA HookKeepsIs ==
  ASSUME WinsOK, FrameOK, NEW w, Sound(w), NEW r \in Rect
  PROVE  /\ HookKeeps(w, r) \in Rect
         /\ Room(w, r) => Room(w, HookKeeps(w, r))
<1>1. HookFrame \in Sizes /\ w.style \in Style
  BY Frames, SoundFields
<1>2. CASE w.owner # NoWnd
  <2>1. w.kind = "dialog" /\ w.owner \in H \cup {Shell}
    BY <1>2, SoundFields DEF Sound
  <2>2. HookKept(r, RectOf(w.owner), HookFrame) \in Rect
    BY <1>1, <2>1, RectOfIs, HookKeptIs
  <2>3. HookKeeps(w, r) = r \/ HookKeeps(w, r) = HookKept(r, RectOf(w.owner), HookFrame)
    BY <1>2 DEF HookKeeps
  <2> QED BY <2>1, <2>2, <2>3 DEF Room
<1>3. CASE w.owner = NoWnd
  <2>1. Fitted(r, w.style, HookFrame) \in Rect /\ (w.style.fixed => Fitted(r, w.style, HookFrame) = r)
    BY <1>1, FittedIs
  <2>2. HookKeeps(w, r) = r \/ HookKeeps(w, r) = Fitted(r, w.style, HookFrame)
    BY <1>3 DEF HookKeeps
  <2> QED BY <2>1, <2>2 DEF Room
<1> QED BY <1>2, <1>3

\* SetWindowPos to a rectangle of the size that the window must keep ...
LEMMA MovedSound ==
  ASSUME WinsOK, FrameOK, NEW w, Sound(w), NEW r \in Rect, w.mode = "normal" => Room(w, r)
  PROVE  /\ Good(Moved(w, r)) /\ Alike(w, Moved(w, r))
         /\ Moved(w, r).rect = HookKeeps(w, r) /\ Moved(w, r).mode = w.mode
<1> DEFINE q == HookKeeps(w, r)
<1>1. q \in Rect /\ (w.mode = "normal" => Room(w, q))
  BY HookKeepsIs
<1>2. Moved(w, r) = At(w, q)
  BY DEF Moved
<1> HIDE DEF q
<1> QED BY <1>1, <1>2, AtGood DEF q

\* ... leaves it a window that has kept it.
LEMMA MovedGood ==
  ASSUME WinsOK, FrameOK, NEW w, Good(w), NEW r \in Rect, w.mode = "normal" => Room(w, r)
  PROVE  /\ Good(Moved(w, r)) /\ Alike(w, Moved(w, r))
         /\ Moved(w, r).rect = HookKeeps(w, r) /\ Moved(w, r).mode = w.mode
BY MovedSound DEF Good

\* Windows that are alike but for their place.
LEMMA AlikeTwice ==
  ASSUME NEW u, NEW v, NEW w, Alike(u, v), Alike(v, w)
  PROVE  Alike(u, w)
BY DEF Alike

\* A window is like itself.
LEMMA AlikeSame ==
  ASSUME NEW w
  PROVE  Alike(w, w)
BY DEF Alike

\* Sizes that must be kept are, by rectangles of the same size.
LEMMA RoomSame ==
  ASSUME NEW w, NEW r, NEW q, Room(w, r), w.style.fixed /\ FitsAll(w.asked) /\ SameSize(r, w.asked) => SameSize(q, r)
  PROVE  Room(w, q)
BY DEF Room, SameSize

\* Windows that are alike must keep the same size.
LEMMA RoomAlike ==
  ASSUME NEW v, NEW w, Alike(v, w), NEW r
  PROVE  Room(w, r) <=> Room(v, r)
BY DEF Room, Alike

\* The size that a window must keep is within park's limits.
LEMMA RoomFits ==
  ASSUME FrameOK, NEW w, Good(w), NEW r \in Rect, w.style.fixed, FitsAll(w.asked), SameSize(r, w.asked)
  PROVE  Fits1(r, w.style, MonFrame)
<1>1. w.asked \in Rect /\ MonFrame.real = screen.h
  BY FieldsOf, Frames
<1>2. w.asked.w <= SlotW /\ w.asked.h <= screen.h
  BY <1>1, FitsScreen
<1> QED BY <1>1, <1>2 DEF Fits1, SameSize

\* park.
LEMMA ParksGood ==
  ASSUME WinsOK, FrameOK, NEW w, Good(w), NEW h, NEW slot \in Nat, NEW s, NEW first
  PROVE  Good(Parks(w, h, slot, s, first)) /\ Alike(w, Parks(w, h, slot, s, first))
<1> DEFINE at  == IF first THEN Moved(w, Initial(w.rect, w.style, slot, MonFrame)) ELSE w
           two == Double(h, slot, s)
           out == [at EXCEPT !.mode = "normal", !.rect = at.normal]
<1>0. MonFrame \in Sizes /\ two \in BOOLEAN /\ w.rect \in Rect /\ w.style \in Style
  BY Frames, FieldsOf DEF Double
<1>1. Good(at) /\ Alike(w, at)
  <2> DEFINE q == Initial(w.rect, w.style, slot, MonFrame)
  <2>1. q \in Rect /\ (w.style.fixed => q = w.rect)
    BY <1>0, InitialIs
  <2>2. w.mode = "normal" => Room(w, q)
    BY <2>1, FieldsOf DEF Room
  <2> HIDE DEF q
  <2>3. Good(Moved(w, q)) /\ Alike(w, Moved(w, q))
    BY <2>1, <2>2, MovedGood
  <2> QED BY <2>3, AlikeSame DEF q
<1>2. Parks(w, h, slot, s, first) =
        IF at.mode # "zoomed" THEN Moved(at, Parked(at.rect, w.style, slot, two, MonFrame))
        ELSE IF MayStayZoomed(at.rect, w.style, slot, two, MonFrame) THEN at
        ELSE Moved(out, Unzoomed(at.normal, w.style, slot, two, MonFrame))
  BY DEF Parks
<1> HIDE DEF at, two
<1>3. at.rect \in Rect /\ at.normal \in Rect /\ at.style = w.style
  BY <1>1, FieldsOf DEF Alike
<1>4. ASSUME at.mode # "zoomed"
      PROVE  LET p == Moved(at, Parked(at.rect, w.style, slot, two, MonFrame)) IN Good(p) /\ Alike(at, p)
  <2> DEFINE q == Parked(at.rect, w.style, slot, two, MonFrame)
  <2>1. q \in Rect /\ (Fits1(at.rect, w.style, MonFrame) => SameSize(q, at.rect))
    BY <1>0, <1>3, ParkedIs
  <2> HIDE DEF q
  <2>2. at.mode = "normal" => Room(at, q)
    <3> SUFFICES ASSUME at.mode = "normal" PROVE Room(at, q)
      OBVIOUS
    <3>1. Room(at, at.rect)
      BY <1>1, FieldsOf
    <3>2. at.style.fixed /\ FitsAll(at.asked) /\ SameSize(at.rect, at.asked) => Fits1(at.rect, w.style, MonFrame)
      BY <1>1, <1>3, RoomFits
    <3> QED BY <2>1, <3>1, <3>2, RoomSame
  <2> QED BY <1>1, <2>1, <2>2, MovedGood DEF q
<1>5. ASSUME at.mode = "zoomed"
      PROVE  LET p == Moved(out, Unzoomed(at.normal, w.style, slot, two, MonFrame)) IN Good(p) /\ Alike(at, p)
  <2> DEFINE q == Unzoomed(at.normal, w.style, slot, two, MonFrame)
  <2>1. q \in Rect /\ (Fits1(at.normal, w.style, MonFrame) => SameSize(q, at.normal))
    BY <1>0, <1>3, UnzoomedIs
  <2> HIDE DEF q
  <2>2. Good(out) /\ Alike(at, out) /\ out.normal = at.normal
    <3>1. at \in There
      BY <1>1 DEF Good, Sound
    <3>2. /\ out \in There /\ out.mode = "normal" /\ out.rect = at.normal /\ out.normal = at.normal /\ out.kind = at.kind
          /\ out.owner = at.owner /\ out.style = at.style /\ out.vis = at.vis /\ out.asked = at.asked /\ out.own = at.own
      BY <3>1 DEF There
    <3> HIDE DEF out
    <3>3. KeepsSize(out)
      BY <1>1, <3>2 DEF Good, Sound, KeepsSize
    <3> QED BY <1>1, <1>5, <3>2, <3>3 DEF Good, Sound, Alike
  <2> HIDE DEF out
  <2>3. Room(out, q)
    <3>1. Room(out, at.normal)
      BY <2>2, FieldsOf
    <3>2. out.style.fixed /\ FitsAll(out.asked) /\ SameSize(at.normal, out.asked) => Fits1(at.normal, w.style, MonFrame)
      BY <1>3, <2>2, RoomFits DEF Alike
    <3> QED BY <2>1, <3>1, <3>2, RoomSame
  <2>4. Good(Moved(out, q)) /\ Alike(out, Moved(out, q))
    BY <2>1, <2>2, <2>3, MovedGood
  <2>5. Alike(at, Moved(out, q))
    BY <2>2, <2>4, AlikeTwice
  <2> QED BY <2>4, <2>5 DEF q
<1>6. CASE at.mode # "zoomed"
  BY <1>1, <1>2, <1>4, <1>6, AlikeTwice
<1>7. CASE at.mode = "zoomed"
  BY <1>1, <1>2, <1>5, <1>7, AlikeTwice
<1> QED BY <1>6, <1>7

\* What programs and users do to a window, and what PVMON is told to.
LEMMA ActivatedGood ==
  ASSUME WinsOK, FrameOK, NEW w, Good(w)
  PROVE  Good(Activated(w)) /\ Alike(w, Activated(w)) /\ (w.kind # "app" => Activated(w) = w)
<1> DEFINE q == IF w.style.fixed THEN InOneColumn(w.rect) ELSE Fitted(w.rect, w.style, HookFrame)
<1>1. w.rect \in Rect /\ w.style \in Style /\ HookFrame \in Sizes
  BY FieldsOf, Frames
<1>2. InOneColumn(w.rect) \in Rect /\ SameSize(InOneColumn(w.rect), w.rect) /\ Fitted(w.rect, w.style, HookFrame) \in Rect
  BY <1>1, InOneColumnIs, FittedIs
<1>3. q \in Rect
  BY <1>2
<1>4. w.mode = "normal" => Room(w, q)
  <2> SUFFICES ASSUME w.mode = "normal" PROVE Room(w, q)
    OBVIOUS
  <2>1. Room(w, w.rect)
    BY FieldsOf
  <2> QED BY <1>2, <2>1 DEF Room, SameSize
<1>5. Activated(w) = IF Phone /\ w.kind = "app" /\ w.mode = "normal" THEN Moved(w, q) ELSE w
  BY DEF Activated
<1> HIDE DEF q
<1>6. Good(Moved(w, q)) /\ Alike(w, Moved(w, q))
  BY <1>3, <1>4, MovedGood
<1> QED BY <1>5, <1>6, AlikeSame

\* What programs do to their windows: zooming ...
LEMMA MaximisedGood ==
  ASSUME WinsOK, FrameOK, NEW w, Good(w)
  PROVE  Good(Maximised(w))
<1> DEFINE q == IF Phone THEN Zoomed(w.normal, w.style, HookFrame) ELSE WholeScreen
           v == Maximised(w)
<1>1. w.normal \in Rect /\ w.style \in Style /\ HookFrame \in Sizes /\ WholeScreen \in Rect /\ w \in There
  BY FieldsOf, Frames DEF Good, Sound
<1>2. q \in Rect
  BY <1>1, ZoomedIs
<1>3. v = [w EXCEPT !.mode = "zoomed", !.rect = q]
  BY DEF Maximised
<1> HIDE DEF q, v
<1>4. /\ v \in There /\ v.mode = "zoomed" /\ v.normal = w.normal /\ v.kind = w.kind /\ v.owner = w.owner
      /\ v.style = w.style /\ v.asked = w.asked
  BY <1>1, <1>2, <1>3 DEF There
<1>5. Good(v)
  BY <1>4 DEF Good, Sound, KeepsSize
<1> QED BY <1>5 DEF v

\* ... making an icon ...
LEMMA MinimisedGood ==
  ASSUME NEW w, Good(w)
  PROVE  /\ Good(Minimised(w)) /\ Minimised(w).rect = Nowhere
         /\ Minimised(w).kind = w.kind /\ Minimised(w).normal = w.normal /\ Minimised(w).asked = w.asked /\ Minimised(w).own = w.own
<1> DEFINE v == Minimised(w)
<1>1. w \in There /\ Nowhere \in Rect
  BY DEF Good, Sound, Nowhere, Rect
<1>2. v = [w EXCEPT !.mode = "iconic", !.vis = TRUE, !.rect = Nowhere]
  BY DEF Minimised
<1> HIDE DEF v
<1>3. /\ v \in There /\ v.mode = "iconic" /\ v.rect = Nowhere /\ v.normal = w.normal /\ v.kind = w.kind /\ v.owner = w.owner
      /\ v.style = w.style /\ v.asked = w.asked /\ v.own = w.own
  BY <1>1, <1>2 DEF There
<1>4. Good(v)
  BY <1>3 DEF Good, Sound, KeepsSize
<1> QED BY <1>3, <1>4 DEF v

\* ... showing and hiding ...
LEMMA VisibleGood ==
  ASSUME NEW w, Good(w), NEW b \in BOOLEAN
  PROVE  LET v == [w EXCEPT !.vis = b] IN
         Good(v) /\ v.kind = w.kind /\ v.rect = w.rect /\ v.normal = w.normal /\ v.asked = w.asked /\ v.own = w.own /\ v.mode = w.mode
<1> DEFINE v == [w EXCEPT !.vis = b]
<1>1. w \in There
  BY DEF Good, Sound
<1>3. /\ v \in There /\ v.mode = w.mode /\ v.rect = w.rect /\ v.normal = w.normal /\ v.kind = w.kind /\ v.owner = w.owner
      /\ v.style = w.style /\ v.asked = w.asked /\ v.own = w.own
  BY <1>1 DEF There
<1> HIDE DEF v
<1>4. Good(v)
  BY <1>3 DEF Good, Sound, KeepsSize
<1> QED BY <1>3, <1>4 DEF v

\* ... placing it themselves ...
LEMMA OwnGood ==
  ASSUME NEW w, Good(w), NEW b \in BOOLEAN
  PROVE  LET v == [w EXCEPT !.own = b] IN
         Good(v) /\ v.kind = w.kind /\ v.owner = w.owner /\ v.style = w.style /\ v.vis = w.vis /\ v.mode = w.mode
         /\ v.rect = w.rect /\ v.normal = w.normal /\ v.own = b /\ v.asked = w.asked
<1> DEFINE v == [w EXCEPT !.own = b]
<1>1. w \in There
  BY DEF Good, Sound
<1>3. /\ v \in There /\ v.mode = w.mode /\ v.rect = w.rect /\ v.normal = w.normal /\ v.kind = w.kind /\ v.owner = w.owner
      /\ v.style = w.style /\ v.asked = w.asked /\ v.own = b /\ v.vis = w.vis
  BY <1>1 DEF There
<1> HIDE DEF v
<1>4. Good(v)
  BY <1>3 DEF Good, Sound, KeepsSize
<1> QED BY <1>3, <1>4 DEF v

\* ... and restoring.
LEMMA RestoredGood ==
  ASSUME WinsOK, FrameOK, NEW w, Good(w)
  PROVE  /\ Good(Restored(w)) /\ Restored(w).kind = w.kind
         /\ w.mode = "normal" => /\ Restored(w).normal = w.normal /\ Restored(w).asked = w.asked
                                 /\ Restored(w).own = w.own /\ Restored(w).rect = w.rect
         /\ w.mode # "normal" => Restored(w).own
<1>1. CASE w.mode = "normal"
  <2>1. Restored(w) = [w EXCEPT !.vis = TRUE]
    BY <1>1 DEF Restored
  <2> QED BY <1>1, <2>1, VisibleGood
<1>2. CASE w.mode # "normal"
  <2> DEFINE v == [w EXCEPT !.mode = "normal", !.vis = TRUE, !.own = TRUE]
  <2>1. w \in There /\ w.normal \in Rect
    BY FieldsOf DEF Good, Sound
  <2>2. /\ v \in There /\ v.mode = "normal" /\ v.normal = w.normal /\ v.kind = w.kind /\ v.owner = w.owner
        /\ v.style = w.style /\ v.asked = w.asked /\ v.own = TRUE
    BY <2>1 DEF There
  <2>3. Restored(w) = Moved(v, w.normal)
    BY <1>2 DEF Restored
  <2> HIDE DEF v
  <2>4. Sound(v)
    BY <2>2 DEF Good, Sound, KeepsSize
  <2>5. Room(v, w.normal)
    BY <2>2, <2>4, SoundFields
  <2>6. Good(Moved(v, w.normal)) /\ Alike(v, Moved(v, w.normal))
    BY <2>1, <2>4, <2>5, MovedSound
  <2> QED BY <1>2, <2>2, <2>3, <2>6 DEF Alike
<1> QED BY <1>1, <1>2

\* A window of another size, which is then the one it has asked for, or moved.
LEMMA AskedGood ==
  ASSUME WinsOK, FrameOK, NEW w, Good(w), w.mode = "normal", NEW r \in Rect
  PROVE  Good([Moved(w, r) EXCEPT !.asked = r, !.own = TRUE])
<1> DEFINE q == HookKeeps(w, r)
           m == Moved(w, r)
           v == [m EXCEPT !.asked = r, !.own = TRUE]
<1>1. q \in Rect /\ w \in There
  BY HookKeepsIs DEF Good, Sound
<1>2. w.kind = "app" /\ w.style.fixed => q = r
  <2>1. Fitted(r, w.style, HookFrame) = r \/ ~w.style.fixed
    BY DEF Fitted
  <2>2. w.kind = "app" => w.owner = NoWnd
    BY FieldsOf DEF Good, Sound
  <2> QED BY <2>1, <2>2 DEF HookKeeps
<1>3. m = [w EXCEPT !.rect = q, !.normal = q]
  BY DEF Moved, At
<1> HIDE DEF q
<1>4. v = [w EXCEPT !.rect = q, !.normal = q, !.asked = r, !.own = TRUE]
  BY <1>1, <1>3 DEF There
<1> HIDE DEF v, m
<1>5. /\ v \in There /\ v.mode = w.mode /\ v.rect = q /\ v.normal = q /\ v.kind = w.kind /\ v.owner = w.owner
      /\ v.style = w.style /\ v.asked = r
  BY <1>1, <1>4 DEF There
<1>6. Good(v)
  BY <1>2, <1>5 DEF Good, Sound, KeepsSize
<1> QED BY <1>6 DEF v, m

\* A move keeps the size: of a layout of its own, what it must be.
LEMMA MovesGood ==
  ASSUME WinsOK, FrameOK, NEW w, Good(w), NEW r \in Rect, SameSize(r, w.rect)
  PROVE  Good([Moved(w, r) EXCEPT !.own = TRUE])
<1>1. w.mode = "normal" => Room(w, r)
  BY FieldsOf DEF Room, SameSize
<1>2. Good(Moved(w, r))
  BY <1>1, MovedGood
<1> DEFINE m == Moved(w, r)
<1> HIDE DEF m
<1>3. Good([m EXCEPT !.own = TRUE])
  BY <1>2, OwnGood DEF m
<1> QED BY <1>3 DEF m

\* What the page commands.
LEMMA OrderedGood ==
  ASSUME WinsOK, FrameOK, NEW w, Good(w), NEW what \in {"activate", "close", "restore", "minimise"}
  PROVE  Good(Ordered(w, what)) /\ Ordered(w, what).kind = w.kind
<1>1. Good(Activated(w)) /\ Activated(w).kind = w.kind
  BY ActivatedGood DEF Alike
<1>2. Good(Restored(w)) /\ Restored(w).kind = w.kind
  BY RestoredGood
<1>3. Good(Activated(Restored(w))) /\ Activated(Restored(w)).kind = w.kind
  BY <1>2, ActivatedGood DEF Alike
<1>4. Good(Minimised(w)) /\ Minimised(w).kind = w.kind
  BY MinimisedGood
<1> QED BY <1>1, <1>3, <1>4 DEF Ordered

\* fit_windows: whatever fits every screen and fills none keeps its size.
LEMMA FitWindowGood ==
  ASSUME WinsOK, FrameOK, NEW w, Good(w), NEW now \in Desktops, NEW was, was = None \/ was = screen
  PROVE  /\ Good(FitWindow(w, was, now)) /\ FitWindow(w, was, now).kind = w.kind
         /\ ~FitWindow(w, was, now).own /\ OnScreen(FitWindow(w, was, now).rect, now.w, now.h)
         /\ FitWindow(w, was, now).mode = w.mode
<1>1. w.rect \in Rect /\ w.asked \in Rect /\ now.w \in Nat /\ now.h \in Nat /\ 0 \in Int
  BY FieldsOf, PvWindowsAssumption
<1> DEFINE all == [x |-> 0, y |-> 0, w |-> now.w, h |-> now.h]
           fit == DesktopFit(w.rect, now.w, now.h)
           q   == IF w.mode = "zoomed" \/ (was # None /\ Fills(w.rect, was.w, was.h)) THEN all ELSE fit
<1>2. /\ fit \in Rect /\ OnScreen(fit, now.w, now.h)
      /\ w.rect.w <= now.w /\ w.rect.h <= now.h => SameSize(fit, w.rect)
  BY <1>1, DesktopFitIs, DesktopFitStays
<1>3. all \in Rect /\ OnScreen(all, now.w, now.h)
  BY <1>1, FourRect DEF OnScreen, Right, Bottom
<1> HIDE DEF all, fit
<1>4. w.mode = "normal" => Room(w, q)
  <2> SUFFICES ASSUME w.mode = "normal", w.kind = "app", w.style.fixed, FitsAll(w.asked)
               PROVE  SameSize(q, w.asked)
    BY DEF Room
  <2>1. SameSize(w.rect, w.asked)
    BY FieldsOf DEF Room
  <2>2. w.asked.w <= now.w /\ w.asked.h <= now.h
    BY DEF FitsAll
  <2>3. was # None => ~Fills(w.asked, was.w, was.h)
    BY <1>1, FitsScreen
  <2>4. ~(was # None /\ Fills(w.rect, was.w, was.h))
    BY <2>1, <2>3 DEF Fills, SameSize
  <2> QED BY <1>2, <2>1, <2>2, <2>4 DEF SameSize
<1>5. FitWindow(w, was, now) = [At(w, q) EXCEPT !.own = FALSE]
  BY DEF FitWindow, all, fit
<1>6. q \in Rect /\ OnScreen(q, now.w, now.h)
  BY <1>2, <1>3
<1> HIDE DEF q
<1> DEFINE a == At(w, q)
<1>7. Good(a) /\ Alike(w, a) /\ a.rect = q /\ a.mode = w.mode
  BY <1>4, <1>6, AtGood DEF Good
<1> HIDE DEF a
<1>8. /\ Good([a EXCEPT !.own = FALSE]) /\ [a EXCEPT !.own = FALSE].kind = a.kind /\ ~[a EXCEPT !.own = FALSE].own
      /\ [a EXCEPT !.own = FALSE].rect = a.rect /\ [a EXCEPT !.own = FALSE].mode = a.mode
  BY <1>7, OwnGood
<1> QED BY <1>5, <1>6, <1>7, <1>8 DEF a, Alike

\* One that is new.
Described(d) == /\ d.kind \in {"app", "dialog", "menu"} /\ d.owner \in H \cup {Shell, NoWnd}
                /\ d.kind = "dialog" <=> d.owner # NoWnd
                /\ d.style \in Style /\ d.rect \in Rect

\* The windows that may be created are as their descriptions.
LEMMA HabitsDescribe ==
  ASSUME NEW b \in Habits, NEW h \in H, NEW d \in b.as[h]
  PROVE  Described(d)
<1>1. d \in [kind : {"app", "menu"}, owner : {NoWnd}, style : Style, rect : Rect]
              \cup [kind : {"dialog"}, owner : H \cup {Shell}, style : Style, rect : Rect]
  BY PvWindowsAssumption
<1>2. NoWnd \notin H \cup {Shell}
  BY PvWindowsAssumption
<1> QED BY <1>1, <1>2 DEF Described

\* A window as it is created.
LEMMA OpenedGood ==
  ASSUME WinsOK, FrameOK, NEW h, NEW d, Described(d)
  PROVE  /\ Good(Opened(h, d, Birth(d))) /\ Opened(h, d, Birth(d)).kind = d.kind
         /\ d.kind = "menu" => Opened(h, d, Birth(d)).normal = Opened(h, d, Birth(d)).asked
         /\ Opened(h, d, Birth(d)).own = Mistaken(h, d)
<1> DEFINE r == Birth(d)
           v == Opened(h, d, r)
<1>1. HookFrame \in Sizes /\ d.rect \in Rect /\ d.rect.w \in Nat /\ d.rect.h \in Nat /\ d.style \in Style
  BY Frames, RectFields DEF Described
<1>2. r \in Rect /\ (d.kind = "app" /\ d.style.fixed => SameSize(r, d.rect)) /\ (d.kind = "menu" => r = d.rect)
  <2>1. CASE d.owner # NoWnd /\ d.kind = "dialog"
    <3>1. RectOf(d.owner) \in Rect
      BY <2>1, RectOfIs DEF Described
    <3>2. HookPlaced(RectOf(d.owner), d.rect.w, d.rect.h, HookFrame) \in Rect
      BY <1>1, <3>1, HookPlacedIs
    <3> QED BY <1>1, <2>1, <3>2 DEF Birth
  <2>2. CASE d.owner = NoWnd /\ d.kind # "dialog"
    <3>1. Born(d.rect, d.style, HookFrame) \in Rect /\ (d.style.fixed => SameSize(Born(d.rect, d.style, HookFrame), d.rect))
      BY <1>1, BornIs
    <3>2. SameSize(d.rect, d.rect)
      BY DEF SameSize
    <3> QED BY <1>1, <2>2, <3>1, <3>2 DEF Birth
  <2> QED BY <2>1, <2>2 DEF Described
<1> HIDE DEF r
<1>3. v = [kind |-> d.kind, owner |-> d.owner, style |-> d.style, vis |-> FALSE, mode |-> "normal",
           rect |-> r, normal |-> r, asked |-> d.rect, own |-> Mistaken(h, d)]
  BY DEF Opened
<1>4. Mistaken(h, d) \in BOOLEAN
  BY DEF Mistaken
<1> HIDE DEF v
<1>5. v \in There /\ v.kind = d.kind /\ v.owner = d.owner /\ v.style = d.style /\ v.mode = "normal" /\ v.rect = r
      /\ v.normal = r /\ v.asked = d.rect /\ v.own = Mistaken(h, d)
  BY <1>1, <1>2, <1>3, <1>4 DEF There, Described
<1>6. Good(v)
  BY <1>2, <1>5 DEF Good, Sound, KeepsSize, SameSize, Described
<1> QED BY <1>2, <1>5, <1>6 DEF v, r

-----------------------------------------------------------------------------
(* The types, and what menus there are.                                    *)

Entries == {i \in [wnd : H, kind : {"A", "O", "T", "I"}, owner : H \cup {Shell, NoWnd}] : i.kind = "O" => i.owner # NoWnd}
Jobs    == {t \in [do : {"slot", "own", "fit"}, item : Entries] : t.do = "own" => t.item.kind = "O"}

SeenOK   == /\ left \in Nat /\ dead \subseteq H /\ fitted \subseteq H
            /\ z \in Seq(H) /\ sized \in Seq(H) /\ owned \in Seq(H)
HookOK   == IsRecord(hook, {"on", "skip", "force", "at"}) /\ hook.on \in BOOLEAN /\ hook.at \in H \cup {NoWnd}
PassOK   == /\ IsRecord(mon, {"pc", "list", "todo"}) /\ mon.pc \in {"idle", "collect", "place", "say"}
            /\ mon.pc = "place" => mon.list \in Seq(Entries) /\ mon.todo \in Seq(Jobs)
            /\ mon.pc = "say" => mon.todo \in Seq(Entries)
LayersOK == layers \in Seq(Layer) /\ pending.list \in Seq(Layer)
\* A menu that PVMON does not take for another window is where it was to be, and
\* PVMON is not going to do anything to it.
MenusOK  == \A h \in H : wnd[h].kind = "menu" /\ ~wnd[h].own
              => wnd[h].normal = wnd[h].asked /\ h \notin posts /\ ~InPass(h)
Typed == /\ SeenOK /\ FrameOK /\ WinsOK /\ HookOK /\ PassOK /\ LayersOK /\ MenusOK
         /\ dirty \in BOOLEAN /\ calm \in BOOLEAN
TInv  == IInv /\ Typed

\* Whether a menu is where it was, and what is posted of it.
Puts(w, v) == v.kind = "menu" /\ ~v.own => /\ w.kind = "menu" /\ ~w.own /\ v.normal = w.normal /\ v.asked = w.asked
                                          /\ v.rect \in {w.rect, Nowhere}

\* What is posted is no menu, but one taken for another window.
LEMMA PostsNoMenu ==
  ASSUME FrameOK, NEW h \in H, NEW w, NEW queue, Puts(wnd[h], w)
  PROVE  \A g \in Posted(queue, h, w) : g \in queue \/ (g = h /\ (w.kind = "menu" => w.own))
<1> SUFFICES ASSUME NEW g \in Posted(queue, h, w), g \notin queue PROVE g = h /\ (w.kind = "menu" => w.own)
  OBVIOUS
<1>1. g = h /\ Oversized(wnd[h], w.rect)
  BY DEF Posted
<1>2. ShellW \in Nat /\ shellH \in Nat
  BY Frames
<1>3. w.rect \notin {wnd[h].rect, Nowhere}
  BY <1>1, <1>2 DEF Oversized, Nowhere
<1> QED BY <1>1, <1>3 DEF Puts

\* A step that changes one window.
LEMMA WindowStep ==
  ASSUME WndOK, WinsOK, FrameOK, MenusOK, NEW h \in H, NEW w, w = Closed \/ Good(w), Puts(wnd[h], w),
         wnd' = [wnd EXCEPT ![h] = w],
         NEW queue, queue \subseteq posts, posts' = posts \/ posts' = Posted(queue, h, w),
         \A g \in H : InPass(g)' => InPass(g)
  PROVE  WinsOK' /\ MenusOK'
<1>1. \A g \in H : wnd'[g] = IF g = h THEN w ELSE wnd[g]
  BY DEF WndOK
<1>2. WinsOK'
  BY <1>1 DEF WinsOK
<1>3. \A g \in posts' : g \in posts \/ (g = h /\ (w.kind = "menu" => w.own))
  BY PostsNoMenu
<1>4. \A g \in H : Puts(wnd[g], wnd'[g])
  BY <1>1 DEF Puts
<1>5. MenusOK'
  BY <1>1, <1>3, <1>4 DEF MenusOK, Puts
<1> QED BY <1>2, <1>5

\* Where no window changes, and no more is posted or looked at.
LEMMA NoWindowStep ==
  ASSUME WinsOK, MenusOK, wnd' = wnd, posts' \subseteq posts, \A g \in H : InPass(g)' => InPass(g) \/ wnd[g].kind # "menu"
  PROVE  WinsOK' /\ MenusOK'
BY DEF WinsOK, MenusOK

\* A step that leaves the pass alone ...
LEMMA PassSame ==
  ASSUME mon' = mon
  PROVE  /\ \A g \in H : InPass(g)' => InPass(g)
         /\ PassOK => PassOK'
BY DEF InPass, PassOK

\* PVMON is no longer at it.
LEMMA PassOver ==
  ASSUME mon'.pc # "place"
  PROVE  \A g \in H : InPass(g)' => InPass(g)
BY DEF InPass

-----------------------------------------------------------------------------
(* Lists and lines.                                                        *)

\* The windows seen before are windows.
LEMMA NotedIs ==
  ASSUME NEW list \in Seq(H), NEW h \in H
  PROVE  Noted(list, h) \in Seq(H)
<1> DEFINE gone == {k \in DOMAIN list : ~Exists(list[k])}
<1>1. DOMAIN list = 1 .. Len(list) /\ Len(list) \in Nat
  OBVIOUS
<1>2. CASE gone = {}
  BY <1>2 DEF Noted
<1>3. CASE gone # {}
  <2>1. gone \in SUBSET Nat
    BY <1>1
  <2>2. Lowest(gone) \in gone
    BY <1>3, <2>1, LowestIn
  <2>3. [list EXCEPT ![Lowest(gone)] = h] \in Seq(H)
    BY <2>2
  <2> QED BY <1>3, <2>3 DEF Noted
<1> QED BY <1>2, <1>3

\* So are those front to back.
LEMMA ToFrontIs ==
  ASSUME z \in Seq(H), NEW h \in H
  PROVE  ToFront(h) \in Seq(H)
<1> DEFINE mine == {o \in H : wnd[o].owner = h} \ {h}
           p == Those(z, mine)
           q == Those(z, H \ (mine \cup {h}))
<1>1. p \in Seq(H) /\ q \in Seq(H)
  BY ThoseAre
<1>2. ToFront(h) = p \o <<h>> \o q
  BY DEF ToFront
<1> HIDE DEF p, q
<1>3. p \o <<h>> \o q \in Seq(H)
  BY <1>1
<1> QED BY <1>2, <1>3

\* A line is a layer.
LEMMA LineIs ==
  ASSUME NEW tag \in {"W", "X", "O", "T", "I"}, NEW h \in H, NEW slot \in Int, NEW r \in Rect, NEW sure \in BOOLEAN
  PROVE  Line(tag, h, slot, r, sure) \in Layer
BY DEF Line, Layer

\* Lists that are left alone, begun or given up ...
LEMMA LayersStay ==
  ASSUME LayersOK, layers' = layers, pending' = pending \/ pending' = PVB \/ pending' = NoList
  PROVE  LayersOK'
<1>1. PVB.list \in Seq(Layer) /\ NoList.list \in Seq(Layer)
  BY DEF PVB, NoList
<1> QED BY <1>1 DEF LayersOK

\* ... and those that get another line.
LEMMA LayersHear ==
  ASSUME LayersOK, IsRecord(pending, {"on", "list"}), NEW lines \in Seq(Layer), NEW last, Hears(lines, last)
  PROVE  LayersOK'
<1>1. pending.list \o lines \in Seq(Layer)
  BY DEF LayersOK
<1>2. Heard(lines) \in Seq(Layer)
  BY <1>1 DEF Heard
<1>3. layers' \in Seq(Layer)
  BY <1>2 DEF Hears, LayersOK
<1>4. pending'.list \in Seq(Layer)
  <2>1. CASE last
    BY <2>1 DEF Hears, NoList
  <2>2. CASE ~last
    <3>1. pending' = [pending EXCEPT !.list = Heard(lines)]
      BY <2>2 DEF Hears
    <3>2. pending'.list = Heard(lines)
      BY <3>1 DEF IsRecord
    <3> QED BY <1>2, <3>2
  <2> QED BY <2>1, <2>2
<1> QED BY <1>3, <1>4 DEF LayersOK

\* Doubt changes no more than the vouching ...
LEMMA DoubtedIs ==
  ASSUME NEW list \in Seq(Layer), NEW h
  PROVE  Doubted(h, list) \in Seq(Layer)
<1> DEFINE one(k) == [list[k] EXCEPT !.sure = list[k].sure /\ list[k].wnd # h]
<1>1. \A k \in DOMAIN list : one(k) \in Layer
  <2> TAKE k \in DOMAIN list
  <2>1. list[k] \in Layer
    OBVIOUS
  <2> DEFINE L == list[k]
             v == [L EXCEPT !.sure = L.sure /\ L.wnd # h]
  <2>2. L \in Layer /\ (L.sure /\ L.wnd # h) \in BOOLEAN
    BY <2>1
  <2> HIDE DEF L
  <2>3. v \in Layer
    BY <2>2 DEF Layer
  <2> QED BY <2>3 DEF L
<1>2. Doubted(h, list) = [k \in DOMAIN list |-> one(k)]
  BY DEF Doubted
<1> HIDE DEF one
<1>3. DOMAIN list = 1 .. Len(list) /\ Len(list) \in Nat
  OBVIOUS
<1>4. [k \in DOMAIN list |-> one(k)] \in Seq(Layer)
  BY <1>1, <1>3
<1> QED BY <1>2, <1>4

\* ... in both lists.
LEMMA LayersDoubted ==
  ASSUME LayersOK, IsRecord(pending, {"on", "list"}), NEW h, NEW sends, Doubts(h, sends)
  PROVE  LayersOK'
<1>1. Doubted(h, layers) \in Seq(Layer) /\ Doubted(h, pending.list) \in Seq(Layer)
  BY DoubtedIs DEF LayersOK
<1>2. layers' \in Seq(Layer)
  BY <1>1 DEF Doubts
<1>3. CASE sends /\ Phone
  BY <1>2, <1>3 DEF Doubts, PVB, LayersOK
<1>4. CASE ~(sends /\ Phone)
  <2>1. pending' = [pending EXCEPT !.list = Doubted(h, pending.list)]
    BY <1>4 DEF Doubts
  <2>2. pending'.list = Doubted(h, pending.list)
    BY <2>1 DEF IsRecord
  <2> QED BY <1>1, <1>2, <2>2 DEF LayersOK
<1> QED BY <1>3, <1>4

\* PVHOOK begins a list, or does not.
LEMMA PublishesIs ==
  ASSUME HookOK, dirty \in BOOLEAN, NEW yes, NEW skip, NEW force, Publishes(yes, skip, force)
  PROVE  HookOK' /\ dirty' \in BOOLEAN
<1>1. CASE yes /\ Phone
  <2> DEFINE new == [on |-> TRUE, skip |-> skip, force |-> force, at |-> NoWnd]
  <2>1. hook' = new /\ dirty' = (dirty \/ FALSE)
    BY <1>1 DEF Publishes, Dirtied
  <2>2. IsRecord(new, {"on", "skip", "force", "at"}) /\ new.on = TRUE /\ new.at = NoWnd
    BY DEF IsRecord
  <2> HIDE DEF new
  <2> QED BY <2>1, <2>2 DEF HookOK
<1>2. CASE ~(yes /\ Phone)
  BY <1>2 DEF Publishes, HookOK
<1> QED BY <1>1, <1>2

-----------------------------------------------------------------------------
(* The lines that are sent.                                                *)

\* What a window is in a list.
LEMMA KindIs ==
  ASSUME NEW h \in H
  PROVE  /\ Kind(h) \in {"A", "O", "T", "I"}
         /\ Kind(h) = "T" <=> wnd[h].kind = "menu"
         /\ Kind(h) = "O" => wnd[h].owner \in H \cup {Shell}
BY DEF Kind

\* The fields of a window, open or closed.
LEMMA WindowIs ==
  ASSUME WinsOK, NEW h \in H
  PROVE  /\ wnd[h].rect \in Rect /\ wnd[h].normal \in Rect /\ wnd[h].owner \in H \cup {Shell, NoWnd} /\ wnd[h].vis \in BOOLEAN
         /\ (Exists(h) => Good(wnd[h])) /\ wnd[h].own \in BOOLEAN
<1>1. Closed.rect \in Rect /\ Closed.normal \in Rect /\ Closed.owner = NoWnd /\ Closed.vis = FALSE /\ Closed.kind = "closed" /\ Closed.own = FALSE
  BY DEF Closed, Nowhere, Rect
<1>2. CASE wnd[h] = Closed
  BY <1>1, <1>2 DEF Exists
<1>3. CASE Good(wnd[h])
  BY <1>3, FieldsOf
<1> QED BY <1>2, <1>3 DEF WinsOK

\* The empty rectangle is one.
LEMMA NowhereIs == Nowhere \in Rect
BY DEF Nowhere, Rect

\* A column's slot is a number.
LEMMA ColSlotIs ==
  ASSUME NEW x \in Int
  PROVE  ColSlot(x) \in Int
BY SlotWIs DEF ColSlot

\* PVHOOK's line about a window is a layer.
LEMMA HookLineIs ==
  ASSUME WinsOK, FrameOK, NEW h \in H
  PROVE  HookLine(h) \in Layer
<1>1. wnd[h].rect \in Rect /\ wnd[h].rect.x \in Int /\ ColSlot(wnd[h].rect.x) \in Int
  BY WindowIs, RectFields, ColSlotIs
<1>2. CASE Kind(h) = "O"
  <2>1. wnd[h].owner \in H \cup {Shell}
    BY <1>2, KindIs
  <2>2. \A o \in H : wnd[o].owner \in H \cup {Shell, NoWnd}
    BY WindowIs
  <2>3. Root(h) \in H \cup {Shell}
    BY <2>1, <2>2 DEF Root
  <2>4. ColSlot(RectOf(Root(h)).x) \in Int
    BY <2>3, RectOfIs, RectFields, ColSlotIs
  <2> QED BY <1>1, <1>2, <2>4, LineIs DEF HookLine
<1>3. CASE Kind(h) # "O"
  <2>1. \/ HookLine(h) = Line("T", h, -1, wnd[h].rect, FALSE)
        \/ HookLine(h) = Line("I", h, -1, Nowhere, FALSE)
        \/ HookLine(h) = Line("W", h, ColSlot(wnd[h].rect.x), wnd[h].rect, FALSE)
        \/ HookLine(h) = Line("X", h, ColSlot(wnd[h].rect.x), wnd[h].rect, FALSE)
    BY <1>3 DEF HookLine
  <2>2. -1 \in Int /\ Nowhere \in Rect /\ FALSE \in BOOLEAN
    BY NowhereIs
  <2>3. \A tag \in {"W", "X", "O", "T", "I"}, slot \in Int, r \in Rect : Line(tag, h, slot, r, FALSE) \in Layer
    BY <2>2, LineIs
  <2> QED BY <1>1, <2>1, <2>2, <2>3
<1> QED BY <1>2, <1>3

\* What PVHOOK has still to come to are windows.
LEMMA AheadIs ==
  ASSUME z \in Seq(H)
  PROVE  Ahead \in Seq(H) /\ (Ahead # <<>> => Last(Ahead) \in H)
<1> DEFINE at == SelectInSeq(z, LAMBDA g : g = hook.at)
           before == IF hook.at = NoWnd THEN z ELSE SubSeq(z, 1, at - 1)
           seen == {g \in H : HookSees(g)}
<1>1. at \in 0 .. Len(z)
  <2> DEFINE found == {i \in 1 .. Len(z) : z[i] = hook.at}
  <2>1. at = IF found # {} THEN Min(found) ELSE 0
    BY DEF SelectInSeq
  <2>2. Min(found) = Lowest(found)
    BY DEF Min, Lowest
  <2>3. Len(z) \in Nat /\ found \in SUBSET Nat /\ found \subseteq 1 .. Len(z)
    OBVIOUS
  <2> HIDE DEF at, found
  <2>4. found # {} => Lowest(found) \in found
    BY <2>3, LowestIn
  <2>5. CASE found # {}
    <3>1. at \in 1 .. Len(z)
      BY <2>1, <2>2, <2>3, <2>4, <2>5, Zenon
    <3> QED BY <2>3, <3>1
  <2>6. CASE found = {}
    BY <2>1, <2>3, <2>6
  <2> QED BY <2>5, <2>6
<1>2. before \in Seq(H)
  <2> HIDE DEF at
  <2>1. SubSeq(z, 1, at - 1) \in Seq(H)
    BY <1>1
  <2> QED BY <2>1
<1>3. Ahead = Those(before, seen)
  BY DEF Ahead
<1> HIDE DEF before, seen
<1>4. Those(before, seen) \in Seq(H)
  BY <1>2, ThoseAre
<1> DEFINE s == Ahead
<1>5. s \in Seq(H)
  BY <1>3, <1>4
<1> HIDE DEF s
<1>6. s # <<>> => Last(s) \in H
  BY <1>5 DEF Last
<1> QED BY <1>5, <1>6 DEF s

\* owner_slot is a slot, or -1 ...
LEMMA OwnerSlotIs ==
  ASSUME NEW o
  PROVE  OwnerSlot(o) \in Slots \cup {-1}
<1> DEFINE of(h) == {i \in Slots : slots[i] = h}
<1>1. \A h : of(h) # {} => Lowest(of(h)) \in Slots
  <2> TAKE h
  <2>1. of(h) \in SUBSET Nat
    BY PvWindowsAssumption DEF Slots
  <2>2. of(h) # {} => Lowest(of(h)) \in of(h)
    BY <2>1, LowestIn
  <2> QED BY <2>2
<1>2. OwnerSlot(o) = IF of(o) # {} THEN Lowest(of(o))
                     ELSE IF o \in H /\ of(wnd[o].owner) # {} /\ wnd[o].owner # NoWnd THEN Lowest(of(wnd[o].owner)) ELSE -1
  BY DEF OwnerSlot
<1> HIDE DEF of
<1> QED BY <1>1, <1>2

\* ... and a slot there is, if it is not negative.
LEMMA RealSlot ==
  ASSUME NEW n \in Slots \cup {-1}, n >= 0
  PROVE  n \in Slots /\ n \in Nat
<1>1. CASE n \in Slots
  BY <1>1, PvWindowsAssumption DEF Slots
<1>2. CASE n = -1
  BY <1>2
<1> QED BY <1>1, <1>2

\* So is slot_of.
LEMMA SlotOfIs ==
  ASSUME NEW h, NEW wide
  PROVE  SlotOf(h, wide).slot \in Slots \cup {-1}
<1> DEFINE has  == {i \in Slots : slots[i] = h}
           free == {i \in Slots : SlotFree(i)}
           two  == {i \in free : i + 1 \in free}
           a    == SlotOf(h, wide)
<1>1. has \in SUBSET Nat /\ free \in SUBSET Nat /\ two \in SUBSET Nat /\ has \subseteq Slots /\ two \subseteq Slots /\ free \subseteq Slots
  BY PvWindowsAssumption DEF Slots
<1>2. \/ has # {} /\ a.slot = Lowest(has)
      \/ two # {} /\ a.slot = Lowest(two)
      \/ free # {} /\ a.slot = Lowest(free)
      \/ a.slot = -1
  BY DEF SlotOf, Given
<1> HIDE DEF has, free, two, a
<1>3. \/ a.slot \in has \/ a.slot \in two \/ a.slot \in free \/ a.slot = -1
  BY <1>1, <1>2, LowestIn
<1>4. a.slot \in Slots \cup {-1}
  BY <1>1, <1>3
<1> QED BY <1>4 DEF a

\* PVMON's line about a window is a layer.
LEMMA MonLineIs ==
  ASSUME WinsOK, NEW i \in Entries, NEW slot \in Int
  PROVE  MonLine(i, slot) \in Layer
<1> DEFINE h == i.wnd
<1>1. h \in H /\ i.kind \in {"A", "O", "T", "I"}
  BY DEF Entries
<1>2. wnd[h].rect \in Rect /\ Nowhere \in Rect
  BY <1>1, WindowIs, NowhereIs
<1>3. OwnerSlot(i.owner) \in Int
  <2>1. Slots \subseteq Int /\ -1 \in Int
    BY PvWindowsAssumption DEF Slots
  <2>2. OwnerSlot(i.owner) \in Slots \cup {-1}
    BY OwnerSlotIs
  <2> QED BY <2>1, <2>2
<1> DEFINE sure == slot >= 0 /\ Visible(h) /\ h \notin dead
<1>4. sure \in BOOLEAN
  OBVIOUS
<1>5. MonLine(i, slot) = CASE i.kind = "A" -> Line(IF slot >= 0 THEN "W" ELSE "X", h, slot, wnd[h].rect, sure)
                           [] i.kind = "I" -> Line("I", h, slot, Nowhere, sure)
                           [] i.kind = "O" -> Line("O", h, OwnerSlot(i.owner), wnd[h].rect, FALSE)
                           [] i.kind = "T" -> Line("T", h, -1, wnd[h].rect, FALSE)
  BY DEF MonLine
<1> HIDE DEF h, sure
<1>6. \/ MonLine(i, slot) = Line("W", h, slot, wnd[h].rect, sure)
      \/ MonLine(i, slot) = Line("X", h, slot, wnd[h].rect, sure)
      \/ MonLine(i, slot) = Line("I", h, slot, Nowhere, sure)
      \/ MonLine(i, slot) = Line("O", h, OwnerSlot(i.owner), wnd[h].rect, FALSE)
      \/ MonLine(i, slot) = Line("T", h, -1, wnd[h].rect, FALSE)
  BY <1>1, <1>5
<1>7. \A tag \in {"W", "X", "O", "T", "I"}, n \in Int, r \in Rect, b \in BOOLEAN : Line(tag, h, n, r, b) \in Layer
  BY <1>1, LineIs
<1>8. -1 \in Int /\ FALSE \in BOOLEAN /\ {"W", "X", "I", "O", "T"} = {"W", "X", "O", "T", "I"}
  OBVIOUS
<1> HIDE DEF h, sure
<1>9. /\ Line("W", h, slot, wnd[h].rect, sure) \in Layer /\ Line("X", h, slot, wnd[h].rect, sure) \in Layer
      /\ Line("I", h, slot, Nowhere, sure) \in Layer /\ Line("T", h, -1, wnd[h].rect, FALSE) \in Layer
  BY <1>2, <1>4, <1>7, <1>8
<1>10. Line("O", h, OwnerSlot(i.owner), wnd[h].rect, FALSE) \in Layer
  BY <1>2, <1>3, <1>7, <1>8
<1> QED BY <1>6, <1>9, <1>10

-----------------------------------------------------------------------------
(* The pass.                                                               *)

\* What PVMON has to do: to the entries of the list that it is to be done to.
LEMMA TodoIs ==
  ASSUME NEW do \in {"slot", "own", "fit"}, NEW list \in Seq(Entries), NEW which,
         do = "own" => \A i \in which : i.kind = "O"
  PROVE  /\ Todo(do, list, which) \in Seq(Jobs)
         /\ \A t : In(t, Todo(do, list, which)) => t.do = do /\ t.item \in which /\ In(t.item, list)
<1> DEFINE items == Those(list, which)
           one(k) == [do |-> do, item |-> items[k]]
<1>1. items \in Seq(Entries) /\ \A x : In(x, items) <=> (In(x, list) /\ x \in which)
  BY ThoseAre
<1>2. Todo(do, list, which) = [k \in DOMAIN items |-> one(k)]
  BY DEF Todo
<1> HIDE DEF items
<1>3. DOMAIN items = 1 .. Len(items) /\ Len(items) \in Nat /\ \A k \in 1 .. Len(items) : items[k] \in Entries
  BY <1>1
<1>4. \A k \in 1 .. Len(items) : items[k] \in which /\ In(items[k], list)
  BY <1>1, <1>3 DEF In
<1>5. \A k \in 1 .. Len(items) : one(k) \in Jobs /\ one(k).do = do /\ one(k).item \in which /\ In(one(k).item, list)
  BY <1>3, <1>4 DEF Jobs
<1> HIDE DEF one
<1> DEFINE r == [k \in DOMAIN items |-> one(k)]
<1>6. r \in Seq(Jobs) /\ Len(r) = Len(items) /\ \A k \in 1 .. Len(items) : r[k] = one(k)
  BY <1>3, <1>5
<1> HIDE DEF r
<1>7. \A t : In(t, r) => t.do = do /\ t.item \in which /\ In(t.item, list)
  BY <1>5, <1>6 DEF In
<1> QED BY <1>2, <1>6, <1>7 DEF r

\* What PVMON collects are entries for windows, of the kind they are.
LEMMA CollectedIs ==
  ASSUME z \in Seq(H), WinsOK
  PROVE  /\ Collected \in Seq(Entries)
         /\ \A i : In(i, Collected) => i.kind = Kind(i.wnd) /\ i.wnd \in H
<1> DEFINE list == Enumerated
           one(k) == [wnd |-> list[k], kind |-> Kind(list[k]), owner |-> wnd[list[k]].owner]
<1>1. list \in Seq(H)
  BY ThoseAre DEF Enumerated
<1>2. Collected = [k \in DOMAIN list |-> one(k)]
  BY DEF Collected, Items
<1> HIDE DEF list
<1>3. DOMAIN list = 1 .. Len(list) /\ Len(list) \in Nat /\ \A k \in 1 .. Len(list) : list[k] \in H
  BY <1>1
<1>4. \A k \in 1 .. Len(list) : one(k) \in Entries /\ one(k).kind = Kind(one(k).wnd) /\ one(k).wnd \in H
  <2> TAKE k \in 1 .. Len(list)
  <2>1. list[k] \in H /\ wnd[list[k]].owner \in H \cup {Shell, NoWnd}
    BY <1>3, WindowIs
  <2>2. Kind(list[k]) \in {"A", "O", "T", "I"} /\ (Kind(list[k]) = "O" => wnd[list[k]].owner \in H \cup {Shell})
    BY <2>1, KindIs
  <2>3. NoWnd \notin H \cup {Shell}
    BY PvWindowsAssumption
  <2> QED BY <2>1, <2>2, <2>3 DEF Entries
<1> HIDE DEF one
<1> DEFINE r == [k \in DOMAIN list |-> one(k)]
<1>5. r \in Seq(Entries) /\ Len(r) = Len(list) /\ \A k \in 1 .. Len(list) : r[k] = one(k)
  BY <1>3, <1>4
<1> HIDE DEF r
<1>6. \A i : In(i, r) => i.kind = Kind(i.wnd) /\ i.wnd \in H
  BY <1>4, <1>5 DEF In
<1> QED BY <1>2, <1>5, <1>6 DEF r

\* A member of a sequence is in its range.
LEMMA InRange ==
  ASSUME NEW T, NEW list \in Seq(T)
  PROVE  \A x : x \in Range(list) <=> In(x, list)
<1>1. DOMAIN list = 1 .. Len(list)
  OBVIOUS
<1> QED BY <1>1 DEF Range, In

\* A pass that begins has nothing to do to menus.
LEMMA BeginsIs ==
  ASSUME z \in Seq(H), WinsOK, Begins
  PROVE  PassOK' /\ mon'.pc = "place" /\ \A g \in H : InPass(g)' => wnd[g].kind # "menu"
<1> DEFINE list  == Collected
           app   == {i \in Range(list) : i.kind \in {"A", "I"}}
           own   == {i \in Range(list) : i.kind = "O"}
           fresh == {i \in Range(list) : i.kind \in {"A", "O"} /\ i.wnd \notin fitted}
           p == IF Phone THEN Todo("slot", list, app) ELSE Todo("fit", list, fresh)
           q == IF Phone THEN Todo("own", list, own) ELSE Todo("slot", list, app)
<1>1. mon' = [pc |-> "place", list |-> list, todo |-> p \o q]
  BY DEF Begins
<1>2. list \in Seq(Entries) /\ \A i : In(i, list) => i.kind = Kind(i.wnd) /\ i.wnd \in H
  BY CollectedIs
<1> HIDE DEF list
<1>3. \A i \in own : i.kind = "O"
  OBVIOUS
<1>4. /\ Todo("slot", list, app) \in Seq(Jobs) /\ Todo("own", list, own) \in Seq(Jobs) /\ Todo("fit", list, fresh) \in Seq(Jobs)
      /\ \A t : In(t, Todo("slot", list, app)) => t.item \in app /\ In(t.item, list)
      /\ \A t : In(t, Todo("own", list, own)) => t.item \in own /\ In(t.item, list)
      /\ \A t : In(t, Todo("fit", list, fresh)) => t.item \in fresh /\ In(t.item, list)
  <2> HIDE DEF app, own, fresh
  <2> QED BY <1>2, <1>3, TodoIs
<1>5. \A t : In(t, p) \/ In(t, q) => t.item.kind # "T" /\ In(t.item, list)
  BY <1>4
<1>6. p \in Seq(Jobs) /\ q \in Seq(Jobs)
  BY <1>4
<1> HIDE DEF p, q
<1>7. p \o q \in Seq(Jobs) /\ \A t : In(t, p \o q) => t.item.kind # "T" /\ In(t.item, list)
  BY <1>5, <1>6, InJoined
<1>8. \A g \in H : InPass(g)' => wnd[g].kind # "menu"
  <2> SUFFICES ASSUME NEW g \in H, InPass(g)' PROVE wnd[g].kind # "menu"
    OBVIOUS
  <2>1. mon'.todo = p \o q
    BY <1>1
  <2>2. DOMAIN (p \o q) = 1 .. Len(p \o q)
    BY <1>7
  <2>3. PICK k \in 1 .. Len(p \o q) : (p \o q)[k].item.wnd = g
    BY <2>1, <2>2 DEF InPass
  <2> DEFINE i == (p \o q)[k].item
  <2>4. i.kind # "T" /\ In(i, list) /\ i.wnd = g
    BY <1>7, <2>3 DEF In
  <2> HIDE DEF i
  <2>5. Kind(g) # "T"
    BY <1>2, <2>4
  <2> QED BY <2>5, KindIs
<1>9. PassOK'
  <2>1. IsRecord(mon', {"pc", "list", "todo"}) /\ mon'.pc = "place" /\ mon'.list = list /\ mon'.todo = p \o q
    BY <1>1 DEF IsRecord
  <2> QED BY <1>2, <1>7, <2>1 DEF PassOK
<1> QED BY <1>1, <1>8, <1>9

\* What is left alone stays as it is: what was seen ...
LEMMA SeenSame ==
  ASSUME SeenOK, UNCHANGED <<left, z, dead, memory>>
  PROVE  SeenOK'
BY DEF SeenOK, memory

\* ... and the rest.
LEMMA RestSame ==
  ASSUME Typed
  PROVE  /\ UNCHANGED frame => FrameOK'
         /\ UNCHANGED hook => HookOK'
         /\ UNCHANGED page => LayersOK'
BY DEF Typed, FrameOK, HookOK, LayersOK, frame, page

\* A window that does not change its size is not posted.
LEMMA RectSame ==
  ASSUME NEW h, NEW w, w.rect = wnd[h].rect, NEW queue
  PROVE  Posted(queue, h, w) = queue
BY DEF Posted, Oversized

\* The parts of a pass keep the types: a slot and its parking ...
LEMMA SlottedTyped ==
  ASSUME TInv, NEW h \in H, NEW wide, NEW park, NEW queue \in SUBSET posts, Slotted(h, wide, park, queue),
         wnd[h].kind = "menu" => wnd[h].own, \A g \in H : InPass(g)' => InPass(g)
  PROVE  WinsOK' /\ MenusOK' /\ sized' \in Seq(H) /\ owned' = owned /\ fitted' = fitted
<1> DEFINE a     == SlotOf(h, wide)
           parks == park /\ a.slot >= 0
           now   == IF parks /\ Exists(h) /\ ~Iconic(h)
                    THEN Parks(wnd[h], h, a.slot, a.slots, ~Contains(sized, h)) ELSE wnd[h]
<1>1. /\ wnd' = [wnd EXCEPT ![h] = now] /\ posts' = Posted(queue, h, now)
      /\ sized' = IF parks THEN Noted(sized, h) ELSE sized
      /\ owned' = owned /\ fitted' = fitted
  BY DEF Slotted
<1>2. WndOK /\ WinsOK /\ FrameOK /\ MenusOK /\ sized \in Seq(H)
  BY DEF TInv, Typed, IInv, SeenOK
<1>3. (now = Closed \/ Good(now)) /\ Puts(wnd[h], now)
  <2>1. CASE parks /\ Exists(h) /\ ~Iconic(h)
    <3>1. a.slot \in Nat
      <4>1. a.slot \in Slots \cup {-1} /\ a.slot >= 0
        BY <2>1, SlotOfIs
      <4> HIDE DEF a
      <4> QED BY <4>1, RealSlot
    <3> DEFINE v == Parks(wnd[h], h, a.slot, a.slots, ~Contains(sized, h))
    <3>2. Good(wnd[h])
      BY <1>2, <2>1, WindowIs
    <3>3. Good(v) /\ Alike(wnd[h], v)
      <4> HIDE DEF a
      <4> QED BY <1>2, <3>1, <3>2, ParksGood
    <3>4. now = v
      BY <2>1
    <3> HIDE DEF v, now
    <3>5. Puts(wnd[h], v)
      BY <3>3 DEF Puts, Alike
    <3> QED BY <3>3, <3>4, <3>5
  <2>2. CASE ~(parks /\ Exists(h) /\ ~Iconic(h))
    <3>1. now = wnd[h]
      BY <2>2
    <3> HIDE DEF now
    <3> QED BY <1>2, <3>1 DEF WinsOK, Puts
  <2> QED BY <2>1, <2>2
<1> HIDE DEF now, a
<1>4. WinsOK' /\ MenusOK'
  BY <1>1, <1>2, <1>3, WindowStep
<1>5. sized' \in Seq(H)
  BY <1>1, <1>2, NotedIs
<1> QED BY <1>1, <1>4, <1>5

\* What is done of a pass is not done again.
LEMMA PassTail ==
  ASSUME PassOK, mon.pc = "place" \/ mon.pc = "say", mon.todo # <<>>, mon' = [mon EXCEPT !.todo = Tail(mon.todo)]
  PROVE  /\ PassOK' /\ \A g \in H : InPass(g)' => InPass(g)
         /\ mon.pc = "place" => Head(mon.todo) \in Jobs /\ InPass(Head(mon.todo).item.wnd)
         /\ mon.pc = "say" => Head(mon.todo) \in Entries
<1>1. PICK T : mon.todo \in Seq(T) /\ (mon.pc = "place" => T = Jobs) /\ (mon.pc = "say" => T = Entries)
  BY DEF PassOK
<1> DEFINE s == mon.todo
<1>2. s \in Seq(T) /\ s # <<>>
  BY <1>1
<1> HIDE DEF s
<1>3. Tail(s) \in Seq(T) /\ Len(s) \in Nat /\ Len(s) > 0 /\ Len(Tail(s)) = Len(s) - 1
      /\ (\A k \in 1 .. Len(s) - 1 : Tail(s)[k] = s[k + 1]) /\ Head(s) = s[1] /\ Head(s) \in T
      /\ DOMAIN s = 1 .. Len(s) /\ DOMAIN Tail(s) = 1 .. Len(s) - 1
  BY <1>2, HeadTailProperties
<1>4. IsRecord(mon', {"pc", "list", "todo"}) /\ mon'.pc = mon.pc /\ mon'.list = mon.list /\ mon'.todo = Tail(s)
  BY DEF PassOK, IsRecord, s
<1>5. PassOK'
  BY <1>1, <1>3, <1>4 DEF PassOK
<1>6. \A g \in H : InPass(g)' => InPass(g)
  <2> SUFFICES ASSUME NEW g \in H, InPass(g)' PROVE InPass(g)
    OBVIOUS
  <2>1. PICK k \in 1 .. Len(s) - 1 : Tail(s)[k].item.wnd = g
    BY <1>3, <1>4 DEF InPass
  <2>2. k + 1 \in 1 .. Len(s) /\ s[k + 1].item.wnd = g
    BY <1>3, <2>1
  <2> QED BY <1>3, <1>4, <2>2 DEF InPass, s
<1>7. mon.pc = "place" => InPass(Head(s).item.wnd)
  <2>1. 1 \in DOMAIN s
    BY <1>3
  <2> QED BY <1>3, <2>1 DEF InPass, s
<1> QED BY <1>1, <1>3, <1>5, <1>6, <1>7 DEF s

\* ... an owned window ...
LEMMA PlaceOwnedTyped ==
  ASSUME TInv, NEW h \in H, NEW owner \in H \cup {Shell}, PlaceOwned(h, owner),
         wnd[h].kind = "menu" => wnd[h].own, \A g \in H : InPass(g)' => InPass(g)
  PROVE  WinsOK' /\ MenusOK' /\ owned' \in Seq(H) /\ sized' = sized /\ fitted' = fitted
<1>1. WndOK /\ WinsOK /\ FrameOK /\ MenusOK /\ owned \in Seq(H)
  BY DEF TInv, Typed, IInv, SeenOK
<1>2. owned' \in Seq(H) /\ sized' = sized /\ fitted' = fitted /\ posts' = posts
  BY <1>1, NotedIs DEF PlaceOwned
<1>3. CASE Exists(h) /\ ~Iconic(h)
  <2>1. PICK o \in (IF owner \in H /\ ~Exists(owner) THEN Junk ELSE {RectOf(owner)}) :
          wnd' = [wnd EXCEPT ![h] = Moved(wnd[h], OwnedPlace(wnd[h].rect, OwnerSlot(owner), o, ~Contains(owned, h)))]
    BY <1>3 DEF PlaceOwned
  <2>2. o \in Rect
    BY <1>1, <2>1, RectOfIs, PvWindowsAssumption
  <2>3. Good(wnd[h]) /\ wnd[h].rect \in Rect
    BY <1>1, <1>3, WindowIs
  <2> DEFINE r == OwnedPlace(wnd[h].rect, OwnerSlot(owner), o, ~Contains(owned, h))
             v == Moved(wnd[h], r)
  <2>4. r \in Rect /\ SameSize(r, wnd[h].rect)
    <3>1. MonFrame \in Sizes
      BY <1>1, Frames
    <3>2. CASE OwnerSlot(owner) < 0
      BY <2>2, <2>3, <3>1, <3>2, OwnedByShellIs DEF OwnedPlace
    <3>3. CASE ~(OwnerSlot(owner) < 0)
      <4> DEFINE n == OwnerSlot(owner)
      <4>1. n \in Slots \cup {-1}
        BY OwnerSlotIs
      <4> HIDE DEF n
      <4>2. n >= 0 => n \in Nat
        BY <4>1, RealSlot
      <4>3. n \in Int
        BY <4>1, PvWindowsAssumption DEF Slots
      <4>4. OwnerSlot(owner) \in Nat
        BY <3>3, <4>2, <4>3 DEF n
      <4> QED BY <2>2, <2>3, <3>1, <3>3, <4>4, OwnedParkedIs DEF OwnedPlace
    <3> QED BY <3>2, <3>3
  <2> HIDE DEF r
  <2>5. wnd[h].mode = "normal" => Room(wnd[h], r)
    BY <2>3, <2>4, FieldsOf DEF Room, SameSize
  <2>6. Good(v) /\ Alike(wnd[h], v)
    BY <1>1, <2>3, <2>4, <2>5, MovedGood
  <2>7. wnd' = [wnd EXCEPT ![h] = v]
    BY <2>1 DEF r
  <2> HIDE DEF v
  <2>8. Puts(wnd[h], v)
    BY <2>6 DEF Puts, Alike
  <2> QED BY <1>1, <1>2, <2>6, <2>7, <2>8, WindowStep
<1>4. CASE ~(Exists(h) /\ ~Iconic(h))
  <2>1. wnd' = wnd
    BY <1>4 DEF PlaceOwned
  <2> QED BY <1>1, <1>2, <2>1, NoWindowStep
<1> QED BY <1>3, <1>4

\* Nobody has placed a window that is closed.
LEMMA NotOwned == [Closed EXCEPT !.own = FALSE] = Closed
<1> DEFINE c == Closed
<1>1. IsWindow(c) /\ c.own = FALSE
  BY ClosedIsWindow DEF Closed
<1> HIDE DEF c
<1>2. [c EXCEPT !.own = FALSE] = c
  BY <1>1 DEF IsWindow, IsRecord
<1> QED BY <1>2 DEF c

\* ... and desktop_fit.
LEMMA FitOnceTyped ==
  ASSUME TInv, NEW h \in H, FitOnce(h),
         wnd[h].kind = "menu" => wnd[h].own, \A g \in H : InPass(g)' => InPass(g)
  PROVE  WinsOK' /\ MenusOK' /\ fitted' \subseteq H /\ sized' = sized /\ owned' = owned
<1>1. WndOK /\ WinsOK /\ FrameOK /\ MenusOK /\ fitted \subseteq H
  BY DEF TInv, Typed, IInv, SeenOK
<1>2. fitted' \subseteq H /\ sized' = sized /\ owned' = owned /\ posts' = posts
  BY <1>1 DEF FitOnce
<1> DEFINE gone == ~Visible(h) \/ h \in dead \/ Iconic(h)
<1>3. CASE gone
  <2> DEFINE v == [wnd[h] EXCEPT !.own = Exists(h)]
  <2>1. wnd' = [wnd EXCEPT ![h] = v]
    BY <1>3 DEF FitOnce
  <2>2. (v = Closed \/ Good(v)) /\ Puts(wnd[h], v)
    <3>1. CASE Exists(h)
      <4>1. Good(wnd[h])
        BY <1>1, <3>1, WindowIs
      <4>2. Exists(h) \in BOOLEAN
        BY DEF Exists
      <4>3. Good(v) /\ v.own = Exists(h)
        BY <4>1, <4>2, OwnGood
      <4> HIDE DEF v
      <4> QED BY <3>1, <4>3 DEF Puts
    <3>2. CASE ~Exists(h)
      <4>1. wnd[h] = Closed
        BY <1>1, <3>2, FieldsOf DEF WinsOK, Exists
      <4>2. v = Closed
        BY <4>1, NotOwned DEF Exists, Closed
      <4> HIDE DEF v
      <4> QED BY <4>2 DEF Puts, Closed
    <3> QED BY <3>1, <3>2
  <2> HIDE DEF v
  <2> QED BY <1>1, <1>2, <2>1, <2>2, WindowStep
<1>4. CASE ~gone /\ OnTheScreen(wnd[h])
  <2>1. wnd' = wnd
    BY <1>4 DEF FitOnce
  <2> QED BY <1>1, <1>2, <2>1, NoWindowStep
<1>5. CASE ~gone /\ ~OnTheScreen(wnd[h])
  <2> DEFINE r == IF wnd[h].mode = "zoomed" THEN WholeScreen ELSE DesktopFit(wnd[h].rect, screen.w, screen.h)
             v == At(wnd[h], r)
  <2>1. wnd' = [wnd EXCEPT ![h] = v]
    BY <1>5 DEF FitOnce
  <2>2. Good(wnd[h])
    BY <1>1, <1>5, WindowIs DEF Visible
  <2>3. r \in Rect /\ (wnd[h].mode = "normal" => Room(wnd[h], r))
    <3>1. WholeScreen \in Rect /\ screen.w \in Nat /\ screen.h \in Nat
      BY <1>1, Frames
    <3>2. DesktopFit(wnd[h].rect, screen.w, screen.h) \in Rect
          /\ (wnd[h].rect.w <= screen.w /\ wnd[h].rect.h <= screen.h
                => SameSize(DesktopFit(wnd[h].rect, screen.w, screen.h), wnd[h].rect))
      BY <2>2, <3>1, DesktopFitIs, FieldsOf
    <3>3. ASSUME wnd[h].mode = "normal" PROVE Room(wnd[h], DesktopFit(wnd[h].rect, screen.w, screen.h))
      <4> DEFINE fit == DesktopFit(wnd[h].rect, screen.w, screen.h)
      <4> HIDE DEF fit
      <4> SUFFICES ASSUME wnd[h].kind = "app", wnd[h].style.fixed, FitsAll(wnd[h].asked)
                   PROVE  SameSize(fit, wnd[h].asked)
        BY DEF Room, fit
      <4>1. SameSize(wnd[h].rect, wnd[h].asked) /\ wnd[h].asked \in Rect
        BY <2>2, <3>3, FieldsOf DEF Room
      <4>2. wnd[h].asked.w <= screen.w /\ wnd[h].asked.h <= screen.h
        BY <1>1, <4>1, FitsScreen
      <4> QED BY <3>2, <4>1, <4>2 DEF SameSize, fit
    <3> QED BY <3>1, <3>2, <3>3
  <2> HIDE DEF r
  <2>4. Good(v) /\ Alike(wnd[h], v)
    BY <2>2, <2>3, AtGood DEF Good
  <2> HIDE DEF v
  <2>5. Puts(wnd[h], v)
    BY <2>4 DEF Puts, Alike
  <2> QED BY <1>1, <1>2, <2>1, <2>4, <2>5, WindowStep
<1> QED BY <1>3, <1>4, <1>5

-----------------------------------------------------------------------------
(* The steps keep the types.                                               *)

\* So does every step: those of the pass ...
LEMMA PlaceTyped == TInv /\ Place => Typed'
<1> SUFFICES ASSUME TInv, Place PROVE Typed'
  OBVIOUS
<1>1. /\ UNCHANGED frame /\ UNCHANGED hook /\ UNCHANGED page /\ dirty' = dirty /\ calm' = calm
      /\ UNCHANGED <<left, z, dead>> /\ mon.pc = "place" /\ mon.todo # <<>> /\ mon' = [mon EXCEPT !.todo = Tail(mon.todo)]
  BY DEF Place
<1>2. FrameOK' /\ HookOK' /\ LayersOK' /\ dirty' \in BOOLEAN /\ calm' \in BOOLEAN
  BY <1>1, RestSame DEF TInv, Typed
<1>3. PassOK /\ MenusOK /\ SeenOK
  BY DEF TInv, Typed
<1> DEFINE t == Head(mon.todo)
           h == t.item.wnd
<1>4. PassOK' /\ (\A g \in H : InPass(g)' => InPass(g)) /\ t \in Jobs /\ InPass(h)
  BY <1>1, <1>3, PassTail
<1>5. /\ h \in H /\ (t.do = "own" => t.item.owner \in H \cup {Shell})
      /\ \/ \E wide \in Wide(h) : Slotted(h, wide, t.item.kind = "A" /\ Phone, posts)
         \/ t.do = "own" /\ PlaceOwned(h, t.item.owner)
         \/ FitOnce(h)
  <2>1. t \in Jobs => h \in H /\ (t.do = "own" => t.item.owner \in H \cup {Shell})
    BY DEF Jobs, Entries
  <2> QED BY <1>4, <2>1 DEF Place
<1>6. wnd[h].kind = "menu" => wnd[h].own
  <2>1. InPass(h) /\ h \in H
    BY <1>4, <1>5
  <2> HIDE DEF h
  <2> QED BY <1>3, <2>1, WindowIs DEF MenusOK, TInv, Typed
<1>7. WinsOK' /\ MenusOK' /\ sized' \in Seq(H) /\ owned' \in Seq(H) /\ fitted' \subseteq H
  <2>1. ASSUME NEW wide \in Wide(h), Slotted(h, wide, t.item.kind = "A" /\ Phone, posts)
        PROVE  WinsOK' /\ MenusOK' /\ sized' \in Seq(H) /\ owned' = owned /\ fitted' = fitted
    <3> DEFINE park == t.item.kind = "A" /\ Phone
    <3>1. Slotted(h, wide, park, posts) /\ posts \in SUBSET posts /\ h \in H
      BY <1>5, <2>1
    <3> HIDE DEF park, h
    <3> QED BY <1>4, <1>6, <3>1, SlottedTyped
  <2>2. CASE t.do = "own" /\ PlaceOwned(h, t.item.owner)
    <3> DEFINE o == t.item.owner
    <3>1. h \in H /\ o \in H \cup {Shell} /\ PlaceOwned(h, o)
      BY <1>5, <2>2
    <3> HIDE DEF h, o
    <3>2. WinsOK' /\ MenusOK' /\ owned' \in Seq(H) /\ sized' = sized /\ fitted' = fitted
      BY <1>4, <1>6, <3>1, PlaceOwnedTyped
    <3> QED BY <1>3, <3>2 DEF SeenOK
  <2>3. CASE FitOnce(h)
    <3>1. h \in H
      BY <1>5
    <3> HIDE DEF h
    <3>2. WinsOK' /\ MenusOK' /\ fitted' \subseteq H /\ sized' = sized /\ owned' = owned
      BY <1>4, <1>6, <2>3, <3>1, FitOnceTyped
    <3> QED BY <1>3, <3>2 DEF SeenOK
  <2> QED BY <1>3, <1>5, <2>1, <2>2, <2>3 DEF SeenOK
<1>8. SeenOK'
  BY <1>1, <1>3, <1>7 DEF SeenOK
<1> QED BY <1>2, <1>4, <1>7, <1>8 DEF Typed

\* ... its beginning ...
LEMMA PollTyped == TInv /\ (Poll \/ Collect) => Typed'
<1> SUFFICES ASSUME TInv, Poll \/ Collect PROVE Typed'
  OBVIOUS
<1>1. /\ Begins /\ calm' = TRUE /\ UNCHANGED hook /\ UNCHANGED page /\ UNCHANGED <<left, z, dead, memory>>
      /\ wnd' = wnd /\ posts' = posts /\ UNCHANGED <<layout, screen, shellH, hookReal>>
  BY DEF Poll, Collect, Begins, program, frame
<1>2. SeenOK /\ FrameOK /\ WinsOK /\ MenusOK /\ dirty \in BOOLEAN
  BY DEF TInv, Typed
<1>3. SeenOK' /\ HookOK' /\ LayersOK' /\ calm' \in BOOLEAN
  BY <1>1, <1>2, SeenSame, RestSame DEF TInv
<1>4. FrameOK' /\ dirty' \in BOOLEAN
  <2>1. switching \in Nat /\ SettlePolls \in Nat /\ switching <= SettlePolls /\ switching' \in 0 .. SettlePolls
    <3>1. switching \in 0 .. SettlePolls /\ SettlePolls \in Nat
      BY <1>2, PvWindowsAssumption DEF FrameOK
    <3>2. switching' = switching \/ (switching < SettlePolls /\ switching' = (IF switching > 0 THEN switching + 1 ELSE 0))
      BY DEF Poll, Polls, Collect, frame
    <3> QED BY <3>1, <3>2
  <2>2. dirty' = FALSE \/ dirty' = dirty
    BY DEF Poll, Polls, Collect
  <2> QED BY <1>1, <1>2, <2>1, <2>2 DEF FrameOK
<1>5. PassOK' /\ \A g \in H : InPass(g)' => wnd[g].kind # "menu"
  BY <1>1, <1>2, BeginsIs DEF SeenOK
<1>6. WinsOK' /\ MenusOK'
  BY <1>1, <1>2, <1>5, NoWindowStep
<1> QED BY <1>3, <1>4, <1>5, <1>6 DEF Typed

\* ... the comparison of its fingerprint ...
LEMMA CompareTyped == TInv /\ Compare => Typed'
<1> SUFFICES ASSUME TInv, Compare PROVE Typed'
  OBVIOUS
<1>1. /\ calm' = calm /\ dirty' = dirty /\ UNCHANGED hook /\ UNCHANGED frame /\ UNCHANGED <<left, z, dead, memory>>
      /\ wnd' = wnd /\ posts' = posts /\ layers' = layers /\ pending' \in {pending, PVB} /\ mon.pc = "place"
      /\ mon' = Idle \/ mon' = [pc |-> "say", list |-> <<>>, todo |-> Reverse(mon.list)]
  BY DEF Compare, program
<1>2. SeenOK /\ WinsOK /\ MenusOK /\ PassOK /\ LayersOK
  BY DEF TInv, Typed
<1>3. SeenOK' /\ HookOK' /\ FrameOK' /\ calm' \in BOOLEAN /\ dirty' \in BOOLEAN
  BY <1>1, <1>2, SeenSame, RestSame DEF TInv, Typed
<1>4. LayersOK'
  BY <1>1, <1>2, LayersStay
<1>5. PassOK' /\ mon'.pc # "place"
  <2>1. CASE mon' = Idle
    BY <2>1 DEF PassOK, Idle, IsRecord
  <2>2. CASE mon' = [pc |-> "say", list |-> <<>>, todo |-> Reverse(mon.list)]
    <3>1. mon.list \in Seq(Entries)
      BY <1>1, <1>2 DEF PassOK
    <3>2. Reverse(mon.list) \in Seq(Entries)
      <4> DEFINE s == mon.list
      <4>1. s \in Seq(Entries) /\ Len(s) \in Nat /\ \A k \in 1 .. Len(s) : s[k] \in Entries
        BY <3>1
      <4> HIDE DEF s
      <4>2. \A k \in 1 .. Len(s) : (Len(s) - k) + 1 \in 1 .. Len(s)
        BY <4>1
      <4>3. Reverse(s) \in Seq(Entries)
        BY <4>1, <4>2 DEF Reverse
      <4> QED BY <4>3 DEF s
    <3>3. IsRecord(mon', {"pc", "list", "todo"}) /\ mon'.pc = "say" /\ mon'.todo = Reverse(mon.list)
      BY <2>2 DEF IsRecord
    <3> QED BY <3>2, <3>3 DEF PassOK
  <2> QED BY <1>1, <2>1, <2>2
<1>6. WinsOK' /\ MenusOK'
  BY <1>1, <1>2, <1>5, PassOver, NoWindowStep
<1> QED BY <1>3, <1>4, <1>5, <1>6 DEF Typed

\* ... the lines it sends ...
LEMMA SayTyped == TInv /\ Say => Typed'
<1> SUFFICES ASSUME TInv, Say PROVE Typed'
  OBVIOUS
<1>1. /\ calm' = calm /\ dirty' = dirty /\ UNCHANGED hook /\ UNCHANGED frame /\ UNCHANGED <<left, z, dead, sized, owned, fitted>>
      /\ wnd' = wnd /\ posts' = posts /\ mon.pc = "say"
  BY DEF Say, program
<1>2. SeenOK /\ WinsOK /\ MenusOK /\ PassOK /\ LayersOK /\ IsRecord(pending, {"on", "list"})
  BY DEF TInv, Typed, IInv, PageOK
<1>3. SeenOK' /\ HookOK' /\ FrameOK' /\ calm' \in BOOLEAN /\ dirty' \in BOOLEAN
  BY <1>1, <1>2, RestSame DEF TInv, Typed, SeenOK
<1>4. PICK lines : Says(lines) /\ (lines = <<>> \/ (mon.todo # <<>> /\ \E slot \in Int : lines = <<MonLine(Head(mon.todo), slot)>>))
  <2> DEFINE i == Head(mon.todo)
  <2>1. \A h, wide : SlotOf(h, wide).slot \in Int
    <3>1. Slots \subseteq Int /\ -1 \in Int
      BY PvWindowsAssumption DEF Slots
    <3>2. \A h, wide : SlotOf(h, wide).slot \in Slots \cup {-1}
      BY SlotOfIs
    <3> QED BY <3>1, <3>2
  <2>2. \/ Says(<<>>)
        \/ mon.todo # <<>> /\ \E h, wide : Says(<<MonLine(i, SlotOf(h, wide).slot)>>)
        \/ mon.todo # <<>> /\ Says(<<MonLine(i, -1)>>)
    BY Zenon DEF Say
  <2> HIDE DEF i
  <2>3. -1 \in Int
    OBVIOUS
  <2>4. ASSUME NEW h, NEW wide, mon.todo # <<>>, Says(<<MonLine(i, SlotOf(h, wide).slot)>>)
        PROVE  \E lines : Says(lines) /\ (lines = <<>> \/ (mon.todo # <<>> /\ \E slot \in Int : lines = <<MonLine(i, slot)>>))
    BY <2>1, <2>4
  <2> QED BY <2>2, <2>3, <2>4 DEF i
<1>5. /\ Hears(lines, Len(mon.todo) <= 1)
      /\ mon' = Idle \/ (mon.todo # <<>> /\ mon' = [mon EXCEPT !.todo = Tail(mon.todo)])
  <2>1. Len(mon.todo) <= 1 \/ mon.todo # <<>>
    <3>1. mon.todo = <<>> => Len(mon.todo) = 0
      OBVIOUS
    <3> QED BY <3>1
  <2> QED BY <1>4, <2>1 DEF Says
<1>6. lines \in Seq(Layer)
  <2>0. CASE lines = <<>>
    BY <2>0
  <2>1. CASE mon.todo # <<>> /\ \E slot \in Int : lines = <<MonLine(Head(mon.todo), slot)>>
    <3>1. PICK slot \in Int : lines = <<MonLine(Head(mon.todo), slot)>>
      BY <2>1
    <3> DEFINE s == mon.todo
    <3>2. s \in Seq(Entries) /\ s # <<>>
      BY <1>1, <1>2, <2>1 DEF PassOK
    <3> HIDE DEF s
    <3>3. Head(s) \in Entries
      BY <3>2, HeadTailProperties
    <3>4. MonLine(Head(s), slot) \in Layer
      BY <1>2, <3>3, MonLineIs
    <3> QED BY <3>1, <3>4 DEF s
  <2> QED BY <1>4, <2>0, <2>1
<1>7. LayersOK'
  BY <1>2, <1>5, <1>6, LayersHear
<1>8. PassOK' /\ mon'.pc # "place"
  <2>1. CASE mon' = Idle
    BY <2>1 DEF PassOK, Idle, IsRecord
  <2>2. CASE mon.todo # <<>> /\ mon' = [mon EXCEPT !.todo = Tail(mon.todo)]
    <3>1. PassOK'
      BY <1>1, <1>2, <2>2, PassTail
    <3>2. mon'.pc = mon.pc
      BY <1>2, <2>2 DEF PassOK, IsRecord
    <3> QED BY <1>1, <3>1, <3>2
  <2> QED BY <1>5, <2>1, <2>2
<1>9. WinsOK' /\ MenusOK'
  BY <1>1, <1>2, <1>8, PassOver, NoWindowStep
<1> QED BY <1>3, <1>7, <1>8, <1>9 DEF Typed

\* ... and PVHOOK's.
LEMMA HookSaysTyped == TInv /\ HookSays => Typed'
<1> SUFFICES ASSUME TInv, HookSays PROVE Typed'
  OBVIOUS
<1>1. /\ calm' = calm /\ UNCHANGED frame /\ UNCHANGED <<left, z, dead, memory>>
      /\ wnd' = wnd /\ posts' = posts /\ mon' = mon
  BY DEF HookSays, program
<1>2. SeenOK /\ WinsOK /\ FrameOK /\ MenusOK /\ PassOK /\ LayersOK /\ HookOK /\ dirty \in BOOLEAN /\ IsRecord(pending, {"on", "list"})
  BY DEF TInv, Typed, IInv, PageOK
<1>3. SeenOK' /\ FrameOK' /\ calm' \in BOOLEAN
  BY <1>1, <1>2, SeenSame, RestSame DEF TInv, Typed
<1>4. PassOK' /\ WinsOK' /\ MenusOK'
  BY <1>1, <1>2, PassSame, NoWindowStep
<1>5. PICK ahead \in {Ahead} : /\ Hears(IF ahead = <<>> THEN <<>> ELSE <<HookLine(Last(ahead))>>, Len(ahead) <= 1)
                               /\ hook' = IF Len(ahead) <= 1 THEN Silent ELSE [hook EXCEPT !.at = Last(ahead)]
                               /\ dirty' = (dirty \/ (Len(ahead) <= 1))
  BY DEF HookSays, Dirtied
<1>6. ahead \in Seq(H) /\ (ahead # <<>> => Last(ahead) \in H)
  <2>1. ahead = Ahead
    OBVIOUS
  <2> QED BY <1>2, <2>1, AheadIs DEF SeenOK
<1> DEFINE lines == IF ahead = <<>> THEN <<>> ELSE <<HookLine(Last(ahead))>>
<1>7. lines \in Seq(Layer)
  <2>1. ahead # <<>> => HookLine(Last(ahead)) \in Layer
    BY <1>2, <1>6, HookLineIs
  <2> QED BY <2>1
<1>8. Hears(lines, Len(ahead) <= 1)
  BY <1>5
<1> HIDE DEF lines
<1>9. LayersOK'
  BY <1>2, <1>7, <1>8, LayersHear
<1>10. HookOK' /\ dirty' \in BOOLEAN
  <2>1. CASE Len(ahead) <= 1
    BY <1>2, <1>5, <2>1 DEF HookOK, Silent, IsRecord
  <2>2. CASE ~(Len(ahead) <= 1)
    <3>1. ahead # <<>> /\ hook' = [hook EXCEPT !.at = Last(ahead)]
      <4>1. ahead = <<>> => Len(ahead) = 0
        OBVIOUS
      <4> QED BY <1>5, <2>2, <4>1
    <3>2. IsRecord(hook', {"on", "skip", "force", "at"}) /\ hook'.on = hook.on /\ hook'.at = Last(ahead)
      BY <1>2, <3>1 DEF HookOK, IsRecord
    <3> QED BY <1>2, <1>5, <1>6, <3>1, <3>2 DEF HookOK
  <2> QED BY <2>1, <2>2
<1> QED BY <1>3, <1>4, <1>9, <1>10 DEF Typed

\* A command makes no menu, and does not move one.
LEMMA OrderedPuts ==
  ASSUME WinsOK, FrameOK, NEW w, Good(w), NEW what \in {"activate", "close", "restore", "minimise"}
  PROVE  Puts(w, Ordered(w, what))
<1>1. \A v : Good(v) /\ v.kind # "app" => Activated(v) = v
  BY ActivatedGood
<1>2. /\ Good(Restored(w)) /\ Restored(w).kind = w.kind
      /\ w.mode = "normal" => /\ Restored(w).normal = w.normal /\ Restored(w).asked = w.asked
                              /\ Restored(w).own = w.own /\ Restored(w).rect = w.rect
      /\ w.mode # "normal" => Restored(w).own
  BY RestoredGood
<1>3. Puts(w, w) /\ Puts(w, Restored(w))
  BY <1>2 DEF Puts
<1>4. Puts(w, Minimised(w))
  BY MinimisedGood DEF Puts
<1>5. Good(Activated(w)) /\ Activated(w).kind = w.kind /\ Good(Activated(Restored(w))) /\ Activated(Restored(w)).kind = w.kind
  BY <1>2, ActivatedGood DEF Alike
<1>6. Puts(w, Activated(w)) /\ Puts(w, Activated(Restored(w)))
  <2>1. CASE w.kind = "menu"
    BY <1>1, <1>2, <1>3, <2>1
  <2>2. CASE w.kind # "menu"
    BY <1>5, <2>2 DEF Puts
  <2> QED BY <2>1, <2>2
<1> QED BY <1>3, <1>4, <1>6 DEF Ordered

\* The command that PVMON runs ...
LEMMA RunCommandTyped == TInv /\ RunCommand => Typed'
<1> SUFFICES ASSUME TInv, RunCommand PROVE Typed'
  OBVIOUS
<1>1. /\ UNCHANGED <<left, memory, pending, layers>> /\ UNCHANGED frame /\ UNCHANGED hook /\ cmd # None
      /\ dirty' = FALSE /\ mon.pc = "idle" /\ mon' = [mon EXCEPT !.pc = "collect"]
  BY DEF RunCommand, Obeys, Polls
<1>2. WndOK /\ SlotsOK /\ SeenOK /\ WinsOK /\ FrameOK /\ MenusOK /\ PassOK /\ LayersOK /\ calm \in BOOLEAN
      /\ cmd.what \in {"activate", "close", "restore", "minimise"}
  BY <1>1 DEF TInv, Typed, IInv, PageOK
<1>3. FrameOK' /\ HookOK' /\ dirty' \in BOOLEAN
  BY <1>1, RestSame DEF TInv
<1>4. LayersOK'
  BY <1>1, <1>2, LayersStay
<1>5. PassOK' /\ mon'.pc # "place"
  <2>1. IsRecord(mon', {"pc", "list", "todo"}) /\ mon'.pc = "collect"
    BY <1>1, <1>2 DEF PassOK, IsRecord
  <2> QED BY <2>1 DEF PassOK
<1> DEFINE h == IF cmd.slot \in Slots THEN slots[cmd.slot] ELSE NoWnd
           v == Ordered(wnd[h], cmd.what)
<1>6. CASE h = NoWnd \/ (h # NoWnd /\ ~Exists(h))
  <2>1. wnd' = wnd /\ z' = z /\ dead' = dead /\ posts' = posts /\ calm' = calm
    BY <1>6 DEF RunCommand, program
  <2> QED BY <1>1, <1>2, <1>3, <1>4, <1>5, <2>1, PassOver, NoWindowStep, SeenSame DEF Typed
<1>7. CASE ~(h = NoWnd \/ (h # NoWnd /\ ~Exists(h)))
  <2>1. /\ wnd' = [wnd EXCEPT ![h] = v] /\ posts' = Posted(posts, h, v) /\ dead' = dead /\ calm' = FALSE
        /\ z' \in {z, ToFront(h)}
    BY <1>7 DEF RunCommand
  <2>2. h \in H
    BY <1>2, <1>7 DEF SlotsOK
  <2>3. Exists(h)
    BY <1>7
  <2> HIDE DEF h
  <2>4. Good(wnd[h])
    BY <1>2, <2>2, <2>3, WindowIs
  <2>5. Good(v) /\ Puts(wnd[h], v)
    BY <1>2, <2>4, OrderedGood, OrderedPuts
  <2> HIDE DEF v
  <2>6. WinsOK' /\ MenusOK'
    BY <1>2, <1>5, <2>1, <2>2, <2>5, PassOver, WindowStep
  <2>7. SeenOK'
    <3>1. z' \in Seq(H)
      BY <1>2, <2>1, <2>2, ToFrontIs DEF SeenOK
    <3> QED BY <1>1, <1>2, <2>1, <3>1 DEF SeenOK, memory
  <2> QED BY <1>3, <1>4, <1>5, <2>1, <2>6, <2>7 DEF Typed
<1> QED BY <1>6, <1>7

\* ... the windows posted to it ...
LEMMA ParkPostedTyped == TInv /\ ParkPosted => Typed'
<1> SUFFICES ASSUME TInv, ParkPosted PROVE Typed'
  OBVIOUS
<1>1. /\ UNCHANGED frame /\ UNCHANGED hook /\ UNCHANGED page /\ dirty' = dirty /\ calm' \in BOOLEAN
      /\ UNCHANGED <<left, z, dead>> /\ mon' = mon
  BY DEF ParkPosted
<1>2. PassOK /\ MenusOK /\ SeenOK /\ WinsOK /\ posts \subseteq H
  BY DEF TInv, Typed, IInv
<1>3. FrameOK' /\ HookOK' /\ LayersOK' /\ dirty' \in BOOLEAN
  BY <1>1, RestSame DEF TInv, Typed
<1>4. PassOK' /\ \A g \in H : InPass(g)' => InPass(g)
  BY <1>1, <1>2, PassSame
<1>5. PICK h \in posts : \/ \E wide \in Wide(h) : Slotted(h, wide, TRUE, posts \ {h})
                         \/ posts' = posts \ {h} /\ UNCHANGED <<wnd, memory>>
  BY DEF ParkPosted
<1>6. WinsOK' /\ MenusOK' /\ SeenOK'
  <2>1. ASSUME NEW wide \in Wide(h), Slotted(h, wide, TRUE, posts \ {h})
        PROVE  WinsOK' /\ MenusOK' /\ SeenOK'
    <3>1. h \in H /\ posts \ {h} \in SUBSET posts /\ (wnd[h].kind = "menu" => wnd[h].own)
      BY <1>2, WindowIs DEF MenusOK
    <3>2. WinsOK' /\ MenusOK' /\ sized' \in Seq(H) /\ owned' = owned /\ fitted' = fitted
      BY <1>4, <2>1, <3>1, SlottedTyped
    <3> QED BY <1>1, <1>2, <3>2 DEF SeenOK
  <2>2. CASE posts' = posts \ {h} /\ UNCHANGED <<wnd, memory>>
    <3>1. WinsOK' /\ MenusOK'
      BY <1>2, <1>4, <2>2, NoWindowStep
    <3> QED BY <1>1, <1>2, <2>2, <3>1, SeenSame
  <2> QED BY <1>5, <2>1, <2>2
<1> QED BY <1>1, <1>3, <1>4, <1>6 DEF Typed

\* ... and fit_windows, which leaves menus alone ...
LEMMA FitsTyped ==
  ASSUME TInv, NEW now \in Desktops, NEW was, was = None \/ was = screen, wnd' = Fits(was, now),
         posts' = posts, mon' = mon
  PROVE  WinsOK' /\ MenusOK' /\ \A h \in H : wnd[h].kind = "menu" => wnd'[h] = wnd[h]
<1>1. WinsOK /\ FrameOK /\ MenusOK
  BY DEF TInv, Typed
<1> DEFINE v(h) == CASE wnd[h].kind = "menu" -> wnd[h]
                     [] wnd[h].kind # "menu" /\ (~Visible(h) \/ Iconic(h)) -> [wnd[h] EXCEPT !.own = Exists(h)]
                     [] OTHER -> FitWindow(wnd[h], was, now)
<1>2. \A h \in H : (v(h) = Closed \/ Good(v(h))) /\ (wnd[h].kind = "menu" => v(h) = wnd[h]) /\ (v(h).kind = "menu" => wnd[h].kind = "menu")
  <2> TAKE h \in H
  <2>1. CASE wnd[h].kind = "menu"
    BY <1>1, <2>1 DEF WinsOK
  <2>2. CASE wnd[h].kind # "menu" /\ Exists(h) /\ (~Visible(h) \/ Iconic(h))
    <3> DEFINE u == [wnd[h] EXCEPT !.own = Exists(h)]
    <3>1. v(h) = u
      BY <2>2
    <3>2. Good(wnd[h]) /\ Exists(h) \in BOOLEAN
      BY <1>1, <2>2, WindowIs DEF Exists
    <3>3. Good(u) /\ u.kind = wnd[h].kind
      BY <3>2, OwnGood
    <3> HIDE DEF u, v
    <3> QED BY <2>2, <3>1, <3>3
  <2>3. CASE ~Exists(h)
    <3>1. wnd[h] = Closed
      BY <1>1, <2>3, FieldsOf DEF WinsOK, Exists
    <3>2. Closed.kind = "closed" /\ Closed.mode = "normal" /\ Closed.vis = FALSE
      BY DEF Closed
    <3>3. v(h) = [wnd[h] EXCEPT !.own = FALSE]
      BY <2>3, <3>1, <3>2 DEF Visible, Exists
    <3>4. v(h) = Closed
      BY <3>1, <3>3, NotOwned
    <3> HIDE DEF v
    <3> QED BY <3>1, <3>2, <3>4
  <2>4. CASE wnd[h].kind # "menu" /\ Exists(h) /\ Visible(h) /\ ~Iconic(h)
    <3>1. v(h) = FitWindow(wnd[h], was, now)
      BY <2>4
    <3>2. Good(wnd[h])
      BY <1>1, <2>4, WindowIs
    <3>3. Good(FitWindow(wnd[h], was, now)) /\ FitWindow(wnd[h], was, now).kind = wnd[h].kind
      BY <1>1, <3>2, FitWindowGood
    <3> HIDE DEF v
    <3> QED BY <2>4, <3>1, <3>3
  <2> QED BY <2>1, <2>2, <2>3, <2>4
<1>3. wnd' = [h \in H |-> v(h)]
  BY DEF Fits
<1> HIDE DEF v
<1>4. \A h \in H : wnd'[h] = v(h)
  BY <1>3
<1>5. WinsOK'
  BY <1>2, <1>4 DEF WinsOK
<1>6. \A h \in H : InPass(h)' => InPass(h)
  BY PassSame
<1>7. MenusOK'
  BY <1>1, <1>2, <1>4, <1>6 DEF MenusOK
<1> QED BY <1>2, <1>4, <1>5, <1>7

\* ... when the screen changes.
LEMMA ScreenTyped == TInv /\ (FinishSwitch \/ NewScreen) => Typed'
<1> SUFFICES ASSUME TInv, FinishSwitch \/ NewScreen PROVE Typed'
  OBVIOUS
<1>1. /\ posts' = posts /\ mon' = mon /\ UNCHANGED hook /\ UNCHANGED page /\ UNCHANGED <<z, dead, memory>>
      /\ calm' = FALSE /\ dirty' = dirty /\ UNCHANGED <<layout, shellH, hookReal>>
      /\ left' = left \/ (left > 0 /\ left' = left - 1)
  BY DEF FinishSwitch, NewScreen, Does, Quiet
<1>2. SeenOK /\ WinsOK /\ FrameOK /\ MenusOK /\ PassOK /\ dirty \in BOOLEAN
  BY DEF TInv, Typed
<1>3. HookOK' /\ LayersOK' /\ PassOK' /\ SeenOK'
  <2>1. left' \in Nat
    BY <1>1, <1>2 DEF SeenOK
  <2> QED BY <1>1, <1>2, <2>1, RestSame, PassSame DEF TInv, SeenOK, memory
<1>4. screen' \in {PhoneScreen} \cup Desktops /\ switching' \in 0 .. SettlePolls
  <2>1. CASE FinishSwitch
    <3>1. 0 \in 0 .. SettlePolls
      BY PvWindowsAssumption
    <3> QED BY <2>1, <3>1 DEF FinishSwitch
  <2>2. CASE NewScreen
    BY <1>2, <2>2 DEF NewScreen, FrameOK
  <2> QED BY <2>1, <2>2
<1>5. FrameOK'
  BY <1>1, <1>2, <1>4 DEF FrameOK
<1>6. WinsOK' /\ MenusOK'
  <2>1. CASE wnd' = wnd
    BY <1>1, <1>2, <2>1, PassSame, NoWindowStep
  <2>2. CASE \E now \in Desktops, was \in {None, screen} : wnd' = Fits(was, now)
    BY <1>1, <2>2, FitsTyped
  <2>3. wnd' = wnd \/ \E now \in Desktops, was \in {None, screen} : wnd' = Fits(was, now)
    BY DEF FinishSwitch, NewScreen
  <2> QED BY <2>1, <2>2, <2>3
<1> QED BY <1>1, <1>2, <1>3, <1>5, <1>6 DEF Typed

\* The programs' steps: a window is created ...
LEMMA CreateTyped == \A h \in H : TInv /\ Create(h) => Typed'
<1> SUFFICES ASSUME TInv, NEW h \in H, Create(h) PROVE Typed'
  OBVIOUS
<1>1. /\ left > 0 /\ left' = left - 1 /\ UNCHANGED <<frame, memory, mon, posts, hook, dirty>> /\ UNCHANGED page
      /\ z' = <<h>> \o z /\ dead' = dead \ {h} /\ calm' = FALSE /\ ~Exists(h)
  BY DEF Create, Does, Others, Quiet
<1>2. WndOK /\ SeenOK /\ WinsOK /\ FrameOK /\ MenusOK /\ PassOK /\ dirty \in BOOLEAN /\ habit \in Habits
  BY DEF TInv, Typed, IInv
<1>3. FrameOK' /\ HookOK' /\ LayersOK' /\ PassOK'
  BY <1>1, <1>2, RestSame, PassSame DEF TInv
<1>4. SeenOK'
  <2>1. <<h>> \o z \in Seq(H) /\ left' \in Nat
    BY <1>1, <1>2 DEF SeenOK
  <2> QED BY <1>1, <1>2, <2>1 DEF SeenOK, memory
<1>5. PICK d \in habit.as[h] : wnd' = [wnd EXCEPT ![h] = Opened(h, d, Birth(d))]
  BY DEF Create
<1> DEFINE v == Opened(h, d, Birth(d))
<1>6. /\ Good(v) /\ v.kind = d.kind /\ (d.kind = "menu" => v.normal = v.asked) /\ v.own = Mistaken(h, d)
  BY <1>2, HabitsDescribe, OpenedGood
<1> HIDE DEF v
<1>7. \A g \in H : wnd'[g] = IF g = h THEN v ELSE wnd[g]
  BY <1>2, <1>5 DEF WndOK, v
<1>8. WinsOK'
  BY <1>2, <1>6, <1>7 DEF WinsOK
<1>9. MenusOK'
  <2>1. \A g \in H : InPass(g)' => InPass(g)
    BY <1>1, PassSame
  <2> SUFFICES ASSUME NEW g \in H, wnd'[g].kind = "menu", ~wnd'[g].own
               PROVE  wnd'[g].normal = wnd'[g].asked /\ g \notin posts' /\ ~InPass(g)'
    BY DEF MenusOK
  <2>2. CASE g # h
    BY <1>1, <1>2, <1>7, <2>1, <2>2 DEF MenusOK
  <2>3. CASE g = h
    BY <1>1, <1>6, <1>7, <2>1, <2>3 DEF Mistaken
  <2> QED BY <2>2, <2>3
<1> QED BY <1>1, <1>2, <1>3, <1>4, <1>8, <1>9 DEF Typed

\* What a program does to a window of its own.
LEMMA ChangePuts ==
  ASSUME TInv, NEW h \in H,
         Show(h) \/ Activate(h) \/ Resize(h) \/ Move(h) \/ Maximise(h) \/ Restore(h) \/ Minimise(h) \/ Hide(h)
  PROVE  \E v : Good(v) /\ Puts(wnd[h], v) /\ Now(h, v)
<1>1. Good(wnd[h]) /\ WinsOK /\ FrameOK
  <2>1. WinsOK /\ FrameOK
    BY DEF TInv, Typed
  <2>2. Exists(h)
    BY DEF Show, Activate, Resize, Move, Maximise, Restore, Minimise, Hide, ShowAs, Visible
  <2> QED BY <2>1, <2>2, WindowIs
<1> DEFINE w == wnd[h]
<1>2. w.rect \in Rect /\ w.normal \in Rect
  BY <1>1, FieldsOf
<1>3. CASE Show(h) \/ Hide(h)
  <2>1. \E b \in BOOLEAN : Now(h, [w EXCEPT !.vis = b])
    BY <1>3 DEF Show, Hide
  <2>2. PICK b \in BOOLEAN : Now(h, [w EXCEPT !.vis = b])
    BY <2>1
  <2> DEFINE v == [w EXCEPT !.vis = b]
  <2>3. Good(v) /\ v.kind = w.kind /\ v.rect = w.rect /\ v.normal = w.normal /\ v.asked = w.asked /\ v.own = w.own
    BY <1>1, VisibleGood
  <2>4. Now(h, v)
    BY <2>2
  <2> HIDE DEF v
  <2> QED BY <2>3, <2>4 DEF Puts
<1>4. CASE Activate(h)
  <2>1. Now(h, Activated(w)) /\ w.kind # "menu"
    BY <1>4 DEF Activate
  <2>2. Good(Activated(w)) /\ Alike(w, Activated(w))
    BY <1>1, ActivatedGood
  <2> QED BY <2>1, <2>2 DEF Puts, Alike
<1>5. CASE Resize(h)
  <2>1. PICK n \in habit.sizes :
          Now(h, [Moved(w, [w.rect EXCEPT !.w = n.w, !.h = n.h]) EXCEPT !.asked = [w.rect EXCEPT !.w = n.w, !.h = n.h], !.own = TRUE])
    BY <1>5 DEF Resize
  <2> DEFINE r == [w.rect EXCEPT !.w = n.w, !.h = n.h]
             m == Moved(w, r)
             v == [m EXCEPT !.asked = r, !.own = TRUE]
  <2>2. r \in Rect /\ w.mode = "normal"
    <3>1. n \in [w : Nat, h : Nat]
      BY PvWindowsAssumption DEF TInv, IInv
    <3> QED BY <1>2, <1>5, <3>1, RectResizedIs DEF Resize
  <2> HIDE DEF r
  <2>3. Good(v)
    BY <1>1, <2>2, AskedGood
  <2>4. v.own
    <3>1. w.mode = "normal" => Room(w, w.rect)
      BY <1>1, FieldsOf
    <3>2. m = At(w, HookKeeps(w, r))
      BY DEF Moved
    <3>3. IsWindow(w)
      BY DEF TInv, IInv, WndOK
    <3>4. IsWindow(m)
      BY <3>3, MovedStays DEF Stays
    <3> HIDE DEF m
    <3> QED BY <3>4 DEF IsWindow, IsRecord, WindowFields
  <2>5. Now(h, v)
    BY <2>1 DEF r
  <2> HIDE DEF v
  <2> QED BY <2>3, <2>4, <2>5 DEF Puts
<1>6. CASE Move(h)
  <2>1. PICK p \in habit.spots : Now(h, [Moved(w, [w.rect EXCEPT !.x = p.x, !.y = p.y]) EXCEPT !.own = TRUE])
    BY <1>6 DEF Move
  <2> DEFINE r == [w.rect EXCEPT !.x = p.x, !.y = p.y]
             m == Moved(w, r)
             v == [m EXCEPT !.own = TRUE]
  <2>2. r \in Rect /\ SameSize(r, w.rect)
    <3>1. p \in [x : Int, y : Int]
      BY PvWindowsAssumption DEF TInv, IInv
    <3> QED BY <1>2, <3>1, RectMovedIs
  <2> HIDE DEF r
  <2>3. Good(v)
    BY <1>1, <2>2, MovesGood
  <2>4. v.own
    <3>3. IsWindow(w)
      BY DEF TInv, IInv, WndOK
    <3>4. IsWindow(m)
      BY <3>3, MovedStays DEF Stays
    <3> HIDE DEF m
    <3> QED BY <3>4 DEF IsWindow, IsRecord, WindowFields
  <2>5. Now(h, v)
    BY <2>1 DEF r
  <2> HIDE DEF v
  <2> QED BY <2>3, <2>4, <2>5 DEF Puts
<1>7. CASE Maximise(h) \/ Restore(h) \/ Minimise(h)
  <2>1. /\ IsApp(h)
        /\ \/ Now(h, Maximised(w)) /\ Maximise(h)
           \/ Now(h, Restored(w))
           \/ Now(h, Minimised(w))
    BY <1>7 DEF Maximise, Restore, Minimise, ShowAs
  <2>2. Good(Maximised(w)) /\ Good(Restored(w)) /\ Good(Minimised(w))
    BY <1>1, MaximisedGood, RestoredGood, MinimisedGood
  <2>3. Maximised(w).kind = w.kind /\ Restored(w).kind = w.kind /\ Minimised(w).kind = w.kind
    <3>1. IsWindow(w)
      BY DEF TInv, IInv, WndOK
    <3>2. Maximised(w).kind = w.kind
      BY <3>1, ProgramStays DEF Stays
    <3> QED BY <1>1, <3>2, RestoredGood, MinimisedGood
  <2> QED BY <2>1, <2>2, <2>3 DEF Puts, IsApp
<1> QED BY <1>3, <1>4, <1>5, <1>6, <1>7

\* ... changed ...
LEMMA ChangeTyped ==
  \A h \in H : TInv /\ (Show(h) \/ Activate(h) \/ Resize(h) \/ Move(h) \/ Maximise(h) \/ Restore(h) \/ Minimise(h) \/ Hide(h)) => Typed'
<1> SUFFICES ASSUME TInv, NEW h \in H,
                    Show(h) \/ Activate(h) \/ Resize(h) \/ Move(h) \/ Maximise(h) \/ Restore(h) \/ Minimise(h) \/ Hide(h)
             PROVE  Typed'
  OBVIOUS
<1>1. /\ left > 0 /\ left' = left - 1 /\ UNCHANGED frame /\ UNCHANGED memory /\ mon' = mon /\ dead' = dead
      /\ z' \in {z, ToFront(h)}
  BY DEF Show, Activate, Resize, Move, Maximise, Restore, Minimise, Hide, ShowAs, Does, Others
<1>2. WndOK /\ SeenOK /\ WinsOK /\ FrameOK /\ MenusOK /\ PassOK /\ HookOK /\ LayersOK /\ dirty \in BOOLEAN /\ IsRecord(pending, {"on", "list"})
  BY DEF TInv, Typed, IInv, PageOK
<1>3. FrameOK' /\ PassOK' /\ \A g \in H : InPass(g)' => InPass(g)
  BY <1>1, <1>2, RestSame, PassSame DEF TInv
<1>4. SeenOK'
  <2>1. left' \in Nat /\ z' \in Seq(H)
    BY <1>1, <1>2, ToFrontIs DEF SeenOK
  <2> QED BY <1>1, <1>2, <2>1 DEF SeenOK, memory
<1>5. PICK v : Good(v) /\ Puts(wnd[h], v) /\ Now(h, v)
  BY ChangePuts
<1>6. wnd' = [wnd EXCEPT ![h] = v] /\ posts' = Posted(posts, h, v) /\ calm' = FALSE
  BY <1>5 DEF Now
<1>7. WinsOK' /\ MenusOK'
  BY <1>2, <1>3, <1>5, <1>6, WindowStep
<1>8. HookOK' /\ dirty' \in BOOLEAN
  <2>1. (\E yes, skip, force : Publishes(yes, skip, force)) \/ UNCHANGED <<hook, dirty>>
    BY DEF Show, Activate, Resize, Move, Maximise, Restore, Minimise, Hide, ShowAs, Quiet
  <2>2. CASE UNCHANGED <<hook, dirty>>
    BY <1>2, <2>2 DEF HookOK
  <2> QED BY <1>2, <2>1, <2>2, PublishesIs
<1>9. LayersOK'
  <2>1. CASE Hide(h)
    BY <1>2, <2>1, LayersDoubted DEF Hide
  <2>2. CASE ~Hide(h)
    <3>1. layers' = layers /\ (pending' = pending \/ pending' = PVB)
      BY <2>2 DEF Show, Activate, Resize, Move, Maximise, Restore, Minimise, ShowAs, page, Begun
    <3> QED BY <1>2, <3>1, LayersStay
  <2> QED BY <2>1, <2>2
<1> QED BY <1>3, <1>4, <1>6, <1>7, <1>8, <1>9 DEF Typed

\* ... destroyed ...
LEMMA DiesTyped == \A h \in H : TInv /\ (Destroy(h) \/ DestroyOwned(h)) => Typed'
<1> SUFFICES ASSUME TInv, NEW h \in H, Destroy(h) \/ DestroyOwned(h) PROVE Typed'
  OBVIOUS
<1>1. /\ left' = left \/ (left > 0 /\ left' = left - 1)
      /\ UNCHANGED frame /\ UNCHANGED memory /\ mon' = mon /\ dead' = dead \cup {h}
      /\ wnd' = wnd /\ z' = z /\ posts' = posts /\ calm' = FALSE
      /\ \E yes, skip, force : Publishes(yes, skip, force)
      /\ \E sends : Doubts(h, sends)
  BY DEF Destroy, DestroyOwned, Dies, Does, Others
<1>2. SeenOK /\ WinsOK /\ MenusOK /\ PassOK /\ HookOK /\ LayersOK /\ dirty \in BOOLEAN /\ IsRecord(pending, {"on", "list"})
  BY DEF TInv, Typed, IInv, PageOK
<1>3. FrameOK' /\ PassOK' /\ \A g \in H : InPass(g)' => InPass(g)
  BY <1>1, <1>2, RestSame, PassSame DEF TInv
<1>4. SeenOK'
  <2>1. left' \in Nat
    BY <1>1, <1>2 DEF SeenOK
  <2> QED BY <1>1, <1>2, <2>1 DEF SeenOK, memory
<1>5. WinsOK' /\ MenusOK'
  BY <1>1, <1>2, <1>3, NoWindowStep
<1>6. HookOK' /\ dirty' \in BOOLEAN
  BY <1>1, <1>2, PublishesIs
<1>7. LayersOK'
  BY <1>1, <1>2, LayersDoubted
<1> QED BY <1>1, <1>3, <1>4, <1>5, <1>6, <1>7 DEF Typed

\* ... and gone.
LEMMA GoneTyped == \A h \in H : TInv /\ Gone(h) => Typed'
<1> SUFFICES ASSUME TInv, NEW h \in H, Gone(h) PROVE Typed'
  OBVIOUS
<1>1. /\ UNCHANGED <<left, posts, hook, dirty>> /\ UNCHANGED frame /\ UNCHANGED memory /\ UNCHANGED page /\ mon' = mon
      /\ dead' = dead \ {h} /\ wnd' = [wnd EXCEPT ![h] = Closed] /\ z' = Those(z, H \ {h}) /\ calm' = FALSE
  BY DEF Gone, Others, Quiet
<1>2. WndOK /\ SeenOK /\ WinsOK /\ FrameOK /\ MenusOK /\ PassOK /\ dirty \in BOOLEAN
  BY DEF TInv, Typed, IInv
<1>3. FrameOK' /\ HookOK' /\ LayersOK' /\ PassOK' /\ \A g \in H : InPass(g)' => InPass(g)
  BY <1>1, <1>2, RestSame, PassSame DEF TInv
<1>4. SeenOK'
  <2>1. z' \in Seq(H)
    BY <1>1, <1>2, ThoseAre DEF SeenOK
  <2> QED BY <1>1, <1>2, <2>1 DEF SeenOK, memory
<1>5. WinsOK' /\ MenusOK'
  <2> DEFINE c == Closed
  <2>1. Puts(wnd[h], c) /\ c = Closed
    BY DEF Puts, Closed
  <2>2. wnd' = [wnd EXCEPT ![h] = c] /\ posts \subseteq posts
    BY <1>1
  <2> HIDE DEF c
  <2> QED BY <1>1, <1>2, <1>3, <2>1, <2>2, WindowStep
<1> QED BY <1>1, <1>2, <1>3, <1>4, <1>5 DEF Typed

\* What the page asks for.
LEMMA HostTyped == TInv /\ (Tap \/ ShellSize \/ SetDesktop) => Typed'
<1> SUFFICES ASSUME TInv, Tap \/ ShellSize \/ SetDesktop PROVE Typed'
  OBVIOUS
<1>1. /\ left > 0 /\ left' = left - 1 /\ UNCHANGED <<z, dead>> /\ wnd' = wnd /\ posts' = posts
      /\ UNCHANGED memory /\ hook' = hook /\ UNCHANGED <<pending, layers>>
      /\ dirty' \in {dirty, FALSE} /\ calm' \in {calm, FALSE}
      /\ mon' = mon \/ (mon.pc = "idle" /\ mon' = [mon EXCEPT !.pc = "collect"])
  BY DEF Tap, ShellSize, SetDesktop, Does, Others, Quiet, program, page, Obeys, Polls
<1>2. SeenOK /\ WinsOK /\ FrameOK /\ MenusOK /\ PassOK /\ HookOK /\ LayersOK /\ dirty \in BOOLEAN /\ calm \in BOOLEAN
  BY DEF TInv, Typed
<1>3. SeenOK'
  <2>1. left' \in Nat
    BY <1>1, <1>2 DEF SeenOK
  <2> QED BY <1>1, <1>2, <2>1 DEF SeenOK, memory
<1>4. HookOK' /\ LayersOK'
  BY <1>1, <1>2 DEF HookOK, LayersOK
<1>5. PassOK' /\ \A g \in H : InPass(g)' => InPass(g)
  <2>1. CASE mon' = mon
    BY <1>2, <2>1, PassSame
  <2>2. CASE mon' = [mon EXCEPT !.pc = "collect"]
    <3>1. IsRecord(mon', {"pc", "list", "todo"}) /\ mon'.pc = "collect"
      BY <1>2, <2>2 DEF PassOK, IsRecord
    <3> QED BY <3>1, PassOver DEF PassOK
  <2> QED BY <1>1, <2>1, <2>2
<1>6. WinsOK' /\ MenusOK'
  BY <1>1, <1>2, <1>5, NoWindowStep
<1>7. FrameOK'
  <2>1. screen.h \in Nat
    BY <1>2, Frames
  <2>2. /\ screen' = screen /\ hookReal' \in {hookReal, screen.h} /\ shellH' \in Heights
        /\ layout' \in {"phone", "desktop"} /\ switching' \in 0 .. SettlePolls
    <3>1. 1 \in 0 .. SettlePolls
      BY PvWindowsAssumption
    <3>2. CASE Tap
      BY <1>2, <3>2 DEF Tap, Others, frame, FrameOK
    <3>3. CASE ShellSize
      BY <1>2, <3>3 DEF ShellSize, FrameOK
    <3>4. CASE SetDesktop
      BY <1>2, <3>1, <3>4 DEF SetDesktop, FrameOK
    <3> QED BY <3>2, <3>3, <3>4
  <2> QED BY <1>2, <2>1, <2>2 DEF FrameOK
<1>8. dirty' \in BOOLEAN /\ calm' \in BOOLEAN
  BY <1>1, <1>2
<1> QED BY <1>3, <1>4, <1>5, <1>6, <1>7, <1>8 DEF Typed

\* It is so at first ...
LEMMA InitTyped == Init => Typed
<1> SUFFICES ASSUME Init PROVE Typed
  OBVIOUS
<1>1. /\ habit \in Habits /\ left = habit.events /\ z = habit.open /\ dead = {}
      /\ layout = "phone" /\ screen = PhoneScreen /\ shellH = ShellHeight /\ switching = 0 /\ hookReal = PhoneScreen.h
      /\ hook = Silent /\ dirty = FALSE /\ posts = {} /\ sized = <<>> /\ owned = <<>> /\ fitted = {}
      /\ mon = Idle /\ cmd = None /\ pending = NoList /\ layers = <<>> /\ calm = FALSE
  BY DEF Init
<1>2. SeenOK
  BY <1>1, PvWindowsAssumption DEF SeenOK
<1>3. FrameOK
  <2>1. PhoneScreen \in [w : Nat, h : Nat] /\ 0 \in 0 .. SettlePolls
    BY PvWindowsAssumption
  <2>2. PhoneScreen.h \in Nat
    BY <2>1
  <2> QED BY <1>1, <2>1, <2>2, PvWindowsAssumption DEF FrameOK
<1>4. HookOK /\ PassOK /\ LayersOK
  BY <1>1 DEF HookOK, Silent, PassOK, Idle, LayersOK, NoList, IsRecord
<1>5. PICK pick : /\ \A h \in H : pick[h] \in habit.as[h]
                  /\ wnd = [h \in H |-> IF Contains(habit.open, h)
                             THEN [Closed EXCEPT !.kind = pick[h].kind, !.owner = pick[h].owner, !.style = pick[h].style,
                                     !.vis = TRUE, !.rect = pick[h].rect, !.normal = pick[h].rect, !.asked = pick[h].rect]
                             ELSE Closed]
  BY DEF Init
<1> DEFINE v(h) == [Closed EXCEPT !.kind = pick[h].kind, !.owner = pick[h].owner, !.style = pick[h].style,
                      !.vis = TRUE, !.rect = pick[h].rect, !.normal = pick[h].rect, !.asked = pick[h].rect]
<1>6. \A h \in H : Good(v(h)) /\ v(h).normal = v(h).asked
  <2> TAKE h \in H
  <2> DEFINE d == pick[h]
  <2>1. Described(d)
    BY <1>1, <1>5, HabitsDescribe
  <2>2. IsWindow(Closed) /\ Closed.mode = "normal" /\ Closed.own = FALSE
    BY ClosedIsWindow DEF Closed
  <2>3. /\ IsWindow(v(h)) /\ v(h).kind = d.kind /\ v(h).owner = d.owner /\ v(h).style = d.style /\ v(h).vis = TRUE
        /\ v(h).rect = d.rect /\ v(h).normal = d.rect /\ v(h).asked = d.rect /\ v(h).mode = "normal" /\ v(h).own = FALSE
    <3> DEFINE c == Closed
    <3>1. IsWindow(c) /\ c.mode = "normal" /\ c.own = FALSE
      BY <2>2
    <3> HIDE DEF c, d
    <3>2. v(h) = [c EXCEPT !.kind = d.kind, !.owner = d.owner, !.style = d.style,
                    !.vis = TRUE, !.rect = d.rect, !.normal = d.rect, !.asked = d.rect]
      BY DEF c, d
    <3> HIDE DEF v
    <3> QED BY <3>1, <3>2 DEF IsWindow, IsRecord, WindowFields
  <2> HIDE DEF d, v
  <2>4. v(h) \in There
    BY <2>1, <2>3 DEF There, Described, IsWindow, IsRecord, WindowFields
  <2> QED BY <2>1, <2>3, <2>4 DEF Good, Sound, KeepsSize, Described
<1>7. \A h \in H : wnd[h] = Closed \/ wnd[h] = v(h)
  BY <1>5
<1> HIDE DEF v
<1>8. WinsOK
  BY <1>6, <1>7 DEF WinsOK
<1>9. MenusOK
  <2>1. Closed.kind # "menu"
    BY DEF Closed
  <2>2. \A h \in H : ~InPass(h)
    BY <1>1 DEF InPass, Idle
  <2> QED BY <1>1, <1>6, <1>7, <2>1, <2>2 DEF MenusOK
<1> QED BY <1>1, <1>2, <1>3, <1>4, <1>8, <1>9 DEF Typed

\* ... with the invariant of the slots ...
LEMMA TInitInv == Init => TInv
BY InitInv, InitTyped DEF TInv

\* ... and stays so.
LEMMA TNextInv == TInv /\ [Next]_vars => TInv'
<1> SUFFICES ASSUME TInv, [Next]_vars PROVE Typed'
  BY NextInv DEF TInv
<1>1. CASE Pvmon
  BY <1>1, PollTyped, RunCommandTyped, PlaceTyped, CompareTyped, SayTyped, ParkPostedTyped, ScreenTyped DEF Pvmon
<1>2. CASE HookSays
  BY <1>2, HookSaysTyped
<1>3. CASE Program
  BY <1>3, CreateTyped, ChangeTyped, DiesTyped DEF Program
<1>4. CASE Ending
  BY <1>4, DiesTyped, GoneTyped DEF Ending
<1>5. CASE Host
  BY <1>5, HostTyped, ScreenTyped DEF Host
<1>6. CASE UNCHANGED vars
  <2>1. /\ UNCHANGED <<left, z, dead, memory>> /\ UNCHANGED frame /\ UNCHANGED hook /\ UNCHANGED page
        /\ wnd' = wnd /\ posts' = posts /\ mon' = mon /\ dirty' = dirty /\ calm' = calm
    BY <1>6 DEF vars, program
  <2>2. SeenOK' /\ FrameOK' /\ HookOK' /\ LayersOK' /\ dirty' \in BOOLEAN /\ calm' \in BOOLEAN
    BY <2>1, SeenSame, RestSame DEF TInv, Typed
  <2>3. PassOK' /\ WinsOK' /\ MenusOK'
    BY <2>1, PassSame, NoWindowStep DEF TInv, Typed
  <2> QED BY <2>2, <2>3 DEF Typed
<1> QED BY <1>1, <1>2, <1>3, <1>4, <1>5, <1>6 DEF Next

\* Everything is of its type, and a layer that PVMON vouches for has a slot there is.
THEOREM TypesHold == Spec => []TypeOK
<1>1. TInv => TypeOK
  <2> SUFFICES ASSUME TInv PROVE TypeOK
    OBVIOUS
  <2>1. /\ SeenOK /\ FrameOK /\ WinsOK /\ HookOK /\ PassOK /\ LayersOK /\ SlotsOK /\ posts \subseteq H
        /\ Lines(layers, Bonds) /\ Lines(pending.list, Bonds) /\ dirty \in BOOLEAN /\ calm \in BOOLEAN
    BY DEF TInv, Typed, IInv, PageOK
  <2>2. \A h \in H : wnd[h] \in Window
    BY <2>1 DEF WinsOK, Good, Sound, There, Window
  <2>3. \A L : Vouched(L, Bonds) => Sure(L)
    BY DEF Vouched, Bonds, Sure
  <2>4. \A k \in DOMAIN layers : layers[k] \in Layer /\ Sure(layers[k])
    BY <2>1, <2>3 DEF LayersOK, Lines
  <2>5. \A k \in DOMAIN pending.list : pending.list[k] \in Layer /\ Sure(pending.list[k])
    BY <2>1, <2>3 DEF LayersOK, Lines
  <2> QED BY <2>1, <2>2, <2>4, <2>5 DEF TypeOK, SeenOK, FrameOK, HookOK, PassOK, SlotsOK
<1> QED BY TInitInv, TNextInv, <1>1, PTL DEF Spec

\* A layout of its own keeps the size that its program gave it, and a menu stays
\* where it popped up.
THEOREM LayoutsKept == Spec => []Kept
<1>1. TInv => Kept
  <2> SUFFICES ASSUME TInv, NEW h \in H PROVE KeepsSize(wnd[h]) /\ StaysPut(wnd[h])
    BY DEF Kept
  <2>1. KeepsSize(Closed)
    BY DEF KeepsSize, Closed
  <2> QED BY <2>1 DEF TInv, Typed, WinsOK, Good, Sound, MenusOK, StaysPut
<1> QED BY TInitInv, TNextInv, <1>1, PTL DEF Spec

-----------------------------------------------------------------------------
(* Where windows are once PVMON has gone over them (Placed).               *)

\* What InPlace and Within are about, by name: the slots are S, the frame f.
Inside(r, s, S)    == /\ r.x >= SlotX(Lowest(S))
                      /\ Right(r) <= SlotX(Lowest(S)) + ColW(s, Lowest(S) + 1 \in S)
Sits(w, s, S, f)   == /\ ~TooLarge(w.rect, s, Lowest(S) + 1 \in S, f)
                      /\ Inside(w.rect, s, S)
                      /\ w.mode = "normal" => w.rect.y >= 0

\* To be in place, in terms of the slots a window has ...
LEMMA InPlaceIs == \A k \in H : InPlace(k) <=> Sits(wnd[k], wnd[k].style, SlotsOf(k), MonFrame)
<1> TAKE h \in H
<1>1. \A n : Double(h, n, slots) <=> n + 1 \in SlotsOf(h)
  BY DEF Double, SlotsOf
<1>2. Double(h, AtSlot(h), slots) = (AtSlot(h) + 1 \in SlotsOf(h))
  BY <1>1 DEF Double
<1> QED BY <1>2 DEF InPlace, Sits, Inside, Within, AtSlot

\* ... and to be within its columns.
LEMMA WithinIs == \A k \in H : \A r : Within(r, k) <=> Inside(r, wnd[k].style, SlotsOf(k))
<1> TAKE h \in H
<1> TAKE r
<1>1. Double(h, AtSlot(h), slots) = (AtSlot(h) + 1 \in SlotsOf(h))
  BY DEF Double, SlotsOf
<1> QED BY <1>1 DEF Inside, Within, AtSlot

\* What is within park's limits passes PVHOOK's clamp, whatever the height of
\* the screen that PVHOOK was told of.
LEMMA NotTooLarge ==
  ASSUME NEW r \in Rect, NEW s \in Style, NEW d \in BOOLEAN, MonFrame \in Frame, ~TooLarge(r, s, d, MonFrame)
  PROVE  Fitted(r, s, HookFrame) = r
<1>1. Fitted(r, s, HookFrame) = Fitted(r, s, MonFrame)
  <2>1. HookW(s, HookFrame) = HookW(s, MonFrame) /\ HookH(s, HookFrame) = HookH(s, MonFrame)
    BY DEF HookW, HookH, HookFrame, MonFrame
  <2> QED BY <2>1 DEF Fitted
<1>2. CASE s.fixed
  BY <1>1, <1>2 DEF Fitted
<1>3. CASE ~s.fixed
  <2> DEFINE f == MonFrame
  <2>1. f \in Frame /\ ~TooLarge(r, s, d, f)
    OBVIOUS
  <2> HIDE DEF f
  <2>2. HookW(s, f) \in Nat /\ HookH(s, f) \in Nat /\ ParkW(s, d, f) = HookW(s, f) /\ ParkH(s, f) = HookH(s, f)
    BY <1>3, <2>1, LimitsAgree
  <2>3. r.w \in Nat /\ r.h \in Nat
    BY RectFields
  <2>4. Least(r.w, HookW(s, f)) = r.w /\ Least(r.h, HookH(s, f)) = r.h
    BY <2>1, <2>2, <2>3 DEF TooLarge, Least
  <2>5. Fitted(r, s, f) = [r EXCEPT !.w = Least(r.w, HookW(s, f)), !.h = Least(r.h, HookH(s, f))]
    BY <1>3 DEF Fitted
  <2>6. Fitted(r, s, f) = r
    BY <2>4, <2>5 DEF Rect
  <2> QED BY <1>1, <2>6 DEF f
<1> QED BY <1>2, <1>3

\* What has a slot's place and is within the limits is inside its columns.
LEMMA LimitsInside ==
  ASSUME NEW r \in Rect, NEW s \in Style, NEW d \in BOOLEAN, NEW f \in Frame, NEW slot \in Nat,
         ~TooLarge(r, s, d, f), r.x = SlotX(slot)
  PROVE  Right(r) <= SlotX(slot) + ColW(s, d)
<1>1. r.w \in Nat /\ SlotX(slot) \in Int
  BY RectFields, SlotXIs
<1>2. ParkW(s, d, f) \in Nat /\ ParkW(s, d, f) <= ColW(s, d) /\ ColW(s, d) \in Nat
  BY SlotWIs DEF ParkW, ColW, Frame, Style
<1>3. r.w <= ParkW(s, d, f)
  BY <1>1, <1>2 DEF TooLarge
<1> QED BY <1>1, <1>2, <1>3 DEF Right

\* An application that is brought within its limits gets there.
LEMMA MovedWithin ==
  ASSUME WinsOK, FrameOK, MonFrame \in Frame, NEW w, Sound(w), w.kind = "app", NEW r \in Rect,
         NEW d \in BOOLEAN, ~TooLarge(r, w.style, d, MonFrame), w.mode = "normal" => Room(w, r)
  PROVE  Moved(w, r).rect = r /\ Moved(w, r).mode = w.mode
<1>1. w.owner = NoWnd /\ w.style \in Style
  BY SoundFields DEF Sound
<1>2. Fitted(r, w.style, HookFrame) = r
  BY <1>1, NotTooLarge
<1>3. HookKeeps(w, r) = r
  BY <1>1, <1>2 DEF HookKeeps
<1> QED BY <1>3, MovedSound

\* park, of an application: whatever its mode and whether or not it is seen for
\* the first time, it sits in its slot then.
LEMMA ParksSit ==
  ASSUME WinsOK, FrameOK, MonFrame \in Frame, NEW w, Good(w), w.kind = "app", w.mode # "iconic",
         NEW h, NEW slot \in Nat, NEW s, NEW first
  PROVE  LET v == Parks(w, h, slot, s, first) IN
         /\ ~TooLarge(v.rect, w.style, Double(h, slot, s), MonFrame)
         /\ v.rect.x >= SlotX(slot) /\ Right(v.rect) <= SlotX(slot) + ColW(w.style, Double(h, slot, s))
         /\ v.mode = "normal" => v.rect.y >= 0
<1> DEFINE at  == IF first THEN Moved(w, Initial(w.rect, w.style, slot, MonFrame)) ELSE w
           two == Double(h, slot, s)
           out == [at EXCEPT !.mode = "normal", !.rect = at.normal]
           v   == Parks(w, h, slot, s, first)
<1>0. MonFrame \in Sizes /\ two \in BOOLEAN /\ w.rect \in Rect /\ w.style \in Style /\ SlotX(slot) \in Int
  BY Frames, FieldsOf, SlotXIs DEF Double
<1>1. Good(at) /\ Alike(w, at) /\ at.mode = w.mode
  <2> DEFINE q == Initial(w.rect, w.style, slot, MonFrame)
  <2>1. q \in Rect /\ (w.style.fixed => q = w.rect)
    BY <1>0, InitialIs
  <2>2. w.mode = "normal" => Room(w, q)
    BY <2>1, FieldsOf DEF Room
  <2> HIDE DEF q
  <2>3. Good(Moved(w, q)) /\ Alike(w, Moved(w, q)) /\ Moved(w, q).mode = w.mode
    BY <2>1, <2>2, MovedGood
  <2> QED BY <2>3, AlikeSame DEF q
<1>2. v = IF at.mode # "zoomed" THEN Moved(at, Parked(at.rect, w.style, slot, two, MonFrame))
          ELSE IF MayStayZoomed(at.rect, w.style, slot, two, MonFrame) THEN at
          ELSE Moved(out, Unzoomed(at.normal, w.style, slot, two, MonFrame))
  BY DEF Parks
<1> HIDE DEF at, two, v
<1>3. at.rect \in Rect /\ at.normal \in Rect /\ at.style = w.style /\ at.kind = "app" /\ Sound(at)
  BY <1>1, FieldsOf DEF Alike
<1>4. ASSUME NEW u, Sound(u), u.kind = "app", u.style = w.style, NEW r \in Rect, u.mode = "normal" => Room(u, r),
             r.x = SlotX(slot), r.y >= 0, ~TooLarge(r, w.style, two, MonFrame), v = Moved(u, r)
      PROVE  /\ ~TooLarge(v.rect, w.style, two, MonFrame)
             /\ v.rect.x >= SlotX(slot) /\ Right(v.rect) <= SlotX(slot) + ColW(w.style, two)
             /\ v.mode = "normal" => v.rect.y >= 0
  <2>1. v.rect = r
    BY <1>0, <1>4, MovedWithin
  <2>2. Right(r) <= SlotX(slot) + ColW(w.style, two)
    BY <1>0, <1>4, LimitsInside
  <2>3. r.x >= SlotX(slot)
    BY <1>0, <1>4
  <2> QED BY <1>4, <2>1, <2>2, <2>3
<1>5. CASE at.mode # "zoomed"
  <2> DEFINE q == Parked(at.rect, w.style, slot, two, MonFrame)
  <2>1. q \in Rect /\ (Fits1(at.rect, w.style, MonFrame) => SameSize(q, at.rect))
    BY <1>0, <1>3, ParkedIs
  <2>2. q.x = SlotX(slot) /\ q.y >= 0 /\ ~TooLarge(q, w.style, two, MonFrame)
    BY <1>0, <1>3, ParkedStays
  <2>3. v = Moved(at, q)
    BY <1>2, <1>5
  <2> HIDE DEF q
  <2>4. at.mode = "normal" => Room(at, q)
    <3> SUFFICES ASSUME at.mode = "normal" PROVE Room(at, q)
      OBVIOUS
    <3>1. Room(at, at.rect)
      BY <1>1, FieldsOf
    <3>2. at.style.fixed /\ FitsAll(at.asked) /\ SameSize(at.rect, at.asked) => Fits1(at.rect, w.style, MonFrame)
      BY <1>1, <1>3, RoomFits
    <3> QED BY <2>1, <3>1, <3>2, RoomSame
  <2> QED BY <1>3, <1>4, <2>1, <2>2, <2>3, <2>4 DEF two, v
<1>6. CASE at.mode = "zoomed" /\ MayStayZoomed(at.rect, w.style, slot, two, MonFrame)
  <2>1. v = at
    BY <1>2, <1>6
  <2> QED BY <1>6, <2>1 DEF MayStayZoomed, two, v
<1>7. CASE at.mode = "zoomed" /\ ~MayStayZoomed(at.rect, w.style, slot, two, MonFrame)
  <2> DEFINE q == Unzoomed(at.normal, w.style, slot, two, MonFrame)
  <2>1. /\ q \in Rect /\ (Fits1(at.normal, w.style, MonFrame) => SameSize(q, at.normal))
        /\ q.x = SlotX(slot) /\ q.y = 0 /\ ~TooLarge(q, w.style, two, MonFrame)
    BY <1>0, <1>3, UnzoomedIs
  <2>2. v = Moved(out, q)
    BY <1>2, <1>7
  <2> HIDE DEF q
  <2>3. /\ Sound(out) /\ out.kind = "app" /\ out.style = w.style /\ (out.mode = "normal" => Room(out, q))
    <3>1. at \in There
      BY <1>1 DEF Good, Sound
    <3>2. /\ out \in There /\ out.mode = "normal" /\ out.rect = at.normal /\ out.normal = at.normal /\ out.kind = at.kind
          /\ out.owner = at.owner /\ out.style = at.style /\ out.asked = at.asked
      BY <3>1 DEF There
    <3> HIDE DEF out
    <3>3. Sound(out)
      BY <1>1, <3>2 DEF Good, Sound, KeepsSize
    <3>4. Room(at, at.normal)
      BY <1>1, FieldsOf
    <3>5. at.style.fixed /\ FitsAll(at.asked) /\ SameSize(at.normal, at.asked) => Fits1(at.normal, w.style, MonFrame)
      BY <1>1, <1>3, RoomFits
    <3>6. Room(at, q)
      BY <2>1, <3>4, <3>5, RoomSame
    <3>7. Room(out, q)
      BY <3>2, <3>6 DEF Room
    <3> QED BY <1>3, <3>2, <3>3, <3>7
  <2> HIDE DEF out
  <2>4. q.y >= 0
    BY <2>1
  <2> QED BY <1>4, <2>1, <2>2, <2>3, <2>4 DEF two, v
<1> QED BY <1>5, <1>6, <1>7 DEF two, v

\* Columns do not overlap.
LEMMA TimesLess ==
  ASSUME NEW a \in Int, NEW b \in Int, a < b
  PROVE  SlotW * a + SlotW <= SlotW * b
<1>1. SlotW \in Nat
  BY SlotWIs
<1>2. b - a - 1 \in Nat
  OBVIOUS
<1>3. SlotW * (b - a - 1) \in Nat
  BY <1>1, <1>2
<1>4. SlotW * b = SlotW * a + SlotW + SlotW * (b - a - 1)
  BY <1>1
<1> QED BY <1>1, <1>3, <1>4

\* A column's width, or two.
LEMMA ColWIs ==
  ASSUME NEW s \in Style, NEW d \in BOOLEAN
  PROVE  ColW(s, d) \in {SlotW, 2 * SlotW} /\ (ColW(s, d) = SlotW \/ d)
BY DEF ColW

\* The column that something within a slot's columns is in is one of these.
LEMMA ColumnInside ==
  ASSUME NEW x \in Int, NEW n \in Nat, NEW s \in Style, NEW d \in BOOLEAN,
         x >= SlotX(n), x < SlotX(n) + ColW(s, d)
  PROVE  x >= SlotW /\ ColumnOf(x) >= SlotX(n) /\ ColumnOf(x) + SlotW <= SlotX(n) + ColW(s, d)
<1> DEFINE k == x \div SlotW
<1>1. SlotW \in Nat /\ SlotW > 0
  BY SlotWIs
<1>2. k \in Int /\ SlotW * k <= x /\ x < SlotW * k + SlotW
  BY <1>1
<1>3. ColumnOf(x) = SlotW * k
  <2>1. ColumnOf(x) = k * SlotW
    BY DEF ColumnOf
  <2> HIDE DEF k
  <2> QED BY <1>1, <1>2, <2>1
<1> HIDE DEF k
<1>4. SlotX(n) = SlotW * (n + 1) /\ SlotX(n) >= SlotW /\ SlotX(n) \in Int
  BY ColumnOfSlot DEF SlotX
<1>5. PICK m \in {1, 2} : SlotX(n) + ColW(s, d) = SlotW * (n + 1 + m)
  <2>1. SlotW * (n + 1) + SlotW = SlotW * (n + 1 + 1) /\ SlotW * (n + 1) + 2 * SlotW = SlotW * (n + 1 + 2)
    BY <1>1
  <2> QED BY <1>4, <2>1, ColWIs
<1>6. k >= n + 1
  <2> SUFFICES ASSUME k < n + 1 PROVE FALSE
    BY <1>2
  <2>1. SlotW * k + SlotW <= SlotW * (n + 1)
    BY <1>2, TimesLess
  <2>2. SlotW * k \in Int /\ SlotW * (n + 1) \in Int
    BY <1>1, <1>2
  <2> QED BY <1>1, <1>2, <1>4, <2>1, <2>2
<1>7. k < n + 1 + m
  <2> SUFFICES ASSUME k >= n + 1 + m PROVE FALSE
    BY <1>2
  <2>1. SlotW * (n + 1 + m) <= SlotW * k
    <3>1. CASE k = n + 1 + m
      BY <1>1, <1>2, <3>1
    <3>2. CASE n + 1 + m < k
      <4>1. SlotW * (n + 1 + m) + SlotW <= SlotW * k
        BY <1>2, <3>2, TimesLess
      <4>2. SlotW * (n + 1 + m) \in Int /\ SlotW * k \in Int
        BY <1>1, <1>2
      <4> QED BY <1>1, <4>1, <4>2
    <3> QED BY <1>2, <3>1, <3>2
  <2>2. SlotW * (n + 1 + m) \in Int /\ SlotW * k \in Int
    BY <1>1, <1>2
  <2> QED BY <1>2, <1>5, <2>1, <2>2
<1>8. SlotW * (n + 1) <= SlotW * k
  <2>1. CASE k = n + 1
    BY <1>1, <1>2, <2>1
  <2>2. CASE n + 1 < k
    <3>1. SlotW * (n + 1) + SlotW <= SlotW * k
      BY <1>2, <2>2, TimesLess
    <3>2. SlotW * (n + 1) \in Int /\ SlotW * k \in Int
      BY <1>1, <1>2
    <3> QED BY <1>1, <3>1, <3>2
  <2> QED BY <1>2, <1>6, <2>1, <2>2
<1>9. SlotW * k + SlotW <= SlotW * (n + 1 + m)
  BY <1>2, <1>7, TimesLess
<1>10. x >= SlotW
  BY <1>1, <1>4
<1> QED BY <1>3, <1>4, <1>5, <1>8, <1>9, <1>10

\* An owned window that PVMON brings into its owner's columns is in them, even if
\* PVHOOK brings it into the column that its owner begins in.
LEMMA OwnedInside ==
  ASSUME WinsOK, FrameOK, MonFrame \in Frame, NEW h \in H, Exists(h), ~Iconic(h), NEW o \in H, wnd[h].owner = o,
         ~Iconic(o), NEW n \in Nat, NEW fresh \in BOOLEAN, NEW s \in Style, NEW d \in BOOLEAN,
         wnd[o].rect.x >= SlotX(n), Right(wnd[o].rect) <= SlotX(n) + ColW(s, d), wnd[o].rect.w > 0
  PROVE  LET v == Moved(wnd[h], OwnedParked(wnd[h].rect, wnd[o].rect, n, fresh, MonFrame)) IN
         v.rect.w <= SlotW => v.rect.x >= SlotX(n) /\ Right(v.rect) <= SlotX(n) + ColW(s, d)
<1> DEFINE w == wnd[h]
           p == wnd[o].rect
           q == OwnedParked(w.rect, p, n, fresh, MonFrame)
           k == HookKept(q, p, HookFrame)
           v == Moved(w, q)
<1>1. Good(w) /\ w.rect \in Rect /\ p \in Rect /\ RectOf(o) = p /\ o # Shell
  BY WindowIs, PvWindowsAssumption DEF RectOf
<1>2. MonFrame \in Sizes /\ HookFrame \in Sizes /\ SlotX(n) \in Int /\ SlotW \in Nat
  BY Frames, SlotXIs, SlotWIs
<1>3. q \in Rect /\ SameSize(q, w.rect)
  BY <1>1, <1>2, OwnedParkedIs
<1>4. w.rect.w <= SlotW => q.x >= SlotX(n) /\ Right(q) <= SlotX(n) + SlotW
  BY <1>1, OwnedStays
<1>5. v.rect = HookKeeps(w, q)
  <2>1. w.mode = "normal" => Room(w, q)
    BY <1>1, <1>3, FieldsOf DEF Room, SameSize
  <2> HIDE DEF q, w
  <2> QED BY <1>1, <1>3, <2>1, MovedGood DEF v
<1>6. v.rect = q \/ v.rect = k
  <2>1. w.owner = o /\ o # NoWnd
    BY PvWindowsAssumption
  <2> QED BY <1>1, <1>5, <2>1 DEF HookKeeps, Iconic
<1> HIDE DEF v, q, w
<1>7. SlotW <= ColW(s, d) /\ ColW(s, d) \in Nat
  BY <1>2, ColWIs
<1>8. k \in Rect /\ SameSize(k, q)
  BY <1>1, <1>2, <1>3, HookKeptIs
<1>9. v.rect \in Rect /\ v.rect.w = w.rect.w
  BY <1>3, <1>6, <1>8 DEF SameSize
<1>10. CASE v.rect = q
  <2>1. Right(q) \in Int
    BY <1>3, RectFields DEF Right
  <2> QED BY <1>2, <1>4, <1>7, <1>9, <1>10, <2>1 DEF v, w, q
<1>11. CASE v.rect = k /\ v.rect.w <= SlotW
  <2>1. /\ p.x >= SlotW /\ ColumnOf(p.x) >= SlotX(n) /\ ColumnOf(p.x) + SlotW <= SlotX(n) + ColW(s, d)
        /\ ColumnOf(p.x) \in Int
    <3>1. p.x \in Int /\ p.w \in Nat /\ p.w > 0 /\ p.x >= SlotX(n) /\ p.x + p.w <= SlotX(n) + ColW(s, d)
      BY <1>1, RectFields DEF Right
    <3>2. p.x < SlotX(n) + ColW(s, d)
      BY <1>2, <1>7, <3>1
    <3> QED BY <3>1, <3>2, ColumnInside, ColumnOfIs
  <2>2. k = ClampInto(q, ColumnOf(p.x), ColumnOf(p.x) + SlotW, HookFrame.real)
    <3>1. p.x \in Int
      BY <1>1, RectFields
    <3> QED BY <1>2, <2>1, <3>1 DEF HookKept
  <2> DEFINE c == ColumnOf(p.x)
  <2>3. k.x = Clamp(q.x, q.w, c, c + SlotW) /\ k.w = q.w
    <3>1. HookFrame.real \in Int /\ c \in Int /\ c + SlotW \in Int
      BY <1>2, <2>1 DEF Sizes
    <3> QED BY <1>3, <2>2, <3>1, ClampIntoMoves
  <2>4. q.x \in Int /\ q.w \in Nat /\ q.w <= SlotW
    BY <1>3, <1>9, <1>11, RectFields DEF SameSize
  <2>5. k.x \in Int /\ k.x >= c /\ k.x + k.w <= c + SlotW
    <3> HIDE DEF c
    <3>1. c \in Int /\ c + SlotW \in Int
      BY <1>2, <2>1 DEF c
    <3> QED BY <1>2, <2>3, <2>4, <3>1 DEF Clamp
  <2>6. k.x >= SlotX(n) /\ k.x + k.w <= SlotX(n) + ColW(s, d)
    BY <1>2, <1>7, <2>1, <2>3, <2>4, <2>5
  <2> QED BY <1>11, <2>6 DEF Right, v, w, q
<1> QED BY <1>6, <1>10, <1>11 DEF v, w, q

\* slot_of: what it says of the window's slots, and that it changes nothing when
\* the window has some, or when none is free.
LEMMA SlotOfAll ==
  ASSUME SlotsOK, NEW h \in H, NEW wide
  PROVE  LET a == SlotOf(h, wide)
             mine == {i \in Slots : a.slots[i] = h} IN
         /\ a.slot >= 0 => mine # {} /\ a.slot = Lowest(mine)
         /\ a.slot < 0 => a.slots = slots /\ mine = {} /\ \A i \in Slots : ~SlotFree(i)
         /\ SlotsOf(h) # {} \/ (\A i \in Slots : ~SlotFree(i)) => a.slots = slots
         /\ \A i \in Slots : a.slots[i] \in {slots[i], h}
<1> DEFINE has  == {i \in Slots : slots[i] = h}
           free == {i \in Slots : SlotFree(i)}
           two  == {i \in free : i + 1 \in free}
           a    == SlotOf(h, wide)
           mine == {i \in Slots : a.slots[i] = h}
<1>1. /\ Slots \subseteq Nat /\ has \subseteq Slots /\ free \subseteq Slots /\ two \subseteq free
      /\ has \in SUBSET Nat /\ free \in SUBSET Nat /\ two \in SUBSET Nat
  BY PvWindowsAssumption DEF Slots
<1>2. CASE has # {}
  <2>1. a = [slot |-> Lowest(has), slots |-> slots]
    BY <1>2 DEF SlotOf, Given
  <2>2. Lowest(has) \in has
    BY <1>1, <1>2, LowestIn
  <2> DEFINE l == Lowest(has)
  <2>3. l \in Nat /\ has # {}
    BY <1>1, <1>2, <2>2
  <2> HIDE DEF a, l
  <2>4. a.slot = l /\ a.slots = slots
    BY <2>1 DEF l
  <2>5. mine = has
    BY <2>4
  <2>6. mine # {} /\ a.slot = Lowest(mine)
    BY <2>3, <2>4, <2>5 DEF l
  <2>7. ~(a.slot < 0)
    BY <2>3, <2>4
  <2> QED BY <2>4, <2>6, <2>7 DEF a
<1>3. ASSUME has = {}, NEW n \in free, NEW m \in free, (m = n) \/ (m = n + 1),
             a.slot = n, a.slots = [slots EXCEPT ![n] = h, ![m] = h]
      PROVE  /\ mine # {} /\ a.slot = Lowest(mine) /\ ~(a.slot < 0) /\ free # {}
             /\ \A i \in Slots : a.slots[i] \in {slots[i], h}
  <2>1. n \in Slots /\ m \in Slots /\ n \in Nat /\ m \in Nat /\ n <= m
    BY <1>1, <1>3
  <2>0. free # {}
    OBVIOUS
  <2>a. \A i \in Slots : slots[i] # h
    BY <1>3
  <2> HIDE DEF a, free, has
  <2>2. \A i \in Slots : a.slots[i] = IF i = n \/ i = m THEN h ELSE slots[i]
    BY <1>3, <2>1 DEF SlotsOK
  <2>3. mine = {n, m}
    <3>1. \A i : i \in mine <=> i \in Slots /\ a.slots[i] = h
      OBVIOUS
    <3>2. \A i \in Slots : a.slots[i] = h <=> (i = n \/ i = m)
      BY <2>2, <2>a
    <3> HIDE DEF mine
    <3> QED BY <2>1, <3>1, <3>2
  <2>4. n \in mine /\ \A j \in mine : n <= j
    BY <2>1, <2>3
  <2>5. mine \in SUBSET Nat /\ mine # {}
    BY <2>1, <2>3
  <2> HIDE DEF mine
  <2>6. Lowest(mine) \in mine /\ \A j \in mine : Lowest(mine) <= j
    BY <2>5, LowestIn
  <2>7. Lowest(mine) = n
    <3> DEFINE l == Lowest(mine)
    <3>1. l \in Nat /\ l <= n /\ n <= l
      BY <2>4, <2>5, <2>6
    <3> HIDE DEF l
    <3> QED BY <2>1, <3>1 DEF l
  <2>8. \A i \in Slots : a.slots[i] \in {slots[i], h}
    BY <2>2
  <2>9. a.slot = n /\ ~(n < 0)
    BY <1>3, <2>1
  <2> QED BY <2>0, <2>5, <2>7, <2>8, <2>9
<1>4. CASE has = {} /\ wide /\ two # {}
  <2>1. a = [slot |-> Lowest(two), slots |-> [slots EXCEPT ![Lowest(two)] = h, ![Lowest(two) + 1] = h]]
    BY <1>4 DEF SlotOf, Given
  <2>2. Lowest(two) \in two
    BY <1>1, <1>4, LowestIn
  <2> DEFINE n == Lowest(two)
  <2>3. n \in free /\ n + 1 \in free /\ a.slot = n /\ a.slots = [slots EXCEPT ![n] = h, ![n + 1] = h]
    BY <2>1, <2>2
  <2> HIDE DEF a, n, free, mine
  <2>4. /\ mine # {} /\ a.slot = Lowest(mine) /\ ~(a.slot < 0) /\ free # {}
        /\ \A i \in Slots : a.slots[i] \in {slots[i], h}
    BY <1>3, <1>4, <2>3
  <2> QED BY <1>4, <2>4 DEF a, free, mine, SlotsOf
<1>5. CASE has = {} /\ ~(wide /\ two # {}) /\ free # {}
  <2>1. a = [slot |-> Lowest(free), slots |-> [slots EXCEPT ![Lowest(free)] = h]]
    BY <1>5 DEF SlotOf, Given
  <2>2. Lowest(free) \in free
    BY <1>1, <1>5, LowestIn
  <2> DEFINE n == Lowest(free)
  <2>3. n \in free /\ a.slot = n /\ a.slots = [slots EXCEPT ![n] = h, ![n] = h]
    <3>1. n \in free /\ a = [slot |-> n, slots |-> [slots EXCEPT ![n] = h]]
      BY <2>1, <2>2
    <3> HIDE DEF n, a
    <3>2. [slots EXCEPT ![n] = h] = [slots EXCEPT ![n] = h, ![n] = h]
      BY DEF SlotsOK
    <3> QED BY <3>1, <3>2
  <2> HIDE DEF a, n, free, mine
  <2>4. /\ mine # {} /\ a.slot = Lowest(mine) /\ ~(a.slot < 0) /\ free # {}
        /\ \A i \in Slots : a.slots[i] \in {slots[i], h}
    BY <1>3, <1>5, <2>3
  <2> QED BY <1>5, <2>4 DEF a, free, mine, SlotsOf
<1>6. CASE has = {} /\ ~(wide /\ two # {}) /\ free = {}
  <2>1. a = [slot |-> -1, slots |-> slots]
    BY <1>6 DEF SlotOf, Given
  <2> HIDE DEF a
  <2>2. a.slot = -1 /\ a.slots = slots
    BY <2>1
  <2> QED BY <1>6, <2>2 DEF a
<1> QED BY <1>2, <1>4, <1>5, <1>6

-----------------------------------------------------------------------------
(* The invariant of Placed.                                                *)

\* What the pass has still to do.
ToCome(t)   == mon.pc = "place" /\ In(t, mon.todo)
ToDo(do, h) == \E t \in Jobs : ToCome(t) /\ t.do = do /\ t.item.wnd = h
NoSlots     == \A t : ToCome(t) => t.do # "slot"
\* It was collected of windows that are still so.
OfNow(i)    == LET h == i.wnd IN Visible(h) /\ h \notin dead /\ i.kind = Kind(h) /\ i.owner = wnd[h].owner
InOrder(s)  == \A j, k \in 1 .. Len(s) : s[j].do = "own" /\ s[k].do = "slot" => k < j
Full        == \A i \in Slots : ~SlotFree(i)

KnownOK  == \A h \in H : Exists(h) => In(h, z)
ScreenOK == Phone /\ switching = 0 => screen = PhoneScreen
WorkOK   == /\ \A t : ToCome(t) => /\ t.do # (IF Phone THEN "fit" ELSE "own")
                                   /\ t.do = "slot" => t.item.kind \in {"A", "I"}
                                   /\ t.do = "own" => t.item.kind = "O"
            /\ mon.pc = "place" /\ Phone => InOrder(mon.todo)
NowOK    == calm => \A t : ToCome(t) => OfNow(t.item)
\* On the desktop: what has been fitted, and what is to be.
Fit(w)   == OnScreen(w.rect, screen.w, screen.h)
Loose(w) == w.kind = "menu" \/ w.mode = "iconic" \/ w.own
FittedOK == ~Phone /\ switching = 0 => \A h \in fitted : Exists(h) => Loose(wnd[h]) \/ Fit(wnd[h])
SeenFit  == ~Phone /\ calm => \A h \in H : Shown(h) /\ wnd[h].kind # "menu" /\ ~OwnerIconic(h)
                                             => h \in fitted \/ ToDo("fit", h)
\* On the phone: an application is in its columns, or there is no slot for it, and
\* its dialogs are where it is; or else it, or they, are still to come.
Column(h) == IF SlotsOf(h) = {} THEN Full ELSE InPlace(h)
AppsOK    == Phone /\ calm /\ switching = 0 => \A h \in H : Shown(h) /\ IsApp(h) => ToDo("slot", h) \/ Column(h)
Under(h, o) == SlotsOf(o) # {} /\ wnd[o].rect.w > 0 /\ wnd[h].rect.w <= SlotW => Within(wnd[h].rect, o)
DialogsOK == Phone /\ calm /\ switching = 0 => \A h, o \in H :
               Shown(h) /\ wnd[h].owner = o /\ Shown(o) /\ IsApp(o) => ToDo("own", h) \/ (NoSlots /\ Under(h, o))

WorldInv == KnownOK /\ ScreenOK /\ FittedOK
CalmInv  == NowOK /\ SeenFit /\ AppsOK /\ DialogsOK
PInv     == TInv /\ WorldInv /\ WorkOK /\ CalmInv

-----------------------------------------------------------------------------
(* Slots that change.                                                      *)

\* A slot is given to h, if any is.
SlotStep(h) == /\ \A i \in Slots : slots'[i] \in {slots[i], h} /\ (~SlotFree(i) => slots'[i] = slots[i])
               /\ SlotsOf(h) # {} \/ Full => slots' = slots

\* So slot_of gives one.
LEMMA SlotStepIs ==
  ASSUME SlotsOK, NEW h \in H, NEW wide, slots' = SlotOf(h, wide).slots
  PROVE  SlotStep(h)
<1> DEFINE a == SlotOf(h, wide)
<1>1. /\ SlotsOf(h) # {} \/ (\A i \in Slots : ~SlotFree(i)) => a.slots = slots
      /\ \A i \in Slots : a.slots[i] \in {slots[i], h}
  <2> DEFINE mine == {i \in Slots : a.slots[i] = h}
  <2>1. /\ a.slot >= 0 => mine # {} /\ a.slot = Lowest(mine)
        /\ a.slot < 0 => a.slots = slots /\ mine = {} /\ \A i \in Slots : ~SlotFree(i)
        /\ SlotsOf(h) # {} \/ (\A i \in Slots : ~SlotFree(i)) => a.slots = slots
        /\ \A i \in Slots : a.slots[i] \in {slots[i], h}
    BY SlotOfAll, Zenon
  <2> HIDE DEF a, mine
  <2> QED BY <2>1
<1>2. \A i \in Slots : ~SlotFree(i) => a.slots[i] = slots[i]
  <2>1. /\ a.slots \in [Slots -> H \cup {NoWnd}]
        /\ a.slot >= 0 => a.slot \in Slots /\ a.slots[a.slot] = h
        /\ \A i \in Slots : ~SlotFree(i) => a.slots[i] = slots[i]
    BY SlotOfGives, SMT
  <2> HIDE DEF a
  <2> QED BY <2>1
<1> HIDE DEF a
<1>3. slots' = a.slots
  BY DEF a
<1> QED BY <1>1, <1>2, <1>3 DEF SlotStep, Full

\* Windows that are shown keep theirs.
LEMMA OthersSlots ==
  ASSUME SlotsOK, NEW h, SlotStep(h), NEW g \in H, g # h, Shown(g)
  PROVE  SlotsOf(g)' = SlotsOf(g)
<1>1. \A i \in Slots : slots[i] = g => ~SlotFree(i)
  BY PvWindowsAssumption DEF SlotFree, Shown
<1>2. \A i \in Slots : slots'[i] = g <=> slots[i] = g
  BY <1>1 DEF SlotStep
<1>3. Slots' = Slots
  BY DEF Slots
<1> QED BY <1>2, <1>3 DEF SlotsOf

\* No slot becomes free while the windows are as visible as before.
LEMMA FullStays ==
  ASSUME SlotsOK, NEW h, SlotStep(h), Full, dead' = dead, \A g \in H : Visible(g)' <=> Visible(g)
  PROVE  Full' /\ slots' = slots
<1>1. slots' = slots
  BY DEF SlotStep
<1>2. \A i \in Slots : slots[i] \in H \cup {NoWnd} /\ slots[i] # NoWnd /\ Visible(slots[i]) /\ slots[i] \notin dead
  BY DEF Full, SlotFree, SlotsOK
<1>3. \A i \in Slots : slots[i] \in H
  BY <1>2
<1>4. \A i \in Slots : Visible(slots[i])'
  BY <1>1, <1>2, <1>3
<1>5. \A i \in Slots : ~SlotFree(i)'
  BY <1>1, <1>2, <1>4 DEF SlotFree
<1>6. Slots' = Slots
  BY DEF Slots
<1> QED BY <1>1, <1>5, <1>6 DEF Full

\* A window that is where it should be stays there if it is left alone.
LEMMA ColumnStays ==
  ASSUME SlotsOK, NEW h, SlotStep(h), dead' = dead, \A g \in H : Visible(g)' <=> Visible(g), MonFrame' = MonFrame,
         NEW g \in H, Shown(g), g # h \/ slots' = slots, wnd'[g] = wnd[g], Column(g)
  PROVE  Column(g)' /\ SlotsOf(g)' = SlotsOf(g)
<1>1. SlotsOf(g)' = SlotsOf(g)
  <2>1. CASE slots' = slots
    BY <2>1 DEF SlotsOf, Slots
  <2>2. CASE g # h
    BY <2>2, OthersSlots
  <2> QED BY <2>1, <2>2
<1>2. CASE SlotsOf(g) = {}
  <2>1. Full'
    BY <1>2, FullStays DEF Column
  <2> QED BY <1>1, <1>2, <2>1 DEF Column
<1>3. CASE SlotsOf(g) # {}
  <2>1. Sits(wnd[g], wnd[g].style, SlotsOf(g), MonFrame)
    BY <1>3, InPlaceIs DEF Column
  <2>2. Sits(wnd'[g], wnd'[g].style, SlotsOf(g)', MonFrame')
    BY <1>1, <2>1
  <2>3. (\A k \in H : InPlace(k) <=> Sits(wnd[k], wnd[k].style, SlotsOf(k), MonFrame))'
    BY InPlaceIs, PTL
  <2>4. InPlace(g)'
    BY <2>2, <2>3
  <2> QED BY <1>1, <1>3, <2>4 DEF Column
<1> QED BY <1>2, <1>3

\* A dialog stays under its owner while neither moves and the owner keeps its slots.
LEMMA UnderStays ==
  ASSUME NEW h \in H, NEW o \in H, SlotsOf(o)' = SlotsOf(o), wnd'[o] = wnd[o], wnd'[h].rect = wnd[h].rect, Under(h, o)
  PROVE  Under(h, o)'
<1>1. (\A k \in H : \A r : Within(r, k) <=> Inside(r, wnd[k].style, SlotsOf(k)))'
  BY WithinIs, PTL
<1>2. Within(wnd[h].rect, o) => Inside(wnd[h].rect, wnd[o].style, SlotsOf(o))
  BY WithinIs
<1>3. Within(wnd[h].rect, o) => Within(wnd[h].rect, o)'
  <2>1. Inside(wnd[h].rect, wnd[o].style, SlotsOf(o)) => Inside(wnd'[h].rect, wnd'[o].style, SlotsOf(o)')
    OBVIOUS
  <2> QED BY <1>1, <1>2, <2>1
<1> QED BY <1>3 DEF Under

-----------------------------------------------------------------------------
(* Steps that leave the windows alone.                                     *)

\* Nothing happens to windows or to what PVMON has still to do with them; a
\* window may be given a slot.
Still == /\ wnd' = wnd /\ dead' = dead /\ calm' = calm /\ fitted' = fitted /\ UNCHANGED frame
         /\ (slots' = slots) \/ (\E h \in H : SlotStep(h))
         /\ \A t : ToCome(t)' <=> ToCome(t)

\* What is so of a window stays so ...
LEMMA StillSame ==
  ASSUME Still
  PROVE  /\ \A h \in H : /\ Visible(h)' <=> Visible(h)
                         /\ Shown(h)' <=> Shown(h)
                         /\ IsApp(h)' <=> IsApp(h)
                         /\ OwnerIconic(h)' <=> OwnerIconic(h)
                         /\ Kind(h)' = Kind(h)
         /\ \A do : \A h : ToDo(do, h)' <=> ToDo(do, h)
         /\ NoSlots' <=> NoSlots
         /\ MonFrame' = MonFrame
<1>1. wnd' = wnd /\ dead' = dead /\ UNCHANGED frame /\ (\A t : ToCome(t)' <=> ToCome(t))
  BY DEF Still
<1>2. \A h \in H : /\ Visible(h)' <=> Visible(h)
                   /\ Shown(h)' <=> Shown(h)
                   /\ IsApp(h)' <=> IsApp(h)
                   /\ OwnerIconic(h)' <=> OwnerIconic(h)
                   /\ Kind(h)' = Kind(h)
  BY <1>1 DEF Visible, Exists, Shown, Iconic, IsApp, OwnerIconic, Kind
<1>3. \A do : \A h : ToDo(do, h)' <=> ToDo(do, h)
  <2>1. Jobs' = Jobs
    BY DEF Jobs, Entries
  <2> QED BY <1>1, <2>1 DEF ToDo
<1>4. NoSlots' <=> NoSlots
  BY <1>1 DEF NoSlots
<1>5. MonFrame' = MonFrame
  BY <1>1 DEF MonFrame, frame
<1> QED BY <1>2, <1>3, <1>4, <1>5

\* ... and where the windows are, is still where they belong.
LEMMA StillKeeps == PInv /\ Still => CalmInv'
<1> SUFFICES ASSUME PInv, Still PROVE CalmInv'
  OBVIOUS
<1>1. /\ wnd' = wnd /\ dead' = dead /\ calm' = calm /\ fitted' = fitted /\ UNCHANGED frame
      /\ (slots' = slots) \/ (\E h \in H : SlotStep(h))
      /\ \A t : ToCome(t)' <=> ToCome(t)
  BY DEF Still
<1>2. /\ \A h \in H : /\ Visible(h)' <=> Visible(h)
                      /\ Shown(h)' <=> Shown(h)
                      /\ IsApp(h)' <=> IsApp(h)
                      /\ OwnerIconic(h)' <=> OwnerIconic(h)
                      /\ Kind(h)' = Kind(h)
      /\ \A do : \A h : ToDo(do, h)' <=> ToDo(do, h)
      /\ NoSlots' <=> NoSlots
      /\ MonFrame' = MonFrame
  BY StillSame
<1>3. SlotsOK /\ NowOK /\ SeenFit /\ AppsOK /\ DialogsOK
  BY DEF PInv, CalmInv, TInv, IInv
<1>4. (Phone' <=> Phone) /\ switching' = switching
  BY <1>1 DEF frame, Phone
<1>5. NowOK'
  <2> SUFFICES ASSUME calm', NEW t, ToCome(t)' PROVE OfNow(t.item)'
    BY DEF NowOK
  <2>1. ToCome(t) /\ OfNow(t.item) /\ t \in Jobs
    <3>1. ToCome(t) => t \in Jobs
      BY DEF PInv, TInv, Typed, PassOK, ToCome, In
    <3> QED BY <1>1, <1>3, <3>1 DEF NowOK
  <2>2. t.item.wnd \in H
    BY <2>1 DEF Jobs, Entries
  <2> QED BY <1>1, <1>2, <2>1, <2>2 DEF OfNow
<1>6. SeenFit'
  BY <1>1, <1>2, <1>3, <1>4 DEF SeenFit
<1>7. \A g \in H : Shown(g) /\ Column(g) => Column(g)' /\ SlotsOf(g)' = SlotsOf(g)
  <2> SUFFICES ASSUME NEW g \in H, Shown(g), Column(g) PROVE Column(g)' /\ SlotsOf(g)' = SlotsOf(g)
    OBVIOUS
  <2>1. CASE slots' = slots
    <3>1. SlotStep(g)
      BY <2>1 DEF SlotStep
    <3> QED BY <1>1, <1>2, <1>3, <2>1, <3>1, ColumnStays
  <2>2. ASSUME NEW h \in H, SlotStep(h) PROVE Column(g)' /\ SlotsOf(g)' = SlotsOf(g)
    <3>1. g # h \/ slots' = slots
      BY <2>2 DEF Column, SlotStep
    <3> QED BY <1>1, <1>2, <1>3, <2>2, <3>1, ColumnStays
  <2> QED BY <1>1, <2>1, <2>2
<1>8. AppsOK'
  BY <1>1, <1>2, <1>3, <1>4, <1>7 DEF AppsOK
<1>9. DialogsOK'
  <2> SUFFICES ASSUME Phone', calm', switching' = 0, NEW h \in H, NEW o \in H,
                      Shown(h)', wnd'[h].owner = o, Shown(o)', IsApp(o)'
               PROVE  ToDo("own", h)' \/ (NoSlots' /\ Under(h, o)')
    BY DEF DialogsOK
  <2>1. /\ Phone /\ calm /\ switching = 0 /\ Shown(h) /\ wnd[h].owner = o /\ Shown(o) /\ IsApp(o)
    BY <1>1, <1>2, <1>4
  <2>2. CASE ToDo("own", h)
    BY <1>2, <2>2
  <2>3. CASE NoSlots /\ Under(h, o)
    <3>1. Column(o)
      BY <1>3, <2>1, <2>3 DEF AppsOK, NoSlots, ToDo
    <3>2. SlotsOf(o)' = SlotsOf(o)
      BY <1>7, <2>1, <3>1
    <3>3. Under(h, o)'
      BY <1>1, <2>3, <3>2, UnderStays
    <3> QED BY <1>2, <2>3, <3>3
  <2> QED BY <1>3, <2>1, <2>2, <2>3 DEF DialogsOK
<1> QED BY <1>5, <1>6, <1>8, <1>9 DEF CalmInv

\* What is not calm claims nothing.
LEMMA NotCalm == ~calm' => CalmInv'
BY DEF CalmInv, NowOK, SeenFit, AppsOK, DialogsOK

-----------------------------------------------------------------------------
(* The pass goes over a window.                                            *)

\* A window that is another place, or is marked.
Likes(w, v) == /\ v.kind = w.kind /\ v.owner = w.owner /\ v.style = w.style /\ v.vis = w.vis
               /\ v.mode = "iconic" <=> w.mode = "iconic"

\* What is so of every window, of that one and of those it owns, stays so.
LEMMA LikesSame ==
  ASSUME WndOK, NEW h \in H, NEW v, wnd' = [wnd EXCEPT ![h] = v], Likes(wnd[h], v), dead' = dead
  PROVE  \A g \in H : /\ Exists(g)' <=> Exists(g)
                      /\ Visible(g)' <=> Visible(g)
                      /\ Shown(g)' <=> Shown(g)
                      /\ IsApp(g)' <=> IsApp(g)
                      /\ OwnerIconic(g)' <=> OwnerIconic(g)
                      /\ Kind(g)' = Kind(g)
                      /\ wnd'[g].owner = wnd[g].owner /\ wnd'[g].kind = wnd[g].kind
<1>1. \A g \in H : wnd'[g] = IF g = h THEN v ELSE wnd[g]
  BY DEF WndOK
<1>2. \A g \in H : /\ wnd'[g].kind = wnd[g].kind /\ wnd'[g].owner = wnd[g].owner /\ wnd'[g].vis = wnd[g].vis
                   /\ wnd'[g].mode = "iconic" <=> wnd[g].mode = "iconic"
  BY <1>1 DEF Likes
<1>3. \A g \in H : /\ Exists(g)' <=> Exists(g)
                   /\ Visible(g)' <=> Visible(g)
                   /\ Iconic(g)' <=> Iconic(g)
                   /\ IsApp(g)' <=> IsApp(g)
  BY <1>2 DEF Visible, Exists, Iconic, IsApp
<1>4. \A g \in H : (Shown(g)' <=> Shown(g)) /\ (OwnerIconic(g)' <=> OwnerIconic(g))
  BY <1>2, <1>3 DEF Shown, OwnerIconic
<1>5. \A g \in H : Kind(g)' = Kind(g)
  BY <1>2, <1>3 DEF Kind
<1> QED BY <1>2, <1>3, <1>4, <1>5

\* What is left to do after the first thing.
LEMMA TailLeft ==
  ASSUME PassOK, mon.pc = "place", mon.todo # <<>>, mon' = [mon EXCEPT !.todo = Tail(mon.todo)]
  PROVE  /\ ToCome(Head(mon.todo)) /\ Head(mon.todo) \in Jobs
         /\ \A t : ToCome(t)' => ToCome(t)
         /\ \A t : ToCome(t) => t = Head(mon.todo) \/ ToCome(t)'
         /\ InOrder(mon.todo) => /\ InOrder(mon.todo)'
                                 /\ Head(mon.todo).do = "own" => NoSlots
<1> DEFINE q == mon.todo
           n == Len(q)
<1>1. q \in Seq(Jobs) /\ q # <<>> /\ mon'.todo = Tail(q) /\ mon'.pc = "place"
  BY DEF PassOK, IsRecord
<1> HIDE DEF q
<1>2. /\ n \in Nat /\ n > 0 /\ Len(Tail(q)) = n - 1 /\ Head(q) = q[1] /\ Head(q) \in Jobs
      /\ \A k \in 1 .. n - 1 : Tail(q)[k] = q[k + 1]
  <2>1. /\ Head(q) \in Jobs /\ Tail(q) \in Seq(Jobs)
    BY <1>1, HeadTailProperties
  <2> QED BY <1>1, <2>1
<1>3. mon.todo = q /\ mon.pc = "place"
  BY DEF q
<1>4. ToCome(Head(q))
  BY <1>2, <1>3 DEF ToCome, In
<1>5. \A t : ToCome(t)' => ToCome(t)
  <2> SUFFICES ASSUME NEW t, ToCome(t)' PROVE In(t, q)
    BY <1>3 DEF ToCome
  <2>1. PICK k \in 1 .. n - 1 : Tail(q)[k] = t
    BY <1>1, <1>2 DEF ToCome, In
  <2>2. k + 1 \in 1 .. n /\ q[k + 1] = t
    BY <1>2, <2>1
  <2> QED BY <2>2 DEF In
<1>6. \A t : ToCome(t) => t = Head(q) \/ ToCome(t)'
  <2> SUFFICES ASSUME NEW t, ToCome(t), t # Head(q) PROVE ToCome(t)'
    OBVIOUS
  <2>1. PICK k \in 1 .. n : q[k] = t
    BY <1>3 DEF ToCome, In
  <2>2. k - 1 \in 1 .. n - 1 /\ Tail(q)[k - 1] = t
    BY <1>2, <2>1
  <2> QED BY <1>1, <1>2, <2>2 DEF ToCome, In
<1>7. ASSUME InOrder(q)
      PROVE  InOrder(mon.todo)' /\ (Head(q).do = "own" => NoSlots)
  <2>1. \A j, k \in 1 .. n : q[j].do = "own" /\ q[k].do = "slot" => k < j
    BY <1>7 DEF InOrder
  <2>2. \A j, k \in 1 .. n - 1 : Tail(q)[j].do = "own" /\ Tail(q)[k].do = "slot" => k < j
    <3> TAKE j, k \in 1 .. n - 1
    <3>1. j + 1 \in 1 .. n /\ k + 1 \in 1 .. n /\ j \in Int /\ k \in Int
      BY <1>2
    <3>2. Tail(q)[j] = q[j + 1] /\ Tail(q)[k] = q[k + 1]
      BY <1>2
    <3>3. q[j + 1].do = "own" /\ q[k + 1].do = "slot" => k + 1 < j + 1
      BY <2>1, <3>1
    <3> QED BY <3>1, <3>2, <3>3
  <2>3. InOrder(mon.todo)'
    BY <1>1, <1>2, <2>2 DEF InOrder
  <2>4. ASSUME q[1].do = "own", NEW t, ToCome(t) PROVE t.do # "slot"
    <3>1. PICK k \in 1 .. n : q[k] = t
      BY <1>3, <2>4 DEF ToCome, In
    <3>2. 1 \in 1 .. n /\ ~(k < 1)
      BY <1>2
    <3> QED BY <2>1, <2>4, <3>1, <3>2
  <2> QED BY <1>2, <2>3, <2>4 DEF NoSlots
<1> QED BY <1>2, <1>4, <1>5, <1>6, <1>7 DEF q

\* A slot and its parking: an application that is parked sits there then, unless
\* there was none.
SitsNow(h, v)     == \/ slots' = slots /\ SlotsOf(h)' = {} /\ Full
                     \/ SlotsOf(h)' # {} /\ Sits(v, v.style, SlotsOf(h)', MonFrame)
PutTo(h, v, park) == /\ wnd' = [wnd EXCEPT ![h] = v] /\ Likes(wnd[h], v) /\ (~park => v = wnd[h])
                     /\ park /\ Shown(h) /\ IsApp(h) /\ MonFrame \in Frame => SitsNow(h, v)
\* A window that gets its slot and is parked sits in it, or there is none.
LEMMA SlottedSits ==
  ASSUME TInv, NEW h \in H, NEW wide, NEW park \in BOOLEAN, NEW queue, Slotted(h, wide, park, queue)
  PROVE  /\ slots' = SlotOf(h, wide).slots /\ SlotStep(h) /\ fitted' = fitted
         /\ \E v : PutTo(h, v, park)
<1> DEFINE a     == SlotOf(h, wide)
           parks == park /\ a.slot >= 0
           does  == parks /\ Exists(h) /\ ~Iconic(h)
           new   == Parks(wnd[h], h, a.slot, a.slots, ~Contains(sized, h))
           now   == IF does THEN new ELSE wnd[h]
<1>1. wnd' = [wnd EXCEPT ![h] = now] /\ slots' = a.slots /\ fitted' = fitted
  BY DEF Slotted
<1>2. WndOK /\ WinsOK /\ FrameOK /\ SlotsOK
  BY DEF TInv, Typed, IInv
<1>3. SlotStep(h)
  BY <1>1, <1>2, SlotStepIs
<1>4. a.slot \in Slots \cup {-1} /\ (a.slot >= 0 => a.slot \in Nat)
  <2>1. a.slot \in Slots \cup {-1}
    BY SlotOfIs
  <2> HIDE DEF a
  <2> QED BY <2>1, RealSlot
<1>5. SlotsOf(h)' = {i \in Slots : a.slots[i] = h}
  BY <1>1 DEF SlotsOf, Slots
<1>6. /\ a.slot >= 0 => SlotsOf(h)' # {} /\ a.slot = Lowest(SlotsOf(h)')
      /\ a.slot < 0 => a.slots = slots /\ SlotsOf(h)' = {} /\ Full
  <2> DEFINE mine == {i \in Slots : a.slots[i] = h}
  <2>1. /\ a.slot >= 0 => mine # {} /\ a.slot = Lowest(mine)
        /\ a.slot < 0 => a.slots = slots /\ mine = {} /\ \A i \in Slots : ~SlotFree(i)
        /\ SlotsOf(h) # {} \/ (\A i \in Slots : ~SlotFree(i)) => a.slots = slots
        /\ \A i \in Slots : a.slots[i] \in {slots[i], h}
    BY <1>2, SlotOfAll, Zenon
  <2>2. SlotsOf(h)' = mine
    BY <1>5
  <2> HIDE DEF a, mine
  <2> QED BY <2>1, <2>2 DEF Full
<1>7. Double(h, a.slot, a.slots) = (a.slot + 1 \in SlotsOf(h)')
  <2> HIDE DEF a
  <2> QED BY <1>5 DEF Double
<1> HIDE DEF a, new
<1>8. does => /\ Likes(wnd[h], new)
              /\ Shown(h) /\ IsApp(h) /\ MonFrame \in Frame => Sits(new, new.style, SlotsOf(h)', MonFrame)
  <2> SUFFICES ASSUME does
               PROVE  /\ Likes(wnd[h], new)
                      /\ Shown(h) /\ IsApp(h) /\ MonFrame \in Frame => Sits(new, new.style, SlotsOf(h)', MonFrame)
    OBVIOUS
  <2>1. Good(wnd[h]) /\ a.slot \in Nat
    BY <1>2, <1>4, WindowIs
  <2>2. Good(new) /\ Alike(wnd[h], new)
    BY <1>2, <2>1, ParksGood DEF new
  <2>3. Likes(wnd[h], new) /\ new.style = wnd[h].style
    BY <2>2 DEF Likes, Alike
  <2>4. ASSUME Shown(h), IsApp(h), MonFrame \in Frame
        PROVE  Sits(new, new.style, SlotsOf(h)', MonFrame)
    <3>1. wnd[h].kind = "app" /\ wnd[h].mode # "iconic"
      BY <2>4 DEF IsApp, Iconic
    <3>2. /\ ~TooLarge(new.rect, wnd[h].style, Double(h, a.slot, a.slots), MonFrame)
          /\ new.rect.x >= SlotX(a.slot) /\ Right(new.rect) <= SlotX(a.slot) + ColW(wnd[h].style, Double(h, a.slot, a.slots))
          /\ new.mode = "normal" => new.rect.y >= 0
      BY <1>2, <2>1, <2>4, <3>1, ParksSit, Zenon DEF new
    <3>3. a.slot = Lowest(SlotsOf(h)')
      BY <1>6
    <3> QED BY <1>7, <2>3, <3>2, <3>3 DEF Sits, Inside
  <2> QED BY <2>3, <2>4
<1>9. Likes(wnd[h], now) /\ (~park => now = wnd[h])
  <2>1. Likes(wnd[h], wnd[h])
    BY DEF Likes
  <2> QED BY <1>8, <2>1
<1>10. ASSUME park, Shown(h), IsApp(h), MonFrame \in Frame
       PROVE  SitsNow(h, now)
  <2>1. Exists(h) /\ ~Iconic(h)
    BY <1>10 DEF Shown, Visible
  <2>2. CASE a.slot < 0
    BY <1>1, <1>6, <2>2 DEF SitsNow
  <2>3. CASE ~(a.slot < 0)
    <3>1. a.slot >= 0
      <4>1. a.slot \in Int
        BY <1>4, PvWindowsAssumption DEF Slots
      <4> QED BY <2>3, <4>1
    <3>2. does /\ now = new
      BY <1>10, <2>1, <3>1
    <3> QED BY <1>6, <1>8, <1>10, <3>1, <3>2 DEF SitsNow
  <2> QED BY <2>2, <2>3
<1> HIDE DEF now
<1>11. PutTo(h, now, park)
  BY <1>1, <1>9, <1>10 DEF PutTo
<1> QED BY <1>1, <1>3, <1>11 DEF a

\* On the phone PVMON's frame is one, once the screen is there.
LEMMA PhoneFrame ==
  ASSUME FrameOK, ScreenOK, Phone, switching = 0
  PROVE  MonFrame \in Frame
<1>1. screen = PhoneScreen /\ shellH \in Nat /\ shellH <= PhoneScreen.h /\ PhoneScreen.h \in Nat
  <2>1. shellH \in 1 .. PhoneScreen.h
    BY PvWindowsAssumption DEF FrameOK
  <2>2. PhoneScreen.h \in Nat
    BY PvWindowsAssumption
  <2> QED BY <2>1, <2>2 DEF ScreenOK
<1>2. ShellW \in Nat /\ ShellW <= SlotW
  <2>1. ShellW \in 1 .. SlotW
    BY PvWindowsAssumption
  <2> QED BY <2>1, SlotWIs
<1> QED BY <1>1, <1>2 DEF MonFrame, Frame

\* An owned window brought to its owner's columns: it is another place.
LEMMA PlaceOwnedIs ==
  ASSUME TInv, NEW h \in H, NEW owner \in H \cup {Shell}, PlaceOwned(h, owner)
  PROVE  /\ slots' = slots /\ fitted' = fitted
         /\ \E v : wnd' = [wnd EXCEPT ![h] = v] /\ Likes(wnd[h], v)
<1>1. WndOK /\ WinsOK /\ FrameOK
  BY DEF TInv, Typed, IInv
<1>2. slots' = slots /\ fitted' = fitted
  BY DEF PlaceOwned
<1>3. CASE Exists(h) /\ ~Iconic(h)
  <2>1. PICK o \in (IF owner \in H /\ ~Exists(owner) THEN Junk ELSE {RectOf(owner)}) :
          wnd' = [wnd EXCEPT ![h] = Moved(wnd[h], OwnedPlace(wnd[h].rect, OwnerSlot(owner), o, ~Contains(owned, h)))]
    BY <1>3 DEF PlaceOwned
  <2>2. o \in Rect
    BY <1>1, <2>1, RectOfIs, PvWindowsAssumption
  <2>3. Good(wnd[h]) /\ wnd[h].rect \in Rect
    BY <1>1, <1>3, WindowIs
  <2> DEFINE r == OwnedPlace(wnd[h].rect, OwnerSlot(owner), o, ~Contains(owned, h))
             v == Moved(wnd[h], r)
  <2>4. r \in Rect /\ SameSize(r, wnd[h].rect)
    <3>1. MonFrame \in Sizes
      BY <1>1, Frames
    <3>2. CASE OwnerSlot(owner) < 0
      BY <2>2, <2>3, <3>1, <3>2, OwnedByShellIs DEF OwnedPlace
    <3>3. CASE ~(OwnerSlot(owner) < 0)
      <4> DEFINE n == OwnerSlot(owner)
      <4>1. n \in Slots \cup {-1}
        BY OwnerSlotIs
      <4> HIDE DEF n
      <4>2. n >= 0 => n \in Nat
        BY <4>1, RealSlot
      <4>3. n \in Int
        BY <4>1, PvWindowsAssumption DEF Slots
      <4>4. OwnerSlot(owner) \in Nat
        BY <3>3, <4>2, <4>3 DEF n
      <4> QED BY <2>2, <2>3, <3>1, <3>3, <4>4, OwnedParkedIs DEF OwnedPlace
    <3> QED BY <3>2, <3>3
  <2> HIDE DEF r
  <2>5. wnd[h].mode = "normal" => Room(wnd[h], r)
    BY <2>3, <2>4, FieldsOf DEF Room, SameSize
  <2>6. Alike(wnd[h], v)
    BY <1>1, <2>3, <2>4, <2>5, MovedGood
  <2>7. wnd' = [wnd EXCEPT ![h] = v]
    BY <2>1 DEF r
  <2> HIDE DEF v
  <2>8. Likes(wnd[h], v)
    BY <2>6 DEF Likes, Alike
  <2> QED BY <1>2, <2>7, <2>8
<1>4. CASE ~(Exists(h) /\ ~Iconic(h))
  <2> DEFINE v == wnd[h]
  <2>1. wnd' = [wnd EXCEPT ![h] = v] /\ Likes(wnd[h], v)
    BY <1>1, <1>4 DEF PlaceOwned, WndOK, Likes
  <2> QED BY <1>2, <2>1
<1> QED BY <1>3, <1>4

\* ... and is in them then, if the owner is.
LEMMA PlaceOwnedUnder ==
  ASSUME TInv, NEW h \in H, NEW o \in H, PlaceOwned(h, o), wnd[h].owner = o, Shown(h), Shown(o), h # o, Column(o),
         MonFrame \in Frame
  PROVE  Under(h, o)'
<1> SUFFICES ASSUME SlotsOf(o)' # {}, wnd'[o].rect.w > 0, wnd'[h].rect.w <= SlotW PROVE Within(wnd[h].rect, o)'
  BY DEF Under
<1>1. WndOK /\ WinsOK /\ FrameOK /\ SlotsOK
  BY DEF TInv, Typed, IInv
<1>2. Exists(h) /\ ~Iconic(h) /\ Exists(o) /\ ~Iconic(o)
  BY DEF Shown, Visible
<1>3. SlotsOf(o)' = SlotsOf(o) /\ wnd'[o] = wnd[o]
  BY <1>1 DEF PlaceOwned, SlotsOf, Slots, WndOK
<1> DEFINE n == AtSlot(o)
           fresh == ~Contains(owned, h)
           v == Moved(wnd[h], OwnedParked(wnd[h].rect, wnd[o].rect, n, fresh, MonFrame))
<1>4. n \in Nat /\ n \in Slots /\ OwnerSlot(o) = n
  <2>1. SlotsOf(o) # {} /\ SlotsOf(o) \in SUBSET Nat /\ SlotsOf(o) \subseteq Slots
    BY <1>3, PvWindowsAssumption DEF SlotsOf, Slots
  <2>2. Lowest(SlotsOf(o)) \in SlotsOf(o)
    BY <2>1, LowestIn
  <2>3. OwnerSlot(o) = Lowest(SlotsOf(o))
    BY <2>1 DEF OwnerSlot, SlotsOf
  <2> QED BY <2>1, <2>2, <2>3 DEF AtSlot
<1>5. wnd' = [wnd EXCEPT ![h] = v]
  <2>1. RectOf(o) = wnd[o].rect
    BY <1>2, PvWindowsAssumption DEF RectOf
  <2>2. PICK q \in {RectOf(o)} :
          wnd' = [wnd EXCEPT ![h] = Moved(wnd[h], OwnedPlace(wnd[h].rect, OwnerSlot(o), q, ~Contains(owned, h)))]
    BY <1>2 DEF PlaceOwned
  <2>3. ~(OwnerSlot(o) < 0)
    BY <1>4
  <2>4. OwnedPlace(wnd[h].rect, OwnerSlot(o), wnd[o].rect, fresh) = OwnedParked(wnd[h].rect, wnd[o].rect, n, fresh, MonFrame)
    BY <1>4, <2>3 DEF OwnedPlace
  <2> HIDE DEF n
  <2> QED BY <2>1, <2>2, <2>4
<1>6. wnd'[h] = v
  <2> HIDE DEF v
  <2> QED BY <1>1, <1>5 DEF WndOK
<1>7. InPlace(o)
  BY <1>3 DEF Column
<1>8. Sits(wnd[o], wnd[o].style, SlotsOf(o), MonFrame)
  BY <1>7, InPlaceIs
<1> DEFINE s == wnd[o].style
           d == Lowest(SlotsOf(o)) + 1 \in SlotsOf(o)
<1>9. /\ wnd[o].rect.x >= SlotX(n) /\ Right(wnd[o].rect) <= SlotX(n) + ColW(s, d)
      /\ s \in Style /\ d \in BOOLEAN /\ fresh \in BOOLEAN /\ wnd[o].rect.w > 0
  <2>1. s \in Style
    BY <1>1, <1>2, WindowIs, FieldsOf
  <2>2. fresh \in BOOLEAN
    BY DEF Contains
  <2> QED BY <1>3, <1>8, <2>1, <2>2 DEF Sits, Inside, AtSlot
<1>10. v.rect.w <= SlotW => v.rect.x >= SlotX(n) /\ Right(v.rect) <= SlotX(n) + ColW(s, d)
  <2> HIDE DEF n, d, fresh
  <2> QED BY <1>1, <1>2, <1>4, <1>9, OwnedInside
<1>11. Inside(wnd'[h].rect, wnd'[o].style, SlotsOf(o)')
  <2> HIDE DEF v
  <2> QED BY <1>3, <1>6, <1>10 DEF Inside, AtSlot
<1>12. (\A k \in H : \A r : Within(r, k) <=> Inside(r, wnd[k].style, SlotsOf(k)))'
  BY WithinIs, PTL
<1> QED BY <1>11, <1>12

\* desktop_fit of a window: it is on the screen then, or was not there.
LEMMA FitOnceIs ==
  ASSUME TInv, NEW h \in H, FitOnce(h)
  PROVE  /\ slots' = slots /\ fitted' = fitted \cup {h}
         /\ \E v : /\ wnd' = [wnd EXCEPT ![h] = v] /\ Likes(wnd[h], v)
                   /\ v.kind # "closed" => Loose(v) \/ Fit(v)
<1>1. WndOK /\ WinsOK /\ FrameOK
  BY DEF TInv, Typed, IInv
<1>2. slots' = slots /\ fitted' = fitted \cup {h}
  BY DEF FitOnce
<1> DEFINE gone == ~Visible(h) \/ h \in dead \/ Iconic(h)
<1>3. CASE gone
  <2> DEFINE v == [wnd[h] EXCEPT !.own = Exists(h)]
  <2>1. wnd' = [wnd EXCEPT ![h] = v]
    BY <1>3 DEF FitOnce
  <2>2. /\ v.kind = wnd[h].kind /\ v.owner = wnd[h].owner /\ v.style = wnd[h].style /\ v.vis = wnd[h].vis
        /\ v.mode = wnd[h].mode /\ v.own = Exists(h)
    <3>1. IsWindow(wnd[h])
      BY <1>1 DEF WndOK
    <3> QED BY <3>1 DEF IsWindow, IsRecord, WindowFields
  <2> HIDE DEF v
  <2>3. Likes(wnd[h], v) /\ (v.kind # "closed" => Loose(v))
    BY <2>2 DEF Likes, Loose, Exists
  <2> QED BY <1>2, <2>1, <2>3
<1>4. CASE ~gone /\ OnTheScreen(wnd[h])
  <2> DEFINE v == wnd[h]
  <2>1. wnd' = [wnd EXCEPT ![h] = v] /\ Likes(wnd[h], v) /\ Fit(v)
    BY <1>1, <1>4 DEF FitOnce, WndOK, Likes, OnTheScreen, Fit
  <2> QED BY <1>2, <2>1
<1>5. CASE ~gone /\ ~OnTheScreen(wnd[h])
  <2> DEFINE r == IF wnd[h].mode = "zoomed" THEN WholeScreen ELSE DesktopFit(wnd[h].rect, screen.w, screen.h)
             v == At(wnd[h], r)
  <2>1. wnd' = [wnd EXCEPT ![h] = v]
    BY <1>5 DEF FitOnce
  <2>2. IsWindow(wnd[h]) /\ wnd[h].rect \in Rect
    BY <1>1, <1>5, WindowIs DEF WndOK
  <2>3. OnScreen(r, screen.w, screen.h)
    <3>1. screen.w \in Nat /\ screen.h \in Nat
      BY <1>1, Frames
    <3>2. OnScreen(WholeScreen, screen.w, screen.h)
      BY <3>1 DEF OnScreen, WholeScreen, Right, Bottom
    <3>3. OnScreen(DesktopFit(wnd[h].rect, screen.w, screen.h), screen.w, screen.h)
      BY <2>2, <3>1, DesktopFitStays
    <3> QED BY <3>2, <3>3
  <2> HIDE DEF r
  <2>4. /\ v.kind = wnd[h].kind /\ v.owner = wnd[h].owner /\ v.style = wnd[h].style /\ v.vis = wnd[h].vis
        /\ v.mode = wnd[h].mode /\ v.rect = r
    BY <2>2 DEF At, IsWindow, IsRecord, WindowFields
  <2> HIDE DEF v
  <2>5. Likes(wnd[h], v) /\ Fit(v)
    BY <2>3, <2>4 DEF Likes, Fit
  <2> QED BY <1>2, <2>1, <2>5
<1> QED BY <1>3, <1>4, <1>5

\* The first thing to do, done.
LEMMA PlaceIs ==
  ASSUME PInv, Place
  PROVE  LET t == Head(mon.todo) IN
         \E h \in H :
           /\ h = t.item.wnd /\ SlotStep(h) /\ (t.do # "slot" => slots' = slots)
           /\ fitted' = IF t.do = "fit" THEN fitted \cup {h} ELSE fitted
           /\ t.do = "own" => PlaceOwned(h, t.item.owner)
           /\ \E v : /\ wnd' = [wnd EXCEPT ![h] = v] /\ Likes(wnd[h], v)
                     /\ ~Phone => IF t.do = "fit" THEN v.kind # "closed" => Loose(v) \/ Fit(v) ELSE v = wnd[h]
                     /\ t.do = "slot" /\ t.item.kind = "A" /\ Phone /\ Shown(h) /\ IsApp(h) /\ MonFrame \in Frame => SitsNow(h, v)
<1> DEFINE t == Head(mon.todo)
<1> PICK h \in H : h = t.item.wnd
  BY DEF Place
<1> DEFINE goal(v) ==
             /\ wnd' = [wnd EXCEPT ![h] = v] /\ Likes(wnd[h], v)
             /\ ~Phone => IF t.do = "fit" THEN v.kind # "closed" => Loose(v) \/ Fit(v) ELSE v = wnd[h]
             /\ t.do = "slot" /\ t.item.kind = "A" /\ Phone /\ Shown(h) /\ IsApp(h) /\ MonFrame \in Frame => SitsNow(h, v)
<1>1. TInv /\ PassOK /\ WorkOK /\ mon.pc = "place" /\ mon.todo # <<>> /\ mon' = [mon EXCEPT !.todo = Tail(mon.todo)]
  BY DEF PInv, TInv, Typed, Place
<1>2. ToCome(t) /\ t \in Jobs
  BY <1>1, TailLeft
<1>3. h \in H /\ (t.do = "own" => t.item.owner \in H \cup {Shell}) /\ t.do \in {"slot", "own", "fit"}
  BY <1>2 DEF Jobs, Entries
<1>4. t.do # (IF Phone THEN "fit" ELSE "own")
  BY <1>1, <1>2 DEF WorkOK
<1>5. \/ t.do = "slot" /\ \E wide \in Wide(h) : Slotted(h, wide, t.item.kind = "A" /\ Phone, posts)
      \/ t.do = "own" /\ PlaceOwned(h, t.item.owner)
      \/ t.do = "fit" /\ FitOnce(h)
  BY DEF Place
<1> HIDE DEF t
<1>6. ASSUME t.do = "slot", NEW wide, Slotted(h, wide, t.item.kind = "A" /\ Phone, posts)
      PROVE  SlotStep(h) /\ fitted' = fitted /\ \E v : goal(v)
  <2> DEFINE park == t.item.kind = "A" /\ Phone
  <2>1. park \in BOOLEAN
    OBVIOUS
  <2>2. Slotted(h, wide, park, posts)
    BY <1>6
  <2>3. park <=> (t.item.kind = "A" /\ Phone)
    OBVIOUS
  <2> HIDE DEF park
  <2>4. SlotStep(h) /\ fitted' = fitted /\ \E v : PutTo(h, v, park)
    BY <1>1, <1>3, <2>1, <2>2, SlottedSits
  <2>5. PICK v : PutTo(h, v, park)
    BY <2>4
  <2>6. goal(v)
    BY <1>6, <2>3, <2>5 DEF PutTo
  <2> HIDE DEF goal
  <2> QED BY <2>4, <2>6
<1>7. ASSUME t.do = "own", PlaceOwned(h, t.item.owner)
      PROVE  SlotStep(h) /\ slots' = slots /\ fitted' = fitted /\ \E v : goal(v)
  <2>1. /\ slots' = slots /\ fitted' = fitted
        /\ \E v : wnd' = [wnd EXCEPT ![h] = v] /\ Likes(wnd[h], v)
    BY <1>1, <1>3, <1>7, PlaceOwnedIs
  <2>2. PICK v : wnd' = [wnd EXCEPT ![h] = v] /\ Likes(wnd[h], v)
    BY <2>1
  <2>3. goal(v)
    BY <1>4, <1>7, <2>2
  <2>4. SlotStep(h)
    BY <2>1 DEF SlotStep
  <2> HIDE DEF goal
  <2> QED BY <1>7, <2>1, <2>3, <2>4
<1>8. ASSUME t.do = "fit", FitOnce(h)
      PROVE  SlotStep(h) /\ slots' = slots /\ fitted' = fitted \cup {h} /\ \E v : goal(v)
  <2>1. /\ slots' = slots /\ fitted' = fitted \cup {h}
        /\ \E v : /\ wnd' = [wnd EXCEPT ![h] = v] /\ Likes(wnd[h], v)
                  /\ v.kind # "closed" => Loose(v) \/ Fit(v)
    BY <1>1, <1>3, <1>8, FitOnceIs
  <2>2. PICK v : wnd' = [wnd EXCEPT ![h] = v] /\ Likes(wnd[h], v) /\ (v.kind # "closed" => Loose(v) \/ Fit(v))
    BY <2>1
  <2>3. goal(v)
    BY <1>4, <1>8, <2>2
  <2>4. SlotStep(h)
    BY <2>1 DEF SlotStep
  <2> HIDE DEF goal
  <2> QED BY <1>8, <2>1, <2>3, <2>4
<1>9. /\ SlotStep(h) /\ (t.do # "slot" => slots' = slots) /\ fitted' = (IF t.do = "fit" THEN fitted \cup {h} ELSE fitted)
      /\ \E v : goal(v)
  <2> HIDE DEF goal
  <2> QED BY <1>5, <1>6, <1>7, <1>8
<1>10. t.do = "own" => PlaceOwned(h, t.item.owner)
  BY <1>5
<1>11. PICK v : goal(v)
  BY <1>9
<1> QED BY <1>3, <1>9, <1>10, <1>11, Zenon DEF t

\* A shown application is collected as one.
LEMMA AppKind ==
  ASSUME WinsOK, NEW h \in H, Shown(h), IsApp(h)
  PROVE  Kind(h) = "A" /\ wnd[h].owner = NoWnd
<1>1. Good(wnd[h]) /\ wnd[h].kind = "app" /\ ~Iconic(h)
  BY WindowIs DEF Shown, Visible, IsApp
<1>2. wnd[h].owner = NoWnd
  BY <1>1 DEF Good, Sound
<1> QED BY <1>1, <1>2, PvWindowsAssumption DEF Kind

\* The pass goes over a window: what that leaves to be done ...
LEMMA PlaceWork == PInv /\ Place => WorkOK'
<1> SUFFICES ASSUME PInv, Place PROVE WorkOK'
  OBVIOUS
<1>1. PassOK /\ WorkOK /\ mon.pc = "place" /\ mon.todo # <<>> /\ mon' = [mon EXCEPT !.todo = Tail(mon.todo)]
      /\ (Phone' <=> Phone)
  BY DEF PInv, TInv, Typed, Place, frame, Phone
<1>2. (\A t : ToCome(t)' => ToCome(t)) /\ (InOrder(mon.todo) => InOrder(mon.todo)')
  BY <1>1, TailLeft
<1> QED BY <1>1, <1>2 DEF WorkOK

\* ... how the world is ...
LEMMA PlaceWorld == PInv /\ Place => WorldInv'
<1> SUFFICES ASSUME PInv, Place PROVE WorldInv'
  OBVIOUS
<1>1. WndOK /\ KnownOK /\ ScreenOK /\ FittedOK /\ fitted \subseteq H
  BY DEF PInv, TInv, Typed, IInv, WorldInv, SeenOK
<1>2. UNCHANGED frame /\ z' = z /\ dead' = dead
  BY DEF Place
<1> DEFINE t == Head(mon.todo)
<1>3. PICK h \in H :
        /\ fitted' = IF t.do = "fit" THEN fitted \cup {h} ELSE fitted
        /\ \E v : /\ wnd' = [wnd EXCEPT ![h] = v] /\ Likes(wnd[h], v)
                  /\ ~Phone => IF t.do = "fit" THEN v.kind # "closed" => Loose(v) \/ Fit(v) ELSE v = wnd[h]
  BY PlaceIs
<1>4. PICK v : /\ wnd' = [wnd EXCEPT ![h] = v] /\ Likes(wnd[h], v)
               /\ ~Phone => IF t.do = "fit" THEN v.kind # "closed" => Loose(v) \/ Fit(v) ELSE v = wnd[h]
  BY <1>3
<1> HIDE DEF t
<1>5. \A g \in H : Exists(g)' <=> Exists(g)
  BY <1>1, <1>2, <1>3, <1>4, LikesSame
<1>6. KnownOK'
  BY <1>1, <1>2, <1>5 DEF KnownOK, In
<1>7. ScreenOK'
  BY <1>1, <1>2 DEF ScreenOK, frame, Phone
<1>8. FittedOK'
  <2> SUFFICES ASSUME ~Phone', switching' = 0, NEW g \in fitted', Exists(g)' PROVE (Loose(wnd[g]) \/ Fit(wnd[g]))'
    BY DEF FittedOK
  <2>1. ~Phone /\ switching = 0 /\ screen' = screen
    BY <1>2 DEF frame, Phone
  <2>2. g \in H /\ Exists(g)
    BY <1>1, <1>3, <1>5
  <2>3. wnd'[g] = IF g = h THEN v ELSE wnd[g]
    BY <1>1, <1>4, <2>2 DEF WndOK
  <2>4. Loose(wnd'[g]) \/ Fit(wnd'[g])
    <3>1. CASE g = h /\ t.do = "fit"
      <4>1. v.kind # "closed"
        BY <1>4, <2>2, <3>1 DEF Likes, Exists
      <4> QED BY <1>4, <2>1, <2>3, <3>1, <4>1
    <3>2. CASE ~(g = h /\ t.do = "fit")
      <4>1. g \in fitted /\ wnd'[g] = wnd[g]
        BY <1>3, <1>4, <2>1, <2>3, <3>2
      <4> QED BY <1>1, <2>1, <2>2, <4>1 DEF FittedOK
    <3> QED BY <3>1, <3>2
  <2> QED BY <2>1, <2>4 DEF Loose, Fit
<1> QED BY <1>6, <1>7, <1>8 DEF WorldInv

\* ... and where the windows are.
LEMMA PlaceCalm == PInv /\ Place => CalmInv'
<1> SUFFICES ASSUME PInv, Place, calm PROVE CalmInv'
  BY NotCalm DEF Place
<1>1. /\ WndOK /\ WinsOK /\ FrameOK /\ SlotsOK /\ PassOK /\ TInv /\ ScreenOK /\ WorkOK
      /\ NowOK /\ SeenFit /\ AppsOK /\ DialogsOK /\ dead' = dead /\ calm' = calm
      /\ mon.pc = "place" /\ mon.todo # <<>> /\ mon' = [mon EXCEPT !.todo = Tail(mon.todo)]
  BY DEF PInv, TInv, Typed, IInv, WorldInv, CalmInv, Place
<1>2. (Phone' <=> Phone) /\ switching' = switching /\ MonFrame' = MonFrame
  BY DEF Place, frame, Phone, MonFrame
<1> DEFINE t == Head(mon.todo)
<1>3. /\ ToCome(t) /\ t \in Jobs
      /\ \A u : ToCome(u)' => ToCome(u)
      /\ \A u : ToCome(u) => u = t \/ ToCome(u)'
      /\ InOrder(mon.todo) => (t.do = "own" => NoSlots)
  BY <1>1, TailLeft
<1>4. PICK h \in H :
        /\ h = t.item.wnd /\ SlotStep(h) /\ (t.do # "slot" => slots' = slots)
        /\ fitted' = IF t.do = "fit" THEN fitted \cup {h} ELSE fitted
        /\ t.do = "own" => PlaceOwned(h, t.item.owner)
        /\ \E v : /\ wnd' = [wnd EXCEPT ![h] = v] /\ Likes(wnd[h], v)
                  /\ ~Phone => IF t.do = "fit" THEN v.kind # "closed" => Loose(v) \/ Fit(v) ELSE v = wnd[h]
                  /\ t.do = "slot" /\ t.item.kind = "A" /\ Phone /\ Shown(h) /\ IsApp(h) /\ MonFrame \in Frame => SitsNow(h, v)
  BY PlaceIs
<1>5. PICK v : /\ wnd' = [wnd EXCEPT ![h] = v] /\ Likes(wnd[h], v)
               /\ t.do = "slot" /\ t.item.kind = "A" /\ Phone /\ Shown(h) /\ IsApp(h) /\ MonFrame \in Frame => SitsNow(h, v)
  BY <1>4
<1>6. /\ t.do # (IF Phone THEN "fit" ELSE "own") /\ t.do \in {"slot", "own", "fit"}
      /\ t.do = "slot" => t.item.kind \in {"A", "I"}
      /\ t.do = "own" => t.item.kind = "O" /\ NoSlots
  <2>1. t.do \in {"slot", "own", "fit"}
    BY <1>3 DEF Jobs
  <2>2. Phone => InOrder(mon.todo)
    BY <1>1 DEF WorkOK
  <2> HIDE DEF t
  <2> QED BY <1>1, <1>3, <2>1, <2>2 DEF WorkOK
<1>7. OfNow(t.item) /\ t.item.kind = Kind(h) /\ t.item.owner = wnd[h].owner
  <2>1. OfNow(t.item)
    BY <1>1, <1>3 DEF NowOK
  <2> QED BY <1>4, <2>1 DEF OfNow
<1>8. \A do : \A g : ToDo(do, g) => ToDo(do, g)' \/ (do = t.do /\ g = h)
  <2> SUFFICES ASSUME NEW do, NEW g, ToDo(do, g), ~(do = t.do /\ g = h) PROVE ToDo(do, g)'
    OBVIOUS
  <2>1. PICK u \in Jobs : ToCome(u) /\ u.do = do /\ u.item.wnd = g
    BY DEF ToDo
  <2>2. u # t
    BY <1>4, <2>1
  <2>3. ToCome(u)' /\ Jobs' = Jobs
    BY <1>3, <2>1, <2>2 DEF Jobs, Entries
  <2> QED BY <2>1, <2>3 DEF ToDo
<1> HIDE DEF t
<1>9. \A g \in H : /\ Visible(g)' <=> Visible(g)
                   /\ Shown(g)' <=> Shown(g)
                   /\ IsApp(g)' <=> IsApp(g)
                   /\ OwnerIconic(g)' <=> OwnerIconic(g)
                   /\ Kind(g)' = Kind(g)
                   /\ wnd'[g].owner = wnd[g].owner /\ wnd'[g].kind = wnd[g].kind
  BY <1>1, <1>4, <1>5, LikesSame
<1>10. \A g \in H : wnd'[g] = IF g = h THEN v ELSE wnd[g]
  BY <1>1, <1>5 DEF WndOK
<1>11. NowOK'
  <2> SUFFICES ASSUME NEW u, ToCome(u)' PROVE OfNow(u.item)'
    BY DEF NowOK
  <2>1. ToCome(u) /\ OfNow(u.item)
    BY <1>1, <1>3 DEF NowOK
  <2>2. u \in Jobs
    BY <1>1, <2>1 DEF PassOK, ToCome, In
  <2>3. u.item.wnd \in H
    BY <2>2 DEF Jobs, Entries
  <2> QED BY <1>1, <1>9, <2>1, <2>3 DEF OfNow
<1>12. SeenFit'
  <2> SUFFICES ASSUME ~Phone, NEW g \in H, Shown(g)', wnd'[g].kind # "menu", ~OwnerIconic(g)'
               PROVE  g \in fitted' \/ ToDo("fit", g)'
    BY <1>2 DEF SeenFit
  <2>1. g \in fitted \/ ToDo("fit", g)
    BY <1>1, <1>9 DEF SeenFit
  <2> QED BY <1>4, <1>8, <2>1
<1>13. Phone /\ switching = 0 => MonFrame \in Frame
  BY <1>1, PhoneFrame
<1>14. \A g \in H : Shown(g) /\ Column(g) /\ g # h => Column(g)' /\ SlotsOf(g)' = SlotsOf(g)
  <2> TAKE g \in H
  <2> SUFFICES ASSUME Shown(g), Column(g), g # h PROVE Column(g)' /\ SlotsOf(g)' = SlotsOf(g)
    OBVIOUS
  <2>1. wnd'[g] = wnd[g]
    BY <1>10
  <2>2. \A k \in H : Visible(k)' <=> Visible(k)
    BY <1>9
  <2> QED BY <1>1, <1>2, <1>4, <2>1, <2>2, ColumnStays
<1>15. AppsOK'
  <2> SUFFICES ASSUME Phone, switching = 0, NEW g \in H, Shown(g)', IsApp(g)'
               PROVE  ToDo("slot", g)' \/ Column(g)'
    BY <1>2 DEF AppsOK
  <2>1. Shown(g) /\ IsApp(g) /\ (ToDo("slot", g) \/ Column(g))
    BY <1>1, <1>9 DEF AppsOK
  <2>2. CASE g # h
    BY <1>8, <1>14, <2>1, <2>2
  <2>3. CASE g = h
    <3>1. Kind(h) = "A"
      BY <1>1, <2>1, <2>3, AppKind
    <3>2. t.do = "slot" /\ t.item.kind = "A"
      BY <1>6, <1>7, <3>1
    <3>3. SitsNow(h, v)
      BY <1>5, <1>13, <2>1, <2>3, <3>2
    <3>4. CASE slots' = slots /\ SlotsOf(h)' = {} /\ Full
      <4>1. Full'
        BY <1>1, <1>4, <1>9, <3>4, FullStays
      <4> QED BY <2>3, <3>4, <4>1 DEF Column
    <3>5. CASE SlotsOf(h)' # {} /\ Sits(v, v.style, SlotsOf(h)', MonFrame)
      <4>1. Sits(wnd'[h], wnd'[h].style, SlotsOf(h)', MonFrame')
        BY <1>2, <1>4, <1>10, <3>5
      <4>2. (\A k \in H : InPlace(k) <=> Sits(wnd[k], wnd[k].style, SlotsOf(k), MonFrame))'
        BY InPlaceIs, PTL
      <4>3. InPlace(h)'
        BY <1>4, <4>1, <4>2
      <4> QED BY <2>3, <3>5, <4>3 DEF Column
    <3> QED BY <3>3, <3>4, <3>5 DEF SitsNow
  <2> QED BY <2>2, <2>3
<1>16. DialogsOK'
  <2> SUFFICES ASSUME Phone, switching = 0, NEW g \in H, NEW o \in H, Shown(g)', wnd'[g].owner = o, Shown(o)', IsApp(o)'
               PROVE  ToDo("own", g)' \/ (NoSlots' /\ Under(g, o)')
    BY <1>2 DEF DialogsOK
  <2>1. /\ Shown(g) /\ wnd[g].owner = o /\ Shown(o) /\ IsApp(o)
        /\ ToDo("own", g) \/ (NoSlots /\ Under(g, o))
    BY <1>1, <1>9 DEF DialogsOK
  <2>2. NoSlots => NoSlots'
    BY <1>3 DEF NoSlots
  <2>3. CASE t.do = "slot"
    <3>1. ToDo("own", g)
      BY <1>3, <2>1, <2>3 DEF NoSlots
    <3> QED BY <1>8, <2>3, <3>1
  <2>4. CASE t.do = "own"
    <3>1. NoSlots /\ NoSlots' /\ Kind(h) = "O"
      BY <1>6, <1>7, <2>2, <2>4
    <3>2. o # h
      BY <1>1, <2>1, <3>1, AppKind
    <3>3. Column(o)
      BY <1>1, <2>1, <3>1 DEF AppsOK, NoSlots, ToDo
    <3>4. SlotsOf(o)' = SlotsOf(o) /\ wnd'[o] = wnd[o]
      BY <1>10, <1>14, <2>1, <3>2, <3>3
    <3>5. CASE g # h
      <4>1. wnd'[g].rect = wnd[g].rect
        BY <1>10, <3>5
      <4>2. Under(g, o) => Under(g, o)'
        BY <3>4, <4>1, UnderStays
      <4> QED BY <1>8, <2>1, <3>1, <3>5, <4>2
    <3>6. CASE g = h
      <4>1. PlaceOwned(h, o)
        BY <1>4, <1>7, <2>1, <2>4, <3>6
      <4>2. Under(h, o)'
        BY <1>1, <1>4, <1>13, <2>1, <3>2, <3>3, <3>6, <4>1, PlaceOwnedUnder
      <4> QED BY <3>1, <3>6, <4>2
    <3> QED BY <3>5, <3>6
  <2> QED BY <1>6, <2>3, <2>4
<1> QED BY <1>11, <1>12, <1>15, <1>16 DEF CalmInv

-----------------------------------------------------------------------------
(* A pass begins.                                                          *)

\* All that is in the list and is to be done is done.
LEMMA TodoHas ==
  ASSUME NEW do \in {"slot", "own", "fit"}, NEW list \in Seq(Entries), NEW which, NEW i, i \in which, In(i, list)
  PROVE  In([do |-> do, item |-> i], Todo(do, list, which))
<1> DEFINE items == Those(list, which)
           one(k) == [do |-> do, item |-> items[k]]
<1>1. items \in Seq(Entries) /\ In(i, items)
  BY ThoseAre
<1>2. Todo(do, list, which) = [k \in DOMAIN items |-> one(k)]
  BY DEF Todo
<1> HIDE DEF items
<1>3. DOMAIN items = 1 .. Len(items) /\ Len(items) \in Nat
  BY <1>1
<1>4. PICK k \in 1 .. Len(items) : items[k] = i
  BY <1>1 DEF In
<1>5. one(k) = [do |-> do, item |-> i]
  BY <1>4
<1> HIDE DEF one
<1> DEFINE r == [j \in DOMAIN items |-> one(j)]
<1>6. Len(r) = Len(items) /\ r[k] = one(k)
  BY <1>3
<1> HIDE DEF r
<1>7. In(one(k), r)
  BY <1>4, <1>6 DEF In
<1> QED BY <1>2, <1>5, <1>7 DEF r

\* What PVMON collects is so of windows that are, and of all these.
Seen(h)  == Visible(h) /\ h \notin dead /\ (wnd[h].kind = "menu" \/ ~OwnerIconic(h))
Entry(h) == [wnd |-> h, kind |-> Kind(h), owner |-> wnd[h].owner]
\* The entries of a list are of the windows as they are, in their order.
LEMMA CollectedAre ==
  ASSUME z \in Seq(H)
  PROVE  /\ \A i : In(i, Collected) => i = Entry(i.wnd) /\ i.wnd \in H /\ Seen(i.wnd)
         /\ \A h \in H : In(h, z) /\ Seen(h) => In(Entry(h), Collected)
<1> DEFINE list == Enumerated
           which == {h \in H : Visible(h) /\ h \notin dead /\ (wnd[h].kind = "menu" \/ ~OwnerIconic(h))}
           r == [k \in DOMAIN list |-> Entry(list[k])]
<1>1. list \in Seq(H) /\ \A x : In(x, list) <=> (In(x, z) /\ x \in which)
  BY ThoseAre DEF Enumerated
<1>2. Collected = r
  BY DEF Collected, Items, Entry
<1>3. \A x : x \in which <=> x \in H /\ Seen(x)
  BY DEF Seen
<1> HIDE DEF list, which
<1>4. DOMAIN list = 1 .. Len(list) /\ Len(list) \in Nat
  BY <1>1
<1>5. Len(r) = Len(list) /\ \A k \in 1 .. Len(list) : r[k] = Entry(list[k])
  BY <1>4
<1> HIDE DEF r
<1>6. ASSUME NEW i, In(i, r) PROVE i = Entry(i.wnd) /\ i.wnd \in H /\ Seen(i.wnd)
  <2>1. PICK k \in 1 .. Len(list) : r[k] = i
    BY <1>5, <1>6 DEF In
  <2>2. In(list[k], list)
    BY DEF In
  <2>3. list[k] \in H /\ Seen(list[k]) /\ i = Entry(list[k])
    BY <1>1, <1>3, <1>5, <2>1, <2>2
  <2>4. i.wnd = list[k]
    BY <2>3 DEF Entry
  <2> QED BY <2>3, <2>4
<1>7. ASSUME NEW h \in H, In(h, z), Seen(h) PROVE In(Entry(h), r)
  <2>1. In(h, list)
    BY <1>1, <1>3, <1>7
  <2>2. PICK k \in 1 .. Len(list) : list[k] = h
    BY <2>1 DEF In
  <2> QED BY <1>5, <2>2 DEF In
<1> QED BY <1>2, <1>6, <1>7

\* So what is to be done is for windows that are so, and all that is to be done
\* for them.
LEMMA BeginsAll ==
  ASSUME z \in Seq(H), WinsOK, Begins
  PROVE  /\ \A t : ToCome(t)' => /\ t.do # (IF Phone THEN "fit" ELSE "own")
                                 /\ t.do = "slot" => t.item.kind \in {"A", "I"}
                                 /\ t.do = "own" => t.item.kind = "O"
                                 /\ OfNow(t.item) /\ t.item.wnd \in H
         /\ Phone => InOrder(mon'.todo)
         /\ \A h \in H : In(h, z) /\ Seen(h) =>
              /\ Kind(h) \in {"A", "I"} => ToDo("slot", h)'
              /\ Phone /\ Kind(h) = "O" => ToDo("own", h)'
              /\ ~Phone /\ Kind(h) \in {"A", "O"} /\ h \notin fitted => ToDo("fit", h)'
<1> DEFINE list  == Collected
           app   == {i \in Range(list) : i.kind \in {"A", "I"}}
           own   == {i \in Range(list) : i.kind = "O"}
           fresh == {i \in Range(list) : i.kind \in {"A", "O"} /\ i.wnd \notin fitted}
           p == IF Phone THEN Todo("slot", list, app) ELSE Todo("fit", list, fresh)
           q == IF Phone THEN Todo("own", list, own) ELSE Todo("slot", list, app)
<1>1. mon' = [pc |-> "place", list |-> list, todo |-> p \o q]
  BY DEF Begins
<1>2. list \in Seq(Entries)
  BY CollectedIs
<1>3. /\ \A i : In(i, list) => i = Entry(i.wnd) /\ i.wnd \in H /\ Seen(i.wnd)
      /\ \A h \in H : In(h, z) /\ Seen(h) => In(Entry(h), list)
  BY CollectedAre
<1> HIDE DEF list
<1>4. \A i : i \in Range(list) <=> In(i, list)
  BY <1>2, InRange
<1>5. /\ \A i : i \in app => i.kind \in {"A", "I"}
      /\ \A i : i \in own => i.kind = "O"
      /\ \A i : In(i, list) /\ i.kind \in {"A", "I"} => i \in app
      /\ \A i : In(i, list) /\ i.kind = "O" => i \in own
      /\ \A i : In(i, list) /\ i.kind \in {"A", "O"} /\ i.wnd \notin fitted => i \in fresh
  BY <1>4
<1> HIDE DEF app, own, fresh
<1>6. /\ Todo("slot", list, app) \in Seq(Jobs) /\ Todo("own", list, own) \in Seq(Jobs) /\ Todo("fit", list, fresh) \in Seq(Jobs)
      /\ \A t : In(t, Todo("slot", list, app)) => t.do = "slot" /\ t.item \in app /\ In(t.item, list)
      /\ \A t : In(t, Todo("own", list, own)) => t.do = "own" /\ t.item \in own /\ In(t.item, list)
      /\ \A t : In(t, Todo("fit", list, fresh)) => t.do = "fit" /\ t.item \in fresh /\ In(t.item, list)
  <2>1. \A i \in own : i.kind = "O"
    BY <1>5
  <2> QED BY <1>2, <2>1, TodoIs
<1>7. /\ \A i : i \in app /\ In(i, list) => In([do |-> "slot", item |-> i], Todo("slot", list, app))
      /\ \A i : i \in own /\ In(i, list) => In([do |-> "own", item |-> i], Todo("own", list, own))
      /\ \A i : i \in fresh /\ In(i, list) => In([do |-> "fit", item |-> i], Todo("fit", list, fresh))
  BY <1>2, TodoHas
<1>8. p \in Seq(Jobs) /\ q \in Seq(Jobs)
  BY <1>6
<1>9. /\ \A t : In(t, p) => /\ t.do = (IF Phone THEN "slot" ELSE "fit") /\ In(t.item, list)
                            /\ t.do = "slot" => t.item \in app
      /\ \A t : In(t, q) => /\ t.do = (IF Phone THEN "own" ELSE "slot") /\ In(t.item, list)
                            /\ t.do = "slot" => t.item \in app
                            /\ t.do = "own" => t.item \in own
  BY <1>6
<1>10. /\ \A i : i \in app /\ In(i, list) => In([do |-> "slot", item |-> i], p) \/ In([do |-> "slot", item |-> i], q)
       /\ \A i : Phone /\ i \in own /\ In(i, list) => In([do |-> "own", item |-> i], q)
       /\ \A i : ~Phone /\ i \in fresh /\ In(i, list) => In([do |-> "fit", item |-> i], p)
  BY <1>7
<1> HIDE DEF p, q
<1>11. /\ p \o q \in Seq(Jobs)
       /\ \A x : In(x, p \o q) <=> (In(x, p) \/ In(x, q))
  BY <1>8, InJoined
<1>12. \A t : ToCome(t)' <=> In(t, p) \/ In(t, q)
  <2>1. mon'.pc = "place" /\ mon'.todo = p \o q
    BY <1>1
  <2> QED BY <1>11, <2>1 DEF ToCome, In
<1>13. ASSUME NEW t, ToCome(t)'
       PROVE  /\ t.do # (IF Phone THEN "fit" ELSE "own")
              /\ t.do = "slot" => t.item.kind \in {"A", "I"}
              /\ t.do = "own" => t.item.kind = "O"
              /\ OfNow(t.item) /\ t.item.wnd \in H
  <2>1. In(t, p) \/ In(t, q)
    BY <1>12, <1>13
  <2>2. /\ In(t.item, list) /\ t.do # (IF Phone THEN "fit" ELSE "own")
        /\ (t.do = "slot" => t.item \in app) /\ (t.do = "own" => t.item \in own)
    BY <1>9, <2>1
  <2> DEFINE i == t.item
             h == i.wnd
  <2>3. i = Entry(h) /\ h \in H /\ Seen(h)
    BY <1>3, <2>2
  <2> HIDE DEF h
  <2>4. i.kind = Kind(h) /\ i.owner = wnd[h].owner
    BY <2>3 DEF Entry
  <2>5. OfNow(i)
    BY <2>3, <2>4 DEF OfNow, Seen, h
  <2> QED BY <1>5, <2>2, <2>3, <2>5 DEF h
<1>14. ASSUME Phone PROVE InOrder(mon'.todo)
  <2>1. mon'.todo = p \o q /\ Len(p) \in Nat /\ Len(q) \in Nat /\ Len(p \o q) = Len(p) + Len(q)
    BY <1>1, <1>8
  <2>2. \A k \in 1 .. Len(p) : (p \o q)[k] = p[k] /\ p[k].do = "slot"
    <3>1. \A k \in 1 .. Len(p) : In(p[k], p)
      BY DEF In
    <3> QED BY <1>8, <1>9, <1>14, <3>1
  <2>3. \A k \in 1 .. Len(p) + Len(q) : k > Len(p) => (p \o q)[k].do = "own"
    <3>1. \A k \in 1 .. Len(q) : In(q[k], q)
      BY DEF In
    <3>2. \A k \in 1 .. Len(q) : q[k].do = "own"
      BY <1>9, <1>14, <3>1
    <3> TAKE k \in 1 .. Len(p) + Len(q)
    <3> HAVE k > Len(p)
    <3>3. k - Len(p) \in 1 .. Len(q) /\ (p \o q)[k] = q[k - Len(p)]
      BY <1>8, <2>1
    <3> QED BY <3>2, <3>3
  <2> DEFINE s == p \o q
             n == Len(p)
             m == Len(q)
  <2>4. /\ \A k \in 1 .. n : s[k].do = "slot"
        /\ \A k \in 1 .. n + m : k > n => s[k].do = "own"
        /\ n \in Nat /\ m \in Nat /\ Len(s) = n + m
    BY <2>1, <2>2, <2>3
  <2> HIDE DEF s, n, m
  <2>5. \A j, k \in 1 .. n + m : s[j].do = "own" /\ s[k].do = "slot" => k < j
    <3> SUFFICES ASSUME NEW j \in 1 .. n + m, NEW k \in 1 .. n + m, s[j].do = "own", s[k].do = "slot" PROVE k < j
      OBVIOUS
    <3>1. ~(j \in 1 .. n) /\ ~(k > n)
      BY <2>4
    <3> QED BY <2>4, <3>1
  <2>6. InOrder(s)
    BY <2>4, <2>5 DEF InOrder
  <2> QED BY <2>1, <2>6 DEF s
<1>15. ASSUME NEW h \in H, In(h, z), Seen(h)
       PROVE  /\ Kind(h) \in {"A", "I"} => ToDo("slot", h)'
              /\ Phone /\ Kind(h) = "O" => ToDo("own", h)'
              /\ ~Phone /\ Kind(h) \in {"A", "O"} /\ h \notin fitted => ToDo("fit", h)'
  <2> PICK i : i = Entry(h)
    OBVIOUS
  <2>1. In(i, list) /\ i.kind = Kind(h) /\ i.wnd = h
    BY <1>3, <1>15 DEF Entry
  <2>2. ASSUME NEW do, In([do |-> do, item |-> i], p) \/ In([do |-> do, item |-> i], q)
        PROVE  ToDo(do, h)'
    <3> PICK t : t = [do |-> do, item |-> i]
      OBVIOUS
    <3>1. t.do = do /\ t.item = i
      OBVIOUS
    <3>2. In(t, p) \/ In(t, q)
      BY <2>2
    <3>3. t \in Jobs
      BY <1>8, <3>2 DEF In
    <3>4. ToCome(t)' /\ Jobs' = Jobs
      BY <1>12, <3>2 DEF Jobs, Entries
    <3> QED BY <2>1, <3>1, <3>3, <3>4 DEF ToDo
  <2>4. /\ Kind(h) \in {"A", "I"} => i \in app
        /\ Kind(h) = "O" => i \in own
        /\ Kind(h) \in {"A", "O"} /\ h \notin fitted => i \in fresh
    BY <1>5, <2>1
  <2> QED BY <1>10, <2>1, <2>2, <2>4
<1> QED BY <1>13, <1>14, <1>15

\* A pass that begins has every window's place still to see to.
LEMMA BeginsKeep == PInv /\ (Poll \/ Collect) => WorldInv' /\ WorkOK' /\ CalmInv'
<1> SUFFICES ASSUME PInv, Poll \/ Collect PROVE WorldInv' /\ WorkOK' /\ CalmInv'
  OBVIOUS
<1>1. /\ WinsOK /\ FrameOK /\ z \in Seq(H) /\ KnownOK /\ ScreenOK /\ FittedOK
  BY DEF PInv, TInv, Typed, WorldInv, SeenOK
<1>2. /\ Begins /\ calm' = TRUE /\ wnd' = wnd /\ dead' = dead /\ z' = z /\ fitted' = fitted /\ slots' = slots
      /\ layout' = layout /\ screen' = screen /\ (switching' = 0 => switching = 0)
  <2>1. /\ Begins /\ calm' = TRUE /\ wnd' = wnd /\ dead' = dead /\ z' = z /\ fitted' = fitted /\ slots' = slots
        /\ layout' = layout /\ screen' = screen
        /\ switching' = switching \/ switching' = (IF switching > 0 THEN switching + 1 ELSE 0)
    BY DEF Poll, Collect, Begins, program, frame, memory
  <2>2. switching \in Nat
    BY <1>1, PvWindowsAssumption DEF FrameOK
  <2>3. switching' = 0 => switching = 0
    BY <2>1, <2>2
  <2> QED BY <2>1, <2>3
<1>3. /\ \A h \in H : /\ Exists(h)' <=> Exists(h)
                      /\ Visible(h)' <=> Visible(h)
                      /\ Shown(h)' <=> Shown(h)
                      /\ IsApp(h)' <=> IsApp(h)
                      /\ OwnerIconic(h)' <=> OwnerIconic(h)
                      /\ Kind(h)' = Kind(h)
      /\ Phone' <=> Phone
  BY <1>2 DEF Visible, Exists, Shown, Iconic, IsApp, OwnerIconic, Kind, Phone
<1>4. WorldInv'
  <2>1. KnownOK'
    BY <1>1, <1>2, <1>3 DEF KnownOK, In
  <2>2. ScreenOK'
    BY <1>1, <1>2, <1>3 DEF ScreenOK
  <2>3. FittedOK'
    BY <1>1, <1>2, <1>3 DEF FittedOK, Loose, Fit, Exists
  <2> QED BY <2>1, <2>2, <2>3 DEF WorldInv
<1>5. /\ \A t : ToCome(t)' => /\ t.do # (IF Phone THEN "fit" ELSE "own")
                              /\ t.do = "slot" => t.item.kind \in {"A", "I"}
                              /\ t.do = "own" => t.item.kind = "O"
                              /\ OfNow(t.item) /\ t.item.wnd \in H
      /\ Phone => InOrder(mon'.todo)
      /\ \A h \in H : In(h, z) /\ Seen(h) =>
           /\ Kind(h) \in {"A", "I"} => ToDo("slot", h)'
           /\ Phone /\ Kind(h) = "O" => ToDo("own", h)'
           /\ ~Phone /\ Kind(h) \in {"A", "O"} /\ h \notin fitted => ToDo("fit", h)'
  BY <1>1, <1>2, BeginsAll
<1>6. WorkOK'
  BY <1>3, <1>5 DEF WorkOK, InOrder
<1>7. NowOK'
  BY <1>2, <1>3, <1>5 DEF NowOK, OfNow
<1>8. \A h \in H : Shown(h) /\ (wnd[h].kind = "menu" \/ ~OwnerIconic(h)) => In(h, z) /\ Seen(h)
  BY <1>1 DEF Shown, Visible, KnownOK, Seen
<1>9. SeenFit'
  <2> SUFFICES ASSUME ~Phone, NEW h \in H, Shown(h), wnd[h].kind # "menu", ~OwnerIconic(h), h \notin fitted
               PROVE  ToDo("fit", h)'
    BY <1>2, <1>3 DEF SeenFit
  <2>1. Kind(h) \in {"A", "O"}
    BY DEF Kind, Shown
  <2> QED BY <1>5, <1>8, <2>1
<1>10. AppsOK'
  <2> SUFFICES ASSUME NEW h \in H, Shown(h), IsApp(h) PROVE ToDo("slot", h)'
    BY <1>2, <1>3 DEF AppsOK
  <2>1. Kind(h) = "A" /\ wnd[h].owner = NoWnd
    BY <1>1, AppKind
  <2>2. ~OwnerIconic(h)
    BY <2>1, PvWindowsAssumption DEF OwnerIconic
  <2> QED BY <1>5, <1>8, <2>1, <2>2
<1>11. DialogsOK'
  <2> SUFFICES ASSUME Phone, NEW h \in H, NEW o \in H, Shown(h), wnd[h].owner = o, Shown(o) PROVE ToDo("own", h)'
    BY <1>2, <1>3 DEF DialogsOK
  <2>1. ~OwnerIconic(h)
    BY DEF OwnerIconic, Shown
  <2>2. wnd[h].kind = "dialog"
    <3>1. Good(wnd[h])
      BY <1>1, WindowIs DEF Shown, Visible
    <3> QED BY <3>1, PvWindowsAssumption DEF Good, Sound
  <2>3. Kind(h) = "O"
    BY <2>2 DEF Kind, Shown
  <2> QED BY <1>5, <1>8, <2>1, <2>3
<1> QED BY <1>4, <1>6, <1>7, <1>9, <1>10, <1>11 DEF CalmInv

-----------------------------------------------------------------------------
(* The other steps: what they leave to be done, and the places.            *)

\* A step that leaves the pass alone, or that no pass follows.
LEMMA WorkSame ==
  ASSUME WorkOK, (mon' = mon /\ layout' = layout) \/ mon'.pc # "place"
  PROVE  WorkOK'
<1>1. CASE mon' = mon /\ layout' = layout
  BY <1>1 DEF WorkOK, ToCome, Phone
<1>2. CASE mon'.pc # "place"
  BY <1>2 DEF WorkOK, ToCome
<1> QED BY <1>1, <1>2

\* What programs and the host do either happens to a window, or to none.
LEMMA ProgramWork == PInv /\ (Program \/ Ending \/ Host) => WorkOK' /\ CalmInv'
<1> SUFFICES ASSUME PInv, Program \/ Ending \/ Host PROVE WorkOK' /\ CalmInv'
  OBVIOUS
<1>1. WorkOK /\ PassOK
  BY DEF PInv, TInv, Typed
<1>2. ASSUME mon' = mon \/ mon'.pc = "collect", mon' = mon => layout' = layout, calm' = FALSE
      PROVE  WorkOK' /\ CalmInv'
  BY <1>1, <1>2, WorkSame, NotCalm
<1>3. ASSUME NEW h \in H, Create(h) \/ Show(h) \/ Hide(h) \/ Activate(h) \/ Resize(h) \/ Move(h)
                          \/ Maximise(h) \/ Restore(h) \/ Minimise(h) \/ Destroy(h)
      PROVE  WorkOK' /\ CalmInv'
  <2>1. mon' = mon /\ layout' = layout /\ calm' = FALSE
    BY <1>3 DEF Create, Show, Hide, Activate, Resize, Move, Maximise, Restore, Minimise, Destroy, Dies, ShowAs, Now, Others, frame
  <2> QED BY <1>2, <2>1
<1>4. ASSUME NEW h \in H, DestroyOwned(h) \/ Gone(h) PROVE WorkOK' /\ CalmInv'
  <2>1. mon' = mon /\ layout' = layout /\ calm' = FALSE
    BY <1>4 DEF DestroyOwned, Gone, Dies, Others, frame
  <2> QED BY <1>2, <2>1
<1>5. CASE Tap
  <2>1. /\ wnd' = wnd /\ dead' = dead /\ calm' = calm /\ fitted' = fitted /\ UNCHANGED frame /\ slots' = slots
        /\ mon' = mon
    BY <1>5 DEF Tap, program, Others, memory
  <2>2. layout' = layout
    BY <2>1 DEF frame
  <2>3. Still
    BY <2>1 DEF Still, ToCome
  <2> QED BY <1>1, <2>1, <2>2, <2>3, WorkSame, StillKeeps
<1>6. CASE ShellSize \/ SetDesktop
  <2>1. calm' = FALSE /\ mon' = [mon EXCEPT !.pc = "collect"]
    BY <1>6 DEF ShellSize, SetDesktop, Obeys
  <2>2. mon'.pc = "collect"
    BY <1>1, <2>1 DEF PassOK, IsRecord
  <2> QED BY <1>1, <2>1, <2>2, WorkSame, NotCalm
<1>7. CASE NewScreen
  <2>1. mon' = mon /\ layout' = layout /\ calm' = FALSE
    BY <1>7 DEF NewScreen
  <2> QED BY <1>2, <2>1
<1> QED BY <1>3, <1>4, <1>5, <1>6, <1>7 DEF Program, Ending, Host

\* So it is with what PVMON does besides, and PVHOOK.
LEMMA MonWork == PInv /\ (RunCommand \/ Compare \/ Say \/ ParkPosted \/ FinishSwitch \/ HookSays \/ UNCHANGED vars)
                   => WorkOK' /\ CalmInv'
<1> SUFFICES ASSUME PInv, RunCommand \/ Compare \/ Say \/ ParkPosted \/ FinishSwitch \/ HookSays \/ UNCHANGED vars
             PROVE  WorkOK' /\ CalmInv'
  OBVIOUS
<1>1. WorkOK /\ PassOK /\ TInv /\ SlotsOK /\ WndOK
  BY DEF PInv, TInv, Typed, IInv
<1>2. ASSUME wnd' = wnd, dead' = dead, calm' = calm, fitted' = fitted, UNCHANGED frame,
             (slots' = slots) \/ (\E h \in H : SlotStep(h)),
             mon' = mon \/ ((mon.pc # "place" \/ mon.todo = <<>>) /\ mon'.pc # "place")
      PROVE  WorkOK' /\ CalmInv'
  <2>1. \A t : ToCome(t)' <=> ToCome(t)
    <3>1. CASE mon' = mon
      BY <3>1 DEF ToCome
    <3>2. CASE mon.pc # "place" /\ mon'.pc # "place"
      BY <3>2 DEF ToCome
    <3>3. CASE mon.todo = <<>> /\ mon'.pc # "place"
      <4>1. \A t : ~In(t, mon.todo)
        BY <3>3 DEF In
      <4> QED BY <3>3, <4>1 DEF ToCome
    <3> QED BY <1>2, <3>1, <3>2, <3>3
  <2>2. Still
    BY <1>2, <2>1 DEF Still
  <2>3. layout' = layout
    BY <1>2 DEF frame
  <2> QED BY <1>1, <1>2, <2>2, <2>3, WorkSame, StillKeeps
<1>3. CASE RunCommand
  <2>1. mon.pc = "idle" /\ mon' = [mon EXCEPT !.pc = "collect"] /\ UNCHANGED frame /\ UNCHANGED memory
    BY <1>3 DEF RunCommand, Obeys, Polls
  <2>2. mon'.pc = "collect"
    BY <1>1, <2>1 DEF PassOK, IsRecord
  <2>3. calm' = FALSE \/ (UNCHANGED program /\ calm' = calm)
    BY <1>3 DEF RunCommand
  <2>4. CASE calm' = FALSE
    BY <1>1, <2>2, <2>4, WorkSame, NotCalm
  <2>5. CASE UNCHANGED program /\ calm' = calm
    BY <1>2, <2>1, <2>2, <2>5 DEF program, memory
  <2> QED BY <2>3, <2>4, <2>5
<1>4. CASE Compare
  <2>1. /\ wnd' = wnd /\ dead' = dead /\ calm' = calm /\ fitted' = fitted /\ slots' = slots /\ UNCHANGED frame
        /\ mon.todo = <<>> /\ (mon' = Idle \/ mon' = [pc |-> "say", list |-> <<>>, todo |-> Reverse(mon.list)])
    BY <1>4 DEF Compare, program, memory
  <2>2. mon'.pc # "place"
    BY <2>1 DEF Idle
  <2> QED BY <1>2, <2>1, <2>2
<1>5. CASE Say
  <2>1. /\ wnd' = wnd /\ dead' = dead /\ calm' = calm /\ fitted' = fitted /\ UNCHANGED frame /\ mon.pc = "say"
        /\ mon' = Idle \/ mon' = [mon EXCEPT !.todo = Tail(mon.todo)]
    BY <1>5 DEF Say, Says, program
  <2>2. mon'.pc # "place"
    <3>1. [mon EXCEPT !.todo = Tail(mon.todo)].pc = mon.pc
      BY <1>1 DEF PassOK, IsRecord
    <3>2. CASE mon' = Idle
      BY <3>2 DEF Idle
    <3>3. CASE mon' = [mon EXCEPT !.todo = Tail(mon.todo)]
      <4>1. mon'.pc = mon.pc
        BY <3>1, <3>3
      <4> QED BY <2>1, <4>1
    <3> QED BY <2>1, <3>2, <3>3
  <2>3. (slots' = slots) \/ (\E h \in H : SlotStep(h))
    <3>1. (slots' = slots) \/ \E h \in H : \E wide \in Wide(h) : slots' = SlotOf(h, wide).slots
      BY <1>5 DEF Say
    <3>2. ASSUME NEW h \in H, NEW wide, slots' = SlotOf(h, wide).slots PROVE SlotStep(h)
      BY <1>1, <3>2, SlotStepIs
    <3> QED BY <3>1, <3>2
  <2> QED BY <1>2, <2>1, <2>2, <2>3
<1>6. CASE ParkPosted
  <2>1. /\ mon' = mon /\ UNCHANGED frame /\ dead' = dead /\ calm' = (calm /\ wnd' = wnd)
    BY <1>6 DEF ParkPosted
  <2>2. CASE ~calm'
    <3>1. layout' = layout
      BY <2>1 DEF frame
    <3> QED BY <1>1, <2>1, <2>2, <3>1, WorkSame, NotCalm
  <2>3. CASE calm'
    <3>1. wnd' = wnd /\ calm' = calm
      <4>1. calm \in BOOLEAN
        BY <1>1 DEF TInv, Typed
      <4> QED BY <2>1, <2>3, <4>1
    <3>2. fitted' = fitted /\ ((slots' = slots) \/ \E h \in H : SlotStep(h))
      <4>1. \/ UNCHANGED memory
            \/ \E h \in posts : \E wide \in Wide(h) : Slotted(h, wide, TRUE, posts \ {h})
        BY <1>6 DEF ParkPosted
      <4>2. ASSUME NEW h \in posts, NEW wide, Slotted(h, wide, TRUE, posts \ {h})
            PROVE  fitted' = fitted /\ SlotStep(h) /\ h \in H
        <5>1. h \in H
          BY <1>1 DEF TInv, IInv
        <5>2. slots' = SlotOf(h, wide).slots /\ fitted' = fitted
          BY <4>2 DEF Slotted
        <5> QED BY <1>1, <5>1, <5>2, SlotStepIs
      <4> QED BY <4>1, <4>2 DEF memory
    <3> QED BY <1>2, <2>1, <3>1, <3>2
  <2> QED BY <2>2, <2>3
<1>7. CASE FinishSwitch
  <2>1. mon' = mon /\ layout' = layout /\ calm' = FALSE
    BY <1>7 DEF FinishSwitch
  <2> QED BY <1>1, <2>1, WorkSame, NotCalm
<1>8. CASE HookSays \/ UNCHANGED vars
  <2>1. /\ wnd' = wnd /\ dead' = dead /\ calm' = calm /\ fitted' = fitted /\ slots' = slots /\ UNCHANGED frame
        /\ mon' = mon
    BY <1>8 DEF HookSays, vars, program, memory
  <2> QED BY <1>2, <2>1
<1> QED BY <1>3, <1>4, <1>5, <1>6, <1>7, <1>8

\* A window changes: on the desktop it is still fitted, or placed by somebody else.
Fine(h, v) == \/ v.kind = "closed" \/ Phone \/ Loose(v) \/ Fit(v) \/ h \notin fitted
              \/ v.rect = wnd[h].rect /\ v.kind = wnd[h].kind /\ v.mode = wnd[h].mode /\ v.own = wnd[h].own

\* ... and the world is in order then.
LEMMA WorldStep ==
  ASSUME WorldInv, WndOK, fitted \subseteq H, NEW h \in H, NEW v, wnd' = [wnd EXCEPT ![h] = v], Fine(h, v),
         UNCHANGED frame, fitted' = fitted, v.kind # "closed" => In(h, z'), \A g \in H \ {h} : In(g, z) => In(g, z')
  PROVE  WorldInv'
<1>1. KnownOK /\ ScreenOK /\ FittedOK
  BY DEF WorldInv
<1>2. /\ \A g \in H : wnd'[g] = IF g = h THEN v ELSE wnd[g]
      /\ (Phone' <=> Phone) /\ switching' = switching /\ screen' = screen
  BY DEF WndOK, frame, Phone
<1>3. KnownOK'
  BY <1>1, <1>2 DEF KnownOK, Exists
<1>4. ScreenOK'
  BY <1>1, <1>2 DEF ScreenOK
<1>5. FittedOK'
  <2> SUFFICES ASSUME ~Phone, switching = 0, NEW g \in fitted, wnd'[g].kind # "closed"
               PROVE  Loose(wnd'[g]) \/ Fit(wnd'[g])
    BY <1>2 DEF FittedOK, Exists, Loose, Fit
  <2>1. CASE g # h
    <3>1. g \in H /\ wnd'[g] = wnd[g] /\ Exists(g)
      BY <1>2, <2>1 DEF Exists
    <3>2. Loose(wnd[g]) \/ Fit(wnd[g])
      BY <1>1, <3>1 DEF FittedOK
    <3> QED BY <3>1, <3>2
  <2>2. CASE g = h
    <3>1. wnd'[g] = v
      BY <1>2, <2>2
    <3>2. Loose(v) \/ Fit(v) \/ (v.rect = wnd[h].rect /\ v.kind = wnd[h].kind /\ v.mode = wnd[h].mode /\ v.own = wnd[h].own)
      BY <2>2, <3>1 DEF Fine
    <3>3. CASE v.rect = wnd[h].rect /\ v.kind = wnd[h].kind /\ v.mode = wnd[h].mode /\ v.own = wnd[h].own
      <4>1. Exists(h)
        BY <2>2, <3>1, <3>3 DEF Exists
      <4>2. Loose(wnd[h]) \/ Fit(wnd[h])
        BY <1>1, <2>2, <4>1 DEF FittedOK
      <4> QED BY <3>1, <3>3, <4>2 DEF Loose, Fit
    <3> QED BY <3>1, <3>2, <3>3
  <2> QED BY <2>1, <2>2
<1> QED BY <1>3, <1>4, <1>5 DEF WorldInv

\* No window changes.
LEMMA WorldSame ==
  ASSUME WorldInv, wnd' = wnd, z' = z, fitted' = fitted, layout' = layout, screen' = screen, switching' = switching
  PROVE  WorldInv'
BY DEF WorldInv, KnownOK, ScreenOK, FittedOK, Phone, Exists, Loose, Fit, In

\* To the front: nobody is left behind.
LEMMA ToFrontHas ==
  ASSUME z \in Seq(H), NEW h \in H
  PROVE  \A g \in H : In(g, z) \/ g = h => In(g, ToFront(h))
<1> DEFINE mine == {o \in H : wnd[o].owner = h} \ {h}
           p == Those(z, mine)
           q == Those(z, H \ (mine \cup {h}))
           m == <<h>>
<1>1. /\ p \in Seq(H) /\ \A x : In(x, p) <=> (In(x, z) /\ x \in mine)
      /\ q \in Seq(H) /\ \A x : In(x, q) <=> (In(x, z) /\ x \in H \ (mine \cup {h}))
  <2> HIDE DEF mine
  <2> QED BY ThoseAre
<1>2. m \in Seq(H) /\ In(h, m)
  BY DEF In
<1>3. ToFront(h) = p \o m \o q
  BY DEF ToFront
<1> HIDE DEF p, q, m, mine
<1>4. p \o m \in Seq(H) /\ \A x : In(x, p \o m) <=> (In(x, p) \/ In(x, m))
  BY <1>1, <1>2, InJoined
<1>5. \A x : In(x, p \o m \o q) <=> (In(x, p \o m) \/ In(x, q))
  BY <1>1, <1>4, InJoined
<1> QED BY <1>1, <1>2, <1>3, <1>4, <1>5

\* On the desktop PVHOOK leaves windows alone.
LEMMA DesktopFine ==
  ASSUME WinsOK, FrameOK, NEW h \in H, Exists(h)
  PROVE  /\ Fine(h, [wnd[h] EXCEPT !.vis = TRUE]) /\ Fine(h, [wnd[h] EXCEPT !.vis = FALSE])
         /\ Fine(h, wnd[h]) /\ Fine(h, Activated(wnd[h])) /\ Fine(h, Maximised(wnd[h])) /\ Fine(h, Restored(wnd[h]))
         /\ Fine(h, Minimised(wnd[h])) /\ Fine(h, Activated(Restored(wnd[h])))
         /\ \A r \in Rect : \A a : /\ Fine(h, [Moved(wnd[h], r) EXCEPT !.asked = a, !.own = TRUE])
                                   /\ Fine(h, [Moved(wnd[h], r) EXCEPT !.own = TRUE])
<1> DEFINE w == wnd[h]
<1>1. Good(w) /\ IsWindow(w)
  <2>1. w \in There
    BY WindowIs DEF Good, Sound
  <2> QED BY <2>1, WindowIs DEF There, IsWindow, IsRecord, WindowFields
<1>2. SUFFICES ASSUME ~Phone
      PROVE  /\ Fine(h, [w EXCEPT !.vis = TRUE]) /\ Fine(h, [w EXCEPT !.vis = FALSE])
             /\ Fine(h, w) /\ Fine(h, Activated(w)) /\ Fine(h, Maximised(w)) /\ Fine(h, Restored(w))
             /\ Fine(h, Minimised(w)) /\ Fine(h, Activated(Restored(w)))
             /\ \A r \in Rect : \A a : /\ Fine(h, [Moved(w, r) EXCEPT !.asked = a, !.own = TRUE])
                                       /\ Fine(h, [Moved(w, r) EXCEPT !.own = TRUE])
  BY DEF Fine
<1>3. \A u : Activated(u) = u
  BY <1>2 DEF Activated
<1>4. \A u, r : Moved(u, r) = At(u, r)
  BY <1>2 DEF Moved, HookKeeps
<1>5. Fine(h, w)
  BY DEF Fine
<1>6. \A b \in BOOLEAN : Fine(h, [w EXCEPT !.vis = b])
  <2> TAKE b \in BOOLEAN
  <2> DEFINE v == [w EXCEPT !.vis = b]
  <2>1. v.rect = w.rect /\ v.kind = w.kind /\ v.mode = w.mode /\ v.own = w.own
    BY <1>1 DEF IsWindow, IsRecord, WindowFields
  <2> HIDE DEF v
  <2>2. Fine(h, v)
    BY <2>1 DEF Fine
  <2> QED BY <2>2 DEF v
<1>7. Fine(h, Maximised(w))
  <2> DEFINE v == Maximised(w)
  <2>1. v.rect = WholeScreen
    BY <1>1, <1>2 DEF Maximised, IsWindow, IsRecord, WindowFields
  <2>2. screen.w \in Nat /\ screen.h \in Nat
    BY Frames
  <2>3. OnScreen(WholeScreen, screen.w, screen.h)
    BY <2>2 DEF OnScreen, WholeScreen, Right, Bottom
  <2> HIDE DEF v
  <2>4. Fine(h, v)
    BY <2>1, <2>3 DEF Fine, Fit
  <2> QED BY <2>4 DEF v
<1>8. Fine(h, Minimised(w))
  <2> DEFINE v == Minimised(w)
  <2>1. v.mode = "iconic"
    BY <1>1 DEF Minimised, IsWindow, IsRecord, WindowFields
  <2> HIDE DEF v
  <2>2. Fine(h, v)
    BY <2>1 DEF Fine, Loose
  <2> QED BY <2>2 DEF v
<1>9. Fine(h, Restored(w))
  <2> DEFINE v == Restored(w)
  <2>1. CASE w.mode = "normal"
    BY <1>6, <2>1 DEF Restored
  <2>2. CASE w.mode # "normal"
    <3>1. v.own
      BY <1>1, <2>2, RestoredGood
    <3> HIDE DEF v
    <3>2. Fine(h, v)
      BY <3>1 DEF Fine, Loose
    <3> QED BY <3>2 DEF v
  <2> QED BY <2>1, <2>2
<1>10. ASSUME NEW r, NEW a
       PROVE  Fine(h, [Moved(w, r) EXCEPT !.asked = a, !.own = TRUE]) /\ Fine(h, [Moved(w, r) EXCEPT !.own = TRUE])
  <2> DEFINE u == Moved(w, r)
             v == [u EXCEPT !.asked = a, !.own = TRUE]
             x == [u EXCEPT !.own = TRUE]
  <2>1. IsWindow(u)
    BY <1>1, MovedStays DEF Stays
  <2> HIDE DEF u
  <2>2. v.own /\ x.own
    BY <2>1 DEF IsWindow, IsRecord, WindowFields
  <2> HIDE DEF v, x
  <2>3. Fine(h, v) /\ Fine(h, x)
    BY <2>2 DEF Fine, Loose
  <2> QED BY <2>3 DEF v, x, u
<1> HIDE DEF w
<1> QED BY <1>3, <1>5, <1>6, <1>7, <1>8, <1>9, <1>10

\* So the programs and the users leave it.
LEMMA ProgramWorld == PInv /\ (Program \/ Ending) => WorldInv'
<1> SUFFICES ASSUME PInv, Program \/ Ending PROVE WorldInv'
  OBVIOUS
<1>1. WorldInv /\ WndOK /\ WinsOK /\ FrameOK /\ z \in Seq(H) /\ fitted \subseteq H /\ KnownOK /\ habit \in Habits
  BY DEF PInv, TInv, Typed, IInv, SeenOK, WorldInv
<1>2. ASSUME NEW h \in H, Create(h) PROVE WorldInv'
  <2>1. PICK d \in habit.as[h] : wnd' = [wnd EXCEPT ![h] = Opened(h, d, Birth(d))]
    BY <1>2 DEF Create
  <2> DEFINE v == Opened(h, d, Birth(d))
  <2>2. UNCHANGED frame /\ fitted' = fitted /\ z' = <<h>> \o z
    BY <1>2 DEF Create, Others, memory
  <2>3. v.own = Mistaken(h, d)
    BY DEF Opened
  <2> HIDE DEF v
  <2>4. Fine(h, v)
    BY <2>3 DEF Fine, Loose, Mistaken
  <2>5. \A g \in H : In(g, z) \/ g = h => In(g, z')
    <3> DEFINE m == <<h>>
    <3>1. m \in Seq(H) /\ In(h, m)
      BY DEF In
    <3> HIDE DEF m
    <3>2. \A x : In(x, m \o z) <=> (In(x, m) \/ In(x, z))
      BY <1>1, <3>1, InJoined
    <3>3. z' = m \o z
      BY <2>2 DEF m
    <3> QED BY <3>1, <3>2, <3>3
  <2>6. wnd' = [wnd EXCEPT ![h] = v]
    BY <2>1 DEF v
  <2> QED BY <1>1, <2>2, <2>4, <2>5, <2>6, WorldStep
<1>3. ASSUME NEW h \in H, Exists(h), NEW v, wnd' = [wnd EXCEPT ![h] = v], Fine(h, v), UNCHANGED frame, UNCHANGED memory,
             z' = z \/ z' = ToFront(h)
      PROVE  WorldInv'
  <2>1. \A g \in H : In(g, z) => In(g, z')
    BY <1>1, <1>3, ToFrontHas
  <2>2. In(h, z') /\ fitted' = fitted
    BY <1>1, <1>3, <2>1 DEF KnownOK, memory
  <2> QED BY <1>1, <1>3, <2>1, <2>2, WorldStep
<1>4. ASSUME NEW h \in H, Exists(h)
      PROVE  /\ Fine(h, [wnd[h] EXCEPT !.vis = TRUE]) /\ Fine(h, [wnd[h] EXCEPT !.vis = FALSE])
             /\ Fine(h, wnd[h]) /\ Fine(h, Activated(wnd[h])) /\ Fine(h, Maximised(wnd[h])) /\ Fine(h, Restored(wnd[h]))
             /\ Fine(h, Minimised(wnd[h])) /\ Fine(h, Activated(Restored(wnd[h])))
             /\ \A r \in Rect : \A a : /\ Fine(h, [Moved(wnd[h], r) EXCEPT !.asked = a, !.own = TRUE])
                                       /\ Fine(h, [Moved(wnd[h], r) EXCEPT !.own = TRUE])
  BY <1>1, <1>4, DesktopFine
<1>5. ASSUME NEW h \in H, Show(h) PROVE WorldInv'
  <2> DEFINE v == [wnd[h] EXCEPT !.vis = TRUE]
  <2>1. wnd' = [wnd EXCEPT ![h] = v] /\ z' = z /\ UNCHANGED frame /\ UNCHANGED memory /\ Exists(h)
    BY <1>5 DEF Show, Now, Others
  <2>2. Fine(h, v)
    BY <1>4, <2>1
  <2> HIDE DEF v
  <2> QED BY <1>3, <2>1, <2>2
<1>6. ASSUME NEW h \in H, Hide(h) PROVE WorldInv'
  <2> DEFINE v == [wnd[h] EXCEPT !.vis = FALSE]
  <2>1. wnd' = [wnd EXCEPT ![h] = v] /\ z' = z /\ UNCHANGED frame /\ UNCHANGED memory /\ Exists(h)
    BY <1>6 DEF Hide, Now, Others, Visible
  <2>2. Fine(h, v)
    BY <1>4, <2>1
  <2> HIDE DEF v
  <2> QED BY <1>3, <2>1, <2>2
<1>7. ASSUME NEW h \in H, Activate(h) PROVE WorldInv'
  <2> DEFINE v == Activated(wnd[h])
  <2>1. wnd' = [wnd EXCEPT ![h] = v] /\ z' = ToFront(h) /\ UNCHANGED frame /\ UNCHANGED memory /\ Exists(h)
    BY <1>7 DEF Activate, Now, Others
  <2>2. Fine(h, v)
    BY <1>4, <2>1
  <2> HIDE DEF v
  <2> QED BY <1>3, <2>1, <2>2
<1>8. ASSUME NEW h \in H, Resize(h) PROVE WorldInv'
  <2>0. Exists(h) /\ z' = z /\ UNCHANGED frame /\ UNCHANGED memory
    BY <1>8 DEF Resize, Others
  <2>1. PICK n \in habit.sizes :
          wnd' = [wnd EXCEPT ![h] = [Moved(wnd[h], [wnd[h].rect EXCEPT !.w = n.w, !.h = n.h])
                                       EXCEPT !.asked = [wnd[h].rect EXCEPT !.w = n.w, !.h = n.h], !.own = TRUE]]
    BY <1>8 DEF Resize, Now
  <2> DEFINE r == [wnd[h].rect EXCEPT !.w = n.w, !.h = n.h]
             v == [Moved(wnd[h], r) EXCEPT !.asked = r, !.own = TRUE]
  <2>2. wnd' = [wnd EXCEPT ![h] = v]
    BY <2>1
  <2>3. r \in Rect
    <3>1. n \in [w : Nat, h : Nat]
      BY <1>1, <2>1, PvWindowsAssumption
    <3>2. n.w \in Nat /\ n.h \in Nat /\ wnd[h].rect \in Rect
      BY <1>1, <3>1, WindowIs
    <3> QED BY <3>2, RectResizedIs
  <2> HIDE DEF r
  <2>4. Fine(h, v)
    BY <1>4, <2>0, <2>3
  <2> HIDE DEF v
  <2> QED BY <1>3, <2>0, <2>2, <2>4
<1>9. ASSUME NEW h \in H, Move(h) PROVE WorldInv'
  <2>0. Exists(h) /\ z' = z /\ UNCHANGED frame /\ UNCHANGED memory
    BY <1>9 DEF Move, Others
  <2>1. PICK p \in habit.spots :
          wnd' = [wnd EXCEPT ![h] = [Moved(wnd[h], [wnd[h].rect EXCEPT !.x = p.x, !.y = p.y]) EXCEPT !.own = TRUE]]
    BY <1>9 DEF Move, Now
  <2> DEFINE r == [wnd[h].rect EXCEPT !.x = p.x, !.y = p.y]
             v == [Moved(wnd[h], r) EXCEPT !.own = TRUE]
  <2>2. wnd' = [wnd EXCEPT ![h] = v]
    BY <2>1
  <2>3. r \in Rect
    <3>1. p \in [x : Int, y : Int]
      BY <1>1, <2>1, PvWindowsAssumption
    <3>2. p.x \in Int /\ p.y \in Int /\ wnd[h].rect \in Rect
      BY <1>1, <3>1, WindowIs
    <3> QED BY <3>2, RectMovedIs
  <2> HIDE DEF r
  <2>4. Fine(h, v)
    BY <1>4, <2>0, <2>3
  <2> HIDE DEF v
  <2> QED BY <1>3, <2>0, <2>2, <2>4
<1>10. ASSUME NEW h \in H, NEW what, NEW v, ShowAs(h, what, v), Fine(h, v) PROVE WorldInv'
  <2>1. wnd' = [wnd EXCEPT ![h] = v] /\ z' = z /\ UNCHANGED frame /\ UNCHANGED memory /\ Exists(h)
    BY <1>10 DEF ShowAs, Now, Others, Visible
  <2> QED BY <1>3, <1>10, <2>1
<1>11. ASSUME NEW h \in H, Maximise(h) \/ Restore(h) \/ Minimise(h) PROVE WorldInv'
  <2>1. Exists(h)
    BY <1>11 DEF Maximise, Restore, Minimise, ShowAs, Visible
  <2>2. Fine(h, Maximised(wnd[h])) /\ Fine(h, Restored(wnd[h])) /\ Fine(h, Minimised(wnd[h]))
    BY <1>4, <2>1
  <2> QED BY <1>10, <1>11, <2>2 DEF Maximise, Restore, Minimise
<1>12. ASSUME NEW h \in H, Dies(h) PROVE WorldInv'
  <2>1. wnd' = wnd /\ z' = z /\ UNCHANGED frame /\ UNCHANGED memory
    BY <1>12 DEF Dies, Others
  <2> QED BY <1>1, <2>1, WorldSame DEF frame, memory
<1>13. ASSUME NEW h \in H, Gone(h) PROVE WorldInv'
  <2> DEFINE v == Closed
  <2>1. wnd' = [wnd EXCEPT ![h] = v] /\ z' = Those(z, H \ {h}) /\ UNCHANGED frame /\ fitted' = fitted
    BY <1>13 DEF Gone, Others, memory
  <2>2. v.kind = "closed"
    BY DEF Closed
  <2> HIDE DEF v
  <2>3. Fine(h, v)
    BY <2>2 DEF Fine
  <2>4. \A x : In(x, Those(z, H \ {h})) <=> (In(x, z) /\ x \in H \ {h})
    BY <1>1, ThoseAre
  <2>5. \A g \in H \ {h} : In(g, z) => In(g, z')
    BY <2>1, <2>4
  <2> QED BY <1>1, <2>1, <2>2, <2>3, <2>5, WorldStep
<1> QED BY <1>2, <1>5, <1>6, <1>7, <1>8, <1>9, <1>11, <1>12, <1>13 DEF Program, Ending, Destroy, DestroyOwned

\* On a new screen every window that is shown is fitted.
LEMMA FitsWorld ==
  ASSUME WndOK, WinsOK, FrameOK, KnownOK, ~Phone, fitted' \subseteq H, NEW now \in Desktops, NEW was, was = None \/ was = screen,
         wnd' = Fits(was, now), screen' = now, z' = z, layout' = layout
  PROVE  WorldInv'
<1> DEFINE w(h) == CASE wnd[h].kind = "menu" -> wnd[h]
                     [] wnd[h].kind # "menu" /\ (~Visible(h) \/ Iconic(h)) -> [wnd[h] EXCEPT !.own = Exists(h)]
                     [] OTHER -> FitWindow(wnd[h], was, now)
<1>1. \A h \in H : w(h).kind = wnd[h].kind /\ (w(h).kind # "closed" => Loose(w(h)) \/ OnScreen(w(h).rect, now.w, now.h))
  <2> TAKE h \in H
  <2>1. IsWindow(wnd[h])
    BY DEF WndOK
  <2>2. CASE wnd[h].kind = "menu"
    <3>1. w(h) = wnd[h]
      BY <2>2
    <3> HIDE DEF w
    <3> QED BY <2>2, <3>1 DEF Loose
  <2>3. CASE wnd[h].kind # "menu" /\ (~Visible(h) \/ Iconic(h))
    <3>1. w(h) = [wnd[h] EXCEPT !.own = Exists(h)]
      BY <2>3
    <3> HIDE DEF w
    <3>2. w(h).kind = wnd[h].kind /\ w(h).own = Exists(h)
      BY <2>1, <3>1 DEF IsWindow, IsRecord, WindowFields
    <3> QED BY <3>2 DEF Loose, Exists
  <2>4. CASE wnd[h].kind # "menu" /\ ~(~Visible(h) \/ Iconic(h))
    <3>1. w(h) = FitWindow(wnd[h], was, now)
      BY <2>4
    <3> HIDE DEF w
    <3>2. Good(wnd[h])
      BY <2>4, WindowIs DEF Visible
    <3>3. w(h).kind = wnd[h].kind /\ OnScreen(w(h).rect, now.w, now.h)
      BY <3>1, <3>2, FitWindowGood
    <3> QED BY <3>3
  <2> QED BY <2>2, <2>3, <2>4
<1>2. wnd' = [h \in H |-> w(h)]
  BY DEF Fits
<1> HIDE DEF w
<1>3. \A h \in H : wnd'[h] = w(h)
  BY <1>2
<1>4. KnownOK'
  BY <1>1, <1>3 DEF KnownOK, Exists, In
<1>5. ScreenOK'
  BY DEF ScreenOK, Phone
<1>6. FittedOK'
  BY <1>1, <1>3 DEF FittedOK, Exists, Loose, Fit
<1> QED BY <1>4, <1>5, <1>6 DEF WorldInv

\* The host, and the screen that it gives.
LEMMA HostWorld == PInv /\ (Host \/ FinishSwitch) => WorldInv'
<1> SUFFICES ASSUME PInv, Host \/ FinishSwitch PROVE WorldInv'
  OBVIOUS
<1>1. WorldInv /\ WndOK /\ WinsOK /\ FrameOK /\ fitted \subseteq H /\ KnownOK /\ ScreenOK
  BY DEF PInv, TInv, Typed, IInv, SeenOK, WorldInv
<1>2. CASE Tap
  <2>1. wnd' = wnd /\ z' = z /\ UNCHANGED frame /\ UNCHANGED memory
    BY <1>2 DEF Tap, Others, program
  <2> QED BY <1>1, <2>1, WorldSame DEF frame, memory
<1>3. CASE ShellSize
  <2>1. wnd' = wnd /\ z' = z /\ UNCHANGED <<layout, screen, switching>> /\ UNCHANGED memory
    BY <1>3 DEF ShellSize, program
  <2> QED BY <1>1, <2>1, WorldSame DEF memory
<1>4. CASE SetDesktop
  <2>1. wnd' = wnd /\ z' = z /\ switching' = 1
    BY <1>4 DEF SetDesktop, program
  <2>2. KnownOK'
    BY <1>1, <2>1 DEF KnownOK, Exists, In
  <2>3. ScreenOK' /\ FittedOK'
    BY <2>1 DEF ScreenOK, FittedOK
  <2> QED BY <2>2, <2>3 DEF WorldInv
<1>5. CASE NewScreen
  <2>1. PICK s \in Desktops : screen' = s /\ wnd' = Fits(screen, s)
    BY <1>5 DEF NewScreen
  <2>2. ~Phone /\ z' = z /\ layout' = layout /\ UNCHANGED memory
    BY <1>5 DEF NewScreen
  <2>3. fitted' \subseteq H
    BY <1>1, <2>2 DEF memory
  <2> QED BY <1>1, <2>1, <2>2, <2>3, FitsWorld
<1>6. CASE FinishSwitch
  <2>1. z' = z /\ layout' = layout /\ UNCHANGED memory
    BY <1>6 DEF FinishSwitch
  <2>2. CASE Phone
    <3>1. wnd' = wnd /\ screen' = PhoneScreen
      BY <1>6, <2>2 DEF FinishSwitch
    <3>2. KnownOK'
      BY <1>1, <2>1, <3>1 DEF KnownOK, Exists, In
    <3>3. ScreenOK' /\ FittedOK'
      BY <2>1, <2>2, <3>1 DEF ScreenOK, FittedOK, Phone
    <3> QED BY <3>2, <3>3 DEF WorldInv
  <2>3. CASE ~Phone
    <3>1. PICK s \in Desktops : screen' = s /\ wnd' = Fits(IF s = screen THEN None ELSE screen, s)
      BY <1>6, <2>3 DEF FinishSwitch
    <3>2. PICK was \in {None, screen} : wnd' = Fits(was, s)
      BY <3>1
    <3>3. fitted' \subseteq H
      BY <1>1, <2>1 DEF memory
    <3> QED BY <1>1, <2>1, <2>3, <3>1, <3>2, <3>3, FitsWorld
  <2> QED BY <2>2, <2>3
<1> QED BY <1>2, <1>3, <1>4, <1>5, <1>6 DEF Host

\* PVMON, besides its pass and the screen, and PVHOOK.
LEMMA MonWorld == PInv /\ (RunCommand \/ Compare \/ Say \/ ParkPosted \/ HookSays \/ UNCHANGED vars) => WorldInv'
<1> SUFFICES ASSUME PInv, RunCommand \/ Compare \/ Say \/ ParkPosted \/ HookSays \/ UNCHANGED vars PROVE WorldInv'
  OBVIOUS
<1>1. /\ WorldInv /\ WndOK /\ WinsOK /\ FrameOK /\ z \in Seq(H) /\ fitted \subseteq H /\ KnownOK /\ SlotsOK /\ PageOK
      /\ posts \subseteq H /\ TInv
  BY DEF PInv, TInv, Typed, IInv, SeenOK, WorldInv
<1>2. CASE Compare \/ Say \/ HookSays \/ UNCHANGED vars
  <2>1. wnd' = wnd /\ z' = z /\ UNCHANGED frame /\ fitted' = fitted
    BY <1>2 DEF Compare, Say, HookSays, vars, program, memory
  <2> QED BY <1>1, <2>1, WorldSame DEF frame
<1>3. CASE RunCommand
  <2>1. UNCHANGED frame /\ fitted' = fitted
    BY <1>3 DEF RunCommand, memory
  <2> DEFINE g == IF cmd.slot \in Slots THEN slots[cmd.slot] ELSE NoWnd
  <2>2. CASE UNCHANGED program
    BY <1>1, <2>1, <2>2, WorldSame DEF frame, program
  <2>3. CASE g # NoWnd /\ Exists(g)
    <3>1. g \in H
      BY <1>1, <2>3 DEF SlotsOK
    <3>2. /\ wnd' = [wnd EXCEPT ![g] = Ordered(wnd[g], cmd.what)]
          /\ z' = IF cmd.what \in {"minimise", "close"} THEN z ELSE ToFront(g)
          /\ cmd # None
      BY <1>3, <2>3 DEF RunCommand
    <3>3. PICK h \in H : h = g
      BY <3>1
    <3> HIDE DEF g
    <3>4. Exists(h) /\ wnd' = [wnd EXCEPT ![h] = Ordered(wnd[h], cmd.what)] /\ (z' = z \/ z' = ToFront(h))
      BY <2>3, <3>2, <3>3
    <3>5. cmd.what \in {"activate", "close", "restore", "minimise"}
      BY <1>1, <3>2 DEF PageOK
    <3>6. /\ Fine(h, wnd[h]) /\ Fine(h, Activated(wnd[h])) /\ Fine(h, Activated(Restored(wnd[h])))
          /\ Fine(h, Minimised(wnd[h]))
      BY <1>1, <3>4, DesktopFine
    <3>7. Fine(h, Ordered(wnd[h], cmd.what))
      BY <3>5, <3>6 DEF Ordered
    <3>8. In(h, z') /\ \A o \in H \ {h} : In(o, z) => In(o, z')
      BY <1>1, <3>4, ToFrontHas DEF KnownOK
    <3> DEFINE v == Ordered(wnd[h], cmd.what)
    <3>9. wnd' = [wnd EXCEPT ![h] = v] /\ Fine(h, v)
      BY <3>4, <3>7
    <3> HIDE DEF v
    <3> QED BY <1>1, <2>1, <3>8, <3>9, WorldStep
  <2> QED BY <1>3, <2>2, <2>3 DEF RunCommand
<1>4. CASE ParkPosted
  <2>1. UNCHANGED frame /\ z' = z
    BY <1>4 DEF ParkPosted
  <2>2. CASE UNCHANGED <<wnd, memory>>
    BY <1>1, <2>1, <2>2, WorldSame DEF frame, memory
  <2>3. ASSUME NEW h \in H, NEW wide, Phone, Visible(h), Slotted(h, wide, TRUE, posts \ {h}) PROVE WorldInv'
    <3>1. fitted' = fitted /\ \E v : PutTo(h, v, TRUE)
      BY <1>1, <2>3, SlottedSits, Zenon
    <3>2. PICK v : PutTo(h, v, TRUE)
      BY <3>1
    <3>3. wnd' = [wnd EXCEPT ![h] = v] /\ v.kind = wnd[h].kind
      BY <3>2 DEF PutTo, Likes
    <3>4. Fine(h, v)
      BY <2>3 DEF Fine
    <3>5. In(h, z') /\ \A o \in H \ {h} : In(o, z) => In(o, z')
      BY <1>1, <2>1, <2>3 DEF KnownOK, Visible
    <3> QED BY <1>1, <2>1, <3>1, <3>3, <3>4, <3>5, WorldStep
  <2> QED BY <1>1, <1>4, <2>2, <2>3 DEF ParkPosted
<1> QED BY <1>2, <1>3, <1>4

\* At first, and with every step.
LEMMA PInit == Init => PInv
<1> SUFFICES ASSUME Init PROVE PInv
  OBVIOUS
<1>1. /\ z = habit.open /\ layout = "phone" /\ screen = PhoneScreen /\ fitted = {} /\ mon = Idle /\ calm = FALSE
  BY DEF Init
<1>2. KnownOK
  <2> SUFFICES ASSUME NEW h \in H, Exists(h) PROVE In(h, z)
    BY DEF KnownOK
  <2>1. Contains(habit.open, h)
    <3>1. wnd[h] = Closed \/ Contains(habit.open, h)
      BY DEF Init
    <3> QED BY <3>1 DEF Exists, Closed
  <2> QED BY <1>1, <2>1 DEF In, Contains
<1>3. ScreenOK /\ FittedOK
  BY <1>1 DEF ScreenOK, FittedOK
<1>4. CalmInv
  BY <1>1 DEF CalmInv, NowOK, SeenFit, AppsOK, DialogsOK
<1>5. WorkOK
  BY <1>1 DEF WorkOK, ToCome, Idle
<1> QED BY <1>2, <1>3, <1>4, <1>5, TInitInv DEF PInv, WorldInv

\* Every step, of whomever, keeps it.
LEMMA PNext == PInv /\ [Next]_vars => PInv'
<1> SUFFICES ASSUME PInv, [Next]_vars PROVE WorldInv' /\ WorkOK' /\ CalmInv'
  BY TNextInv DEF PInv
<1>1. CASE Poll \/ Collect
  BY <1>1, BeginsKeep
<1>2. CASE Place
  BY <1>2, PlaceWork, PlaceWorld, PlaceCalm
<1>3. CASE RunCommand \/ Compare \/ Say \/ ParkPosted \/ HookSays \/ UNCHANGED vars
  BY <1>3, MonWork, MonWorld
<1>4. CASE FinishSwitch
  BY <1>4, MonWork, HostWorld
<1>5. CASE Program \/ Ending
  BY <1>5, ProgramWork, ProgramWorld
<1>6. CASE Host
  BY <1>6, ProgramWork, HostWorld
<1> QED BY <1>1, <1>2, <1>3, <1>4, <1>5, <1>6 DEF Next, Pvmon

\* What is in the columns of one slot, and what in those of a later one.
LEMMA ColumnsApart ==
  ASSUME NEW a \in Nat, NEW b \in Nat, a < b, NEW s \in Style, NEW d \in BOOLEAN, d => a + 1 # b
  PROVE  SlotX(a) + ColW(s, d) <= SlotX(b)
<1>1. SlotX(a) = SlotW * (a + 1) /\ SlotX(b) = SlotW * (b + 1)
  BY DEF SlotX
<1>2. SlotW * (a + 1) + SlotW <= SlotW * (b + 1)
  <2>1. a + 1 \in Int /\ b + 1 \in Int /\ a + 1 < b + 1
    OBVIOUS
  <2> QED BY <2>1, TimesLess
<1>3. ASSUME d PROVE SlotW * (a + 1) + 2 * SlotW <= SlotW * (b + 1)
  <2>1. a + 1 \in Int /\ a + 2 \in Int /\ b + 1 \in Int /\ a + 1 < a + 2 /\ a + 2 < b + 1
    BY <1>3
  <2>2. SlotW * (a + 1) + SlotW <= SlotW * (a + 2)
    BY <2>1, TimesLess
  <2>3. SlotW * (a + 2) + SlotW <= SlotW * (b + 1)
    BY <2>1, TimesLess
  <2>4. SlotW * (a + 1) \in Int /\ SlotW * (a + 2) \in Int /\ SlotW * (b + 1) \in Int /\ 2 * SlotW = SlotW + SlotW
    BY <2>1, SlotWIs
  <2> DEFINE x == SlotW * (a + 1)
             y == SlotW * (a + 2)
             n == SlotW * (b + 1)
  <2>5. x \in Int /\ y \in Int /\ n \in Int /\ x + SlotW <= y /\ y + SlotW <= n
    BY <2>2, <2>3, <2>4
  <2> HIDE DEF x, y, n
  <2>6. x + 2 * SlotW <= n
    BY <2>4, <2>5, SlotWIs
  <2> QED BY <2>6 DEF x, n
<1>4. ColW(s, d) = SlotW \/ (ColW(s, d) = 2 * SlotW /\ d)
  BY ColWIs, SlotWIs
<1> QED BY <1>1, <1>2, <1>3, <1>4

\* Two applications in their places are apart.
LEMMA PlacesApart ==
  ASSUME WinsOK, SlotsOK, NEW h \in H, NEW g \in H, SlotsOf(h) # {}, SlotsOf(g) # {}, Exists(h), Exists(g),
         InPlace(h), InPlace(g), AtSlot(h) < AtSlot(g)
  PROVE  Right(wnd[h].rect) <= wnd[g].rect.x
<1> DEFINE a == AtSlot(h)
           b == AtSlot(g)
           d == Double(h, a, slots)
<1>1. a \in SlotsOf(h) /\ b \in SlotsOf(g)
  <2>1. SlotsOf(h) \in SUBSET Nat /\ SlotsOf(g) \in SUBSET Nat
    BY PvWindowsAssumption DEF SlotsOf, Slots
  <2> QED BY <2>1, LowestIn DEF AtSlot
<1>2. /\ a \in Nat /\ b \in Nat /\ slots[a] = h /\ slots[b] = g
      /\ d \in BOOLEAN
  BY <1>1, PvWindowsAssumption DEF SlotsOf, Slots, Double
<1>3. a < b
  OBVIOUS
<1>4. d => a + 1 # b
  BY <1>2, <1>3 DEF Double
<1>5. wnd[h].style \in Style /\ wnd[h].rect \in Rect /\ wnd[g].rect \in Rect
  BY WindowIs, FieldsOf
<1>6. Right(wnd[h].rect) <= SlotX(a) + ColW(wnd[h].style, d) /\ wnd[g].rect.x >= SlotX(b)
  BY DEF InPlace, Within
<1> HIDE DEF a, b, d
<1>7. SlotX(a) + ColW(wnd[h].style, d) <= SlotX(b)
  BY <1>2, <1>3, <1>4, <1>5, ColumnsApart
<1>8. /\ SlotX(a) \in Int /\ SlotX(b) \in Int /\ ColW(wnd[h].style, d) \in Int
      /\ Right(wnd[h].rect) \in Int /\ wnd[g].rect.x \in Int
  BY <1>2, <1>5, SlotXIs, ColWIs, SlotWIs, RectFields DEF Right
<1> QED BY <1>6, <1>7, <1>8

\* What the windows' places are by the time that PVMON has gone over them all.
LEMMA InvPlaced == PInv => Placed
<1> DEFINE apps == {h \in H : Shown(h) /\ IsApp(h) /\ SlotsOf(h) # {}}
<1> SUFFICES ASSUME PInv, Settled
             PROVE  /\ Phone =>
                       /\ \A h \in apps : InPlace(h)
                       /\ \A h, g \in apps : h # g => Apart(wnd[h].rect, wnd[g].rect)
                       /\ \A h \in H : Shown(h) /\ wnd[h].owner \in apps /\ wnd[wnd[h].owner].rect.w > 0 /\ wnd[h].rect.w <= SlotW
                            => Within(wnd[h].rect, wnd[h].owner)
                    /\ ~Phone => \A h \in H : Shown(h) /\ wnd[h].kind # "menu" /\ ~OwnerIconic(h) /\ ~wnd[h].own
                                                => OnTheScreen(wnd[h])
  BY DEF Placed
<1>1. /\ calm /\ switching = 0 /\ \A do, h : ~ToDo(do, h)
      /\ WinsOK /\ SlotsOK /\ FittedOK /\ SeenFit /\ AppsOK /\ DialogsOK
  BY DEF Settled, ToDo, ToCome, PInv, TInv, Typed, IInv, WorldInv, CalmInv
<1>2. ASSUME Phone, NEW h \in apps PROVE InPlace(h)
  BY <1>1, <1>2 DEF AppsOK, Column
<1>3. ASSUME Phone, NEW h \in apps, NEW g \in apps, h # g PROVE Apart(wnd[h].rect, wnd[g].rect)
  <2>1. InPlace(h) /\ InPlace(g) /\ Exists(h) /\ Exists(g)
    BY <1>2, <1>3 DEF Shown, Visible
  <2>2. AtSlot(h) \in SlotsOf(h) /\ AtSlot(g) \in SlotsOf(g)
    <3>1. SlotsOf(h) \in SUBSET Nat /\ SlotsOf(g) \in SUBSET Nat
      BY PvWindowsAssumption DEF SlotsOf, Slots
    <3> QED BY <1>3, <3>1, LowestIn DEF AtSlot
  <2>3. AtSlot(h) \in Nat /\ AtSlot(g) \in Nat /\ AtSlot(h) # AtSlot(g)
    BY <1>3, <2>2, PvWindowsAssumption DEF SlotsOf, Slots
  <2>4. AtSlot(h) < AtSlot(g) \/ AtSlot(g) < AtSlot(h)
    BY <2>3
  <2> QED BY <1>1, <1>3, <2>1, <2>4, PlacesApart DEF Apart
<1>4. ASSUME Phone, NEW h \in H, Shown(h), wnd[h].owner \in apps, wnd[wnd[h].owner].rect.w > 0, wnd[h].rect.w <= SlotW
      PROVE  Within(wnd[h].rect, wnd[h].owner)
  BY <1>1, <1>4 DEF DialogsOK, Under
<1>5. ASSUME ~Phone, NEW h \in H, Shown(h), wnd[h].kind # "menu", ~OwnerIconic(h), ~wnd[h].own
      PROVE  OnTheScreen(wnd[h])
  <2>1. h \in fitted /\ Exists(h)
    BY <1>1, <1>5 DEF SeenFit, Shown, Visible
  <2>2. Loose(wnd[h]) \/ Fit(wnd[h])
    BY <1>1, <1>5, <2>1 DEF FittedOK
  <2> QED BY <1>5, <2>2 DEF Loose, Fit, OnTheScreen, Shown, Iconic
<1> HIDE DEF apps
<1> QED BY <1>2, <1>3, <1>4, <1>5

\* Placed: what PVMON has gone over is in its place as long as nothing happens: an
\* application in its slot's columns, no two in the same, a dialog where its owner
\* is (publish_layout, park and the owned pass, pvmon.c:1646-1800; PVHOOK's clamp,
\* pvhook.c:907), on the desktop on the screen (desktop_fit, fit_windows).
THEOREM WindowsPlaced == Spec => []Placed
<1> QED BY PInit, PNext, InvPlaced, PTL DEF Spec
====
