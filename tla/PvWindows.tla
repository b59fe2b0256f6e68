----------------------------- MODULE PvWindows -----------------------------
(***************************************************************************)
(* The windows of Windows 3.11 and the three that look after them: PVHOOK  *)
(* (guest/pvhook/pvhook.c), which is called inside the programs as their   *)
(* windows come, move and go; PVMON (guest/pvmon/pvmon.c), which goes over *)
(* all windows from a timer, gives each application a slot and parks it    *)
(* there; and the page (web/app.js), which shows the last list of layers   *)
(* that either of them has finished, and commands a window by its slot.    *)
(*                                                                         *)
(* Windows is cooperative, but what PVMON does to another program's window *)
(* (SetWindowPos, ShowWindow, GetWindowText) is a message to that program: *)
(* PVMON's pass is a step for every window it places and for every line it *)
(* sends, and programs run between them.  So does PVHOOK's list, a step    *)
(* for every line.                                                         *)
(*                                                                         *)
(* A slot is a column of the screen; in the phone's layout the shell has   *)
(* the first (its own window and the icons' row are left out), on the      *)
(* desktop there are no columns and PVHOOK does not act.                   *)
(***************************************************************************)
EXTENDS PvGeometry, FiniteSets, SequencesExt

CONSTANTS H,           \* window handles
          Shell,       \* Program Manager, as an owner
          NoWnd,       \* NULL
          MaxSlots,    \* MAX_SLOTS
          ShellW,      \* the width a phone shows
          PhoneScreen, \* the adapter's screen in the phone's layout
          Desktops,    \* bound: the screens a desktop may have
          ShellHeight, \* the height it shows at first ([PVMon] ShellHeight)
          Heights,     \* bound: the heights it may show
          SettlePolls, \* SETTLE_POLLS, how long a switch waits for the screen
          Junk,        \* bound: what a rectangle that nobody has filled in may hold
          Habits       \* bounds: what the programs and the user do --
                       \* as[h]: the windows that handle may be, open: those
                       \* there are at the start, does: what happens, events:
                       \* how often, sizes, spots: where a window may be
                       \* brought, sees: whether PVHOOK sees a window's
                       \* position before it changes

ASSUME PvWindowsAssumption ==
  /\ {MaxSlots, SettlePolls} \subseteq Nat \ {0} /\ ShellW \in 1 .. SlotW
  /\ {PhoneScreen} \cup Desktops \subseteq [w : Nat, h : Nat]
  /\ PhoneScreen.w >= SlotW * (MaxSlots + 1)
  /\ ShellHeight \in Heights
  /\ \A n \in Heights : n \in 1 .. PhoneScreen.h
  /\ Shell \notin H /\ NoWnd \notin H \cup {Shell}
  /\ Junk \subseteq Rect /\ Junk # {}
  /\ \A b \in Habits :
       /\ \A h \in H : b.as[h] \subseteq
            [kind : {"app", "menu"}, owner : {NoWnd}, style : Style, rect : Rect]
              \cup [kind : {"dialog"}, owner : H \cup {Shell}, style : Style, rect : Rect]
       /\ b.open \in Seq(H) /\ b.events \in Nat
       /\ b.sizes \subseteq [w : Nat, h : Nat] /\ b.spots \subseteq [x : Int, y : Int]
       /\ b.taps \subseteq {"activate", "close", "restore", "minimise"}

Slots   == 0 .. MaxSlots - 1
Nowhere == [x |-> 0, y |-> 0, w |-> 0, h |-> 0]
None    == [is |-> "none"]
\* kind: "app", "dialog" (of another window) or "menu".
Closed  == [kind |-> "closed", owner |-> NoWnd, style |-> None, vis |-> FALSE, mode |-> "normal",
            rect |-> Nowhere, normal |-> Nowhere, asked |-> Nowhere, own |-> FALSE]

VARIABLES
  habit, left,     \* what happens here, and how much more of it
  wnd,             \* Windows: the windows
  z,               \* ... front to back
  dead,            \* PVHOOK: windows being destroyed (g_dead)
  layout,          \* "phone" or "desktop" (g_desktop)
  screen,          \* PVMON: the screen (g_realW, g_realH)
  shellH,          \* the height the phone shows (g_shellH)
  switching,       \* PVMON: polls since the layout changed, whose screen is awaited
                   \* (g_modeSwitch, g_switchPolls); 0 if it is there
  hookReal,        \* PVHOOK: the screen's height as it was told last (g_realH)
  hook,            \* PVHOOK: the list it is sending, if any
  dirty,           \* PVHOOK: it has sent a list of its own (g_dirty)
  posts,           \* PVMON's queue: windows sized past the frame (WM_USER + 1)
  slots,           \* PVMON: g_slotWnd
  sized, owned,    \* PVMON: windows seen before (g_sized, g_owned)
  fitted,          \* PVMON: ... on the desktop (g_fitSeen)
  mon,             \* PVMON: where its pass is
  lastPub,         \* PVMON: the layout it published last (g_lastPub)
  cmd,             \* the page's command on its way to PVMON
  pending,         \* the page: the list being received (pendingLayers)
  layers,          \* the page: the list it shows
  calm,            \* nothing has happened to a window since PVMON's pass began
  torn             \* ... something happened while the list the page has was sent

program == <<wnd, z, dead>>
frame   == <<layout, screen, shellH, switching, hookReal>>
memory  == <<slots, sized, owned, fitted>>
page    == <<cmd, pending, layers>>
vars    == <<habit, left, program, frame, hook, dirty, posts, memory, mon, lastPub, page, calm, torn>>

Phone == layout = "phone"
Exists(h)   == wnd[h].kind # "closed"
IsApp(h)    == wnd[h].kind = "app"
Iconic(h)   == wnd[h].mode = "iconic"
Visible(h)  == Exists(h) /\ wnd[h].vis
OwnedBy(h)  == {o \in H : Exists(o) /\ wnd[o].owner = h}
HookFrame   == [w |-> ShellW, h |-> shellH, real |-> hookReal]
MonFrame    == [w |-> ShellW, h |-> shellH, real |-> screen.h]
ShellRect   == [x |-> 0, y |-> 0, w |-> ShellW, h |-> shellH]
WholeScreen == [x |-> 0, y |-> 0, w |-> screen.w, h |-> screen.h]

\* The rectangle of a window that may be the shell's; an icon stands for the
\* part of the shell's column that it is in.
RectOf(h) == IF h = Shell \/ Iconic(h) THEN ShellRect ELSE wnd[h].rect

\* A window at another place: its normal rectangle, unless it is zoomed.
At(w, r) == [w EXCEPT !.rect = r, !.normal = IF w.mode = "normal" THEN r ELSE @]

\* What of a sequence is in S (SelectSeq, of which the prover knows nothing).
Those(s, S) ==
  LET F[n \in 0 .. Len(s)] == IF n = 0 THEN <<>> ELSE IF s[n] \in S THEN Append(F[n - 1], s[n]) ELSE F[n - 1]
  IN  F[Len(s)]
ToFront(h) == LET mine == {o \in H : wnd[o].owner = h} \ {h}
              IN  Those(z, mine) \o <<h>> \o Those(z, H \ (mine \cup {h}))

-----------------------------------------------------------------------------
(* What PVHOOK does to a window's position.                                *)

\* WM_WINDOWPOSCHANGING: an owned window stays in its owner's column, an
\* application within the frame.
HookKeeps(w, r) ==
  IF ~Phone \/ ~habit.sees \/ r = w.rect \/ w.kind = "menu" \/ w.mode = "iconic" THEN r
  ELSE IF w.owner # NoWnd
       THEN IF w.owner # Shell /\ Iconic(w.owner) THEN r ELSE HookKept(r, RectOf(w.owner), HookFrame)
  ELSE IF r.w # w.rect.w \/ r.h # w.rect.h THEN Fitted(r, w.style, HookFrame) ELSE r

\* WM_WINDOWPOSCHANGED: PVMON is told of one sized past the frame.
Oversized(w, r) == /\ Phone /\ w.owner = NoWnd
                   /\ r.w # w.rect.w \/ r.h # w.rect.h
                   /\ r.w > ShellW \/ r.h > shellH

\* SetWindowPos, by the window's program or by PVMON; what is posted for it.
Moved(w, r) == At(w, HookKeeps(w, r))
Posted(queue, h, now) == IF Oversized(wnd[h], now.rect) THEN queue \cup {h} ELSE queue

-----------------------------------------------------------------------------
(* The page's side, and the lists.                                         *)

\* pending: whether a list is being received, and its layers so far.
NoList == [on |-> FALSE, list |-> <<>>]
PVB    == [on |-> TRUE, list |-> <<>>]
Line(tag, h, slot, r, sure) == [tag |-> tag, wnd |-> h, slot |-> slot, rect |-> r, sure |-> sure]
\* A line, if there is one, and PVE after the last: nothing comes between these.
Heard(lines) == IF pending.on THEN pending.list \o lines ELSE <<>>
Hears(lines, last) == /\ layers'  = IF last /\ pending.on THEN Heard(lines) ELSE layers
                      /\ pending' = IF last THEN NoList ELSE [pending EXCEPT !.list = Heard(lines)]
                      /\ UNCHANGED cmd

\* A layer is sure when PVMON said so of a window that has been there since.
\* One that is hidden or destroyed may be given the slot to another; what is
\* received is emptied if PVHOOK begins a list (sends).
Doubted(h, list) == [k \in DOMAIN list |-> [list[k] EXCEPT !.sure = @ /\ list[k].wnd # h]]
Doubts(h, sends) ==
  /\ layers' = Doubted(h, layers)
  /\ pending' = IF sends /\ Phone THEN PVB ELSE [pending EXCEPT !.list = Doubted(h, @)]
  /\ cmd' = IF cmd # None /\ cmd.wnd = h THEN [cmd EXCEPT !.sure = FALSE] ELSE cmd

\* What a window is in a list: 'A'pplication, 'O'wned, 'T'ransient, 'I'conic.
Kind(h) == IF wnd[h].kind = "menu" THEN "T"
           ELSE IF Iconic(h) THEN "I"
           ELSE IF wnd[h].owner = Shell \/ (wnd[h].owner \in H /\ Visible(wnd[h].owner)) THEN "O" ELSE "A"
OwnerIconic(h) == wnd[h].owner \in H /\ Iconic(wnd[h].owner)

-----------------------------------------------------------------------------
(* PVHOOK's own list (hook_publish), and when it sends one: a dialog is    *)
(* activated or destroyed, a menu shown or hidden.                         *)

Silent == [on |-> FALSE, skip |-> NoWnd, force |-> NoWnd, at |-> NoWnd]
\* Once it has sent one, PVMON is to send another; in the mutant it is told so first.
DirtiedFirst(was, ended) == was \/ ~ended
Dirtied(was, ended)      == was \/ ended

Publishes(yes, skip, force) ==
  IF yes /\ Phone
  THEN /\ ~hook.on
       /\ hook' = [on |-> TRUE, skip |-> skip, force |-> force, at |-> NoWnd]
       /\ dirty' = Dirtied(dirty, FALSE)
  ELSE UNCHANGED <<hook, dirty>>
\* ... and PVB, which empties what the page has received.
Begun(yes) == IF yes /\ Phone THEN PVB ELSE pending

HookSees(h) == /\ h # hook.skip
               /\ wnd[h].vis \/ h = hook.force
               /\ wnd[h].kind = "menu" \/ ~OwnerIconic(h)
\* Those it has still to come to, in front of the one it described last: none if
\* that one has gone.
Ahead == LET before == IF hook.at = NoWnd THEN z ELSE SubSeq(z, 1, SelectInSeq(z, LAMBDA h : h = hook.at) - 1)
         IN  Those(before, {h \in H : HookSees(h)})

\* The owner of an owned window's owner, and so on.
Root(h) == LET o == wnd[h].owner
           IN  IF o \in H /\ wnd[o].owner # NoWnd THEN wnd[o].owner ELSE o
\* The slot is the column's: the window may not have been parked there.
HookLine(h) ==
  LET x == wnd[h].rect.x
  IN  CASE Kind(h) = "T" -> Line("T", h, -1, wnd[h].rect, FALSE)
        [] Kind(h) = "I" -> Line("I", h, -1, Nowhere, FALSE)
        [] Kind(h) = "O" -> Line("O", h, ColSlot(RectOf(Root(h)).x), wnd[h].rect, FALSE)
        [] OTHER         -> Line(IF x >= SlotW THEN "W" ELSE "X", h, ColSlot(x), wnd[h].rect, FALSE)

HookSays ==
  /\ hook.on
  /\ \E ahead \in {Ahead} :
       LET last == Len(ahead) <= 1
       IN  /\ Hears(IF ahead = <<>> THEN <<>> ELSE <<HookLine(Last(ahead))>>, last)
           /\ hook' = IF last THEN Silent ELSE [hook EXCEPT !.at = Last(ahead)]
           /\ dirty' = Dirtied(dirty, last)
  /\ UNCHANGED <<habit, left, program, frame, posts, memory, mon, lastPub, calm, torn>>

-----------------------------------------------------------------------------
(* PVMON's slots.                                                          *)

\* In the mutant an icon's slot is free, too.
SlotFreeIcon(i) == slots[i] = NoWnd \/ ~Visible(slots[i]) \/ slots[i] \in dead \/ Iconic(slots[i])
SlotFree(i)     == slots[i] = NoWnd \/ ~Visible(slots[i]) \/ slots[i] \in dead

Lowest(S) == CHOOSE i \in S : \A j \in S : i <= j
\* The slot of a window, the one it has or the first that is free, two for a wide
\* fixed layout; and the slots then.  Of a window that is no more GetWindowRect
\* says nothing: wide is whatever was in memory.
Given(h, wide, none) ==
  LET has  == {i \in Slots : slots[i] = h}
      free == {i \in Slots : SlotFree(i)}
      two  == {i \in free : i + 1 \in free}
  IN CASE has # {}          -> [slot |-> Lowest(has), slots |-> slots]
       [] has = {} /\ wide /\ two # {} ->
            [slot |-> Lowest(two), slots |-> [slots EXCEPT ![Lowest(two)] = h, ![Lowest(two) + 1] = h]]
       [] has = {} /\ ~(wide /\ two # {}) /\ free # {} ->
            [slot |-> Lowest(free), slots |-> [slots EXCEPT ![Lowest(free)] = h]]
       [] OTHER             -> [slot |-> none, slots |-> slots]
\* No slot is -1; in the mutant it is the one past the last.
SlotOfPast(h, wide) == Given(h, wide, MaxSlots)
SlotOf(h, wide)     == Given(h, wide, -1)
Wide(h) == IF Exists(h) THEN {wnd[h].style.fixed /\ RectOf(h).w > SlotW} ELSE BOOLEAN
Double(h, slot, s) == slot + 1 \in Slots /\ s[slot + 1] = h
\* owner_slot: that of the owner, or of its owner and so on.
OwnerSlot(o) ==
  LET of(h) == {i \in Slots : slots[i] = h}
  IN  IF of(o) # {} THEN Lowest(of(o))
      ELSE IF o \in H /\ of(wnd[o].owner) # {} /\ wnd[o].owner # NoWnd THEN Lowest(of(wnd[o].owner)) ELSE -1

\* A window seen for the first time takes the place of one that has gone.
Noted(list, h) ==
  LET gone == {k \in DOMAIN list : ~Exists(list[k])}
  IN  IF Contains(list, h) THEN list
      ELSE IF gone = {} THEN Append(list, h) ELSE [list EXCEPT ![Lowest(gone)] = h]

-----------------------------------------------------------------------------
(* PVMON's pass (publish_layout).                                          *)

Idle == [pc |-> "idle", list |-> <<>>, todo |-> <<>>]
Todo(do, list, which) == LET items == Those(list, which)
                         IN  [k \in DOMAIN items |-> [do |-> do, item |-> items[k]]]

\* g_lastPub: what was published last, if that is known to be what the page has.
Forgotten    == [said |-> FALSE, of |-> <<>>]
Published(p) == [said |-> TRUE, of |-> p]

\* collect_apps: the windows, front to back, what they are and whose.
Enumerated == Those(z, {h \in H : Visible(h) /\ h \notin dead /\ (wnd[h].kind = "menu" \/ ~OwnerIconic(h))})
Items(list) == [k \in DOMAIN list |-> [wnd |-> list[k], kind |-> Kind(list[k]), owner |-> wnd[list[k]].owner]]
Collected   == Items(Enumerated)
\* On the desktop the windows are fitted, once; then those with a slot get it and
\* are parked in it, then come the owned ones.
Begins ==
  /\ \E list \in {Collected} :
       LET app   == {i \in Range(list) : i.kind \in {"A", "I"}}
           own   == {i \in Range(list) : i.kind = "O"}
           fresh == {i \in Range(list) : i.kind \in {"A", "O"} /\ i.wnd \notin fitted}
       IN  mon' = [pc |-> "place", list |-> list,
                   todo |-> IF Phone THEN Todo("slot", list, app) \o Todo("own", list, own)
                            ELSE Todo("fit", list, fresh) \o Todo("slot", list, app)]
  /\ calm' = TRUE

\* The poll.  A list of PVHOOK's is to be followed by one of PVMON's, whatever it
\* said last.  What has been posted comes before a timer.
Polls == mon.pc = "idle" /\ posts = {} /\ switching < SettlePolls /\ dirty' = FALSE
Poll == /\ Polls /\ cmd = None /\ Begins
        /\ lastPub' = IF dirty THEN Forgotten ELSE lastPub
        /\ switching' = IF switching > 0 THEN switching + 1 ELSE 0
        /\ UNCHANGED <<habit, left, program, layout, screen, shellH, hookReal, hook, posts, memory, page, torn>>
\* ... after a command, which is carried out first.
Collect == /\ mon.pc = "collect" /\ Begins
           /\ UNCHANGED <<habit, left, program, frame, hook, dirty, posts, memory, lastPub, page, torn>>
Obeys == Polls /\ mon' = [mon EXCEPT !.pc = "collect"]

\* park, in a slot (s: the slots then), after apply_initial_size the first time.
Parks(w, h, slot, s, first) ==
  LET at   == IF first THEN Moved(w, Initial(w.rect, w.style, slot, MonFrame)) ELSE w
      two  == Double(h, slot, s)
  IN  IF at.mode # "zoomed" THEN Moved(at, Parked(at.rect, w.style, slot, two, MonFrame))
      ELSE IF MayStayZoomed(at.rect, w.style, slot, two, MonFrame) THEN at
      ELSE Moved([at EXCEPT !.mode = "normal", !.rect = at.normal], Unzoomed(at.normal, w.style, slot, two, MonFrame))
\* Windows does nothing to a window that has gone; where an icon goes is left out.
Slotted(h, wide, park, queue) ==
  LET a     == SlotOf(h, wide)
      parks == park /\ a.slot >= 0
      now   == IF parks /\ Exists(h) /\ ~Iconic(h)
               THEN Parks(wnd[h], h, a.slot, a.slots, ~Contains(sized, h)) ELSE wnd[h]
  IN  /\ slots' = a.slots
      /\ sized' = IF parks THEN Noted(sized, h) ELSE sized
      /\ wnd'   = [wnd EXCEPT ![h] = now]
      /\ posts' = Posted(queue, h, now)
      /\ UNCHANGED <<owned, fitted>>

\* An owned window, in the column of the owner it had when it was collected.  Of
\* one that is no more GetWindowRect says nothing.
OwnedPlace(r, slot, o, fresh) == IF slot < 0 THEN OwnedByShell(r, o, MonFrame) ELSE OwnedParked(r, o, slot, fresh, MonFrame)
PlaceOwned(h, owner) ==
  /\ owned' = Noted(owned, h)
  /\ IF Exists(h) /\ ~Iconic(h)
     THEN \E o \in IF owner \in H /\ ~Exists(owner) THEN Junk ELSE {RectOf(owner)} :
            wnd' = [wnd EXCEPT ![h] = Moved(@, OwnedPlace(@.rect, OwnerSlot(owner), o, ~Contains(owned, h)))]
     ELSE UNCHANGED wnd
  /\ UNCHANGED <<posts, slots, sized, fitted>>

\* desktop_fit: not of one that is hidden by now, which is not looked at again.
OnTheScreen(w) == OnScreen(w.rect, screen.w, screen.h)
FitOnce(h) ==
  /\ fitted' = fitted \cup {h}
  /\ wnd' = IF ~Visible(h) \/ h \in dead \/ Iconic(h) THEN [wnd EXCEPT ![h].own = Exists(h)]
            ELSE IF OnTheScreen(wnd[h]) THEN wnd
            ELSE [wnd EXCEPT ![h] = At(@, IF @.mode = "zoomed" THEN WholeScreen
                                          ELSE DesktopFit(@.rect, screen.w, screen.h))]
  /\ UNCHANGED <<posts, slots, sized, owned>>

Place ==
  /\ mon.pc = "place" /\ mon.todo # <<>>
  /\ LET t == Head(mon.todo) IN
       \E h \in H :
         /\ h = t.item.wnd
         /\ \/ t.do = "slot" /\ \E wide \in Wide(h) : Slotted(h, wide, t.item.kind = "A" /\ Phone, posts)
            \/ t.do = "own" /\ PlaceOwned(h, t.item.owner)
            \/ t.do = "fit" /\ FitOnce(h)
  /\ mon' = [mon EXCEPT !.todo = Tail(@)]
  /\ UNCHANGED <<habit, left, z, dead, frame, hook, dirty, lastPub, page, calm, torn>>

\* The layout is published if it is not what was published last.
Fingerprint == LET i == mon.list
               IN  [k \in DOMAIN i |-> [wnd |-> i[k].wnd, kind |-> i[k].kind, rect |-> wnd[i[k].wnd].rect]]
Compare ==
  /\ mon.pc = "place" /\ mon.todo = <<>>
  /\ IF lastPub = Published(Fingerprint)
     THEN mon' = Idle /\ UNCHANGED <<lastPub, pending>>
     ELSE /\ lastPub' = Published(Fingerprint) /\ pending' = PVB
          /\ mon' = [pc |-> "say", list |-> <<>>, todo |-> Reverse(mon.list)]
  /\ UNCHANGED <<habit, left, program, frame, hook, dirty, posts, memory, cmd, layers, calm, torn>>

\* A line says what is so when it is sent; it may give a slot, too.
MonLine(i, slot) ==
  LET h == i.wnd
      there == Visible(h) /\ h \notin dead
  IN  CASE i.kind = "A" -> Line(IF slot >= 0 THEN "W" ELSE "X", h, slot, wnd[h].rect, slot >= 0 /\ there)
        [] i.kind = "I" -> Line("I", h, slot, Nowhere, slot >= 0 /\ there)
        [] i.kind = "O" -> Line("O", h, OwnerSlot(i.owner), wnd[h].rect, FALSE)
        [] i.kind = "T" -> Line("T", h, -1, wnd[h].rect, FALSE)
\* The list may not be the one that was compared.
AsCompared(list) == LET said == Reverse(list) IN
  [k \in DOMAIN said |-> <<said[k].wnd, said[k].rect>>]
    = [k \in DOMAIN lastPub.of |-> <<lastPub.of[k].wnd, lastPub.of[k].rect>>]
Says(lines) ==
  LET last == Len(mon.todo) <= 1
  IN  /\ Hears(lines, last)
      /\ mon' = IF last THEN Idle ELSE [mon EXCEPT !.todo = Tail(@)]
      /\ torn' = IF last THEN pending.on /\ ~AsCompared(Heard(lines)) ELSE torn
Say ==
  /\ mon.pc = "say"
  /\ \/ mon.todo = <<>> /\ Says(<<>>) /\ UNCHANGED slots
     \/ /\ mon.todo # <<>>
        /\ LET i == Head(mon.todo) IN
             \E h \in H :
               /\ h = i.wnd
               /\ \/ /\ i.kind \in {"A", "I"}
                     /\ \E wide \in Wide(h) : LET a == SlotOf(h, wide) IN slots' = a.slots /\ Says(<<MonLine(i, a.slot)>>)
                  \/ i.kind \in {"O", "T"} /\ Says(<<MonLine(i, -1)>>) /\ UNCHANGED slots
  /\ UNCHANGED <<habit, left, program, frame, hook, dirty, posts, sized, owned, fitted, lastPub, calm>>

\* WM_USER + 1: a window has been sized past the frame.  It may be a menu.
ParkPosted ==
  /\ mon.pc = "idle"
  /\ \E h \in posts :
       IF Phone /\ Visible(h) /\ ~Iconic(h)
       THEN \E wide \in Wide(h) :
              /\ Slotted(h, wide, TRUE, posts \ {h})
              /\ lastPub' = IF SlotOf(h, wide).slot >= 0 THEN Forgotten ELSE lastPub
       ELSE posts' = posts \ {h} /\ UNCHANGED <<wnd, memory, lastPub>>
  /\ calm' = (calm /\ wnd' = wnd)
  /\ UNCHANGED <<habit, left, z, dead, frame, hook, dirty, mon, page, torn>>

-----------------------------------------------------------------------------
(* What programs do with their windows, and users in Windows.              *)

Does(what) == what \in habit.does /\ left > 0 /\ left' = left - 1 /\ UNCHANGED habit
\* A window is now so: PVMON's pass, if there is one, may have come by before.
Now(h, w) == /\ wnd' = [wnd EXCEPT ![h] = w]
             /\ posts' = Posted(posts, h, w)
             /\ calm' = FALSE
Others == UNCHANGED <<frame, memory, mon, lastPub, torn>>
Quiet  == UNCHANGED <<hook, dirty>>

\* Where it is first: PVHOOK has it born next to its owner, or as an application.
Birth(d) == IF ~Phone \/ d.kind = "menu" THEN d.rect
            ELSE IF d.owner # NoWnd THEN HookPlaced(RectOf(d.owner), d.rect.w, d.rect.h, HookFrame)
            ELSE Born(d.rect, d.style, HookFrame)
\* PVMON may take it for the window that had the handle before.
InPass(h)      == mon.pc = "place" /\ \E k \in DOMAIN mon.todo : mon.todo[k].item.wnd = h
Mistaken(h, d) == h \in fitted \/ (d.kind = "menu" /\ (h \in posts \/ InPass(h)))
Opened(h, d, r) == [kind |-> d.kind, owner |-> d.owner, style |-> d.style, vis |-> FALSE, mode |-> "normal",
                    rect |-> r, normal |-> r, asked |-> d.rect, own |-> Mistaken(h, d)]
Create(h) ==
  /\ Does("create") /\ ~Exists(h)
  /\ \E d \in habit.as[h] :
       /\ d.owner \in H => Visible(d.owner) /\ d.owner \notin dead
       /\ wnd' = [wnd EXCEPT ![h] = Opened(h, d, Birth(d))]
  /\ z' = <<h>> \o z /\ dead' = dead \ {h}
  /\ calm' = FALSE
  /\ UNCHANGED <<posts, page>> /\ Others /\ Quiet

\* A menu that comes or goes is published at once.
Show(h) ==
  /\ Does("show") /\ Exists(h) /\ h \notin dead /\ ~wnd[h].vis
  /\ Now(h, [wnd[h] EXCEPT !.vis = TRUE])
  /\ Publishes(wnd[h].kind = "menu", NoWnd, NoWnd)
  /\ pending' = Begun(wnd[h].kind = "menu")
  /\ UNCHANGED <<z, dead, cmd, layers>> /\ Others
Hide(h) ==
  /\ Does("hide") /\ Visible(h) /\ h \notin dead
  /\ Now(h, [wnd[h] EXCEPT !.vis = FALSE])
  /\ Publishes(wnd[h].kind = "menu", NoWnd, NoWnd)
  /\ Doubts(h, wnd[h].kind = "menu")
  /\ UNCHANGED <<z, dead>> /\ Others

\* HCBT_ACTIVATE: a fixed layout goes into one column, another into the frame; a
\* dialog, which need not be visible yet, is published.
Activated(w) ==
  IF Phone /\ w.kind = "app" /\ w.mode = "normal"
  THEN Moved(w, IF w.style.fixed THEN InOneColumn(w.rect) ELSE Fitted(w.rect, w.style, HookFrame)) ELSE w
Activate(h) ==
  /\ Does("activate") /\ Exists(h) /\ h \notin dead /\ wnd[h].kind # "menu"
  /\ Now(h, Activated(wnd[h]))
  /\ z' = ToFront(h)
  /\ Publishes(wnd[h].kind = "dialog", NoWnd, h)
  /\ pending' = Begun(wnd[h].kind = "dialog")
  /\ UNCHANGED <<dead, cmd, layers>> /\ Others

\* Another size, or another place.
Resize(h) ==
  /\ Does("resize") /\ Exists(h) /\ h \notin dead /\ wnd[h].mode = "normal"
  /\ \E n \in habit.sizes :
       LET r == [wnd[h].rect EXCEPT !.w = n.w, !.h = n.h]
       IN  Now(h, [Moved(wnd[h], r) EXCEPT !.asked = r, !.own = TRUE])
  /\ UNCHANGED <<z, dead, page>> /\ Others /\ Quiet
Move(h) ==
  /\ Does("move") /\ Exists(h) /\ h \notin dead /\ wnd[h].mode = "normal"
  /\ \E p \in habit.spots :
       Now(h, [Moved(wnd[h], [wnd[h].rect EXCEPT !.x = p.x, !.y = p.y]) EXCEPT !.own = TRUE])
  /\ UNCHANGED <<z, dead, page>> /\ Others /\ Quiet

Maximised(w) == [w EXCEPT !.mode = "zoomed",
                          !.rect = IF Phone THEN Zoomed(w.normal, w.style, HookFrame) ELSE WholeScreen]
Restored(w)  == IF w.mode = "normal" THEN [w EXCEPT !.vis = TRUE]
                ELSE Moved([w EXCEPT !.mode = "normal", !.vis = TRUE, !.own = TRUE], w.normal)
Minimised(w) == [w EXCEPT !.mode = "iconic", !.vis = TRUE, !.rect = Nowhere]
ShowAs(h, what, w) ==
  /\ Does(what) /\ Visible(h) /\ h \notin dead /\ IsApp(h)
  /\ Now(h, w)
  /\ UNCHANGED <<z, dead, page>> /\ Others /\ Quiet
Maximise(h) == wnd[h].mode = "normal" /\ ShowAs(h, "maximise", Maximised(wnd[h]))
Restore(h)  == wnd[h].mode # "normal" /\ ShowAs(h, "restore", Restored(wnd[h]))
Minimise(h) == wnd[h].mode # "iconic" /\ ShowAs(h, "minimise", Minimised(wnd[h]))

\* DestroyWindow: HCBT_DESTROYWND, a list without the dialog; what it owns goes
\* first, and then it is no window any more.
Dies(h) ==
  /\ Exists(h) /\ h \notin dead
  /\ dead' = dead \cup {h} /\ calm' = FALSE
  /\ Publishes(wnd[h].kind = "dialog", h, NoWnd)
  /\ Doubts(h, wnd[h].kind = "dialog")
  /\ UNCHANGED <<wnd, z, posts>> /\ Others
Destroy(h)      == Does("destroy") /\ Dies(h)
DestroyOwned(h) == wnd[h].owner \in dead /\ Dies(h) /\ UNCHANGED <<habit, left>>
Gone(h) ==
  /\ h \in dead /\ OwnedBy(h) = {}
  /\ wnd' = [wnd EXCEPT ![h] = Closed]
  /\ z' = Those(z, H \ {h}) /\ dead' = dead \ {h}
  /\ calm' = FALSE
  /\ UNCHANGED <<habit, left, posts, page>> /\ Others /\ Quiet

-----------------------------------------------------------------------------
(* What the page asks of PVMON, and the screen.                            *)

\* A tap on a layer or a button of the page: a window, by its slot.
Tap ==
  /\ Does("tap") /\ cmd = None
  /\ \E k \in DOMAIN layers, what \in habit.taps :
       /\ layers[k].slot >= 0 /\ layers[k].tag \in {"W", "I"}
       /\ cmd' = [what |-> what, slot |-> layers[k].slot, wnd |-> layers[k].wnd, sure |-> layers[k].sure]
  /\ UNCHANGED <<program, posts, pending, layers, calm>> /\ Others /\ Quiet

\* run_host_command, in a poll; WM_CLOSE is for the program to see to.
Ordered(w, what) == CASE what = "activate" -> IF w.mode = "iconic" THEN Activated(Restored(w)) ELSE Activated(w)
                      [] what = "close"    -> w
                      [] what = "restore"  -> Activated(Restored(w))
                      [] what = "minimise" -> Minimised(w)
RunCommand ==
  /\ Obeys /\ cmd # None
  /\ LET h == IF cmd.slot \in Slots THEN slots[cmd.slot] ELSE NoWnd IN
       IF h = NoWnd \/ (h # NoWnd /\ ~Exists(h))
       THEN lastPub' = (IF dirty THEN Forgotten ELSE lastPub) /\ UNCHANGED <<program, posts, calm>>
       ELSE /\ wnd' = [wnd EXCEPT ![h] = Ordered(@, cmd.what)]
            /\ posts' = Posted(posts, h, Ordered(wnd[h], cmd.what))
            /\ z' = IF cmd.what \in {"minimise", "close"} THEN z ELSE ToFront(h)
            /\ lastPub' = Forgotten /\ calm' = FALSE /\ UNCHANGED dead
  /\ cmd' = None
  /\ UNCHANGED <<habit, left, frame, hook, memory, pending, layers, torn>>

\* CMD_SHELLSIZE and CMD_DESKTOP: PVHOOK is told what PVMON takes the screen for,
\* which is yet to change.
ShellSize ==
  /\ Does("shellsize") /\ Obeys /\ cmd = None
  /\ \E n \in Heights : n <= screen.h /\ n # shellH /\ shellH' = n
  /\ hookReal' = IF Phone THEN screen.h ELSE hookReal
  /\ lastPub' = IF Phone \/ dirty THEN Forgotten ELSE lastPub
  /\ calm' = FALSE
  /\ UNCHANGED <<program, posts, layout, screen, switching, memory, page, hook, torn>>
SetDesktop ==
  /\ Does("desktop") /\ Obeys /\ cmd = None /\ switching = 0
  /\ layout' = IF Phone THEN "desktop" ELSE "phone"
  /\ switching' = 1 /\ hookReal' = screen.h
  /\ lastPub' = Forgotten /\ calm' = FALSE
  /\ UNCHANGED <<program, posts, shellH, screen, memory, page, hook, torn>>

\* fit_windows: on the desktop every window comes on to the new screen; was: the
\* old one, if it has changed.
FitWindow(w, was, now) ==
  IF w.mode = "zoomed" \/ (was # None /\ Fills(w.rect, was.w, was.h))
  THEN [At(w, [x |-> 0, y |-> 0, w |-> now.w, h |-> now.h]) EXCEPT !.own = FALSE]
  ELSE [At(w, DesktopFit(w.rect, now.w, now.h)) EXCEPT !.own = FALSE]
Fits(was, now) == [h \in H |->
  CASE wnd[h].kind = "menu" -> wnd[h]
    [] wnd[h].kind # "menu" /\ (~Visible(h) \/ Iconic(h)) -> [wnd[h] EXCEPT !.own = Exists(h)]
    [] OTHER -> FitWindow(wnd[h], was, now)]
\* live_remode and finish_mode_switch: the layout's own screen.
FinishSwitch ==
  /\ mon.pc = "idle" /\ switching > 0
  /\ \E s \in (IF Phone THEN {PhoneScreen} ELSE Desktops) :
       /\ screen' = s
       /\ wnd' = IF Phone THEN wnd ELSE Fits(IF s = screen THEN None ELSE screen, s)
  /\ switching' = 0 /\ lastPub' = Forgotten /\ calm' = FALSE
  /\ UNCHANGED <<habit, left, z, dead, layout, shellH, hookReal, hook, dirty, posts, memory, mon, page, torn>>
\* The desktop's screen changes: only the windows' places.
NewScreen ==
  /\ Does("screen") /\ mon.pc = "idle" /\ switching = 0 /\ ~Phone
  /\ \E s \in Desktops \ {screen} : screen' = s /\ wnd' = Fits(screen, s)
  /\ calm' = FALSE
  /\ UNCHANGED <<z, dead, layout, shellH, switching, hookReal, memory, mon, lastPub, posts, page, torn>> /\ Quiet

-----------------------------------------------------------------------------
Init ==
  /\ habit \in Habits /\ left = habit.events
  /\ \E pick \in [H -> UNION {habit.as[h] : h \in H}] :
       /\ \A h \in H : pick[h] \in habit.as[h]
       /\ wnd = [h \in H |-> IF Contains(habit.open, h)
                            THEN [Closed EXCEPT !.kind = pick[h].kind, !.owner = pick[h].owner, !.style = pick[h].style,
                                    !.vis = TRUE, !.rect = pick[h].rect, !.normal = pick[h].rect, !.asked = pick[h].rect]
                            ELSE Closed]
  /\ z = habit.open /\ dead = {}
  /\ layout = "phone" /\ screen = PhoneScreen /\ shellH = ShellHeight /\ switching = 0 /\ hookReal = PhoneScreen.h
  /\ hook = Silent /\ dirty = FALSE /\ posts = {}
  /\ slots = [i \in Slots |-> NoWnd] /\ sized = <<>> /\ owned = <<>> /\ fitted = {}
  /\ mon = Idle /\ lastPub = Forgotten
  /\ cmd = None /\ pending = NoList /\ layers = <<>> /\ calm = FALSE /\ torn = FALSE

Pvmon   == Poll \/ RunCommand \/ Collect \/ Place \/ Compare \/ Say \/ ParkPosted \/ FinishSwitch
Program == \E h \in H : \/ Create(h) \/ Show(h) \/ Hide(h) \/ Activate(h) \/ Resize(h) \/ Move(h)
                        \/ Maximise(h) \/ Restore(h) \/ Minimise(h) \/ Destroy(h)
Ending  == \E h \in H : DestroyOwned(h) \/ Gone(h)
Host    == Tap \/ ShellSize \/ SetDesktop \/ NewScreen
Next == Pvmon \/ HookSays \/ Program \/ Ending \/ Host

\* Windows gives PVMON its timer and lets it and PVHOOK go on; a window that is
\* being destroyed goes.
Fairness == WF_vars(Pvmon) /\ WF_vars(HookSays) /\ WF_vars(Ending)
Spec     == Init /\ [][Next]_vars
FairSpec == Spec /\ Fairness

-----------------------------------------------------------------------------
(* Properties.                                                             *)

Window == {Closed} \cup [kind : {"app", "dialog", "menu"}, owner : H \cup {Shell, NoWnd}, style : Style,
                         vis : BOOLEAN, mode : {"normal", "zoomed", "iconic"},
                         rect : Rect, normal : Rect, asked : Rect, own : BOOLEAN]
Layer  == [tag : {"W", "X", "O", "T", "I"}, wnd : H, slot : Int, rect : Rect, sure : BOOLEAN]
Sure(L) == L.sure => L.slot \in Slots

\* TypeOK: the types, and that a layer PVMON vouches for has a slot there is: a
\* window without room (slot_of, pvmon.c:1193) is never given one past the last.
TypeOK ==
  /\ left \in Nat /\ dead \subseteq H /\ posts \subseteq H /\ fitted \subseteq H
  /\ \A h \in H : wnd[h] \in Window
  /\ layout \in {"phone", "desktop"} /\ switching \in 0 .. SettlePolls
  /\ screen \in {PhoneScreen} \cup Desktops /\ shellH \in Heights
  /\ slots \in [Slots -> H \cup {NoWnd}]
  /\ hook.on \in BOOLEAN /\ dirty \in BOOLEAN /\ calm \in BOOLEAN
  /\ mon.pc \in {"idle", "collect", "place", "say"}
  /\ \A k \in DOMAIN layers : layers[k] \in Layer /\ Sure(layers[k])
  /\ \A k \in DOMAIN pending.list : pending.list[k] \in Layer /\ Sure(pending.list[k])

\* SlotHolds: the slot of a layer, or of a command, from PVMON's list is that of
\* the window shown, as long as that has not been hidden or destroyed: what the
\* user taps is what PVMON acts on (slot_of and slot_free, pvmon.c:1172-1205; the
\* commands' g_slotWnd, pvmon.c:2142).
SlotHolds ==
  LET true(L) == L.sure => slots[L.slot] = L.wnd
  IN  /\ \A k \in DOMAIN layers : true(layers[k])
      /\ \A k \in DOMAIN pending.list : true(pending.list[k])
      /\ cmd # None => true(cmd)

\* Placed: once PVMON has gone over the windows and nothing has happened to them
\* since, every application that has a slot is within its limits, in its column or
\* its two, no two applications overlap, and a dialog that fits a column is in its
\* owner's (park, the owned pass); on the desktop every window that nobody has
\* placed since it was fitted is on the screen (desktop_fit, fit_windows).  It says
\* nothing of a dialog that was given a slot because its owner is hidden: PVHOOK
\* takes it back to the hidden owner's column (pvhook.c:931).
Settled == mon.pc = "idle" /\ calm /\ posts = {} /\ switching = 0
Shown(h)   == Visible(h) /\ h \notin dead /\ ~Iconic(h)
SlotsOf(h) == {i \in Slots : slots[i] = h}
AtSlot(h)  == Lowest(SlotsOf(h))
Within(r, h) == LET x == SlotX(AtSlot(h))
                IN  r.x >= x /\ Right(r) <= x + ColW(wnd[h].style, Double(h, AtSlot(h), slots))
InPlace(h) == /\ ~TooLarge(wnd[h].rect, wnd[h].style, Double(h, AtSlot(h), slots), MonFrame)
              /\ Within(wnd[h].rect, h)
              /\ wnd[h].mode = "normal" => wnd[h].rect.y >= 0
Apart(r, q) == Right(r) <= q.x \/ Right(q) <= r.x
Placed ==
  LET apps == {h \in H : Shown(h) /\ IsApp(h) /\ SlotsOf(h) # {}}
  IN  Settled =>
        /\ Phone =>
             /\ \A h \in apps : InPlace(h)
             /\ \A h, g \in apps : h # g => Apart(wnd[h].rect, wnd[g].rect)
             /\ \A h \in H : Shown(h) /\ wnd[h].owner \in apps /\ wnd[wnd[h].owner].rect.w > 0 /\ wnd[h].rect.w <= SlotW
                  => Within(wnd[h].rect, wnd[h].owner)
        /\ ~Phone => \A h \in H : Shown(h) /\ wnd[h].kind # "menu" /\ ~OwnerIconic(h) /\ ~wnd[h].own => OnTheScreen(wnd[h])

\* Kept: a window with a layout of its own keeps the size that its program gave it,
\* through births, activations, passes and switches, if that fits every column and
\* screen and fills no desktop ("never resized, only kept inside their column",
\* pvmon.c:1388); and a menu stays where it popped up (pvmon.c:1067), unless PVMON
\* takes it for a window that had its handle before.
FitsAll(a) == /\ a.w <= SlotW /\ a.h <= PhoneScreen.h
                  /\ \A s \in Desktops : a.w <= s.w /\ a.h <= s.h /\ ~Fills(a, s.w, s.h)
KeepsSize(w)   == w.kind = "app" /\ w.style.fixed /\ FitsAll(w.asked)
                    => w.normal.w = w.asked.w /\ w.normal.h = w.asked.h
StaysPut(w)    == w.kind = "menu" /\ ~w.own => w.normal = w.asked
Kept == \A h \in H : KeepsSize(wnd[h]) /\ StaysPut(wnd[h])

\* Converges: whichever of them sent lists, however they were mixed and whatever
\* was in between, in the end the page shows the windows as they are (poll's
\* PvHookTakeDirty, pvmon.c:2315; the fingerprint, pvmon.c:1741) -- unless they
\* changed while PVMON's last list was sent, after it was compared, and are again
\* what they were then.
Shows(list) == LET slot(h) == SlotOf(h, wnd[h].style.fixed /\ wnd[h].rect.w > SlotW).slot
                   line(i) == [MonLine(i, slot(i.wnd)) EXCEPT !.sure = FALSE]
               IN  [k \in DOMAIN layers |-> [layers[k] EXCEPT !.sure = FALSE]] = [k \in DOMAIN list |-> line(list[k])]
\* Each list by name, so that it is worked out once for a state.
AsShown   == \E list \in {Enumerated} : \E items \in {Reverse(Items(list))} : Shows(items)
Converges == <>[](torn \/ AsShown)
=============================================================================
