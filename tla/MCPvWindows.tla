---------------------------- MODULE MCPvWindows ----------------------------
(* PvWindows with columns of 4, of which a phone shows 2, and two slots. *)
EXTENDS PvWindows

CONSTANTS w1, w2, w3

Free  == [fixed |-> FALSE, keep |-> FALSE, cap |-> 0, size |-> [w |-> 2, h |-> 3]]
Fixed == [Free EXCEPT !.fixed = TRUE]
Keep  == [Free EXCEPT !.keep = TRUE]
Low   == [Free EXCEPT !.cap = 2]
R(x, y, w, h) == [x |-> x, y |-> y, w |-> w, h |-> h]
App(style, r) == [kind |-> "app", owner |-> NoWnd, style |-> style, rect |-> r]
Dialog(o, r)  == [kind |-> "dialog", owner |-> o, style |-> Fixed, rect |-> r]
Menu(r)       == [kind |-> "menu", owner |-> NoWnd, style |-> Fixed, rect |-> r]

MCScreen   == [w |-> 12, h |-> 6]
MCJunk     == {R(0, 0, 0, 0), R(5, 1, 4, 6)}
MCDesktops == {[w |-> 6, h |-> 5], [w |-> 8, h |-> 7]}

Base == [as |-> [h \in H |-> {App(Free, R(1, 0, 3, 5))}], open |-> <<w1, w2>>, does |-> {}, events |-> 2,
         sizes |-> {}, spots |-> {}, taps |-> {}, sees |-> FALSE]
As(x, y, w) == [h \in H |-> CASE h = w1 -> x [] h = w2 -> y [] h = w3 -> w]

\* Programs come and go, one that needs both slots and one whose handle becomes
\* another's; the user brings one to the front.
Slotting ==
  [Base EXCEPT !.as = As({App(Fixed, R(3, 0, 6, 3))}, {App(Free, R(1, 0, 3, 5))},
                         {App(Free, R(0, 1, 2, 2)), App(Fixed, R(2, 0, 3, 3))}),
               !.does = {"create", "show", "hide", "destroy", "minimise", "tap"},
               !.taps = {"activate", "restore", "minimise", "close"}, !.events = 3]
\* Dialogs of a program and of the shell, while their owners come and go, and the
\* dialog's handle becomes a program's.
Asking ==
  [Base EXCEPT !.as = As({App(Free, R(4, 0, 2, 3))}, {Dialog(w1, R(1, 4, 3, 2)), App(Free, R(1, 4, 3, 2))}, {Dialog(Shell, R(5, 3, 2, 2))}),
               !.open = <<w2, w1>>, !.does = {"create", "show", "activate", "move", "destroy", "minimise", "restore"},
               !.spots = {[x |-> 7, y |-> 4]}, !.events = 3]
\* Menus, one of them larger than the phone.
Popping ==
  [Base EXCEPT !.as = As({App(Free, R(4, 0, 2, 3))}, {Menu(R(5, 2, 2, 2)), Menu(R(5, 2, 3, 5))}, {Dialog(w1, R(1, 4, 3, 2))}),
               !.open = <<w2, w1>>, !.does = {"show", "hide", "resize", "destroy", "activate", "create"},
               !.sizes = {[w |-> 3, h |-> 2]}, !.events = 3]
\* Sizes: within the frame, past it, and a frame that changes.
Growing(sees) ==
  [Base EXCEPT !.as = As({App(Keep, R(1, 0, 5, 3))}, {App(Low, R(4, 0, 2, 2)), App(Fixed, R(6, 1, 3, 3))}, {App(Free, R(1, 0, 1, 1))}),
               !.does = {"resize", "maximise", "restore", "move", "shellsize", "activate"}, !.sees = sees, !.events = 2,
               !.sizes = {[w |-> 5, h |-> 6], [w |-> 2, h |-> 3]}, !.spots = {[x |-> 2, y |-> 1]}]
\* The desktop and back.
Switching ==
  [Base EXCEPT !.as = As({App(Fixed, R(5, 0, 3, 2))}, {App(Free, R(1, 0, 2, 3))}, {App(Free, R(7, 2, 4, 4))}),
               !.does = {"desktop", "screen", "create", "show", "minimise", "restore", "maximise", "move"},
               !.spots = {[x |-> 7, y |-> 3]}, !.events = 3]
There(open) ==
  [Switching EXCEPT !.open = open, !.does = {"desktop", "screen", "minimise", "restore", "maximise"}, !.events = 4]
MCHabits == {Slotting, Asking, Popping, Growing(TRUE), Growing(FALSE), Switching, There(<<w3>>)}
=============================================================================
