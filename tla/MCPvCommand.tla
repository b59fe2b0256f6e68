----------------------------- MODULE MCPvCommand -----------------------------
(* PvCommand with a few commands. *)
EXTENDS PvCommand, TLC

CONSTANTS down, up

\* A guest that keeps up: scrolls and other commands, three of them or from two
\* sides, and a screen that changes its size; and one that is slow and has a
\* mouse; and one that is sent strings.
Three  == [kinds |-> {"scroll", "plain"}, keys |-> {down}, asked |-> 3, blocks |-> 1,
           slow |-> FALSE, mouse |-> FALSE]
Sides  == [Three EXCEPT !.keys = {down, up}, !.asked = 2]
Screen == [Three EXCEPT !.asked = 2, !.blocks = 2]
Slow   == [Three EXCEPT !.kinds = {"plain", "string"}, !.asked = 2, !.slow = TRUE, !.mouse = TRUE]
MCHabits == {Three, Sides, Screen, Slow}
Strings  == {[Three EXCEPT !.kinds = {"string"}, !.asked = 2]}
=============================================================================
