------------------------------ MODULE MCWinsock ------------------------------
(* Winsock with a few tasks and slots. *)
EXTENDS Winsock, TLC

CONSTANTS t1, t2

\* Programs that live by messages, and programs that also wait; and the latter
\* with a longer queue.
Messages2 == [styles |-> {"async"}, events |-> {Events}, queue |-> 2]
Mixed(n)  == [styles |-> {"async", "blocking"}, events |-> {{"read"}}, queue |-> n]
MCHabits == {Messages2, Mixed(1)}
Waiting  == {Mixed(3)}
=============================================================================
