----------------------------- MODULE CommandFifo -----------------------------
(***************************************************************************)
(* What the path of commands from the page to the guest promises: a queue. *)
(* Every command that is asked for joins it at the end, but for a scroll   *)
(* that the last one absorbs or that is one too many, and the guest        *)
(* carries them out in that order, each once.  Where the promise is weaker *)
(* (lossy), some are lost on the way.                                      *)
(***************************************************************************)
EXTENDS Naturals, Sequences

CONSTANTS Commands,    \* records with an id, a kind, a key and lines
          MaxLines     \* the most lines a scroll carries

VARIABLES asked,       \* how many commands have been asked for
          pending,     \* those not carried out yet, in order
          performed,   \* those carried out, in order
          lossy        \* whether commands may get lost, once and for all

Init == asked = 0 /\ pending = <<>> /\ performed = <<>> /\ lossy \in BOOLEAN

\* Commands are numbered as they are asked for.
Fresh(c) == c.id = asked + 1 /\ asked' = asked + 1

Join(c) == Fresh(c) /\ pending' = Append(pending, c) /\ UNCHANGED performed

\* Only the lines of the last command change, and only for more of the same.
Absorb(c) ==
  /\ Fresh(c) /\ pending # <<>>
  /\ LET last == pending[Len(pending)]
         lines == last.lines + c.lines
     IN /\ last.kind = "scroll" /\ c.kind = "scroll" /\ last.key = c.key
        /\ pending' = [pending EXCEPT ![Len(pending)].lines =
                         IF lines <= MaxLines THEN lines ELSE MaxLines]
  /\ UNCHANGED performed

Drop(c) == Fresh(c) /\ c.kind = "scroll" /\ UNCHANGED <<pending, performed>>

Perform ==
  /\ pending # <<>>
  /\ performed' = Append(performed, Head(pending))
  /\ pending' = Tail(pending)
  /\ UNCHANGED asked

Lose ==
  /\ lossy
  /\ \E i \in DOMAIN pending :
       pending' = SubSeq(pending, 1, i - 1) \o SubSeq(pending, i + 1, Len(pending))
  /\ UNCHANGED <<asked, performed>>

Next ==
  \/ \E c \in Commands : Join(c) \/ Absorb(c) \/ Drop(c)
  \/ Perform
  \/ Lose

Step == Next /\ UNCHANGED lossy

vars == <<asked, pending, performed, lossy>>
Spec == Init /\ [][Step]_vars
=============================================================================
