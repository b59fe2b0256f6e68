------------------------------ MODULE PvDevice ------------------------------
(***************************************************************************)
(* One handle of the PV socket block of the adapter (v86/src/vga.js): the  *)
(* eight-handle register file through which the guest opens a target,      *)
(* sends a request and reads the reply, with no TCP stack of its own.      *)
(* This module is the passive part: what each register access and each     *)
(* host message does to the handle it acts on, as functions from records   *)
(* to records.  PvSock and Winsock give it users.                          *)
(*                                                                         *)
(* The record keeps the fields of pv_sock_blank() but two: the buffer and  *)
(* its read offset are one sequence, the bytes not yet read (the code      *)
(* never looks behind the offset and drops the buffer when it is used up), *)
(* and ARG, which the guest always writes right before the command that    *)
(* uses it, is that command's parameter.  The target string is one value.  *)
(***************************************************************************)
EXTENDS Naturals, Sequences

CONSTANTS NoTarget,  \* the empty target string
          OutCap,    \* bytes the outbound queue accepts (0x20000 in the code)
          Zero       \* the byte 0 a half-used word is filled with

ASSUME OutCapAssumption == OutCap \in Nat \ {0}

\* STATE register: 0 idle, 1 fetching, 2 ready, 3 complete, 0xFF error.
SockStates == {"idle", "working", "data", "closed", "error"}

Handle(Target, Byte) ==
  [state : SockStates, result : Nat, target : Target \cup {NoTarget},
   out : Seq(Byte \cup {Zero}), rest : Seq(Byte), block : Nat, done : BOOLEAN]

Blank ==
  [state |-> "idle", result |-> 0, target |-> NoTarget, out |-> <<>>,
   rest |-> <<>>, block |-> 0, done |-> FALSE]

Least(a, b) == IF a <= b THEN a ELSE b

\* What is left of s once its first n elements are gone.
Drop(s, n) == SubSeq(s, n + 1, Len(s))

-----------------------------------------------------------------------------
(* Guest side: writes to CMD, CHAR and SEND, reads of DATA.                *)

SetTarget(k, t) == [k EXCEPT !.target = t]

\* CMD 1.  An open without a target is refused through RESULT and leaves the
\* rest of the handle alone; any other one starts the handle afresh.
OpenAccepted(k) == k.target # NoTarget

OpenCmd(k) ==
  IF OpenAccepted(k)
  THEN [Blank EXCEPT !.state = "working"]
  ELSE [k EXCEPT !.result = 1]

\* The words stuff writes for the bytes s, a zero in the top half of the last
\* if it is needed: SEND queues a word as long as the queue is below its limit
\* when the word is written, so Room bytes of them get in.
Padded(s) == IF Len(s) % 2 = 0 THEN s ELSE Append(s, Zero)
Room(k) == IF Len(k.out) < OutCap
           THEN 2 * ((OutCap - Len(k.out) + 1) \div 2)
           ELSE 0
PushWords(k, s) ==
  [k EXCEPT !.out = @ \o SubSeq(Padded(s), 1, Least(Len(Padded(s)), Room(k)))]

\* CMD 4.  The bytes handed to the host, and the handle after it: an odd
\* count takes the pad byte of its last word off the queue as well.
SendCount(k, len) == Least(len, Len(k.out))
SentBytes(k, len) == SubSeq(k.out, 1, SendCount(k, len))
SendCmdKeepingPad(k, len) ==  \* mutant: the pad stays queued
  LET n == SendCount(k, len)
  IN  [k EXCEPT !.out = Drop(@, n), !.result = n]
SendCmd(k, len) ==
  LET n == SendCount(k, len)
  IN  [k EXCEPT !.out = Drop(@, n + (n % 2)), !.result = n]

\* Mutant of ReadCmd: promises what was asked for, not what is there.
ReadCmdUnclamped(k, want) ==
  IF k.rest = <<>> THEN [k EXCEPT !.result = 0]
  ELSE [k EXCEPT !.block = want, !.result = want]

\* CMD 2.  Stages the block that DATA will hand out; a read of an exhausted
\* and finished stream reports the end of it instead.
ReadCmd(k, want) ==
  IF k.rest = <<>>
  THEN [k EXCEPT !.result = 0,
                 !.state = IF k.done /\ k.state # "error" THEN "closed" ELSE @]
  ELSE LET n == Least(want, Len(k.rest))
       IN  [k EXCEPT !.block = n, !.result = n]

\* A read of DATA: how many bytes of the word are the stream's, the two bytes
\* the guest sees, and the handle after it.
DataCount(k) == Least(2, Least(k.block, Len(k.rest)))
DataWord(k) ==
  CASE DataCount(k) = 0 -> <<Zero, Zero>>
    [] DataCount(k) = 1 -> <<k.rest[1], Zero>>
    [] OTHER            -> <<k.rest[1], k.rest[2]>>
\* Mutants of DataRead: the end of what has come is the end of the stream; the
\* end of the stream is not noticed.
DataReadEndsEarly(k) ==
  LET n == DataCount(k)
      used == n = Len(k.rest)
  IN  IF n = 0 THEN k
      ELSE [k EXCEPT !.rest = Drop(@, n), !.block = IF used THEN 0 ELSE @ - n,
                     !.state = IF used THEN "closed" ELSE @]
DataReadForgetsEnd(k) ==
  LET n == DataCount(k)
      used == n = Len(k.rest)
  IN  IF n = 0 THEN k
      ELSE [k EXCEPT !.rest = Drop(@, n), !.block = IF used THEN 0 ELSE @ - n,
                     !.state = IF used THEN "working" ELSE @]
DataRead(k) ==
  LET n == DataCount(k)
      used == n = Len(k.rest)
  IN  IF n = 0 THEN k
      ELSE [k EXCEPT !.rest = Drop(@, n),
                     !.block = IF used THEN 0 ELSE @ - n,
                     !.state = IF ~used THEN @
                               ELSE IF k.done THEN "closed" ELSE "working"]

\* What a READ of want bytes and the reads of DATA that empty its block come to:
\* the bytes, and the handle after them.
StagedBytes(k, want) == SubSeq(k.rest, 1, Least(want, Len(k.rest)))
TakeBlock(k, want) ==
  LET n == Least(want, Len(k.rest))
  IN  [k EXCEPT !.rest = Drop(@, n), !.result = n, !.block = 0,
                !.state = IF n < Len(k.rest) \/ n = 0 THEN @
                          ELSE IF k.done THEN "closed" ELSE "working"]

\* CMD 3.
CloseCmd(k) == Blank

-----------------------------------------------------------------------------
(* Host side: the message pv-sock-data.                                    *)

\* Mutants of Arrive: what is still unread is overwritten; the end is reported
\* before the data has been read.
ArriveOverwrites(k, bytes, done) ==
  IF k.state = "idle" THEN k
  ELSE [k EXCEPT !.rest = bytes, !.done = @ \/ done, !.state = "data"]
ArriveEndsFirst(k, bytes, done) ==
  IF k.state = "idle" THEN k
  ELSE [k EXCEPT !.rest = @ \o bytes, !.done = @ \/ done,
                 !.state = IF k.done \/ done THEN "closed" ELSE "data"]

\* Data, and perhaps the end of the stream.  A handle that is idle takes no
\* part: it was closed while the fetch was running.
Arrive(k, bytes, done) ==
  IF k.state = "idle" THEN k
  ELSE LET rest == k.rest \o bytes
           fin  == k.done \/ done
       IN  [k EXCEPT !.rest = rest, !.done = fin,
                     !.state = IF rest # <<>> THEN "data"
                               ELSE IF fin THEN "closed" ELSE "working"]

\* An error ends the stream whatever is still unread.
Fail(k) ==
  IF k.state = "idle" THEN k ELSE [k EXCEPT !.state = "error", !.done = TRUE]

=============================================================================
