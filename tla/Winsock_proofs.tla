---------------------------- MODULE Winsock_proofs ----------------------------
(***************************************************************************)
(* Proofs about Winsock, for every number of programs and sockets, every   *)
(* size of buffer and queue, every mix of habits and both kinds of host:   *)
(* type correctness, that the end of a stream is reported only when all of *)
(* it has been delivered, that a latched FD_READ stands for data and for a *)
(* message still to come, and that a socket somebody waits on is kept.     *)
(*                                                                         *)
(* Most calls do something to one socket and its handle that is put        *)
(* together from a few steps: a pump, a notification, a take, a flag.  So  *)
(* the invariants are predicates of a socket and its handle, each step is  *)
(* shown to keep them whatever the socket is, and an action keeps them by  *)
(* the steps it is made of.                                                *)
(***************************************************************************)
EXTENDS Winsock, SequenceTheorems, WellFoundedInduction, TLAPS

Resting == {"free", "unbound"}
Using(s) == s.state \in {"connect", "open"}

\* A socket and its handle, whatever the page does: nothing of an earlier
\* connection is left in them when one is made, and a stream that has ended has
\* nothing more.
Tidy(s, k) ==
  /\ s.state \in Resting => k = Blank
  /\ s.state = "unbound" => ~s.peerClosed /\ ~s.failed /\ s.rx = <<>>
  /\ s.state \in {"unbound", "connect"} => s.posted = {}
  /\ k.state = "closed" => k.done /\ k.rest = <<>>
  /\ k.state = "error" => k.done
  /\ Using(s) /\ "read" \in s.posted => s.rx # <<>>

\* A socket and its handle, where no answer of an earlier connection can come.
Whole(s, k) ==
  Using(s) =>
    /\ s.peerClosed => k.done
    /\ ~s.failed /\ s.peerClosed => k.rest = <<>>
    /\ ~s.failed /\ "close" \in s.posted => s.peerClosed /\ s.rx = <<>>

\* The fetches: an abandoned one is of a slot that counts as orphaned, any other
\* is that of the request its page has seen, and the answer ends the stream.
FetchInv ==
  /\ \A f \in fetches : IF f.own THEN page[f.slot] = "sent" ELSE f.slot \in orphaned
  /\ \A i \in Slots : sk[i].state \in Resting => page[i] = "none"
  /\ \A i \in Slots \ orphaned : dev[i].done => page[i] = "sent" /\ \A f \in fetches : f.slot # i

SockInv == /\ \A i \in Slots : Tidy(sk[i], dev[i])
           /\ \A i \in Slots \ orphaned : Whole(sk[i], dev[i])
EndInv == SockInv /\ FetchInv

\* Programs that use messages alone never wait and connect only what they have
\* asked for messages of; a socket's program has its timer.
HabitInv ==
  /\ \A i \in Slots : Used(i) => refs[sk[i].owner] > 0
  /\ MessagesOnly =>
       /\ blocked = NoCall
       /\ \A i \in Slots : Used(i) => /\ sk[i].async => sk[i].nonblock
                                      /\ sk[i].state # "unbound" => sk[i].async
MessageInv == HabitInv /\ LatchMeansMessage

-----------------------------------------------------------------------------
(* What the steps of a call do to a socket and its handle.                 *)

SockT(s, k) == s \in SockRec /\ Len(s.rx) <= RxCap /\ k \in Handle({"peer"}, Byte)

\* A step keeps whatever of the invariant there was, gives nobody else the
\* socket, and makes neither a connection nor an answer.
Keeps(s, k, t, l) ==
  /\ SockT(t, l)
  /\ Tidy(s, k) => Tidy(t, l) /\ (Whole(s, k) => Whole(t, l))
  /\ l.done = k.done /\ t.owner = s.owner
  /\ t.state = s.state \/ (s.state = "connect" /\ t.state \in {"open", "dead"})

\* It posts nothing, and the program wants nothing it did not want before.
Quiet(s, t) ==
  /\ t.posted \subseteq s.posted /\ t.async = s.async /\ t.events = s.events
  /\ (s.nonblock => t.nonblock) /\ (s.rdShut => t.rdShut)

LEMMA KeepsTwice ==
  ASSUME NEW s, NEW k, NEW t, NEW l, NEW u, NEW m, Keeps(s, k, t, l), Keeps(t, l, u, m)
  PROVE  Keeps(s, k, u, m)
BY DEF Keeps

LEMMA QuietTwice ==
  ASSUME NEW s, NEW t, NEW u, Quiet(s, t), Quiet(t, u)
  PROVE  Quiet(s, u)
BY DEF Quiet

LEMMA KeepsSame ==
  ASSUME NEW s, NEW k, SockT(s, k)
  PROVE  Keeps(s, k, s, k) /\ Quiet(s, s)
BY DEF Keeps, Quiet

\* Some of a sequence, and the rest of it.
LEMMA Parts ==
  ASSUME NEW S, NEW s \in Seq(S), NEW n \in Nat
  PROVE  /\ Least(n, Len(s)) \in 0 .. Len(s) /\ Least(n, Len(s)) <= n
         /\ SubSeq(s, 1, Least(n, Len(s))) \in Seq(S)
         /\ Len(SubSeq(s, 1, Least(n, Len(s)))) = Least(n, Len(s))
         /\ Drop(s, Least(n, Len(s))) \in Seq(S)
         /\ Len(Drop(s, Least(n, Len(s)))) = Len(s) - Least(n, Len(s))
<1>1. Len(s) \in Nat /\ Least(n, Len(s)) \in 0 .. Len(s) /\ Least(n, Len(s)) <= n
  BY LenProperties DEF Least
<1> QED BY <1>1, SubSeqProperties DEF Drop

\* Programs take what there is: recv.
LEMMA TakeKeeps ==
  ASSUME NEW s, NEW k, SockT(s, k), NEW len \in Nat
  PROVE  Keeps(s, k, Take(s, len), k) /\ Quiet(s, Take(s, len))
<1> DEFINE t == Take(s, len)
<1>1. s \in SockRec /\ s.rx \in Seq(Byte) /\ Len(s.rx) \in Nat /\ Len(s.rx) <= RxCap /\ s.posted \subseteq Events
  BY LenProperties DEF SockT, SockRec
<1>2. /\ Drop(s.rx, Least(len, Len(s.rx))) \in Seq(Byte)
      /\ Len(Drop(s.rx, Least(len, Len(s.rx)))) <= RxCap
      /\ s.rx = <<>> => Drop(s.rx, Least(len, Len(s.rx))) = <<>>
  <2>1. /\ Drop(s.rx, Least(len, Len(s.rx))) \in Seq(Byte)
        /\ Least(len, Len(s.rx)) \in 0 .. Len(s.rx)
        /\ Len(Drop(s.rx, Least(len, Len(s.rx)))) = Len(s.rx) - Least(len, Len(s.rx))
    BY <1>1, Parts
  <2>2. Len(Drop(s.rx, Least(len, Len(s.rx)))) <= Len(s.rx)
    BY <1>1, <2>1
  <2>3. s.rx = <<>> => Len(Drop(s.rx, Least(len, Len(s.rx)))) = 0
    BY <1>1, <2>1, EmptySeq
  <2> QED BY <1>1, <2>1, <2>2, <2>3, EmptySeq, WinsockAssumption
<1>3. t = [s EXCEPT !.rx = Drop(s.rx, Least(len, Len(s.rx))), !.posted = s.posted \ {"read"}]
  BY DEF Take
<1>4. t \in SockRec /\ t.rx = Drop(s.rx, Least(len, Len(s.rx))) /\ t.posted = s.posted \ {"read"}
      /\ t.state = s.state /\ t.owner = s.owner /\ t.peerClosed = s.peerClosed /\ t.failed = s.failed
      /\ t.async = s.async /\ t.events = s.events /\ t.nonblock = s.nonblock /\ t.rdShut = s.rdShut
  BY <1>1, <1>2, <1>3 DEF SockRec
<1> HIDE DEF t
<1>5. Quiet(s, t) /\ SockT(t, k)
  BY <1>1, <1>2, <1>4 DEF Quiet, SockT
<1>6. Tidy(s, k) => Tidy(t, k) /\ (Whole(s, k) => Whole(t, k))
  BY <1>2, <1>4 DEF Tidy, Whole, Using
<1> QED BY <1>4, <1>5, <1>6 DEF Keeps, t

\* send and recv take a connection for made.
LEMMA ReachedKeeps ==
  ASSUME NEW s, NEW k, SockT(s, k)
  PROVE  Keeps(s, k, Reached(s), k) /\ Quiet(s, Reached(s))
<1>1. CASE s.state = "connect"
  <2> DEFINE t == [s EXCEPT !.state = "open"]
  <2>1. t \in SockRec /\ t.state = "open" /\ t.rx = s.rx /\ t.posted = s.posted
        /\ t.owner = s.owner /\ t.peerClosed = s.peerClosed /\ t.failed = s.failed
        /\ t.async = s.async /\ t.events = s.events /\ t.nonblock = s.nonblock /\ t.rdShut = s.rdShut
    BY DEF SockT, SockRec
  <2> HIDE DEF t
  <2>2. SockT(t, k) /\ Quiet(s, t)
    BY <2>1 DEF SockT, Quiet
  <2>3. Tidy(s, k) => Tidy(t, k) /\ (Whole(s, k) => Whole(t, k))
    BY <1>1, <2>1 DEF Tidy, Whole, Using, Resting
  <2> QED BY <1>1, <2>1, <2>2, <2>3 DEF Keeps, Reached, t
<1>2. CASE s.state # "connect"
  BY <1>2, KeepsSame DEF Reached
<1> QED BY <1>1, <1>2

\* What programs set about a socket: shutdown and ioctlsocket.
LEMMA FlagsKeep ==
  ASSUME NEW s, NEW k, SockT(s, k), NEW rd \in BOOLEAN, NEW wr \in BOOLEAN, NEW b \in BOOLEAN
  PROVE  /\ Keeps(s, k, [s EXCEPT !.rdShut = rd, !.wrShut = wr], k)
         /\ Keeps(s, k, [s EXCEPT !.nonblock = b], k)
         /\ (s.rdShut => rd) => Quiet(s, [s EXCEPT !.rdShut = rd, !.wrShut = wr])
<1> DEFINE t == [s EXCEPT !.rdShut = rd, !.wrShut = wr]
           u == [s EXCEPT !.nonblock = b]
<1>1. t \in SockRec /\ t.state = s.state /\ t.rx = s.rx /\ t.posted = s.posted
      /\ t.owner = s.owner /\ t.peerClosed = s.peerClosed /\ t.failed = s.failed
      /\ t.async = s.async /\ t.events = s.events /\ t.nonblock = s.nonblock /\ t.rdShut = rd
  BY DEF SockT, SockRec
<1>2. u \in SockRec /\ u.state = s.state /\ u.rx = s.rx /\ u.posted = s.posted
      /\ u.owner = s.owner /\ u.peerClosed = s.peerClosed /\ u.failed = s.failed
  BY DEF SockT, SockRec
<1> HIDE DEF t, u
<1>3. Keeps(s, k, t, k)
  BY <1>1 DEF Keeps, SockT, Tidy, Whole, Using, Resting
<1>4. Keeps(s, k, u, k)
  BY <1>2 DEF Keeps, SockT, Tidy, Whole, Using, Resting
<1>5. (s.rdShut => rd) => Quiet(s, t)
  BY <1>1 DEF Quiet
<1> QED BY <1>3, <1>4, <1>5 DEF t, u

\* What WSAAsyncSelect sets.
Asking(s, events) ==
  [s EXCEPT !.async = TRUE, !.events = events, !.posted = {}, !.nonblock = @ \/ events # {}]

LEMMA AskingKeeps ==
  ASSUME NEW s, NEW k, SockT(s, k), NEW events \in SUBSET Events
  PROVE  /\ Keeps(s, k, Asking(s, events), k)
         /\ LET t == Asking(s, events)
            IN  /\ t.state = s.state /\ t.owner = s.owner /\ t.async = TRUE /\ t.posted = {}
                /\ (s.nonblock => t.nonblock) /\ (events # {} => t.nonblock)
<1> DEFINE t == Asking(s, events)
<1>1. s.nonblock \in BOOLEAN /\ (s.nonblock \/ events # {}) \in BOOLEAN
  BY DEF SockT, SockRec
<1>2. t = [s EXCEPT !.async = TRUE, !.events = events, !.posted = {}, !.nonblock = s.nonblock \/ events # {}]
  BY DEF Asking
<1> DEFINE n == s.nonblock \/ events # {}
<1> HIDE DEF n
<1>3. n \in BOOLEAN /\ t = [s EXCEPT !.async = TRUE, !.events = events, !.posted = {}, !.nonblock = n]
  BY <1>1, <1>2 DEF n
<1> HIDE DEF t
<1>4. t \in SockRec /\ t.state = s.state /\ t.rx = s.rx /\ t.posted = {}
      /\ t.owner = s.owner /\ t.peerClosed = s.peerClosed /\ t.failed = s.failed
      /\ t.async = TRUE /\ t.nonblock = n
  BY <1>3 DEF SockT, SockRec
<1>5. Keeps(s, k, t, k)
  BY <1>4 DEF Keeps, SockT, Tidy, Whole, Using, Resting
<1> QED BY <1>4, <1>5 DEF t, n

\* What pump reads is off the handle and in the buffer, and only the last of a
\* stream that is complete closes it.
LEMMA BlockTaken ==
  ASSUME NEW k \in Handle({"peer"}, Byte), NEW n \in Nat
  PROVE  LET l == TakeBlock(k, n)
         IN  /\ l \in Handle({"peer"}, Byte) /\ l.done = k.done
             /\ k.rest = <<>> => l.rest = <<>> /\ StagedBytes(k, n) = <<>>
             /\ k.state = "data" => /\ l.state \in {"data", "closed", "working"}
                                    /\ l.state = "closed" => l.done /\ l.rest = <<>>
             /\ StagedBytes(k, n) \in Seq(Byte) /\ Len(StagedBytes(k, n)) <= n
<1> DEFINE m == Least(n, Len(k.rest))
           r == Drop(k.rest, m)
           q == IF m < Len(k.rest) \/ m = 0 THEN k.state ELSE IF k.done THEN "closed" ELSE "working"
           l == TakeBlock(k, n)
<1>1. k.rest \in Seq(Byte) /\ Len(k.rest) \in Nat /\ k.done \in BOOLEAN /\ k.state \in SockStates
  BY LenProperties DEF Handle
<1>2. /\ m \in 0 .. Len(k.rest) /\ m <= n /\ r \in Seq(Byte) /\ Len(r) = Len(k.rest) - m
      /\ SubSeq(k.rest, 1, m) \in Seq(Byte) /\ Len(SubSeq(k.rest, 1, m)) = m
  BY <1>1, Parts
<1>3. l = [k EXCEPT !.rest = r, !.result = m, !.block = 0, !.state = q]
  BY DEF TakeBlock
<1>4. StagedBytes(k, n) = SubSeq(k.rest, 1, m)
  BY DEF StagedBytes
<1> HIDE DEF l, m, r
<1>5. q \in SockStates
  BY <1>1 DEF SockStates
<1>6. m = Len(k.rest) => r = <<>>
  BY <1>1, <1>2, EmptySeq
<1>7. k.rest = <<>> => m = 0 /\ Len(k.rest) = 0
  BY <1>1, <1>2
<1>8. k.rest = <<>> => r = <<>> /\ SubSeq(k.rest, 1, m) = <<>>
  BY <1>2, <1>6, <1>7, EmptySeq
<1>9. k.state = "data" => q \in {"data", "closed", "working"} /\ (q = "closed" => k.done /\ m = Len(k.rest))
  BY <1>1, <1>2
<1> HIDE DEF q
<1>10. l \in Handle({"peer"}, Byte) /\ l.done = k.done /\ l.rest = r /\ l.state = q
  <2>1. m \in Nat /\ r \in Seq(Byte) /\ q \in SockStates
    BY <1>1, <1>2, <1>5
  <2> QED BY <1>3, <2>1 DEF Handle
<1>11. StagedBytes(k, n) \in Seq(Byte) /\ Len(StagedBytes(k, n)) <= n
  BY <1>2, <1>4
<1>12. k.rest = <<>> => l.rest = <<>> /\ StagedBytes(k, n) = <<>>
  BY <1>4, <1>8, <1>10
<1>13. k.state = "data" => l.state \in {"data", "closed", "working"} /\ (l.state = "closed" => l.done /\ l.rest = <<>>)
  BY <1>6, <1>9, <1>10
<1> QED BY <1>10, <1>11, <1>12, <1>13 DEF l

LEMMA LookedKeeps ==
  ASSUME NEW s, NEW k, SockT(s, k), Using(s)
  PROVE  Keeps(s, k, Looked(s, k), k) /\ Quiet(s, Looked(s, k))
<1>1. ASSUME NEW f, f \in {s.failed, TRUE}, NEW t, t = [s EXCEPT !.failed = f, !.peerClosed = TRUE],
             k.state = "closed" \/ (k.state = "error" /\ f = TRUE)
      PROVE  Keeps(s, k, t, k) /\ Quiet(s, t)
  <2>1. f \in BOOLEAN
    BY <1>1 DEF SockT, SockRec
  <2>2. t \in SockRec /\ t.state = s.state /\ t.rx = s.rx /\ t.posted = s.posted
        /\ t.owner = s.owner /\ t.peerClosed = TRUE /\ t.failed = f
        /\ t.async = s.async /\ t.events = s.events /\ t.nonblock = s.nonblock /\ t.rdShut = s.rdShut
    BY <1>1, <2>1 DEF SockT, SockRec
  <2>3. SockT(t, k) /\ Quiet(s, t)
    BY <2>2 DEF SockT, Quiet
  <2>4. Tidy(s, k) => Tidy(t, k)
    BY <2>2 DEF Tidy, Using
  <2>5. Tidy(s, k) /\ Whole(s, k) => Whole(t, k)
    BY <1>1, <2>2 DEF Tidy, Whole, Using
  <2> QED BY <2>2, <2>3, <2>4, <2>5 DEF Keeps
<1>2. CASE k.state = "error"
  <2>1. Looked(s, k) = [s EXCEPT !.failed = TRUE, !.peerClosed = TRUE]
    BY <1>2 DEF Looked
  <2> QED BY <1>1, <1>2, <2>1
<1>3. CASE k.state = "closed"
  <2>1. Looked(s, k) = [s EXCEPT !.peerClosed = TRUE] /\ s \in SockRec
    BY <1>3 DEF Looked, SockT
  <2>2. [s EXCEPT !.peerClosed = TRUE] = [s EXCEPT !.failed = s.failed, !.peerClosed = TRUE]
    BY <2>1 DEF SockRec
  <2> QED BY <1>1, <1>3, <2>1, <2>2
<1>4. CASE k.state \notin {"error", "closed"}
  BY <1>4, KeepsSame DEF Looked
<1> QED BY <1>2, <1>3, <1>4

\* pump.
LEMMA PumpKeeps ==
  ASSUME NEW s, NEW k, SockT(s, k)
  PROVE  Keeps(s, k, PumpedSock(s, k), PumpedDev(s, k)) /\ Quiet(s, PumpedSock(s, k))
<1>1. CASE ~Using(s)
  BY <1>1, KeepsSame DEF PumpedSock, PumpedDev, Pumping, Using
<1>2. CASE Using(s) /\ ~Pumping(s, k)
  BY <1>2, LookedKeeps DEF PumpedSock, PumpedDev, Using
<1>3. CASE Using(s) /\ Pumping(s, k)
  <2> DEFINE n == PumpRoom(s)
             b == StagedBytes(k, n)
             t == [s EXCEPT !.rx = s.rx \o b]
             l == TakeBlock(k, n)
  <2>1. PumpedSock(s, k) = Looked(t, l) /\ PumpedDev(s, k) = l
    BY <1>3 DEF PumpedSock, PumpedDev, Using
  <2>2. s \in SockRec /\ s.rx \in Seq(Byte) /\ Len(s.rx) \in Nat /\ Len(s.rx) <= RxCap /\ RxCap \in Nat
        /\ k \in Handle({"peer"}, Byte) /\ k.state = "data"
    BY <1>3, WinsockAssumption, LenProperties DEF SockT, SockRec, Pumping
  <2>3. n \in Nat /\ n = RxCap - Len(s.rx)
    BY <2>2 DEF PumpRoom
  <2> HIDE DEF n
  <2>4. /\ l \in Handle({"peer"}, Byte) /\ l.done = k.done
        /\ k.rest = <<>> => l.rest = <<>> /\ b = <<>>
        /\ l.state # "error" /\ (l.state = "closed" => l.done /\ l.rest = <<>>)
        /\ b \in Seq(Byte) /\ Len(b) <= n
    BY <2>2, <2>3, BlockTaken
  <2> HIDE DEF b, l
  <2>5. /\ s.rx \o b \in Seq(Byte) /\ Len(s.rx \o b) = Len(s.rx) + Len(b)
        /\ b = <<>> => s.rx \o b = s.rx
    BY <2>2, <2>4, ConcatProperties, ConcatEmptySeq
  <2>6. Len(s.rx \o b) <= RxCap /\ (s.rx # <<>> => s.rx \o b # <<>>)
    <3>1. Len(b) \in Nat /\ (s.rx # <<>> => Len(s.rx) # 0)
      BY <2>2, <2>4, LenProperties, EmptySeq
    <3>2. Len(s.rx \o b) <= RxCap /\ (s.rx # <<>> => Len(s.rx \o b) # 0)
      BY <2>2, <2>3, <2>4, <2>5, <3>1
    <3> QED BY <2>5, <3>2, EmptySeq
  <2>7. t \in SockRec /\ t.state = s.state /\ t.rx = s.rx \o b /\ t.posted = s.posted
        /\ t.owner = s.owner /\ t.peerClosed = s.peerClosed /\ t.failed = s.failed
        /\ t.async = s.async /\ t.events = s.events /\ t.nonblock = s.nonblock /\ t.rdShut = s.rdShut
    BY <2>2, <2>5 DEF SockRec
  <2> HIDE DEF t
  <2>8. SockT(t, l) /\ Quiet(s, t) /\ Using(t)
    BY <1>3, <2>4, <2>6, <2>7 DEF SockT, Quiet, Using
  <2>9. Tidy(s, k) => Tidy(t, l)
    BY <1>3, <2>4, <2>6, <2>7 DEF Tidy, Using, Resting
  <2>10. Whole(s, k) => Whole(t, l)
    BY <1>3, <2>4, <2>5, <2>7 DEF Whole, Using
  <2>11. Keeps(s, k, t, l)
    BY <2>4, <2>7, <2>8, <2>9, <2>10 DEF Keeps
  <2> QED BY <2>1, <2>8, <2>11, LookedKeeps, KeepsTwice, QuietTwice
<1> QED BY <1>1, <1>2, <1>3

\* notify.
LEMMA NotifiedKeeps ==
  ASSUME NEW s, NEW k, SockT(s, k)
  PROVE  /\ Keeps(s, k, Notified(s), k) /\ PostedEvents(s) \subseteq Events
         /\ LET t == Notified(s)
            IN  /\ t.async = s.async /\ t.events = s.events /\ t.nonblock = s.nonblock /\ t.rdShut = s.rdShut
                /\ t.posted = s.posted \cup PostedEvents(s)
<1> DEFINE t == Notified(s)
           p == PostedEvents(s)
           q == CASE Connected(s) -> "open"
                  [] s.state = "connect" /\ s.failed -> "dead"
                  [] OTHER -> s.state
<1>1. s \in SockRec /\ s.failed \in BOOLEAN /\ s.posted \subseteq Events
      /\ s.state \in {"free", "unbound", "connect", "open", "dead"}
  BY DEF SockT, SockRec
<1>2. /\ p \subseteq Events
      /\ "read" \in p => s.rx # <<>> /\ Using(s)
      /\ "close" \in p => s.failed \/ (s.peerClosed /\ s.rx = <<>>)
      /\ p # {} => Using(s)
  BY DEF PostedEvents, DueEvents, Events, Using
<1>3. q = IF s.state = "connect" THEN (IF s.failed THEN "dead" ELSE "open") ELSE s.state
  BY <1>1 DEF Connected
<1>4. t = [s EXCEPT !.state = q, !.posted = s.posted \cup p]
  BY DEF Notified
<1> HIDE DEF q, p, t
<1>5. q \in {"free", "unbound", "connect", "open", "dead"}
  BY <1>1, <1>3
<1>6. t \in SockRec /\ t.state = q /\ t.rx = s.rx /\ t.posted = s.posted \cup p
      /\ t.owner = s.owner /\ t.peerClosed = s.peerClosed /\ t.failed = s.failed
      /\ t.async = s.async /\ t.events = s.events /\ t.nonblock = s.nonblock /\ t.rdShut = s.rdShut
  BY <1>1, <1>2, <1>4, <1>5 DEF SockRec
<1>7. SockT(t, k)
  BY <1>6 DEF SockT
<1>8. Tidy(s, k) => Tidy(t, k)
  BY <1>1, <1>2, <1>3, <1>6 DEF Tidy, Using, Resting
<1>9. Tidy(s, k) /\ Whole(s, k) => Whole(t, k)
  BY <1>1, <1>2, <1>3, <1>6 DEF Whole, Using, Tidy
<1>10. Keeps(s, k, t, k)
  BY <1>3, <1>6, <1>7, <1>8, <1>9 DEF Keeps
<1> QED BY <1>2, <1>6, <1>10 DEF t, p

-----------------------------------------------------------------------------
(* Messages.                                                               *)

Message == [slot : Slots, event : Events]
ReadMessage(i) == [slot |-> i, event |-> "read"]
In(m, s) == \E j \in DOMAIN s : s[j] = m

\* Sequences put together have the elements of both.
LEMMA InBoth ==
  ASSUME NEW S, NEW s \in Seq(S), NEW t \in Seq(S), NEW m
  PROVE  /\ s \o t \in Seq(S) /\ Len(s \o t) = Len(s) + Len(t)
         /\ In(m, s) => In(m, s \o t)
         /\ In(m, t) => In(m, s \o t)
<1>1. /\ s \o t \in Seq(S) /\ Len(s \o t) = Len(s) + Len(t) /\ Len(s) \in Nat /\ Len(t) \in Nat
      /\ DOMAIN s = 1 .. Len(s) /\ DOMAIN t = 1 .. Len(t) /\ DOMAIN (s \o t) = 1 .. Len(s \o t)
      /\ \A j \in 1 .. Len(s) + Len(t) : (s \o t)[j] = IF j <= Len(s) THEN s[j] ELSE t[j - Len(s)]
  BY ConcatProperties, LenProperties
<1>2. ASSUME NEW j \in DOMAIN s, s[j] = m
      PROVE  In(m, s \o t)
  <2>1. j \in 1 .. Len(s) + Len(t) /\ j <= Len(s)
    BY <1>1
  <2> QED BY <1>1, <1>2, <2>1 DEF In
<1>3. ASSUME NEW j \in DOMAIN t, t[j] = m
      PROVE  In(m, s \o t)
  <2>1. j + Len(s) \in 1 .. Len(s) + Len(t) /\ ~(j + Len(s) <= Len(s)) /\ (j + Len(s)) - Len(s) = j
    BY <1>1
  <2>2. (s \o t)[j + Len(s)] = m
    BY <1>1, <1>3, <2>1
  <2> QED BY <1>1, <2>1, <2>2 DEF In
<1> QED BY <1>1, <1>2, <1>3 DEF In

\* What notify posts, in its order, is what is to be posted.
LEMMA InOrderHas ==
  ASSUME NEW p \in SUBSET Events
  PROVE  InOrder[p] \in Seq(Events) /\ ("read" \in p => In("read", InOrder[p]))
<1> DEFINE If(e) == IF e \in p THEN <<e>> ELSE <<>>
<1>1. InOrder[p] = If("connect") \o If("write") \o If("read") \o If("close")
  BY DEF InOrder
<1>2. \A e \in Events : If(e) \in Seq(Events) /\ (e \in p => In(e, If(e)))
  <2> TAKE e \in Events
  <2>1. <<e>> \in Seq(Events) /\ <<>> \in Seq(Events) /\ 1 \in DOMAIN <<e>> /\ <<e>>[1] = e
    OBVIOUS
  <2> QED BY <2>1 DEF In
<1>3. {"connect", "write", "read", "close"} \subseteq Events
  BY DEF Events
<1> HIDE DEF If
<1>4. /\ If("connect") \in Seq(Events) /\ If("write") \in Seq(Events) /\ If("read") \in Seq(Events)
      /\ If("close") \in Seq(Events) /\ ("read" \in p => In("read", If("read")))
  BY <1>2, <1>3
<1>5. If("connect") \o If("write") \in Seq(Events)
  BY <1>4, InBoth
<1>6. /\ If("connect") \o If("write") \o If("read") \in Seq(Events)
      /\ "read" \in p => In("read", If("connect") \o If("write") \o If("read"))
  BY <1>4, <1>5, InBoth
<1> QED BY <1>1, <1>4, <1>6, InBoth

LEMMA MessagesHave ==
  ASSUME NEW s, NEW k, SockT(s, k), NEW i \in Slots
  PROVE  /\ Messages(i, s) \in Seq(Message)
         /\ "read" \in PostedEvents(s) => In(ReadMessage(i), Messages(i, s))
<1> DEFINE es == InOrder[PostedEvents(s)]
           m == [j \in DOMAIN es |-> [slot |-> i, event |-> es[j]]]
<1>1. es \in Seq(Events) /\ ("read" \in PostedEvents(s) => In("read", es))
  BY NotifiedKeeps, InOrderHas
<1>2. Messages(i, s) = m
  BY DEF Messages
<1> HIDE DEF es
<1>3. DOMAIN es = 1 .. Len(es) /\ Len(es) \in Nat /\ \A j \in 1 .. Len(es) : es[j] \in Events
  BY <1>1, LenProperties, ElementOfSeq
<1>4. m \in [1 .. Len(es) -> Message]
  BY <1>3 DEF Message
<1>5. m \in Seq(Message)
  BY <1>3, <1>4, IsASeq
<1>6. \A j \in DOMAIN es : es[j] = "read" => j \in DOMAIN m /\ m[j] = ReadMessage(i)
  BY DEF ReadMessage
<1> QED BY <1>1, <1>2, <1>5, <1>6 DEF In

\* A set of numbers has a lowest one.
LEMMA LowestIn ==
  ASSUME NEW S \in SUBSET Nat, S # {}
  PROVE  \E n \in S : \A m \in S : ~(m < n)
<1> DEFINE R == OpToRel(<, Nat)
<1>1. IsWellFoundedOn(R, Nat)
  BY NatLessThanWellFounded
<1> HIDE DEF R
<1>2. PICK n \in S : \A m \in S : ~(<<m, n>> \in R)
  BY <1>1, WFMin
<1> USE DEF R
<1>3. \A m \in S : m < n => <<m, n>> \in R
  BY Zenon DEF OpToRel
<1> QED BY <1>2, <1>3

\* The messages of all sockets, one socket after the other: what the recursion
\* of Joined defines.
LEMMA JoinedHas ==
  ASSUME NEW S, NEW ms \in [Slots -> Seq(S)]
  PROVE  /\ Joined(ms) \in Seq(S)
         /\ \A i \in Slots : \A m : In(m, ms[i]) => In(m, Joined(ms))
<1> DEFINE Is(f, n) == f = [i \in 0 .. n |-> IF i = 0 THEN <<>> ELSE f[i - 1] \o ms[i]]
<1>1. NSlots \in Nat /\ NSlots > 0
  BY WinsockAssumption
<1>2. \A n \in 0 .. NSlots : \E f : Is(f, n)
  <2> DEFINE bad == {n \in 0 .. NSlots : ~\E f : Is(f, n)}
  <2> SUFFICES ASSUME bad # {} PROVE FALSE
    OBVIOUS
  <2>1. bad \in SUBSET Nat
    <3>1. 0 .. NSlots \subseteq Nat
      BY <1>1
    <3> QED BY <3>1, Zenon
  <2>2. PICK n \in bad : \A m \in bad : ~(m < n)
    BY <2>1, LowestIn
  <2>3. n \in 0 .. NSlots /\ ~\E f : Is(f, n)
    OBVIOUS
  <2>4. CASE n = 0
    <3> DEFINE f == [i \in 0 .. 0 |-> <<>>]
    <3>1. f = [i \in 0 .. 0 |-> IF i = 0 THEN <<>> ELSE f[i - 1] \o ms[i]]
      OBVIOUS
    <3> QED BY <2>3, <2>4, <3>1
  <2>5. CASE n # 0
    <3>1. n - 1 \in 0 .. NSlots /\ n - 1 < n /\ n \in Nat
      BY <1>1, <2>3, <2>5
    <3>2. n - 1 \notin bad
      BY <2>2, <3>1
    <3>3. PICK f : Is(f, n - 1)
      BY <3>1, <3>2
    <3> DEFINE g == [i \in 0 .. n |-> IF i = n THEN f[n - 1] \o ms[n] ELSE f[i]]
    <3>4. \A i \in 0 .. n - 1 : f[i] = IF i = 0 THEN <<>> ELSE f[i - 1] \o ms[i]
      BY <3>3
    <3>5. \A i \in 0 .. n : g[i] = IF i = 0 THEN <<>> ELSE g[i - 1] \o ms[i]
      <4> TAKE i \in 0 .. n
      <4>1. CASE i = n
        <5>1. i # 0 /\ i - 1 \in 0 .. n /\ i - 1 # n
          BY <2>5, <3>1, <4>1
        <5> QED BY <4>1, <5>1
      <4>2. CASE i # n
        <5>1. i \in 0 .. n - 1 /\ (i # 0 => i - 1 \in 0 .. n /\ i - 1 # n)
          BY <3>1, <4>2
        <5>2. g[i] = f[i] /\ (i # 0 => g[i - 1] = f[i - 1])
          BY <4>2, <5>1
        <5> QED BY <3>4, <5>1, <5>2
      <4> QED BY <4>1, <4>2
    <3>6. g = [i \in 0 .. n |-> g[i]]
      OBVIOUS
    <3> HIDE DEF g
    <3>7. Is(g, n)
      BY <3>5, <3>6
    <3> QED BY <2>3, <3>7
  <2> QED BY <2>4, <2>5
<1> DEFINE Sent == CHOOSE f : Is(f, NSlots)
<1>3. Joined(ms) = Sent[NSlots]
  BY DEF Joined
<1>4. Is(Sent, NSlots)
  <2>1. NSlots \in 0 .. NSlots
    BY <1>1
  <2>2. \E f : Is(f, NSlots)
    BY <1>2, <2>1, Zenon
  <2> QED BY <2>2, Zenon
<1> HIDE DEF Sent
<1>5. \A i \in 0 .. NSlots : Sent[i] = IF i = 0 THEN <<>> ELSE Sent[i - 1] \o ms[i]
  BY <1>4
<1> HIDE DEF Is
<1> DEFINE Has(i) == Sent[i] \in Seq(S) /\ \A j \in Slots : j <= i => \A m : In(m, ms[j]) => In(m, Sent[i])
<1>6. \A i \in 0 .. NSlots : Has(i)
  <2> DEFINE bad == {i \in 0 .. NSlots : ~Has(i)}
  <2> SUFFICES ASSUME bad # {} PROVE FALSE
    OBVIOUS
  <2>1. bad \in SUBSET Nat
    BY <1>1
  <2>2. PICK n \in bad : \A m \in bad : ~(m < n)
    BY <2>1, LowestIn
  <2>3. n \in 0 .. NSlots /\ ~Has(n)
    OBVIOUS
  <2>4. CASE n = 0
    <3>1. Sent[n] = <<>> /\ <<>> \in Seq(S)
      BY <1>5, <2>3, <2>4
    <3>2. \A j \in Slots : ~(j <= n)
      BY <1>1, <2>4 DEF Slots
    <3> QED BY <2>3, <3>1, <3>2
  <2>5. CASE n # 0
    <3>1. n - 1 \in 0 .. NSlots /\ n - 1 < n /\ n \in Slots
      BY <1>1, <2>3, <2>5 DEF Slots
    <3>2. Has(n - 1)
      BY <2>2, <3>1
    <3>3. Sent[n] = Sent[n - 1] \o ms[n] /\ ms[n] \in Seq(S) /\ Sent[n - 1] \in Seq(S)
      BY <1>5, <2>3, <2>5, <3>1, <3>2
    <3>4. /\ Sent[n] \in Seq(S)
          /\ \A m : (In(m, Sent[n - 1]) \/ In(m, ms[n])) => In(m, Sent[n])
      BY <3>3, InBoth
    <3>5. \A j \in Slots : j <= n => j = n \/ j <= n - 1
      BY <1>1, <2>3 DEF Slots
    <3> QED BY <2>3, <3>2, <3>4, <3>5
  <2> QED BY <2>4, <2>5
<1>7. NSlots \in 0 .. NSlots /\ \A i \in Slots : i <= NSlots
  BY <1>1 DEF Slots
<1> QED BY <1>3, <1>6, <1>7

LEMMA TickMessagesHave ==
  ASSUME TypeOK, NEW t \in Tasks
  PROVE  /\ TickMessages(t) \in Seq(Message)
         /\ \A i \in Slots : Mine(t, i) /\ "read" \in PostedEvents(Seen(i)) => In(ReadMessage(i), TickMessages(t))
<1> DEFINE ms == [i \in Slots |-> IF Mine(t, i) THEN Messages(i, Seen(i)) ELSE <<>>]
<1>1. \A i \in Slots : /\ Messages(i, Seen(i)) \in Seq(Message)
                       /\ "read" \in PostedEvents(Seen(i)) => In(ReadMessage(i), Messages(i, Seen(i)))
  <2> TAKE i \in Slots
  <2>1. SockT(sk[i], dev[i])
    BY DEF TypeOK, SockT
  <2>2. SockT(Seen(i), PumpedDev(sk[i], dev[i]))
    BY <2>1, PumpKeeps DEF Seen, Keeps
  <2> QED BY <2>2, MessagesHave
<1>2. ms \in [Slots -> Seq(Message)]
  BY <1>1
<1>3. TickMessages(t) = Joined(ms)
  BY DEF TickMessages
<1>4. \A i \in Slots : Mine(t, i) => ms[i] = Messages(i, Seen(i))
  OBVIOUS
<1> HIDE DEF ms
<1> QED BY <1>1, <1>2, <1>3, <1>4, JoinedHas

\* What is posted to a queue that has not overflowed is in it.
MsgOK ==
  /\ queue' \in [Tasks -> Seq(Message)] /\ (\A t \in Tasks : Len(queue'[t]) <= habit.queue)
  /\ lost' \subseteq Tasks

LEMMA EnqueueHas ==
  ASSUME TypeOK, NEW t \in Tasks, NEW ms \in Seq(Message), Enqueue(t, ms)
  PROVE  /\ MsgOK /\ lost \subseteq lost'
         /\ \A u \in Tasks \ lost' : \A m : In(m, queue[u]) => In(m, queue'[u])
         /\ t \notin lost' => \A m : In(m, ms) => In(m, queue'[t])
<1> DEFINE all == queue[t] \o ms
           n == Least(habit.queue, Len(all))
<1>1. queue \in [Tasks -> Seq(Message)] /\ (\A u \in Tasks : Len(queue[u]) <= habit.queue) /\ lost \subseteq Tasks
      /\ queue[t] \in Seq(Message) /\ habit.queue \in Nat
  BY WinsockAssumption DEF TypeOK, Message
<1>2. all \in Seq(Message) /\ \A m : (In(m, queue[t]) \/ In(m, ms)) => In(m, all)
  BY <1>1, InBoth
<1>3. /\ queue' = [queue EXCEPT ![t] = SubSeq(all, 1, n)]
      /\ lost' = IF Len(all) > habit.queue THEN lost \cup {t} ELSE lost
  BY DEF Enqueue
<1> HIDE DEF all
<1>4. SubSeq(all, 1, n) \in Seq(Message) /\ Len(SubSeq(all, 1, n)) = n /\ n <= habit.queue /\ Len(all) \in Nat
  BY <1>1, <1>2, Parts, LenProperties
<1>5. MsgOK /\ lost \subseteq lost'
  BY <1>1, <1>3, <1>4 DEF MsgOK
<1>6. t \notin lost' => SubSeq(all, 1, n) = all
  <2>1. t \notin lost' => ~(Len(all) > habit.queue)
    BY <1>3
  <2>2. t \notin lost' => n = Len(all)
    BY <1>1, <1>4, <2>1 DEF Least
  <2>3. SubSeq(all, 1, Len(all)) = all
    BY <1>2, SubSeqFull
  <2> HIDE DEF n
  <2> QED BY <2>2, <2>3
<1>7. queue'[t] = SubSeq(all, 1, n) /\ \A u \in Tasks : u # t => queue'[u] = queue[u]
  BY <1>1, <1>3
<1> QED BY <1>2, <1>5, <1>6, <1>7

LEMMA TypesUsed ==
  ASSUME TypeOK
  PROVE  /\ \A i \in Slots : SockT(sk[i], dev[i]) /\ sk[i].owner \in Tasks
         /\ sk = [i \in Slots |-> sk[i]] /\ dev = [i \in Slots |-> dev[i]]
         /\ \A n \in Lens : n \in Nat
BY WinsockAssumption DEF TypeOK, SockT, SockRec, Lens

-----------------------------------------------------------------------------
(* Steps that do something to a socket and its handle.                     *)

Slides == /\ sk' = [i \in Slots |-> sk'[i]] /\ dev' = [i \in Slots |-> dev'[i]]
          /\ \A i \in Slots : Keeps(sk[i], dev[i], sk'[i], dev'[i])
Quietly == \A i \in Slots : Quiet(sk[i], sk'[i])
CallOK == blocked' \in Call \cup {NoCall} /\ cancel' \in BOOLEAN
NoneWaits == \A i \in Slots : Using(sk[i]) => sk[i].nonblock

LEMMA OneSlides ==
  ASSUME TypeOK, NEW i \in Slots, NEW t, NEW l, Keeps(sk[i], dev[i], t, l),
         sk' = [sk EXCEPT ![i] = t], dev' = [dev EXCEPT ![i] = l]
  PROVE  Slides /\ (Quiet(sk[i], t) => Quietly) /\ sk'[i] = t
<1>1. sk'[i] = t /\ dev'[i] = l /\ \A j \in Slots \ {i} : sk'[j] = sk[j] /\ dev'[j] = dev[j]
  BY TypesUsed
<1>2. \A j \in Slots : Keeps(sk[j], dev[j], sk[j], dev[j]) /\ Quiet(sk[j], sk[j])
  BY TypesUsed, KeepsSame
<1>3. sk' = [j \in Slots |-> sk'[j]] /\ dev' = [j \in Slots |-> dev'[j]]
  BY TypesUsed
<1> QED BY <1>1, <1>2, <1>3 DEF Slides, Quietly

LEMMA NoneSlides ==
  ASSUME TypeOK, UNCHANGED <<sk, dev>>
  PROVE  Slides /\ Quietly
BY TypesUsed, KeepsSame DEF Slides, Quietly

LEMMA ShutdownSlides ==
  ASSUME TypeOK, NEW i \in Slots, NEW rd \in BOOLEAN, NEW wr \in BOOLEAN, Shutdown(i, rd, wr)
  PROVE  Slides /\ Quietly
<1> DEFINE r == sk[i].rdShut \/ rd
           w == sk[i].wrShut \/ wr
           t == [sk[i] EXCEPT !.rdShut = r, !.wrShut = w]
<1>1. SockT(sk[i], dev[i]) /\ r \in BOOLEAN /\ w \in BOOLEAN /\ (sk[i].rdShut => r)
  BY TypesUsed DEF SockT, SockRec
<1>2. sk' = [sk EXCEPT ![i] = t] /\ dev' = [dev EXCEPT ![i] = dev[i]]
  BY TypesUsed DEF Shutdown
<1> HIDE DEF r, w
<1>3. Keeps(sk[i], dev[i], t, dev[i]) /\ Quiet(sk[i], t)
  BY <1>1, FlagsKeep
<1> QED BY <1>2, <1>3, OneSlides

LEMMA SetBlockingSlides ==
  ASSUME TypeOK, NEW i \in Slots, NEW b \in BOOLEAN, SetBlocking(i, b)
  PROVE  Slides
<1> DEFINE t == [sk[i] EXCEPT !.nonblock = b]
<1>1. SockT(sk[i], dev[i])
  BY TypesUsed
<1>2. sk' = [sk EXCEPT ![i] = t] /\ dev' = [dev EXCEPT ![i] = dev[i]]
  BY TypesUsed DEF SetBlocking
<1>3. Keeps(sk[i], dev[i], t, dev[i])
  BY <1>1, FlagsKeep
<1> QED BY <1>2, <1>3, OneSlides

LEMMA AskReadableSlides ==
  ASSUME TypeOK, NEW i \in Slots, AskReadable(i)
  PROVE  Slides /\ Quietly
<1>1. SockT(sk[i], dev[i])
  BY TypesUsed
<1>2. sk' = [sk EXCEPT ![i] = PumpedSock(sk[i], dev[i])] /\ dev' = [dev EXCEPT ![i] = PumpedDev(sk[i], dev[i])]
  BY DEF AskReadable
<1> QED BY <1>1, <1>2, PumpKeeps, OneSlides

\* recv waits only on a socket that is not nonblocking, and what it leaves of
\* the buffer is not latched as announced.
LEMMA ReceiveSlides ==
  ASSUME TypeOK, NEW t \in Tasks, NEW i \in Slots, NEW len \in Nat, NEW peek \in BOOLEAN, Receive(t, i, len, peek)
  PROVE  /\ Slides /\ Quietly /\ CallOK
         /\ NoneWaits => blocked' = blocked
         /\ Tidy(sk[i], dev[i]) /\ peek = FALSE => "read" \notin sk'[i].posted
<1> DEFINE r == Reached(sk[i])
           s == PumpedSock(r, dev[i])
           l == PumpedDev(r, dev[i])
           u == IF s.rx # <<>> /\ ~peek THEN Take(s, len) ELSE s
<1>1. SockT(sk[i], dev[i]) /\ Using(sk[i]) /\ blocked = NoCall
  BY TypesUsed DEF Receive, Receiving, NoReentry, Using
<1>2. Keeps(sk[i], dev[i], r, dev[i]) /\ Quiet(sk[i], r) /\ SockT(r, dev[i]) /\ r.state = "open"
  <2>1. Keeps(sk[i], dev[i], r, dev[i]) /\ Quiet(sk[i], r)
    BY <1>1, ReachedKeeps
  <2>2. r.state = "open"
    BY <1>1 DEF Reached, Using, SockT, SockRec
  <2> QED BY <2>1, <2>2 DEF Keeps
<1>3. Keeps(r, dev[i], s, l) /\ Quiet(r, s) /\ SockT(s, l)
  BY <1>2, PumpKeeps DEF Keeps
<1>4. sk' = [sk EXCEPT ![i] = u] /\ dev' = [dev EXCEPT ![i] = l]
  BY DEF Receive
<1>5. IF s.rx = <<>> /\ ~s.failed /\ ~s.peerClosed /\ ~s.nonblock
      THEN blocked' = [task |-> t, slot |-> i, call |-> "recv"] /\ cancel' = FALSE
      ELSE UNCHANGED <<blocked, cancel>>
  BY DEF Receive
<1> HIDE DEF r, s, l
<1>6. Keeps(s, l, Take(s, len), l) /\ Quiet(s, Take(s, len)) /\ Keeps(s, l, s, l) /\ Quiet(s, s)
  BY <1>3, TakeKeeps, KeepsSame
<1>7. Keeps(sk[i], dev[i], s, l) /\ Quiet(sk[i], s)
  BY <1>2, <1>3, KeepsTwice, QuietTwice
<1>8. Keeps(sk[i], dev[i], u, l) /\ Quiet(sk[i], u)
  BY <1>6, <1>7, KeepsTwice, QuietTwice
<1>9. Slides /\ Quietly /\ sk'[i] = u
  <2> HIDE DEF u
  <2> QED BY <1>4, <1>8, OneSlides
<1>10. CallOK
  <2>1. [task |-> t, slot |-> i, call |-> "recv"] \in Call /\ blocked \in Call \cup {NoCall} /\ cancel \in BOOLEAN
    BY DEF Call, TypeOK
  <2> QED BY <1>5, <2>1 DEF CallOK
<1>11. NoneWaits => blocked' = blocked
  BY <1>1, <1>5, <1>7 DEF NoneWaits, Quiet
<1>12. Tidy(sk[i], dev[i]) /\ peek = FALSE => "read" \notin u.posted
  <2>1. Tidy(sk[i], dev[i]) => Tidy(s, l)
    BY <1>7 DEF Keeps
  <2>2. s.state = "open"
    BY <1>2, <1>3 DEF Keeps
  <2>3. "read" \notin Take(s, len).posted
    <3>1. s \in SockRec
      BY <1>3 DEF SockT
    <3> QED BY <3>1 DEF Take, SockRec
  <2> QED BY <2>1, <2>2, <2>3 DEF Tidy, Using
<1> QED BY <1>9, <1>10, <1>11, <1>12

LEMMA RecvSlides ==
  ASSUME TypeOK, NEW i \in Slots, NEW len \in Nat, NEW peek \in BOOLEAN, Recv(i, len, peek)
  PROVE  Slides /\ Quietly /\ CallOK /\ (NoneWaits => blocked' = blocked)
<1>1. CASE Receive(sk[i].owner, i, len, peek)
  BY <1>1, TypesUsed, ReceiveSlides
<1>2. CASE sk' = [sk EXCEPT ![i] = Reached(@)] /\ UNCHANGED <<dev, blocked, cancel>>
  <2>1. sk' = [sk EXCEPT ![i] = Reached(sk[i])] /\ dev' = [dev EXCEPT ![i] = dev[i]] /\ SockT(sk[i], dev[i])
    BY <1>2, TypesUsed
  <2>2. Slides /\ Quietly
    BY <2>1, ReachedKeeps, OneSlides
  <2> QED BY <1>2, <2>2 DEF CallOK, TypeOK
<1> QED BY <1>1, <1>2 DEF Recv

LEMMA ScanSlides ==
  ASSUME TypeOK, NEW i \in Slots, NEW set, SelectScan(i, set)
  PROVE  Slides /\ Quietly
<1>1. SockT(sk[i], dev[i])
  BY TypesUsed
<1> DEFINE p == PumpedSock(sk[i], dev[i])
           l == PumpedDev(sk[i], dev[i])
           t == SelectSock(sk[i], dev[i], set)
           m == SelectDev(sk[i], dev[i], set)
<1>2. Keeps(sk[i], dev[i], p, l) /\ Quiet(sk[i], p) /\ SockT(p, l)
  BY <1>1, PumpKeeps DEF Keeps
<1>3. Keeps(p, l, Reached(p), l) /\ Quiet(p, Reached(p))
  BY <1>2, ReachedKeeps
<1>4. Keeps(sk[i], dev[i], sk[i], dev[i]) /\ Quiet(sk[i], sk[i])
  BY <1>1, KeepsSame
<1>5. /\ set # "write" => t = p /\ m = l
      /\ set = "write" /\ sk[i].state # "connect" => t = sk[i] /\ m = dev[i]
      /\ set = "write" /\ sk[i].state = "connect" => t \in {p, Reached(p)} /\ m = l
  BY DEF SelectSock, SelectDev
<1> HIDE DEF p, l, t, m
<1>6. Keeps(sk[i], dev[i], t, m) /\ Quiet(sk[i], t)
  <2>1. Keeps(sk[i], dev[i], Reached(p), l) /\ Quiet(sk[i], Reached(p))
    BY <1>2, <1>3, KeepsTwice, QuietTwice
  <2> QED BY <1>2, <1>4, <1>5, <2>1
<1>7. CASE Used(i)
  <2>1. sk' = [sk EXCEPT ![i] = t] /\ dev' = [dev EXCEPT ![i] = m]
    BY <1>7 DEF SelectScan, t, m
  <2> QED BY <1>6, <2>1, OneSlides
<1>8. CASE ~Used(i)
  <2>1. UNCHANGED <<sk, dev>>
    BY <1>8, TypesUsed DEF SelectScan
  <2> QED BY <2>1, NoneSlides
<1> QED BY <1>7, <1>8

LEMMA SelectSlides ==
  ASSUME TypeOK, NEW i \in Slots, NEW set \in {"read", "write", "except"}, NEW wait \in BOOLEAN, Select(i, set, wait)
  PROVE  Slides /\ Quietly /\ CallOK /\ (wait = FALSE => blocked' = blocked)
<1>1. Slides /\ Quietly
  BY ScanSlides DEF Select
<1>2. [task |-> sk[i].owner, slot |-> i, call |-> set] \in Call
  BY TypesUsed DEF Call
<1>3. \/ UNCHANGED <<blocked, cancel>>
      \/ wait = TRUE /\ blocked' = [task |-> sk[i].owner, slot |-> i, call |-> set] /\ cancel' = FALSE
  BY DEF Select
<1> QED BY <1>1, <1>2, <1>3 DEF CallOK, TypeOK

LEMMA TurnSlides ==
  ASSUME TypeOK, Turn
  PROVE  Slides /\ Quietly /\ CallOK /\ blocked # NoCall
<1>1. NoCall \in Call \cup {NoCall} /\ blocked \in Call \cup {NoCall} /\ cancel \in BOOLEAN
  BY DEF TypeOK
<1>2. blocked # NoCall /\ CallOK
  BY <1>1 DEF Turn, TurnCancelled, TurnRecv, TurnSelect, BlockEnd, CallOK
<1>3. blocked.slot \in Slots
  BY <1>1, <1>2 DEF Call
<1> DEFINE i == blocked.slot
<1>4. CASE TurnCancelled
  BY <1>2, <1>4, NoneSlides DEF TurnCancelled
<1>5. ASSUME NEW len \in Lens, TurnRecv(len)
      PROVE  Slides /\ Quietly
  <2> DEFINE s == PumpedSock(sk[i], dev[i])
             l == PumpedDev(sk[i], dev[i])
             t == IF s.rx # <<>> THEN Take(s, len) ELSE s
  <2>1. SockT(sk[i], dev[i]) /\ len \in Nat
    BY <1>3, TypesUsed
  <2>2. Keeps(sk[i], dev[i], s, l) /\ Quiet(sk[i], s) /\ SockT(s, l)
    BY <2>1, PumpKeeps DEF Keeps
  <2>3. sk' = [sk EXCEPT ![i] = t] /\ dev' = [dev EXCEPT ![i] = l]
    BY <1>5 DEF TurnRecv
  <2> HIDE DEF s, l
  <2>4. Keeps(s, l, Take(s, len), l) /\ Quiet(s, Take(s, len))
    BY <2>1, <2>2, TakeKeeps
  <2>5. Keeps(sk[i], dev[i], t, l) /\ Quiet(sk[i], t)
    BY <2>2, <2>4, KeepsTwice, QuietTwice
  <2> HIDE DEF t
  <2> QED BY <1>3, <2>3, <2>5, OneSlides
<1>6. ASSUME NEW timeout \in BOOLEAN, TurnSelect(timeout)
      PROVE  Slides /\ Quietly
  BY <1>3, <1>6, ScanSlides DEF TurnSelect
<1> QED BY <1>2, <1>4, <1>5, <1>6 DEF Turn

LEMMA TickSlides ==
  ASSUME TypeOK, NEW t \in Tasks, Tick(t)
  PROVE  /\ Slides /\ MsgOK
         /\ \A i \in Slots : sk'[i] = IF Mine(t, i) THEN Notified(Seen(i)) ELSE sk[i]
<1>1. \A i \in Slots : sk'[i] = IF Mine(t, i) THEN Notified(Seen(i)) ELSE sk[i]
  BY DEF Tick
<1>2. \A i \in Slots : Keeps(sk[i], dev[i], sk'[i], dev'[i])
  <2> TAKE i \in Slots
  <2>1. SockT(sk[i], dev[i])
    BY TypesUsed
  <2>2. CASE Mine(t, i)
    <3>1. Keeps(sk[i], dev[i], Seen(i), PumpedDev(sk[i], dev[i]))
      BY <2>1, PumpKeeps DEF Seen
    <3>2. Keeps(Seen(i), PumpedDev(sk[i], dev[i]), Notified(Seen(i)), PumpedDev(sk[i], dev[i]))
      BY <3>1, NotifiedKeeps DEF Keeps
    <3>3. sk'[i] = Notified(Seen(i)) /\ dev'[i] = PumpedDev(sk[i], dev[i])
      BY <2>2 DEF Tick
    <3> QED BY <3>1, <3>2, <3>3, KeepsTwice
  <2>3. CASE ~Mine(t, i)
    <3>1. sk'[i] = sk[i] /\ dev'[i] = dev[i]
      BY <2>3 DEF Tick
    <3> QED BY <2>1, <3>1, KeepsSame
  <2> QED BY <2>2, <2>3
<1>3. sk' = [i \in Slots |-> sk'[i]] /\ dev' = [i \in Slots |-> dev'[i]]
  BY DEF Tick
<1>4. MsgOK
  BY TickMessagesHave, EnqueueHas DEF Tick
<1> QED BY <1>1, <1>2, <1>3, <1>4 DEF Slides

LEMMA AsyncSelectSlides ==
  ASSUME TypeOK, NEW i \in Slots, NEW events \in habit.events, AsyncSelect(i, events)
  PROVE  LET s == Asking(sk[i], events)
         IN  /\ Slides /\ MsgOK /\ SockT(s, dev[i]) /\ s.owner = sk[i].owner
             /\ \A j \in Slots \ {i} : sk'[j] = sk[j]
             /\ IF events = {} THEN sk'[i] = s /\ UNCHANGED msgVars
                ELSE sk'[i] = Notified(s) /\ Enqueue(s.owner, Messages(i, s)) /\ Messages(i, s) \in Seq(Message)
<1> DEFINE s == Asking(sk[i], events)
<1>1. SockT(sk[i], dev[i]) /\ sk[i].owner \in Tasks /\ events \in SUBSET Events
  BY TypesUsed, EventSetsAssumption DEF TypeOK
<1>2. Keeps(sk[i], dev[i], s, dev[i]) /\ SockT(s, dev[i]) /\ s.owner = sk[i].owner
  BY <1>1, AskingKeeps DEF Keeps
<1>3. /\ IF events = {} THEN sk' = [sk EXCEPT ![i] = s] /\ UNCHANGED msgVars
         ELSE sk' = [sk EXCEPT ![i] = Notified(s)] /\ Enqueue(s.owner, Messages(i, s))
      /\ dev' = dev
  BY DEF AsyncSelect, Asking
<1> HIDE DEF s
<1>4. Keeps(sk[i], dev[i], Notified(s), dev[i]) /\ Messages(i, s) \in Seq(Message)
  <2>1. Keeps(s, dev[i], Notified(s), dev[i]) /\ Messages(i, s) \in Seq(Message)
    BY <1>2, NotifiedKeeps, MessagesHave
  <2> QED BY <1>2, <2>1, KeepsTwice
<1>5. dev' = [dev EXCEPT ![i] = dev[i]]
  BY <1>3, TypesUsed
<1>6. MsgOK
  <2>1. events = {} => MsgOK
    BY <1>3 DEF msgVars, MsgOK, TypeOK, Message
  <2> QED BY <1>1, <1>2, <1>3, <1>4, <2>1, EnqueueHas
<1>7. (\A j \in Slots \ {i} : sk'[j] = sk[j]) /\ sk'[i] = IF events = {} THEN s ELSE Notified(s)
  BY <1>3, TypesUsed
<1>8. Slides
  BY <1>2, <1>3, <1>4, <1>5, OneSlides
<1> QED BY <1>2, <1>3, <1>4, <1>6, <1>7, <1>8 DEF s

LEMMA TailHas ==
  ASSUME NEW S, NEW q \in Seq(S), q # <<>>
  PROVE  /\ Tail(q) \in Seq(S) /\ Len(Tail(q)) <= Len(q) /\ Head(q) \in S
         /\ \A m : In(m, q) /\ m # Head(q) => In(m, Tail(q))
<1>1. /\ Tail(q) \in Seq(S) /\ Head(q) = q[1] /\ Len(q) \in Nat /\ Len(q) >= 1 /\ Len(Tail(q)) = Len(q) - 1
      /\ DOMAIN q = 1 .. Len(q) /\ DOMAIN Tail(q) = 1 .. Len(q) - 1
      /\ \A j \in 1 .. Len(q) - 1 : Tail(q)[j] = q[j + 1]
  OBVIOUS
<1>2. ASSUME NEW j \in DOMAIN q, q[j] # Head(q)
      PROVE  In(q[j], Tail(q))
  <2>1. j - 1 \in 1 .. Len(q) - 1 /\ (j - 1) + 1 = j
    BY <1>1, <1>2
  <2>2. Tail(q)[j - 1] = q[j]
    BY <1>1, <2>1
  <2> QED BY <1>1, <2>1, <2>2 DEF In
<1> QED BY <1>1, <1>2 DEF In

LEMMA OnMessageSlides ==
  ASSUME TypeOK, NEW t \in Tasks, NEW len \in Nat, OnMessage(t, len)
  PROVE  LET m == Head(queue[t])
         IN  /\ Slides /\ Quietly /\ MsgOK /\ CallOK /\ (NoneWaits => blocked' = blocked)
             /\ queue' = [queue EXCEPT ![t] = Tail(queue[t])] /\ queue[t] \in Seq(Message) /\ queue[t] # <<>>
             /\ \A i \in Slots : m = ReadMessage(i) /\ Receiving(t, i) /\ Tidy(sk[i], dev[i]) => "read" \notin sk'[i].posted
<1> DEFINE m == Head(queue[t])
<1>1. queue \in [Tasks -> Seq(Message)] /\ queue[t] \in Seq(Message) /\ queue[t] # <<>> /\ habit.queue \in Nat
      /\ queue' = [queue EXCEPT ![t] = Tail(queue[t])] /\ lost' = lost /\ \A u \in Tasks : Len(queue[u]) <= habit.queue
  BY WinsockAssumption DEF OnMessage, TypeOK, Message
<1>2. Tail(queue[t]) \in Seq(Message) /\ Len(Tail(queue[t])) <= Len(queue[t]) /\ m \in Message
      /\ Len(queue[t]) \in Nat /\ Len(Tail(queue[t])) \in Nat
  BY <1>1, TailHas, LenProperties
<1>3. MsgOK
  BY <1>1, <1>2 DEF MsgOK, TypeOK
<1>4. m.slot \in Slots
  BY <1>2 DEF Message
<1>5. IF m.event = "read" /\ Receiving(t, m.slot) THEN Receive(t, m.slot, len, FALSE)
      ELSE UNCHANGED <<sk, dev, blocked, cancel>>
  BY DEF OnMessage
<1> HIDE DEF m
<1>6. CASE m.event = "read" /\ Receiving(t, m.slot)
  <2>1. Receive(t, m.slot, len, FALSE)
    BY <1>5, <1>6
  <2>2. /\ Slides /\ Quietly /\ CallOK /\ (NoneWaits => blocked' = blocked)
        /\ Tidy(sk[m.slot], dev[m.slot]) => "read" \notin sk'[m.slot].posted
    BY <1>4, <2>1, ReceiveSlides
  <2>3. \A i \in Slots : m = ReadMessage(i) => m.slot = i
    BY DEF ReadMessage
  <2> QED BY <1>1, <1>3, <2>2, <2>3 DEF m
<1>7. CASE ~(m.event = "read" /\ Receiving(t, m.slot))
  <2>1. Slides /\ Quietly /\ CallOK /\ blocked' = blocked
    BY <1>5, <1>7, NoneSlides DEF CallOK, TypeOK
  <2>2. \A i \in Slots : m = ReadMessage(i) => m.slot = i /\ m.event = "read"
    BY DEF ReadMessage
  <2> QED BY <1>1, <1>3, <1>7, <2>1, <2>2 DEF m
<1> QED BY <1>6, <1>7

LEMMA SendSlides ==
  ASSUME TypeOK, NEW i \in Slots, SendRequest(i)
  PROVE  Slides /\ Quietly
<1>1. SockT(sk[i], dev[i])
  BY TypesUsed
<1>2. sk' = [sk EXCEPT ![i] = Reached(sk[i])] /\ dev' = [dev EXCEPT ![i] = dev[i]]
  BY TypesUsed DEF SendRequest
<1> QED BY <1>1, <1>2, ReachedKeeps, OneSlides

\* The steps that are nothing but that, and the others.
Inside == Slides /\ CallOK /\ MsgOK /\ UNCHANGED <<refs, hostVars>>

LEMMA Kinds ==
  ASSUME TypeOK, Next, UNCHANGED habit
  PROVE  \/ Inside
         \/ \E t \in Tasks : Startup(t) \/ Cleanup(t) \/ Socket(t)
         \/ \E i \in Slots : CloseSocket(i) \/ ConnectSock(i) \/ SendRequest(i)
         \/ PageAnswers
<1>1. UNCHANGED msgVars => MsgOK
  BY DEF msgVars, MsgOK, TypeOK, Message
<1>2. UNCHANGED <<blocked, cancel>> => CallOK
  BY DEF CallOK, TypeOK
<1>3. ASSUME NEW t \in Tasks, Tick(t)
      PROVE  Inside
  BY <1>2, <1>3, TickSlides DEF Inside, Tick, winVars
<1>4. ASSUME NEW t \in Tasks, TakeMessage(t)
      PROVE  Inside
  BY <1>4, TypesUsed, OnMessageSlides DEF Inside, TakeMessage, OnMessage
<1>5. CASE CancelBlockingCall
  BY <1>1, <1>5, NoneSlides DEF CancelBlockingCall, Inside, CallOK, TypeOK
<1>6. CASE Turn
  <2>1. UNCHANGED <<refs, msgVars, hostVars>>
    BY <1>6 DEF Turn, TurnCancelled, TurnRecv, TurnSelect
  <2> QED BY <1>1, <1>6, <2>1, TurnSlides DEF Inside
<1>7. ASSUME NEW i \in Slots, ApiCall(i)
      PROVE  Inside \/ CloseSocket(i) \/ ConnectSock(i) \/ SendRequest(i)
  <2>1. ASSUME NEW rd \in BOOLEAN, NEW wr \in BOOLEAN, Shutdown(i, rd, wr)
        PROVE  Inside
    BY <1>1, <1>2, <2>1, ShutdownSlides DEF Shutdown, Inside, winVars
  <2>2. ASSUME NEW b \in BOOLEAN, SetBlocking(i, b)
        PROVE  Inside
    BY <1>1, <1>2, <2>2, SetBlockingSlides DEF SetBlocking, Inside, winVars
  <2>3. CASE AskReadable(i)
    BY <1>1, <1>2, <2>3, AskReadableSlides DEF AskReadable, Inside, winVars
  <2>4. ASSUME NEW events \in habit.events, AsyncSelect(i, events)
        PROVE  Inside
    <3>1. UNCHANGED <<winVars, hostVars>>
      BY <2>4 DEF AsyncSelect
    <3> QED BY <1>2, <2>4, <3>1, AsyncSelectSlides DEF Inside, winVars
  <2>5. ASSUME NEW len \in Lens, NEW peek \in BOOLEAN, Recv(i, len, peek)
        PROVE  Inside
    BY <1>1, <2>5, TypesUsed, RecvSlides DEF Recv, Inside
  <2>6. ASSUME NEW set \in {"read", "write", "except"}, NEW wait \in BOOLEAN, Select(i, set, wait)
        PROVE  Inside
    BY <1>1, <2>6, SelectSlides DEF Select, Inside
  <2> QED BY <1>7, <2>1, <2>2, <2>3, <2>4, <2>5, <2>6 DEF ApiCall
<1> QED BY <1>3, <1>4, <1>5, <1>6, <1>7 DEF Next

-----------------------------------------------------------------------------
(* Type correctness.                                                       *)

SkOK == /\ sk \in [Slots -> SockRec] /\ \A i \in Slots : Len(sk[i].rx) <= RxCap
        /\ dev \in [Slots -> Handle({"peer"}, Byte)]
HostOK == /\ page \in [Slots -> {"none", "open", "sent"}]
          /\ fetches \subseteq [slot : Slots, own : BOOLEAN] /\ orphaned \subseteq Slots

LEMMA SlidesType == Slides => SkOK'
BY DEF Slides, Keeps, SockT, SkOK

LEMMA BlankType == Blank \in Handle({"peer"}, Byte)
BY DEF Blank, Handle, SockStates

LEMMA FreeType ==
  ASSUME NEW t \in Tasks
  PROVE  /\ Free \in SockRec /\ Free.rx = <<>>
         /\ LET u == [Free EXCEPT !.state = "unbound", !.owner = t]
            IN  /\ u \in SockRec /\ u.rx = <<>> /\ u.state = "unbound" /\ u.owner = t /\ u.posted = {}
                /\ ~u.peerClosed /\ ~u.failed /\ ~u.async
<1>1. (CHOOSE u \in Tasks : TRUE) \in Tasks
  OBVIOUS
<1>2. <<>> \in Seq(Byte)
  OBVIOUS
<1>3. Free \in SockRec /\ Free.rx = <<>> /\ Free.posted = {} /\ ~Free.peerClosed /\ ~Free.failed /\ ~Free.async
  BY <1>1, <1>2 DEF Free, SockRec
<1> QED BY <1>3 DEF SockRec

\* closesocket, and WSACleanup.
LEMMA ClosedSlots ==
  ASSUME TypeOK, NEW S \in SUBSET Slots, CloseSlots(S)
  PROVE  LET opened == {i \in S : sk[i].state \in {"connect", "open", "dead"}}
         IN  /\ SkOK' /\ HostOK'
             /\ \A i \in Slots \ S : sk'[i] = sk[i]
             /\ \A i \in S : sk'[i].state = "free"
             /\ \A i \in Slots : IF i \in opened THEN dev'[i] = Blank /\ page'[i] = "none"
                                  ELSE dev'[i] = dev[i] /\ page'[i] = page[i]
             /\ \A g \in fetches' : \E f \in fetches : g.slot = f.slot /\ (g.own <=> (f.own /\ f.slot \notin opened))
             /\ orphaned \subseteq orphaned' /\ \A f \in fetches : f.own /\ f.slot \in opened => f.slot \in orphaned'
<1> DEFINE opened == {i \in S : sk[i].state \in {"connect", "open", "dead"}}
           late == {f.slot : f \in {f \in fetches : f.own}} \cap opened
<1>1. /\ sk' = [i \in Slots |-> IF i \in S THEN [sk[i] EXCEPT !.state = "free"] ELSE sk[i]]
      /\ dev' = [i \in Slots |-> IF i \in opened THEN CloseCmd(dev[i]) ELSE dev[i]]
      /\ page' = [i \in Slots |-> IF i \in opened THEN "none" ELSE page[i]]
      /\ fetches' = {[f EXCEPT !.own = @ /\ f.slot \notin opened] : f \in fetches}
      /\ orphaned' = orphaned \cup late
  BY Zenon DEF CloseSlots
<1>2. opened \subseteq Slots /\ late \subseteq opened /\ \A f \in fetches : f.own /\ f.slot \in opened => f.slot \in late
  OBVIOUS
<1> HIDE DEF opened, late
<1>3. \A i \in S : [sk[i] EXCEPT !.state = "free"] \in SockRec /\ [sk[i] EXCEPT !.state = "free"].rx = sk[i].rx
                   /\ [sk[i] EXCEPT !.state = "free"].state = "free"
  BY DEF TypeOK, SockRec
<1>4. SkOK'
  BY <1>1, <1>3, BlankType DEF SkOK, TypeOK, CloseCmd
<1>5. \A g \in fetches' : \E f \in fetches : g = [slot |-> f.slot, own |-> f.own /\ f.slot \notin opened]
  BY <1>1 DEF TypeOK
<1>6. \A g \in fetches' : /\ g \in [slot : Slots, own : BOOLEAN]
                         /\ \E f \in fetches : g.slot = f.slot /\ (g.own <=> (f.own /\ f.slot \notin opened))
  <2> TAKE g \in fetches'
  <2>1. PICK f \in fetches : g = [slot |-> f.slot, own |-> f.own /\ f.slot \notin opened]
    BY <1>5
  <2>2. f.slot \in Slots
    BY DEF TypeOK
  <2> DEFINE o == f.own /\ f.slot \notin opened
  <2>3. o \in BOOLEAN
    BY Zenon
  <2> HIDE DEF o
  <2>4. g = [slot |-> f.slot, own |-> o]
    BY <2>1 DEF o
  <2>5. g \in [slot : Slots, own : BOOLEAN] /\ g.slot = f.slot /\ g.own = o
    BY <2>2, <2>3, <2>4
  <2>6. g.own <=> (f.own /\ f.slot \notin opened)
    BY <2>5, Zenon DEF o
  <2> QED BY <2>5, <2>6
<1>7. HostOK'
  BY <1>1, <1>2, <1>6 DEF HostOK, TypeOK
<1>8. \A g \in fetches' : \E f \in fetches : g.slot = f.slot /\ (g.own <=> (f.own /\ f.slot \notin opened))
  BY <1>6
<1>9. \A i \in Slots : sk'[i] = IF i \in S THEN [sk[i] EXCEPT !.state = "free"] ELSE sk[i]
  BY <1>1
<1>10. \A i \in Slots : IF i \in opened THEN dev'[i] = Blank /\ page'[i] = "none"
                         ELSE dev'[i] = dev[i] /\ page'[i] = page[i]
  BY <1>1 DEF CloseCmd
<1>11. orphaned \subseteq orphaned' /\ \A f \in fetches : f.own /\ f.slot \in opened => f.slot \in orphaned'
  BY <1>1, <1>2
<1> QED BY <1>3, <1>4, <1>7, <1>8, <1>9, <1>10, <1>11 DEF opened

\* socket() and connect.
LEMMA SocketMade ==
  ASSUME TypeOK, NEW t \in Tasks, Socket(t)
  PROVE  \E i \in Slots :
           LET u == [Free EXCEPT !.state = "unbound", !.owner = t]
           IN  /\ sk[i].state = "free" /\ sk' = [sk EXCEPT ![i] = u] /\ SkOK'
               /\ sk'[i] = u /\ \A j \in Slots \ {i} : sk'[j] = sk[j]
<1> DEFINE u == [Free EXCEPT !.state = "unbound", !.owner = t]
<1>1. PICK i \in Slots : sk[i].state = "free" /\ sk' = [sk EXCEPT ![i] = u]
  BY DEF Socket, Used
<1>2. u \in SockRec /\ u.rx = <<>> /\ dev' = dev
  BY FreeType DEF Socket
<1> HIDE DEF u
<1>3. Len(<<>>) <= RxCap
  BY WinsockAssumption
<1>4. SkOK'
  BY <1>1, <1>2, <1>3 DEF SkOK, TypeOK
<1>5. sk'[i] = u /\ \A j \in Slots \ {i} : sk'[j] = sk[j]
  BY <1>1, TypesUsed
<1> QED BY <1>1, <1>4, <1>5 DEF u

LEMMA ConnectMade ==
  ASSUME TypeOK, NEW i \in Slots, ConnectSock(i)
  PROVE  /\ SkOK' /\ sk[i].state = "unbound" /\ page' = [page EXCEPT ![i] = "open"]
         /\ \A j \in Slots \ {i} : sk'[j] = sk[j] /\ dev'[j] = dev[j]
         /\ sk'[i].state \in {"connect", "open"} /\ sk'[i].rx = <<>> /\ dev'[i] = [Blank EXCEPT !.state = "working"]
         /\ sk'[i].posted = sk[i].posted /\ sk'[i].owner = sk[i].owner /\ sk'[i].peerClosed = sk[i].peerClosed
         /\ sk'[i].failed = sk[i].failed /\ sk'[i].async = sk[i].async /\ sk'[i].nonblock = sk[i].nonblock
<1> DEFINE q == IF sk[i].nonblock \/ sk[i].async THEN "connect" ELSE "open"
           t == [sk[i] EXCEPT !.rx = <<>>, !.state = q]
<1>1. sk[i].state = "unbound" /\ page' = [page EXCEPT ![i] = "open"] /\ sk[i] \in SockRec /\ dev[i] \in Handle({"peer"}, Byte)
  BY DEF ConnectSock, TypeOK
<1>2. OpenCmd(SetTarget(dev[i], "peer")) = [Blank EXCEPT !.state = "working"]
  <2>1. SetTarget(dev[i], "peer").target = "peer"
    BY <1>1 DEF SetTarget, Handle
  <2> QED BY <2>1, WinsockAssumption DEF OpenCmd, OpenAccepted
<1>3. [Blank EXCEPT !.state = "working"] \in Handle({"peer"}, Byte)
  BY BlankType DEF Handle, SockStates
<1>4. sk' = [sk EXCEPT ![i] = t]
  BY Zenon, TypesUsed DEF ConnectSock
<1>5. dev' = [dev EXCEPT ![i] = [Blank EXCEPT !.state = "working"]]
  BY <1>2 DEF ConnectSock
<1>6. q \in {"connect", "open"} /\ <<>> \in Seq(Byte)
  OBVIOUS
<1> HIDE DEF q
<1>7. t \in SockRec /\ t.rx = <<>> /\ t.state = q /\ t.posted = sk[i].posted /\ t.owner = sk[i].owner
      /\ t.peerClosed = sk[i].peerClosed /\ t.failed = sk[i].failed /\ t.async = sk[i].async /\ t.nonblock = sk[i].nonblock
  BY <1>1, <1>6 DEF SockRec
<1> HIDE DEF t
<1>8. Len(<<>>) <= RxCap
  BY WinsockAssumption
<1>9. SkOK'
  BY <1>3, <1>4, <1>5, <1>7, <1>8 DEF SkOK, TypeOK
<1>10. /\ sk'[i] = t /\ dev'[i] = [Blank EXCEPT !.state = "working"]
       /\ \A j \in Slots \ {i} : sk'[j] = sk[j] /\ dev'[j] = dev[j]
  BY <1>4, <1>5, TypesUsed
<1> QED BY <1>1, <1>6, <1>7, <1>9, <1>10

\* What an answer makes of a handle: nothing of one that is closed, and the end of
\* the stream of any other.
Answers(k, l) ==
  /\ l \in Handle({"peer"}, Byte)
  /\ IF k.state = "idle" THEN l = k ELSE l.done = TRUE /\ (l.state = "closed" => l.rest = <<>>)

LEMMA AnswerMade ==
  ASSUME TypeOK, PageAnswers
  PROVE  \E f \in fetches :
           /\ fetches' = fetches \ {f} /\ UNCHANGED <<sk, winVars, msgVars, page, orphaned>> /\ SkOK'
           /\ Answers(dev[f.slot], dev'[f.slot]) /\ \A j \in Slots : j # f.slot => dev'[j] = dev[j]
<1>1. ASSUME NEW f \in fetches, NEW l, Answers(dev[f.slot], l), fetches' = fetches \ {f},
             dev' = [dev EXCEPT ![f.slot] = l], UNCHANGED <<sk, winVars, msgVars, page, orphaned>>
      PROVE  /\ SkOK' /\ Answers(dev[f.slot], dev'[f.slot]) /\ \A j \in Slots : j # f.slot => dev'[j] = dev[j]
  <2>1. f.slot \in Slots
    BY DEF TypeOK
  <2> QED BY <1>1, <2>1 DEF SkOK, TypeOK, Answers
<1>2. ASSUME NEW f \in fetches, AnswerError(f)
      PROVE  Answers(dev[f.slot], Fail(dev[f.slot])) /\ fetches' = fetches \ {f} /\
             dev' = [dev EXCEPT ![f.slot] = Fail(dev[f.slot])] /\ UNCHANGED <<sk, winVars, msgVars, page, orphaned>>
  <2>1. dev[f.slot] \in Handle({"peer"}, Byte)
    BY DEF TypeOK
  <2>2. Answers(dev[f.slot], Fail(dev[f.slot]))
    BY <2>1 DEF Answers, Fail, Handle, SockStates
  <2> QED BY <1>2, <2>2 DEF AnswerError
<1>3. ASSUME NEW f \in fetches, NEW n \in 1 .. MaxReply, Answer(f, n)
      PROVE  \E l : Answers(dev[f.slot], l) /\ fetches' = fetches \ {f} /\ dev' = [dev EXCEPT ![f.slot] = l]
                    /\ UNCHANGED <<sk, winVars, msgVars, page, orphaned>>
  <2> DEFINE k == dev[f.slot]
             bytes == [x \in 1 .. n |-> IF f.own THEN "own" ELSE "stale"]
             rest == k.rest \o bytes
             q == IF rest # <<>> THEN "data" ELSE "closed"
             l == Arrive(k, bytes, TRUE)
  <2>1. k \in Handle({"peer"}, Byte) /\ k.rest \in Seq(Byte)
    BY DEF TypeOK, Handle
  <2>2. bytes \in Seq(Byte)
    <3>1. n \in Nat /\ bytes \in [1 .. n -> Byte]
      BY WinsockAssumption DEF Byte
    <3> QED BY <3>1, IsASeq
  <2>3. rest \in Seq(Byte)
    <3> HIDE DEF bytes
    <3> QED BY <2>1, <2>2, ConcatProperties
  <2>4. l = IF k.state = "idle" THEN k ELSE [k EXCEPT !.rest = rest, !.done = TRUE, !.state = q]
    BY DEF Arrive
  <2>5. dev' = [dev EXCEPT ![f.slot] = l] /\ fetches' = fetches \ {f} /\ UNCHANGED <<sk, winVars, msgVars, page, orphaned>>
    BY <1>3 DEF Answer
  <2>6. q \in SockStates /\ (q = "closed" => rest = <<>>)
    BY DEF SockStates
  <2> HIDE DEF rest, q, l
  <2>7. Answers(k, l)
    BY <2>1, <2>3, <2>4, <2>6 DEF Answers, Handle
  <2> QED BY <2>5, <2>7
<1> QED BY <1>1, <1>2, <1>3 DEF PageAnswers

LEMMA TypeOf ==
  TypeOK <=> /\ SkOK /\ HostOK /\ refs \in [Tasks -> 0 .. MaxRefs]
             /\ blocked \in Call \cup {NoCall} /\ cancel \in BOOLEAN
             /\ queue \in [Tasks -> Seq(Message)] /\ (\A t \in Tasks : Len(queue[t]) <= habit.queue)
             /\ lost \subseteq Tasks /\ habit \in Habits
BY DEF TypeOK, SkOK, HostOK, Message

LEMMA TypeInit == Init => TypeOK
<1> SUFFICES ASSUME Init PROVE TypeOK
  OBVIOUS
<1>1. Tasks # {}
  BY WinsockAssumption
<1>2. Free \in SockRec /\ Free.rx = <<>>
  BY <1>1, FreeType
<1>3. \A t \in Tasks : queue[t] = <<>> /\ Len(queue[t]) <= habit.queue /\ queue[t] \in Seq(Message)
  BY WinsockAssumption DEF Init
<1>4. queue \in [Tasks -> Seq(Message)]
  BY <1>3 DEF Init
<1>5. Len(<<>>) <= RxCap /\ 0 \in 0 .. MaxRefs
  BY WinsockAssumption
<1>6. SkOK
  BY <1>2, <1>5, BlankType DEF Init, SkOK
<1>7. HostOK
  BY DEF Init, HostOK
<1> QED BY <1>3, <1>4, <1>5, <1>6, <1>7, TypeOf DEF Init

LEMMA TypeNext == TypeOK /\ [Next /\ UNCHANGED habit]_<<vars, habit>> => TypeOK'
<1> SUFFICES ASSUME TypeOK, [Next /\ UNCHANGED habit]_<<vars, habit>> PROVE TypeOK'
  OBVIOUS
<1>1. /\ TypeOK' <=> /\ SkOK' /\ HostOK' /\ refs' \in [Tasks -> 0 .. MaxRefs]
                      /\ blocked' \in Call \cup {NoCall} /\ cancel' \in BOOLEAN
                      /\ queue' \in [Tasks -> Seq(Message)] /\ (\A t \in Tasks : Len(queue'[t]) <= habit'.queue)
                      /\ lost' \subseteq Tasks /\ habit' \in Habits
  BY DEF TypeOK, SkOK, HostOK, Message
<1>2. /\ SkOK /\ HostOK /\ refs \in [Tasks -> 0 .. MaxRefs]
      /\ blocked \in Call \cup {NoCall} /\ cancel \in BOOLEAN
      /\ queue \in [Tasks -> Seq(Message)] /\ (\A t \in Tasks : Len(queue[t]) <= habit.queue)
      /\ lost \subseteq Tasks /\ habit \in Habits
  BY TypeOf
<1>3. ASSUME UNCHANGED <<vars, habit>>
      PROVE  TypeOK'
  BY <1>3 DEF vars, TypeOK
<1>4. UNCHANGED hostVars => HostOK'
  BY <1>2 DEF hostVars, HostOK
<1> SUFFICES ASSUME Next, UNCHANGED habit PROVE TypeOK'
  BY <1>3
<1>5. CASE Inside
  BY <1>1, <1>2, <1>4, <1>5, SlidesType DEF Inside, CallOK, MsgOK
<1>6. ASSUME NEW t \in Tasks, Startup(t)
      PROVE  TypeOK'
  <2>1. refs' \in [Tasks -> 0 .. MaxRefs]
    BY <1>2, <1>6, WinsockAssumption DEF Startup
  <2> QED BY <1>1, <1>2, <1>4, <1>6, <2>1 DEF Startup, msgVars, SkOK
<1>7. ASSUME NEW t \in Tasks, Cleanup(t)
      PROVE  TypeOK'
  <2>1. refs' \in [Tasks -> 0 .. MaxRefs]
    BY <1>2, <1>7, WinsockAssumption DEF Cleanup
  <2>2. PICK S \in SUBSET Slots : CloseSlots(S)
    BY <1>7 DEF Cleanup
  <2>3. SkOK' /\ HostOK'
    BY <2>2, ClosedSlots
  <2> QED BY <1>1, <1>2, <1>7, <2>1, <2>3 DEF Cleanup, msgVars
<1>8. ASSUME NEW t \in Tasks, Socket(t)
      PROVE  TypeOK'
  <2>1. SkOK'
    BY <1>8, SocketMade
  <2> QED BY <1>1, <1>2, <1>4, <1>8, <2>1 DEF Socket, winVars, msgVars
<1>9. ASSUME NEW i \in Slots, CloseSocket(i)
      PROVE  TypeOK'
  <2>1. SkOK' /\ HostOK'
    BY <1>9, ClosedSlots DEF CloseSocket
  <2> QED BY <1>1, <1>2, <1>9, <2>1 DEF CloseSocket, winVars, msgVars
<1>10. ASSUME NEW i \in Slots, ConnectSock(i)
       PROVE  TypeOK'
  <2>1. SkOK' /\ page' = [page EXCEPT ![i] = "open"] /\ UNCHANGED <<winVars, msgVars, fetches, orphaned>>
    BY <1>10, ConnectMade DEF ConnectSock
  <2>2. HostOK'
    BY <1>2, <2>1 DEF HostOK
  <2> QED BY <1>1, <1>2, <2>1, <2>2 DEF winVars, msgVars
<1>11. ASSUME NEW i \in Slots, SendRequest(i)
       PROVE  TypeOK'
  <2>1. SkOK'
    BY <1>11, SendSlides, SlidesType
  <2>2. HostOK'
    <3>1. /\ page' = page \/ page' = [page EXCEPT ![i] = "sent"]
          /\ fetches' = fetches \/ fetches' = fetches \cup {[slot |-> i, own |-> TRUE]}
          /\ orphaned' = orphaned
      BY <1>11 DEF SendRequest
    <3>2. [slot |-> i, own |-> TRUE] \in [slot : Slots, own : BOOLEAN]
      OBVIOUS
    <3> QED BY <1>2, <3>1, <3>2 DEF HostOK
  <2> QED BY <1>1, <1>2, <1>11, <2>1, <2>2 DEF SendRequest, winVars, msgVars
<1>12. CASE PageAnswers
  <2>1. PICK f \in fetches : fetches' = fetches \ {f} /\ UNCHANGED <<sk, winVars, msgVars, page, orphaned>> /\ SkOK'
    BY <1>12, AnswerMade
  <2>2. HostOK'
    BY <1>2, <2>1 DEF HostOK
  <2> QED BY <1>1, <1>2, <2>1, <2>2 DEF winVars, msgVars
<1> QED BY <1>5, <1>6, <1>7, <1>8, <1>9, <1>10, <1>11, <1>12, Kinds

\* Type correctness: whatever programs call, and whenever, no buffer holds more
\* than RXCAP bytes and no queue more messages than Windows keeps.
THEOREM TypeCorrect == Spec => []TypeOK
BY TypeInit, TypeNext, PTL DEF Spec

-----------------------------------------------------------------------------
(* The end of a stream.                                                    *)

LEMMA BlankIs ==
  /\ Blank.state = "idle" /\ ~Blank.done /\ Blank.rest = <<>>
  /\ LET w == [Blank EXCEPT !.state = "working"]
     IN  w.state = "working" /\ ~w.done /\ w.rest = <<>>
BY DEF Blank

LEMMA EndInit == Init => EndInv
<1> SUFFICES ASSUME Init PROVE EndInv
  OBVIOUS
<1>1. \A i \in Slots : sk[i].state = "free" /\ dev[i] = Blank /\ page[i] = "none"
  BY DEF Init, Free
<1>2. fetches = {}
  BY DEF Init
<1> QED BY <1>1, <1>2, BlankIs DEF EndInv, SockInv, FetchInv, Tidy, Whole, Using, Resting

\* What happens inside a call or a timer.
LEMMA SlidesKeepEnd ==
  ASSUME EndInv, Slides, UNCHANGED hostVars
  PROVE  EndInv'
<1>1. \A i \in Slots : Keeps(sk[i], dev[i], sk'[i], dev'[i])
  BY DEF Slides
<1>2. SockInv'
  BY <1>1 DEF EndInv, SockInv, Keeps, hostVars
<1>3. FetchInv'
  BY <1>1 DEF EndInv, FetchInv, Keeps, hostVars, Resting
<1> QED BY <1>2, <1>3 DEF EndInv

LEMMA CloseKeepsEnd ==
  ASSUME TypeOK, EndInv, NEW S \in SUBSET Slots, CloseSlots(S)
  PROVE  EndInv'
<1> DEFINE opened == {i \in S : sk[i].state \in {"connect", "open", "dead"}}
<1>1. /\ \A i \in Slots \ S : sk'[i] = sk[i]
      /\ \A i \in S : sk'[i].state = "free"
      /\ \A i \in Slots : IF i \in opened THEN dev'[i] = Blank /\ page'[i] = "none"
                           ELSE dev'[i] = dev[i] /\ page'[i] = page[i]
      /\ \A g \in fetches' : \E f \in fetches : g.slot = f.slot /\ (g.own <=> (f.own /\ f.slot \notin opened))
      /\ orphaned \subseteq orphaned' /\ \A f \in fetches : f.own /\ f.slot \in opened => f.slot \in orphaned'
  BY ClosedSlots, Zenon
<1>2. opened \subseteq S /\ \A i \in S \ opened : sk[i].state \in Resting
  BY DEF TypeOK, SockRec, Resting
<1>3. \A f \in fetches : f.slot \in Slots
  BY DEF TypeOK
<1> HIDE DEF opened
<1>4. \A i \in S : dev'[i] = Blank /\ page'[i] = "none"
  BY <1>1, <1>2 DEF EndInv, SockInv, FetchInv, Tidy
<1>5. \A i \in Slots \ S : dev'[i] = dev[i] /\ page'[i] = page[i] /\ sk'[i] = sk[i]
  BY <1>1, <1>2
<1>6. SockInv'
  <2>1. \A i \in Slots : Tidy(sk'[i], dev'[i])
    BY <1>1, <1>4, <1>5, BlankIs DEF EndInv, SockInv, Tidy, Using, Resting
  <2>2. \A i \in Slots \ orphaned' : Whole(sk'[i], dev'[i])
    BY <1>1, <1>5 DEF EndInv, SockInv, Whole, Using
  <2> QED BY <2>1, <2>2 DEF SockInv
<1>7. FetchInv'
  <2>1. \A g \in fetches' : IF g.own THEN page'[g.slot] = "sent" ELSE g.slot \in orphaned'
    <3> TAKE g \in fetches'
    <3>1. PICK f \in fetches : g.slot = f.slot /\ (g.own <=> (f.own /\ f.slot \notin opened))
      BY <1>1
    <3> QED BY <1>1, <1>3, <3>1 DEF EndInv, FetchInv
  <2>2. \A i \in Slots : sk'[i].state \in Resting => page'[i] = "none"
    BY <1>4, <1>5 DEF EndInv, FetchInv
  <2>3. \A i \in Slots \ orphaned' : dev'[i].done => page'[i] = "sent" /\ \A g \in fetches' : g.slot # i
    BY <1>1, <1>4, <1>5, BlankIs DEF EndInv, FetchInv
  <2> QED BY <2>1, <2>2, <2>3 DEF FetchInv
<1> QED BY <1>6, <1>7 DEF EndInv

LEMMA SocketKeepsEnd ==
  ASSUME TypeOK, EndInv, NEW t \in Tasks, Socket(t)
  PROVE  EndInv'
<1> DEFINE u == [Free EXCEPT !.state = "unbound", !.owner = t]
<1>1. PICK i \in Slots : sk[i].state = "free" /\ sk'[i] = u /\ \A j \in Slots \ {i} : sk'[j] = sk[j]
  BY SocketMade
<1>2. u.rx = <<>> /\ u.state = "unbound" /\ u.posted = {} /\ ~u.peerClosed /\ ~u.failed
  BY FreeType
<1>3. UNCHANGED <<dev, hostVars>>
  BY DEF Socket
<1> HIDE DEF u
<1>4. dev[i] = Blank /\ page[i] = "none"
  BY <1>1 DEF EndInv, SockInv, FetchInv, Tidy, Resting
<1>5. SockInv'
  BY <1>1, <1>2, <1>3, <1>4, BlankIs DEF EndInv, SockInv, Tidy, Whole, Using, Resting, hostVars
<1>6. FetchInv'
  BY <1>1, <1>2, <1>3, <1>4 DEF EndInv, FetchInv, Resting, hostVars
<1> QED BY <1>5, <1>6 DEF EndInv

LEMMA ConnectKeepsEnd ==
  ASSUME TypeOK, EndInv, NEW i \in Slots, ConnectSock(i)
  PROVE  EndInv'
<1>1. UNCHANGED <<fetches, orphaned>> /\ page'[i] = "open" /\ \A j \in Slots \ {i} : page'[j] = page[j]
  BY ConnectMade DEF ConnectSock, TypeOK
<1>2. sk[i].state = "unbound" /\ page[i] = "none" /\ ~sk'[i].peerClosed /\ ~sk'[i].failed /\ sk'[i].posted = {}
  BY ConnectMade DEF EndInv, SockInv, FetchInv, Tidy, Resting
<1>3. /\ dev'[i].state = "working" /\ ~dev'[i].done /\ sk'[i].state \in {"connect", "open"}
      /\ \A j \in Slots \ {i} : sk'[j] = sk[j] /\ dev'[j] = dev[j]
  BY ConnectMade, BlankIs
<1>4. SockInv'
  BY <1>1, <1>2, <1>3 DEF EndInv, SockInv, Tidy, Whole, Using, Resting
<1>5. \A f \in fetches : f.own => f.slot # i
  BY <1>2 DEF EndInv, FetchInv
<1>6. FetchInv'
  BY <1>1, <1>3, <1>5 DEF EndInv, FetchInv, Resting, TypeOK
<1> QED BY <1>4, <1>6 DEF EndInv

LEMMA SendKeepsEnd ==
  ASSUME TypeOK, EndInv, NEW i \in Slots, SendRequest(i)
  PROVE  EndInv'
<1>1. Slides
  BY SendSlides
<1>2. CASE UNCHANGED <<page, fetches>>
  BY <1>1, <1>2, SlidesKeepEnd DEF SendRequest, hostVars
<1>3. CASE ~UNCHANGED <<page, fetches>>
  <2>1. /\ page[i] # "sent" /\ page' = [page EXCEPT ![i] = "sent"]
        /\ fetches' = fetches \cup {[slot |-> i, own |-> TRUE]} /\ orphaned' = orphaned /\ dev' = dev
        /\ sk[i].state \in {"connect", "open"}
    BY <1>3 DEF SendRequest
  <2>2. \A j \in Slots : Keeps(sk[j], dev[j], sk'[j], dev'[j])
    BY <1>1 DEF Slides
  <2>3. SockInv'
    BY <2>1, <2>2 DEF EndInv, SockInv, Keeps
  <2>4. page'[i] = "sent" /\ \A j \in Slots : j # i => page'[j] = page[j]
    BY <2>1 DEF TypeOK
  <2>5. \A f \in fetches' : f \in fetches \/ (f.slot = i /\ f.own)
    BY <2>1
  <2>6. \A f \in fetches : f.slot \in Slots
    BY DEF TypeOK
  <2>7. sk'[i].state \notin Resting
    BY <2>1, <2>2 DEF Keeps, Resting
  <2>8. \A f \in fetches' : IF f.own THEN page'[f.slot] = "sent" ELSE f.slot \in orphaned'
    BY <2>1, <2>4, <2>5, <2>6 DEF EndInv, FetchInv
  <2>9. \A j \in Slots : sk'[j].state \in Resting => page'[j] = "none"
    BY <2>2, <2>4, <2>7 DEF EndInv, FetchInv, Keeps, Resting
  <2>10. \A j \in Slots \ orphaned' : dev'[j].done => page'[j] = "sent" /\ \A f \in fetches' : f.slot # j
    BY <2>1, <2>4, <2>5 DEF EndInv, FetchInv
  <2> QED BY <2>3, <2>8, <2>9, <2>10 DEF EndInv, FetchInv
<1> QED BY <1>2, <1>3

LEMMA AnswerKeepsEnd ==
  ASSUME TypeOK, EndInv, PageAnswers
  PROVE  EndInv'
<1>1. PICK f \in fetches :
        /\ fetches' = fetches \ {f} /\ UNCHANGED <<sk, winVars, msgVars, page, orphaned>>
        /\ Answers(dev[f.slot], dev'[f.slot]) /\ \A j \in Slots : j # f.slot => dev'[j] = dev[j]
  BY AnswerMade
<1> DEFINE i == f.slot
<1>2. i \in Slots /\ \A g \in fetches : g \in [slot : Slots, own : BOOLEAN]
  BY DEF TypeOK
<1>3. CASE dev[i].state = "idle"
  <2>1. \A j \in Slots : dev'[j] = dev[j]
    BY <1>1, <1>3 DEF Answers
  <2> QED BY <1>1, <2>1 DEF EndInv, SockInv, FetchInv
<1>4. CASE dev[i].state # "idle"
  <2>1. dev'[i].done /\ (dev'[i].state = "closed" => dev'[i].rest = <<>>)
    BY <1>1, <1>4 DEF Answers
  <2>2. sk[i].state \notin Resting
    BY <1>2, <1>4, BlankIs DEF EndInv, SockInv, Tidy
  <2>3. i \notin orphaned => page[i] = "sent" /\ ~dev[i].done /\ \A g \in fetches' : g.slot # i
    <3> HAVE i \notin orphaned
    <3>1. \A g \in fetches : g.slot = i => g.own
      BY DEF EndInv, FetchInv
    <3>2. \A g \in fetches : g.slot = i => g = f
      BY <1>2, <3>1
    <3> QED BY <1>1, <1>2, <3>1, <3>2 DEF EndInv, FetchInv
  <2>4. SockInv'
    <3>1. \A j \in Slots : Tidy(sk'[j], dev'[j])
      BY <1>1, <2>1, <2>2 DEF EndInv, SockInv, Tidy
    <3>2. \A j \in Slots \ orphaned' : Whole(sk'[j], dev'[j])
      BY <1>1, <2>3 DEF EndInv, SockInv, Whole
    <3> QED BY <3>1, <3>2 DEF SockInv
  <2>5. FetchInv'
    BY <1>1, <2>3 DEF EndInv, FetchInv
  <2> QED BY <2>4, <2>5 DEF EndInv
<1> QED BY <1>3, <1>4

LEMMA EndNext == TypeOK /\ EndInv /\ [Next /\ UNCHANGED habit]_<<vars, habit>> => EndInv'
<1> SUFFICES ASSUME TypeOK, EndInv, [Next /\ UNCHANGED habit]_<<vars, habit>> PROVE EndInv'
  OBVIOUS
<1>1. CASE UNCHANGED <<vars, habit>>
  BY <1>1 DEF vars, EndInv, SockInv, FetchInv
<1>2. CASE Next /\ UNCHANGED habit
  <2>1. CASE Inside
    BY <2>1, SlidesKeepEnd DEF Inside
  <2>2. ASSUME NEW t \in Tasks, Startup(t)
        PROVE  EndInv'
    BY <2>2 DEF Startup, hostVars, EndInv, SockInv, FetchInv
  <2>3. ASSUME NEW t \in Tasks, Cleanup(t)
        PROVE  EndInv'
    <3>1. PICK S \in SUBSET Slots : CloseSlots(S)
      BY <2>3 DEF Cleanup
    <3> QED BY <3>1, CloseKeepsEnd
  <2>4. ASSUME NEW i \in Slots, CloseSocket(i)
        PROVE  EndInv'
    BY <2>4, CloseKeepsEnd DEF CloseSocket
  <2> QED BY <1>2, <2>1, <2>2, <2>3, <2>4, Kinds, SocketKeepsEnd, ConnectKeepsEnd, SendKeepsEnd, AnswerKeepsEnd
<1> QED BY <1>1, <1>2

\* The end of a stream is reported when everything has been delivered, and not
\* before: whatever answers come, to whatever connection, and in whatever turn.
THEOREM EndDelivered == Spec => []EndMeansDelivered
<1>1. TypeOK /\ EndInv => EndMeansDelivered
  <2> SUFFICES ASSUME TypeOK, EndInv, NEW i \in Slots \ orphaned, Live(i), ~sk[i].failed
               PROVE  /\ sk[i].peerClosed => dev[i].rest = <<>> /\ \A f \in fetches : f.slot # i
                      /\ "close" \in sk[i].posted => sk[i].peerClosed /\ sk[i].rx = <<>>
    BY DEF EndMeansDelivered
  <2>1. Whole(sk[i], dev[i]) /\ Using(sk[i])
    BY DEF EndInv, SockInv, Live, Using
  <2> QED BY <2>1 DEF EndInv, FetchInv, Whole
<1> QED BY <1>1, TypeInit, TypeNext, EndInit, EndNext, PTL DEF Spec

\* The FD_READ latch is never set on an empty buffer.
THEOREM LatchedData == Spec => []LatchMeansData
<1>1. EndInv => LatchMeansData
  BY DEF EndInv, SockInv, Tidy, LatchMeansData, Live, Using
<1> QED BY <1>1, TypeInit, TypeNext, EndInit, EndNext, PTL DEF Spec

-----------------------------------------------------------------------------
(* A latched FD_READ is still to be answered.                              *)

LEMMA MessageInit == Init => MessageInv
<1> SUFFICES ASSUME Init PROVE MessageInv
  OBVIOUS
<1>1. \A i \in Slots : sk[i].state = "free"
  BY DEF Init, Free
<1>2. blocked = NoCall
  BY DEF Init
<1> QED BY <1>1, <1>2 DEF MessageInv, HabitInv, LatchMeansMessage, WantsReads, Used

LEMMA HabitSlides ==
  ASSUME HabitInv, Slides, UNCHANGED <<refs, habit>>,
         MessagesOnly => /\ blocked' = blocked
                         /\ \A i \in Slots : /\ sk'[i].async = sk[i].async \/ sk'[i].async = TRUE
                                             /\ sk[i].nonblock => sk'[i].nonblock
                                             /\ sk'[i].async # sk[i].async => sk'[i].nonblock
  PROVE  HabitInv'
<1>1. \A i \in Slots : Keeps(sk[i], dev[i], sk'[i], dev'[i])
  BY DEF Slides
<1>2. MessagesOnly' <=> MessagesOnly
  BY DEF MessagesOnly
<1>3. \A i \in Slots : Used(i)' => refs'[sk'[i].owner] > 0
  BY <1>1 DEF HabitInv, Keeps, Used
<1>4. ASSUME MessagesOnly, NEW i \in Slots, Used(i)'
      PROVE  (sk'[i].async => sk'[i].nonblock) /\ (sk'[i].state # "unbound" => sk'[i].async)
  <2>1. Used(i) /\ (sk'[i].state # "unbound" => sk[i].state # "unbound")
    BY <1>1, <1>4 DEF Keeps, Used
  <2>2. (sk[i].async => sk[i].nonblock) /\ (sk[i].state # "unbound" => sk[i].async)
    BY <1>4, <2>1 DEF HabitInv
  <2> QED BY <1>4, <2>1, <2>2
<1>5. MessagesOnly => blocked' = NoCall
  BY DEF HabitInv
<1> QED BY <1>2, <1>3, <1>4, <1>5 DEF HabitInv

LEMMA NoneWaitsHere == HabitInv /\ MessagesOnly => NoneWaits
BY DEF HabitInv, NoneWaits, Using, Used

LEMMA Unlatched ==
  ASSUME TypeOK, EndInv, Slides, refs' = refs, NEW i \in Slots, Quiet(sk[i], sk'[i]), WantsReads(i)', "read" \in sk'[i].posted
  PROVE  WantsReads(i) /\ "read" \in sk[i].posted /\ sk'[i].owner = sk[i].owner /\ sk[i].state = "open" /\ ~sk[i].rdShut
<1>1. Keeps(sk[i], dev[i], sk'[i], dev'[i]) /\ Tidy(sk[i], dev[i])
  BY DEF Slides, EndInv, SockInv
<1>2. "read" \in sk[i].posted /\ sk'[i].owner = sk[i].owner
  BY <1>1 DEF Quiet, Keeps
<1>3. sk[i].state = "open"
  BY <1>1, <1>2 DEF Tidy, Keeps, WantsReads
<1>4. sk[i].async = sk'[i].async /\ sk[i].events = sk'[i].events /\ ~sk[i].rdShut
  BY DEF Quiet, WantsReads
<1> QED BY <1>2, <1>3, <1>4 DEF WantsReads

LEMMA QueuedIs ==
  \A i \in Slots : ReadQueued(i) <=> In(ReadMessage(i), queue[sk[i].owner])
BY DEF ReadQueued, In, ReadMessage

LEMMA QuietlyKeeps ==
  ASSUME TypeOK, EndInv, MessageInv, Slides, Quietly, UNCHANGED <<refs, habit, queue, lost>>,
         MessagesOnly => blocked' = blocked
  PROVE  MessageInv'
<1>1. HabitInv'
  BY HabitSlides DEF MessageInv, Quietly, Quiet
<1>2. LatchMeansMessage'
  <2> SUFFICES ASSUME MessagesOnly', NEW i \in Slots, WantsReads(i)', "read" \in sk'[i].posted, sk'[i].owner \notin lost'
               PROVE  ReadQueued(i)'
    BY DEF LatchMeansMessage
  <2>1. MessagesOnly
    BY DEF MessagesOnly
  <2>2. WantsReads(i) /\ "read" \in sk[i].posted /\ sk'[i].owner = sk[i].owner
    BY Unlatched DEF Quietly
  <2>3. ReadQueued(i)
    BY <2>1, <2>2 DEF MessageInv, LatchMeansMessage
  <2> QED BY <2>2, <2>3 DEF ReadQueued
<1> QED BY <1>1, <1>2 DEF MessageInv

LEMMA OtherHabits ==
  ASSUME ~MessagesOnly, HabitInv, Slides, UNCHANGED <<refs, habit>>
  PROVE  MessageInv'
<1>1. ~MessagesOnly'
  BY DEF MessagesOnly
<1>2. HabitInv'
  BY HabitSlides
<1> QED BY <1>1, <1>2 DEF MessageInv, LatchMeansMessage

LEMMA TickMessage ==
  ASSUME TypeOK, EndInv, MessageInv, UNCHANGED habit, NEW t \in Tasks, Tick(t)
  PROVE  MessageInv'
<1>1. /\ Slides /\ UNCHANGED <<refs, blocked>>
      /\ \A i \in Slots : sk'[i] = IF Mine(t, i) THEN Notified(Seen(i)) ELSE sk[i]
  BY TickSlides DEF Tick, winVars
<1>2. /\ TickMessages(t) \in Seq(Message)
      /\ \A i \in Slots : Mine(t, i) /\ "read" \in PostedEvents(Seen(i)) => In(ReadMessage(i), TickMessages(t))
  BY TickMessagesHave
<1>3. /\ lost \subseteq lost'
      /\ \A u \in Tasks \ lost' : \A m : In(m, queue[u]) => In(m, queue'[u])
      /\ t \notin lost' => \A m : In(m, TickMessages(t)) => In(m, queue'[t])
  BY <1>2, EnqueueHas DEF Tick
<1>4. ASSUME NEW i \in Slots, Mine(t, i)
      PROVE  /\ Keeps(sk[i], dev[i], Seen(i), PumpedDev(sk[i], dev[i])) /\ Quiet(sk[i], Seen(i))
             /\ LET n == Notified(Seen(i))
                IN  /\ n.async = Seen(i).async /\ n.events = Seen(i).events /\ n.nonblock = Seen(i).nonblock
                    /\ n.rdShut = Seen(i).rdShut /\ n.posted = Seen(i).posted \cup PostedEvents(Seen(i))
                    /\ Keeps(Seen(i), PumpedDev(sk[i], dev[i]), n, PumpedDev(sk[i], dev[i]))
  <2>1. Keeps(sk[i], dev[i], Seen(i), PumpedDev(sk[i], dev[i])) /\ Quiet(sk[i], Seen(i))
    BY TypesUsed, PumpKeeps DEF Seen
  <2>2. SockT(Seen(i), PumpedDev(sk[i], dev[i]))
    BY <2>1 DEF Keeps
  <2> QED BY <2>1, <2>2, NotifiedKeeps
<1>5. HabitInv'
  <2>1. \A i \in Slots : sk'[i].async = sk[i].async /\ (sk[i].nonblock => sk'[i].nonblock)
    BY <1>1, <1>4 DEF Quiet
  <2> QED BY <1>1, <2>1, HabitSlides DEF MessageInv
<1>6. LatchMeansMessage'
  <2> SUFFICES ASSUME MessagesOnly', NEW i \in Slots, WantsReads(i)', "read" \in sk'[i].posted, sk'[i].owner \notin lost'
               PROVE  ReadQueued(i)'
    BY DEF LatchMeansMessage
  <2>1. MessagesOnly /\ sk'[i].owner = sk[i].owner /\ sk[i].owner \in Tasks
    BY <1>1, TypesUsed DEF MessagesOnly, Slides, Keeps
  <2>2. WantsReads(i) /\ "read" \in sk[i].posted => ReadQueued(i)'
    <3> HAVE WantsReads(i) /\ "read" \in sk[i].posted
    <3>1. In(ReadMessage(i), queue[sk[i].owner])
      BY <1>3, <2>1, QueuedIs DEF MessageInv, LatchMeansMessage
    <3> QED BY <1>3, <2>1, <3>1 DEF ReadQueued, In, ReadMessage
  <2>3. CASE ~Mine(t, i)
    <3>1. sk'[i] = sk[i]
      BY <1>1, <2>3
    <3> QED BY <1>1, <2>2, <3>1 DEF WantsReads
  <2>4. CASE Mine(t, i) /\ "read" \in PostedEvents(Seen(i))
    <3>1. In(ReadMessage(i), queue'[t]) /\ sk'[i].owner = t
      BY <1>2, <1>3, <2>1, <2>4 DEF Mine
    <3> QED BY <3>1 DEF ReadQueued, In, ReadMessage
  <2>5. CASE Mine(t, i) /\ "read" \notin PostedEvents(Seen(i))
    <3>1. Tidy(sk[i], dev[i]) /\ Tidy(Seen(i), PumpedDev(sk[i], dev[i]))
      BY <1>4, <2>5 DEF EndInv, SockInv, Keeps
    <3>2. "read" \in Seen(i).posted /\ "read" \in sk[i].posted
      BY <1>1, <1>4, <2>5 DEF Quiet
    <3>3. sk'[i].state = "open" /\ sk[i].state = "open"
      BY <1>1, <1>4, <2>5, <3>1, <3>2 DEF Keeps, Tidy, WantsReads
    <3>4. WantsReads(i)
      BY <1>1, <1>4, <2>1, <2>5, <3>3 DEF WantsReads, Quiet
    <3> QED BY <2>2, <3>2, <3>4
  <2> QED BY <2>3, <2>4, <2>5
<1> QED BY <1>5, <1>6 DEF MessageInv

LEMMA AsyncSelectMessage ==
  ASSUME TypeOK, EndInv, MessageInv, UNCHANGED habit, NEW i \in Slots, NEW events \in habit.events, AsyncSelect(i, events)
  PROVE  MessageInv'
<1> DEFINE s == Asking(sk[i], events)
<1>1. /\ Slides /\ SockT(s, dev[i]) /\ s.owner = sk[i].owner
      /\ \A j \in Slots \ {i} : sk'[j] = sk[j]
      /\ IF events = {} THEN sk'[i] = s /\ UNCHANGED msgVars
         ELSE sk'[i] = Notified(s) /\ Enqueue(s.owner, Messages(i, s)) /\ Messages(i, s) \in Seq(Message)
  BY AsyncSelectSlides
<1>2. UNCHANGED <<refs, blocked>>
  BY DEF AsyncSelect, winVars
<1>3. SockT(sk[i], dev[i]) /\ sk[i].owner \in Tasks /\ events \in SUBSET Events
  BY TypesUsed, EventSetsAssumption DEF TypeOK
<1>4. s.async = TRUE /\ s.posted = {} /\ (sk[i].nonblock => s.nonblock) /\ (events # {} => s.nonblock)
  BY <1>3, AskingKeeps
<1> HIDE DEF s
<1>5. LET n == Notified(s)
      IN  n.async = s.async /\ n.nonblock = s.nonblock /\ n.posted = PostedEvents(s)
  BY <1>1, <1>4, NotifiedKeeps
<1>6. HabitInv'
  <2>1. MessagesOnly => events # {}
    BY DEF MessagesOnly
  <2>2. MessagesOnly => sk'[i].async = TRUE /\ sk'[i].nonblock
    BY <1>1, <1>4, <1>5, <2>1
  <2>3. MessagesOnly => \A j \in Slots : /\ sk'[j].async = sk[j].async \/ sk'[j].async = TRUE
                                         /\ sk[j].nonblock => sk'[j].nonblock
                                         /\ sk'[j].async # sk[j].async => sk'[j].nonblock
    BY <1>1, <2>2
  <2> QED BY <1>1, <1>2, <2>3, HabitSlides DEF MessageInv
<1>7. LatchMeansMessage'
  <2> SUFFICES ASSUME MessagesOnly', NEW j \in Slots, WantsReads(j)', "read" \in sk'[j].posted, sk'[j].owner \notin lost'
               PROVE  ReadQueued(j)'
    BY DEF LatchMeansMessage
  <2>1. MessagesOnly /\ sk'[j].owner = sk[j].owner /\ sk[j].owner \in Tasks
    BY <1>1, TypesUsed DEF MessagesOnly, Slides, Keeps
  <2>2. CASE events = {}
    <3>1. j # i /\ sk'[j] = sk[j] /\ UNCHANGED <<queue, lost>>
      BY <1>1, <1>4, <2>2 DEF msgVars
    <3> QED BY <1>2, <2>1, <3>1 DEF MessageInv, LatchMeansMessage, WantsReads, ReadQueued
  <2>3. CASE events # {}
    <3>1. /\ lost \subseteq lost'
          /\ \A u \in Tasks \ lost' : \A m : In(m, queue[u]) => In(m, queue'[u])
          /\ sk[i].owner \notin lost' => \A m : In(m, Messages(i, s)) => In(m, queue'[sk[i].owner])
      BY <1>1, <1>3, <2>3, EnqueueHas
    <3>2. CASE j # i
      <4>1. sk'[j] = sk[j] /\ WantsReads(j)
        BY <1>1, <1>2, <3>2 DEF WantsReads
      <4>2. In(ReadMessage(j), queue[sk[j].owner])
        BY <2>1, <3>1, <4>1, QueuedIs DEF MessageInv, LatchMeansMessage
      <4> QED BY <2>1, <3>1, <4>2 DEF ReadQueued, In, ReadMessage
    <3>3. CASE j = i
      <4>1. "read" \in PostedEvents(s)
        BY <1>1, <1>5, <2>3, <3>3
      <4>2. In(ReadMessage(i), Messages(i, s))
        BY <1>1, <4>1, MessagesHave
      <4> QED BY <2>1, <3>1, <3>3, <4>2 DEF ReadQueued, In, ReadMessage
    <3> QED BY <3>2, <3>3
  <2> QED BY <2>2, <2>3
<1> QED BY <1>6, <1>7 DEF MessageInv

LEMMA OnMessageMessage ==
  ASSUME TypeOK, EndInv, MessageInv, UNCHANGED habit, NEW t \in Tasks, NEW len \in Nat, OnMessage(t, len)
  PROVE  MessageInv'
<1>1. /\ Slides /\ Quietly /\ (NoneWaits => blocked' = blocked)
      /\ queue' = [queue EXCEPT ![t] = Tail(queue[t])] /\ queue[t] \in Seq(Message) /\ queue[t] # <<>>
      /\ \A i \in Slots : Head(queue[t]) = ReadMessage(i) /\ Receiving(t, i) /\ Tidy(sk[i], dev[i])
                            => "read" \notin sk'[i].posted
  BY OnMessageSlides
<1>2. UNCHANGED <<refs, lost>>
  BY DEF OnMessage
<1>3. HabitInv'
  <2>1. MessagesOnly => blocked' = blocked
    BY <1>1, NoneWaitsHere DEF MessageInv
  <2> QED BY <1>1, <1>2, <2>1, HabitSlides DEF MessageInv, Quietly, Quiet
<1>4. LatchMeansMessage'
  <2> SUFFICES ASSUME MessagesOnly', NEW i \in Slots, WantsReads(i)', "read" \in sk'[i].posted, sk'[i].owner \notin lost'
               PROVE  ReadQueued(i)'
    BY DEF LatchMeansMessage
  <2>1. MessagesOnly /\ blocked = NoCall
    BY DEF MessagesOnly, MessageInv, HabitInv
  <2>2. /\ WantsReads(i) /\ "read" \in sk[i].posted /\ sk'[i].owner = sk[i].owner
        /\ sk[i].state = "open" /\ ~sk[i].rdShut
    BY <1>1, <1>2, Unlatched DEF Quietly
  <2>3. In(ReadMessage(i), queue[sk[i].owner])
    BY <1>2, <2>1, <2>2, QueuedIs DEF MessageInv, LatchMeansMessage
  <2>4. queue \in [Tasks -> Seq(Message)] /\ sk[i].owner \in Tasks
    BY TypesUsed DEF TypeOK, Message
  <2>5. CASE sk[i].owner # t
    <3>1. queue'[sk[i].owner] = queue[sk[i].owner]
      BY <1>1, <2>4, <2>5
    <3> QED BY <2>2, <2>3, <3>1 DEF ReadQueued, In, ReadMessage
  <2>6. CASE sk[i].owner = t
    <3>1. Receiving(t, i) /\ Tidy(sk[i], dev[i])
      BY <2>1, <2>2, <2>6 DEF Receiving, NoReentry, EndInv, SockInv
    <3>2. Head(queue[t]) # ReadMessage(i)
      BY <1>1, <3>1
    <3>3. In(ReadMessage(i), Tail(queue[t])) /\ queue'[t] = Tail(queue[t])
      BY <1>1, <2>3, <2>4, <2>6, <3>2, TailHas
    <3> QED BY <2>2, <2>6, <3>3 DEF ReadQueued, In, ReadMessage
  <2> QED BY <2>5, <2>6
<1> QED BY <1>3, <1>4 DEF MessageInv

\* What an ended or a new connection takes from the messages: nothing.
LEMMA CloseMessage ==
  ASSUME TypeOK, MessageInv, UNCHANGED <<habit, blocked, queue, lost>>, NEW S \in SUBSET Slots, CloseSlots(S),
         \A i \in Slots \ S : Used(i) => refs'[sk[i].owner] > 0 /\ refs[sk[i].owner] > 0
  PROVE  MessageInv'
<1>1. (\A i \in Slots \ S : sk'[i] = sk[i]) /\ \A i \in S : sk'[i].state = "free"
  BY ClosedSlots
<1>2. HabitInv'
  BY <1>1 DEF MessageInv, HabitInv, Used, MessagesOnly
<1>3. LatchMeansMessage'
  <2> SUFFICES ASSUME MessagesOnly', NEW i \in Slots, WantsReads(i)', "read" \in sk'[i].posted, sk'[i].owner \notin lost'
               PROVE  ReadQueued(i)'
    BY DEF LatchMeansMessage
  <2>1. i \notin S /\ sk'[i] = sk[i] /\ MessagesOnly
    BY <1>1 DEF WantsReads, MessagesOnly
  <2>2. WantsReads(i)
    BY <2>1 DEF WantsReads, Used
  <2> QED BY <2>1, <2>2 DEF MessageInv, LatchMeansMessage, ReadQueued
<1> QED BY <1>2, <1>3 DEF MessageInv

LEMMA CleanupMessage ==
  ASSUME TypeOK, MessageInv, UNCHANGED habit, NEW t \in Tasks, Cleanup(t)
  PROVE  MessageInv'
<1> DEFINE S == IF refs[t] = 1 THEN {i \in Slots : Used(i) /\ sk[i].owner = t} ELSE {}
<1>1. CloseSlots(S) /\ refs' = [refs EXCEPT ![t] = @ - 1] /\ refs[t] > 0 /\ UNCHANGED <<blocked, cancel, msgVars>>
  BY DEF Cleanup
<1>2. refs \in [Tasks -> 0 .. MaxRefs] /\ MaxRefs \in Nat
  BY WinsockAssumption DEF TypeOK
<1>3. \A u \in Tasks : refs[u] \in Nat /\ refs'[u] = IF u = t THEN refs[t] - 1 ELSE refs[u]
  BY <1>1, <1>2
<1>4. S \in SUBSET Slots
  OBVIOUS
<1>5. \A i \in Slots \ S : Used(i) => refs'[sk[i].owner] > 0 /\ refs[sk[i].owner] > 0
  <2> TAKE i \in Slots \ S
  <2> HAVE Used(i)
  <2>1. refs[sk[i].owner] > 0 /\ sk[i].owner \in Tasks
    BY TypesUsed DEF MessageInv, HabitInv
  <2>2. sk[i].owner = t => refs[t] # 1
    OBVIOUS
  <2> QED BY <1>3, <2>1, <2>2
<1> HIDE DEF S
<1> QED BY <1>1, <1>4, <1>5, CloseMessage DEF msgVars

LEMMA SocketMessage ==
  ASSUME TypeOK, MessageInv, UNCHANGED habit, NEW t \in Tasks, Socket(t)
  PROVE  MessageInv'
<1> DEFINE u == [Free EXCEPT !.state = "unbound", !.owner = t]
<1>1. PICK i \in Slots : sk'[i] = u /\ \A j \in Slots \ {i} : sk'[j] = sk[j]
  BY SocketMade
<1>2. u.state = "unbound" /\ u.owner = t /\ ~u.async
  BY FreeType
<1>3. refs[t] > 0 /\ UNCHANGED <<refs, blocked, queue, lost>>
  BY DEF Socket, winVars, msgVars
<1> HIDE DEF u
<1>4. HabitInv'
  BY <1>1, <1>2, <1>3 DEF MessageInv, HabitInv, Used, MessagesOnly
<1>5. LatchMeansMessage'
  BY <1>1, <1>2, <1>3 DEF MessageInv, LatchMeansMessage, WantsReads, ReadQueued, MessagesOnly
<1> QED BY <1>4, <1>5 DEF MessageInv

LEMMA ConnectMessage ==
  ASSUME TypeOK, EndInv, MessageInv, UNCHANGED habit, NEW i \in Slots, MayConnect(i), ConnectSock(i)
  PROVE  MessageInv'
<1>1. /\ sk[i].state = "unbound" /\ \A j \in Slots \ {i} : sk'[j] = sk[j]
      /\ sk'[i].posted = sk[i].posted /\ sk'[i].owner = sk[i].owner
      /\ sk'[i].async = sk[i].async /\ sk'[i].nonblock = sk[i].nonblock
  BY ConnectMade
<1>2. UNCHANGED <<refs, blocked, queue, lost>>
  BY DEF ConnectSock, winVars, msgVars
<1>3. sk[i].posted = {}
  BY <1>1 DEF EndInv, SockInv, Tidy
<1>4. MessagesOnly => sk[i].async
  BY DEF MayConnect, MessagesOnly
<1>5. HabitInv'
  BY <1>1, <1>2, <1>4 DEF MessageInv, HabitInv, Used, MessagesOnly
<1>6. LatchMeansMessage'
  BY <1>1, <1>2, <1>3 DEF MessageInv, LatchMeansMessage, WantsReads, ReadQueued, MessagesOnly
<1> QED BY <1>5, <1>6 DEF MessageInv

LEMMA CallMessage ==
  ASSUME TypeOK, EndInv, MessageInv, UNCHANGED habit, NEW i \in Slots, ApiCall(i)
  PROVE  MessageInv'
<1>1. CASE CloseSocket(i)
  <2>1. refs' = refs /\ UNCHANGED <<blocked, queue, lost>> /\ CloseSlots({i})
    BY <1>1 DEF CloseSocket, winVars, msgVars
  <2>2. \A j \in Slots : Used(j) => refs[sk[j].owner] > 0
    BY DEF MessageInv, HabitInv
  <2> QED BY <2>1, <2>2, CloseMessage
<1>2. ASSUME NEW rd \in BOOLEAN, NEW wr \in BOOLEAN, Shutdown(i, rd, wr)
      PROVE  MessageInv'
  BY <1>2, ShutdownSlides, QuietlyKeeps DEF Shutdown, winVars, msgVars
<1>3. CASE MayConnect(i) /\ ConnectSock(i)
  BY <1>3, ConnectMessage
<1>4. ASSUME "blocking" \in habit.styles, NEW b \in BOOLEAN, SetBlocking(i, b)
      PROVE  MessageInv'
  <2>1. ~MessagesOnly
    BY <1>4 DEF MessagesOnly
  <2> QED BY <1>4, <2>1, SetBlockingSlides, OtherHabits DEF SetBlocking, winVars, MessageInv
<1>5. CASE AskReadable(i)
  BY <1>5, AskReadableSlides, QuietlyKeeps DEF AskReadable, winVars, msgVars
<1>6. ASSUME NEW events \in habit.events, AsyncSelect(i, events)
      PROVE  MessageInv'
  BY <1>6, AsyncSelectMessage
<1>7. CASE SendRequest(i)
  BY <1>7, SendSlides, QuietlyKeeps DEF SendRequest, winVars, msgVars
<1>8. ASSUME NEW len \in Lens, NEW peek \in BOOLEAN, Recv(i, len, peek)
      PROVE  MessageInv'
  <2>1. Slides /\ Quietly /\ (NoneWaits => blocked' = blocked)
    BY <1>8, TypesUsed, RecvSlides
  <2>2. MessagesOnly => blocked' = blocked
    BY <2>1, NoneWaitsHere DEF MessageInv
  <2> QED BY <1>8, <2>1, <2>2, QuietlyKeeps DEF Recv, msgVars
<1>9. ASSUME NEW set \in {"read", "write", "except"}, NEW wait \in BOOLEAN,
             wait => "blocking" \in habit.styles, Select(i, set, wait)
      PROVE  MessageInv'
  <2>1. Slides /\ Quietly /\ (wait = FALSE => blocked' = blocked)
    BY <1>9, SelectSlides
  <2>2. MessagesOnly => blocked' = blocked
    BY <1>9, <2>1 DEF MessagesOnly
  <2> QED BY <1>9, <2>1, <2>2, QuietlyKeeps DEF Select, msgVars
<1> QED BY <1>1, <1>2, <1>3, <1>4, <1>5, <1>6, <1>7, <1>8, <1>9 DEF ApiCall

LEMMA MessageNext == TypeOK /\ EndInv /\ MessageInv /\ [Next /\ UNCHANGED habit]_<<vars, habit>> => MessageInv'
<1> SUFFICES ASSUME TypeOK, EndInv, MessageInv, [Next /\ UNCHANGED habit]_<<vars, habit>> PROVE MessageInv'
  OBVIOUS
<1>1. ASSUME UNCHANGED <<sk, refs, blocked, queue, lost, habit>>
      PROVE  MessageInv'
  BY <1>1 DEF MessageInv, HabitInv, LatchMeansMessage, Used, MessagesOnly, WantsReads, ReadQueued
<1>2. CASE UNCHANGED <<vars, habit>>
  BY <1>1, <1>2 DEF vars
<1>3. CASE Next /\ UNCHANGED habit
  <2>1. ASSUME NEW t \in Tasks, Startup(t)
        PROVE  MessageInv'
    <3>1. refs' = [refs EXCEPT ![t] = @ + 1] /\ UNCHANGED <<sk, blocked, queue, lost>>
      BY <2>1 DEF Startup, msgVars
    <3>2. \A i \in Slots : Used(i) => refs'[sk[i].owner] > 0
      BY <3>1, WinsockAssumption, TypesUsed DEF MessageInv, HabitInv, TypeOK
    <3>3. \A i \in Slots : WantsReads(i)' => WantsReads(i)
      BY <3>1 DEF WantsReads, MessageInv, HabitInv, Used
    <3>4. HabitInv'
      BY <1>3, <3>1, <3>2 DEF MessageInv, HabitInv, Used, MessagesOnly
    <3>5. LatchMeansMessage'
      BY <1>3, <3>1, <3>3 DEF MessageInv, LatchMeansMessage, ReadQueued, MessagesOnly
    <3> QED BY <3>4, <3>5 DEF MessageInv
  <2>2. ASSUME NEW t \in Tasks, TakeMessage(t)
        PROVE  MessageInv'
    BY <1>3, <2>2, TypesUsed, OnMessageMessage DEF TakeMessage
  <2>3. CASE CancelBlockingCall
    BY <1>1, <1>3, <2>3 DEF CancelBlockingCall, msgVars
  <2>4. CASE Turn
    <3>1. UNCHANGED <<refs, queue, lost>>
      BY <2>4 DEF Turn, TurnCancelled, TurnRecv, TurnSelect, msgVars
    <3>2. ~MessagesOnly
      BY <2>4, TurnSlides DEF MessageInv, HabitInv
    <3> QED BY <1>3, <2>4, <3>1, <3>2, TurnSlides, OtherHabits DEF MessageInv
  <2>5. CASE PageAnswers
    <3>1. UNCHANGED <<sk, winVars, msgVars>>
      BY <2>5, AnswerMade
    <3> QED BY <1>1, <1>3, <3>1 DEF winVars, msgVars
  <2> QED BY <1>3, <2>1, <2>2, <2>3, <2>4, <2>5, CleanupMessage, SocketMessage, TickMessage, CallMessage DEF Next
<1> QED BY <1>2, <1>3

\* Where programs use messages alone and no queue has overflowed, a latched
\* FD_READ is in its program's queue: there is no set latch that nobody will clear.
THEOREM LatchedMessage == Spec => []LatchMeansMessage
<1>1. MessageInv => LatchMeansMessage
  BY DEF MessageInv
<1> QED BY <1>1, TypeInit, TypeNext, EndInit, EndNext, MessageInit, MessageNext, PTL DEF Spec

-----------------------------------------------------------------------------
(* A socket somebody waits on.                                             *)

KeptStep ==
  \A i \in Slots : blocked # NoCall /\ blocked.slot = i /\ Used(i) /\ ~Used(i)'
     => refs[sk[i].owner] = 1 /\ refs'[sk[i].owner] = 0

LEMMA KeptNext == TypeOK /\ [Next /\ UNCHANGED habit]_<<vars, habit>> => [KeptStep]_vars
<1> SUFFICES ASSUME TypeOK, Next, UNCHANGED habit PROVE KeptStep
  BY DEF vars
<1>1. ASSUME Slides
      PROVE  KeptStep
  BY <1>1 DEF Slides, Keeps, Used, KeptStep
<1>2. ASSUME sk' = sk
      PROVE  KeptStep
  BY <1>2 DEF Used, KeptStep
<1>3. ASSUME NEW t \in Tasks, Cleanup(t)
      PROVE  KeptStep
  <2> DEFINE S == IF refs[t] = 1 THEN {i \in Slots : Used(i) /\ sk[i].owner = t} ELSE {}
  <2>1. CloseSlots(S) /\ refs' = [refs EXCEPT ![t] = @ - 1]
    BY <1>3 DEF Cleanup
  <2>2. \A i \in Slots \ S : sk'[i] = sk[i]
    BY <2>1, ClosedSlots
  <2>3. refs[t] = 1 => refs'[t] = 0
    BY <2>1 DEF TypeOK
  <2> QED BY <2>2, <2>3 DEF Used, KeptStep
<1>4. ASSUME NEW t \in Tasks, Socket(t)
      PROVE  KeptStep
  <2> DEFINE u == [Free EXCEPT !.state = "unbound", !.owner = t]
  <2>1. PICK i \in Slots : sk'[i] = u /\ \A j \in Slots \ {i} : sk'[j] = sk[j]
    BY <1>4, SocketMade
  <2>2. u.state = "unbound"
    BY FreeType
  <2> QED BY <2>1, <2>2 DEF Used, KeptStep
<1>5. ASSUME NEW i \in Slots, CloseSocket(i) \/ ConnectSock(i)
      PROVE  KeptStep
  BY <1>5 DEF CloseSocket, ConnectSock, NoReentry, KeptStep
<1>6. ASSUME NEW i \in Slots, SendRequest(i)
      PROVE  KeptStep
  BY <1>1, <1>6, SendSlides
<1>7. CASE PageAnswers
  BY <1>2, <1>7, AnswerMade
<1>8. ASSUME NEW t \in Tasks, Startup(t)
      PROVE  KeptStep
  BY <1>2, <1>8 DEF Startup
<1> QED BY <1>1, <1>3, <1>4, <1>5, <1>6, <1>7, <1>8, Kinds DEF Inside

\* A socket that a call waits on is taken away by nothing but the last WSACleanup
\* of its program.
THEOREM WaitedOnKept == Spec => WaitedOnIsKept
<1>1. WaitedOnIsKept <=> [][KeptStep]_vars
  BY DEF WaitedOnIsKept, KeptStep
<1> QED BY <1>1, TypeInit, TypeNext, KeptNext, PTL DEF Spec

=============================================================================
