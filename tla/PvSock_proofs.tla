---------------------------- MODULE PvSock_proofs ----------------------------
(***************************************************************************)
(* Proofs about PvSock, for every number of handles and connections, every *)
(* length of request and reply, and both kinds of host: type correctness,  *)
(* that a staged block is there while it is drained, that the guest reads  *)
(* the very stream the page sent, and the page the request that was sent.  *)
(***************************************************************************)
EXTENDS PvSock, SequenceTheorems, TLAPS

-----------------------------------------------------------------------------
(* What the operations of the device do to a handle.                       *)

\* Least is one of its arguments and no more than either.
LEMMA LeastProperties ==
  ASSUME NEW a \in Nat, NEW b \in Nat
  PROVE  /\ Least(a, b) \in Nat
         /\ Least(a, b) <= a /\ Least(a, b) <= b
         /\ Least(a, b) = a \/ Least(a, b) = b
BY DEF Least

\* Dropping n elements leaves a sequence over the same set, n shorter, which
\* the dropped elements complete.
LEMMA DropProperties ==
  ASSUME NEW S, NEW s \in Seq(S), NEW n \in 0 .. Len(s)
  PROVE  /\ SubSeq(s, 1, n) \in Seq(S)
         /\ Drop(s, n) \in Seq(S)
         /\ Len(Drop(s, n)) = Len(s) - n
         /\ SubSeq(s, 1, n) \o Drop(s, n) = s
<1>1. SubSeq(s, 1, n) \in Seq(S) /\ Drop(s, n) \in Seq(S) /\ Len(Drop(s, n)) = Len(s) - n
  BY SubSeqProperties DEF Drop
<1>2. SubSeq(s, 1, n) \o Drop(s, n) = SubSeq(s, 1, Len(s))
  <2>1. 1 \in 1 .. Len(s) + 1 /\ n \in 1 - 1 .. Len(s) /\ Len(s) \in n .. Len(s)
    OBVIOUS
  <2> QED BY <2>1, ConcatAdjacentSubSeq DEF Drop
<1>3. SubSeq(s, 1, Len(s)) = s
  BY SubSeqFull
<1> QED BY <1>1, <1>2, <1>3

\* A handle that has not been opened is a handle.
LEMMA BlankType ==
  ASSUME NEW T, NEW B
  PROVE  Blank \in Handle(T, B)
BY DEF Blank, Handle, SockStates

\* CHAR and CMD 1 make a handle of a handle.
LEMMA OpenType ==
  ASSUME NEW T, NEW B, NEW k \in Handle(T, B), NEW t \in T
  PROVE  OpenCmd(SetTarget(k, t)) \in Handle(T, B)
BY BlankType DEF OpenCmd, OpenAccepted, SetTarget, Blank, Handle, SockStates

\* SEND and CMD 4 make a handle of a handle, and hand up queued bytes.
LEMMA SendType ==
  ASSUME NEW T, NEW B, NEW k \in Handle(T, B), NEW s \in Seq(B), NEW n \in Nat
  PROVE  /\ PushWords(k, s) \in Handle(T, B)
         /\ SendCmd(k, n) \in Handle(T, B)
         /\ SentBytes(k, n) \in Seq(B \cup {Zero})
<1> DEFINE O == B \cup {Zero}
<1>1. k.out \in Seq(O)
  BY DEF Handle
<1>2. PushWords(k, s) \in Handle(T, B)
  <2>1. s \in Seq(O)
    BY SeqMonotonic
  <2>2. Padded(s) \in Seq(O)
    BY <2>1 DEF Padded
  <2>3. Room(k) \in Nat
    <3>1. \A x \in Nat : 2 * ((x + 1) \div 2) \in Nat
      OBVIOUS
    <3>2. Len(k.out) < OutCap => OutCap - Len(k.out) \in Nat
      BY <1>1, OutCapAssumption
    <3> QED BY <3>1, <3>2 DEF Room
  <2>4. Least(Len(Padded(s)), Room(k)) \in 0 .. Len(Padded(s))
    BY <2>2, <2>3, LeastProperties
  <2>5. SubSeq(Padded(s), 1, Least(Len(Padded(s)), Room(k))) \in Seq(O)
    BY <2>2, <2>4, DropProperties
  <2> QED BY <1>1, <2>5, ConcatProperties DEF PushWords, Handle
<1>3. SendCount(k, n) \in 0 .. Len(k.out)
  BY <1>1 DEF SendCount, Least
<1>4. SentBytes(k, n) \in Seq(O)
  BY <1>1, <1>3, DropProperties DEF SentBytes
<1>5. SendCmd(k, n) \in Handle(T, B)
  <2>1. SendCount(k, n) + (SendCount(k, n) % 2) \in Nat
    BY <1>1, <1>3
  <2>2. Drop(k.out, SendCount(k, n) + (SendCount(k, n) % 2)) \in Seq(O)
    BY <1>1, <2>1, SubSeqProperties DEF Drop
  <2>3. SendCount(k, n) \in Nat
    BY <1>1, <1>3
  <2> QED BY <2>3, <2>2 DEF SendCmd, Handle
<1> QED BY <1>2, <1>4, <1>5

\* CMD 2 stages no more than is there, and reports what it staged.
LEMMA ReadProperties ==
  ASSUME NEW T, NEW B, NEW k \in Handle(T, B), NEW want \in Nat
  PROVE  LET r == ReadCmd(k, want)
         IN  /\ r \in Handle(T, B)
             /\ r.rest = k.rest
             /\ r.result # 0 => r.block = r.result /\ r.block <= Len(r.rest)
<1>1. k.rest \in Seq(B) /\ Len(k.rest) \in Nat /\ k.state \in SockStates
  BY DEF Handle
<1>2. CASE k.rest = <<>>
  BY <1>1, <1>2 DEF ReadCmd, Handle, SockStates
<1>3. CASE k.rest # <<>>
  <2>1. Least(want, Len(k.rest)) \in Nat /\ Least(want, Len(k.rest)) <= Len(k.rest)
    BY <1>1 DEF Least
  <2> QED BY <1>1, <1>3, <2>1 DEF ReadCmd, Handle
<1> QED BY <1>2, <1>3

\* A read of DATA takes DataCount bytes off the stream, shows the guest those
\* very bytes first, and leaves no block without the bytes for it.
LEMMA DataProperties ==
  ASSUME NEW T, NEW B, NEW k \in Handle(T, B)
  PROVE  LET n == DataCount(k)
             r == DataRead(k)
         IN  /\ n \in 0 .. Len(k.rest) /\ n <= k.block /\ n <= 2
             /\ r \in Handle(T, B)
             /\ r.rest = Drop(k.rest, n)
             /\ k.block <= Len(k.rest) => r.block = k.block - n
             /\ DataWord(k) \in Seq(B \cup {Zero}) /\ Len(DataWord(k)) = 2
             /\ SubSeq(DataWord(k), 1, n) = SubSeq(k.rest, 1, n)
<1> DEFINE n == DataCount(k)
<1>1. k.rest \in Seq(B) /\ Len(k.rest) \in Nat /\ k.block \in Nat /\ k.state \in SockStates
  BY DEF Handle
<1>2. n \in 0 .. Len(k.rest) /\ n <= k.block /\ n <= 2
  BY <1>1 DEF DataCount, Least
<1>3. Drop(k.rest, n) \in Seq(B)
  BY <1>1, <1>2, DropProperties
<1>4. DataRead(k) \in Handle(T, B)
  <2>1. CASE n = 0
    BY <2>1 DEF DataRead
  <2>2. CASE n # 0 /\ n = Len(k.rest)
    BY <1>1, <1>2, <1>3, <2>2 DEF DataRead, Handle, SockStates
  <2>3. CASE n # 0 /\ n # Len(k.rest)
    <3>1. k.block - n \in Nat
      BY <1>1, <1>2
    <3> QED BY <1>1, <1>3, <2>3, <3>1 DEF DataRead, Handle
  <2> QED BY <2>1, <2>2, <2>3
<1>5. DataRead(k).rest = Drop(k.rest, n)
  <2>1. CASE n = 0
    BY <1>1, <2>1, SubSeqFull DEF DataRead, Drop
  <2>2. CASE n # 0
    BY <1>1, <2>2 DEF DataRead, Handle
  <2> QED BY <2>1, <2>2
<1>6. k.block <= Len(k.rest) => DataRead(k).block = k.block - n
  BY <1>1, <1>2 DEF DataRead, Handle
<1>7. /\ DataWord(k) \in Seq(B \cup {Zero}) /\ Len(DataWord(k)) = 2
      /\ SubSeq(DataWord(k), 1, n) = SubSeq(k.rest, 1, n)
  <2>1. CASE n = 0
    <3>1. DataWord(k) = <<Zero, Zero>>
      BY <2>1 DEF DataWord
    <3> QED BY <1>1, <2>1, <3>1, SubSeqEmpty
  <2>2. CASE n = 1
    <3>1. DataWord(k) = <<k.rest[1], Zero>> /\ k.rest[1] \in B
      BY <1>1, <1>2, <2>2 DEF DataWord
    <3> QED BY <1>1, <1>2, <2>2, <3>1
  <2>3. CASE n = 2
    <3>1. DataWord(k) = <<k.rest[1], k.rest[2]>> /\ k.rest[1] \in B /\ k.rest[2] \in B
      BY <1>1, <1>2, <2>3 DEF DataWord
    <3> QED BY <1>1, <1>2, <2>3, <3>1
  <2> QED BY <1>2, <2>1, <2>2, <2>3
<1> QED BY <1>2, <1>4, <1>5, <1>6, <1>7

\* A message of the page makes a handle of a handle: it adds its bytes behind
\* those still unread, or changes nothing of the stream.
LEMMA ArriveProperties ==
  ASSUME NEW T, NEW B, NEW k \in Handle(T, B), NEW s \in Seq(B), NEW d \in BOOLEAN
  PROVE  /\ Arrive(k, s, d) \in Handle(T, B) /\ Fail(k) \in Handle(T, B)
         /\ Arrive(k, s, d).rest = IF k.state = "idle" THEN k.rest ELSE k.rest \o s
         /\ Fail(k).rest = k.rest
         /\ Arrive(k, s, d).block = k.block /\ Fail(k).block = k.block
<1>1. k.rest \o s \in Seq(B)
  BY ConcatProperties DEF Handle
<1> QED BY <1>1 DEF Arrive, Fail, Handle, SockStates

-----------------------------------------------------------------------------
(* Types.                                                                  *)

\* The assumptions in the form the steps below cite.
LEMMA Bounds ==
  /\ MaxConns \in Nat /\ Block \in Nat /\ MaxReply \in Nat
  /\ \A c : c \in Conns <=> c \in 0 .. MaxConns /\ c # 0
BY PvSockAssumption DEF Conns

\* Bytes(c, i, j) is a sequence of bytes.
LEMMA BytesType ==
  ASSUME NEW c \in Conns, NEW i \in Nat, NEW n \in Nat
  PROVE  Bytes(c, i + 1, i + n) \in Seq(Byte)
<1>1. (i + n) - (i + 1) + 1 = n
  OBVIOUS
<1>2. \A x \in 1 .. n : i + 1 + x - 1 \in Nat
  OBVIOUS
<1>3. Bytes(c, i + 1, i + n) \in [1 .. n -> Byte]
  BY <1>1, <1>2 DEF Bytes, Byte
<1> QED BY <1>3, IsASeq

\* The code starts with a well-typed state ...
LEMMA TypeInit == Init => TypeOK
<1> SUFFICES ASSUME Init PROVE TypeOK
  OBVIOUS
<1>1. socks \in [Handles -> Handle(Targets, Byte)]
  BY BlankType DEF Init
<1> QED BY <1>1, Bounds, EmptySeq DEF Init, TypeOK, Exchange, NoHost

\* ... and every step of it leads to another.
LEMMA TypeNext == TypeOK /\ [Next]_vars => TypeOK'
<1> SUFFICES ASSUME TypeOK, [Next]_vars PROVE TypeOK'
  OBVIOUS
<1> USE DEF TypeOK
<1>1. ASSUME NEW h \in Handles, NEW url \in BOOLEAN, Connect(h, url) PROVE TypeOK'
  <2> DEFINE c == Len(home) + 1
             t == [conn |-> c, url |-> url]
  <2>1. c \in Conns /\ t \in Targets
    <3>1. Len(home) \in Nat /\ Len(home) < MaxConns
      BY <1>1 DEF Connect
    <3>2. c \in 0 .. MaxConns /\ c # 0
      BY <3>1, Bounds
    <3> QED BY <3>2, Bounds DEF Targets
  <2>2. socks' \in [Handles -> Handle(Targets, Byte)]
    BY <1>1, <2>1, OpenType DEF Connect
  <2>3. toHost' \in Seq(ToHostMsg)
    <3>1. [type |-> "open", handle |-> h, target |-> t] \in ToHostMsg
      BY <2>1 DEF ToHostMsg
    <3> QED BY <1>1, <3>1 DEF Connect, SetTarget, Handle
  <2>4. conn' \in [Handles -> 0 .. MaxConns]
    BY <1>1, <2>1, Bounds DEF Connect
  <2>5. home' \in Seq(Handles)
    BY <1>1 DEF Connect
  <2> QED BY <1>1, <2>2, <2>3, <2>4, <2>5, EmptySeq DEF Connect, hostVars, pumpVars
<1>2. ASSUME NEW h \in Handles, NEW n \in 1 .. Block, Send(h, n) PROVE TypeOK'
  <2> DEFINE s == Bytes(conn[h], nsent[h] + 1, nsent[h] + n)
             k == PushWords(socks[h], s)
  <2>1. s \in Seq(Byte)
    <3>1. conn[h] \in Conns /\ nsent[h] \in Nat /\ n \in Nat
      BY <1>2, Bounds DEF Send
    <3> QED BY <3>1, BytesType
  <2>2. k \in Handle(Targets, Byte)
    BY <2>1, SendType
  <2>3. SendCmd(k, n) \in Handle(Targets, Byte) /\ SentBytes(k, n) \in Seq(Byte \cup {Zero})
    <3>1. n \in Nat
      BY Bounds
    <3> QED BY <2>1, <2>2, <3>1, SendType
  <2>4. toHost' \in Seq(ToHostMsg)
    <3>1. [type |-> "send", handle |-> h, bytes |-> SentBytes(k, n)] \in ToHostMsg
      BY <2>3 DEF ToHostMsg
    <3> QED BY <1>2, <3>1 DEF Send
  <2>5. socks' \in [Handles -> Handle(Targets, Byte)]
    BY <1>2, <2>3 DEF Send
  <2>6. nsent' \in [Handles -> Nat]
    <3>1. n \in Nat /\ nsent \in [Handles -> Nat]
      BY Bounds
    <3>2. nsent' = [nsent EXCEPT ![h] = @ + n]
      BY <1>2 DEF Send
    <3> HIDE DEF TypeOK
    <3> QED BY <3>1, <3>2
  <2> QED BY <1>2, <2>4, <2>5, <2>6 DEF Send, hostVars, pumpVars
<1>3. ASSUME NEW h \in Handles, PumpLook(h) PROVE TypeOK'
  BY <1>3 DEF PumpLook, hostVars, pumpVars
<1>4. ASSUME NEW want \in 1 .. Block, PumpRead(want) PROVE TypeOK'
  <2>1. ReadCmd(socks[cur], want) \in Handle(Targets, Byte)
    BY ReadProperties, Bounds
  <2> QED BY <1>4, <2>1 DEF PumpRead, hostVars, guestVars, Handle
<1>5. CASE DrainWord
  <2> DEFINE take == Least(2, left)
  <2>1. DataRead(socks[sel]) \in Handle(Targets, Byte)
    BY DataProperties
  <2>2. SubSeq(DataWord(socks[sel]), 1, take) \in Seq(Byte \cup {Zero})
    <3>1. DataWord(socks[sel]) \in Seq(Byte \cup {Zero}) /\ Len(DataWord(socks[sel])) = 2
      <4>1. socks[sel] \in Handle(Targets, Byte)
        OBVIOUS
      <4> QED BY <4>1, DataProperties
    <3>2. take \in 0 .. 2
      BY DEF Least
    <3> QED BY <3>1, <3>2, DropProperties
  <2>3. handed' \in [Handles -> Seq(Byte \cup {Zero})]
    BY <1>5, <2>2, ConcatProperties DEF DrainWord, AfterWord
  <2>4. left' \in Nat
    BY <1>5 DEF DrainWord, AfterWord, Least
  <2> QED BY <1>5, <2>1, <2>3, <2>4 DEF DrainWord, AfterWord, hostVars
<1>6. ASSUME NEW h \in Handles, Close(h) PROVE TypeOK'
  <2>1. [type |-> "close", handle |-> h] \in ToHostMsg
    BY DEF ToHostMsg
  <2>2. toHost' \in Seq(ToHostMsg)
    BY <1>6, <2>1 DEF Close
  <2>3. socks' \in [Handles -> Handle(Targets, Byte)]
    BY <1>6, BlankType DEF Close, CloseCmd
  <2>4. conn' \in [Handles -> 0 .. MaxConns]
    BY <1>6, Bounds DEF Close
  <2> QED BY <1>6, <2>2, <2>3, <2>4, EmptySeq DEF Close, hostVars, pumpVars
<1>7. CASE HostTake
  <2> DEFINE m == Head(toHost)
             h == m.handle
             req == host[h].req \o m.bytes
  <2>1. m \in ToHostMsg /\ toHost' \in Seq(ToHostMsg)
    BY <1>7, HeadTailProperties DEF HostTake
  <2>2. h \in Handles
    BY <2>1 DEF ToHostMsg
  <2>3. host[h] \in Exchange
    BY <2>2
  <2>4. /\ host' \in [Handles -> Exchange]
        /\ fetches' \subseteq [handle : Handles, conn : Conns, given : Nat]
    <3>1. CASE m.type = "open"
      <4>1. m.target \in Targets
        BY <2>1, <3>1 DEF ToHostMsg
      <4>2. [conn |-> m.target.conn, req |-> <<>>, sent |-> m.target.url] \in Exchange
        BY <4>1, Bounds, EmptySeq DEF Targets, Exchange
      <4>3. Fetch(h, m.target.conn) \in [handle : Handles, conn : Conns, given : Nat]
        BY <2>2, <4>1 DEF Fetch, Targets
      <4> QED BY <1>7, <2>2, <3>1, <4>2, <4>3 DEF HostTake
    <3>2. CASE m.type = "send" /\ host[h].conn # 0 /\ ~host[h].sent
      <4>1. m.bytes \in Seq(Byte \cup {Zero})
        BY <2>1, <3>2 DEF ToHostMsg
      <4>2. req \in Seq(Byte \cup {Zero})
        BY <2>3, <4>1, ConcatProperties DEF Exchange
      <4>3. Complete(req) \in BOOLEAN
        BY DEF Complete
      <4>4. Fetch(h, host[h].conn) \in [handle : Handles, conn : Conns, given : Nat]
        BY <2>2, <2>3, <3>2, Bounds DEF Fetch, Exchange
      <4>5. host' = [host EXCEPT ![h] = [@ EXCEPT !.req = req, !.sent = Complete(req)]]
        BY <1>7, <2>2, <2>3, <3>2 DEF HostTake, Exchange
      <4>6. [host[h] EXCEPT !.req = req, !.sent = Complete(req)] \in Exchange
        BY <2>3, <4>2, <4>3 DEF Exchange
      <4>7. fetches' \subseteq fetches \cup {Fetch(h, host[h].conn)}
        BY <1>7, <3>2 DEF HostTake
      <4> QED BY <2>2, <4>4, <4>5, <4>6, <4>7
    <3>3. CASE m.type = "send" /\ (host[h].conn = 0 \/ host[h].sent)
      BY <1>7, <3>3 DEF HostTake, hostVars
    <3>4. CASE m.type = "close"
      <4>1. NoHost \in Exchange
        BY Bounds, EmptySeq DEF NoHost, Exchange
      <4> QED BY <1>7, <2>2, <3>4, <4>1 DEF HostTake
    <3>5. m.type \in {"open", "send", "close"}
      BY <2>1 DEF ToHostMsg
    <3>6. host[h].sent \in BOOLEAN
      BY <2>3 DEF Exchange
    <3> QED BY <3>1, <3>2, <3>3, <3>4, <3>5, <3>6
  <2> QED BY <1>7, <2>1, <2>4 DEF HostTake, devVars, pumpVars, guestVars
<1>8. ASSUME NEW f \in fetches, NEW n \in 0 .. MaxReply, NEW more \in BOOLEAN,
             NEW bad \in BOOLEAN, FetchAnswers(f, n, more, bad)
      PROVE TypeOK'
  <2>1. f \in [handle : Handles, conn : Conns, given : Nat]
    OBVIOUS
  <2>2. Bytes(f.conn, f.given + 1, f.given + n) \in Seq(Byte)
    <3>1. f.conn \in Conns /\ f.given \in Nat /\ n \in Nat
      BY <2>1, Bounds
    <3> QED BY <3>1, BytesType
  <2>3. [handle |-> f.handle, bytes |-> Bytes(f.conn, f.given + 1, f.given + n),
         done |-> ~more, error |-> bad] \in ToDevMsg
    BY <2>1, <2>2 DEF ToDevMsg
  <2>4. toDev' \in Seq(ToDevMsg)
    BY <1>8, <2>3 DEF FetchAnswers
  <2>5. [f EXCEPT !.given = @ + n] \in [handle : Handles, conn : Conns, given : Nat]
    <3>1. f.given \in Nat
      BY <2>1
    <3>2. n \in Nat
      BY Bounds
    <3>3. f.given + n \in Nat
      BY <3>1, <3>2
    <3> QED BY <2>1, <3>3
  <2>6. fetches' \subseteq [handle : Handles, conn : Conns, given : Nat]
    BY <1>8, <2>5 DEF FetchAnswers
  <2> QED BY <1>8, <2>4, <2>6 DEF FetchAnswers, devVars, pumpVars, guestVars
<1>9. CASE DevTake
  <2> DEFINE m == Head(toDev)
             k == socks[m.handle]
  <2>1. m \in ToDevMsg /\ toDev' \in Seq(ToDevMsg)
    BY <1>9, HeadTailProperties DEF DevTake, Addressee
  <2>2. m.handle \in Handles /\ m.bytes \in Seq(Byte) /\ m.done \in BOOLEAN
    BY <2>1 DEF ToDevMsg
  <2>3. Arrive(k, m.bytes, m.done) \in Handle(Targets, Byte) /\ Fail(k) \in Handle(Targets, Byte)
    BY <2>2, ArriveProperties
  <2>4. socks' \in [Handles -> Handle(Targets, Byte)]
    BY <1>9, <2>2, <2>3 DEF DevTake, Addressee
  <2>5. fed' \in [Handles -> Seq(Byte)]
    BY <1>9, <2>2, ConcatProperties DEF DevTake, Addressee
  <2> QED BY <1>9, <2>1, <2>4, <2>5 DEF DevTake, Addressee, hostVars, pumpVars, guestVars
<1>10. CASE UNCHANGED vars
  <2>1. UNCHANGED <<socks, sel, toHost, toDev, host, fetches, pc, cur, left, conn, nsent,
                    handed, eof, home, fed, orphaned>>
    BY <1>10 DEF vars, devVars, hostVars, pumpVars, guestVars
  <2> QED BY <2>1
<1> HIDE DEF TypeOK
<1>11. CASE FetchStep
  BY <1>8, <1>11, Zenon DEF FetchStep
<1>12. CASE Pump
  BY <1>3, <1>4, <1>5, <1>12 DEF Pump
<1>13. [Next]_vars
  OBVIOUS
<1> QED
  BY <1>1, <1>2, <1>6, <1>7, <1>9, <1>10, <1>11, <1>12, <1>13 DEF Next

\* Every reachable state of adapter, bus, page and guest is well typed, for
\* any number of handles and connections and any lengths.
THEOREM TypeCorrect == Spec => []TypeOK
<1> QED BY TypeInit, TypeNext, PTL DEF Spec

-----------------------------------------------------------------------------
(* The stream.                                                             *)

\* Joining three sequences does not depend on which two are joined first.
LEMMA Associate ==
  ASSUME NEW S, NEW s \in Seq(S), NEW t \in Seq(S), NEW u \in Seq(S)
  PROVE  (s \o t) \o u = s \o (t \o u)
BY ConcatAssociative

\* InOrder is not inductive alone: a drained word is the stream's next bytes
\* only if the block is there, which StagedIsThere adds.
StreamInv == InOrder /\ StagedIsThere

\* Nothing is open and nothing is drained at the start.
LEMMA StreamInit == Init => StreamInv
BY DEF Init, StreamInv, InOrder, StagedIsThere

\* Every step of guest, page and adapter keeps both.
LEMMA StreamNext == TypeOK /\ StreamInv /\ [Next]_vars => StreamInv'
<1> SUFFICES ASSUME TypeOK, StreamInv, [Next]_vars PROVE StreamInv'
  OBVIOUS
<1> USE DEF StreamInv
<1> DEFINE B == Byte \cup {Zero}
<1>t. /\ socks \in [Handles -> Handle(Targets, Byte)]
      /\ \A h \in Handles : socks[h].rest \in Seq(Byte) /\ socks[h].rest \in Seq(B)
      /\ handed \in [Handles -> Seq(B)]
      /\ fed \in [Handles -> Seq(Byte)]
      /\ \A h \in Handles : fed[h] \in Seq(B)
      /\ sel \in Handles /\ cur \in Handles /\ left \in Nat
  BY SeqMonotonic DEF TypeOK, Handle
<1>1. ASSUME NEW h \in Handles, NEW url \in BOOLEAN, Connect(h, url) PROVE StreamInv'
  <2> DEFINE t == [conn |-> Len(home) + 1, url |-> url]
  <2>1. t \in Targets
    <3>1. Len(home) \in Nat /\ Len(home) < MaxConns
      BY <1>1 DEF TypeOK, Connect
    <3>2. Len(home) + 1 \in 0 .. MaxConns /\ Len(home) + 1 # 0
      BY <3>1, Bounds
    <3> QED BY <3>2, Bounds DEF Targets
  <2>2. OpenCmd(SetTarget(socks[h], t)).rest = <<>>
    <3>1. SetTarget(socks[h], t).target = t
      BY <1>t DEF SetTarget, Handle
    <3> QED BY <2>1, <3>1, NoTargetAssumption DEF OpenCmd, OpenAccepted, Blank
  <2>3. StagedIsThere'
    BY <1>1 DEF Connect, pumpVars, StagedIsThere
  <2>4. InOrder'
    <3>1. \A g \in Handles \ {h} : /\ socks'[g] = socks[g] /\ handed'[g] = handed[g]
                                    /\ fed'[g] = fed[g] /\ conn'[g] = conn[g]
      BY <1>1 DEF Connect, TypeOK
    <3>2. socks'[h].rest = <<>> /\ handed'[h] = <<>> /\ fed'[h] = <<>>
      BY <1>1, <1>t, <2>2 DEF Connect
    <3>3. <<>> \o <<>> = <<>>
      BY ConcatEmptySeq, EmptySeq
    <3> QED BY <3>1, <3>2, <3>3 DEF InOrder
  <2> QED BY <2>3, <2>4
<1>2. ASSUME NEW h \in Handles, NEW n \in 1 .. Block, Send(h, n) PROVE StreamInv'
  <2> DEFINE k == PushWords(socks[h], Bytes(conn[h], nsent[h] + 1, nsent[h] + n))
  <2>1. SendCmd(k, n).rest = socks[h].rest
    BY <1>t DEF SendCmd, PushWords, Handle
  <2>2. \A g \in Handles : socks'[g].rest = socks[g].rest
    BY <1>2, <1>t, <2>1 DEF Send
  <2> QED BY <1>2, <2>2 DEF Send, pumpVars, InOrder, StagedIsThere
<1>3. ASSUME NEW h \in Handles, PumpLook(h) PROVE StreamInv'
  BY <1>3 DEF PumpLook, pumpVars, InOrder, StagedIsThere
<1>4. ASSUME NEW want \in 1 .. Block, PumpRead(want) PROVE StreamInv'
  <2> DEFINE k == ReadCmd(socks[cur], want)
  <2>1. /\ k.rest = socks[cur].rest
        /\ k.result # 0 => k.block = k.result /\ k.block <= Len(k.rest)
    BY <1>t, Bounds, ReadProperties
  <2>2. \A g \in Handles : socks'[g].rest = socks[g].rest
    BY <1>4, <1>t, <2>1 DEF PumpRead
  <2>3. socks'[cur] = k
    BY <1>4, <1>t DEF PumpRead
  <2>4. StagedIsThere'
    BY <1>4, <2>1, <2>3 DEF PumpRead, StagedIsThere
  <2> QED BY <1>4, <2>2, <2>4 DEF PumpRead, guestVars, InOrder
<1>5. CASE DrainWord
  <2> DEFINE k == socks[cur]
             n == DataCount(k)
             word == SubSeq(k.rest, 1, n)
  <2>1. sel = cur /\ left = k.block /\ left <= Len(k.rest) /\ left > 0
    BY <1>5 DEF DrainWord, AfterWord, StagedIsThere
  <2>2. /\ n \in 0 .. Len(k.rest)
        /\ DataRead(k).rest = Drop(k.rest, n)
        /\ DataRead(k).block = k.block - n
        /\ SubSeq(DataWord(k), 1, n) = word
    <3>1. k \in Handle(Targets, Byte) /\ k.block <= Len(k.rest)
      BY <1>t, <2>1
    <3> QED BY <3>1, DataProperties
  <2>3. n = Least(2, left)
    BY <1>t, <2>1 DEF DataCount, Least
  <2>4. /\ socks' = [socks EXCEPT ![cur] = DataRead(k)]
        /\ handed' = [handed EXCEPT ![cur] = @ \o word]
        /\ left' = left - n /\ sel' = cur /\ cur' = cur /\ fed' = fed /\ conn' = conn
    BY <1>5, <2>1, <2>2, <2>3 DEF DrainWord, AfterWord
  <2>5. StagedIsThere'
    <3>1. socks'[cur] = DataRead(k)
      BY <1>t, <2>4
    <3>2. Len(Drop(k.rest, n)) = Len(k.rest) - n
      BY <1>t, <2>2, DropProperties
    <3>3. Len(k.rest) \in Nat /\ n \in Nat
      BY <1>t, <2>2
    <3> QED BY <1>t, <2>1, <2>2, <2>4, <3>1, <3>2, <3>3 DEF StagedIsThere
  <2>6. InOrder'
    <3>1. \A g \in Handles \ {cur} : socks'[g] = socks[g] /\ handed'[g] = handed[g]
      BY <1>t, <2>4
    <3>2. word \in Seq(B) /\ Drop(k.rest, n) \in Seq(B) /\ word \o Drop(k.rest, n) = k.rest
      BY <1>t, <2>2, DropProperties
    <3>3. handed'[cur] \o socks'[cur].rest = (handed[cur] \o word) \o Drop(k.rest, n)
      BY <1>t, <2>2, <2>4
    <3>4. (handed[cur] \o word) \o Drop(k.rest, n) = handed[cur] \o k.rest
      <4>1. handed[cur] \in Seq(B)
        BY <1>t
      <4> DEFINE old == handed[cur]
                 rest == Drop(k.rest, n)
      <4>2. old \in Seq(B) /\ word \in Seq(B) /\ rest \in Seq(B)
        BY <3>2, <4>1
      <4>3. (old \o word) \o rest = old \o (word \o rest)
        <5> HIDE DEF old, word, rest, B
        <5> QED BY <4>2, Associate
      <4> QED BY <3>2, <4>3
    <3> QED BY <2>4, <3>1, <3>3, <3>4 DEF InOrder
  <2> QED BY <2>5, <2>6
<1>6. ASSUME NEW h \in Handles, Close(h) PROVE StreamInv'
  <2>1. StagedIsThere'
    BY <1>6 DEF Close, pumpVars, StagedIsThere
  <2>2. InOrder'
    <3>1. \A g \in Handles \ {h} : /\ socks'[g] = socks[g] /\ handed'[g] = handed[g]
                                    /\ fed'[g] = fed[g] /\ conn'[g] = conn[g]
      BY <1>6, <1>t DEF Close, TypeOK
    <3>2. conn'[h] = 0
      BY <1>6 DEF Close, TypeOK
    <3> QED BY <3>1, <3>2 DEF InOrder
  <2> QED BY <2>1, <2>2
<1>7. CASE HostTake
  BY <1>7 DEF HostTake, devVars, pumpVars, guestVars, InOrder, StagedIsThere
<1>8. ASSUME NEW f \in fetches, NEW n \in 0 .. MaxReply, NEW more \in BOOLEAN,
             NEW bad \in BOOLEAN, FetchAnswers(f, n, more, bad)
      PROVE StreamInv'
  BY <1>8 DEF FetchAnswers, devVars, pumpVars, guestVars, InOrder, StagedIsThere
<1>9. CASE DevTake
  <2> DEFINE m == Head(toDev)
             h == m.handle
             k == socks[h]
             a == Arrive(k, m.bytes, m.done)
  <2>1. h \in Handles /\ m.bytes \in Seq(Byte) /\ m.bytes \in Seq(B) /\ m.done \in BOOLEAN
    <3>1. m \in ToDevMsg
      BY <1>9, HeadTailProperties DEF TypeOK, DevTake, Addressee
    <3> QED BY <3>1, SeqMonotonic DEF ToDevMsg
  <2>2. /\ a.rest = IF k.state = "idle" THEN k.rest ELSE k.rest \o m.bytes
        /\ Fail(k).rest = k.rest /\ a.block = k.block /\ Fail(k).block = k.block
    BY <1>t, <2>1, ArriveProperties
  <2>3. /\ \A g \in Handles \ {h} : socks'[g] = socks[g] /\ fed'[g] = fed[g]
        /\ UNCHANGED <<sel, pc, cur, left, conn, handed>>
    BY <1>9, <1>t DEF DevTake, Addressee, pumpVars, guestVars
  <2>4. CASE m.error \/ k.state = "idle"
    <3>1. socks'[h].rest = k.rest /\ socks'[h].block = k.block /\ fed'[h] = fed[h]
      BY <1>9, <1>t, <2>1, <2>2, <2>4 DEF DevTake, Addressee
    <3>2. \A g \in Handles : /\ socks'[g].rest = socks[g].rest
                             /\ socks'[g].block = socks[g].block /\ fed'[g] = fed[g]
      BY <2>3, <3>1
    <3>3. InOrder'
      BY <2>3, <3>2 DEF InOrder
    <3>4. StagedIsThere'
      BY <1>t, <2>3, <3>2 DEF StagedIsThere
    <3> QED BY <3>3, <3>4
  <2>5. CASE ~m.error /\ k.state # "idle"
    <3>1. /\ socks'[h].rest = k.rest \o m.bytes /\ socks'[h].block = k.block
          /\ fed'[h] = fed[h] \o m.bytes
      BY <1>9, <1>t, <2>1, <2>2, <2>5 DEF DevTake, Addressee
    <3> DEFINE old == handed[h]
               rest == k.rest
               new == m.bytes
    <3>2. old \in Seq(B) /\ rest \in Seq(B) /\ new \in Seq(B)
      BY <1>t, <2>1
    <3>3. /\ old \o (rest \o new) = (old \o rest) \o new
          /\ Len(rest) \in Nat /\ Len(rest \o new) \in Nat /\ Len(rest \o new) >= Len(rest)
      <4> HIDE DEF old, rest, new, B
      <4>1. Len(rest \o new) = Len(rest) + Len(new) /\ Len(rest) \in Nat /\ Len(new) \in Nat
        BY <3>2, ConcatProperties
      <4> QED BY <3>2, <4>1, Associate
    <3>4. InOrder'
      BY <2>1, <2>3, <3>1, <3>3 DEF InOrder
    <3>5. StagedIsThere'
      <4>1. CASE cur = h
        <5>1. socks'[cur'].rest = rest \o new /\ socks'[cur'].block = socks[cur].block
          BY <2>3, <3>1, <4>1
        <5>2. pc = "drain" => sel = cur /\ left = socks[cur].block /\ left <= Len(rest)
          BY <4>1 DEF StagedIsThere
        <5> HIDE DEF rest, new
        <5>3. \A x \in Nat : x <= Len(rest) => x <= Len(rest \o new)
          BY <3>3
        <5> QED BY <1>t, <2>3, <5>1, <5>2, <5>3 DEF StagedIsThere
      <4>2. CASE cur # h
        <5>1. socks'[cur] = socks[cur]
          BY <1>t, <2>3, <4>2
        <5> QED BY <2>3, <5>1 DEF StagedIsThere
      <4> QED BY <4>1, <4>2
    <3> QED BY <3>4, <3>5
  <2> QED BY <2>4, <2>5
<1>10. CASE UNCHANGED vars
  BY <1>10 DEF vars, devVars, pumpVars, guestVars, InOrder, StagedIsThere
<1> HIDE DEF StreamInv
<1>11. CASE FetchStep
  BY <1>8, <1>11, Zenon DEF FetchStep
<1>12. CASE Pump
  BY <1>3, <1>4, <1>5, <1>12 DEF Pump
<1>13. [Next]_vars
  OBVIOUS
<1> QED
  BY <1>1, <1>2, <1>6, <1>7, <1>9, <1>10, <1>11, <1>12, <1>13 DEF Next

\* A program reads exactly the bytes the page sent on its handle, in their
\* order and each once, and never the zeroes of an empty DATA register, with
\* any number of handles, any block sizes and any split of the answers.
THEOREM StreamIntact == Spec => [](InOrder /\ StagedIsThere)
<1>1. Spec => []StreamInv
  BY TypeCorrect, StreamInit, StreamNext, PTL DEF Spec
<1>2. StreamInv => InOrder /\ StagedIsThere
  BY DEF StreamInv
<1> QED BY <1>1, <1>2, PTL

\* On its own: while pump drains a block, the handle that READ staged is still
\* selected and the adapter holds the bytes it promised, whatever arrives in
\* between, so DATA never gives zeroes for bytes (pv_sock_read, DATA, drain).
THEOREM StagedHolds == Spec => []StagedIsThere
BY StreamIntact, PTL

-----------------------------------------------------------------------------
(* Requests.                                                               *)

\* The n bytes after the first a.
Onward(c, a, n) == Bytes(c, a + 1, a + n)

\* How far a request has come: its connection, none if it is 0, and its bytes.
\* A message of a handle takes the request from s to t.
Progress == [conn : 0 .. MaxConns, n : Nat]
Passes(m, s, t) ==
  CASE m.type = "open"  -> t = [conn |-> m.target.conn, n |-> 0]
    [] m.type = "close" -> t = [conn |-> 0, n |-> 0]
    [] OTHER -> /\ s.conn # 0 /\ m.bytes = Onward(s.conn, s.n, Len(m.bytes))
                /\ t = [conn |-> s.conn, n |-> s.n + Len(m.bytes)]

\* The page has come as far as s, unless it has all it wants; the guest as far as t.
PageAt(x, s)     == s.conn = x.conn /\ (x.conn # 0 /\ ~x.sent => s.n = Len(x.req))
GuestAt(c, n, t) == t.conn = c /\ (c # 0 => t.n = n)

\* What is on the bus for h takes the page from where it is to where the guest is.
Trail(q, h, x, c, n, at) ==
  /\ at \in [0 .. Len(q) -> Progress]
  /\ PageAt(x, at[0]) /\ GuestAt(c, n, at[Len(q)])
  /\ \A i \in 1 .. Len(q) : IF q[i].handle = h THEN Passes(q[i], at[i - 1], at[i]) ELSE at[i] = at[i - 1]
Leads(q, h, x, c, n) == \E at : Trail(q, h, x, c, n, at)

RequestInv ==
  /\ RequestIntact
  /\ \A h \in Handles : socks[h].out = <<>> /\ Leads(toHost, h, host[h], conn[h], nsent[h])

LEMMA BytesAre ==
  ASSUME NEW c \in Conns, NEW a \in Nat, NEW n \in Nat
  PROVE  /\ Onward(c, a, n) \in Seq(Byte) /\ Len(Onward(c, a, n)) = n
         /\ \A x \in 1 .. n : Onward(c, a, n)[x] = [conn |-> c, n |-> a + x]
<1> DEFINE B == [x \in 1 .. n |-> [conn |-> c, n |-> a + x]]
<1>1. (a + n) - (a + 1) + 1 = n /\ \A x \in 1 .. n : a + 1 + x - 1 = a + x
  OBVIOUS
<1>2. Onward(c, a, n) = B
  BY <1>1 DEF Bytes, Onward
<1>3. Onward(c, a, n) \in Seq(Byte)
  BY BytesType DEF Onward
<1>4. DOMAIN B = 1 .. n /\ \A x \in 1 .. n : B[x] = [conn |-> c, n |-> a + x]
  OBVIOUS
<1> HIDE DEF B
<1>5. Len(B) = n
  BY <1>2, <1>3, <1>4, LenProperties
<1> QED BY <1>2, <1>3, <1>4, <1>5

\* A request goes on where it has come to.
LEMMA BytesJoin ==
  ASSUME NEW c \in Conns, NEW a \in Nat, NEW b \in Nat
  PROVE  Onward(c, 0, a) \o Onward(c, a, b) = Onward(c, 0, a + b)
<1> DEFINE s == Onward(c, 0, a)
           t == Onward(c, a, b)
           u == Onward(c, 0, a + b)
<1>1. 0 \in Nat /\ a + b \in Nat
  OBVIOUS
<1>2. s \in Seq(Byte) /\ Len(s) = a /\ \A x \in 1 .. a : s[x] = [conn |-> c, n |-> 0 + x]
  BY <1>1, BytesAre
<1>3. t \in Seq(Byte) /\ Len(t) = b /\ \A x \in 1 .. b : t[x] = [conn |-> c, n |-> a + x]
  BY <1>1, BytesAre
<1>4. u \in Seq(Byte) /\ Len(u) = a + b /\ \A x \in 1 .. a + b : u[x] = [conn |-> c, n |-> 0 + x]
  BY <1>1, BytesAre
<1> HIDE DEF s, t, u
<1>5. /\ s \o t \in Seq(Byte) /\ Len(s \o t) = a + b
      /\ \A x \in 1 .. a + b : (s \o t)[x] = IF x <= a THEN s[x] ELSE t[x - a]
  BY <1>2, <1>3, ConcatProperties
<1>6. \A x \in 1 .. a + b : (s \o t)[x] = u[x]
  <2> SUFFICES ASSUME NEW x \in 1 .. a + b PROVE (s \o t)[x] = u[x]
    OBVIOUS
  <2>1. CASE x <= a
    BY <1>2, <1>4, <1>5, <2>1
  <2>2. CASE ~(x <= a)
    <3>1. x - a \in 1 .. b /\ a + (x - a) = 0 + x
      BY <2>2
    <3>2. t[x - a] = [conn |-> c, n |-> a + (x - a)]
      BY <1>3, <3>1
    <3> QED BY <1>4, <1>5, <2>2, <3>1, <3>2
  <2> QED BY <2>1, <2>2
<1>7. s \o t = u
  BY <1>4, <1>5, <1>6, SeqEqual
<1> QED BY <1>7 DEF s, t, u

\* All of a chunk that fits the empty queue is handed up, and nothing is left
\* behind, with a pad byte or without.
LEMMA ChunkSent ==
  ASSUME NEW T, NEW B, NEW k \in Handle(T, B), k.out = <<>>, NEW s \in Seq(B), Len(s) \in 1 .. Block
  PROVE  LET p == PushWords(k, s)
         IN  SentBytes(p, Len(s)) = s /\ SendCmd(p, Len(s)).out = <<>>
<1> DEFINE n == Len(s)
           pad == Padded(s)
           O == B \cup {Zero}
           p == PushWords(k, s)
<1>1. n \in Nat /\ n >= 1 /\ n <= OutCap /\ OutCap \in Nat
  BY PvSockAssumption, OutCapAssumption
<1>2. s \in Seq(O)
  BY SeqMonotonic
<1>3. pad \in Seq(O) /\ Len(pad) = n + (n % 2) /\ SubSeq(pad, 1, n) = s
  <2>1. CASE n % 2 = 0
    BY <1>1, <1>2, <2>1, SubSeqFull DEF Padded
  <2>2. CASE n % 2 # 0
    <3>1. pad = Append(s, Zero) /\ n % 2 = 1
      BY <1>1, <2>2 DEF Padded
    <3>2. pad \in Seq(O) /\ Len(pad) = n + 1 /\ \A i \in 1 .. n : pad[i] = s[i]
      BY <1>2, <3>1, AppendProperties
    <3> HIDE DEF pad
    <3>3. SubSeq(pad, 1, n) \in Seq(O) /\ Len(SubSeq(pad, 1, n)) = n /\ \A i \in 1 .. n : SubSeq(pad, 1, n)[i] = pad[i]
      BY <1>1, <3>2, SubSeqProperties
    <3>4. SubSeq(pad, 1, n) = s
      BY <1>2, <3>2, <3>3, SeqEqual
    <3> QED BY <3>1, <3>2, <3>4
  <2> QED BY <2>1, <2>2
<1>4. Len(pad) <= Room(k)
  <2>1. Room(k) = 2 * ((OutCap + 1) \div 2)
    BY <1>1 DEF Room
  <2>2. \A a, cap \in Nat : a <= cap => a + (a % 2) <= 2 * ((cap + 1) \div 2)
    OBVIOUS
  <2> QED BY <1>1, <1>3, <2>1, <2>2
<1>5. p.out = pad
  <2>1. Least(Len(pad), Room(k)) = Len(pad)
    BY <1>4 DEF Least
  <2>2. p.out = <<>> \o SubSeq(pad, 1, Len(pad))
    BY <2>1 DEF PushWords, Handle
  <2> HIDE DEF pad, p
  <2> QED BY <1>3, <2>2, SubSeqFull, ConcatEmptySeq
<1> HIDE DEF pad, p
<1>6. SendCount(p, n) = n
  <2>1. n <= Len(pad)
    BY <1>1, <1>3
  <2> HIDE DEF n
  <2> QED BY <1>5, <2>1 DEF SendCount, Least
<1>7. SentBytes(p, n) = s
  BY <1>3, <1>5, <1>6 DEF SentBytes
<1>8. SendCmd(p, n).out = Drop(pad, n + (n % 2))
  <2>1. p \in Handle(T, B)
    BY SendType DEF p
  <2> QED BY <1>5, <1>6, <2>1 DEF SendCmd, Handle
<1>9. Drop(pad, n + (n % 2)) = <<>>
  BY <1>1, <1>3, SubSeqEmpty DEF Drop
<1> QED BY <1>7, <1>8, <1>9 DEF p, n

\* A message more, at the end; and one less, at the front.
LEMMA TrailLonger ==
  ASSUME NEW q \in Seq(ToHostMsg), NEW m \in ToHostMsg, NEW h, NEW x, NEW c, NEW n, Leads(q, h, x, c, n),
         NEW d, NEW l,
         \A s \in Progress : GuestAt(c, n, s) =>
           \E t \in Progress : GuestAt(d, l, t) /\ IF m.handle = h THEN Passes(m, s, t) ELSE t = s
  PROVE  Leads(Append(q, m), h, x, d, l)
<1> DEFINE len == Len(q)
           r == Append(q, m)
<1>1. len \in Nat /\ Len(r) = len + 1 /\ r[len + 1] = m /\ \A i \in 1 .. len : r[i] = q[i]
  BY AppendProperties, LenProperties
<1> HIDE DEF len, r
<1>2. PICK at : Trail(q, h, x, c, n, at)
  BY DEF Leads
<1>3. at \in [0 .. len -> Progress] /\ len \in 0 .. len
  BY <1>1, <1>2 DEF Trail, len
<1>4. PICK t \in Progress : GuestAt(d, l, t) /\ IF m.handle = h THEN Passes(m, at[len], t) ELSE t = at[len]
  BY <1>2, <1>3 DEF Trail, len
<1> DEFINE on == [i \in 0 .. len + 1 |-> IF i = len + 1 THEN t ELSE at[i]]
<1>5. on \in [0 .. len + 1 -> Progress]
  BY <1>1, <1>3
<1>6. on[0] = at[0] /\ on[len + 1] = t
  BY <1>1
<1>7. \A i \in 0 .. len : on[i] = at[i]
  BY <1>1
<1> HIDE DEF on
<1>8. ASSUME NEW i \in 1 .. len + 1
      PROVE  IF r[i].handle = h THEN Passes(r[i], on[i - 1], on[i]) ELSE on[i] = on[i - 1]
  <2>1. CASE i = len + 1
    <3>1. i - 1 = len /\ on[i - 1] = at[len] /\ on[i] = t /\ r[i] = m
      BY <1>1, <1>3, <1>6, <1>7, <2>1
    <3> QED BY <1>4, <3>1
  <2>2. CASE i # len + 1
    <3>1. i \in 1 .. len /\ i - 1 \in 0 .. len /\ i \in 0 .. len
      BY <1>1, <2>2
    <3>2. on[i] = at[i] /\ on[i - 1] = at[i - 1] /\ r[i] = q[i]
      BY <1>1, <1>7, <3>1
    <3>3. IF q[i].handle = h THEN Passes(q[i], at[i - 1], at[i]) ELSE at[i] = at[i - 1]
      BY <1>2, <3>1 DEF Trail, len
    <3> QED BY <3>2, <3>3
  <2> QED BY <2>1, <2>2
<1>9. PageAt(x, on[0]) /\ GuestAt(d, l, on[Len(r)])
  BY <1>1, <1>2, <1>4, <1>6 DEF Trail
<1>10. Trail(r, h, x, d, l, on)
  BY <1>1, <1>5, <1>8, <1>9 DEF Trail
<1> QED BY <1>10 DEF Leads, r

LEMMA TrailShorter ==
  ASSUME NEW q \in Seq(ToHostMsg), q # <<>>, NEW h, NEW x, NEW c, NEW n, Leads(q, h, x, c, n), NEW y,
         \A s, t \in Progress :
           PageAt(x, s) /\ (IF Head(q).handle = h THEN Passes(Head(q), s, t) ELSE t = s) => PageAt(y, t)
  PROVE  Leads(Tail(q), h, y, c, n)
<1> DEFINE len == Len(q)
           r == Tail(q)
<1>1. len \in Nat /\ len >= 1 /\ Len(r) = len - 1 /\ Head(q) = q[1] /\ \A i \in 1 .. len - 1 : r[i] = q[i + 1]
  BY HeadTailProperties, EmptySeq, LenProperties
<1> HIDE DEF len, r
<1>2. PICK at : Trail(q, h, x, c, n, at)
  BY DEF Leads
<1>3. at \in [0 .. len -> Progress]
  BY <1>2 DEF Trail, len
<1> DEFINE on == [i \in 0 .. len - 1 |-> at[i + 1]]
<1>4. on \in [0 .. len - 1 -> Progress]
  BY <1>1, <1>3
<1>5. \A i \in 0 .. len - 1 : on[i] = at[i + 1]
  OBVIOUS
<1> HIDE DEF on
<1>6. ASSUME NEW i \in 1 .. len - 1
      PROVE  IF r[i].handle = h THEN Passes(r[i], on[i - 1], on[i]) ELSE on[i] = on[i - 1]
  <2>1. i + 1 \in 1 .. len /\ (i + 1) - 1 = i /\ i \in 0 .. len - 1 /\ i - 1 \in 0 .. len - 1 /\ (i - 1) + 1 = i
    BY <1>1
  <2>2. IF q[i + 1].handle = h THEN Passes(q[i + 1], at[(i + 1) - 1], at[i + 1]) ELSE at[i + 1] = at[(i + 1) - 1]
    BY <1>2, <2>1 DEF Trail, len
  <2>3. on[i] = at[i + 1] /\ on[i - 1] = at[i] /\ r[i] = q[i + 1]
    BY <1>1, <1>5, <2>1
  <2> QED BY <2>1, <2>2, <2>3
<1>7. on[0] = at[1] /\ on[len - 1] = at[len]
  <2>1. 0 \in 0 .. len - 1 /\ len - 1 \in 0 .. len - 1 /\ 0 + 1 = 1 /\ (len - 1) + 1 = len
    BY <1>1
  <2> QED BY <1>5, <2>1
<1>8. PageAt(y, at[1])
  <2>1. 0 \in 0 .. len /\ 1 \in 0 .. len /\ 1 \in 1 .. len /\ 1 - 1 = 0
    BY <1>1
  <2>2. PageAt(x, at[0]) /\ IF q[1].handle = h THEN Passes(q[1], at[0], at[1]) ELSE at[1] = at[0]
    BY <1>2, <2>1 DEF Trail, len
  <2> QED BY <1>1, <1>3, <2>1, <2>2
<1>9. GuestAt(c, n, on[Len(r)])
  BY <1>1, <1>2, <1>7 DEF Trail, len
<1>10. Trail(r, h, y, c, n, on)
  BY <1>1, <1>4, <1>6, <1>7, <1>8, <1>9 DEF Trail
<1> QED BY <1>10 DEF Leads, r

\* Nothing but SEND puts anything in the queue.
LEMMA QueueKept ==
  ASSUME NEW T, NEW B, NEW k \in Handle(T, B), k.out = <<>>
  PROVE  /\ Blank.out = <<>> /\ DataRead(k).out = <<>> /\ Fail(k).out = <<>>
         /\ \A want : ReadCmd(k, want).out = <<>>
         /\ \A s, d : Arrive(k, s, d).out = <<>>
         /\ \A t : OpenCmd(SetTarget(k, t)).out = <<>>
<1>1. Blank.out = <<>> /\ \A t : OpenCmd(SetTarget(k, t)).out = <<>>
  BY DEF Blank, OpenCmd, SetTarget, Handle
<1>2. DataRead(k).out = <<>> /\ Fail(k).out = <<>>
  BY DEF DataRead, Fail, Handle
<1>3. \A want : ReadCmd(k, want).out = <<>>
  BY DEF ReadCmd, Handle
<1>4. \A s, d : Arrive(k, s, d).out = <<>>
  BY DEF Arrive, Handle
<1> QED BY <1>1, <1>2, <1>3, <1>4

LEMMA RequestInit == Init => RequestInv
<1> SUFFICES ASSUME Init PROVE RequestInv
  OBVIOUS
<1>1. RequestIntact
  BY DEF Init, RequestIntact, NoHost
<1>2. ASSUME NEW h \in Handles PROVE socks[h].out = <<>> /\ Leads(toHost, h, host[h], conn[h], nsent[h])
  <2> DEFINE at == [i \in 0 .. 0 |-> [conn |-> 0, n |-> 0]]
  <2>1. at \in [0 .. 0 -> Progress] /\ at[0] = [conn |-> 0, n |-> 0]
    BY Bounds DEF Progress
  <2> HIDE DEF at
  <2>2. toHost = <<>> /\ Len(toHost) = 0 /\ host[h] = NoHost /\ conn[h] = 0
    BY DEF Init
  <2>3. Trail(toHost, h, host[h], conn[h], nsent[h], at)
    BY <2>1, <2>2 DEF Trail, PageAt, GuestAt, NoHost
  <2> QED BY <2>3 DEF Leads, Init, Blank
<1> QED BY <1>1, <1>2 DEF RequestInv

LEMMA RequestNext == TypeOK /\ RequestInv /\ [Next]_vars => RequestInv'
<1> SUFFICES ASSUME TypeOK, RequestInv, [Next]_vars PROVE RequestInv'
  OBVIOUS
<1>1. /\ socks \in [Handles -> Handle(Targets, Byte)] /\ toHost \in Seq(ToHostMsg)
      /\ host \in [Handles -> Exchange] /\ conn \in [Handles -> 0 .. MaxConns] /\ nsent \in [Handles -> Nat]
  BY DEF TypeOK
<1>2. ASSUME UNCHANGED host PROVE RequestIntact'
  BY <1>2 DEF RequestInv, RequestIntact
<1>3. ASSUME \A h \in Handles : socks'[h].out = <<>>, UNCHANGED <<toHost, host, conn, nsent>> PROVE RequestInv'
  BY <1>2, <1>3 DEF RequestInv
\* A message of handle h to the page.
<1>4. ASSUME NEW h \in Handles, NEW m \in ToHostMsg, m.handle = h, NEW k, NEW c \in 0 .. MaxConns, NEW n \in Nat,
             socks' = [socks EXCEPT ![h] = k], k.out = <<>>, host' = host,
             toHost' = Append(toHost, m), conn' = [conn EXCEPT ![h] = c], nsent' = [nsent EXCEPT ![h] = n],
             \A s \in Progress : GuestAt(conn[h], nsent[h], s) => Passes(m, s, [conn |-> c, n |-> n])
      PROVE  RequestInv'
  <2>1. \A g \in Handles : socks'[g].out = <<>>
    BY <1>1, <1>4 DEF RequestInv
  <2>2. ASSUME NEW g \in Handles PROVE Leads(toHost', g, host'[g], conn'[g], nsent'[g])
    <3>1. Leads(toHost, g, host[g], conn[g], nsent[g])
      BY DEF RequestInv
    <3>2. CASE g = h
      <4>1. [conn |-> c, n |-> n] \in Progress /\ GuestAt(c, n, [conn |-> c, n |-> n])
        BY <1>4 DEF Progress, GuestAt
      <4>2. \A s \in Progress : GuestAt(conn[g], nsent[g], s) =>
              \E t \in Progress : GuestAt(c, n, t) /\ IF m.handle = g THEN Passes(m, s, t) ELSE t = s
        BY <1>4, <3>2, <4>1
      <4>3. Leads(Append(toHost, m), g, host[g], c, n)
        BY <1>1, <1>4, <3>1, <4>2, TrailLonger
      <4> QED BY <1>1, <1>4, <3>2, <4>3
    <3>3. CASE g # h
      <4>1. \A s \in Progress : GuestAt(conn[g], nsent[g], s) =>
              \E t \in Progress : GuestAt(conn[g], nsent[g], t) /\ IF m.handle = g THEN Passes(m, s, t) ELSE t = s
        BY <1>4, <3>3
      <4>2. Leads(Append(toHost, m), g, host[g], conn[g], nsent[g])
        BY <1>1, <1>4, <3>1, <4>1, TrailLonger
      <4> QED BY <1>1, <1>4, <3>3, <4>2
    <3> QED BY <3>2, <3>3
  <2> QED BY <1>2, <1>4, <2>1, <2>2 DEF RequestInv
<1>5. ASSUME NEW h \in Handles, NEW url \in BOOLEAN, Connect(h, url) PROVE RequestInv'
  <2> DEFINE c == Len(home) + 1
             t == [conn |-> c, url |-> url]
             m == [type |-> "open", handle |-> h, target |-> t]
             k == OpenCmd(SetTarget(socks[h], t))
  <2>1. c \in Conns /\ t \in Targets /\ c \in 0 .. MaxConns
    <3>1. Len(home) \in Nat /\ Len(home) < MaxConns
      BY <1>5, LenProperties DEF Connect, TypeOK
    <3>2. c \in 0 .. MaxConns /\ c # 0
      BY <3>1, Bounds
    <3> QED BY <3>2, Bounds DEF Targets
  <2>2. m \in ToHostMsg /\ m.handle = h /\ m.type = "open" /\ m.target.conn = c
    BY <2>1 DEF ToHostMsg
  <2>3. k.out = <<>>
    BY <1>1, QueueKept DEF RequestInv
  <2>4. SetTarget(socks[h], t).target = t
    BY <1>1 DEF SetTarget, Handle
  <2>5. /\ socks' = [socks EXCEPT ![h] = k] /\ host' = host /\ toHost' = Append(toHost, m)
        /\ conn' = [conn EXCEPT ![h] = c] /\ nsent' = [nsent EXCEPT ![h] = 0]
    BY <1>5, <2>4 DEF Connect, hostVars
  <2> HIDE DEF k, c, m
  <2>6. \A s : Passes(m, s, [conn |-> c, n |-> 0])
    BY <2>2 DEF Passes
  <2> QED BY <1>4, <2>1, <2>2, <2>3, <2>5, <2>6
<1>6. ASSUME NEW h \in Handles, NEW n \in 1 .. Block, Send(h, n) PROVE RequestInv'
  <2> DEFINE bytes == Onward(conn[h], nsent[h], n)
             p == PushWords(socks[h], bytes)
             k == SendCmd(p, n)
             m == [type |-> "send", handle |-> h, bytes |-> bytes]
  <2>1. conn[h] \in Conns /\ nsent[h] \in Nat /\ n \in Nat
    BY <1>1, <1>6, Bounds DEF Send
  <2>2. bytes \in Seq(Byte) /\ Len(bytes) = n
    BY <2>1, BytesAre
  <2>3. SentBytes(p, n) = bytes /\ k.out = <<>>
    <3> HIDE DEF bytes
    <3> QED BY <1>1, <2>2, ChunkSent DEF RequestInv
  <2>4. m \in ToHostMsg /\ m.handle = h /\ m.type = "send" /\ m.bytes = bytes
    <3> HIDE DEF bytes
    <3>1. bytes \in Seq(Byte \cup {Zero})
      BY <2>2, SeqMonotonic
    <3> QED BY <3>1 DEF ToHostMsg
  <2>5. /\ socks' = [socks EXCEPT ![h] = k] /\ host' = host /\ toHost' = Append(toHost, m)
        /\ conn' = conn /\ nsent' = [nsent EXCEPT ![h] = nsent[h] + n]
    BY <1>6, <2>3 DEF Send, hostVars, Onward
  <2>6. conn' = [conn EXCEPT ![h] = conn[h]] /\ nsent[h] + n \in Nat /\ conn[h] # 0
    BY <1>1, <1>6, <2>1, <2>5 DEF Send
  <2> HIDE DEF k, m, bytes
  <2>7. ASSUME NEW s \in Progress, GuestAt(conn[h], nsent[h], s)
        PROVE  Passes(m, s, [conn |-> conn[h], n |-> nsent[h] + n])
    <3>1. s.conn = conn[h] /\ s.n = nsent[h]
      BY <2>6, <2>7 DEF GuestAt
    <3> QED BY <2>2, <2>4, <2>6, <3>1 DEF Passes, bytes
  <2> QED BY <1>1, <1>4, <2>3, <2>4, <2>5, <2>6, <2>7
<1>7. ASSUME NEW h \in Handles, Close(h) PROVE RequestInv'
  <2> DEFINE m == [type |-> "close", handle |-> h]
  <2>1. m \in ToHostMsg /\ m.handle = h /\ m.type = "close"
    BY DEF ToHostMsg
  <2>2. /\ socks' = [socks EXCEPT ![h] = Blank] /\ host' = host /\ toHost' = Append(toHost, m)
        /\ conn' = [conn EXCEPT ![h] = 0] /\ nsent' = [nsent EXCEPT ![h] = 0]
    BY <1>7 DEF Close, hostVars, CloseCmd
  <2> HIDE DEF m
  <2>3. \A s : Passes(m, s, [conn |-> 0, n |-> 0])
    BY <2>1 DEF Passes
  <2>4. Blank.out = <<>> /\ 0 \in 0 .. MaxConns
    BY Bounds DEF Blank
  <2> QED BY <1>4, <2>1, <2>2, <2>3, <2>4
<1>8. ASSUME Pump \/ DevTake PROVE RequestInv'
  <2>1. UNCHANGED <<toHost, host, conn, nsent>>
    BY <1>8 DEF Pump, PumpLook, PumpRead, DrainWord, DevTake, hostVars, guestVars
  <2>2. \A h \in Handles : socks'[h].out = <<>>
    <3>1. \A h \in Handles : socks[h] \in Handle(Targets, Byte) /\ socks[h].out = <<>>
      BY <1>1 DEF RequestInv
    <3>2. CASE \E h \in Handles : PumpLook(h)
      BY <3>1, <3>2 DEF PumpLook
    <3>3. ASSUME NEW want \in 1 .. Block, PumpRead(want) PROVE \A h \in Handles : socks'[h].out = <<>>
      <4>1. cur \in Handles /\ socks' = [socks EXCEPT ![cur] = ReadCmd(socks[cur], want)]
        BY <3>3 DEF PumpRead, TypeOK
      <4>2. ReadCmd(socks[cur], want).out = <<>>
        BY <3>1, <4>1, QueueKept
      <4> QED BY <1>1, <3>1, <4>1, <4>2
    <3>4. CASE DrainWord
      <4>1. sel \in Handles /\ socks' = [socks EXCEPT ![sel] = DataRead(socks[sel])]
        BY <3>4 DEF DrainWord, TypeOK
      <4>2. DataRead(socks[sel]).out = <<>>
        BY <3>1, <4>1, QueueKept
      <4> QED BY <1>1, <3>1, <4>1, <4>2
    <3>5. CASE DevTake
      <4> DEFINE m == Head(toDev)
                 k == socks[m.handle]
      <4>1. m.handle \in Handles
        <5>1. toDev # <<>> /\ toDev \in Seq(ToDevMsg)
          BY <3>5 DEF DevTake, TypeOK
        <5>2. m \in ToDevMsg
          BY <5>1, HeadTailProperties
        <5> QED BY <5>2 DEF ToDevMsg
      <4>2. \E j \in {Fail(k), Arrive(k, m.bytes, m.done)} : socks' = [socks EXCEPT ![m.handle] = j]
        BY <3>5 DEF DevTake, Addressee
      <4> HIDE DEF m
      <4>3. \A j \in {Fail(k), Arrive(k, m.bytes, m.done)} : j.out = <<>>
        BY <3>1, <4>1, QueueKept
      <4> QED BY <1>1, <3>1, <4>1, <4>2, <4>3
    <3> QED BY <1>8, <3>2, <3>3, <3>4, <3>5 DEF Pump
  <2> QED BY <1>3, <2>1, <2>2
<1>9. ASSUME HostTake PROVE RequestInv'
  <2> DEFINE m == Head(toHost)
             h == m.handle
  <2>1. toHost # <<>> /\ toHost' = Tail(toHost) /\ UNCHANGED <<socks, conn, nsent>>
    BY <1>9 DEF HostTake, devVars, guestVars
  <2>2. m \in ToHostMsg
    BY <1>1, <2>1, HeadTailProperties
  <2>3. h \in Handles /\ m.type \in {"open", "send", "close"}
    BY <2>2 DEF ToHostMsg
  <2>4. host' = [host EXCEPT ![h] = host'[h]]
    BY <1>1, <1>9, <2>3 DEF HostTake, hostVars
  <2>5. \/ m.type = "open" /\ host'[h] = [conn |-> m.target.conn, req |-> <<>>, sent |-> m.target.url]
        \/ /\ m.type = "send" /\ host[h].conn # 0 /\ ~host[h].sent
           /\ host'[h].conn = host[h].conn /\ host'[h].req = host[h].req \o m.bytes
        \/ m.type = "send" /\ (host[h].conn = 0 \/ host[h].sent) /\ host'[h] = host[h]
        \/ m.type = "close" /\ host'[h] = NoHost
    BY <1>1, <1>9, <2>3 DEF HostTake, hostVars, Exchange
  <2> HIDE DEF m
  <2>6. PICK s \in Progress, t \in Progress : PageAt(host[h], s) /\ Passes(m, s, t)
    <3>1. PICK at : Trail(toHost, h, host[h], conn[h], nsent[h], at)
      BY <2>3 DEF RequestInv, Leads
    <3>2. Len(toHost) \in Nat /\ Len(toHost) >= 1 /\ m = toHost[1]
      BY <1>1, <2>1, HeadTailProperties, EmptySeq, LenProperties DEF m
    <3>3. 0 \in 0 .. Len(toHost) /\ 1 \in 0 .. Len(toHost) /\ 1 \in 1 .. Len(toHost) /\ 1 - 1 = 0
      BY <3>2
    <3>4. at[0] \in Progress /\ at[1] \in Progress /\ PageAt(host[h], at[0]) /\ Passes(m, at[0], at[1])
      BY <3>1, <3>2, <3>3 DEF Trail
    <3> QED BY <3>4
  <2>7. /\ \A u, v \in Progress : PageAt(host[h], u) /\ Passes(m, u, v) => PageAt(host'[h], v)
        /\ host'[h].conn # 0 => host'[h].req = Onward(host'[h].conn, 0, Len(host'[h].req))
    <3>0. host[h] \in Exchange
      BY <1>1, <2>3
    <3>1. CASE m.type = "open"
      <4>1. host'[h] = [conn |-> m.target.conn, req |-> <<>>, sent |-> m.target.url]
        BY <2>5, <3>1
      <4>2. \A u, v \in Progress : Passes(m, u, v) => PageAt(host'[h], v)
        BY <3>1, <4>1 DEF Passes, PageAt
      <4>3. <<>> = Onward(m.target.conn, 0, 0)
        BY DEF Onward, Bytes
      <4> QED BY <4>1, <4>2, <4>3
    <3>2. CASE m.type = "close"
      <4>1. host'[h] = NoHost
        BY <2>5, <3>2
      <4> QED BY <3>2, <4>1 DEF Passes, PageAt, NoHost
    <3>3. CASE m.type = "send" /\ host[h].conn # 0 /\ ~host[h].sent
      <4> DEFINE len == Len(host[h].req)
                 more == Len(m.bytes)
                 c == host[h].conn
      <4>1. host'[h].conn = c /\ host'[h].req = host[h].req \o m.bytes
        BY <2>5, <3>3
      <4>2. c \in Conns /\ len \in Nat /\ host[h].req \in Seq(Byte \cup {Zero})
        BY <3>0, <3>3, Bounds, LenProperties DEF Exchange
      <4>3. m.bytes \in Seq(Byte \cup {Zero}) /\ more \in Nat
        BY <2>2, <3>3, LenProperties DEF ToHostMsg
      <4>4. host[h].req = Onward(c, 0, len)
        BY <2>3, <3>3 DEF RequestInv, RequestIntact, Onward
      <4>5. \A u \in Progress : PageAt(host[h], u) => u.conn = c /\ u.n = len
        BY <3>3 DEF PageAt
      <4>6. \A u, v \in Progress : Passes(m, u, v) =>
              m.bytes = Onward(u.conn, u.n, more) /\ v = [conn |-> u.conn, n |-> u.n + more]
        BY <3>3 DEF Passes
      <4> HIDE DEF c, len, more
      <4>7. m.bytes = Onward(c, len, more)
        BY <2>6, <4>5, <4>6
      <4>8. host'[h].req = Onward(c, 0, len + more)
        BY <4>1, <4>2, <4>3, <4>4, <4>7, BytesJoin
      <4>9. Len(host'[h].req) = len + more
        BY <4>1, <4>2, <4>3, ConcatProperties DEF len, more
      <4>10. \A u, v \in Progress : PageAt(host[h], u) /\ Passes(m, u, v) => PageAt(host'[h], v)
        BY <4>1, <4>5, <4>6, <4>9 DEF PageAt
      <4> QED BY <4>1, <4>8, <4>9, <4>10
    <3>4. CASE m.type = "send" /\ (host[h].conn = 0 \/ host[h].sent)
      <4>1. host'[h] = host[h]
        BY <2>5, <3>4
      <4>2. \A u, v \in Progress : PageAt(host[h], u) /\ Passes(m, u, v) => PageAt(host[h], v)
        BY <3>4 DEF Passes, PageAt
      <4>3. host[h].conn # 0 => host[h].req = Onward(host[h].conn, 0, Len(host[h].req))
        BY <2>3 DEF RequestInv, RequestIntact, Onward
      <4> QED BY <4>1, <4>2, <4>3
    <3> QED BY <2>3, <3>1, <3>2, <3>3, <3>4
  <2>8. RequestIntact'
    <3>2. ASSUME NEW g \in Handles, host'[g].conn # 0
          PROVE  host'[g].req = Bytes(host'[g].conn, 1, Len(host'[g].req))
      <4>1. CASE g = h
        BY <2>7, <3>2, <4>1 DEF Onward
      <4>2. CASE g # h
        <5>1. host'[g] = host[g]
          BY <1>1, <2>4, <4>2
        <5> QED BY <3>2, <5>1 DEF RequestInv, RequestIntact
      <4> QED BY <4>1, <4>2
    <3> QED BY <3>2 DEF RequestIntact
  <2>9. ASSUME NEW g \in Handles PROVE Leads(toHost', g, host'[g], conn'[g], nsent'[g])
    <3>1. Leads(toHost, g, host[g], conn[g], nsent[g])
      BY DEF RequestInv
    <3>2. \A u, v \in Progress :
            PageAt(host[g], u) /\ (IF m.handle = g THEN Passes(m, u, v) ELSE v = u) => PageAt(host'[g], v)
      BY <1>1, <2>3, <2>4, <2>7
    <3> QED BY <1>1, <2>1, <3>1, <3>2, TrailShorter DEF m
  <2> QED BY <2>1, <2>8, <2>9 DEF RequestInv
<1>10. ASSUME FetchStep \/ UNCHANGED vars PROVE RequestInv'
  <2>1. UNCHANGED <<socks, toHost, host, conn, nsent>>
    BY <1>10 DEF FetchStep, FetchAnswers, devVars, guestVars, hostVars, vars
  <2> QED BY <1>3, <2>1 DEF RequestInv
<1> QED BY <1>5, <1>6, <1>7, <1>8, <1>9, <1>10 DEF Next

\* What the page takes for the request is the beginning of what the program sent
\* on that very connection, in whatever chunks: a pad byte of an odd chunk never
\* gets into it, nor a byte of another connection (pv_sock_send, SEND, the page's
\* handlers).
THEOREM RequestsIntact == Spec => []RequestIntact
<1>1. RequestInv => RequestIntact
  BY DEF RequestInv
<1> QED BY <1>1, TypeCorrect, RequestInit, RequestNext, PTL DEF Spec

=============================================================================
