-------------------------- MODULE PvSockReply_proofs --------------------------
(***************************************************************************)
(* Whose reply a handle is fed: NoCrossTalk of PvSock, for every number of *)
(* handles and connections and both kinds of host.  A byte comes a long    *)
(* way, from an open on its way to the page, or an exchange whose request  *)
(* is not complete, by a fetch and a message, and a connection may be      *)
(* closed and another opened on the handle at every point of it.  So the   *)
(* invariant is about all of them: what may still come to a handle is due  *)
(* to a connection that was opened on it, and to the one that is open now  *)
(* unless the handle was closed before an answer had arrived.  The second  *)
(* part is when it ends.                                                   *)
(***************************************************************************)
EXTENDS PvSock_proofs

\* Connection c was opened on h; and an answer to it may come to h.
OpenedOn(h, c) == c \in 1 .. Len(home) /\ home[c] = h
Due(h, c) == OpenedOn(h, c) /\ (h \in orphaned \/ c = conn[h])

\* The guest: an idle handle is one it has not open, the connection it has open
\* is the last it opened there, and it pumps one that it has open.
GuestInv ==
  /\ \A h \in Handles : conn[h] = 0 => socks[h].state = "idle"
  /\ \A h \in Handles : conn[h] # 0 =>
       OpenedOn(h, conn[h]) /\ \A c \in 1 .. Len(home) : home[c] = h => c <= conn[h]
  /\ pc # "idle" => conn[cur] # 0 /\ sel = cur

\* What is on its way in the page and from it.
PageInv ==
  /\ \A f \in fetches : Due(f.handle, f.conn)
  /\ \A i \in DOMAIN toDev : \A j \in DOMAIN toDev[i].bytes : Due(toDev[i].handle, toDev[i].bytes[j].conn)
  /\ \A h \in Handles : host[h].conn # 0 => OpenedOn(h, host[h].conn)

\* What is on its way to it: an open asks for an answer that is due, nothing of
\* a connection is followed by its close, and an exchange that is over is closed
\* by what comes; the last two unless an answer was abandoned.
Closes(m, h) == m.handle = h /\ m.type = "close"
OpensDue == \A i \in DOMAIN toHost : toHost[i].type = "open" => Due(toHost[i].handle, toHost[i].target.conn)
CloseEnds ==
  \A h \in Handles : h \notin orphaned => \A i \in DOMAIN toHost, j \in DOMAIN toHost :
    i < j /\ toHost[i].handle = h /\ Closes(toHost[j], h) => Closes(toHost[i], h)
OverIsClosed ==
  \A h \in Handles : h \notin orphaned /\ host[h].conn # 0 /\ host[h].conn # conn[h]
                     => \E i \in DOMAIN toHost : Closes(toHost[i], h)
BusInv == OpensDue /\ CloseEnds /\ OverIsClosed

ReplyInv == GuestInv /\ PageInv /\ BusInv /\ NoCrossTalk

-----------------------------------------------------------------------------
(* Queues, and what lasts.                                                 *)

\* What is in a queue after something was put at its end,
LEMMA AppendElements ==
  ASSUME NEW S, NEW s \in Seq(S), NEW e \in S
  PROVE  /\ \A i \in DOMAIN Append(s, e) : (i \in DOMAIN s /\ Append(s, e)[i] = s[i]) \/ Append(s, e)[i] = e
         /\ \A i \in DOMAIN s : i \in DOMAIN Append(s, e) /\ Append(s, e)[i] = s[i]
         /\ \A i \in DOMAIN Append(s, e), j \in DOMAIN Append(s, e) : i < j => i \in DOMAIN s /\ Append(s, e)[i] = s[i]
         /\ Len(s) + 1 \in DOMAIN Append(s, e) /\ Append(s, e)[Len(s) + 1] = e
OBVIOUS

\* ... what is in it once its first is gone,
LEMMA TailElements ==
  ASSUME NEW S, NEW s \in Seq(S), s # <<>>
  PROVE  /\ \A i \in DOMAIN Tail(s) : i \in Nat /\ i + 1 \in DOMAIN s /\ Tail(s)[i] = s[i + 1]
         /\ \A i \in DOMAIN s : i \in Nat /\ (i = 1 \/ (i > 1 /\ i - 1 \in DOMAIN Tail(s) /\ Tail(s)[i - 1] = s[i]))
         /\ 1 \in DOMAIN s /\ s[1] = Head(s)
OBVIOUS

\* ... and what is in two sequences put together.
LEMMA ConcatElements ==
  ASSUME NEW S, NEW s \in Seq(S), NEW t \in Seq(S), NEW i \in DOMAIN (s \o t)
  PROVE  (i \in DOMAIN s /\ (s \o t)[i] = s[i]) \/ \E j \in DOMAIN t : (s \o t)[i] = t[j]
<1>1. /\ Len(s) \in Nat /\ Len(t) \in Nat /\ i \in 1 .. Len(s) + Len(t)
      /\ DOMAIN s = 1 .. Len(s) /\ DOMAIN t = 1 .. Len(t)
      /\ (s \o t)[i] = IF i <= Len(s) THEN s[i] ELSE t[i - Len(s)]
  BY ConcatProperties, LenProperties
<1>2. CASE i <= Len(s)
  BY <1>1, <1>2
<1>3. CASE ~(i <= Len(s))
  <2>1. i - Len(s) \in 1 .. Len(t)
    BY <1>1, <1>3
  <2> QED BY <1>1, <1>3, <2>1
<1> QED BY <1>2, <1>3

\* A connection stays one that was opened on its handle, and an answer stays due,
\* as long as the handle's connection does or the handle counts as orphaned.
LEMMA DueLasts ==
  ASSUME home \in Seq(Handles), home' = home \/ \E g \in Handles : home' = Append(home, g),
         orphaned \subseteq orphaned', NEW h, NEW c
  PROVE  /\ OpenedOn(h, c) => OpenedOn(h, c)'
         /\ Due(h, c) /\ (h \in orphaned' \/ conn'[h] = conn[h] \/ conn[h] = 0) => Due(h, c)'
<1>1. \A i \in 1 .. Len(home) : i \in 1 .. Len(home') /\ home'[i] = home[i]
  OBVIOUS
<1>2. OpenedOn(h, c) => OpenedOn(h, c)'
  BY <1>1 DEF OpenedOn
<1>3. Due(h, c) => c # 0
  BY DEF Due, OpenedOn
<1> QED BY <1>2, <1>3 DEF Due

\* What the steps below use of the types.
LEMMA TypesUsed ==
  ASSUME TypeOK
  PROVE  /\ home \in Seq(Handles) /\ Len(home) \in Nat
         /\ conn \in [Handles -> 0 .. MaxConns] /\ \A h \in Handles : conn[h] \in Nat
         /\ fed \in [Handles -> Seq(Byte)]
         /\ \A h \in Handles : fed[h] \in Seq(Byte) /\ \A i \in DOMAIN fed[h] : fed[h][i].conn \in Nat /\ fed[h][i].conn >= 1
         /\ \A f \in fetches : f.handle \in Handles /\ f.conn \in Conns
         /\ toDev \in Seq(ToDevMsg)
         /\ \A i \in DOMAIN toDev : toDev[i].handle \in Handles /\ toDev[i].bytes \in Seq(Byte)
         /\ toHost \in Seq(ToHostMsg) /\ \A i \in DOMAIN toHost : toHost[i].handle \in Handles
         /\ host \in [Handles -> Exchange] /\ \A h \in Handles : host[h].conn \in 0 .. MaxConns
         /\ cur \in Handles /\ sel \in Handles
         /\ socks \in [Handles -> Handle(Targets, Byte)]
<1>1. \A h \in Handles : \A i \in DOMAIN fed[h] : fed[h][i].conn \in Nat /\ fed[h][i].conn >= 1
  <2> TAKE h \in Handles
  <2> TAKE i \in DOMAIN fed[h]
  <2>1. fed[h] \in Seq(Byte)
    BY DEF TypeOK
  <2>2. fed[h][i] \in Byte
    BY <2>1
  <2> QED BY <2>2, PvSockAssumption DEF Byte, Conns
<1>2. \A i \in DOMAIN toHost : toHost[i].handle \in Handles
  <2> TAKE i \in DOMAIN toHost
  <2>1. toHost[i] \in ToHostMsg
    BY DEF TypeOK
  <2> QED BY <2>1 DEF ToHostMsg
<1>3. \A i \in DOMAIN toDev : toDev[i].handle \in Handles /\ toDev[i].bytes \in Seq(Byte)
  <2> TAKE i \in DOMAIN toDev
  <2>1. toDev[i] \in ToDevMsg
    BY DEF TypeOK
  <2> QED BY <2>1 DEF ToDevMsg
<1>4. \A h \in Handles : conn[h] \in Nat /\ host[h].conn \in 0 .. MaxConns
  BY PvSockAssumption DEF TypeOK, Exchange
<1>5. \A f \in fetches : f.handle \in Handles /\ f.conn \in Conns
  BY DEF TypeOK
<1> QED BY <1>1, <1>2, <1>3, <1>4, <1>5 DEF TypeOK

\* What is on the bus once one more message is put on it.
LEMMA BusAppend ==
  ASSUME TypeOK, NEW m \in ToHostMsg, toHost' = Append(toHost, m)
  PROVE  /\ \A i \in DOMAIN toHost' : (i \in DOMAIN toHost /\ toHost'[i] = toHost[i]) \/ toHost'[i] = m
         /\ \A i \in DOMAIN toHost : i \in DOMAIN toHost' /\ toHost'[i] = toHost[i]
         /\ \A i \in DOMAIN toHost', j \in DOMAIN toHost' : i < j => i \in DOMAIN toHost /\ toHost'[i] = toHost[i]
         /\ Len(toHost) + 1 \in DOMAIN toHost' /\ toHost'[Len(toHost) + 1] = m
<1>1. toHost \in Seq(ToHostMsg)
  BY TypesUsed
<1> QED BY <1>1, AppendElements

-----------------------------------------------------------------------------
(* The guest's steps.                                                      *)

\* At the start nothing is open, on its way or fed.
LEMMA ReplyInit == Init => ReplyInv
BY DEF Init, ReplyInv, GuestInv, PageInv, BusInv, OpensDue, CloseEnds, OverIsClosed, NoCrossTalk, Blank, NoHost

\* A new connection is the last on its handle; nothing is due to it but what its
\* own open will ask for.
LEMMA ConnectKeeps ==
  ASSUME TypeOK, ReplyInv, NEW h \in Handles, NEW url \in BOOLEAN, Connect(h, url)
  PROVE  ReplyInv'
<1>a. /\ conn[h] = 0 /\ orphaned' = orphaned /\ fed' = [fed EXCEPT ![h] = <<>>] /\ pc = "idle"
      /\ UNCHANGED <<toDev, host, fetches, pc, cur>> /\ home' = Append(home, h)
  BY DEF Connect, hostVars, pumpVars
<1>n. PICK n \in Nat : n = Len(home) + 1
  BY TypesUsed
<1>k. PICK m \in ToHostMsg : /\ m.handle = h /\ m.type = "open" /\ m.target.conn = n
                              /\ toHost' = Append(toHost, m)
  <2> DEFINE k == SetTarget(socks[h], [conn |-> n, url |-> url])
  <2>1. k.target = [conn |-> n, url |-> url]
    BY TypesUsed DEF SetTarget, Handle
  <2>2. n \in Conns
    <3>1. Len(home) \in Nat /\ Len(home) < MaxConns
      BY TypesUsed DEF Connect
    <3> QED BY <1>n, <3>1, PvSockAssumption DEF Conns
  <2>3. toHost' = Append(toHost, [type |-> "open", handle |-> h, target |-> k.target])
    BY <1>n DEF Connect
  <2> QED BY <2>1, <2>2, <2>3 DEF ToHostMsg, Targets
<1>3. /\ n # 0 /\ n \in 1 .. Len(home') /\ home'[n] = h /\ Len(home') = n
      /\ \A c \in 1 .. Len(home) : home'[c] = home[c] /\ c < n
      /\ \A c \in 1 .. Len(home') : c = n \/ c \in 1 .. Len(home)
  <2>1. home \in Seq(Handles) /\ Len(home) \in Nat
    BY TypesUsed
  <2>2. Len(home') = n /\ home'[n] = h /\ \A c \in 1 .. Len(home) : home'[c] = home[c]
    BY <1>a, <1>n, <2>1
  <2> QED BY <1>n, <2>1, <2>2
<1>4. conn'[h] = n /\ \A g \in Handles : g # h => conn'[g] = conn[g] /\ fed'[g] = fed[g] /\ socks'[g] = socks[g]
  BY <1>n, TypesUsed DEF Connect
<1>5. \A g \in Handles : \A c : (OpenedOn(g, c) => OpenedOn(g, c)') /\ (Due(g, c) => Due(g, c)')
  <2> TAKE g \in Handles
  <2> TAKE c
  <2>1. conn'[g] = conn[g] \/ conn[g] = 0
    BY <1>a, <1>4
  <2>2. home' = home \/ \E x \in Handles : home' = Append(home, x)
    BY <1>a
  <2> QED BY <1>a, <2>1, <2>2, TypesUsed, DueLasts
<1>6. GuestInv'
  <2>1. ASSUME NEW g \in Handles, conn'[g] = 0
        PROVE  socks'[g].state = "idle"
    <3>1. g # h
      BY <1>3, <1>4, <2>1
    <3> QED BY <1>4, <2>1, <3>1 DEF ReplyInv, GuestInv
  <2>2. ASSUME NEW g \in Handles, conn'[g] # 0
        PROVE  OpenedOn(g, conn[g])' /\ \A c \in 1 .. Len(home') : home'[c] = g => c <= conn'[g]
    <3>1. CASE g = h
      <4>1. \A c \in 1 .. Len(home) : c <= n
        BY <1>3, TypesUsed
      <4> QED BY <1>3, <1>4, <3>1, <4>1 DEF OpenedOn
    <3>2. CASE g # h
      <4>1. OpenedOn(g, conn[g]) /\ \A c \in 1 .. Len(home) : home[c] = g => c <= conn[g]
        BY <1>4, <2>2, <3>2 DEF ReplyInv, GuestInv
      <4>2. conn[g] \in 1 .. Len(home') /\ home'[conn[g]] = g
        BY <1>3, <4>1, <1>n, TypesUsed DEF OpenedOn
      <4>3. \A c \in 1 .. Len(home') : home'[c] = g => c <= conn[g]
        BY <1>3, <3>2, <4>1
      <4> QED BY <1>4, <3>2, <4>2, <4>3 DEF OpenedOn
    <3> QED BY <3>1, <3>2
  <2> QED BY <1>a, <2>1, <2>2 DEF GuestInv
<1>7. PageInv'
  BY <1>a, <1>5, TypesUsed DEF ReplyInv, PageInv
<1>8. BusInv'
  <2>1. /\ \A i \in DOMAIN toHost' : (i \in DOMAIN toHost /\ toHost'[i] = toHost[i]) \/ toHost'[i] = m
        /\ \A i \in DOMAIN toHost : i \in DOMAIN toHost' /\ toHost'[i] = toHost[i]
        /\ \A i \in DOMAIN toHost', j \in DOMAIN toHost' : i < j => i \in DOMAIN toHost /\ toHost'[i] = toHost[i]
    BY <1>k, BusAppend
  <2>2. OpensDue'
    <3>1. Due(h, n)'
      BY <1>3, <1>4 DEF Due, OpenedOn
    <3> SUFFICES ASSUME NEW i \in DOMAIN toHost', toHost'[i].type = "open"
                 PROVE  Due(toHost[i].handle, toHost[i].target.conn)'
      BY DEF OpensDue
    <3>2. CASE i \in DOMAIN toHost /\ toHost'[i] = toHost[i]
      <4>1. PICK g, c : g \in Handles /\ g = toHost[i].handle /\ c = toHost[i].target.conn
        BY <3>2, TypesUsed
      <4>2. Due(g, c)
        BY <3>2, <4>1 DEF ReplyInv, BusInv, OpensDue
      <4>3. Due(g, c)'
        BY <1>5, <4>1, <4>2
      <4> QED BY <3>2, <4>1, <4>3
    <3>3. CASE toHost'[i] = m
      BY <1>k, <3>1, <3>3
    <3> QED BY <2>1, <3>2, <3>3
  <2>3. \A g \in Handles : ~Closes(m, g)
    BY <1>k DEF Closes
  <2>4. ASSUME NEW g \in Handles, g \notin orphaned', host'[g].conn # 0, host'[g].conn # conn'[g]
        PROVE  \E i \in DOMAIN toHost' : Closes(toHost'[i], g)
    <3>1. host[g].conn # 0 /\ host[g].conn # conn[g]
      <4>1. CASE g = h
        BY <1>a, <2>4, <4>1
      <4>2. CASE g # h
        BY <1>a, <1>4, <2>4, <4>2
      <4> QED BY <4>1, <4>2
    <3>2. PICK i \in DOMAIN toHost : Closes(toHost[i], g)
      BY <1>a, <2>4, <3>1 DEF ReplyInv, BusInv, OverIsClosed
    <3> QED BY <2>1, <3>2
  <2>5. ASSUME NEW g \in Handles, g \notin orphaned', NEW i \in DOMAIN toHost', NEW j \in DOMAIN toHost',
               i < j, toHost'[i].handle = g, Closes(toHost'[j], g)
        PROVE  Closes(toHost'[i], g)
    <3>1. i \in DOMAIN toHost /\ toHost'[i] = toHost[i] /\ j \in DOMAIN toHost /\ toHost'[j] = toHost[j]
      BY <2>1, <2>3, <2>5
    <3> QED BY <1>a, <2>5, <3>1 DEF ReplyInv, BusInv, CloseEnds
  <2>6. OverIsClosed'
    BY <2>4 DEF OverIsClosed, Closes
  <2>7. CloseEnds'
    BY <2>5 DEF CloseEnds, Closes
  <2> QED BY <2>2, <2>6, <2>7 DEF BusInv
<1>9. NoCrossTalk'
  <2> SUFFICES ASSUME NEW g \in Handles, NEW i \in DOMAIN fed'[g]
               PROVE  \/ fed'[g][i].conn = conn'[g]
                      \/ g \in orphaned' /\ fed'[g][i].conn < conn'[g] /\ home'[fed'[g][i].conn] = g
    BY DEF NoCrossTalk
  <2>1. g # h
    <3>1. fed'[h] = <<>>
      BY <1>a, TypesUsed
    <3> QED BY <3>1
  <2>2. i \in DOMAIN fed[g] /\ fed'[g] = fed[g] /\ conn'[g] = conn[g]
    BY <1>4, <2>1
  <2> DEFINE c == fed[g][i].conn
  <2>3. c = conn[g] \/ (g \in orphaned /\ c < conn[g] /\ home[c] = g)
    BY <2>2 DEF ReplyInv, NoCrossTalk
  <2>4. CASE g \in orphaned /\ c < conn[g] /\ home[c] = g
    <3>1. c \in Nat /\ c >= 1 /\ conn[g] \in Nat
      BY <2>2, TypesUsed
    <3>2. conn[g] # 0
      BY <2>4, <3>1
    <3>3. conn[g] \in 1 .. Len(home) /\ Len(home) \in Nat
      BY <3>2, TypesUsed DEF ReplyInv, GuestInv, OpenedOn
    <3>4. c \in 1 .. Len(home)
      BY <2>4, <3>1, <3>3
    <3> QED BY <1>a, <1>3, <2>2, <2>4, <3>4
  <2> QED BY <2>2, <2>3, <2>4
<1> QED BY <1>6, <1>7, <1>8, <1>9 DEF ReplyInv

\* As long as nothing is opened, closed or abandoned, what is due stays due, and
\* the guest's part holds on if idle handles stay idle and pump keeps to one that
\* is open.
LEMMA Settled ==
  ASSUME UNCHANGED <<home, conn, orphaned>>
  PROVE  /\ \A h, c : (OpenedOn(h, c)' <=> OpenedOn(h, c)) /\ (Due(h, c)' <=> Due(h, c))
         /\ fed' = fed /\ NoCrossTalk => NoCrossTalk'
         /\ UNCHANGED <<toDev, host, fetches>> /\ PageInv => PageInv'
         /\ UNCHANGED <<toHost, host>> /\ BusInv => BusInv'
         /\ /\ GuestInv
            /\ \A h \in Handles : socks[h].state = "idle" /\ conn[h] = 0 => socks'[h].state = "idle"
            /\ pc' # "idle" => conn[cur'] # 0 /\ sel' = cur'
            => GuestInv'
<1>1. \A h, c : (OpenedOn(h, c)' <=> OpenedOn(h, c)) /\ (Due(h, c)' <=> Due(h, c))
  BY DEF OpenedOn, Due
<1>2. fed' = fed /\ NoCrossTalk => NoCrossTalk'
  BY DEF NoCrossTalk
<1>3. UNCHANGED <<toDev, host, fetches>> /\ PageInv => PageInv'
  BY DEF PageInv, Due, OpenedOn
<1>4. UNCHANGED <<toHost, host>> /\ BusInv => BusInv'
  BY DEF BusInv, OpensDue, CloseEnds, OverIsClosed, Closes, Due, OpenedOn
<1>5. ASSUME GuestInv,
             \A h \in Handles : socks[h].state = "idle" /\ conn[h] = 0 => socks'[h].state = "idle",
             pc' # "idle" => conn[cur'] # 0 /\ sel' = cur'
      PROVE  GuestInv'
  BY <1>5 DEF GuestInv, OpenedOn
<1> QED BY <1>1, <1>2, <1>3, <1>4, <1>5

\* What send() puts on the bus is a message, and not an open or a close.
LEMMA SendsMessage ==
  ASSUME TypeOK, NEW h \in Handles, NEW n \in 1 .. Block, Send(h, n)
  PROVE  \E m \in ToHostMsg : toHost' = Append(toHost, m) /\ m.type = "send"
<1> DEFINE s == Bytes(conn[h], nsent[h] + 1, nsent[h] + n)
           k == PushWords(socks[h], s)
<1>1. toHost' = Append(toHost, [type |-> "send", handle |-> h, bytes |-> SentBytes(k, n)]) /\ conn[h] # 0
  BY DEF Send
<1>2. s \in Seq(Byte) /\ n \in Nat
  <2>1. conn[h] \in Conns /\ nsent[h] \in Nat /\ n \in Nat
    BY <1>1, Bounds DEF TypeOK
  <2> QED BY <2>1, BytesType
<1>3. k \in Handle(Targets, Byte)
  BY <1>2, TypesUsed, SendType
<1>4. SentBytes(k, n) \in Seq(Byte \cup {Zero})
  BY <1>2, <1>3, SendType
<1> QED BY <1>1, <1>4 DEF ToHostMsg

\* A chunk sent asks for nothing yet, and a message that is neither an open nor a
\* close bears on nothing.
LEMMA SendKeeps ==
  ASSUME TypeOK, ReplyInv, NEW h \in Handles, NEW n \in 1 .. Block, Send(h, n)
  PROVE  ReplyInv'
<1>a. UNCHANGED <<home, conn, orphaned, fed, toDev, host, fetches, pc, cur>> /\ pc = "idle" /\ conn[h] # 0
  BY DEF Send, hostVars, pumpVars
<1>1. GuestInv'
  <2>1. \A g \in Handles : conn[g] = 0 => socks'[g] = socks[g]
    BY <1>a, TypesUsed DEF Send
  <2> QED BY <1>a, <2>1, Settled DEF ReplyInv
<1>2. NoCrossTalk' /\ PageInv'
  BY <1>a, Settled DEF ReplyInv
<1>3. BusInv'
  <2>1. PICK m \in ToHostMsg : toHost' = Append(toHost, m) /\ m.type = "send"
    BY SendsMessage
  <2>2. /\ \A i \in DOMAIN toHost' : (i \in DOMAIN toHost /\ toHost'[i] = toHost[i]) \/ toHost'[i] = m
        /\ \A i \in DOMAIN toHost : i \in DOMAIN toHost' /\ toHost'[i] = toHost[i]
        /\ \A i \in DOMAIN toHost', j \in DOMAIN toHost' : i < j => i \in DOMAIN toHost /\ toHost'[i] = toHost[i]
    BY <2>1, BusAppend
  <2>3. OpensDue'
    BY <1>a, <2>1, <2>2 DEF ReplyInv, BusInv, OpensDue, Due, OpenedOn
  <2>4. CloseEnds'
    BY <1>a, <2>1, <2>2 DEF ReplyInv, BusInv, CloseEnds, Closes
  <2>5. OverIsClosed'
    BY <1>a, <2>1, <2>2 DEF ReplyInv, BusInv, OverIsClosed, Closes
  <2> QED BY <2>3, <2>4, <2>5 DEF BusInv
<1> QED BY <1>1, <1>2, <1>3 DEF ReplyInv

\* The pump opens and closes nothing, and works on a handle that is open.
LEMMA PumpKeeps ==
  ASSUME TypeOK, ReplyInv, Pump
  PROVE  ReplyInv'
<1>1. /\ UNCHANGED <<home, conn, orphaned, fed, toDev, toHost, host, fetches>>
      /\ \A h \in Handles : conn[h] = 0 => socks'[h] = socks[h]
      /\ pc' # "idle" => conn[cur'] # 0 /\ sel' = cur'
  <2>1. ASSUME NEW h \in Handles, PumpLook(h) PROVE <1>1!:
    BY <2>1 DEF PumpLook, hostVars, pumpVars
  <2>2. ASSUME NEW want \in 1 .. Block, PumpRead(want) PROVE <1>1!:
    BY <2>2, TypesUsed DEF PumpRead, hostVars, guestVars, ReplyInv, GuestInv
  <2>3. ASSUME DrainWord PROVE <1>1!:
    BY <2>3, TypesUsed DEF DrainWord, hostVars, ReplyInv, GuestInv
  <2> QED BY <2>1, <2>2, <2>3 DEF Pump
<1> QED BY <1>1, Settled DEF ReplyInv

\* A handle whose answer is still to come when it is closed is an orphan from then
\* on, so all that is left of one that is not is closes.
LEMMA CloseKeeps ==
  ASSUME TypeOK, ReplyInv, NEW h \in Handles, Close(h)
  PROVE  ReplyInv'
<1>a. /\ UNCHANGED <<toDev, host, fetches, home, pc, cur>> /\ pc = "idle" /\ conn[h] # 0
      /\ conn' = [conn EXCEPT ![h] = 0] /\ fed' = [fed EXCEPT ![h] = <<>>]
      /\ socks' = [socks EXCEPT ![h] = Blank]
      /\ orphaned' = IF Unanswered(h) THEN orphaned \cup {h} ELSE orphaned
  BY DEF Close, CloseCmd, hostVars, pumpVars
<1>k. PICK m \in ToHostMsg : toHost' = Append(toHost, m) /\ m.type = "close" /\ m.handle = h
  BY DEF Close, ToHostMsg
<1>4. /\ \A g \in Handles : g # h => conn'[g] = conn[g] /\ fed'[g] = fed[g] /\ socks'[g] = socks[g]
      /\ conn'[h] = 0 /\ fed'[h] = <<>> /\ socks'[h].state = "idle"
  BY <1>a, TypesUsed DEF Blank
<1>5. /\ \A g \in Handles : \A c : OpenedOn(g, c)' <=> OpenedOn(g, c)
      /\ \A g \in Handles : \A c : Due(g, c) /\ (g = h => h \in orphaned') => Due(g, c)'
  BY <1>a, <1>4 DEF OpenedOn, Due
<1>6. orphaned \subseteq orphaned' /\ (Unanswered(h) => h \in orphaned')
  BY <1>a
<1>7. GuestInv'
  BY <1>a, <1>4 DEF ReplyInv, GuestInv, OpenedOn
<1>8. PageInv'
  <2>1. ASSUME NEW f \in fetches PROVE Due(f.handle, f.conn)'
    <3>1. f.handle = h => h \in orphaned'
      BY <1>6 DEF Unanswered
    <3>2. Due(f.handle, f.conn) /\ f.handle \in Handles
      BY TypesUsed DEF ReplyInv, PageInv
    <3> QED BY <1>5, <3>1, <3>2
  <2>2. ASSUME NEW i \in DOMAIN toDev, NEW j \in DOMAIN toDev[i].bytes, NEW g, g = toDev[i].handle,
               NEW c, c = toDev[i].bytes[j].conn
        PROVE  Due(g, c)'
    <3>1. g = h => h \in orphaned'
      BY <1>6, <2>2 DEF Unanswered
    <3>2. Due(g, c) /\ g \in Handles
      BY <2>2, TypesUsed DEF ReplyInv, PageInv
    <3> QED BY <1>5, <3>1, <3>2
  <2>3. \A g \in Handles : host[g].conn # 0 => OpenedOn(g, host[g].conn)
    BY DEF ReplyInv, PageInv
  <2> QED BY <1>a, <1>5, <2>1, <2>2, <2>3 DEF PageInv
<1>9. BusInv'
  <2>1. /\ \A i \in DOMAIN toHost' : (i \in DOMAIN toHost /\ toHost'[i] = toHost[i]) \/ toHost'[i] = m
        /\ \A i \in DOMAIN toHost : i \in DOMAIN toHost' /\ toHost'[i] = toHost[i]
        /\ \A i \in DOMAIN toHost', j \in DOMAIN toHost' : i < j => i \in DOMAIN toHost /\ toHost'[i] = toHost[i]
        /\ Len(toHost) + 1 \in DOMAIN toHost' /\ toHost'[Len(toHost) + 1] = m
    BY <1>k, BusAppend
  <2>2. \A i \in DOMAIN toHost : toHost[i].handle = h /\ h \notin orphaned' => toHost[i].type = "close"
    BY <1>6 DEF Unanswered
  <2>3. OpensDue'
    <3> SUFFICES ASSUME NEW i \in DOMAIN toHost', toHost'[i].type = "open"
                 PROVE  Due(toHost[i].handle, toHost[i].target.conn)'
      BY DEF OpensDue
    <3>1. i \in DOMAIN toHost /\ toHost'[i] = toHost[i]
      BY <1>k, <2>1
    <3>2. PICK g, c : g \in Handles /\ g = toHost[i].handle /\ c = toHost[i].target.conn
      BY <3>1, TypesUsed
    <3>3. Due(g, c)
      BY <3>1, <3>2 DEF ReplyInv, BusInv, OpensDue
    <3>4. g = h => h \in orphaned'
      BY <2>2, <3>1, <3>2
    <3>5. Due(g, c)'
      BY <1>5, <3>2, <3>3, <3>4
    <3> QED BY <3>1, <3>2, <3>5
  <2>4. CloseEnds'
    <3> SUFFICES ASSUME NEW g \in Handles, g \notin orphaned', NEW i \in DOMAIN toHost', NEW j \in DOMAIN toHost',
                        i < j, toHost'[i].handle = g, Closes(toHost[j], g)'
                 PROVE  Closes(toHost[i], g)'
      BY DEF CloseEnds
    <3>1. i \in DOMAIN toHost /\ toHost'[i] = toHost[i]
      BY <2>1
    <3>2. CASE g = h
      BY <2>2, <3>1, <3>2 DEF Closes
    <3>3. CASE g # h
      <4>1. j \in DOMAIN toHost /\ toHost'[j] = toHost[j]
        BY <1>k, <2>1, <3>3 DEF Closes
      <4> QED BY <1>6, <3>1, <4>1 DEF ReplyInv, BusInv, CloseEnds, Closes
    <3> QED BY <3>2, <3>3
  <2>5. OverIsClosed'
    <3> SUFFICES ASSUME NEW g \in Handles, g \notin orphaned', host'[g].conn # 0, host'[g].conn # conn'[g]
                 PROVE  \E i \in DOMAIN toHost' : Closes(toHost[i], g)'
      BY DEF OverIsClosed
    <3>1. CASE g = h
      BY <1>k, <2>1, <3>1 DEF Closes
    <3>2. CASE g # h
      <4>1. PICK i \in DOMAIN toHost : Closes(toHost[i], g)
        BY <1>a, <1>4, <1>6, <3>2 DEF ReplyInv, BusInv, OverIsClosed
      <4> QED BY <2>1, <4>1 DEF Closes
    <3> QED BY <3>1, <3>2
  <2> QED BY <2>3, <2>4, <2>5 DEF BusInv
<1>10. NoCrossTalk'
  <2> SUFFICES ASSUME NEW g \in Handles, NEW i \in DOMAIN fed'[g]
               PROVE  \/ fed'[g][i].conn = conn'[g]
                      \/ g \in orphaned' /\ fed'[g][i].conn < conn'[g] /\ home'[fed'[g][i].conn] = g
    BY DEF NoCrossTalk
  <2>1. g # h
    BY <1>4
  <2> QED BY <1>a, <1>4, <1>6, <2>1 DEF ReplyInv, NoCrossTalk
<1> QED BY <1>7, <1>8, <1>9, <1>10 DEF ReplyInv

-----------------------------------------------------------------------------
(* The page's and the adapter's steps.                                     *)

\* Whatever the page takes off the bus, what is left of it is as it was.
LEMMA BusTail ==
  ASSUME TypeOK, BusInv, toHost # <<>>, toHost' = Tail(toHost), UNCHANGED <<home, conn, orphaned>>
  PROVE  /\ OpensDue' /\ CloseEnds'
         /\ \A g \in Handles : \A i \in DOMAIN toHost :
              Closes(toHost[i], g) /\ ~Closes(Head(toHost), g)
              => /\ \E j \in DOMAIN toHost' : Closes(toHost[j], g)'
                 /\ g \notin orphaned => Head(toHost).handle # g
<1>1. /\ \A i \in DOMAIN toHost' : i \in Nat /\ i + 1 \in DOMAIN toHost /\ toHost'[i] = toHost[i + 1]
      /\ \A i \in DOMAIN toHost : i \in Nat /\ (i = 1 \/ (i > 1 /\ i - 1 \in DOMAIN toHost' /\ toHost'[i - 1] = toHost[i]))
      /\ 1 \in DOMAIN toHost /\ toHost[1] = Head(toHost)
  BY TypesUsed, TailElements
<1>2. OpensDue'
  BY <1>1 DEF BusInv, OpensDue, Due, OpenedOn
<1>3. CloseEnds'
  <2> SUFFICES ASSUME NEW g \in Handles, g \notin orphaned', NEW i \in DOMAIN toHost', NEW j \in DOMAIN toHost',
                      i < j, toHost'[i].handle = g, Closes(toHost[j], g)'
               PROVE  Closes(toHost[i], g)'
    BY DEF CloseEnds
  <2>1. i + 1 \in DOMAIN toHost /\ j + 1 \in DOMAIN toHost /\ i + 1 < j + 1
    BY <1>1
  <2>2. Closes(toHost[i + 1], g)
    BY <1>1, <2>1 DEF BusInv, CloseEnds, Closes
  <2> QED BY <1>1, <2>2 DEF Closes
<1>4. ASSUME NEW g \in Handles, NEW i \in DOMAIN toHost, Closes(toHost[i], g), ~Closes(Head(toHost), g)
      PROVE  /\ \E j \in DOMAIN toHost' : Closes(toHost[j], g)'
             /\ g \notin orphaned => Head(toHost).handle # g
  <2>1. i > 1 /\ i - 1 \in DOMAIN toHost' /\ toHost'[i - 1] = toHost[i]
    BY <1>1, <1>4
  <2>2. \E j \in DOMAIN toHost' : Closes(toHost[j], g)'
    BY <1>4, <2>1 DEF Closes
  <2> QED BY <1>1, <1>4, <2>1, <2>2 DEF BusInv, CloseEnds
<1> QED BY <1>2, <1>3, <1>4

\* An exchange whose request the page completes is the one that is open, or the
\* handle is an orphan: a send is not taken behind the close of its connection.
LEMMA HostKeeps ==
  ASSUME TypeOK, ReplyInv, HostTake
  PROVE  ReplyInv'
<1>a. /\ UNCHANGED <<home, conn, orphaned, fed, toDev, socks, sel, pc, cur>>
      /\ toHost # <<>> /\ toHost' = Tail(toHost)
  BY DEF HostTake, devVars, pumpVars, guestVars
<1>k. PICK m \in ToHostMsg, h \in Handles : m = Head(toHost) /\ h = m.handle
  <2>1. Head(toHost) \in ToHostMsg
    BY <1>a, HeadTailProperties, TypesUsed
  <2>2. Head(toHost).handle \in Handles
    BY <2>1 DEF ToHostMsg
  <2> QED BY <2>1, <2>2
<1>1. GuestInv' /\ NoCrossTalk'
  BY <1>a, Settled DEF ReplyInv, GuestInv
<1>2. \A g, c : (OpenedOn(g, c)' <=> OpenedOn(g, c)) /\ (Due(g, c)' <=> Due(g, c))
  BY <1>a, Settled
<1>3. \A i \in DOMAIN toDev : \A j \in DOMAIN toDev[i].bytes : Due(toDev[i].handle, toDev[i].bytes[j].conn)
  BY DEF ReplyInv, PageInv
<1>4. OpensDue' /\ CloseEnds'
  BY <1>a, BusTail DEF ReplyInv
<1>5. ASSUME NEW g \in Handles, g \notin orphaned, host[g].conn # 0, host[g].conn # conn[g], ~Closes(m, g)
      PROVE  g # h /\ \E j \in DOMAIN toHost' : Closes(toHost[j], g)'
  <2>1. PICK i \in DOMAIN toHost : Closes(toHost[i], g)
    BY <1>5 DEF ReplyInv, BusInv, OverIsClosed
  <2> QED BY <1>a, <1>k, <1>5, <2>1, BusTail DEF ReplyInv
\* It is enough that what becomes of the exchange and the fetch it starts are due.
<1>6. ASSUME NEW c, host'[h].conn = c, \A g \in Handles : g # h => host'[g] = host[g],
             c # 0 => OpenedOn(h, c) /\ (h \notin orphaned => c = conn[h]),
             fetches' \subseteq fetches \cup {Fetch(h, c)}, fetches' # fetches => c # 0
      PROVE  ReplyInv'
  <2>1. c # 0 => Due(h, c)
    BY <1>6 DEF Due
  <2>2. ASSUME NEW f \in fetches' PROVE Due(f.handle, f.conn)'
    <3>1. CASE f \in fetches
      BY <1>2, <3>1 DEF ReplyInv, PageInv
    <3>2. CASE f \notin fetches
      <4>1. f = Fetch(h, c) /\ c # 0
        BY <1>6, <2>2, <3>2
      <4> QED BY <1>2, <2>1, <4>1 DEF Fetch
    <3> QED BY <3>1, <3>2
  <2>3. \A g \in Handles : host'[g].conn # 0 => OpenedOn(g, host[g].conn)'
    BY <1>2, <1>6 DEF ReplyInv, PageInv, OpenedOn
  <2>4. PageInv'
    BY <1>a, <1>2, <1>3, <2>2, <2>3 DEF PageInv
  <2>5. OverIsClosed'
    <3> SUFFICES ASSUME NEW g \in Handles, g \notin orphaned', host'[g].conn # 0, host'[g].conn # conn'[g]
                 PROVE  \E i \in DOMAIN toHost' : Closes(toHost[i], g)'
      BY DEF OverIsClosed
    <3>1. g # h
      BY <1>a, <1>6
    <3>2. ~Closes(m, g)
      BY <1>k, <3>1 DEF Closes
    <3> QED BY <1>a, <1>5, <1>6, <3>1, <3>2
  <2> QED BY <1>1, <1>4, <2>4, <2>5 DEF ReplyInv, BusInv
<1>7. CASE m.type = "open"
  <2>1. PICK c : c = m.target.conn
    OBVIOUS
  <2>2. Due(h, c)
    <3>1. 1 \in DOMAIN toHost /\ toHost[1] = m
      BY <1>a, <1>k, TypesUsed, TailElements
    <3> QED BY <1>k, <1>7, <2>1, <3>1 DEF ReplyInv, BusInv, OpensDue
  <2>3. /\ host' = [host EXCEPT ![h] = [conn |-> c, req |-> <<>>, sent |-> m.target.url]]
        /\ fetches' \subseteq fetches \cup {Fetch(h, c)}
    BY <1>k, <1>7, <2>1 DEF HostTake
  <2>4. host'[h].conn = c /\ \A g \in Handles : g # h => host'[g] = host[g]
    BY <2>3, TypesUsed
  <2>5. c # 0
    BY <2>2 DEF Due, OpenedOn
  <2> QED BY <1>6, <2>2, <2>3, <2>4, <2>5 DEF Due
<1>8. CASE m.type = "send" /\ host[h].conn # 0 /\ ~host[h].sent
  <2>1. PICK c : c = host[h].conn
    OBVIOUS
  <2>2. ~Closes(m, h)
    BY <1>8 DEF Closes
  <2>3. OpenedOn(h, c) /\ (h \notin orphaned => c = conn[h])
    BY <1>5, <1>8, <2>1, <2>2 DEF ReplyInv, PageInv
  <2>4. PICK req : /\ host' = [host EXCEPT ![h].req = req, ![h].sent = Complete(req)]
                   /\ fetches' \subseteq fetches \cup {Fetch(h, c)}
    BY <1>k, <1>8, <2>1 DEF HostTake
  <2>5. host'[h].conn = c /\ \A g \in Handles : g # h => host'[g] = host[g]
    BY <2>1, <2>4, TypesUsed DEF Exchange
  <2> QED BY <1>6, <1>8, <2>1, <2>3, <2>4, <2>5
<1>9. CASE m.type = "send" /\ (host[h].conn = 0 \/ host[h].sent)
  <2>1. UNCHANGED <<host, fetches>>
    BY <1>k, <1>9 DEF HostTake, hostVars
  <2>2. \A g \in Handles : ~Closes(m, g)
    BY <1>9 DEF Closes
  <2>3. OverIsClosed'
    BY <1>a, <1>5, <2>1, <2>2 DEF OverIsClosed
  <2> QED BY <1>a, <1>1, <1>4, <2>1, <2>3, Settled DEF ReplyInv, BusInv
<1>10. CASE m.type = "close"
  <2>1. host' = [host EXCEPT ![h] = NoHost] /\ fetches' = fetches
    BY <1>k, <1>10 DEF HostTake
  <2>2. host'[h].conn = 0 /\ \A g \in Handles : g # h => host'[g] = host[g]
    BY <2>1, TypesUsed DEF NoHost
  <2> QED BY <1>6, <2>1, <2>2
<1> QED BY <1>7, <1>8, <1>9, <1>10, <1>k DEF ToHostMsg, HostTake

\* A fetch answers for the connection it was started for.
LEMMA FetchKeeps ==
  ASSUME TypeOK, ReplyInv, FetchStep
  PROVE  ReplyInv'
<1>1. PICK f \in fetches, n \in 0 .. MaxReply, more \in BOOLEAN, bad \in BOOLEAN : FetchAnswers(f, n, more, bad)
  BY Zenon DEF FetchStep
<1> DEFINE m == [handle |-> f.handle, bytes |-> Bytes(f.conn, f.given + 1, f.given + n), done |-> ~more, error |-> bad]
<1>a. /\ UNCHANGED <<home, conn, orphaned, fed, toHost, host, socks, sel, pc, cur>> /\ toDev' = Append(toDev, m)
      /\ fetches' \subseteq (fetches \ {f}) \cup {[f EXCEPT !.given = @ + n]}
  BY <1>1 DEF FetchAnswers, devVars, pumpVars, guestVars
<1>2. GuestInv' /\ NoCrossTalk' /\ BusInv'
  BY <1>a, Settled DEF ReplyInv, GuestInv
<1>3. \A g, c : (OpenedOn(g, c)' <=> OpenedOn(g, c)) /\ (Due(g, c)' <=> Due(g, c))
  BY <1>a, Settled
<1>4. f \in [handle : Handles, conn : Conns, given : Nat] /\ n \in Nat /\ Due(f.handle, f.conn)
  BY Bounds DEF TypeOK, ReplyInv, PageInv
<1>5. ASSUME NEW g \in fetches' PROVE Due(g.handle, g.conn)'
  <2>1. g \in fetches \/ (g.handle = f.handle /\ g.conn = f.conn)
    BY <1>a, <1>4
  <2> QED BY <1>3, <1>4, <2>1 DEF ReplyInv, PageInv
<1>6. m \in ToDevMsg /\ \A j \in DOMAIN m.bytes : m.bytes[j].conn = f.conn
  <2>1. Bytes(f.conn, f.given + 1, f.given + n) \in Seq(Byte)
    BY <1>4, BytesType
  <2>2. \A j \in DOMAIN m.bytes : m.bytes[j].conn = f.conn
    BY DEF Bytes
  <2> QED BY <1>4, <2>1, <2>2 DEF ToDevMsg
<1>7. ASSUME NEW i \in DOMAIN toDev', NEW j \in DOMAIN toDev'[i].bytes, NEW g, g = toDev'[i].handle,
             NEW c, c = toDev'[i].bytes[j].conn
      PROVE  Due(g, c)'
  <2>1. (i \in DOMAIN toDev /\ toDev'[i] = toDev[i]) \/ toDev'[i] = m
    <3> HIDE DEF m
    <3> QED BY <1>a, <1>6, TypesUsed, AppendElements
  <2>2. CASE i \in DOMAIN toDev /\ toDev'[i] = toDev[i]
    BY <1>3, <1>7, <2>2 DEF ReplyInv, PageInv
  <2>3. CASE toDev'[i] = m
    BY <1>3, <1>4, <1>6, <1>7, <2>3
  <2> QED BY <2>1, <2>2, <2>3
<1>8. PageInv'
  BY <1>a, <1>3, <1>5, <1>7 DEF PageInv, ReplyInv
<1> QED BY <1>2, <1>8 DEF ReplyInv

\* What the adapter takes is due: an open handle that is not an orphan is fed its
\* own connection's bytes, an orphan those of a connection of its own.
LEMMA DevKeeps ==
  ASSUME TypeOK, ReplyInv, DevTake
  PROVE  ReplyInv'
<1>a. /\ UNCHANGED <<home, conn, orphaned, toHost, host, fetches, sel, pc, cur>> /\ toDev # <<>> /\ toDev' = Tail(toDev)
  BY DEF DevTake, hostVars, pumpVars, guestVars
<1>k. PICK m \in ToDevMsg, h \in Handles : m = Head(toDev) /\ h = m.handle
  <2>1. Head(toDev) \in ToDevMsg
    BY <1>a, HeadTailProperties, TypesUsed
  <2> QED BY <2>1 DEF ToDevMsg
<1>e. /\ \A i \in DOMAIN toDev' : i \in Nat /\ i + 1 \in DOMAIN toDev /\ toDev'[i] = toDev[i + 1]
      /\ 1 \in DOMAIN toDev /\ toDev[1] = m
  BY <1>a, <1>k, TypesUsed, TailElements
<1>1. \A g, c : (OpenedOn(g, c)' <=> OpenedOn(g, c)) /\ (Due(g, c)' <=> Due(g, c))
  BY <1>a, Settled
<1>2. \A j \in DOMAIN m.bytes : Due(h, m.bytes[j].conn)
  BY <1>k, <1>e DEF ReplyInv, PageInv
<1>3. /\ \A g \in Handles : g # h => fed'[g] = fed[g] /\ socks'[g] = socks[g]
      /\ socks[h].state = "idle" => socks'[h] = socks[h]
      /\ fed'[h] = fed[h] \/ (fed'[h] = fed[h] \o m.bytes /\ socks[h].state # "idle")
  BY <1>k, TypesUsed DEF DevTake, Addressee, Arrive, Fail
<1>4. GuestInv'
  BY <1>a, <1>3, Settled DEF ReplyInv, GuestInv
<1>5. BusInv'
  BY <1>a, Settled DEF ReplyInv
<1>6. PageInv'
  BY <1>a, <1>1, <1>e DEF ReplyInv, PageInv
<1>7. NoCrossTalk'
  <2> SUFFICES ASSUME NEW g \in Handles, NEW i \in DOMAIN fed'[g], NEW c, c = fed'[g][i].conn
               PROVE  c = conn[g] \/ (g \in orphaned /\ c < conn[g] /\ home[c] = g)
    BY <1>a DEF NoCrossTalk
  <2>1. CASE i \in DOMAIN fed[g] /\ fed'[g][i] = fed[g][i]
    BY <2>1 DEF ReplyInv, NoCrossTalk
  <2>2. CASE /\ g = h /\ socks[h].state # "idle"
             /\ \E j \in DOMAIN m.bytes : fed'[g][i] = m.bytes[j]
    <3>1. Due(h, c)
      BY <1>2, <2>2
    <3>2. conn[h] # 0
      BY <2>2 DEF ReplyInv, GuestInv
    <3>3. c \in 1 .. Len(home) /\ home[c] = h /\ c <= conn[h]
      BY <3>1, <3>2 DEF ReplyInv, GuestInv, Due, OpenedOn
    <3>4. conn[h] \in Nat /\ Len(home) \in Nat
      BY TypesUsed
    <3> QED BY <2>2, <3>1, <3>3, <3>4 DEF Due
  <2>3. CASE g = h /\ fed'[h] = fed[h] \o m.bytes /\ socks[h].state # "idle"
    <3>1. fed[h] \in Seq(Byte) /\ m.bytes \in Seq(Byte)
      BY TypesUsed DEF ToDevMsg
    <3>2. PICK old \in Seq(Byte), new \in Seq(Byte) : old = fed[h] /\ new = m.bytes
      BY <3>1
    <3>3. fed'[g] = old \o new /\ i \in DOMAIN (old \o new)
      BY <2>3, <3>2
    <3>4. (i \in DOMAIN old /\ (old \o new)[i] = old[i]) \/ \E j \in DOMAIN new : (old \o new)[i] = new[j]
      BY <3>3, ConcatElements
    <3> QED BY <2>1, <2>2, <2>3, <3>2, <3>3, <3>4
  <2> QED BY <1>3, <2>1, <2>3
<1> QED BY <1>4, <1>5, <1>6, <1>7 DEF ReplyInv

\* Every step of guest, page and adapter keeps ReplyInv.
LEMMA ReplyNext == TypeOK /\ ReplyInv /\ [Next]_vars => ReplyInv'
<1> SUFFICES ASSUME TypeOK, ReplyInv, [Next]_vars PROVE ReplyInv'
  OBVIOUS
<1>1. CASE UNCHANGED vars
  <2>1. UNCHANGED <<home, conn, orphaned, fed, toDev, toHost, host, fetches, socks, sel, pc, cur>>
    BY <1>1 DEF vars, devVars, hostVars, pumpVars, guestVars
  <2> QED BY <2>1, Settled DEF ReplyInv, GuestInv
<1>2. CASE Next
  BY <1>2, ConnectKeeps, SendKeeps, PumpKeeps, CloseKeeps, HostKeeps, FetchKeeps, DevKeeps DEF Next
<1> QED BY <1>1, <1>2

\* A program is only ever fed the answer to what it opened, or, if the handle was
\* closed on an answer still to come, to an earlier connection of the same handle.
THEOREM RepliesOwn == Spec => []NoCrossTalk
<1>1. Spec => []ReplyInv
  BY TypeCorrect, ReplyInit, ReplyNext, PTL DEF Spec
<1>2. ReplyInv => NoCrossTalk
  BY DEF ReplyInv
<1> QED BY <1>1, <1>2, PTL

-----------------------------------------------------------------------------
(* When a stream ends: EofMeansWhole of PvSock.  A program is told the end *)
(* by the adapter's state alone, and the adapter by the first message that *)
(* says so; that nothing comes behind it rests on there being one open,    *)
(* one exchange, one fetch and one last message for a connection.          *)


\* Something of an answer for h is on its way or has come to its end.
Fetching(h) == \E f \in fetches : f.handle = h
Coming(h) == \E i \in DOMAIN toDev : toDev[i].handle = h
Ending(h) == \E i \in DOMAIN toDev : toDev[i].handle = h /\ toDev[i].done

\* The page has the request of h's connection, complete: only then is there any of it.
Asked(h) == conn[h] # 0 /\ host[h].conn = conn[h] /\ host[h].sent
OnlyAsked(h) == Fetching(h) \/ Coming(h) \/ socks[h].done => Asked(h)

\* One open, which the page has yet to take, and no close of what it has taken.
OneOpen(h) ==
  /\ \A i \in DOMAIN toHost, j \in DOMAIN toHost :
       toHost[i].handle = h /\ toHost[j].handle = h /\ toHost[i].type = "open" /\ toHost[j].type = "open" => i = j
  /\ \A i \in DOMAIN toHost :
       toHost[i].handle = h /\ toHost[i].type \in {"open", "close"} => conn[h] = 0 \/ host[h].conn # conn[h]

\* One fetch, which comes to one end, and the end is the last to come.
OneEnd(h) ==
  /\ \A f, g \in fetches : f.handle = h /\ g.handle = h => f = g
  /\ Fetching(h) => ~Ending(h) /\ ~socks[h].done
  /\ \A i \in DOMAIN toDev, j \in DOMAIN toDev :
       i < j /\ toDev[i].handle = h /\ toDev[j].handle = h => ~toDev[i].done
  /\ Coming(h) => ~socks[h].done

\* The adapter says that a stream is over when it is and all of it is read, and
\* the guest has seen the end of one only if there was one.
Sound(k) ==
  /\ k.state = "closed" => k.done /\ k.rest = <<>>
  /\ k.state = "error" => k.done
Ended(k) == k.state \in {"closed", "error"}
Over ==
  /\ \A h \in Handles : Sound(socks[h])
  /\ \A h \in Handles : h \notin orphaned /\ eof[h] => Ended(socks[h])
  /\ \A i \in DOMAIN toDev : toDev[i].error => toDev[i].done

OneAnswer == \A h \in Handles : h \notin orphaned => OnlyAsked(h) /\ OneOpen(h) /\ OneEnd(h)

EndInv == OneAnswer /\ Over

-----------------------------------------------------------------------------
(* What the operations of the device do to the end of a stream.            *)

\* The guest's leave it alone, but for reporting it once there is no more to read.
LEMMA GuestsEnd ==
  ASSUME NEW T, NEW B, NEW k \in Handle(T, B), Sound(k), NEW s, NEW n, NEW want \in Nat
  PROVE  \A r \in {SendCmd(PushWords(k, s), n), ReadCmd(k, want), DataRead(k)} :
           r.done = k.done /\ Sound(r) /\ (Ended(k) => Ended(r))
<1>1. ASSUME NEW r, r = SendCmd(PushWords(k, s), n)
      PROVE  r.done = k.done /\ Sound(r) /\ (Ended(k) => Ended(r))
  BY <1>1 DEF SendCmd, PushWords, Handle, Sound, Ended
<1>2. ASSUME NEW r, r = ReadCmd(k, want)
      PROVE  r.done = k.done /\ Sound(r) /\ (Ended(k) => Ended(r))
  <2>1. CASE k.rest = <<>>
    BY <1>2, <2>1 DEF ReadCmd, Handle, Sound, Ended
  <2>2. CASE k.rest # <<>>
    <3>1. r.done = k.done /\ r.state = k.state /\ r.rest = k.rest
      BY <1>2, <2>2 DEF ReadCmd, Handle
    <3> QED BY <3>1 DEF Sound, Ended
  <2> QED BY <2>1, <2>2
<1>3. ASSUME NEW r, r = DataRead(k)
      PROVE  r.done = k.done /\ Sound(r) /\ (Ended(k) => Ended(r))
  <2>1. CASE DataCount(k) = 0
    BY <1>3, <2>1 DEF DataRead
  <2>2. CASE DataCount(k) # 0
    <3> PICK c : c = DataCount(k)
      OBVIOUS
    <3>1. c \in 0 .. Len(k.rest) /\ k.rest \in Seq(B) /\ r.rest = Drop(k.rest, c)
      <4>1. DataCount(k) \in 0 .. Len(k.rest) /\ DataRead(k).rest = Drop(k.rest, DataCount(k))
        BY DataProperties
      <4>2. k.rest \in Seq(B)
        BY DEF Handle
      <4> QED BY <1>3, <4>1, <4>2
    <3>2. /\ r.done = k.done
          /\ r.state = IF c # Len(k.rest) THEN k.state ELSE IF k.done THEN "closed" ELSE "working"
      BY <1>3, <2>2 DEF DataRead, Handle
    <3>3. k.rest # <<>> /\ k.state # "closed"
      BY <2>2, <3>1 DEF Sound
    <3>4. c = Len(k.rest) => r.rest = <<>>
      <4>1. ASSUME c = Len(k.rest) PROVE Len(r.rest) = 0 /\ r.rest \in Seq(B)
        BY <3>1, <4>1, DropProperties
      <4> QED BY <4>1
    <3> QED BY <3>2, <3>3, <3>4 DEF Sound, Ended
  <2> QED BY <2>1, <2>2
<1> QED BY <1>1, <1>2, <1>3

\* A message ends it if it says so, an error always.
LEMMA HostsEnd ==
  ASSUME NEW T, NEW B, NEW k \in Handle(T, B), Sound(k), NEW s \in Seq(B), NEW d \in BOOLEAN
  PROVE  /\ Sound(Arrive(k, s, d)) /\ Sound(Fail(k))
         /\ Arrive(k, s, d).done => k.done \/ d
<1>1. k.rest \o s \in Seq(B)
  BY ConcatProperties DEF Handle
<1> QED BY <1>1 DEF Arrive, Fail, Handle, Sound

-----------------------------------------------------------------------------
(* The guest's steps.                                                      *)

\* Nothing is asked for or done at the start.
LEMMA EndInit == Init => EndInv
BY DEF Init, EndInv, OneAnswer, OnlyAsked, OneOpen, OneEnd, Fetching, Coming, Over, Sound, Ended, Blank

\* A step that asks for nothing and takes nothing keeps what is asked for and to come.
LEMMA GuestKeepsEnd ==
  ASSUME EndInv, UNCHANGED <<conn, orphaned, host, fetches, toDev>>,
         \A h \in Handles : /\ socks'[h].done = socks[h].done /\ Sound(socks[h])'
                            /\ Ended(socks[h]) => Ended(socks[h])'
                            /\ eof'[h] => eof[h] \/ Ended(socks[h])',
         \A h \in Handles : h \notin orphaned => OneOpen(h)'
  PROVE  EndInv'
<1>1. Over'
  BY DEF EndInv, Over
<1>2. \A h \in Handles : h \notin orphaned => OnlyAsked(h)' /\ OneEnd(h)'
  BY DEF EndInv, OneAnswer, OnlyAsked, OneEnd, Asked, Fetching, Coming, Ending
<1> QED BY <1>1, <1>2 DEF EndInv, OneAnswer

\* ... as a chunk sent does,
LEMMA SendKeepsEnd ==
  ASSUME TypeOK, EndInv, NEW h \in Handles, NEW n \in 1 .. Block, Send(h, n)
  PROVE  EndInv'
<1> DEFINE s == Bytes(conn[h], nsent[h] + 1, nsent[h] + n)
           k == PushWords(socks[h], s)
<1>a. /\ UNCHANGED <<conn, orphaned, host, fetches, toDev, eof>> /\ conn[h] # 0
      /\ socks' = [socks EXCEPT ![h] = SendCmd(k, n)]
      /\ toHost' = Append(toHost, [type |-> "send", handle |-> h, bytes |-> SentBytes(k, n)])
  BY DEF Send, hostVars, pumpVars
<1>1. ASSUME NEW g \in Handles
      PROVE  socks'[g].done = socks[g].done /\ Sound(socks[g])' /\ (Ended(socks[g]) => Ended(socks[g])')
  <2>1. Sound(socks[g]) /\ socks[g] \in Handle(Targets, Byte)
    BY TypesUsed DEF EndInv, Over
  <2>2. CASE g = h
    <3>1. socks'[g] = SendCmd(PushWords(socks[g], s), n) /\ 0 \in Nat
      BY <1>a, <2>2, TypesUsed
    <3> HIDE DEF s
    <3> QED BY <2>1, <3>1, GuestsEnd
  <2>3. CASE g # h
    BY <1>a, <2>1, <2>3, TypesUsed
  <2> QED BY <2>2, <2>3
<1>2. PICK m \in ToHostMsg : toHost' = Append(toHost, m) /\ m.type = "send"
  BY SendsMessage
<1>3. ASSUME NEW g \in Handles, g \notin orphaned PROVE OneOpen(g)'
  <2>1. \A i \in DOMAIN toHost' : (i \in DOMAIN toHost /\ toHost'[i] = toHost[i]) \/ toHost'[i] = m
    BY <1>2, BusAppend
  <2> QED BY <1>a, <1>2, <1>3, <2>1 DEF EndInv, OneAnswer, OneOpen
<1> QED BY <1>a, <1>1, <1>3, GuestKeepsEnd

\* ... and whatever the pump does: what it has seen the end of has ended.
LEMMA PumpKeepsEnd ==
  ASSUME TypeOK, EndInv, Pump
  PROVE  EndInv'
<1>1. ASSUME UNCHANGED <<conn, orphaned, host, fetches, toDev, toHost>>,
             NEW h \in Handles, \A g \in Handles : g # h => socks'[g] = socks[g],
             \/ socks'[h] = socks[h]
             \/ \E want \in Nat : socks'[h] = ReadCmd(socks[h], want)
             \/ socks'[h] = DataRead(socks[h]),
             \A g \in Handles : eof'[g] => eof[g] \/ Ended(socks[g])'
      PROVE  EndInv'
  <2>1. ASSUME NEW g \in Handles
        PROVE  socks'[g].done = socks[g].done /\ Sound(socks[g])' /\ (Ended(socks[g]) => Ended(socks[g])')
    <3>1. Sound(socks[g]) /\ socks[g] \in Handle(Targets, Byte) /\ 0 \in Nat
      BY TypesUsed DEF EndInv, Over
    <3>2. CASE socks'[g] = socks[g]
      BY <3>1, <3>2
    <3>3. CASE \E want \in Nat : socks'[g] = ReadCmd(socks[g], want)
      BY <3>1, <3>3, GuestsEnd
    <3>4. CASE socks'[g] = DataRead(socks[g])
      BY <3>1, <3>4, GuestsEnd
    <3> QED BY <1>1, <3>2, <3>3, <3>4
  <2>2. \A g \in Handles : g \notin orphaned => OneOpen(g)'
    BY <1>1 DEF EndInv, OneAnswer, OneOpen
  <2> QED BY <1>1, <2>1, <2>2, GuestKeepsEnd
<1>2. ASSUME NEW h \in Handles, PumpLook(h) PROVE EndInv'
  <2>1. UNCHANGED <<conn, orphaned, host, fetches, toDev, toHost, socks>>
    BY <1>2 DEF PumpLook, hostVars
  <2>2. \A g \in Handles : eof'[g] => eof[g] \/ Ended(socks[g])'
    BY <1>2, <2>1 DEF PumpLook, Ended, TypeOK
  <2> QED BY <1>1, <2>1, <2>2
<1>3. ASSUME NEW want \in 1 .. Block, PumpRead(want) PROVE EndInv'
  <2>1. /\ UNCHANGED <<conn, orphaned, host, fetches, toDev, toHost, eof>> /\ want \in Nat
        /\ \A g \in Handles : g # cur => socks'[g] = socks[g]
        /\ socks'[cur] = ReadCmd(socks[cur], want) /\ cur \in Handles
    BY <1>3, TypesUsed DEF PumpRead, hostVars, guestVars
  <2> QED BY <1>1, <2>1
<1>4. CASE DrainWord
  <2>1. /\ UNCHANGED <<conn, orphaned, host, fetches, toDev, toHost, eof>>
        /\ \A g \in Handles : g # sel => socks'[g] = socks[g]
        /\ socks'[sel] = DataRead(socks[sel]) /\ sel \in Handles
    BY <1>4, TypesUsed DEF DrainWord, hostVars
  <2> QED BY <1>1, <2>1
<1> QED BY <1>2, <1>3, <1>4 DEF Pump

\* A handle that is opened afresh has nothing left of what was opened on it before.
LEMMA ConnectKeepsEnd ==
  ASSUME TypeOK, EndInv, ReplyInv, NEW h \in Handles, NEW url \in BOOLEAN, Connect(h, url)
  PROVE  EndInv'
<1>a. /\ UNCHANGED <<orphaned, host, fetches, toDev>> /\ conn[h] = 0
      /\ conn' = [conn EXCEPT ![h] = Len(home) + 1] /\ eof' = [eof EXCEPT ![h] = FALSE]
  BY DEF Connect, hostVars
<1>k. PICK m \in ToHostMsg : toHost' = Append(toHost, m) /\ m.handle = h /\ m.type = "open"
  <2>1. /\ Connect(h, url)
        /\ LET k == SetTarget(socks[h], [conn |-> Len(home) + 1, url |-> url])
           IN  toHost' = Append(toHost, [type |-> "open", handle |-> h, target |-> k.target])
    BY DEF Connect
  <2>2. SetTarget(socks[h], [conn |-> Len(home) + 1, url |-> url]).target = [conn |-> Len(home) + 1, url |-> url]
    BY TypesUsed DEF SetTarget, Handle
  <2>3. Len(home) + 1 \in Conns
    <3>1. Len(home) \in Nat /\ Len(home) < MaxConns
      BY TypesUsed DEF Connect
    <3> QED BY <3>1, PvSockAssumption DEF Conns
  <2> QED BY <2>1, <2>2, <2>3 DEF ToHostMsg, Targets
<1>4. /\ \A g \in Handles : g # h => conn'[g] = conn[g] /\ socks'[g] = socks[g] /\ eof'[g] = eof[g]
      /\ eof'[h] = FALSE /\ conn'[h] = Len(home) + 1
  BY <1>a, TypesUsed DEF Connect, TypeOK
<1>5. Sound(socks[h])' /\ ~socks'[h].done
  <2> DEFINE t == [conn |-> Len(home) + 1, url |-> url]
             k == SetTarget(socks[h], t)
  <2>1. k.target = t /\ socks' = [socks EXCEPT ![h] = OpenCmd(k)]
    BY TypesUsed DEF SetTarget, Handle, Connect
  <2>2. t \in Targets
    <3>1. Len(home) \in Nat /\ Len(home) < MaxConns
      BY TypesUsed DEF Connect
    <3>2. Len(home) + 1 \in Conns
      BY <3>1, PvSockAssumption DEF Conns
    <3> QED BY <3>2 DEF Targets
  <2>3. OpenCmd(k).state = "working" /\ OpenCmd(k).done = FALSE
    BY <2>1, <2>2, NoTargetAssumption DEF OpenCmd, OpenAccepted, Blank
  <2> QED BY <2>1, <2>3, TypesUsed DEF Sound
<1>6. Over'
  BY <1>a, <1>4, <1>5 DEF EndInv, Over
<1>7. ASSUME NEW g \in Handles, g \notin orphaned
      PROVE  OnlyAsked(g)' /\ OneOpen(g)' /\ OneEnd(g)'
  <2>1. \A i \in DOMAIN toHost' : (i \in DOMAIN toHost /\ toHost'[i] = toHost[i]) \/ toHost'[i] = m
    BY <1>k, BusAppend
  <2>2. OnlyAsked(g) /\ OneOpen(g) /\ OneEnd(g)
    BY <1>7 DEF EndInv, OneAnswer
  <2>3. CASE g # h
    <3>1. UNCHANGED <<conn[g], socks[g]>>
      BY <1>4, <2>3
    <3>2. OnlyAsked(g)' /\ OneEnd(g)'
      BY <1>a, <2>2, <3>1 DEF OnlyAsked, OneEnd, Asked, Fetching, Coming, Ending
    <3>3. OneOpen(g)'
      BY <1>a, <1>k, <2>1, <2>2, <2>3, <3>1 DEF OneOpen
    <3> QED BY <3>2, <3>3
  <2>4. CASE g = h
    <3>1. ~Fetching(h) /\ ~Coming(h)
      BY <1>a, <2>2, <2>4 DEF OnlyAsked, Asked
    <3>2. OnlyAsked(h)' /\ OneEnd(h)'
      BY <1>a, <1>5, <3>1 DEF OnlyAsked, OneEnd, Fetching, Coming, Ending
    <3>3. \A i \in DOMAIN toHost : ~(toHost[i].handle = h /\ toHost[i].type = "open")
      <4> SUFFICES ASSUME NEW i \in DOMAIN toHost, toHost[i].handle = h, toHost[i].type = "open"
                   PROVE  FALSE
        OBVIOUS
      <4>1. Due(h, toHost[i].target.conn)
        BY DEF ReplyInv, BusInv, OpensDue
      <4> QED BY <1>7, <1>a, <2>4, <4>1 DEF Due, OpenedOn
    <3>4. host[h].conn # Len(home) + 1
      <4>1. host[h].conn # 0 => host[h].conn \in 1 .. Len(home)
        BY DEF ReplyInv, PageInv, OpenedOn
      <4> QED BY <4>1, TypesUsed
    <3>5. OneOpen(h)'
      <4>1. \A i \in DOMAIN toHost', j \in DOMAIN toHost' :
              toHost'[i].handle = h /\ toHost'[j].handle = h /\ toHost'[i].type = "open" /\ toHost'[j].type = "open" => i = j
        <5>1. \A i \in DOMAIN toHost', j \in DOMAIN toHost' : i < j => i \in DOMAIN toHost /\ toHost'[i] = toHost[i]
          BY <1>k, BusAppend
        <5>2. toHost' \in Seq(ToHostMsg)
          BY <1>k, TypesUsed
        <5>3. \A i \in DOMAIN toHost', j \in DOMAIN toHost' : i < j \/ j < i \/ i = j
          BY <5>2
        <5>4. ASSUME NEW i \in DOMAIN toHost', NEW j \in DOMAIN toHost', i < j,
                     toHost'[i].handle = h, toHost'[i].type = "open"
              PROVE  FALSE
          BY <3>3, <5>1, <5>4
        <5> TAKE i \in DOMAIN toHost', j \in DOMAIN toHost'
        <5>5. CASE i < j
          BY <5>4, <5>5
        <5>6. CASE j < i
          BY <5>4, <5>6
        <5> QED BY <5>3, <5>5, <5>6
      <4> QED BY <1>a, <1>4, <3>4, <4>1 DEF OneOpen
    <3> QED BY <2>4, <3>2, <3>5
  <2> QED BY <2>3, <2>4
<1> QED BY <1>a, <1>6, <1>7 DEF EndInv, OneAnswer

\* A handle that is closed and is not an orphan has nothing on the bus but closes.
LEMMA CloseKeepsEnd ==
  ASSUME TypeOK, EndInv, NEW h \in Handles, Close(h)
  PROVE  EndInv'
<1>a. /\ UNCHANGED <<host, fetches, toDev>>
      /\ conn' = [conn EXCEPT ![h] = 0] /\ eof' = [eof EXCEPT ![h] = FALSE]
      /\ socks' = [socks EXCEPT ![h] = Blank]
      /\ orphaned' = IF Unanswered(h) THEN orphaned \cup {h} ELSE orphaned
  BY DEF Close, CloseCmd, hostVars
<1>k. PICK m \in ToHostMsg : toHost' = Append(toHost, m) /\ m.type = "close" /\ m.handle = h
  BY DEF Close, ToHostMsg
<1>4. /\ \A g \in Handles : g # h => conn'[g] = conn[g] /\ socks'[g] = socks[g] /\ eof'[g] = eof[g]
      /\ eof'[h] = FALSE /\ conn'[h] = 0 /\ Sound(socks[h])' /\ ~socks'[h].done
  BY <1>a, TypesUsed DEF TypeOK, Blank, Sound
<1>5. orphaned \subseteq orphaned' /\ (h \notin orphaned' => ~Unanswered(h))
  BY <1>a
<1>6. Over'
  BY <1>a, <1>4, <1>5 DEF EndInv, Over
<1>7. ASSUME NEW g \in Handles, g \notin orphaned'
      PROVE  OnlyAsked(g)' /\ OneOpen(g)' /\ OneEnd(g)'
  <2>1. \A i \in DOMAIN toHost' : (i \in DOMAIN toHost /\ toHost'[i] = toHost[i]) \/ toHost'[i] = m
    BY <1>k, BusAppend
  <2>2. OnlyAsked(g) /\ OneOpen(g) /\ OneEnd(g)
    BY <1>5, <1>7 DEF EndInv, OneAnswer
  <2>3. CASE g # h
    <3>1. UNCHANGED <<conn[g], socks[g]>>
      BY <1>4, <2>3
    <3>2. OnlyAsked(g)' /\ OneEnd(g)'
      BY <1>a, <2>2, <3>1 DEF OnlyAsked, OneEnd, Asked, Fetching, Coming, Ending
    <3>3. OneOpen(g)'
      BY <1>a, <1>k, <2>1, <2>2, <2>3, <3>1 DEF OneOpen
    <3> QED BY <3>2, <3>3
  <2>4. CASE g = h
    <3>1. ~Fetching(h) /\ ~Coming(h) /\ \A i \in DOMAIN toHost : toHost[i].handle = h => toHost[i].type = "close"
      BY <1>5, <1>7, <2>4 DEF Unanswered, Fetching, Coming
    <3>2. OnlyAsked(h)' /\ OneEnd(h)'
      BY <1>a, <1>4, <3>1 DEF OnlyAsked, OneEnd, Fetching, Coming, Ending
    <3>3. OneOpen(h)'
      BY <1>4, <1>k, <2>1, <3>1 DEF OneOpen
    <3> QED BY <2>4, <3>2, <3>3
  <2> QED BY <2>3, <2>4
<1> QED BY <1>6, <1>7 DEF EndInv, OneAnswer

-----------------------------------------------------------------------------
(* The page's and the adapter's steps.                                     *)

\* What the page takes it has of the connection that is open, or of none.
LEMMA HostKeepsEnd ==
  ASSUME TypeOK, EndInv, ReplyInv, HostTake
  PROVE  EndInv'
<1>a. UNCHANGED <<conn, orphaned, toDev, socks, eof>> /\ toHost # <<>> /\ toHost' = Tail(toHost)
  BY DEF HostTake, devVars, pumpVars, guestVars
<1>k. PICK m \in ToHostMsg, h \in Handles : m = Head(toHost) /\ h = m.handle
  <2>1. Head(toHost) \in ToHostMsg
    BY <1>a, HeadTailProperties, TypesUsed
  <2>2. Head(toHost).handle \in Handles
    BY <2>1 DEF ToHostMsg
  <2> QED BY <2>1, <2>2
<1>e. /\ \A i \in DOMAIN toHost' : i \in Nat /\ i + 1 \in DOMAIN toHost /\ toHost'[i] = toHost[i + 1]
      /\ 1 \in DOMAIN toHost /\ toHost[1] = m
  BY <1>a, <1>k, TypesUsed, TailElements
<1>1. Over'
  BY <1>a DEF EndInv, Over
<1>2. ASSUME NEW g \in Handles, g \notin orphaned
      PROVE  OnlyAsked(g) /\ OneOpen(g) /\ OneEnd(g)
  BY <1>2 DEF EndInv, OneAnswer
\* It is enough to say what becomes of the handle the message is for.
<1>3. ASSUME \A g \in Handles : g # h => host'[g] = host[g],
             \A f \in fetches \cup fetches' : f.handle # h => (f \in fetches <=> f \in fetches'),
             h \notin orphaned => OnlyAsked(h)' /\ OneOpen(h)' /\ OneEnd(h)'
      PROVE  EndInv'
  <2> SUFFICES ASSUME NEW g \in Handles, g \notin orphaned, g # h
               PROVE  OnlyAsked(g)' /\ OneOpen(g)' /\ OneEnd(g)'
    BY <1>a, <1>1, <1>3 DEF EndInv, OneAnswer
  <2>1. host'[g] = host[g] /\ \A f : f.handle = g => (f \in fetches <=> f \in fetches')
    BY <1>3
  <2>2. Fetching(g)' <=> Fetching(g)
    BY <2>1 DEF Fetching
  <2>3. OnlyAsked(g)'
    BY <1>2, <1>a, <2>1, <2>2 DEF OnlyAsked, Asked, Coming
  <2>4. OneEnd(g)'
    BY <1>2, <1>a, <2>1, <2>2 DEF OneEnd, Coming, Ending
  <2>5. OneOpen(g)'
    BY <1>2, <1>a, <1>e, <2>1 DEF OneOpen
  <2> QED BY <2>3, <2>4, <2>5
\* What is left of the bus for it, as long as its exchange has the same connection.
<1>4. ASSUME h \notin orphaned, host'[h].conn = host[h].conn PROVE OneOpen(h)'
  BY <1>2, <1>4, <1>a, <1>e DEF OneOpen
<1>5. CASE m.type = "open"
  <2>1. /\ host' = [host EXCEPT ![h] = [conn |-> m.target.conn, req |-> <<>>, sent |-> m.target.url]]
        /\ fetches' = IF m.target.url THEN fetches \cup {Fetch(h, m.target.conn)} ELSE fetches
    BY <1>k, <1>5 DEF HostTake
  <2>2. /\ \A g \in Handles : g # h => host'[g] = host[g]
        /\ host'[h].conn = m.target.conn /\ host'[h].sent = m.target.url
    BY <2>1, TypesUsed
  <2>3. ASSUME h \notin orphaned PROVE OnlyAsked(h)' /\ OneOpen(h)' /\ OneEnd(h)'
    <3>1. m.target.conn = conn[h] /\ conn[h] # 0
      BY <1>e, <1>k, <1>5, <2>3 DEF ReplyInv, BusInv, OpensDue, Due, OpenedOn
    <3>2. host[h].conn # conn[h]
      BY <1>2, <1>e, <1>k, <1>5, <2>3, <3>1 DEF OneOpen
    <3>3. ~Fetching(h) /\ ~Coming(h) /\ ~socks[h].done
      BY <1>2, <2>3, <3>2 DEF OnlyAsked, Asked
    <3>4. OnlyAsked(h)'
      BY <1>a, <2>1, <2>2, <3>1, <3>3 DEF OnlyAsked, Asked, Fetching, Coming
    <3>5. OneEnd(h)'
      BY <1>a, <2>1, <3>3 DEF OneEnd, Fetching, Coming, Ending
    <3>6. \A i \in DOMAIN toHost' : toHost'[i].handle = h => toHost'[i].type \notin {"open", "close"}
      <4> SUFFICES ASSUME NEW i \in DOMAIN toHost', toHost'[i].handle = h
                   PROVE  toHost'[i].type \notin {"open", "close"}
        OBVIOUS
      <4>1. i + 1 \in DOMAIN toHost /\ toHost'[i] = toHost[i + 1] /\ 1 < i + 1 /\ 1 # i + 1
        <5>1. toHost' \in Seq(ToHostMsg)
          BY <1>a, TypesUsed
        <5>2. i \in Nat /\ i >= 1
          BY <5>1
        <5> QED BY <1>e, <5>2
      <4>2. toHost[i + 1].type # "open"
        BY <1>2, <1>e, <1>k, <1>5, <2>3, <4>1 DEF OneOpen
      <4>3. ~Closes(m, h)
        BY <1>5 DEF Closes
      <4>4. ~Closes(toHost[i + 1], h)
        BY <1>e, <1>k, <2>3, <4>1, <4>3 DEF ReplyInv, BusInv, CloseEnds
      <4> QED BY <4>1, <4>2, <4>4 DEF Closes
    <3>7. OneOpen(h)'
      BY <3>6 DEF OneOpen
    <3> QED BY <3>4, <3>5, <3>7
  <2>4. \A f \in fetches \cup fetches' : f.handle # h => (f \in fetches <=> f \in fetches')
    BY <2>1 DEF Fetch
  <2> QED BY <1>3, <2>2, <2>3, <2>4
<1>6. CASE m.type = "send" /\ host[h].conn # 0 /\ ~host[h].sent
  <2> PICK req : /\ host' = [host EXCEPT ![h].req = req, ![h].sent = Complete(req)]
                 /\ fetches' = IF Complete(req) THEN fetches \cup {Fetch(h, host[h].conn)} ELSE fetches
    BY <1>k, <1>6 DEF HostTake
  <2>1. /\ \A g \in Handles : g # h => host'[g] = host[g]
        /\ host'[h].conn = host[h].conn /\ host'[h].sent = Complete(req)
    BY TypesUsed DEF Exchange
  <2>2. ASSUME h \notin orphaned PROVE OnlyAsked(h)' /\ OneOpen(h)' /\ OneEnd(h)'
    <3>1. host[h].conn = conn[h]
      <4> SUFFICES ASSUME host[h].conn # conn[h] PROVE FALSE
        OBVIOUS
      <4>1. PICK i \in DOMAIN toHost : Closes(toHost[i], h)
        BY <1>6, <2>2 DEF ReplyInv, BusInv, OverIsClosed
      <4>2. ~Closes(Head(toHost), h)
        BY <1>6, <1>k DEF Closes
      <4>3. BusInv /\ UNCHANGED <<home, conn, orphaned>>
        BY DEF ReplyInv, HostTake, guestVars
      <4>4. Head(toHost).handle # h
        BY <1>a, <2>2, <4>1, <4>2, <4>3, BusTail
      <4> QED BY <1>k, <4>4
    <3>2. ~Fetching(h) /\ ~Coming(h) /\ ~socks[h].done
      BY <1>2, <1>6, <2>2 DEF OnlyAsked, Asked
    <3>3. OnlyAsked(h)'
      BY <1>6, <1>a, <2>1, <3>1, <3>2 DEF OnlyAsked, Asked, Fetching, Coming
    <3>4. OneEnd(h)'
      BY <1>a, <3>2 DEF OneEnd, Fetching, Coming, Ending
    <3> QED BY <1>4, <2>1, <2>2, <3>3, <3>4
  <2>3. \A f \in fetches \cup fetches' : f.handle # h => (f \in fetches <=> f \in fetches')
    BY DEF Fetch
  <2> QED BY <1>3, <2>1, <2>2, <2>3
<1>7. CASE m.type = "send" /\ (host[h].conn = 0 \/ host[h].sent)
  <2>1. UNCHANGED <<host, fetches>>
    BY <1>k, <1>7 DEF HostTake, hostVars
  <2>2. h \notin orphaned => OnlyAsked(h)' /\ OneOpen(h)' /\ OneEnd(h)'
    BY <1>2, <1>4, <1>a, <2>1 DEF OnlyAsked, OneEnd, Asked, Fetching, Coming, Ending
  <2> QED BY <1>3, <2>1, <2>2
<1>8. CASE m.type = "close"
  <2>1. host' = [host EXCEPT ![h] = NoHost] /\ fetches' = fetches
    BY <1>k, <1>8 DEF HostTake
  <2>2. host'[h].conn = 0 /\ \A g \in Handles : g # h => host'[g] = host[g]
    BY <2>1, TypesUsed DEF NoHost
  <2>3. ASSUME h \notin orphaned PROVE OnlyAsked(h)' /\ OneOpen(h)' /\ OneEnd(h)'
    <3>1. conn[h] = 0 \/ host[h].conn # conn[h]
      BY <1>2, <1>e, <1>k, <1>8, <2>3 DEF OneOpen
    <3>2. ~Fetching(h) /\ ~Coming(h) /\ ~socks[h].done
      BY <1>2, <2>3, <3>1 DEF OnlyAsked, Asked
    <3>3. OnlyAsked(h)' /\ OneEnd(h)'
      BY <1>a, <2>1, <3>2 DEF OnlyAsked, OneEnd, Fetching, Coming, Ending
    <3>4. OneOpen(h)'
      BY <1>2, <1>a, <1>e, <2>2, <2>3 DEF OneOpen
    <3> QED BY <3>3, <3>4
  <2> QED BY <1>3, <2>1, <2>2, <2>3
<1> QED BY <1>5, <1>6, <1>7, <1>8, <1>k DEF ToHostMsg, HostTake

\* A fetch that is under way has not come to its end, and is one no longer when it has.
LEMMA FetchKeepsEnd ==
  ASSUME TypeOK, EndInv, FetchStep
  PROVE  EndInv'
<1>1. PICK f \in fetches, n \in 0 .. MaxReply, more \in BOOLEAN, bad \in BOOLEAN : FetchAnswers(f, n, more, bad)
  BY Zenon DEF FetchStep
<1>f. PICK h, rest : h \in Handles /\ h = f.handle /\ rest = [f EXCEPT !.given = @ + n]
  BY TypesUsed
<1>a. /\ UNCHANGED <<conn, orphaned, toHost, host, socks, eof>>
      /\ fetches' = IF more THEN (fetches \ {f}) \cup {rest} ELSE fetches \ {f}
  BY <1>1, <1>f DEF FetchAnswers, devVars, pumpVars, guestVars
<1>m. PICK m \in ToDevMsg : toDev' = Append(toDev, m) /\ m.handle = h /\ m.done = ~more /\ m.error = bad
  <2>1. f \in [handle : Handles, conn : Conns, given : Nat] /\ n \in Nat
    BY Bounds DEF TypeOK
  <2>2. Bytes(f.conn, f.given + 1, f.given + n) \in Seq(Byte)
    BY <2>1, BytesType
  <2>3. [handle |-> f.handle, bytes |-> Bytes(f.conn, f.given + 1, f.given + n),
         done |-> ~more, error |-> bad] \in ToDevMsg
    BY <2>1, <2>2 DEF ToDevMsg
  <2> QED BY <1>1, <1>f, <2>3 DEF FetchAnswers
<1>r. rest.handle = h
  <2>1. f \in [handle : Handles, conn : Conns, given : Nat]
    BY DEF TypeOK
  <2> QED BY <1>f, <2>1
<1>e. /\ \A i \in DOMAIN toDev' : (i \in DOMAIN toDev /\ toDev'[i] = toDev[i]) \/ toDev'[i] = m
      /\ \A i \in DOMAIN toDev : i \in DOMAIN toDev' /\ toDev'[i] = toDev[i]
      /\ \A i \in DOMAIN toDev', j \in DOMAIN toDev' : i < j => i \in DOMAIN toDev /\ toDev'[i] = toDev[i]
  <2>1. toDev \in Seq(ToDevMsg)
    BY TypesUsed
  <2> QED BY <1>m, <2>1, AppendElements
<1>2. Over'
  <2>1. bad => m.done
    BY <1>1, <1>m DEF FetchAnswers
  <2>2. ASSUME NEW i \in DOMAIN toDev', toDev'[i].error PROVE toDev'[i].done
    <3>1. CASE toDev'[i] = m
      BY <1>m, <2>1, <2>2, <3>1
    <3>2. CASE i \in DOMAIN toDev /\ toDev'[i] = toDev[i]
      BY <2>2, <3>2 DEF EndInv, Over
    <3> QED BY <1>e, <3>1, <3>2
  <2> QED BY <1>a, <2>2 DEF EndInv, Over
<1>3. ASSUME NEW g \in Handles, g \notin orphaned
      PROVE  OnlyAsked(g)' /\ OneOpen(g)' /\ OneEnd(g)'
  <2>1. OnlyAsked(g) /\ OneOpen(g) /\ OneEnd(g)
    BY <1>3 DEF EndInv, OneAnswer
  <2>2. OneOpen(g)'
    BY <1>a, <2>1 DEF OneOpen
  <2>3. CASE g # h
    <3>1. \A x : x.handle = g => (x \in fetches' <=> x \in fetches)
      BY <1>a, <1>f, <1>r, <2>3
    <3>2. \A i \in DOMAIN toDev' : toDev'[i].handle = g => i \in DOMAIN toDev /\ toDev'[i] = toDev[i]
      BY <1>e, <1>m, <2>3
    <3>3. (Fetching(g)' <=> Fetching(g)) /\ (Coming(g)' => Coming(g)) /\ (Ending(g)' => Ending(g))
      BY <3>1, <3>2 DEF Fetching, Coming, Ending
    <3>4. OnlyAsked(g)'
      BY <1>a, <2>1, <3>3 DEF OnlyAsked, Asked
    <3>5. OneEnd(g)'
      BY <1>a, <2>1, <3>1, <3>2, <3>3 DEF OneEnd
    <3> QED BY <2>2, <3>4, <3>5
  <2>4. CASE g = h
    <3>1. Fetching(h)
      BY <1>f DEF Fetching
    <3>2. Asked(h) /\ ~Ending(h) /\ ~socks[h].done /\ \A x \in fetches : x.handle = h => x = f
      BY <1>f, <2>1, <2>4, <3>1 DEF OnlyAsked, OneEnd
    <3>3. \A x \in fetches' : x.handle = h => x = rest /\ more
      BY <1>a, <3>2
    <3>4. OnlyAsked(h)'
      BY <1>a, <3>2 DEF OnlyAsked, Asked
    <3>5. ~Ending(h)' \/ ~more
      <4> SUFFICES ASSUME more, NEW i \in DOMAIN toDev', toDev'[i].handle = h, toDev'[i].done PROVE FALSE
        BY DEF Ending
      <4> QED BY <1>e, <1>m, <3>2 DEF Ending
    <3>6. \A i \in DOMAIN toDev', j \in DOMAIN toDev' :
            i < j /\ toDev'[i].handle = h /\ toDev'[j].handle = h => ~toDev'[i].done
      BY <1>e, <3>2 DEF Ending
    <3>7. OneEnd(h)'
      <4>1. Fetching(h)' => ~Ending(h)' /\ ~socks'[h].done
        BY <1>a, <3>2, <3>3, <3>5 DEF Fetching
      <4>2. \A x, y \in fetches' : x.handle = h /\ y.handle = h => x = y
        BY <3>3
      <4>3. ~socks'[h].done
        BY <1>a, <3>2
      <4> QED BY <3>6, <4>1, <4>2, <4>3 DEF OneEnd
    <3> QED BY <2>2, <2>4, <3>4, <3>7
  <2> QED BY <2>3, <2>4
<1> QED BY <1>a, <1>2, <1>3 DEF EndInv, OneAnswer

\* The message that ends a stream finds no other behind it and no fetch.
LEMMA DevKeepsEnd ==
  ASSUME TypeOK, EndInv, DevTake
  PROVE  EndInv'
<1>a. UNCHANGED <<conn, orphaned, toHost, host, fetches, eof>> /\ toDev # <<>> /\ toDev' = Tail(toDev)
  BY DEF DevTake, hostVars, pumpVars, guestVars
<1>k. PICK m \in ToDevMsg, h \in Handles : m = Head(toDev) /\ h = m.handle
  <2>1. Head(toDev) \in ToDevMsg
    BY <1>a, HeadTailProperties, TypesUsed
  <2> QED BY <2>1 DEF ToDevMsg
<1>e. /\ \A i \in DOMAIN toDev' : i \in Nat /\ i >= 1 /\ i + 1 \in DOMAIN toDev /\ toDev'[i] = toDev[i + 1]
      /\ 1 \in DOMAIN toDev /\ toDev[1] = m
  <2>1. toDev \in Seq(ToDevMsg)
    BY TypesUsed
  <2>2. toDev' \in Seq(ToDevMsg)
    BY <1>a, <2>1, HeadTailProperties
  <2>3. \A i \in DOMAIN toDev' : i \in Nat /\ i >= 1
    BY <2>2
  <2> QED BY <1>a, <1>k, <2>1, <2>3, TailElements
<1>1. \A g \in Handles : g # h => socks'[g] = socks[g]
  BY <1>k, TypesUsed DEF DevTake, Addressee
<1>2. Sound(socks[h])' /\ (socks'[h].done => socks[h].done \/ m.done)
  <2>1. m.bytes \in Seq(Byte) /\ m.done \in BOOLEAN /\ socks[h] \in Handle(Targets, Byte) /\ Sound(socks[h])
    BY TypesUsed DEF ToDevMsg, EndInv, Over
  <2>2. m.error => m.done
    BY <1>e DEF EndInv, Over
  <2>3. socks'[h] = IF m.error THEN Fail(socks[h]) ELSE Arrive(socks[h], m.bytes, m.done)
    BY <1>k, TypesUsed DEF DevTake, Addressee
  <2>4. CASE m.error
    <3>1. Sound(Fail(socks[h]))
      BY <2>1, HostsEnd
    <3> QED BY <2>2, <2>3, <2>4, <3>1
  <2>5. CASE ~m.error
    <3>1. Sound(Arrive(socks[h], m.bytes, m.done)) /\ (Arrive(socks[h], m.bytes, m.done).done => socks[h].done \/ m.done)
      BY <2>1, HostsEnd
    <3> QED BY <2>3, <2>5, <3>1
  <2> QED BY <2>4, <2>5
<1>3. ASSUME NEW g \in Handles, g \notin orphaned
      PROVE  OnlyAsked(g) /\ OneOpen(g) /\ OneEnd(g)
  BY <1>3 DEF EndInv, OneAnswer
<1>4. Coming(h) /\ (m.done => Ending(h))
  BY <1>e, <1>k DEF Coming, Ending
<1>5. ASSUME NEW g \in Handles
      PROVE  /\ Coming(g)' => Coming(g)
             /\ Ending(g)' => Ending(g)
             /\ g = h /\ h \notin orphaned /\ m.done => ~Coming(g)' /\ ~Fetching(g)
             /\ \A i \in DOMAIN toDev', j \in DOMAIN toDev' :
                  g \notin orphaned /\ i < j /\ toDev'[i].handle = g /\ toDev'[j].handle = g => ~toDev'[i].done
  <2>1. (Coming(g)' => Coming(g)) /\ (Ending(g)' => Ending(g))
    BY <1>e DEF Coming, Ending
  <2>2. ASSUME g = h, h \notin orphaned, m.done PROVE ~Coming(g)' /\ ~Fetching(g)
    <3>1. ~Fetching(g)
      BY <1>3, <1>4, <2>2 DEF OneEnd
    <3>2. ASSUME NEW i \in DOMAIN toDev', toDev'[i].handle = h PROVE FALSE
      <4>1. i + 1 \in DOMAIN toDev /\ 1 < i + 1 /\ toDev[i + 1].handle = h
        BY <1>e, <3>2
      <4> QED BY <1>3, <1>e, <1>k, <2>2, <4>1 DEF OneEnd
    <3> QED BY <2>2, <3>1, <3>2 DEF Coming
  <2>3. ASSUME g \notin orphaned, NEW i \in DOMAIN toDev', NEW j \in DOMAIN toDev', i < j,
               toDev'[i].handle = g, toDev'[j].handle = g
        PROVE  ~toDev'[i].done
    <3>1. i + 1 \in DOMAIN toDev /\ j + 1 \in DOMAIN toDev /\ i + 1 < j + 1
      BY <1>e, <2>3
    <3> QED BY <1>3, <1>e, <2>3, <3>1 DEF OneEnd
  <2> QED BY <2>1, <2>2, <2>3
<1>6. ASSUME NEW g \in Handles, g \notin orphaned
      PROVE  OnlyAsked(g)' /\ OneOpen(g)' /\ OneEnd(g)'
  <2>1. OneOpen(g)'
    BY <1>3, <1>6, <1>a DEF OneOpen
  <2>2. Fetching(g)' <=> Fetching(g)
    BY <1>a DEF Fetching
  <2>3. socks'[g].done => socks[g].done \/ (g = h /\ m.done)
    BY <1>1, <1>2
  <2>4. OnlyAsked(g)'
    BY <1>3, <1>4, <1>5, <1>6, <1>a, <2>2, <2>3 DEF OnlyAsked, Asked
  <2>5. Fetching(g) => ~socks'[g].done
    BY <1>3, <1>5, <1>6, <2>3 DEF OneEnd
  <2>6. Coming(g)' => ~socks'[g].done
    BY <1>3, <1>5, <1>6, <2>3 DEF OneEnd
  <2>7. OneEnd(g)'
    BY <1>3, <1>5, <1>6, <1>a, <2>2, <2>5, <2>6 DEF OneEnd
  <2> QED BY <2>1, <2>4, <2>7
<1>7. Over'
  <2>1. \A g \in Handles : Sound(socks[g])'
    BY <1>1, <1>2 DEF EndInv, Over
  <2>2. ASSUME NEW g \in Handles, g \notin orphaned, eof[g] PROVE Ended(socks[g])'
    <3>1. Ended(socks[g]) /\ Sound(socks[g])
      BY <2>2 DEF EndInv, Over
    <3>2. socks[g].done
      BY <3>1 DEF Ended, Sound
    <3>3. g # h
      BY <1>3, <1>4, <2>2, <3>2 DEF OneEnd
    <3> QED BY <1>1, <3>1, <3>3
  <2>3. \A i \in DOMAIN toDev' : toDev'[i].error => toDev'[i].done
    BY <1>e DEF EndInv, Over
  <2> QED BY <1>a, <2>1, <2>2, <2>3 DEF Over
<1> QED BY <1>a, <1>6, <1>7 DEF EndInv, OneAnswer

-----------------------------------------------------------------------------
\* Every step of guest, page and adapter keeps EndInv.
LEMMA EndNext == TypeOK /\ StreamInv /\ ReplyInv /\ EndInv /\ [Next]_vars => EndInv'
<1> SUFFICES ASSUME TypeOK, StreamInv, ReplyInv, EndInv, [Next]_vars PROVE EndInv'
  OBVIOUS
<1>1. CASE UNCHANGED vars
  <2>1. UNCHANGED <<conn, orphaned, toDev, toHost, host, fetches, socks, eof>>
    BY <1>1 DEF vars, devVars, hostVars, guestVars
  <2>2. OneAnswer'
    BY <2>1 DEF EndInv, OneAnswer, OnlyAsked, OneOpen, OneEnd, Asked, Fetching, Coming, Ending
  <2> QED BY <2>1, <2>2 DEF EndInv, Over
<1>2. CASE Next
  BY <1>2, ConnectKeepsEnd, SendKeepsEnd, PumpKeepsEnd, CloseKeepsEnd, HostKeepsEnd, FetchKeepsEnd, DevKeepsEnd DEF Next
<1> QED BY <1>1, <1>2

\* A program that is told its stream is complete has read every byte of it: none is
\* left in the adapter, none is on the bus and no fetch is under way, for any number
\* of handles and connections and for an answer in any pieces.
THEOREM EndIsWhole == Spec => []EofMeansWhole
<1>1. Spec => [](TypeOK /\ StreamInv /\ ReplyInv /\ EndInv)
  BY TypeInit, TypeNext, StreamInit, StreamNext, ReplyInit, ReplyNext, EndInit, EndNext, PTL DEF Spec
<1>2. TypeOK /\ StreamInv /\ EndInv => EofMeansWhole
  <2> SUFFICES ASSUME TypeOK, StreamInv, EndInv, NEW h \in Handles, h \notin orphaned, eof[h], socks[h].state # "error"
               PROVE  handed[h] = fed[h] /\ ~Fetching(h) /\ ~Coming(h)
    BY DEF EofMeansWhole, Fetching, Coming
  <2>1. socks[h].done /\ socks[h].rest = <<>>
    BY DEF EndInv, Over, Sound, Ended
  <2>2. ~Fetching(h) /\ ~Coming(h) /\ conn[h] # 0
    BY <2>1 DEF EndInv, OneAnswer, OnlyAsked, OneEnd, Asked
  <2>3. handed[h] \o <<>> = fed[h]
    BY <2>1, <2>2 DEF StreamInv, InOrder
  <2>4. handed[h] \in Seq(Byte \cup {Zero})
    BY DEF TypeOK
  <2> QED BY <2>2, <2>3, <2>4, ConcatEmptySeq
<1> QED BY <1>1, <1>2, PTL
=============================================================================
