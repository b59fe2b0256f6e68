------------------------------- MODULE PvSock -------------------------------
(***************************************************************************)
(* The PV socket end to end: the adapter's eight handles                   *)
(* (v86/src/vga.js), the page's network half behind them (web/app.js) and  *)
(* a guest program in front of them, at the granularity of the register    *)
(* accesses of WINSOCK.DLL's pump (guest/winsock/winsock.c).               *)
(*                                                                         *)
(* The guest is cooperative, so it has one program counter: nothing of its *)
(* own runs between selecting a handle and finishing with it.  Messages    *)
(* between the adapter and the page travel through the emulator's bus, two *)
(* FIFO queues, and are taken between any two guest instructions.  A fetch *)
(* is asynchronous: any number are under way at once, each ends when it    *)
(* likes.                                                                  *)
(*                                                                         *)
(* A byte is [conn, n], the n-th byte of the request or of the reply of    *)
(* the connection conn.  Connections are numbered in the order the guest   *)
(* opens them; the code has no such number, which is the point of          *)
(* OwnReply.                                                               *)
(***************************************************************************)
EXTENDS PvDevice, FiniteSets

CONSTANTS Handles,      \* the adapter's handles
          MaxConns,     \* bound: connections the guest opens in a behaviour
          ReqLen,       \* a request is complete with its ReqLen-th byte
          MaxSend,      \* bound: bytes the guest sends on a connection
          MaxReply,     \* bound: bytes of a reply
          Block,        \* PV_BLOCK: the most the guest sends or reads at once
          ContractHost  \* FALSE: web/app.js, which answers a fetch with one
                        \* message that ends the stream.  TRUE: any host the
                        \* adapter's handler is written for, which answers
                        \* in pieces, or with an error

ASSUME PvSockAssumption ==
  /\ MaxConns \in Nat
  /\ {ReqLen, MaxSend, MaxReply, Block} \subseteq Nat \ {0}
  /\ ContractHost \in BOOLEAN
  /\ ReqLen <= MaxSend
  /\ Block <= OutCap      \* 0xF000 and 0x20000

Conns   == 1 .. MaxConns
Byte    == [conn : Conns, n : Nat]
Targets == [conn : Conns, url : BOOLEAN]

ASSUME NoTargetAssumption == NoTarget \notin Targets

\* The bytes from the i-th to the j-th of connection c.
Bytes(c, i, j) == [x \in 1 .. (j - i + 1) |-> [conn |-> c, n |-> i + x - 1]]

NoHost == [conn |-> 0, req |-> <<>>, sent |-> FALSE]

VARIABLES
  socks,    \* adapter: the handles, pv_socks
  sel,      \* adapter: SEL
  toHost,   \* bus: pv-sock-open, pv-sock-send and pv-sock-close on their way
  toDev,    \* bus: pv-sock-data on its way
  host,     \* page: pvSocks, the exchange of each handle
  fetches,  \* page: pvFetch calls under way, [handle, conn, given]
  pc,       \* guest: where in pump it is: "idle", "read" or "drain"
  cur,      \* guest: the handle it pumps
  left,     \* guest: bytes drain has yet to take
  conn,     \* guest: the connection it has open on each handle, 0 for none
  nsent,    \* guest: bytes it has sent on it
  handed,   \* guest: bytes it has read from it
  eof,      \* guest: pump has seen the end of it
  home,     \* history: the handle of each connection opened so far
  fed,      \* history: bytes the adapter took for it from the page
  orphaned  \* history: handles closed before their answer had arrived

devVars   == <<socks, sel>>
hostVars  == <<host, fetches>>
pumpVars  == <<pc, cur, left>>
guestVars == <<conn, nsent, handed, eof, home>>
vars == <<devVars, toHost, toDev, hostVars, pumpVars, guestVars, fed, orphaned>>

Init ==
  /\ socks = [h \in Handles |-> Blank]
  /\ sel \in Handles
  /\ toHost = <<>> /\ toDev = <<>>
  /\ host = [h \in Handles |-> NoHost]
  /\ fetches = {}
  /\ pc = "idle" /\ cur \in Handles /\ left = 0
  /\ conn = [h \in Handles |-> 0]
  /\ nsent = [h \in Handles |-> 0]
  /\ handed = [h \in Handles |-> <<>>]
  /\ eof = [h \in Handles |-> FALSE]
  /\ home = <<>>
  /\ fed = [h \in Handles |-> <<>>]
  /\ orphaned = {}

-----------------------------------------------------------------------------
(* The guest.                                                              *)

\* connect(), or a program that opens a URL: the target through CHAR, CMD 1,
\* and the page told.
Connect(h, url) ==
  /\ pc = "idle" /\ conn[h] = 0 /\ Len(home) < MaxConns
  /\ LET c == Len(home) + 1
         k == SetTarget(socks[h], [conn |-> c, url |-> url])
     IN /\ socks' = [socks EXCEPT ![h] = OpenCmd(k)]
        /\ toHost' = Append(toHost, [type |-> "open", handle |-> h, target |-> k.target])
        /\ conn' = [conn EXCEPT ![h] = c]
        /\ home' = Append(home, h)
  /\ sel' = h
  /\ nsent' = [nsent EXCEPT ![h] = 0]
  /\ handed' = [handed EXCEPT ![h] = <<>>]
  /\ eof' = [eof EXCEPT ![h] = FALSE]
  /\ fed' = [fed EXCEPT ![h] = <<>>]
  /\ UNCHANGED <<toDev, hostVars, pumpVars, orphaned>>

\* One chunk of send(): the next n bytes through SEND, then CMD 4.
Send(h, n) ==
  /\ pc = "idle" /\ conn[h] # 0 /\ ~eof[h]
  /\ nsent[h] + n <= MaxSend
  /\ LET k == PushWords(socks[h], Bytes(conn[h], nsent[h] + 1, nsent[h] + n))
     IN /\ socks' = [socks EXCEPT ![h] = SendCmd(k, n)]
        /\ toHost' = Append(toHost, [type |-> "send", handle |-> h, bytes |-> SentBytes(k, n)])
        /\ nsent' = [nsent EXCEPT ![h] = @ + n]
  /\ sel' = h
  /\ UNCHANGED <<toDev, hostVars, pumpVars, conn, handed, eof, home, fed, orphaned>>

\* pump looks at STATE: at the end of the stream it records it, with data it
\* goes on to read.
PumpLook(h) ==
  /\ pc = "idle" /\ conn[h] # 0
  /\ sel' = h
  /\ \/ /\ socks[h].state \in {"closed", "error"} /\ ~eof[h]
        /\ eof' = [eof EXCEPT ![h] = TRUE]
        /\ UNCHANGED pumpVars
     \/ /\ socks[h].state = "data"
        /\ pc' = "read" /\ cur' = h
        /\ UNCHANGED <<left, eof>>
  /\ UNCHANGED <<socks, toHost, toDev, hostVars, conn, nsent, handed, home, fed, orphaned>>

\* ... has a block staged, as much of it as its own buffer has room for, and
\* learns from RESULT how much there is to drain.
PumpRead(want) ==
  /\ pc = "read"
  /\ sel' = cur
  /\ LET k == ReadCmd(socks[cur], want)
     IN /\ socks' = [socks EXCEPT ![cur] = k]
        /\ left' = k.result
        /\ pc' = IF k.result = 0 \/ k.result > want THEN "idle" ELSE "drain"
  /\ UNCHANGED <<toHost, toDev, hostVars, cur, guestVars, fed, orphaned>>

\* Mutant of the count: drain goes by whole words.
AfterWordWhole(n) == n - 2
AfterWord(n) == n - Least(2, n)

\* ... and takes the next word of it: both bytes, or the low one if it wants
\* no more.
DrainWord ==
  /\ pc = "drain" /\ left > 0
  /\ LET take == Least(2, left)
     IN /\ handed' = [handed EXCEPT ![cur] = @ \o SubSeq(DataWord(socks[sel]), 1, take)]
        /\ left' = AfterWord(left)
        /\ pc' = IF left = take THEN "idle" ELSE "drain"
  /\ socks' = [socks EXCEPT ![sel] = DataRead(@)]
  /\ UNCHANGED <<sel, toHost, toDev, hostVars, cur, conn, nsent, eof, home, fed, orphaned>>

\* The page has yet to answer what was opened on h, or its answer is on the
\* way.
Unanswered(h) ==
  \/ \E f \in fetches : f.handle = h
  \/ \E i \in DOMAIN toDev : toDev[i].handle = h
  \/ \E i \in DOMAIN toHost : toHost[i].handle = h /\ toHost[i].type # "close"

\* closesocket().
Close(h) ==
  /\ pc = "idle" /\ conn[h] # 0
  /\ sel' = h
  /\ socks' = [socks EXCEPT ![h] = CloseCmd(@)]
  /\ toHost' = Append(toHost, [type |-> "close", handle |-> h])
  /\ conn' = [conn EXCEPT ![h] = 0]
  /\ nsent' = [nsent EXCEPT ![h] = 0]
  /\ handed' = [handed EXCEPT ![h] = <<>>]
  /\ eof' = [eof EXCEPT ![h] = FALSE]
  /\ fed' = [fed EXCEPT ![h] = <<>>]
  /\ orphaned' = IF Unanswered(h) THEN orphaned \cup {h} ELSE orphaned
  /\ UNCHANGED <<toDev, hostVars, pumpVars, home>>

-----------------------------------------------------------------------------
(* The page.                                                               *)

Fetch(h, c) == [handle |-> h, conn |-> c, given |-> 0]

\* The blank line that ends the request is in what has come so far.
Complete(req) == Len(req) >= ReqLen

\* The handlers of pv-sock-open, pv-sock-send and pv-sock-close.  A URL is
\* fetched at once, a host:port when its request is complete.
HostTake ==
  /\ toHost # <<>>
  /\ toHost' = Tail(toHost)
  /\ LET m == Head(toHost)
         h == m.handle
     IN \/ /\ m.type = "open"
           /\ host' = [host EXCEPT ![h] = [conn |-> m.target.conn, req |-> <<>>,
                                           sent |-> m.target.url]]
           /\ fetches' = IF m.target.url THEN fetches \cup {Fetch(h, m.target.conn)}
                         ELSE fetches
        \/ /\ m.type = "send" /\ host[h].conn # 0 /\ ~host[h].sent
           /\ LET req == host[h].req \o m.bytes
              IN /\ host' = [host EXCEPT ![h].req = req, ![h].sent = Complete(req)]
                 /\ fetches' = IF Complete(req) THEN fetches \cup {Fetch(h, host[h].conn)}
                               ELSE fetches
        \/ /\ m.type = "send" /\ (host[h].conn = 0 \/ host[h].sent)
           /\ UNCHANGED hostVars
        \/ /\ m.type = "close"
           /\ host' = [host EXCEPT ![h] = NoHost]
           /\ UNCHANGED fetches
  /\ UNCHANGED <<devVars, toDev, pumpVars, guestVars, fed, orphaned>>

\* A fetch has an answer, n bytes of it, and posts it; `more' and `bad' are
\* out of the question for web/app.js, whose one message is always whole.
FetchAnswers(f, n, more, bad) ==
  /\ more \/ bad \/ n = 0 => ContractHost
  /\ bad => n = 0 /\ ~more
  /\ more => n > 0
  /\ f.given + n <= MaxReply
  /\ toDev' = Append(toDev, [handle |-> f.handle, bytes |-> Bytes(f.conn, f.given + 1, f.given + n),
                             done |-> ~more, error |-> bad])
  /\ fetches' = IF more THEN (fetches \ {f}) \cup {[f EXCEPT !.given = @ + n]}
                ELSE fetches \ {f}
  /\ UNCHANGED <<devVars, toHost, host, pumpVars, guestVars, fed, orphaned>>

\* The handle a message is for; and, as a mutant, the one the guest happens to
\* have selected, on which every register access acts.
AddresseeSelected(m) == sel
Addressee(m) == m.handle

\* The adapter's handler of pv-sock-data.
DevTake ==
  /\ toDev # <<>>
  /\ toDev' = Tail(toDev)
  /\ LET m == Head(toDev)
         h == Addressee(m)
         k == socks[h]
     IN /\ socks' = [socks EXCEPT ![h] =
                       IF m.error THEN Fail(k) ELSE Arrive(k, m.bytes, m.done)]
        /\ fed' = IF k.state = "idle" \/ m.error THEN fed
                  ELSE [fed EXCEPT ![h] = @ \o m.bytes]
  /\ UNCHANGED <<sel, toHost, hostVars, pumpVars, guestVars, orphaned>>

-----------------------------------------------------------------------------
Pump == \/ \E h \in Handles : PumpLook(h)
        \/ \E want \in 1 .. Block : PumpRead(want)
        \/ DrainWord

FetchStep == \E f \in fetches, n \in 0 .. MaxReply, more, bad \in BOOLEAN :
               FetchAnswers(f, n, more, bad)

Next ==
  \/ \E h \in Handles, url \in BOOLEAN : Connect(h, url)
  \/ \E h \in Handles, n \in 1 .. Block : Send(h, n)
  \/ Pump
  \/ \E h \in Handles : Close(h)
  \/ HostTake
  \/ FetchStep
  \/ DevTake

Spec == Init /\ [][Next]_vars

\* The bus delivers and a fetch comes to an end, if only in a 502 of the
\* page's own.  Every tick of WINSOCK.DLL looks at every socket (tick_all), so
\* a handle is looked at again and again however busy the guest is; pump does
\* not leave a block half drained.  Nothing obliges a program to connect, to
\* send or to close.
Fairness ==
  /\ WF_vars(HostTake) /\ WF_vars(FetchStep) /\ WF_vars(DevTake)
  /\ \A h \in Handles : SF_vars(PumpLook(h))
  /\ WF_vars(\E want \in 1 .. Block : PumpRead(want))
  /\ WF_vars(DrainWord)

FairSpec == Spec /\ Fairness

-----------------------------------------------------------------------------
ToHostMsg ==
       [type : {"open"}, handle : Handles, target : Targets]
  \cup [type : {"send"}, handle : Handles, bytes : Seq(Byte \cup {Zero})]
  \cup [type : {"close"}, handle : Handles]
ToDevMsg == [handle : Handles, bytes : Seq(Byte), done : BOOLEAN, error : BOOLEAN]
Exchange == [conn : 0 .. MaxConns, req : Seq(Byte \cup {Zero}), sent : BOOLEAN]

\* Every variable has its type: the registers hold what the code can put in
\* them, the queues hold messages.
TypeOK ==
  /\ socks \in [Handles -> Handle(Targets, Byte)]
  /\ sel \in Handles
  /\ toHost \in Seq(ToHostMsg)
  /\ toDev \in Seq(ToDevMsg)
  /\ host \in [Handles -> Exchange]
  /\ fetches \subseteq [handle : Handles, conn : Conns, given : Nat]
  /\ pc \in {"idle", "read", "drain"} /\ cur \in Handles /\ left \in Nat
  /\ conn \in [Handles -> 0 .. MaxConns]
  /\ nsent \in [Handles -> Nat]
  /\ handed \in [Handles -> Seq(Byte \cup {Zero})]
  /\ eof \in [Handles -> BOOLEAN]
  /\ home \in Seq(Handles)
  /\ fed \in [Handles -> Seq(Byte)]
  /\ orphaned \subseteq Handles

\* What a program has read and what the adapter still holds for it are, in
\* this order, what the page sent: no byte is lost, repeated, moved or made up
\* however the arrival of a message, the staging of a block and the word-wide
\* reads of DATA interleave (pv_sock_read, DATA, pump and drain).
InOrder ==
  \A h \in Handles : conn[h] # 0 => handed[h] \o socks[h].rest = fed[h]

\* While pump drains a block, the handle it staged is still selected and the
\* adapter holds at least the bytes it promised in RESULT: drain never reads
\* the zeroes DATA gives when there is nothing left.
StagedIsThere ==
  pc = "drain" =>
    sel = cur /\ left = socks[cur].block /\ left <= Len(socks[cur].rest)

\* The page's idea of a request is a prefix of what the program sent on that
\* very connection: the pad byte of an odd chunk never gets into it (the
\* comment of pv_sock_send), nor a byte of another connection.
RequestIntact ==
  \A h \in Handles : host[h].conn # 0 =>
    host[h].req = Bytes(host[h].conn, 1, Len(host[h].req))

\* A byte a handle was fed answers the connection that is open on it, unless
\* an earlier connection was closed on the handle before its answer came; and
\* then it is an answer to an earlier connection of this same handle.
NoCrossTalk ==
  \A h \in Handles : \A i \in DOMAIN fed[h] :
    LET c == fed[h][i].conn
    IN  c = conn[h] \/ (h \in orphaned /\ c < conn[h] /\ home[c] = h)

\* A program that is told its stream is complete has read all of it: nothing
\* of the answer is in the adapter, on the bus or still to be fetched.
EofMeansWhole ==
  \A h \in Handles \ orphaned : eof[h] /\ socks[h].state # "error" =>
    /\ handed[h] = fed[h]
    /\ \A f \in fetches : f.handle # h
    /\ \A i \in DOMAIN toDev : toDev[i].handle # h

\* The connection on h has everything it takes for an answer.
Requested(h, c) ==
  /\ conn[h] = c
  /\ host[h].conn = c /\ host[h].sent

\* A complete request is answered to the end, unless the program closes first.
Answered ==
  \A h \in Handles, c \in Conns :
    Requested(h, c) ~> (conn[h] # c \/ eof[h])

\* The comment of pv_sock_open: the reply to what was opened on a handle
\* "becomes this handle's read stream", so a program reads the answer to its
\* own request.
OwnReply ==
  \A h \in Handles : \A i \in DOMAIN fed[h] : fed[h][i].conn = conn[h]
=============================================================================
