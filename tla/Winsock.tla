------------------------------- MODULE Winsock -------------------------------
(***************************************************************************)
(* WINSOCK.DLL (guest/winsock/winsock.c): Windows Sockets 1.1 on top of    *)
(* the PV socket.  Every slot of its socket table is a handle of the       *)
(* adapter; a timer looks at the device for the programs that asked for    *)
(* messages; a call that must wait runs the blocking hook in a loop.       *)
(*                                                                         *)
(* Windows 3.11 is cooperative: a call runs to its end before anything     *)
(* else of the guest does, except where it waits.  There, everything else  *)
(* may happen between two turns of the hook -- timers, other tasks, other  *)
(* windows of the same task -- so a waiting call is the value of `blocked' *)
(* and each of its turns a step of its own.  The device sequences inside a *)
(* call are single steps here; PvSock has them word by word.               *)
(*                                                                         *)
(* A byte says only whether it answers the request of the connection that  *)
(* reads it ("own") or of an earlier one on the same handle ("stale").     *)
(* Error codes and addresses are left out.                                 *)
(***************************************************************************)
EXTENDS PvDevice, FiniteSets

CONSTANTS Tasks,         \* programs that use the DLL
          NSlots,        \* MAX_SOCK
          MaxInst,       \* MAX_INST, tasks that may have called WSAStartup
          MaxRefs,       \* bound: WSAStartup calls of a task not yet undone
          RxCap,         \* RXCAP, bytes buffered for a socket
          MaxReply,      \* bound: bytes of a reply
          MaxLen,        \* bound: bytes a program asks recv for
          Habits,        \* how programs use sockets: the styles there are, out of
                         \* "async" and "blocking", what WSAAsyncSelect is asked
                         \* for, and the messages that fit a task's queue
          ContractHost,  \* TRUE if the page may also report an error
          NoCall         \* nobody waits

ASSUME WinsockAssumption ==
  /\ {NSlots, MaxInst, MaxRefs, RxCap, MaxReply, MaxLen} \subseteq Nat \ {0}
  /\ Tasks # {}
  /\ \A b \in Habits : b.styles \subseteq {"async", "blocking"} /\ b.queue \in Nat \ {0}
  /\ ContractHost \in BOOLEAN
  /\ NoTarget # "peer" /\ Zero \notin {"own", "stale"}

Slots  == 1 .. NSlots
Byte   == {"own", "stale"}
Events == {"connect", "write", "read", "close"}

ASSUME EventSetsAssumption == \A b \in Habits : b.events \subseteq SUBSET Events

VARIABLES
  sk,       \* the DLL: the socket table
  refs,     \* the DLL: inst[].refs of each task; a timer runs while it is > 0
  blocked,  \* the DLL: the call that waits, [task, slot, call]; g_blocking
  cancel,   \* the DLL: g_cancel
  queue,    \* Windows: each task's posted messages, [slot, event]
  lost,     \* history: tasks whose queue had no room for a message
  dev,      \* adapter: the handle of each slot
  page,     \* page: the exchange of each handle, "none", "open" or "sent"
  fetches,  \* page: fetches under way, [slot, own]
  orphaned, \* history: slots closed with a fetch under way
  habit     \* the habit of the programs, which is one for good

vars == <<sk, refs, blocked, cancel, queue, lost, dev, page, fetches, orphaned>>
winVars == <<refs, blocked, cancel>>
msgVars == <<queue, lost>>
hostVars == <<page, fetches, orphaned>>

Free ==
  [state |-> "free", owner |-> CHOOSE t \in Tasks : TRUE, nonblock |-> FALSE,
   rdShut |-> FALSE, wrShut |-> FALSE, peerClosed |-> FALSE, failed |-> FALSE,
   async |-> FALSE, events |-> {}, posted |-> {}, rx |-> <<>>]

Init ==
  /\ sk = [i \in Slots |-> Free]
  /\ refs = [t \in Tasks |-> 0]
  /\ blocked = NoCall /\ cancel = FALSE
  /\ queue = [t \in Tasks |-> <<>>] /\ lost = {}
  /\ dev = [i \in Slots |-> Blank]
  /\ page = [i \in Slots |-> "none"]
  /\ fetches = {}
  /\ orphaned = {}
  /\ habit \in Habits

-----------------------------------------------------------------------------
(* What a look at the device and a notification do to a socket.            *)

\* pump: everything the device has ready, as far as there is room for it, and
\* then another look at STATE.
PumpRoomAll(s) == RxCap            \* mutant: what is buffered is not counted
PumpRoomLess(s) == RxCap - 1 - Len(s.rx)  \* mutant: the last byte is never used
PumpRoom(s) == RxCap - Len(s.rx)

Looked(s, k) ==
  CASE k.state = "error"  -> [s EXCEPT !.failed = TRUE, !.peerClosed = TRUE]
    [] k.state = "closed" -> [s EXCEPT !.peerClosed = TRUE]
    [] OTHER              -> s

Pumping(s, k) == s.state \in {"connect", "open"} /\ k.state = "data" /\ PumpRoom(s) > 0
PumpedDev(s, k) == IF Pumping(s, k) THEN TakeBlock(k, PumpRoom(s)) ELSE k
PumpedSock(s, k) ==
  IF s.state \notin {"connect", "open"} THEN s
  ELSE IF Pumping(s, k)
       THEN Looked([s EXCEPT !.rx = @ \o StagedBytes(k, PumpRoom(s))], PumpedDev(s, k))
       ELSE Looked(s, k)

\* notify: the events that have become true of a socket, and what becomes of
\* its state.
Connected(s) == s.state = "connect" /\ ~s.failed
DueEventsEagerClose(s) ==  \* mutant: FD_CLOSE does not wait for the reader
  CASE s.state \in {"connect", "open"} ->
         (IF s.state = "connect" THEN {"connect", "write"} ELSE {})
         \cup (IF s.rx # <<>> THEN {"read"} ELSE {})
         \cup (IF s.peerClosed THEN {"close"} ELSE {})
    [] OTHER -> {}
DueEvents(s) ==
  CASE s.state = "connect" /\ s.failed -> {"connect"}
    [] s.state \in {"connect", "open"} ->
         (IF Connected(s) THEN {"connect", "write"} ELSE {})
         \cup (IF s.rx # <<>> THEN {"read"} ELSE {})
         \cup (IF s.failed \/ (s.peerClosed /\ s.rx = <<>>) THEN {"close"} ELSE {})
    [] OTHER -> {}

\* post: a message for each of them the program asked for and has not been
\* sent yet.  The latch is set whatever PostMessage answers.
PostedEvents(s) == IF s.async THEN (DueEvents(s) \cap s.events) \ s.posted ELSE {}

Notified(s) ==
  [s EXCEPT !.state = CASE Connected(s) -> "open"
                        [] s.state = "connect" /\ s.failed -> "dead"
                        [] OTHER -> @,
            !.posted = @ \cup PostedEvents(s)]

\* Their messages, in the order notify posts them.
InOrder[events \in SUBSET Events] ==
  LET If(e) == IF e \in events THEN <<e>> ELSE <<>>
  IN  If("connect") \o If("write") \o If("read") \o If("close")
MessagesFirstOnly(i, s) ==  \* mutant: one message at a time
  LET es == InOrder[PostedEvents(s)]
  IN  [j \in 1 .. Least(1, Len(es)) |-> [slot |-> i, event |-> es[j]]]
Messages(i, s) ==
  LET es == InOrder[PostedEvents(s)]
  IN  [j \in DOMAIN es |-> [slot |-> i, event |-> es[j]]]

\* PostMessage: what does not fit the queue is gone.
Enqueue(t, ms) ==
  LET all == queue[t] \o ms
  IN  /\ queue' = [queue EXCEPT ![t] = SubSeq(all, 1, Least(habit.queue, Len(all)))]
      /\ lost' = IF Len(all) > habit.queue THEN lost \cup {t} ELSE lost

-----------------------------------------------------------------------------
(* Sockets come and go.                                                    *)

\* NO_REENTRY: what may wait refuses while anybody waits.
NoReentry == blocked = NoCall

Used(i) == sk[i].state # "free"

Startup(t) ==
  /\ refs[t] < MaxRefs
  /\ refs[t] = 0 => Cardinality({u \in Tasks : refs[u] > 0}) < MaxInst
  /\ refs' = [refs EXCEPT ![t] = @ + 1]
  /\ UNCHANGED <<sk, blocked, cancel, msgVars, dev, hostVars>>

\* dev_close of every slot in S.  The buffer goes, its indices stay.
CloseSlots(S) ==
  LET opened == {i \in S : sk[i].state \in {"connect", "open", "dead"}}
      late   == {f.slot : f \in {f \in fetches : f.own}} \cap opened
  IN  /\ sk' = [i \in Slots |-> IF i \in S THEN [sk[i] EXCEPT !.state = "free"] ELSE sk[i]]
      /\ dev' = [i \in Slots |-> IF i \in opened THEN CloseCmd(dev[i]) ELSE dev[i]]
      /\ page' = [i \in Slots |-> IF i \in opened THEN "none" ELSE page[i]]
      /\ fetches' = {[f EXCEPT !.own = @ /\ f.slot \notin opened] : f \in fetches}
      /\ orphaned' = orphaned \cup late

\* WSACleanup: the last one of a task closes all its sockets.  It does not ask
\* whether somebody waits on one of them.
Cleanup(t) ==
  /\ refs[t] > 0
  /\ refs' = [refs EXCEPT ![t] = @ - 1]
  /\ CloseSlots(IF refs[t] = 1 THEN {i \in Slots : Used(i) /\ sk[i].owner = t} ELSE {})
  /\ UNCHANGED <<blocked, cancel, msgVars>>

\* socket(): the first free slot, everything in it cleared.
Socket(t) ==
  /\ NoReentry /\ refs[t] > 0
  /\ \E i \in Slots :
       /\ ~Used(i) /\ \A j \in 1 .. i - 1 : Used(j)
       /\ sk' = [sk EXCEPT ![i] = [Free EXCEPT !.state = "unbound", !.owner = t]]
  /\ UNCHANGED <<winVars, msgVars, dev, hostVars>>

CloseSocketAnytime(i) ==  \* mutant: does not ask whether anybody waits
  /\ Used(i)
  /\ CloseSlots({i})
  /\ UNCHANGED <<winVars, msgVars>>
CloseSocket(i) ==
  /\ NoReentry /\ Used(i)
  /\ CloseSlots({i})
  /\ UNCHANGED <<winVars, msgVars>>

\* shutdown(): a promise the DLL remembers, nothing the device knows of.
Shutdown(i, rd, wr) ==
  /\ NoReentry /\ Used(i) /\ (rd \/ wr)
  /\ sk' = [sk EXCEPT ![i].rdShut = @ \/ rd, ![i].wrShut = @ \/ wr]
  /\ UNCHANGED <<winVars, msgVars, dev, hostVars>>

\* connect(): the device answers the open at once, but a program that asked
\* for messages, or not to wait, hears of it from the next tick.
ConnectSock(i) ==
  /\ NoReentry /\ sk[i].state = "unbound"
  /\ dev' = [dev EXCEPT ![i] = OpenCmd(SetTarget(@, "peer"))]
  /\ page' = [page EXCEPT ![i] = "open"]
  /\ sk' = [sk EXCEPT ![i].rx = <<>>,
                      ![i].state = IF sk[i].nonblock \/ sk[i].async THEN "connect" ELSE "open"]
  /\ UNCHANGED <<winVars, msgVars, fetches, orphaned>>

\* ioctlsocket(FIONBIO).
SetBlocking(i, b) ==
  /\ Used(i)
  /\ sk' = [sk EXCEPT ![i].nonblock = b]
  /\ UNCHANGED <<winVars, msgVars, dev, hostVars>>

\* ioctlsocket(FIONREAD).
AskReadable(i) ==
  /\ Used(i)
  /\ sk' = [sk EXCEPT ![i] = PumpedSock(@, dev[i])]
  /\ dev' = [dev EXCEPT ![i] = PumpedDev(sk[i], @)]
  /\ UNCHANGED <<winVars, msgVars, hostVars>>

\* WSAAsyncSelect: the latches are reset, and what is already true is posted.
AsyncSelect(i, events) ==
  LET s == [sk[i] EXCEPT !.async = TRUE, !.events = events, !.posted = {},
                         !.nonblock = @ \/ events # {}]
  IN  /\ Used(i)
      /\ IF events = {}
         THEN sk' = [sk EXCEPT ![i] = s] /\ UNCHANGED msgVars
         ELSE sk' = [sk EXCEPT ![i] = Notified(s)] /\ Enqueue(s.owner, Messages(i, s))
      /\ UNCHANGED <<winVars, dev, hostVars>>

-----------------------------------------------------------------------------
(* Sending and receiving.                                                  *)

\* The first send or recv takes a connection that nobody has reported yet as
\* made.
Reached(s) == IF s.state = "connect" THEN [s EXCEPT !.state = "open"] ELSE s

\* send() of a whole request: the page fetches on the first of a connection
\* and ignores any later one.
SendRequest(i) ==
  /\ NoReentry /\ sk[i].state \in {"connect", "open"}
  /\ sk' = [sk EXCEPT ![i] = Reached(@)]
  /\ IF sk[i].wrShut \/ sk[i].failed \/ page[i] = "sent"
     THEN UNCHANGED <<page, fetches>>
     ELSE /\ page' = [page EXCEPT ![i] = "sent"]
          /\ fetches' = fetches \cup {[slot |-> i, own |-> TRUE]}
  /\ UNCHANGED <<winVars, msgVars, dev, orphaned>>

\* The end of recv: the caller gets what there is, as much as it asked for,
\* and the program hears of the rest again.
TakeKeepingLatch(s, len) ==  \* mutant: FD_READ is not re-armed
  [s EXCEPT !.rx = Drop(@, Least(len, Len(@)))]
Take(s, len) ==
  [s EXCEPT !.rx = Drop(@, Least(len, Len(@))), !.posted = @ \ {"read"}]

\* recv() on a socket of its own, while nobody waits: take what there is,
\* report the end or that there is nothing, or wait.
Receiving(t, i) ==
  NoReentry /\ sk[i].owner = t /\ sk[i].state \in {"connect", "open"} /\ ~sk[i].rdShut

Receive(t, i, len, peek) ==
  LET s == PumpedSock(Reached(sk[i]), dev[i])
  IN  /\ Receiving(t, i)
      /\ sk' = [sk EXCEPT ![i] = IF s.rx # <<>> /\ ~peek THEN Take(s, len) ELSE s]
      /\ dev' = [dev EXCEPT ![i] = PumpedDev(Reached(sk[i]), @)]
      /\ IF s.rx = <<>> /\ ~s.failed /\ ~s.peerClosed /\ ~s.nonblock
         THEN blocked' = [task |-> t, slot |-> i, call |-> "recv"] /\ cancel' = FALSE
         ELSE UNCHANGED <<blocked, cancel>>

Recv(i, len, peek) ==
  /\ \/ Receive(sk[i].owner, i, len, peek)
     \/ /\ NoReentry /\ sk[i].state \in {"connect", "open"} /\ sk[i].rdShut
        /\ sk' = [sk EXCEPT ![i] = Reached(@)]
        /\ UNCHANGED <<dev, blocked, cancel>>
  /\ UNCHANGED <<refs, msgVars, hostVars>>

\* What select makes of a socket in its read, write or except set: what its
\* look at the device does to it, and whether it is ready.
SelectSock(s, k, set) ==
  LET p == PumpedSock(s, k)
  IN  IF set # "write" THEN p
      ELSE IF s.state # "connect" THEN s
      ELSE IF p.failed THEN p ELSE Reached(p)
SelectDev(s, k, set) == IF set = "write" /\ s.state # "connect" THEN k ELSE PumpedDev(s, k)
Ready(s, set) ==
  CASE set = "read"  -> s.state = "dead" \/ s.rx # <<>> \/ s.peerClosed \/ s.failed
    [] set = "write" -> s.state = "open" /\ ~s.failed /\ ~s.wrShut
    [] OTHER         -> s.failed

SelectScan(i, set) ==
  /\ sk' = [sk EXCEPT ![i] = IF Used(i) THEN SelectSock(@, dev[i], set) ELSE @]
  /\ dev' = [dev EXCEPT ![i] = IF Used(i) THEN SelectDev(sk[i], @, set) ELSE @]

\* select() on one socket of one set, with no timeout, a zero one or another.
Select(i, set, wait) ==
  /\ NoReentry /\ Used(i)
  /\ SelectScan(i, set)
  /\ IF Ready(sk'[i], set) \/ ~wait THEN UNCHANGED <<blocked, cancel>>
     ELSE /\ blocked' = [task |-> sk[i].owner, slot |-> i, call |-> set]
          /\ cancel' = FALSE
  /\ UNCHANGED <<refs, msgVars, hostVars>>

\* WSACancelBlockingCall, from anybody.
CancelBlockingCall ==
  /\ blocked # NoCall
  /\ cancel' = TRUE
  /\ UNCHANGED <<sk, refs, blocked, msgVars, dev, hostVars>>

BlockEnd == blocked' = NoCall /\ cancel' = FALSE

\* The hook has run and the wait was cancelled.
TurnCancelled ==
  /\ blocked # NoCall /\ cancel
  /\ BlockEnd
  /\ UNCHANGED <<sk, refs, msgVars, dev, hostVars>>

\* The hook has run and recv looks again.  With something to give or to report
\* it is done; a slot that is free by now is not looked at (pump), and what its
\* flags said last is what recv goes by.
TurnRecv(len) ==
  /\ blocked # NoCall /\ ~cancel /\ blocked.call = "recv"
  /\ LET i == blocked.slot
         s == PumpedSock(sk[i], dev[i])
     IN  /\ dev' = [dev EXCEPT ![i] = PumpedDev(sk[i], @)]
         /\ IF s.rx # <<>> THEN sk' = [sk EXCEPT ![i] = Take(s, len)] ELSE sk' = [sk EXCEPT ![i] = s]
         /\ IF s.rx # <<>> \/ s.peerClosed \/ s.failed THEN BlockEnd
            ELSE UNCHANGED <<blocked, cancel>>
  /\ UNCHANGED <<refs, msgVars, hostVars>>

\* The hook has run and select scans again.
TurnSelect(timeout) ==
  /\ blocked # NoCall /\ ~cancel /\ blocked.call # "recv"
  /\ SelectScan(blocked.slot, blocked.call)
  /\ IF timeout \/ (Used(blocked.slot) /\ Ready(sk'[blocked.slot], blocked.call)) THEN BlockEnd
     ELSE UNCHANGED <<blocked, cancel>>
  /\ UNCHANGED <<refs, msgVars, hostVars>>

-----------------------------------------------------------------------------
(* Windows: timers and messages.                                           *)

\* PvTick: every socket of the task, in the order of the table, and what each
\* has to say.
Mine(t, i) == Used(i) /\ sk[i].owner = t
Seen(i) == PumpedSock(sk[i], dev[i])
Joined(ms) ==  \* ms[1] \o ms[2] \o ... \o ms[NSlots]
  LET Sent[i \in 0 .. NSlots] == IF i = 0 THEN <<>> ELSE Sent[i - 1] \o ms[i]
  IN  Sent[NSlots]
TickMessages(t) ==
  Joined([i \in Slots |-> IF Mine(t, i) THEN Messages(i, Seen(i)) ELSE <<>>])

Tick(t) ==
  /\ refs[t] > 0
  /\ sk' = [i \in Slots |-> IF Mine(t, i) THEN Notified(Seen(i)) ELSE sk[i]]
  /\ dev' = [i \in Slots |-> IF Mine(t, i) THEN PumpedDev(sk[i], dev[i]) ELSE dev[i]]
  /\ Enqueue(t, TickMessages(t))
  /\ UNCHANGED <<winVars, hostVars>>

\* A program takes its next message, in its own loop or in the hook of a call
\* that waits.  To FD_READ it answers with one recv, which fails if anybody
\* waits, or if the socket is not what it was.
OnMessage(t, len) ==
  /\ queue[t] # <<>>
  /\ queue' = [queue EXCEPT ![t] = Tail(@)]
  /\ LET m == Head(queue[t])
         i == m.slot
     IN  IF m.event = "read" /\ Receiving(t, i)
         THEN Receive(t, i, len, FALSE)
         ELSE UNCHANGED <<sk, dev, blocked, cancel>>
  /\ UNCHANGED <<refs, lost, hostVars>>

-----------------------------------------------------------------------------
(* The page, by way of the adapter.                                        *)

Answer(f, n) ==
  /\ fetches' = fetches \ {f}
  /\ dev' = [dev EXCEPT ![f.slot] =
               Arrive(@, [x \in 1 .. n |-> IF f.own THEN "own" ELSE "stale"], TRUE)]
  /\ UNCHANGED <<sk, winVars, msgVars, page, orphaned>>

AnswerError(f) ==
  /\ ContractHost
  /\ fetches' = fetches \ {f}
  /\ dev' = [dev EXCEPT ![f.slot] = Fail(@)]
  /\ UNCHANGED <<sk, winVars, msgVars, page, orphaned>>

-----------------------------------------------------------------------------
Lens == 1 .. MaxLen

\* A program of the async style asks for messages before it connects and never
\* makes a call that waits.
MayConnect(i) == sk[i].async \/ "blocking" \in habit.styles

ApiCall(i) ==
  \/ CloseSocket(i)
  \/ \E rd, wr \in BOOLEAN : Shutdown(i, rd, wr)
  \/ MayConnect(i) /\ ConnectSock(i)
  \/ "blocking" \in habit.styles /\ \E b \in BOOLEAN : SetBlocking(i, b)
  \/ AskReadable(i)
  \/ "async" \in habit.styles /\ \E ev \in habit.events : AsyncSelect(i, ev)
  \/ SendRequest(i)
  \/ \E len \in Lens, peek \in BOOLEAN : Recv(i, len, peek)
  \/ \E set \in {"read", "write", "except"}, wait \in BOOLEAN :
       (wait => "blocking" \in habit.styles) /\ Select(i, set, wait)

Turn == TurnCancelled \/ (\E len \in Lens : TurnRecv(len)) \/ (\E timeout \in BOOLEAN : TurnSelect(timeout))
TakeMessage(t) == \E len \in Lens : OnMessage(t, len)
PageAnswers == \E f \in fetches : AnswerError(f) \/ (\E n \in 1 .. MaxReply : Answer(f, n))

Next ==
  \/ \E t \in Tasks : Startup(t) \/ Cleanup(t) \/ Socket(t) \/ Tick(t) \/ TakeMessage(t)
  \/ \E i \in Slots : ApiCall(i)
  \/ CancelBlockingCall
  \/ Turn
  \/ PageAnswers

Spec == Init /\ [][Next /\ UNCHANGED habit]_<<vars, habit>>

\* Timers tick, a program goes round its message loop, a hook comes back, the
\* page answers in the end.
Fairness ==
  /\ \A t \in Tasks : WF_vars(Tick(t)) /\ WF_vars(TakeMessage(t))
  /\ WF_vars(Turn) /\ WF_vars(PageAnswers)

FairSpec == Spec /\ Fairness

-----------------------------------------------------------------------------
SockRec ==
  [state : {"free", "unbound", "connect", "open", "dead"}, owner : Tasks,
   nonblock : BOOLEAN, rdShut : BOOLEAN, wrShut : BOOLEAN, peerClosed : BOOLEAN,
   failed : BOOLEAN, async : BOOLEAN, events : SUBSET Events, posted : SUBSET Events,
   rx : Seq(Byte)]
Call == [task : Tasks, slot : Slots, call : {"recv", "read", "write", "except"}]

\* Every variable has its type, and no buffer and no queue holds more than it
\* has room for.
TypeOK ==
  /\ sk \in [Slots -> SockRec] /\ \A i \in Slots : Len(sk[i].rx) <= RxCap
  /\ refs \in [Tasks -> 0 .. MaxRefs]
  /\ blocked \in Call \cup {NoCall} /\ cancel \in BOOLEAN
  /\ queue \in [Tasks -> Seq([slot : Slots, event : Events])]
  /\ \A t \in Tasks : Len(queue[t]) <= habit.queue
  /\ lost \subseteq Tasks
  /\ dev \in [Slots -> Handle({"peer"}, Byte)]
  /\ page \in [Slots -> {"none", "open", "sent"}]
  /\ fetches \subseteq [slot : Slots, own : BOOLEAN]
  /\ orphaned \subseteq Slots /\ habit \in Habits

Live(i) == sk[i].state \in {"connect", "open"}

\* A socket that reports the end of its stream -- to recv, to select or in an
\* FD_CLOSE -- has been given everything: the device holds nothing more for
\* it, no answer of its own is on its way, and FD_CLOSE comes only when the
\* program has read it all (pump and notify).
EndMeansDelivered ==
  \A i \in Slots \ orphaned : Live(i) /\ ~sk[i].failed =>
    /\ sk[i].peerClosed => dev[i].rest = <<>> /\ \A f \in fetches : f.slot # i
    /\ "close" \in sk[i].posted => sk[i].peerClosed /\ sk[i].rx = <<>>

\* The FD_READ latch is never left set on an empty buffer, so whatever comes
\* next is announced (post, and the end of recv).
LatchMeansData ==
  \A i \in Slots : Live(i) /\ "read" \in sk[i].posted => sk[i].rx # <<>>

WantsReads(i) ==
  /\ sk[i].state = "open" /\ sk[i].async /\ "read" \in sk[i].events
  /\ ~sk[i].rdShut /\ refs[sk[i].owner] > 0
ReadQueued(i) == \E j \in DOMAIN queue[sk[i].owner] :
                   queue[sk[i].owner][j] = [slot |-> i, event |-> "read"]

\* Programs that use messages alone: whoever calls WSAAsyncSelect asks for some.
MessagesOnly == habit.styles = {"async"} /\ {} \notin habit.events

\* Where they do and no queue has overflowed, a set latch stands for a message
\* that is still to be answered.
LatchMeansMessage ==
  MessagesOnly => \A i \in Slots : WantsReads(i) /\ "read" \in sk[i].posted /\ sk[i].owner \notin lost
                    => ReadQueued(i)

\* While a call waits on a socket nobody takes the socket away, but for the
\* last WSACleanup of its task.
WaitedOnIsKept ==
  [][\A i \in Slots : blocked # NoCall /\ blocked.slot = i /\ Used(i) /\ ~Used(i)'
       => refs[sk[i].owner] = 1 /\ refs'[sk[i].owner] = 0]_vars

\* A program that waits for an answer it has asked for is not left waiting.
WaitEnds ==
  \A i \in Slots :
    (blocked # NoCall /\ blocked.slot = i /\ blocked.call \in {"recv", "read"}
       /\ Live(i) /\ page[i] = "sent")
    ~> (blocked = NoCall \/ ~Live(i))

\* What the device has for a program that asked for FD_READ is read in the
\* end, where programs use messages alone, unless the program gives the socket up or its queue overflows.
AsyncReads ==
  \A i \in Slots :
    (MessagesOnly /\ WantsReads(i) /\ dev[i].rest # <<>>)
    ~> (~WantsReads(i) \/ (dev[i].rest = <<>> /\ sk[i].rx = <<>>) \/ sk[i].owner \in lost)

\* Bytes in the buffer are announced, and announced again for as long as some
\* are left ("whatever is left, or arrives next, posts FD_READ again on the
\* following tick", recv); unless the program's queue overflows.
Announced(i) ==
  ~WantsReads(i) \/ sk[i].rx = <<>> \/ ReadQueued(i) \/ sk[i].owner \in lost
ReadAnnounced == \A i \in Slots : ~Announced(i) ~> Announced(i)

\* It holds of programs that use messages alone, and fails where calls that wait
\* are made as well: the recv that answers the message meets WSAEINPROGRESS.
MessagesAnnounced == \A i \in Slots : (MessagesOnly /\ ~Announced(i)) ~> Announced(i)

=============================================================================
