--------------------------- MODULE PvCommand_proofs ---------------------------
(***************************************************************************)
(* Proofs about PvCommand, for every number and kind of commands, screen   *)
(* sizes and lengths of strings: type correctness; where PVMON does not    *)
(* leave a command for two seconds, that a command in the register is not  *)
(* overwritten and is carried out with its own argument; and that the      *)
(* whole path is a queue (CommandFifo).                                    *)
(***************************************************************************)
EXTENDS PvCommand, SequenceTheorems, TLAPS

-----------------------------------------------------------------------------
(* Types.                                                                  *)

\* What PVMON has read has the type of the register it was read from, once the
\* index has been found to be what it set; a command it acts on is one; and the
\* page pumps only what there is.
AccessOK ==
  /\ half # "index" => pc \notin {"idle", "act"} /\ index \in {Register, "mouse"}
  /\ half = "check" /\ index = Register =>
       /\ pc \in {"look", "cmd", "arg"} => val \in Command \cup {None}
       /\ pc = "str" => val \in Char \cup {None}
  /\ pc \in {"arg", "ack", "str", "act"} => got.cmd \in Command
PumpOK == page # "idle" => queue # <<>>

TypeInv == TypeOK /\ habit \in Habits /\ AccessOK /\ PumpOK

\* The bounds as numbers, and what a behaviour's habits allow.
LEMMA Bounds ==
  /\ MaxAsked \in Nat /\ MaxLines \in Nat /\ MaxLines >= 1 /\ StrLen \in Nat /\ MaxBlocks \in Nat /\ MaxBlocks >= 1
  /\ \A b \in Habits : /\ b.asked \in Nat /\ b.asked <= MaxAsked /\ b.blocks \in Nat /\ b.blocks <= MaxBlocks
                      /\ b.kinds \subseteq Kinds /\ b.keys \subseteq Keys
                      /\ b.slow \in BOOLEAN /\ b.mouse \in BOOLEAN
<1>1. \A b \in Habits : b.asked \in 1 .. MaxAsked /\ b.blocks \in 1 .. MaxBlocks
  BY PvCommandAssumption
<1> QED BY <1>1, PvCommandAssumption

\* Two scrolls come to lines that a scroll can carry.
LEMMA TogetherType ==
  ASSUME NEW a \in 0 .. MaxLines, NEW b \in 0 .. MaxLines
  PROVE  Together(a, b) \in 0 .. MaxLines
BY Bounds DEF Together, Least

\* The text of a command is a string.
LEMMA TextType ==
  ASSUME NEW c \in Command
  PROVE  Text(c) \in Seq(Char)
<1>1. c.id \in 1 .. MaxAsked
  BY DEF Command
<1>2. [n \in 1 .. StrLen |-> [id |-> c.id, n |-> n]] \in [1 .. StrLen -> Char]
  BY <1>1 DEF Char
<1>3. [n \in 1 .. StrLen |-> [id |-> c.id, n |-> n]] \in Seq(Char)
  BY <1>2, Bounds, IsASeq
<1> QED BY <1>3, EmptySeq DEF Text

\* The first of a queue and the rest of it.
LEMMA HeadTail ==
  ASSUME NEW S, NEW s \in Seq(S), s # <<>>
  PROVE  Head(s) \in S /\ Tail(s) \in Seq(S) /\ Len(Tail(s)) = Len(s) - 1
BY HeadTailProperties

\* What a sequence holds with an element appended to it.
LEMMA AppendElements ==
  ASSUME NEW S, NEW s \in Seq(S), NEW e \in S
  PROVE  \A i \in DOMAIN Append(s, e) :
           (i \in DOMAIN s /\ Append(s, e)[i] = s[i]) \/ Append(s, e)[i] = e
<1>1. Len(s) \in Nat /\ DOMAIN s = 1 .. Len(s) /\ DOMAIN Append(s, e) = 1 .. Len(s) + 1
  BY AppendProperties, LenProperties
<1> SUFFICES ASSUME NEW i \in DOMAIN Append(s, e)
             PROVE  (i \in DOMAIN s /\ Append(s, e)[i] = s[i]) \/ Append(s, e)[i] = e
  OBVIOUS
<1>2. CASE i = Len(s) + 1
  BY <1>2, AppendProperties
<1>3. CASE i \in 1 .. Len(s)
  BY <1>1, <1>3, AppendProperties
<1> QED BY <1>1, <1>2, <1>3

\* The page's queue with the lines of its last command changed.
LEMMA LastType ==
  ASSUME NEW q \in Seq(Command), q # <<>>, NEW n \in 0 .. MaxLines
  PROVE  [q EXCEPT ![Len(q)].lines = n] \in Seq(Command)
<1>1. Len(q) \in DOMAIN q /\ q \in [1 .. Len(q) -> Command]
  BY EmptySeq, LenProperties, SeqDef
<1>2. q[Len(q)] \in Command
  BY <1>1
<1>3. [q[Len(q)] EXCEPT !.lines = n] \in Command
  BY <1>2 DEF Command
<1>4. [q EXCEPT ![Len(q)].lines = n] \in [1 .. Len(q) -> Command]
  BY <1>1, <1>3
<1> QED BY <1>4, IsASeq, LenProperties

LEMMA TypeInit == Init => TypeInv
<1> SUFFICES ASSUME Init PROVE TypeInv
  OBVIOUS
<1>1. Nothing \in [cmd : Command \cup {None}, arg : Command \cup {None}, str : Seq(Char)]
  BY EmptySeq DEF Nothing
<1>2. blocks \in [1 .. MaxBlocks -> [cmd : Command \cup {None}, seq : Nat]]
  BY DEF Init, NewBlock
<1>3. 1 \in 1 .. MaxBlocks /\ asked \in 0 .. MaxAsked
  BY Bounds DEF Init
<1> QED BY <1>1, <1>2, <1>3, EmptySeq DEF Init, TypeInv, TypeOK, AccessOK, PumpOK

\* The page's steps keep the types; only the bridge and the page's own state are
\* in their reach.
LEMMA PageType ==
  ASSUME TypeInv, UNCHANGED habit, Asks \/ Page
  PROVE  TypeInv'
<1>0. AccessOK' /\ habit' \in Habits /\ habit \in Habits
  <2>1. UNCHANGED <<pc, half, index, val, got>>
    BY DEF Asks, Ask, Page, TimerPump, ReadSeq, ReadCmd, TakeBlock, TwoSeconds, guestVars
  <2> QED BY <2>1 DEF TypeInv, AccessOK, Register
<1>t. /\ asked \in Nat /\ queue \in Seq(Command) /\ sent \in Nat /\ toWorker \in Seq(Command)
      /\ toPage \in Seq(1 .. MaxBlocks) /\ PumpOK
      /\ habit.asked \in Nat /\ habit.asked <= MaxAsked /\ MaxAsked \in Nat
      /\ habit.kinds \subseteq Kinds /\ habit.keys \subseteq Keys /\ MaxLines \in Nat
  BY <1>0, Bounds DEF TypeInv, TypeOK
<1>1. CASE Asks
  <2> PICK c \in [id : {asked + 1}, kind : habit.kinds, key : habit.keys, lines : 1 .. MaxLines] : Ask(c)
    BY <1>1 DEF Asks
  <2>1. asked + 1 <= MaxAsked /\ asked' = asked + 1
    BY <1>t DEF Ask
  <2>2. c \in Command /\ c.lines \in 0 .. MaxLines
    BY <1>t, <2>1 DEF Command
  <2>3. queue' \in Seq(Command) /\ (queue # <<>> \/ queue' = Append(queue, c))
    <3>1. CASE queue # <<>> /\ queue' = [queue EXCEPT ![Len(queue)].lines = Together(@, c.lines)]
      <4>1. Last(queue) \in Command
        BY <1>t, <3>1 DEF Last
      <4>2. Together(Last(queue).lines, c.lines) \in 0 .. MaxLines
        BY <2>2, <4>1, TogetherType DEF Command
      <4>3. queue' = [queue EXCEPT ![Len(queue)].lines = Together(Last(queue).lines, c.lines)]
        BY <3>1 DEF Last
      <4> QED BY <1>t, <3>1, <4>2, <4>3, LastType
    <3>2. CASE queue' = Append(queue, c)
      BY <1>t, <2>2, <3>2
    <3>3. CASE queue' = queue /\ queue # <<>>
      BY <1>t, <3>3
    <3> QED BY <3>1, <3>2, <3>3 DEF Ask
  <2>4. page' \in {"idle", "seq"} /\ (page' # "idle" => queue' = Append(queue, c))
    BY DEF Ask
  <2>5. PumpOK'
    BY <1>t, <2>2, <2>4 DEF PumpOK
  <2>6. asked' \in 0 .. MaxAsked
    BY <1>t, <2>1
  <2>7. TypeOK'
    BY <2>6, <2>3, <2>4 DEF Ask, TypeInv, TypeOK, wireVars, workerVars, guestVars
  <2> QED BY <1>0, <2>5, <2>7 DEF TypeInv
<1>2. ASSUME SendHead, queue # <<>>
      PROVE  toWorker' \in Seq(Command) /\ queue' \in Seq(Command) /\ sent' \in Nat /\ overdue' \in BOOLEAN
  <2>1. Head(queue) \in Command /\ Tail(queue) \in Seq(Command)
    BY <1>2, <1>t, HeadTail
  <2>2. Append(toWorker, Head(queue)) \in Seq(Command)
    BY <1>t, <2>1
  <2>3. toWorker' = Append(toWorker, Head(queue)) /\ queue' = Tail(queue) /\ sent' = sent + 1
    BY <1>2 DEF SendHead
  <2>4. overdue' \in BOOLEAN
    BY <1>2 DEF SendHead
  <2> QED BY <1>t, <2>1, <2>2, <2>3, <2>4
<1>3. CASE TimerPump \/ TwoSeconds
  <2>1. TypeOK'
    <3>1. CASE TimerPump
      BY <3>1 DEF TimerPump, TypeInv, TypeOK, wireVars, workerVars, guestVars
    <3>2. CASE TwoSeconds
      BY <3>2 DEF TwoSeconds, TypeInv, TypeOK, wireVars, workerVars, guestVars
    <3> QED BY <1>3, <3>1, <3>2
  <2>2. PumpOK'
    BY <1>3, <1>t DEF TimerPump, TwoSeconds, PumpOK
  <2> QED BY <1>0, <2>1, <2>2 DEF TypeInv
<1>4. CASE TakeBlock
  <2>1. pageBlock' \in 1 .. MaxBlocks /\ toPage' \in Seq(1 .. MaxBlocks)
    BY <1>4, <1>t, HeadTail DEF TakeBlock
  <2>2. TypeOK'
    BY <1>4, <2>1 DEF TakeBlock, TypeInv, TypeOK, workerVars, guestVars
  <2>3. PumpOK'
    BY <1>4, <1>t DEF TakeBlock, PumpOK
  <2> QED BY <1>0, <2>2, <2>3 DEF TypeInv
<1>5. CASE ReadSeq \/ ReadCmd
  <2>1. queue # <<>>
    BY <1>5, <1>t DEF ReadSeq, ReadCmd, PumpOK
  <2>2. /\ toWorker' \in Seq(Command) /\ queue' \in Seq(Command) /\ sent' \in Nat /\ overdue' \in BOOLEAN
        /\ page' \in {"idle", "cmd"} /\ (page' # "idle" => queue' = queue)
    <3>1. CASE Wait
      <4>1. UNCHANGED <<queue, sent, overdue, toWorker>> /\ overdue \in BOOLEAN
        BY <3>1 DEF Wait, TypeInv, TypeOK
      <4> QED BY <1>5, <1>t, <4>1 DEF ReadSeq, ReadCmd
    <3>2. CASE SendHead /\ page' = "idle"
      BY <1>2, <2>1, <3>2
    <3> QED BY <1>5, <3>1, <3>2 DEF ReadSeq, ReadCmd
  <2>3. PumpOK'
    BY <2>1, <2>2 DEF PumpOK
  <2>4. TypeOK'
    BY <1>5, <2>2 DEF ReadSeq, ReadCmd, TypeInv, TypeOK, workerVars, guestVars
  <2> QED BY <1>0, <2>3, <2>4 DEF TypeInv
<1> QED BY <1>1, <1>3, <1>4, <1>5 DEF Page

\* The worker's steps do: what it raises in the adapter is a command with its text.
LEMMA WorkerType ==
  ASSUME TypeInv, UNCHANGED habit, Worker
  PROVE  TypeInv'
<1>0. AccessOK' /\ PumpOK' /\ habit' \in Habits /\ habit \in Habits
  <2>1. UNCHANGED <<pc, half, index, val, got, page, queue>>
    BY DEF Worker, Deliver, Render, Mirror, NewScreen, guestVars, pageVars
  <2> QED BY <2>1 DEF TypeInv, AccessOK, Register, PumpOK
<1>t. /\ toWorker \in Seq(Command) /\ toPage \in Seq(1 .. MaxBlocks) /\ seq \in Nat
      /\ block \in Nat /\ block \in 1 .. MaxBlocks /\ habit.blocks \in Nat /\ habit.blocks <= MaxBlocks /\ MaxBlocks \in Nat
      /\ dev \in [cmd : Command \cup {None}, arg : Command \cup {None}, str : Seq(Char)]
      /\ blocks \in [1 .. MaxBlocks -> [cmd : Command \cup {None}, seq : Nat]]
  BY <1>0, Bounds DEF TypeInv, TypeOK
<1>1. CASE Deliver
  <2>1. Head(toWorker) \in Command /\ toWorker' \in Seq(Command)
    BY <1>1, <1>t, HeadTail DEF Deliver
  <2>2. dev' \in [cmd : Command \cup {None}, arg : Command \cup {None}, str : Seq(Char)]
    <3>1. Text(Head(toWorker)) \in Seq(Char)
      BY <2>1, TextType
    <3> QED BY <1>1, <1>t, <2>1, <3>1 DEF Deliver, Raised
  <2>3. TypeOK'
    BY <1>1, <1>t, <2>1, <2>2 DEF Deliver, TypeInv, TypeOK, pageVars, guestVars
  <2> QED BY <1>0, <2>3 DEF TypeInv
<1>2. CASE Render
  <2>1. TypeOK'
    BY <1>2 DEF Render, TypeInv, TypeOK, pageVars, wireVars, guestVars
  <2> QED BY <1>0, <2>1 DEF TypeInv
<1>3. CASE Mirror
  <2>1. Mirrored(blocks[block], worker) \in [cmd : Command \cup {None}, seq : Nat]
    <3>1. blocks[block] \in [cmd : Command \cup {None}, seq : Nat]
      BY <1>t
    <3> QED BY <1>t, <3>1 DEF Mirrored
  <2>2. blocks' \in [1 .. MaxBlocks -> [cmd : Command \cup {None}, seq : Nat]]
    BY <1>3, <1>t, <2>1 DEF Mirror
  <2>3. TypeOK'
    BY <1>3, <2>2 DEF Mirror, TypeInv, TypeOK, pageVars, wireVars, guestVars
  <2> QED BY <1>0, <2>3 DEF TypeInv
<1>4. CASE NewScreen
  <2>1. block' \in 1 .. MaxBlocks /\ block + 1 \in 1 .. MaxBlocks
    BY <1>4, <1>t DEF NewScreen
  <2>2. toPage' \in Seq(1 .. MaxBlocks)
    BY <1>4, <1>t, <2>1 DEF NewScreen
  <2>3. TypeOK'
    BY <1>4, <2>1, <2>2 DEF NewScreen, TypeInv, TypeOK, pageVars, guestVars
  <2> QED BY <1>0, <2>3 DEF TypeInv
<1> QED BY <1>1, <1>2, <1>3, <1>4 DEF Worker

\* PVMON's do, because it trusts an access only if the index is still its own.
LEMMA GuestType ==
  ASSUME TypeInv, UNCHANGED habit, Guest
  PROVE  TypeInv'
<1> DEFINE GotType == [cmd : Command \cup {None}, arg : Command \cup {None}, str : Seq(Char)]
<1>0. PumpOK' /\ habit' \in Habits /\ UNCHANGED <<pageVars, wireVars, workerVars>>
  <2>1. UNCHANGED <<pageVars, wireVars, workerVars>>
    BY DEF Guest, Access, Poll, SetIndex, AccessData, CheckIndex, Act, MouseInterrupt
  <2> QED BY <2>1 DEF TypeInv, PumpOK, pageVars
<1>t. /\ dev \in GotType /\ got \in GotType /\ val \in Command \cup Char \cup {None}
      /\ pc \in {"idle", "look", "cmd", "arg", "ack", "str", "act"} /\ half \in {"index", "data", "check"}
      /\ index \in {"cmd", "arg", "str", "mouse"}
      /\ performed \in Seq([cmd : Command, arg : Command \cup {None}, str : Seq(Char)])
      /\ AccessOK
  BY DEF TypeInv, TypeOK
<1>a. ASSUME dev' \in GotType, got' \in GotType, val' \in Command \cup Char \cup {None},
             pc' \in {"idle", "look", "cmd", "arg", "ack", "str", "act"}, half' \in {"index", "data", "check"},
             index' \in {"cmd", "arg", "str", "mouse"},
             performed' \in Seq([cmd : Command, arg : Command \cup {None}, str : Seq(Char)]), AccessOK'
      PROVE  TypeInv'
  <2>1. TypeOK'
    BY <1>0, <1>a DEF TypeInv, TypeOK, pageVars, wireVars, workerVars
  <2> QED BY <1>0, <1>a, <2>1 DEF TypeInv
<1>1. CASE Poll
  <2>1. got' \in GotType
    BY <1>1, EmptySeq DEF Poll, Nothing
  <2>2. AccessOK'
    BY <1>1, <1>t DEF Poll, AccessOK
  <2> QED BY <1>1, <1>a, <1>t, <2>1, <2>2 DEF Poll
<1>2. CASE SetIndex
  <2>1. Register \in {"cmd", "arg", "str"} /\ index' = Register /\ Register' = Register
    BY <1>2, <1>t DEF SetIndex, Register
  <2>2. AccessOK'
    BY <1>2, <1>t, <2>1 DEF SetIndex, AccessOK
  <2> QED BY <1>2, <1>a, <1>t, <2>1, <2>2 DEF SetIndex
<1>3. CASE AccessData
  <2>1. /\ dev' \in GotType /\ val' \in Command \cup Char \cup {None}
        /\ index # "mouse" /\ pc \in {"look", "cmd", "arg"} => val' \in Command \cup {None}
        /\ index # "mouse" /\ pc = "str" => val' \in Char \cup {None}
    <3>1. CASE index = "mouse"
      BY <1>3, <1>t, <3>1 DEF AccessData
    <3>2. CASE index # "mouse" /\ pc = "ack"
      BY <1>3, <1>t, <3>2 DEF AccessData
    <3>3. CASE index # "mouse" /\ pc = "str"
      <4>1. dev.str \in Seq(Char)
        BY <1>t
      <4>2. CASE dev.str = <<>>
        BY <1>3, <1>t, <3>3, <4>2 DEF AccessData
      <4>3. CASE dev.str # <<>>
        <5>1. Head(dev.str) \in Char /\ Tail(dev.str) \in Seq(Char)
          BY <4>1, <4>3, HeadTail
        <5>2. val' = Head(dev.str) /\ dev' = [dev EXCEPT !.str = Tail(dev.str)]
          BY <1>3, <3>3, <4>3 DEF AccessData
        <5> QED BY <1>t, <3>3, <5>1, <5>2
      <4> QED BY <4>2, <4>3
    <3>4. CASE index # "mouse" /\ pc = "arg"
      BY <1>3, <1>t, <3>4 DEF AccessData
    <3>5. CASE index # "mouse" /\ pc \notin {"ack", "str", "arg"}
      BY <1>3, <1>t, <3>5 DEF AccessData
    <3> QED BY <3>1, <3>2, <3>3, <3>4, <3>5
  <2>2. UNCHANGED <<index, pc, got, performed>> /\ half' = "check" /\ half = "data" /\ Register' = Register
    BY <1>3 DEF AccessData, Register
  <2>3. Register # "mouse"
    BY <1>t, <2>2 DEF AccessOK, Register
  <2>4. AccessOK'
    BY <1>t, <2>1, <2>2, <2>3 DEF AccessOK
  <2> QED BY <1>a, <1>t, <2>1, <2>2, <2>4
<1>4. CASE CheckIndex
  <2>1. UNCHANGED <<dev, val, index, performed>> /\ half' = "index" /\ half = "check"
    BY <1>4 DEF CheckIndex
  <2>2. CASE index # Register
    <3>1. UNCHANGED <<pc, got>>
      BY <1>4, <2>2 DEF CheckIndex
    <3>2. AccessOK'
      BY <1>t, <2>1, <3>1 DEF AccessOK
    <3> QED BY <1>a, <1>t, <2>1, <3>1, <3>2
  <2>3. CASE index = Register
    <3>1. pc' = Following(val, got) /\ got' = Learnt(val)
      BY <1>4, <2>3 DEF CheckIndex
    <3>2. pc \notin {"idle", "act"} /\ (pc \in {"look", "cmd", "arg"} => val \in Command \cup {None})
          /\ (pc = "str" => val \in Char \cup {None}) /\ (pc \in {"arg", "ack", "str"} => got.cmd \in Command)
      BY <1>t, <2>1, <2>3 DEF AccessOK
    <3>3. pc' \in {"idle", "cmd", "arg", "ack", "str", "act"}
      BY <1>t, <3>1, <3>2 DEF Following
    <3>4. got' \in GotType /\ (pc' \in {"arg", "ack", "str", "act"} => got'.cmd \in Command)
      <4>1. CASE pc = "look"
        BY <1>t, <3>1, <4>1 DEF Following, Learnt
      <4>2. CASE pc = "cmd"
        BY <1>t, <3>1, <3>2, <4>2 DEF Following, Learnt
      <4>3. CASE pc = "arg"
        BY <1>t, <3>1, <3>2, <4>3 DEF Following, Learnt
      <4>4. CASE pc = "ack"
        BY <1>t, <3>1, <3>2, <4>4 DEF Following, Learnt
      <4>5. CASE pc = "str"
        <5>1. got.str \in Seq(Char)
          BY <1>t
        <5>2. val # None => Append(got.str, val) \in Seq(Char)
          BY <3>2, <4>5, <5>1
        <5> QED BY <1>t, <3>1, <3>2, <4>5, <5>2 DEF Following, Learnt
      <4> QED BY <1>t, <3>2, <4>1, <4>2, <4>3, <4>4, <4>5
    <3>5. AccessOK'
      BY <2>1, <3>4 DEF AccessOK
    <3> QED BY <1>a, <1>t, <2>1, <3>3, <3>4, <3>5
  <2> QED BY <2>2, <2>3
<1>5. CASE Act
  <2>1. got \in [cmd : Command, arg : Command \cup {None}, str : Seq(Char)]
    BY <1>5, <1>t DEF Act, AccessOK
  <2>2. performed' \in Seq([cmd : Command, arg : Command \cup {None}, str : Seq(Char)])
    BY <1>5, <1>t, <2>1 DEF Act
  <2>3. AccessOK'
    BY <1>5, <1>t DEF Act, AccessOK
  <2> QED BY <1>5, <1>a, <1>t, <2>2, <2>3 DEF Act
<1>6. CASE MouseInterrupt
  <2>1. AccessOK'
    BY <1>6, <1>t DEF MouseInterrupt, AccessOK, Register
  <2> QED BY <1>6, <1>a, <1>t, <2>1 DEF MouseInterrupt
<1> QED BY <1>1, <1>2, <1>3, <1>4, <1>5, <1>6 DEF Guest, Access

\* Every step of page, worker and guest keeps the types.
LEMMA TypeNext == TypeInv /\ [Next /\ UNCHANGED habit]_<<vars, habit>> => TypeInv'
<1> SUFFICES ASSUME TypeInv, [Next /\ UNCHANGED habit]_<<vars, habit>> PROVE TypeInv'
  OBVIOUS
<1>1. CASE UNCHANGED <<vars, habit>>
  BY <1>1 DEF vars, pageVars, wireVars, workerVars, guestVars, TypeInv, TypeOK, AccessOK, PumpOK, Register
<1>2. CASE Next /\ UNCHANGED habit
  BY <1>2, PageType, WorkerType, GuestType DEF Next
<1> QED BY <1>1, <1>2

\* Every reachable state of page, worker, adapter and guest is well typed, for any
\* number of commands and screens: a scroll never carries more lines than its bits
\* hold, and PVMON never takes a character for a command.
THEOREM TypeCorrect == Spec => []TypeOK
<1>1. Spec => []TypeInv
  BY TypeInit, TypeNext, PTL DEF Spec
<1>2. TypeInv => TypeOK
  BY DEF TypeInv
<1> QED BY <1>1, <1>2, PTL

-----------------------------------------------------------------------------
(* A command in the register.                                              *)

\* As long as nothing has been left for two seconds, the page sends only when all
\* it has sent is confirmed and acknowledged.  Between the two there is the control
\* block: a block that confirms all that was raised does not show an acknowledged
\* register while the command is still there.
FlowInv ==
  ~habit.slow =>
    /\ sent = seq + Len(toWorker)
    /\ toWorker # <<>> => dev.cmd = None /\ Len(toWorker) = 1
    /\ overdue => sent = 0
    /\ seq = 0 => dev.cmd = None
    /\ \A b \in 1 .. MaxBlocks :
         blocks[b].seq <= seq /\ (blocks[b].seq = seq /\ blocks[b].cmd = None => dev.cmd = None)
    /\ page = "cmd" => blocks[pageBlock].seq >= sent
    /\ worker = "mirror2" => blocks[block].cmd = dev.cmd

\* What the register for the argument holds with command c; and what PVMON has read
\* of a command it has begun to read belongs together.
ArgOf(c) == IF c.kind = "string" THEN None ELSE c
ReadInv ==
  ~habit.slow =>
    /\ dev.cmd # None => dev.arg = ArgOf(dev.cmd)
    /\ pc = "cmd" /\ half = "check" /\ index = "cmd" /\ val # None => val = dev.cmd
    /\ pc = "arg" => got.cmd = dev.cmd
    /\ pc = "arg" /\ half = "check" /\ index = "arg" => val = dev.arg
    /\ pc \in {"ack", "str", "act"} => got.arg = ArgOf(got.cmd)
    /\ \A i \in DOMAIN performed : performed[i].arg = ArgOf(performed[i].cmd)

RegisterInv == FlowInv /\ ReadInv

\* What the steps below use of the types.
LEMMA TypesUsed ==
  ASSUME TypeInv
  PROVE  /\ sent \in Nat /\ seq \in Nat /\ toWorker \in Seq(Command) /\ Len(toWorker) \in Nat
         /\ pageBlock \in 1 .. MaxBlocks /\ block \in 1 .. MaxBlocks
         /\ blocks \in [1 .. MaxBlocks -> [cmd : Command \cup {None}, seq : Nat]]
         /\ \A b \in 1 .. MaxBlocks : blocks[b].seq \in Nat
         /\ dev \in [cmd : Command \cup {None}, arg : Command \cup {None}, str : Seq(Char)]
         /\ got \in [cmd : Command \cup {None}, arg : Command \cup {None}, str : Seq(Char)]
         /\ performed \in Seq([cmd : Command, arg : Command \cup {None}, str : Seq(Char)])
         /\ pc \in {"idle", "look", "cmd", "arg", "ack", "str", "act"}
         /\ queue \in Seq(Command) /\ AccessOK /\ PumpOK
<1>1. /\ sent \in Nat /\ seq \in Nat /\ toWorker \in Seq(Command) /\ queue \in Seq(Command)
      /\ pageBlock \in 1 .. MaxBlocks /\ block \in 1 .. MaxBlocks
      /\ blocks \in [1 .. MaxBlocks -> [cmd : Command \cup {None}, seq : Nat]]
  BY DEF TypeInv, TypeOK
<1>2. /\ dev \in [cmd : Command \cup {None}, arg : Command \cup {None}, str : Seq(Char)]
      /\ got \in [cmd : Command \cup {None}, arg : Command \cup {None}, str : Seq(Char)]
  BY DEF TypeInv, TypeOK
<1>3. performed \in Seq([cmd : Command, arg : Command \cup {None}, str : Seq(Char)])
  BY DEF TypeInv, TypeOK
<1>4. pc \in {"idle", "look", "cmd", "arg", "ack", "str", "act"} /\ AccessOK /\ PumpOK
  BY DEF TypeInv, TypeOK
<1>5. \A b \in 1 .. MaxBlocks : blocks[b].seq \in Nat
  BY <1>1
<1>6. Len(toWorker) \in Nat
  BY <1>1, LenProperties
<1> QED BY <1>1, <1>2, <1>3, <1>4, <1>5, <1>6

LEMMA RegisterInit == Init => RegisterInv
BY DEF Init, RegisterInv, FlowInv, ReadInv, NewBlock, Nothing

\* The page sends only when nothing is under way: a look at the register follows
\* a look at the number of commands confirmed.
LEMMA PageKeeps ==
  ASSUME TypeInv, RegisterInv, UNCHANGED habit, ~habit.slow, Asks \/ Page
  PROVE  RegisterInv' /\ dev' = dev
<1>0. UNCHANGED <<workerVars, dev, guestVars>>
  BY DEF Asks, Ask, Page, TimerPump, ReadSeq, ReadCmd, TakeBlock, TwoSeconds
<1>1. ReadInv'
  BY <1>0 DEF RegisterInv, ReadInv, guestVars
<1>f. FlowInv /\ ~habit.slow /\ ~habit'.slow
  BY DEF RegisterInv
<1>2. CASE UNCHANGED <<sent, overdue, toWorker>> /\ (page' = "cmd" => page = "cmd" /\ pageBlock' = pageBlock)
  <2>1. FlowInv'
    BY <1>0, <1>2, <1>f DEF FlowInv, workerVars
  <2> QED BY <1>0, <1>1, <2>1 DEF RegisterInv
<1>3. CASE Asks \/ TimerPump \/ TakeBlock \/ TwoSeconds
  BY <1>2, <1>3, <1>f DEF Asks, Ask, TimerPump, TakeBlock, TwoSeconds, wireVars
<1>4. CASE ReadSeq
  <2>1. CASE Unconfirmed(pageBlock)
    <3>1. ~overdue
      BY <1>f, <2>1, TypesUsed DEF FlowInv, Unconfirmed
    <3> QED BY <1>2, <1>4, <2>1, <3>1 DEF ReadSeq, Wait
  <2>2. CASE ~Unconfirmed(pageBlock)
    <3>1. blocks[pageBlock].seq >= sent
      BY <2>2, TypesUsed DEF Unconfirmed
    <3>2. UNCHANGED <<sent, overdue, toWorker, pageBlock>>
      BY <1>4, <2>2 DEF ReadSeq, Wait
    <3>3. FlowInv'
      BY <1>0, <1>f, <3>1, <3>2 DEF FlowInv, workerVars
    <3> QED BY <1>0, <1>1, <3>3 DEF RegisterInv
  <2> QED BY <2>1, <2>2
<1>5. CASE ReadCmd
  <2>1. CASE Wait
    BY <1>2, <1>5, <2>1 DEF ReadCmd, Wait
  <2>2. CASE ~Wait
    <3>1. SendHead /\ page = "cmd" /\ page' = "idle" /\ (blocks[pageBlock].cmd = None \/ overdue)
      BY <1>5, <2>2 DEF ReadCmd
    <3>2. blocks[pageBlock].seq >= sent /\ blocks[pageBlock].seq <= seq /\ sent = seq + Len(toWorker)
      BY <1>f, <3>1, TypesUsed DEF FlowInv
    <3>3. blocks[pageBlock].seq = seq /\ sent = seq /\ Len(toWorker) = 0
      BY <3>2, TypesUsed
    <3>4. toWorker = <<>>
      BY <3>3, TypesUsed
    <3>5. dev.cmd = None
      BY <1>f, <3>1, <3>3, TypesUsed DEF FlowInv
    <3>6. sent' = sent + 1 /\ overdue' = FALSE /\ toWorker' = Append(toWorker, Head(queue)) /\ Head(queue) \in Command
      <4>1. queue \in Seq(Command) /\ queue # <<>>
        BY <3>1, TypesUsed DEF PumpOK
      <4> QED BY <3>1, <4>1, HeadTail DEF SendHead
    <3>7. Len(toWorker') = 1
      BY <3>4, <3>6
    <3>8. FlowInv'
      BY <1>0, <1>f, <3>1, <3>3, <3>5, <3>6, <3>7, TypesUsed DEF FlowInv, workerVars
    <3> QED BY <1>0, <1>1, <3>8 DEF RegisterInv
  <2> QED BY <2>1, <2>2
<1> QED BY <1>3, <1>4, <1>5 DEF Page

\* The worker raises a command only in a register that has been acknowledged, and
\* what it tells of it was so when it looked.
LEMMA WorkerKeeps ==
  ASSUME TypeInv, RegisterInv, UNCHANGED habit, ~habit.slow, Worker
  PROVE  RegisterInv' /\ (dev' # dev => dev.cmd = None)
<1>0. UNCHANGED <<sent, overdue, page, pageBlock, guestVars>>
  BY DEF Worker, Deliver, Render, Mirror, NewScreen, pageVars
<1>f. FlowInv /\ ReadInv /\ ~habit.slow /\ ~habit'.slow
  BY DEF RegisterInv
<1>1. CASE Deliver
  <2>1. toWorker # <<>> /\ toWorker' = Tail(toWorker) /\ Head(toWorker) \in Command /\ Len(toWorker') = Len(toWorker) - 1
    BY <1>1, TypesUsed, HeadTail DEF Deliver
  <2>2. dev.cmd = None /\ Len(toWorker) = 1 /\ sent = seq + 1
    BY <1>f, <2>1 DEF FlowInv
  <2>3. toWorker' = <<>>
    <3>1. toWorker' \in Seq(Command) /\ Len(toWorker') = 0
      BY <2>1, <2>2, TypesUsed, HeadTail
    <3> QED BY <3>1
  <2>4. seq' = seq + 1 /\ blocks' = blocks /\ worker' = "mirror1"
    BY <1>1 DEF Deliver
  <2>5. \A b \in 1 .. MaxBlocks : blocks'[b].seq <= seq' /\ blocks'[b].seq # seq'
    BY <1>f, <2>4, TypesUsed DEF FlowInv
  <2>6. FlowInv'
    <3>1. Len(toWorker') = 0 /\ sent' = sent /\ seq' \in Nat /\ seq' # 0
      BY <1>0, <2>1, <2>2, <2>4, TypesUsed
    <3>2. sent' = seq' + Len(toWorker')
      BY <2>2, <2>4, <3>1, TypesUsed
    <3>3. ~overdue'
      <4>1. sent # 0
        BY <2>2, TypesUsed
      <4> QED BY <1>0, <1>f, <4>1 DEF FlowInv
    <3>4. page' # "cmd"
      <4>1. blocks[pageBlock].seq <= seq /\ ~(blocks[pageBlock].seq >= sent)
        BY <1>f, <2>2, TypesUsed DEF FlowInv
      <4> QED BY <1>0, <1>f, <4>1 DEF FlowInv
    <3> QED BY <2>3, <2>4, <2>5, <3>1, <3>2, <3>3, <3>4 DEF FlowInv
  <2>7. dev'.cmd = Head(toWorker) /\ dev'.arg = ArgOf(dev'.cmd)
    BY <1>1 DEF Deliver, Raised, ArgOf
  <2>8. pc # "arg" /\ ~(pc = "cmd" /\ half = "check" /\ index = "cmd" /\ val # None)
    BY <1>f, <2>2, NoneAssumption, TypesUsed DEF ReadInv, AccessOK
  <2>9. ReadInv'
    BY <1>0, <1>f, <2>7, <2>8 DEF ReadInv, guestVars
  <2> QED BY <2>2, <2>6, <2>9 DEF RegisterInv
<1>2. CASE ~Deliver
  <2>1. UNCHANGED <<dev, seq, toWorker>>
    BY <1>2 DEF Worker, Render, Mirror, NewScreen, wireVars
  <2>2. ReadInv'
    BY <1>0, <1>f, <2>1 DEF ReadInv, guestVars
  <2>3. FlowInv'
    <3>1. CASE Render \/ NewScreen
      BY <1>0, <1>f, <2>1, <3>1 DEF FlowInv, Render, NewScreen
    <3>2. CASE Mirror /\ worker = "mirror1"
      <4>1. /\ blocks' = [blocks EXCEPT ![block] = [blocks[block] EXCEPT !.cmd = dev.cmd]]
            /\ worker' = "mirror2" /\ block' = block
        BY <3>2 DEF Mirror, Mirrored
      <4>2. blocks'[block].cmd = dev.cmd /\ \A b \in 1 .. MaxBlocks : blocks'[b].seq = blocks[b].seq /\ (b # block => blocks'[b] = blocks[b])
        BY <4>1, TypesUsed
      <4> QED BY <1>0, <1>f, <2>1, <4>1, <4>2, TypesUsed DEF FlowInv
    <3>3. CASE Mirror /\ worker # "mirror1"
      <4>1. /\ blocks' = [blocks EXCEPT ![block] = [blocks[block] EXCEPT !.seq = seq]]
            /\ worker' = "free" /\ block' = block /\ worker = "mirror2"
        BY <3>3 DEF Mirror, Mirrored, TypeInv, TypeOK
      <4>2. /\ blocks'[block].seq = seq /\ blocks'[block].cmd = blocks[block].cmd
            /\ \A b \in 1 .. MaxBlocks : b # block => blocks'[b] = blocks[b]
        BY <4>1, TypesUsed
      <4>3. blocks[block].cmd = dev.cmd /\ blocks[block].seq <= seq
        BY <1>f, <4>1, TypesUsed DEF FlowInv
      <4>4. \A b \in 1 .. MaxBlocks : blocks'[b].seq <= seq /\ (blocks'[b].seq = seq /\ blocks'[b].cmd = None => dev.cmd = None)
        <5>1. ASSUME NEW b \in 1 .. MaxBlocks, b # block
              PROVE  blocks'[b].seq <= seq /\ (blocks'[b].seq = seq /\ blocks'[b].cmd = None => dev.cmd = None)
          <6>1. blocks'[b] = blocks[b]
            BY <4>2, <5>1
          <6> QED BY <1>f, <6>1 DEF FlowInv
        <5>2. blocks'[block].seq <= seq /\ (blocks'[block].cmd = None => dev.cmd = None)
          BY <4>2, <4>3, TypesUsed
        <5> QED BY <5>1, <5>2
      <4>5. page = "cmd" => blocks'[pageBlock].seq >= sent
        <5>1. ASSUME page = "cmd" PROVE blocks[pageBlock].seq >= sent /\ blocks[pageBlock].seq <= seq
          BY <1>f, <5>1, TypesUsed DEF FlowInv
        <5>2. CASE pageBlock = block
          BY <4>2, <5>1, <5>2, TypesUsed
        <5>3. CASE pageBlock # block
          <6>1. blocks'[pageBlock] = blocks[pageBlock]
            BY <4>2, <5>3, TypesUsed
          <6> QED BY <5>1, <6>1
        <5> QED BY <5>2, <5>3
      <4> QED BY <1>0, <1>f, <2>1, <4>1, <4>4, <4>5, TypesUsed DEF FlowInv
    <3> QED BY <1>2, <3>1, <3>2, <3>3 DEF Worker
  <2> QED BY <2>1, <2>2, <2>3 DEF RegisterInv
<1> QED BY <1>1, <1>2

\* PVMON changes the register only to acknowledge, once it has read the argument,
\* and what it reads before that stays there meanwhile.
LEMMA GuestKeeps ==
  ASSUME TypeInv, RegisterInv, UNCHANGED habit, ~habit.slow, Guest
  PROVE  RegisterInv' /\ (dev'.cmd # dev.cmd => dev'.cmd = None)
<1>0. UNCHANGED <<pageVars, wireVars, workerVars>> /\ (worker = "free" \/ UNCHANGED dev)
  BY DEF Guest, Access, Poll, SetIndex, AccessData, CheckIndex, Act, MouseInterrupt, Running
<1>f. FlowInv /\ ReadInv /\ ~habit.slow /\ ~habit'.slow
  BY DEF RegisterInv
<1>1. ASSUME dev'.cmd \in {dev.cmd, None} PROVE FlowInv'
  BY <1>0, <1>1, <1>f DEF FlowInv, pageVars, wireVars, workerVars
<1>2. CASE AccessData
  <2>1. /\ UNCHANGED <<index, pc, got, performed>> /\ half = "data" /\ half' = "check"
        /\ pc \notin {"idle", "act"} /\ index \in {Register, "mouse"}
    BY <1>2, TypesUsed DEF AccessData, AccessOK
  <2>2. CASE index = "mouse"
    <3>1. UNCHANGED <<dev, val>>
      BY <1>2, <2>2 DEF AccessData
    <3> QED BY <1>1, <1>f, <2>1, <2>2, <3>1 DEF ReadInv, RegisterInv
  <2>3. CASE index # "mouse" /\ pc = "ack"
    <3>1. dev' = [dev EXCEPT !.cmd = None]
      BY <1>2, <2>3 DEF AccessData
    <3>2. dev'.cmd = None
      BY <3>1, TypesUsed
    <3> QED BY <1>1, <1>f, <2>1, <2>3, <3>2 DEF ReadInv, RegisterInv
  <2>4. CASE index # "mouse" /\ pc = "str"
    <3>1. dev'.cmd = dev.cmd /\ dev'.arg = dev.arg
      BY <1>2, <2>4, TypesUsed DEF AccessData
    <3> QED BY <1>1, <1>f, <2>1, <2>4, <3>1 DEF ReadInv, RegisterInv
  <2>5. CASE index # "mouse" /\ pc = "arg"
    <3>1. val' = dev.arg /\ dev' = dev
      BY <1>2, <2>5 DEF AccessData
    <3> QED BY <1>1, <1>f, <2>1, <2>5, <3>1 DEF ReadInv, RegisterInv
  <2>6. CASE index # "mouse" /\ pc \notin {"ack", "str", "arg"}
    <3>1. val' = dev.cmd /\ dev' = dev
      BY <1>2, <2>6 DEF AccessData
    <3> QED BY <1>1, <1>f, <2>1, <2>6, <3>1 DEF ReadInv, RegisterInv
  <2> QED BY <2>2, <2>3, <2>4, <2>5, <2>6
<1>3. CASE CheckIndex
  <2>1. UNCHANGED <<dev, index, val, performed>> /\ half = "check" /\ half' = "index"
    BY <1>3 DEF CheckIndex
  <2>2. CASE index # Register
    <3>1. UNCHANGED <<pc, got>>
      BY <1>3, <2>2 DEF CheckIndex
    <3> QED BY <1>1, <1>f, <2>1, <3>1 DEF ReadInv, RegisterInv
  <2>3. CASE index = Register
    <3>1. pc' = Following(val, got) /\ got' = Learnt(val) /\ pc \notin {"idle", "act"}
      BY <1>3, <2>1, <2>3, TypesUsed DEF CheckIndex, AccessOK
    <3>2. CASE pc = "look"
      <4>1. pc' \in {"idle", "cmd"} /\ got' = got
        BY <3>1, <3>2 DEF Following, Learnt
      <4> QED BY <1>1, <1>f, <2>1, <4>1 DEF ReadInv, RegisterInv
    <3>3. CASE pc = "cmd"
      <4>1. pc' = IF val = None THEN "idle" ELSE "arg"
        BY <3>1, <3>3 DEF Following
      <4>2. got'.cmd = val
        BY <3>1, <3>3, TypesUsed DEF Learnt
      <4>3. val # None => val = dev.cmd
        BY <1>f, <2>1, <2>3, <3>3 DEF ReadInv, Register
      <4> QED BY <1>1, <1>f, <2>1, <4>1, <4>2, <4>3 DEF ReadInv, RegisterInv
    <3>4. CASE pc = "arg"
      <4>1. pc' = "ack" /\ got'.arg = val /\ got'.cmd = got.cmd
        BY <3>1, <3>4, TypesUsed DEF Following, Learnt
      <4>2. val = dev.arg /\ got.cmd = dev.cmd
        BY <1>f, <2>1, <2>3, <3>4 DEF ReadInv, Register
      <4>3. dev.cmd # None
        BY <3>4, <4>2, NoneAssumption, TypesUsed DEF AccessOK
      <4>4. got'.arg = ArgOf(got'.cmd)
        BY <1>f, <4>1, <4>2, <4>3 DEF ReadInv
      <4> QED BY <1>1, <1>f, <2>1, <4>1, <4>4 DEF ReadInv, RegisterInv
    <3>5. CASE pc \in {"ack", "str"}
      <4>1. pc' \in {"str", "act"} /\ got'.arg = got.arg /\ got'.cmd = got.cmd
        BY <3>1, <3>5, TypesUsed DEF Following, Learnt
      <4> QED BY <1>1, <1>f, <2>1, <3>5, <4>1 DEF ReadInv, RegisterInv
    <3> QED BY <3>1, <3>2, <3>3, <3>4, <3>5, TypesUsed
  <2> QED BY <2>2, <2>3
<1>4. CASE Act
  <2>1. UNCHANGED <<dev, index, half, val, got>> /\ pc' = "idle" /\ performed' = Append(performed, got) /\ pc = "act"
    BY <1>4 DEF Act
  <2>2. got \in [cmd : Command, arg : Command \cup {None}, str : Seq(Char)] /\ got.arg = ArgOf(got.cmd)
    BY <1>f, <2>1, TypesUsed DEF AccessOK, ReadInv
  <2>3. \A i \in DOMAIN performed' : (i \in DOMAIN performed /\ performed'[i] = performed[i]) \/ performed'[i] = got
    BY <2>1, <2>2, TypesUsed, AppendElements
  <2>4. \A i \in DOMAIN performed' : performed'[i].arg = ArgOf(performed'[i].cmd)
    BY <1>f, <2>2, <2>3 DEF ReadInv
  <2> QED BY <1>1, <1>f, <2>1, <2>4 DEF ReadInv, RegisterInv
<1>5. CASE Poll
  BY <1>1, <1>5, <1>f DEF Poll, ReadInv, RegisterInv
<1>6. CASE SetIndex
  BY <1>1, <1>6, <1>f DEF SetIndex, ReadInv, RegisterInv
<1>7. CASE MouseInterrupt
  BY <1>1, <1>7, <1>f DEF MouseInterrupt, ReadInv, RegisterInv
<1> QED BY <1>2, <1>3, <1>4, <1>5, <1>6, <1>7 DEF Guest, Access

\* Every step of page, worker and guest keeps RegisterInv, and none takes a command
\* out of the register but an acknowledgement.
LEMMA RegisterNext ==
  TypeInv /\ RegisterInv /\ [Next /\ UNCHANGED habit]_<<vars, habit>>
  => /\ RegisterInv'
     /\ ~habit.slow /\ dev.cmd # None /\ dev'.cmd # dev.cmd => dev'.cmd = None
<1> SUFFICES ASSUME TypeInv, RegisterInv, [Next /\ UNCHANGED habit]_<<vars, habit>>
             PROVE  /\ RegisterInv'
                    /\ ~habit.slow /\ dev.cmd # None /\ dev'.cmd # dev.cmd => dev'.cmd = None
  OBVIOUS
<1>1. CASE habit.slow
  BY <1>1 DEF RegisterInv, FlowInv, ReadInv
<1>2. CASE ~habit.slow /\ UNCHANGED <<vars, habit>>
  <2>1. UNCHANGED <<sent, seq, toWorker, overdue, blocks, page, pageBlock, worker, block, dev, pc, half, index, val, got, performed, habit>>
    BY <1>2 DEF vars, pageVars, wireVars, workerVars, guestVars
  <2> QED BY <2>1 DEF RegisterInv, FlowInv, ReadInv
<1>3. CASE ~habit.slow /\ Next /\ UNCHANGED habit
  BY <1>3, PageKeeps, WorkerKeeps, GuestKeeps DEF Next
<1> QED BY <1>1, <1>2, <1>3

\* A command that is in the register stays there until PVMON acknowledges it, for
\* any number of commands and screens and wherever the mouse's interrupt falls, as
\* long as PVMON leaves none for two seconds.
THEOREM RegisterHolds == Spec => NotOverwritten
<1>1. Spec => []TypeInv
  BY TypeInit, TypeNext, PTL DEF Spec
<1>2. TypeInv /\ RegisterInv /\ [Next /\ UNCHANGED habit]_<<vars, habit>>
      => [~habit.slow /\ dev.cmd # None /\ dev'.cmd # dev.cmd => dev'.cmd = None]_vars
  BY RegisterNext
<1> QED BY <1>1, <1>2, RegisterInit, RegisterNext, PTL DEF Spec, NotOverwritten

\* A command is carried out with the argument that was raised with it.
THEOREM ArgumentsOwn == Spec => []OwnArgument
<1>1. Spec => [](TypeInv /\ RegisterInv)
  BY TypeInit, TypeNext, RegisterInit, RegisterNext, PTL DEF Spec
<1>2. RegisterInv => OwnArgument
  BY DEF RegisterInv, ReadInv, OwnArgument, ArgOf
<1> QED BY <1>1, <1>2, PTL

-----------------------------------------------------------------------------
(* The queue.                                                              *)

\* Two sequences and an element between them, at the end, or at the front.
LEMMA FirstOfTwo ==
  ASSUME NEW S, NEW t \in Seq(S), NEW q \in Seq(S), t # <<>>
  PROVE  /\ t \o q # <<>> /\ Head(t \o q) = Head(t) /\ Tail(t \o q) = Tail(t) \o q
         /\ t \o q \in Seq(S)
<1> DEFINE s == t \o q
<1>1. s \in Seq(S) /\ Len(s) = Len(t) + Len(q) /\ Len(t) \in Nat /\ Len(q) \in Nat /\ Len(t) >= 1
  BY ConcatProperties, LenProperties, EmptySeq
<1>2. \A i \in 1 .. Len(t) + Len(q) : s[i] = IF i <= Len(t) THEN t[i] ELSE q[i - Len(t)]
  BY ConcatProperties
<1>3. Tail(t) \in Seq(S) /\ Len(Tail(t)) = Len(t) - 1 /\ \A i \in 1 .. Len(t) - 1 : Tail(t)[i] = t[i + 1]
  BY <1>1, HeadTailProperties
<1>4. /\ Tail(t) \o q \in Seq(S) /\ Len(Tail(t) \o q) = Len(t) - 1 + Len(q)
      /\ \A i \in 1 .. Len(t) - 1 + Len(q) : (Tail(t) \o q)[i] = IF i <= Len(t) - 1 THEN Tail(t)[i] ELSE q[i - (Len(t) - 1)]
  BY <1>3, ConcatProperties
<1> HIDE DEF s
<1>5. s # <<>> /\ Tail(s) \in Seq(S) /\ Len(Tail(s)) = Len(s) - 1 /\ \A i \in 1 .. Len(s) - 1 : Tail(s)[i] = s[i + 1]
  <2>1. s # <<>>
    BY <1>1
  <2> QED BY <1>1, <2>1, HeadTailProperties
<1>6. \A i \in 1 .. Len(Tail(s)) : Tail(s)[i] = (Tail(t) \o q)[i]
  <2> TAKE i \in 1 .. Len(Tail(s))
  <2>1. i \in 1 .. Len(t) + Len(q) - 1 /\ i + 1 \in 1 .. Len(t) + Len(q) /\ Tail(s)[i] = s[i + 1]
    BY <1>1, <1>5
  <2>2. CASE i <= Len(t) - 1
    <3>1. s[i + 1] = t[i + 1] /\ (Tail(t) \o q)[i] = Tail(t)[i] /\ Tail(t)[i] = t[i + 1]
      BY <1>1, <1>2, <1>3, <1>4, <2>1, <2>2
    <3> QED BY <2>1, <3>1
  <2>3. CASE ~(i <= Len(t) - 1)
    <3>1. s[i + 1] = q[i + 1 - Len(t)] /\ (Tail(t) \o q)[i] = q[i - (Len(t) - 1)] /\ i + 1 - Len(t) = i - (Len(t) - 1)
      BY <1>1, <1>2, <1>4, <2>1, <2>3
    <3> QED BY <2>1, <3>1
  <2> QED BY <2>2, <2>3
<1>7. Tail(s) = Tail(t) \o q
  <2>1. Len(Tail(s)) = Len(Tail(t) \o q) /\ Tail(s) \in Seq(S) /\ Tail(t) \o q \in Seq(S)
    BY <1>1, <1>4, <1>5
  <2> QED BY <1>6, <2>1, SeqEqual
<1>8. Head(s) = Head(t)
  <2>1. s[1] = t[1]
    BY <1>1, <1>2
  <2> QED BY <1>1, <1>5, <2>1
<1> QED BY <1>1, <1>5, <1>7, <1>8 DEF s

LEMMA FirstAndRest ==
  ASSUME NEW S, NEW s \in Seq(S), s # <<>>
  PROVE  Head(s) \in S /\ Tail(s) \in Seq(S) /\ s = <<Head(s)>> \o Tail(s)
<1>1. Head(s) \in S /\ Tail(s) \in Seq(S)
  BY HeadTailProperties
<1>2. <<Head(s)>> \in Seq(S) /\ <<Head(s)>> # <<>> /\ Head(<<Head(s)>>) = Head(s) /\ Tail(<<Head(s)>>) = <<>> /\ Len(<<Head(s)>>) = 1
  BY <1>1
<1>3. /\ <<Head(s)>> \o Tail(s) \in Seq(S) /\ Len(<<Head(s)>> \o Tail(s)) = 1 + Len(Tail(s))
      /\ \A i \in 1 .. 1 + Len(Tail(s)) : (<<Head(s)>> \o Tail(s))[i] = IF i <= 1 THEN <<Head(s)>>[i] ELSE Tail(s)[i - 1]
  BY <1>1, <1>2, ConcatProperties
<1>4. Len(s) \in Nat /\ Len(s) >= 1 /\ Len(Tail(s)) = Len(s) - 1 /\ Head(s) = s[1] /\ \A i \in 1 .. Len(s) - 1 : Tail(s)[i] = s[i + 1]
  BY HeadTailProperties, LenProperties, EmptySeq
<1>5. Len(s) = Len(<<Head(s)>> \o Tail(s))
  BY <1>3, <1>4
<1>6. \A i \in 1 .. Len(s) : s[i] = (<<Head(s)>> \o Tail(s))[i]
  <2> TAKE i \in 1 .. Len(s)
  <2>1. CASE i = 1
    BY <1>3, <1>4, <2>1
  <2>2. CASE i # 1
    <3>1. i - 1 \in 1 .. Len(s) - 1 /\ i \in 1 .. 1 + Len(Tail(s)) /\ ~(i <= 1)
      BY <1>4, <2>2
    <3>2. Tail(s)[i - 1] = s[(i - 1) + 1] /\ (i - 1) + 1 = i
      BY <1>4, <3>1
    <3> QED BY <1>3, <3>1, <3>2
  <2> QED BY <2>1, <2>2
<1> QED BY <1>1, <1>3, <1>5, <1>6, SeqEqual

\* The first of one sequence joins the end of another.
LEMMA MovesOver ==
  ASSUME NEW S, NEW t \in Seq(S), NEW q \in Seq(S), q # <<>>
  PROVE  Append(t, Head(q)) \o Tail(q) = t \o q
<1>1. Head(q) \in S /\ Tail(q) \in Seq(S) /\ q = <<Head(q)>> \o Tail(q) /\ <<Head(q)>> \in Seq(S)
  BY FirstAndRest
<1>2. Append(t, Head(q)) = t \o <<Head(q)>>
  BY <1>1, AppendIsConcat
<1>3. (t \o <<Head(q)>>) \o Tail(q) = t \o (<<Head(q)>> \o Tail(q))
  BY <1>1, ConcatAssociative
<1> QED BY <1>1, <1>2, <1>3

\* The end of the second is the end of both.
LEMMA JoinsAtEnd ==
  ASSUME NEW S, NEW p \in Seq(S), NEW q \in Seq(S), NEW c \in S
  PROVE  p \o Append(q, c) = Append(p \o q, c)
<1>1. <<c>> \in Seq(S) /\ p \o q \in Seq(S)
  BY ConcatProperties
<1>2. Append(q, c) = q \o <<c>> /\ Append(p \o q, c) = (p \o q) \o <<c>>
  BY <1>1, AppendIsConcat
<1>3. (p \o q) \o <<c>> = p \o (q \o <<c>>)
  BY <1>1, ConcatAssociative
<1> QED BY <1>2, <1>3

LEMMA ChangesAtEnd ==
  ASSUME NEW S, NEW p \in Seq(S), NEW q \in Seq(S), q # <<>>, NEW x \in S
  PROVE  /\ p \o [q EXCEPT ![Len(q)] = x] = [p \o q EXCEPT ![Len(p \o q)] = x]
         /\ p \o q # <<>> /\ (p \o q)[Len(p \o q)] = q[Len(q)] /\ [q EXCEPT ![Len(q)] = x] \in Seq(S)
<1> DEFINE r == [q EXCEPT ![Len(q)] = x]
<1> DEFINE s == p \o q
<1> DEFINE u == [s EXCEPT ![Len(s)] = x]
<1>1. Len(q) \in Nat /\ Len(q) >= 1 /\ Len(p) \in Nat
  BY LenProperties, EmptySeq
<1>2. q \in [1 .. Len(q) -> S] /\ Len(q) \in 1 .. Len(q)
  BY <1>1, LenProperties
<1>3. r \in Seq(S) /\ Len(r) = Len(q) /\ \A i \in 1 .. Len(q) : r[i] = IF i = Len(q) THEN x ELSE q[i]
  BY <1>2, ExceptSeq
<1>4. r \in Seq(S) /\ Len(r) = Len(q) /\ r[Len(q)] = x /\ \A i \in 1 .. Len(q) : i # Len(q) => r[i] = q[i]
  BY <1>2, <1>3
<1>5. s \in Seq(S) /\ Len(s) = Len(p) + Len(q) /\ \A i \in 1 .. Len(p) + Len(q) : s[i] = IF i <= Len(p) THEN p[i] ELSE q[i - Len(p)]
  BY ConcatProperties
<1> HIDE DEF r, s
<1>6. s \in [1 .. Len(s) -> S] /\ Len(s) \in 1 .. Len(s) /\ Len(s) \in Nat
  BY <1>1, <1>5, LenProperties
<1>7. u \in Seq(S) /\ Len(u) = Len(s) /\ \A i \in 1 .. Len(s) : u[i] = IF i = Len(s) THEN x ELSE s[i]
  BY <1>5, <1>6, ExceptSeq
<1>8. u[Len(s)] = x /\ \A i \in 1 .. Len(s) : i # Len(s) => u[i] = s[i]
  BY <1>6, <1>7
<1>9. p \o r \in Seq(S) /\ Len(p \o r) = Len(p) + Len(r) /\ \A i \in 1 .. Len(p) + Len(r) : (p \o r)[i] = IF i <= Len(p) THEN p[i] ELSE r[i - Len(p)]
  BY <1>4, ConcatProperties
<1> HIDE DEF u
<1>10. \A i \in 1 .. Len(p \o r) : (p \o r)[i] = u[i]
  <2> TAKE i \in 1 .. Len(p \o r)
  <2>1. i \in 1 .. Len(p) + Len(q) /\ i \in 1 .. Len(s)
    BY <1>4, <1>5, <1>9
  <2>2. CASE i <= Len(p)
    BY <1>1, <1>4, <1>5, <1>8, <1>9, <2>1, <2>2
  <2>3. CASE i = Len(s)
    <3>1. ~(i <= Len(p)) /\ i - Len(p) = Len(q)
      BY <1>1, <1>5, <2>3
    <3> QED BY <1>4, <1>8, <1>9, <2>1, <2>3, <3>1
  <2>4. CASE ~(i <= Len(p)) /\ i # Len(s)
    <3>1. i - Len(p) \in 1 .. Len(q) /\ i - Len(p) # Len(q)
      BY <1>1, <1>5, <2>1, <2>4
    <3>2. (p \o r)[i] = r[i - Len(p)] /\ r[i - Len(p)] = q[i - Len(p)]
      BY <1>4, <1>9, <2>1, <2>4, <3>1
    <3>3. u[i] = s[i] /\ s[i] = q[i - Len(p)]
      BY <1>5, <1>8, <2>1, <2>4
    <3> QED BY <3>2, <3>3
  <2> QED BY <2>2, <2>3, <2>4
<1>11. p \o r = u
  BY <1>4, <1>5, <1>7, <1>9, <1>10, SeqEqual
<1>12. s # <<>> /\ s[Len(s)] = q[Len(q)]
  <2>1. ~(Len(s) <= Len(p)) /\ Len(s) - Len(p) = Len(q) /\ Len(s) # 0
    BY <1>1, <1>5
  <2>2. s # <<>>
    BY <2>1
  <2> QED BY <1>5, <1>6, <2>1, <2>2
<1> QED BY <1>4, <1>11, <1>12 DEF r, s, u

\* A place in a sequence that is at most one longer than another.
LEMMA OneMore ==
  ASSUME NEW n \in Nat, NEW m \in Nat, m = n \/ m = n + 1, NEW i \in 1 .. m
  PROVE  /\ i \in 1 .. n \/ (m = n + 1 /\ i = n + 1)
         /\ \A j \in 1 .. m : i < j => i \in 1 .. n
OBVIOUS

\* One element is taken out.
LEMMA TakenOut ==
  ASSUME NEW S, NEW p \in Seq(S), NEW q \in Seq(S), NEW x \in S
  PROVE  LET s == (p \o <<x>>) \o q
             n == Len(p) + 1
         IN  n \in DOMAIN s /\ SubSeq(s, 1, n - 1) = p /\ SubSeq(s, n + 1, Len(s)) = q
<1> DEFINE s == (p \o <<x>>) \o q
<1> DEFINE n == Len(p) + 1
<1> DEFINE t == p \o <<x>>
<1>1. <<x>> \in Seq(S) /\ Len(<<x>>) = 1 /\ Len(p) \in Nat /\ Len(q) \in Nat
  BY LenProperties
<1>2. t \in Seq(S) /\ Len(t) = Len(p) + 1 /\ \A i \in 1 .. Len(p) + 1 : t[i] = IF i <= Len(p) THEN p[i] ELSE <<x>>[i - Len(p)]
  BY <1>1, ConcatProperties
<1>s. s = t \o q
  OBVIOUS
<1> HIDE DEF t, s
<1>3. s \in Seq(S) /\ Len(s) = Len(t) + Len(q) /\ \A i \in 1 .. Len(t) + Len(q) : s[i] = IF i <= Len(t) THEN t[i] ELSE q[i - Len(t)]
  BY <1>2, <1>s, ConcatProperties
<1>4. n \in DOMAIN s
  BY <1>1, <1>2, <1>3, LenProperties
<1>5. SubSeq(s, 1, n - 1) = p
  <2>1. SubSeq(s, 1, n - 1) = [i \in 1 .. Len(p) |-> s[i]]
    BY <1>1
  <2>2. p = [i \in 1 .. Len(p) |-> p[i]]
    BY LenProperties
  <2>3. \A i \in 1 .. Len(p) : s[i] = p[i]
    BY <1>1, <1>2, <1>3
  <2> QED BY <2>1, <2>2, <2>3
<1>6. SubSeq(s, n + 1, Len(s)) = q
  <2>0. n + 1 \in 1 .. Len(s) + 1 /\ Len(s) \in n .. Len(s) /\ Len(s) - (n + 1) + 1 = Len(q)
    BY <1>1, <1>2, <1>3
  <2>1. /\ SubSeq(s, n + 1, Len(s)) \in Seq(S) /\ Len(SubSeq(s, n + 1, Len(s))) = Len(q)
        /\ \A i \in 1 .. Len(q) : SubSeq(s, n + 1, Len(s))[i] = s[n + i]
    <3> DEFINE e == SubSeq(s, n + 1, Len(s))
    <3>1. e \in Seq(S) /\ Len(e) = (IF n + 1 <= Len(s) THEN Len(s) - (n + 1) + 1 ELSE 0)
          /\ \A i \in 1 .. (Len(s) - (n + 1) + 1) : e[i] = s[n + 1 + i - 1]
      BY <1>1, <1>3, <2>0, SubSeqProperties
    <3>2. \A i \in 1 .. Len(q) : n + 1 + i - 1 = n + i
      BY <1>1
    <3> QED BY <1>1, <1>2, <1>3, <2>0, <3>1, <3>2
  <2>2. \A i \in 1 .. Len(q) : s[n + i] = q[i]
    <3> TAKE i \in 1 .. Len(q)
    <3>1. n + i \in 1 .. Len(t) + Len(q) /\ ~(n + i <= Len(t)) /\ n + i - Len(t) = i
      BY <1>1, <1>2
    <3> QED BY <1>3, <3>1
  <2>3. \A i \in 1 .. Len(SubSeq(s, n + 1, Len(s))) : SubSeq(s, n + 1, Len(s))[i] = q[i]
    BY <2>1, <2>2
  <2> QED BY <2>1, <2>3, SeqEqual
<1> QED BY <1>4, <1>5, <1>6 DEF s

\* What PVMON and the register have of the queue, and the rest of it, which the
\* page has or has sent.
Front == Some(Held) \o Some(InRegister)
Rest  == toWorker \o queue

\* Commands are numbered along the path.
Older(x) == x # None => x.id <= asked /\ \A i \in DOMAIN Rest : x.id < Rest[i].id
NumberedInv ==
  /\ \A i \in DOMAIN Rest : Rest[i].id <= asked /\ \A j \in DOMAIN Rest : i < j => Rest[i].id < Rest[j].id
  /\ Older(Held) /\ Older(dev.cmd)

\* What an acknowledgement takes from the register is the command PVMON has, and
\* what is there after it is not, if nothing is overwritten and no interrupt falls in.
AckInv ==
  /\ pc = "ack" /\ half = "check" /\ index = "cmd" => dev.cmd # got.cmd
  /\ ~habit.slow /\ ~habit.mouse /\ pc = "ack" /\ half # "check" => dev.cmd = got.cmd
  /\ ~habit.mouse => index # "mouse"

PathInv == NumberedInv /\ AckInv

PathOK ==
  /\ Held \in Command \cup {None} /\ InRegister \in Command \cup {None} /\ dev.cmd \in Command \cup {None}
  /\ Some(Held) \in Seq(Command) /\ Some(InRegister) \in Seq(Command)
  /\ toWorker \in Seq(Command) /\ queue \in Seq(Command) /\ Rest \in Seq(Command) /\ Front \in Seq(Command)
  /\ Pending = Front \o Rest

LEMMA SomeType ==
  ASSUME NEW c \in Command \cup {None}
  PROVE  Some(c) \in Seq(Command)
<1>1. CASE c = None
  BY <1>1, EmptySeq DEF Some
<1>2. CASE c # None
  <2>1. c \in Command
    BY <1>2
  <2> QED BY <1>2, <2>1 DEF Some
<1> QED BY <1>1, <1>2

LEMMA PathTypes == TypeInv => PathOK
<1> SUFFICES ASSUME TypeInv PROVE PathOK
  OBVIOUS
<1>1. toWorker \in Seq(Command) /\ queue \in Seq(Command)
  BY TypesUsed
<1>2. dev.cmd \in Command \cup {None}
  BY TypesUsed
<1>3. Held \in Command \cup {None}
  BY TypesUsed DEF Held, AccessOK, Register
<1>4. InRegister \in Command \cup {None}
  BY <1>2 DEF InRegister
<1>5. Some(Held) \in Seq(Command) /\ Some(InRegister) \in Seq(Command)
  BY <1>3, <1>4, SomeType
<1>6. Front \in Seq(Command) /\ Rest \in Seq(Command)
  BY <1>1, <1>5, ConcatProperties DEF Front, Rest
<1>7. (Front \o toWorker) \o queue = Front \o Rest
  BY <1>1, <1>6, ConcatAssociative DEF Rest
<1> QED BY <1>1, <1>2, <1>3, <1>4, <1>5, <1>6, <1>7 DEF PathOK, Pending, Front

LEMMA PathTypesNext == TypeInv' => PathOK'
BY PathTypes, PTL

-----------------------------------------------------------------------------
(* What a step does to the queue.                                          *)

\* It stays as it is ...
LEMMA Stays ==
  ASSUME UNCHANGED <<asked, habit, performed>>, Pending' = Pending
  PROVE  [Fifo!Step]_Fifo!vars
BY DEF Fifo!vars

LEMMA FrontStays ==
  ASSUME TypeInv, TypeInv', UNCHANGED <<asked, habit, performed>>, Rest' = Rest, Held' = Held, InRegister' = InRegister
  PROVE  [Fifo!Step]_Fifo!vars
<1>1. Front' = Front
  BY DEF Front, Some
<1>2. Pending' = Pending
  BY <1>1, PathTypes, PathTypesNext DEF PathOK
<1> QED BY <1>2, Stays

\* ... or loses a command, where that may happen.
LEMMA Loses ==
  ASSUME UNCHANGED <<asked, habit, performed>>, habit.slow \/ habit.mouse,
         NEW p \in Seq(Command), NEW x \in Command, NEW q \in Seq(Command),
         Pending = (p \o <<x>>) \o q, Pending' = p \o q
  PROVE  [Fifo!Step]_Fifo!vars
<1>1. \E i \in DOMAIN Pending : Pending' = SubSeq(Pending, 1, i - 1) \o SubSeq(Pending, i + 1, Len(Pending))
  <2> DEFINE s == (p \o <<x>>) \o q
  <2>2. Pending = s
    OBVIOUS
  <2> HIDE DEF s
  <2>3. Len(p) + 1 \in DOMAIN s /\ SubSeq(s, 1, (Len(p) + 1) - 1) = p /\ SubSeq(s, (Len(p) + 1) + 1, Len(s)) = q
    BY TakenOut DEF s
  <2>4. \E i \in DOMAIN s : p \o q = SubSeq(s, 1, i - 1) \o SubSeq(s, i + 1, Len(s))
    BY <2>3
  <2> QED BY <2>2, <2>4
<1>2. Fifo!Lose
  BY <1>1 DEF Fifo!Lose
<1> QED BY <1>2 DEF Fifo!Step, Fifo!Next

\* A command moves from the register to PVMON at most.
LEMMA NumbersStay ==
  ASSUME NumberedInv, UNCHANGED asked, Rest' = Rest, Held' \in {Held, dev.cmd, None}, dev'.cmd \in {dev.cmd, None}
  PROVE  NumberedInv'
BY DEF NumberedInv, Older

-----------------------------------------------------------------------------
(* The page.                                                               *)

LEMMA PageRefines ==
  ASSUME TypeInv, PathInv, TypeInv', UNCHANGED habit, Page
  PROVE  PathInv' /\ [Fifo!Step]_Fifo!vars
<1>1. UNCHANGED <<asked, dev, guestVars>>
  BY DEF Page, TimerPump, ReadSeq, ReadCmd, TakeBlock, TwoSeconds
<1>2. Rest' = Rest
  <2>1. CASE UNCHANGED <<queue, toWorker>>
    BY <2>1 DEF Rest
  <2>2. CASE SendHead /\ queue # <<>>
    <3>1. Append(toWorker, Head(queue)) \o Tail(queue) = toWorker \o queue
      BY <2>2, TypesUsed, MovesOver
    <3> QED BY <2>2, <3>1 DEF SendHead, Rest
  <2>3. page # "idle" => queue # <<>>
    BY TypesUsed DEF PumpOK
  <2> QED BY <2>1, <2>2, <2>3 DEF Page, TimerPump, ReadSeq, ReadCmd, TakeBlock, TwoSeconds, Wait, wireVars
<1>3. Held' = Held /\ InRegister' = InRegister
  BY <1>1 DEF Held, InRegister, guestVars
<1>4. NumberedInv'
  BY <1>1, <1>2, <1>3, NumbersStay DEF PathInv
<1>5. AckInv'
  BY <1>1 DEF PathInv, AckInv, guestVars
<1>6. UNCHANGED performed
  BY <1>1 DEF guestVars
<1>7. [Fifo!Step]_Fifo!vars
  BY <1>1, <1>2, <1>3, <1>6, FrontStays
<1> QED BY <1>4, <1>5, <1>7 DEF PathInv

LEMMA AsksRefine ==
  ASSUME TypeInv, PathInv, TypeInv', UNCHANGED habit, Asks
  PROVE  PathInv' /\ [Fifo!Step]_Fifo!vars
<1>1. PICK c \in [id : {asked + 1}, kind : habit.kinds, key : habit.keys, lines : 1 .. MaxLines] : Ask(c)
  BY DEF Asks
<1>2. /\ asked < habit.asked /\ asked' = asked + 1
      /\ UNCHANGED <<toWorker, dev, guestVars>>
  BY <1>1 DEF Ask, wireVars
<1>3. asked \in Nat /\ c \in Command /\ c.id = asked + 1 /\ c.lines \in 0 .. MaxLines
  <2>1. habit \in Habits /\ asked \in Nat
    BY DEF TypeInv, TypeOK
  <2>2. asked + 1 \in 1 .. MaxAsked
    BY <1>2, <2>1, Bounds
  <2>3. habit.kinds \subseteq Kinds /\ habit.keys \subseteq Keys /\ 1 .. MaxLines \subseteq 0 .. MaxLines
    BY <2>1, Bounds
  <2> QED BY <2>1, <2>2, <2>3 DEF Command
<1>p. PathOK /\ PathOK'
  BY PathTypes, PathTypesNext
<1>n. NumberedInv /\ AckInv
  BY DEF PathInv
<1>4. Held' = Held /\ InRegister' = InRegister /\ UNCHANGED performed
  BY <1>2 DEF Held, InRegister, guestVars
<1>5. Front' = Front
  BY <1>4 DEF Front, Some
<1>6. AckInv'
  BY <1>2, <1>n DEF AckInv, guestVars
<1>7. ASSUME Rest' \in Seq(Command), Len(Rest') \in {Len(Rest), Len(Rest) + 1}, \A i \in 1 .. Len(Rest) : Rest'[i].id = Rest[i].id,
             Len(Rest') = Len(Rest) + 1 => Rest'[Len(Rest) + 1] = c
      PROVE  NumberedInv'
  <2>1. Len(Rest) \in Nat /\ DOMAIN Rest = 1 .. Len(Rest) /\ Len(Rest') \in Nat /\ DOMAIN Rest' = 1 .. Len(Rest')
    BY <1>7, <1>p, LenProperties DEF PathOK
  <2>m. Len(Rest') = Len(Rest) \/ Len(Rest') = Len(Rest) + 1
    BY <1>7
  <2>2. \A i \in 1 .. Len(Rest) : Rest[i].id \in Nat /\ Rest[i].id <= asked
    <3> TAKE i \in 1 .. Len(Rest)
    <3>1. Rest[i] \in Command
      BY <1>p, ElementOfSeq DEF PathOK
    <3>2. Rest[i].id \in Nat
      BY <3>1, Bounds DEF Command
    <3> QED BY <1>n, <2>1, <3>2 DEF NumberedInv
  <2>3. \A i \in 1 .. Len(Rest') : (i \in 1 .. Len(Rest) /\ Rest'[i].id = Rest[i].id) \/ (i = Len(Rest) + 1 /\ Rest'[i].id = asked + 1)
    <3> TAKE i \in 1 .. Len(Rest')
    <3>1. CASE i \in 1 .. Len(Rest)
      BY <1>7, <3>1
    <3>2. CASE ~(i \in 1 .. Len(Rest))
      <4>1. Len(Rest') = Len(Rest) + 1 /\ i = Len(Rest) + 1
        BY <2>1, <2>m, <3>2, OneMore
      <4> QED BY <1>3, <1>7, <4>1
    <3> QED BY <3>1, <3>2
  <2>4. ASSUME NEW x \in Command \cup {None}, Older(x), x # None
        PROVE  x.id <= asked' /\ \A i \in DOMAIN Rest' : x.id < Rest'[i].id
    <3>1. x.id \in Nat /\ x.id <= asked /\ \A i \in 1 .. Len(Rest) : x.id < Rest[i].id
      BY <2>1, <2>4 DEF Older, Command
    <3> QED BY <1>2, <1>3, <2>1, <2>3, <3>1
  <2>5. Older(Held)' /\ Older(dev.cmd)'
    <3>1. Held' = Held /\ dev'.cmd = dev.cmd
      BY <1>2, <1>4
    <3>2. Held # None => Held.id <= asked' /\ \A i \in DOMAIN Rest' : Held.id < Rest'[i].id
      BY <1>n, <1>p, <2>4 DEF NumberedInv, PathOK
    <3>3. dev.cmd # None => dev.cmd.id <= asked' /\ \A i \in DOMAIN Rest' : dev.cmd.id < Rest'[i].id
      BY <1>n, <1>p, <2>4 DEF NumberedInv, PathOK
    <3> QED BY <3>1, <3>2, <3>3 DEF Older
  <2>6. \A i \in DOMAIN Rest' : Rest'[i].id <= asked'
    BY <1>2, <1>3, <2>1, <2>2, <2>3
  <2>7. ASSUME NEW i \in DOMAIN Rest', NEW j \in DOMAIN Rest', i < j PROVE Rest'[i].id < Rest'[j].id
    <3>0. i \in 1 .. Len(Rest)
      <4>1. i \in 1 .. Len(Rest') /\ j \in 1 .. Len(Rest') /\ i < j
        BY <2>1, <2>7
      <4> QED BY <2>1, <2>m, <4>1, OneMore
    <3>1. i \in 1 .. Len(Rest) /\ Rest'[i].id = Rest[i].id /\ Rest[i].id \in Nat /\ Rest[i].id <= asked
      BY <1>7, <2>2, <3>0
    <3>2. CASE j \in 1 .. Len(Rest)
      <4>1. Rest'[j].id = Rest[j].id
        BY <1>7, <3>2
      <4>2. Rest[i].id < Rest[j].id
        BY <1>n, <2>1, <2>7, <3>1, <3>2 DEF NumberedInv
      <4> QED BY <3>1, <4>1, <4>2
    <3>3. CASE ~(j \in 1 .. Len(Rest))
      BY <1>3, <2>1, <2>3, <3>1, <3>3
    <3> QED BY <3>2, <3>3
  <2> QED BY <2>5, <2>6, <2>7 DEF NumberedInv
<1>8. CASE queue' = Append(queue, c)
  <2>1. Rest' = Append(Rest, c) /\ Pending' = Append(Pending, c)
    <3>0. /\ toWorker \in Seq(Command) /\ queue \in Seq(Command) /\ c \in Command
          /\ Front \in Seq(Command) /\ Rest \in Seq(Command)
      BY <1>3, <1>p DEF PathOK
    <3>1. toWorker \o Append(queue, c) = Append(toWorker \o queue, c)
      BY <3>0, JoinsAtEnd
    <3>2. Front \o Append(Rest, c) = Append(Front \o Rest, c)
      BY <3>0, JoinsAtEnd
    <3>3. Rest' = Append(Rest, c)
      BY <1>2, <1>8, <3>1 DEF Rest
    <3> QED BY <1>5, <1>p, <3>2, <3>3 DEF PathOK
  <2>2. NumberedInv'
    <3>1. /\ Append(Rest, c) \in Seq(Command) /\ Len(Append(Rest, c)) = Len(Rest) + 1
          /\ \A i \in 1 .. Len(Rest) : Append(Rest, c)[i] = Rest[i] /\ Append(Rest, c)[Len(Rest) + 1] = c
      BY <1>3, <1>p, AppendProperties DEF PathOK
    <3>2. Append(Rest, c)[Len(Rest) + 1] = c
      BY <1>3, <1>p, AppendProperties DEF PathOK
    <3> QED BY <1>7, <2>1, <3>1, <3>2
  <2>3. Fifo!Join(c)
    BY <1>2, <1>3, <1>4, <2>1 DEF Fifo!Join, Fifo!Fresh
  <2>4. Fifo!Step
    BY <1>3, <2>3 DEF Fifo!Step, Fifo!Next
  <2> QED BY <1>6, <2>2, <2>4 DEF PathInv
<1>9. CASE queue' = queue /\ c.kind = "scroll"
  <2>1. Rest' = Rest
    BY <1>2, <1>9 DEF Rest
  <2>2. Pending' = Pending
    BY <1>5, <1>p, <2>1 DEF PathOK
  <2>3. NumberedInv'
    <3>1. Len(Rest) \in Nat /\ Rest \in Seq(Command)
      BY <1>p, LenProperties DEF PathOK
    <3> QED BY <1>7, <2>1, <3>1
  <2>4. Fifo!Drop(c)
    BY <1>2, <1>3, <1>4, <1>9, <2>2 DEF Fifo!Drop, Fifo!Fresh
  <2>5. Fifo!Step
    BY <1>3, <2>4 DEF Fifo!Step, Fifo!Next
  <2> QED BY <1>6, <2>3, <2>5 DEF PathInv
<1>10. CASE /\ c.kind = "scroll" /\ queue # <<>> /\ Last(queue).kind = "scroll" /\ Last(queue).key = c.key
            /\ queue' = [queue EXCEPT ![Len(queue)].lines = Together(@, c.lines)]
  <2> DEFINE lines == Together(Last(queue).lines, c.lines)
  <2> DEFINE x == [Last(queue) EXCEPT !.lines = lines]
  <2>1. queue' = [queue EXCEPT ![Len(queue)] = x]
    BY <1>10 DEF Last
  <2>2. Last(queue) \in Command
    <3>1. queue \in Seq(Command) /\ queue # <<>>
      BY <1>10, <1>p DEF PathOK
    <3>2. Len(queue) \in 1 .. Len(queue)
      BY <3>1, LenProperties, EmptySeq
    <3> QED BY <3>1, <3>2, LenProperties DEF Last
  <2>3. x \in Command /\ x.id = Last(queue).id
    <3>1. lines \in 0 .. MaxLines
      BY <1>3, <2>2, TogetherType DEF Command
    <3> HIDE DEF lines
    <3> QED BY <2>2, <3>1 DEF Command
  <2>4. x = [Last(queue) EXCEPT !.lines = IF Last(queue).lines + c.lines <= MaxLines THEN Last(queue).lines + c.lines ELSE MaxLines]
    <3>1. lines = IF Last(queue).lines + c.lines <= MaxLines THEN Last(queue).lines + c.lines ELSE MaxLines
      BY <1>3, <2>2, Bounds DEF Together, Least, Command
    <3> QED BY <3>1
  <2> HIDE DEF x, lines
  <2>5. /\ Rest' = [Rest EXCEPT ![Len(Rest)] = x] /\ Rest # <<>> /\ Rest[Len(Rest)] = Last(queue)
    <3>1. queue \in Seq(Command) /\ toWorker \in Seq(Command) /\ queue # <<>>
      BY <1>10, <1>p DEF PathOK
    <3>2. toWorker \o [queue EXCEPT ![Len(queue)] = x] = [toWorker \o queue EXCEPT ![Len(toWorker \o queue)] = x]
          /\ toWorker \o queue # <<>> /\ (toWorker \o queue)[Len(toWorker \o queue)] = queue[Len(queue)]
      BY <2>3, <3>1, ChangesAtEnd
    <3> QED BY <1>2, <2>1, <3>2 DEF Rest, Last
  <2>6. Pending' = [Pending EXCEPT ![Len(Pending)] = x] /\ Pending # <<>> /\ Pending[Len(Pending)] = Last(queue)
    <3>1. Rest \in Seq(Command) /\ Front \in Seq(Command) /\ Rest # <<>>
      BY <1>p, <2>5 DEF PathOK
    <3>2. Front \o [Rest EXCEPT ![Len(Rest)] = x] = [Front \o Rest EXCEPT ![Len(Front \o Rest)] = x]
          /\ Front \o Rest # <<>> /\ (Front \o Rest)[Len(Front \o Rest)] = Rest[Len(Rest)]
      BY <2>3, <3>1, ChangesAtEnd
    <3> QED BY <1>5, <1>p, <2>5, <3>2 DEF PathOK
  <2>7. NumberedInv'
    <3>1. Len(Rest) \in Nat /\ Rest \in Seq(Command) /\ Len(Rest) \in 1 .. Len(Rest)
      BY <1>p, <2>5, LenProperties, EmptySeq DEF PathOK
    <3>2. Rest' \in Seq(Command) /\ Len(Rest') = Len(Rest) /\ \A i \in 1 .. Len(Rest) : Rest'[i] = IF i = Len(Rest) THEN x ELSE Rest[i]
      BY <2>3, <2>5, <3>1, ExceptSeq
    <3>3. \A i \in 1 .. Len(Rest) : Rest'[i].id = Rest[i].id
      BY <2>3, <2>5, <3>2
    <3> QED BY <1>7, <3>1, <3>2, <3>3
  <2>8. Fifo!Absorb(c)
    <3>1. Pending' = [Pending EXCEPT ![Len(Pending)].lines =
                        IF Pending[Len(Pending)].lines + c.lines <= MaxLines THEN Pending[Len(Pending)].lines + c.lines ELSE MaxLines]
      BY <2>4, <2>6
    <3>2. Pending[Len(Pending)].kind = "scroll" /\ Pending[Len(Pending)].key = c.key
      BY <1>10, <2>6
    <3> QED BY <1>2, <1>3, <1>4, <1>10, <2>6, <3>1, <3>2 DEF Fifo!Absorb, Fifo!Fresh
  <2>9. Fifo!Step
    BY <1>3, <2>8 DEF Fifo!Step, Fifo!Next
  <2> QED BY <1>6, <2>7, <2>9 DEF PathInv
<1> QED BY <1>1, <1>8, <1>9, <1>10 DEF Ask

-----------------------------------------------------------------------------
(* The worker.                                                             *)

\* The path, from its front to its end, before a step and after it.
LEMMA PathIs ==
  ASSUME TypeInv, TypeInv'
  PROVE  /\ Pending = (Some(Held) \o Some(InRegister)) \o Rest
         /\ Pending' = (Some(Held') \o Some(InRegister')) \o Rest'
         /\ Held \in Command \cup {None} /\ InRegister \in Command \cup {None} /\ dev.cmd \in Command \cup {None}
         /\ Rest \in Seq(Command) /\ Rest' \in Seq(Command)
<1>1. PathOK /\ PathOK'
  BY PathTypes, PathTypesNext
<1>2. Front' = Some(Held') \o Some(InRegister')
  BY DEF Front, Some
<1> QED BY <1>1, <1>2 DEF PathOK, Front

\* Its pieces when one of the first two is not there, or is taken out.
LEMMA Pieces ==
  ASSUME NEW a \in Command \cup {None}, NEW b \in Command \cup {None}, NEW r \in Seq(Command)
  PROVE  /\ Some(a) \in Seq(Command) /\ Some(b) \o r \in Seq(Command)
         /\ (Some(a) \o Some(b)) \o r = Some(a) \o (Some(b) \o r)
         /\ (Some(a) \o Some(None)) \o r = Some(a) \o r
         /\ (Some(None) \o Some(b)) \o r = Some(b) \o r
         /\ a # None => Some(a) = <<a>>
         /\ b # None => Some(b) = <<b>>
<1>1. Some(a) \in Seq(Command) /\ Some(b) \in Seq(Command) /\ Some(None) = <<>>
  BY SomeType DEF Some
<1>2. Some(b) \o r \in Seq(Command)
  BY <1>1, ConcatProperties
<1>3. (Some(a) \o Some(b)) \o r = Some(a) \o (Some(b) \o r)
  BY <1>1, ConcatAssociative
<1>4. Some(a) \o <<>> = Some(a) /\ <<>> \o Some(b) = Some(b)
  BY <1>1, ConcatEmptySeq
<1>5. (a # None => Some(a) = <<a>>) /\ (b # None => Some(b) = <<b>>)
  BY DEF Some
<1> QED BY <1>1, <1>2, <1>3, <1>4, <1>5

LEMMA WorkerRefines ==
  ASSUME TypeInv, PathInv, RegisterInv, TypeInv', UNCHANGED habit, Worker
  PROVE  PathInv' /\ [Fifo!Step]_Fifo!vars
<1>1. UNCHANGED <<asked, queue, guestVars>> /\ UNCHANGED performed /\ Held' = Held
  BY DEF Worker, Deliver, Render, Mirror, NewScreen, pageVars, guestVars, Held
<1>2. CASE ~Deliver
  <2>1. UNCHANGED <<dev, toWorker>>
    BY <1>2 DEF Worker, Render, Mirror, NewScreen, wireVars
  <2>2. Rest' = Rest /\ InRegister' = InRegister
    BY <1>1, <2>1 DEF Rest, InRegister, guestVars
  <2>3. NumberedInv'
    BY <1>1, <2>1, <2>2, NumbersStay DEF PathInv
  <2>4. AckInv'
    BY <1>1, <2>1 DEF PathInv, AckInv, guestVars
  <2>5. [Fifo!Step]_Fifo!vars
    BY <1>1, <2>2, FrontStays
  <2> QED BY <2>3, <2>4, <2>5 DEF PathInv
<1>3. CASE Deliver
  <2> DEFINE c == Head(Rest)
  <2>1. toWorker # <<>> /\ toWorker \in Seq(Command) /\ queue \in Seq(Command)
    BY <1>3, TypesUsed DEF Deliver
  <2>2. Rest # <<>> /\ c = Head(toWorker) /\ Rest' = Tail(Rest)
    <3>1. toWorker \o queue # <<>> /\ Head(toWorker \o queue) = Head(toWorker)
          /\ Tail(toWorker \o queue) = Tail(toWorker) \o queue
      BY <2>1, FirstOfTwo
    <3>2. toWorker' = Tail(toWorker) /\ queue' = queue
      BY <1>1, <1>3 DEF Deliver
    <3> QED BY <3>1, <3>2 DEF Rest
  <2>3. dev'.cmd = c
    BY <1>3, <2>2 DEF Deliver, Raised
  <2>4. /\ c \in Command /\ Tail(Rest) \in Seq(Command) /\ Rest = <<c>> \o Tail(Rest)
        /\ c = Rest[1] /\ 1 \in DOMAIN Rest
        /\ \A i \in DOMAIN Tail(Rest) : Tail(Rest)[i] = Rest[i + 1] /\ i + 1 \in DOMAIN Rest /\ i \in Nat /\ 1 < i + 1
    <3>1. Rest \in Seq(Command)
      BY PathIs
    <3>2. c \in Command /\ Tail(Rest) \in Seq(Command) /\ Rest = <<c>> \o Tail(Rest)
      BY <2>2, <3>1, FirstAndRest
    <3>3. /\ Len(Rest) \in Nat /\ Len(Rest) >= 1 /\ DOMAIN Rest = 1 .. Len(Rest)
          /\ Len(Tail(Rest)) = Len(Rest) - 1 /\ DOMAIN Tail(Rest) = 1 .. Len(Tail(Rest))
      BY <2>2, <3>1, <3>2, HeadTailProperties, LenProperties, EmptySeq
    <3>4. \A i \in 1 .. Len(Rest) - 1 : Tail(Rest)[i] = Rest[i + 1]
      BY <2>2, <3>1, HeadTailProperties
    <3> QED BY <3>1, <3>2, <3>3, <3>4
  <2> HIDE DEF c
  <2>5. \A i \in DOMAIN Rest : Rest[i].id <= asked /\ \A j \in DOMAIN Rest : i < j => Rest[i].id < Rest[j].id
    BY DEF PathInv, NumberedInv
  <2>6. Held # None => Held.id <= asked /\ Held.id < c.id /\ \A i \in DOMAIN Tail(Rest) : Held.id < Tail(Rest)[i].id
    BY <2>4 DEF PathInv, NumberedInv, Older
  <2>7. c.id <= asked /\ \A i \in DOMAIN Tail(Rest) : c.id < Tail(Rest)[i].id
    BY <2>4, <2>5
  <2>8. NumberedInv'
    <3>1. Older(Held)'
      BY <1>1, <2>2, <2>6 DEF Older
    <3>2. Older(dev.cmd)'
      BY <1>1, <2>2, <2>3, <2>7 DEF Older
    <3>3. \A i \in DOMAIN Rest' : Rest'[i].id <= asked' /\ \A j \in DOMAIN Rest' : i < j => Rest'[i].id < Rest'[j].id
      <4>1. \A i \in DOMAIN Tail(Rest) : Tail(Rest)[i].id <= asked
        BY <2>4, <2>5
      <4>2. ASSUME NEW i \in DOMAIN Tail(Rest), NEW j \in DOMAIN Tail(Rest), i < j
            PROVE  Tail(Rest)[i].id < Tail(Rest)[j].id
        <5>1. i + 1 < j + 1
          BY <2>4, <4>2
        <5> QED BY <2>4, <2>5, <5>1
      <4> QED BY <1>1, <2>2, <4>1, <4>2
    <3> QED BY <3>1, <3>2, <3>3 DEF NumberedInv
  <2>9. Held # None => c # Held
    <3>1. c.id \in Nat
      BY <2>4 DEF Command
    <3> QED BY <2>6, <3>1
  <2>10. AckInv'
    <3>1. UNCHANGED <<pc, half, index, got>> /\ AckInv
      BY <1>1 DEF guestVars, PathInv
    <3>2. pc = "ack" => Held = got.cmd /\ got.cmd \in Command /\ got.cmd # None
      BY TypesUsed, NoneAssumption DEF Held, AccessOK
    <3>3. pc = "ack" => dev'.cmd # got'.cmd
      BY <2>3, <2>9, <3>1, <3>2
    <3>4. ~habit.slow => dev.cmd = None
      BY <2>1 DEF RegisterInv, FlowInv
    <3>5. ~(~habit.slow /\ ~habit.mouse /\ pc = "ack" /\ half # "check")
      BY <3>1, <3>2, <3>4 DEF AckInv
    <3> QED BY <3>1, <3>3, <3>5 DEF AckInv
  <2>11. InRegister' = c
    <3>1. c # None
      BY <2>4, NoneAssumption
    <3> QED BY <1>1, <2>3, <2>9, <3>1 DEF InRegister
  <2>12. Pending' = Some(Held) \o Rest
    <3>1. c \in Command \cup {None} /\ c # None
      BY <2>4, NoneAssumption
    <3>2. (Some(Held) \o Some(c)) \o Tail(Rest) = Some(Held) \o (Some(c) \o Tail(Rest)) /\ Some(c) = <<c>>
      BY <2>4, <3>1, PathIs, Pieces
    <3>3. Pending' = (Some(Held) \o Some(c)) \o Tail(Rest)
      BY <1>1, <2>2, <2>11, PathIs
    <3> QED BY <2>4, <3>2, <3>3
  <2>13. CASE InRegister = None
    <3>1. (Some(Held) \o Some(None)) \o Rest = Some(Held) \o Rest
      BY PathIs, Pieces
    <3>2. Pending = (Some(Held) \o Some(None)) \o Rest
      BY <2>13, PathIs
    <3>3. [Fifo!Step]_Fifo!vars
      BY <1>1, <2>12, <3>1, <3>2, Stays
    <3> QED BY <2>8, <2>10, <3>3 DEF PathInv
  <2>14. CASE InRegister # None
    <3>1. habit.slow
      BY <2>1, <2>14 DEF RegisterInv, FlowInv, InRegister
    <3>2. Some(Held) \in Seq(Command) /\ Some(InRegister) = <<InRegister>> /\ InRegister \in Command /\ Rest \in Seq(Command)
      BY <2>14, PathIs, Pieces
    <3>3. Pending = (Some(Held) \o <<InRegister>>) \o Rest
      BY <3>2, PathIs
    <3>4. [Fifo!Step]_Fifo!vars
      BY <1>1, <2>12, <3>1, <3>2, <3>3, Loses
    <3> QED BY <2>8, <2>10, <3>4 DEF PathInv
  <2> QED BY <2>13, <2>14
<1> QED BY <1>2, <1>3

-----------------------------------------------------------------------------
(* PVMON.                                                                  *)

\* An access: reading the command moves it from the register to PVMON, and only
\* the acknowledgement can lose one, which came after the one PVMON has.
LEMMA AccessRefines ==
  ASSUME TypeInv, PathInv, RegisterInv, TypeInv', UNCHANGED habit, Access
  PROVE  PathInv' /\ [Fifo!Step]_Fifo!vars
<1>0. /\ UNCHANGED <<asked, performed, habit>> /\ Rest' = Rest
      /\ pc \notin {"idle", "act"}
  <2>1. UNCHANGED <<pageVars, wireVars, performed>>
    BY DEF Access, SetIndex, AccessData, CheckIndex
  <2>2. pc \notin {"idle", "act"}
    BY TypesUsed DEF Access, SetIndex, AccessData, CheckIndex, AccessOK
  <2> QED BY <2>1, <2>2 DEF pageVars, wireVars, Rest
<1>a. NumberedInv /\ AckInv
  BY DEF PathInv
<1>t. pc \in {"look", "cmd", "arg", "ack", "str"} /\ (pc \in {"arg", "ack", "str"} => got.cmd \in Command)
      /\ (half # "index" => index \in {Register, "mouse"})
  BY <1>0, TypesUsed DEF AccessOK
<1>1. ASSUME dev'.cmd = dev.cmd, Held' = Held, InRegister' = InRegister, AckInv'
      PROVE  PathInv' /\ [Fifo!Step]_Fifo!vars
  <2>1. NumberedInv'
    BY <1>0, <1>1, <1>a, NumbersStay
  <2>2. [Fifo!Step]_Fifo!vars
    BY <1>0, <1>1, FrontStays
  <2> QED BY <1>1, <2>1, <2>2 DEF PathInv
<1>2. CASE SetIndex
  <2>1. UNCHANGED <<dev, pc, val, got>> /\ half = "index" /\ half' = "data" /\ index' = Register
    BY <1>2 DEF SetIndex
  <2>2. Held' = Held
    BY <2>1 DEF Held
  <2>3. InRegister' = InRegister
    BY <2>1, <2>2 DEF InRegister
  <2>4. AckInv'
    BY <1>0, <1>a, <1>t, <2>1 DEF AckInv, Register
  <2> QED BY <1>1, <2>1, <2>2, <2>3, <2>4
<1>3. CASE AccessData
  <2>1. UNCHANGED <<index, pc, got>> /\ half = "data" /\ half' = "check"
    BY <1>3 DEF AccessData
  <2>2. CASE index # "mouse" /\ pc = "ack"
    <3>1. dev'.cmd = None /\ val' = val
      <4>1. dev' = [dev EXCEPT !.cmd = None] /\ val' = val
        BY <1>3, <2>2 DEF AccessData
      <4> QED BY <4>1, TypesUsed
    <3>2. Held' = Held /\ Held = got.cmd /\ got.cmd \in Command /\ got.cmd # None
      BY <1>t, <2>1, <2>2, NoneAssumption DEF Held
    <3>3. InRegister' = None
      BY <2>1, <2>2, <3>1, <3>2 DEF InRegister
    <3>4. NumberedInv'
      BY <1>0, <1>a, <3>1, <3>2, NumbersStay
    <3>5. AckInv'
      BY <1>0, <1>a, <2>1, <3>1, <3>2 DEF AckInv
    <3>6. CASE dev.cmd \in {None, got.cmd}
      <4>1. InRegister = None
        BY <2>2, <3>2, <3>6 DEF InRegister
      <4>2. [Fifo!Step]_Fifo!vars
        BY <1>0, <3>2, <3>3, <4>1, FrontStays
      <4> QED BY <3>4, <3>5, <4>2 DEF PathInv
    <3>7. CASE dev.cmd \notin {None, got.cmd}
      <4>1. InRegister = dev.cmd /\ InRegister # None
        BY <2>2, <3>2, <3>7 DEF InRegister
      <4>2. habit.slow \/ habit.mouse
        <5>1. habit.slow \in BOOLEAN /\ habit.mouse \in BOOLEAN
          BY Bounds DEF TypeInv
        <5> QED BY <1>a, <2>1, <2>2, <3>7, <5>1 DEF AckInv
      <4>3. /\ Some(Held) \in Seq(Command) /\ Some(InRegister) = <<InRegister>> /\ InRegister \in Command /\ Rest \in Seq(Command)
            /\ (Some(Held) \o Some(None)) \o Rest = Some(Held) \o Rest
        BY <4>1, PathIs, Pieces
      <4>4. Pending = (Some(Held) \o <<InRegister>>) \o Rest /\ Pending' = Some(Held) \o Rest
        BY <1>0, <3>2, <3>3, <4>3, PathIs
      <4>5. [Fifo!Step]_Fifo!vars
        BY <1>0, <4>2, <4>3, <4>4, Loses
      <4> QED BY <3>4, <3>5, <4>5 DEF PathInv
    <3> QED BY <3>6, <3>7
  <2>3. CASE index # "mouse" /\ pc = "cmd"
    <3>1. val' = dev.cmd /\ dev' = dev
      BY <1>3, <2>3 DEF AccessData
    <3>2. index = "cmd"
      BY <1>t, <2>1, <2>3 DEF Register
    <3>3. Held = None /\ Held' = dev.cmd
      BY <2>1, <2>3, <3>1, <3>2 DEF Held
    <3>4. InRegister = dev.cmd /\ InRegister' = None
      BY <2>1, <2>3, <3>1, <3>3 DEF InRegister
    <3>5. NumberedInv'
      BY <1>0, <1>a, <3>1, <3>3, NumbersStay
    <3>6. AckInv'
      BY <1>0, <1>a, <2>1, <2>3, <3>1 DEF AckInv
    <3>7. Pending' = Pending
      <4>1. Pending = (Some(None) \o Some(dev.cmd)) \o Rest /\ Pending' = (Some(dev.cmd) \o Some(None)) \o Rest
        BY <1>0, <3>3, <3>4, PathIs
      <4>2. (Some(None) \o Some(dev.cmd)) \o Rest = Some(dev.cmd) \o Rest /\ (Some(dev.cmd) \o Some(None)) \o Rest = Some(dev.cmd) \o Rest
        BY PathIs, Pieces
      <4> QED BY <4>1, <4>2
    <3>8. [Fifo!Step]_Fifo!vars
      BY <1>0, <3>7, Stays
    <3> QED BY <3>5, <3>6, <3>8 DEF PathInv
  <2>4. CASE index = "mouse" \/ pc \notin {"ack", "cmd"}
    <3>1. dev'.cmd = dev.cmd
      BY <1>3, <1>t, <2>4, TypesUsed DEF AccessData
    <3>2. Held' = Held
      BY <2>1, <2>4 DEF Held
    <3>3. InRegister' = InRegister
      BY <2>1, <3>1, <3>2 DEF InRegister
    <3>4. AckInv'
      BY <1>0, <1>a, <2>1, <2>4, <3>1 DEF AckInv
    <3> QED BY <1>1, <3>1, <3>2, <3>3, <3>4
  <2> QED BY <2>2, <2>3, <2>4
<1>4. CASE CheckIndex
  <2>1. UNCHANGED <<dev, val, index>> /\ half = "check" /\ half' = "index"
    BY <1>4 DEF CheckIndex
  <2>2. CASE index # Register
    <3>1. UNCHANGED <<pc, got>>
      BY <1>4, <2>2 DEF CheckIndex
    <3>2. Held' = Held
      BY <2>1, <2>2, <3>1 DEF Held, Register
    <3>3. InRegister' = InRegister
      BY <2>1, <3>1, <3>2 DEF InRegister
    <3>4. AckInv'
      BY <1>0, <1>a, <1>t, <2>1, <2>2, <3>1 DEF AckInv
    <3> QED BY <1>1, <2>1, <3>2, <3>3, <3>4
  <2>3. CASE index = Register
    <3>1. pc' = Following(val, got) /\ got' = Learnt(val)
      BY <1>4, <2>3 DEF CheckIndex
    <3>2. CASE pc = "look"
      <4>1. pc' \in {"idle", "cmd"} /\ got' = got
        BY <3>1, <3>2 DEF Following, Learnt
      <4>2. Held' = Held /\ Held = None
        BY <2>1, <3>2, <4>1 DEF Held
      <4>3. InRegister' = InRegister
        BY <2>1, <3>2, <4>1, <4>2 DEF InRegister
      <4>4. AckInv'
        BY <1>0, <1>a, <2>1, <4>1 DEF AckInv
      <4> QED BY <1>1, <2>1, <4>2, <4>3, <4>4
    <3>3. CASE pc = "cmd"
      <4>1. pc' = (IF val = None THEN "idle" ELSE "arg") /\ got'.cmd = val /\ index = "cmd"
        BY <2>3, <3>1, <3>3, TypesUsed DEF Following, Learnt, Register
      <4>2. Held' = Held /\ Held = val
        BY <2>1, <3>3, <4>1 DEF Held
      <4>3. InRegister' = InRegister
        BY <2>1, <3>3, <4>1, <4>2 DEF InRegister
      <4>4. AckInv'
        BY <1>0, <1>a, <2>1, <4>1 DEF AckInv
      <4> QED BY <1>1, <2>1, <4>2, <4>3, <4>4
    <3>4. CASE pc = "arg"
      <4>1. pc' = "ack" /\ got'.cmd = got.cmd
        BY <3>1, <3>4, TypesUsed DEF Following, Learnt
      <4>2. Held' = Held /\ Held = got.cmd
        BY <3>4, <4>1 DEF Held
      <4>3. InRegister' = InRegister
        BY <2>1, <3>4, <4>1, <4>2 DEF InRegister
      <4>4. ~habit.slow => dev.cmd = got.cmd
        BY <3>4 DEF RegisterInv, ReadInv
      <4>5. AckInv'
        BY <1>0, <1>a, <2>1, <4>1, <4>4 DEF AckInv
      <4> QED BY <1>1, <2>1, <4>2, <4>3, <4>5
    <3>5. CASE pc \in {"ack", "str"}
      <4>1. pc' \in {"str", "act"} /\ got'.cmd = got.cmd
        BY <3>1, <3>5, TypesUsed DEF Following, Learnt
      <4>2. Held' = Held /\ Held = got.cmd
        BY <3>5, <4>1 DEF Held
      <4>3. pc = "ack" => dev.cmd # got.cmd
        BY <1>a, <2>1, <2>3 DEF AckInv, Register
      <4>4. InRegister' = InRegister
        BY <2>1, <3>5, <4>1, <4>2, <4>3 DEF InRegister
      <4>5. AckInv'
        BY <1>0, <1>a, <2>1, <4>1 DEF AckInv
      <4> QED BY <1>1, <2>1, <4>2, <4>4, <4>5
    <3> QED BY <1>t, <3>2, <3>3, <3>4, <3>5
  <2> QED BY <2>2, <2>3
<1> QED BY <1>2, <1>3, <1>4 DEF Access

LEMMA PollRefines ==
  ASSUME TypeInv, PathInv, TypeInv', UNCHANGED habit, Poll
  PROVE  PathInv' /\ [Fifo!Step]_Fifo!vars
<1>1. /\ UNCHANGED <<asked, performed, habit, dev, index, half>> /\ Rest' = Rest
      /\ pc = "idle" /\ pc' = "look"
  BY DEF Poll, pageVars, wireVars, Rest
<1>2. Held' = Held /\ InRegister' = InRegister
  BY <1>1 DEF Held, InRegister
<1>3. NumberedInv'
  BY <1>1, <1>2, NumbersStay DEF PathInv
<1>4. AckInv'
  BY <1>1 DEF PathInv, AckInv
<1>5. [Fifo!Step]_Fifo!vars
  BY <1>1, <1>2, FrontStays
<1> QED BY <1>3, <1>4, <1>5 DEF PathInv

\* The command carried out is the first of the path.
LEMMA ActRefines ==
  ASSUME TypeInv, PathInv, TypeInv', UNCHANGED habit, Act
  PROVE  PathInv' /\ [Fifo!Step]_Fifo!vars
<1>1. /\ UNCHANGED <<asked, habit, dev, index, half, got>> /\ Rest' = Rest
      /\ pc = "act" /\ pc' = "idle" /\ performed' = Append(performed, got)
  BY DEF Act, pageVars, wireVars, Rest
<1>2. /\ Held = got.cmd /\ got.cmd \in Command /\ got.cmd # None /\ half = "index"
      /\ got \in [cmd : Command, arg : Command \cup {None}, str : Seq(Char)]
  <2>1. half = "index" /\ got.cmd \in Command
    BY <1>1, TypesUsed DEF AccessOK, TypeInv, TypeOK
  <2> QED BY <1>1, <2>1, NoneAssumption, TypesUsed DEF Held
<1>3. Held' = None /\ InRegister = dev.cmd /\ InRegister' = dev.cmd
  <2>1. Held' = None
    BY <1>1 DEF Held
  <2> QED BY <1>1, <2>1 DEF InRegister
<1>4. NumberedInv'
  BY <1>1, <1>3, NumbersStay DEF PathInv
<1>5. AckInv'
  BY <1>1 DEF PathInv, AckInv
<1>6. Pending # <<>> /\ Head(Pending) = got.cmd /\ Pending' = Tail(Pending)
  <2> DEFINE r == Some(dev.cmd) \o Rest
  <2>1. Held \in Command \cup {None} /\ dev.cmd \in Command \cup {None} /\ Rest \in Seq(Command) /\ Held # None
    BY <1>2, PathIs
  <2>2. r \in Seq(Command) /\ (Some(Held) \o Some(dev.cmd)) \o Rest = Some(Held) \o r /\ Some(Held) = <<Held>>
        /\ (Some(None) \o Some(dev.cmd)) \o Rest = r
    BY <2>1, Pieces
  <2>3. Pending = (Some(Held) \o Some(dev.cmd)) \o Rest /\ Pending' = (Some(None) \o Some(dev.cmd)) \o Rest
    BY <1>1, <1>3, PathIs
  <2> HIDE DEF r
  <2>4. Pending = <<got.cmd>> \o r /\ Pending' = r
    BY <1>2, <2>2, <2>3
  <2>5. <<got.cmd>> \in Seq(Command) /\ <<got.cmd>> # <<>> /\ Head(<<got.cmd>>) = got.cmd /\ Tail(<<got.cmd>>) = <<>>
    BY <1>2
  <2>6. <<got.cmd>> \o r # <<>> /\ Head(<<got.cmd>> \o r) = got.cmd /\ Tail(<<got.cmd>> \o r) = <<>> \o r
    BY <2>2, <2>5, FirstOfTwo
  <2>7. <<>> \o r = r
    BY <2>2, ConcatEmptySeq
  <2> QED BY <2>4, <2>6, <2>7
<1>7. [i \in DOMAIN performed' |-> performed'[i].cmd] = Append([i \in DOMAIN performed |-> performed[i].cmd], got.cmd)
  <2> DEFINE R == [cmd : Command, arg : Command \cup {None}, str : Seq(Char)]
  <2> DEFINE f == [i \in DOMAIN performed |-> performed[i].cmd]
  <2> DEFINE g == [i \in DOMAIN performed' |-> performed'[i].cmd]
  <2>1. performed \in Seq(R) /\ Len(performed) \in Nat /\ DOMAIN performed = 1 .. Len(performed)
    BY TypesUsed, LenProperties
  <2>2. /\ performed' \in Seq(R) /\ Len(performed') = Len(performed) + 1 /\ DOMAIN performed' = 1 .. Len(performed) + 1
        /\ \A i \in 1 .. Len(performed) : performed'[i] = performed[i]
        /\ performed'[Len(performed) + 1] = got
    BY <1>1, <1>2, <2>1, AppendProperties, LenProperties
  <2>3. f \in Seq(Command) /\ Len(f) = Len(performed)
    <3>1. \A i \in 1 .. Len(performed) : performed[i].cmd \in Command
      <4> TAKE i \in 1 .. Len(performed)
      <4>1. performed[i] \in R
        BY <2>1, ElementOfSeq
      <4> QED BY <4>1
    <3> QED BY <2>1, <3>1, IsASeq
  <2>4. g \in Seq(Command) /\ Len(g) = Len(performed) + 1
    <3>1. \A i \in 1 .. Len(performed) + 1 : performed'[i].cmd \in Command
      <4> TAKE i \in 1 .. Len(performed) + 1
      <4>1. performed'[i] \in R
        BY <2>2, ElementOfSeq
      <4> QED BY <4>1
    <3> QED BY <2>1, <2>2, <3>1, IsASeq
  <2>5. \A i \in 1 .. Len(performed) : f[i] = performed[i].cmd
    BY <2>1
  <2>6. \A i \in 1 .. Len(performed) + 1 : g[i] = performed'[i].cmd
    BY <2>2
  <2> HIDE DEF f, g, R
  <2>7. /\ Append(f, got.cmd) \in Seq(Command) /\ Len(Append(f, got.cmd)) = Len(performed) + 1
        /\ \A i \in 1 .. Len(performed) : Append(f, got.cmd)[i] = f[i]
        /\ Append(f, got.cmd)[Len(performed) + 1] = got.cmd
    BY <1>2, <2>3, AppendProperties
  <2>8. \A i \in 1 .. Len(g) : g[i] = Append(f, got.cmd)[i]
    <3> TAKE i \in 1 .. Len(g)
    <3>1. CASE i = Len(performed) + 1
      BY <2>1, <2>2, <2>4, <2>6, <2>7, <3>1
    <3>2. CASE i # Len(performed) + 1
      <4>1. i \in 1 .. Len(performed) /\ i \in 1 .. Len(performed) + 1
        BY <2>1, <2>4, <3>2
      <4> QED BY <2>2, <2>5, <2>6, <2>7, <4>1
    <3> QED BY <3>1, <3>2
  <2>9. g = Append(f, got.cmd)
    BY <2>4, <2>7, <2>8, SeqEqual
  <2> QED BY <2>9 DEF f, g
<1>8. Fifo!Perform
  BY <1>1, <1>6, <1>7 DEF Fifo!Perform
<1>9. Fifo!Step
  BY <1>1, <1>8 DEF Fifo!Step, Fifo!Next
<1> QED BY <1>4, <1>5, <1>9 DEF PathInv

\* An interrupt in the access that has read the command takes it from PVMON, which
\* will read the register again: what is there by then may be the next.
LEMMA MouseRefines ==
  ASSUME TypeInv, PathInv, TypeInv', UNCHANGED habit, MouseInterrupt
  PROVE  PathInv' /\ [Fifo!Step]_Fifo!vars
<1>1. /\ UNCHANGED <<asked, performed, habit, dev, pc, half, val, got>> /\ Rest' = Rest
      /\ index # "mouse" /\ index' = "mouse" /\ habit.mouse
  BY DEF MouseInterrupt, pageVars, wireVars, Rest
<1>2. Held' = Held \/ (Held = val /\ Held' = None /\ pc = "cmd")
  BY <1>1 DEF Held
<1>3. NumberedInv'
  BY <1>1, <1>2, NumbersStay DEF PathInv
<1>4. AckInv'
  BY <1>1 DEF PathInv, AckInv
<1>5. CASE Held' = Held
  <2>1. InRegister' = InRegister
    BY <1>1, <1>5 DEF InRegister
  <2> QED BY <1>1, <1>3, <1>4, <1>5, <2>1, FrontStays DEF PathInv
<1>6. CASE Held' # Held
  <2>1. Held # None /\ Held' = None /\ pc = "cmd" /\ Held \in Command
    BY <1>2, <1>6, PathIs
  <2>2. InRegister' = dev.cmd /\ InRegister = (IF dev.cmd = Held THEN None ELSE dev.cmd)
    BY <1>1, <2>1 DEF InRegister
  <2>3. /\ Pending' = Some(dev.cmd) \o Rest /\ Some(dev.cmd) \o Rest \in Seq(Command)
        /\ Some(Held) = <<Held>>
    <3>1. Pending' = (Some(None) \o Some(dev.cmd)) \o Rest
      BY <1>1, <2>1, <2>2, PathIs
    <3>2. (Some(None) \o Some(dev.cmd)) \o Rest = Some(dev.cmd) \o Rest /\ Some(dev.cmd) \o Rest \in Seq(Command)
      BY PathIs, Pieces
    <3> QED BY <2>1, <3>1, <3>2 DEF Some
  <2>4. CASE dev.cmd = Held
    <3>1. Pending = (Some(Held) \o Some(None)) \o Rest
      BY <2>2, <2>4, PathIs
    <3>2. (Some(Held) \o Some(None)) \o Rest = Some(Held) \o Rest
      BY PathIs, Pieces
    <3>3. [Fifo!Step]_Fifo!vars
      BY <1>1, <2>3, <2>4, <3>1, <3>2, Stays
    <3> QED BY <1>3, <1>4, <3>3 DEF PathInv
  <2>5. CASE dev.cmd # Held
    <3> DEFINE q == Some(dev.cmd) \o Rest
    <3>1. Pending = (<<>> \o <<Held>>) \o q
      <4>1. Pending = (Some(Held) \o Some(dev.cmd)) \o Rest
        BY <2>2, <2>5, PathIs
      <4>2. (Some(Held) \o Some(dev.cmd)) \o Rest = Some(Held) \o q
        BY PathIs, Pieces
      <4>3. <<>> \o <<Held>> = <<Held>>
        BY <2>1, ConcatEmptySeq
      <4> QED BY <2>3, <4>1, <4>2, <4>3
    <3>2. Pending' = <<>> \o q
      <4>1. q \in Seq(Command) /\ Pending' = q
        BY <2>3
      <4> QED BY <4>1, ConcatEmptySeq
    <3>3. <<>> \in Seq(Command) /\ q \in Seq(Command)
      BY <2>3, EmptySeq
    <3> HIDE DEF q
    <3>4. [Fifo!Step]_Fifo!vars
      BY <1>1, <2>1, <3>1, <3>2, <3>3, Loses
    <3> QED BY <1>3, <1>4, <3>4 DEF PathInv
  <2> QED BY <2>4, <2>5
<1> QED BY <1>5, <1>6

-----------------------------------------------------------------------------
LEMMA PathInit == Init => PathInv /\ Fifo!Init
<1> SUFFICES ASSUME Init PROVE PathInv /\ Fifo!Init
  OBVIOUS
<1>1. Held = None /\ InRegister = None /\ dev.cmd = None /\ Rest = <<>>
  <2>1. Held = None /\ dev.cmd = None
    BY DEF Init, Held, Nothing
  <2>2. Rest = <<>>
    BY EmptySeq, ConcatEmptySeq DEF Init, Rest
  <2> QED BY <2>1, <2>2 DEF InRegister
<1>2. PathInv
  <2>1. NumberedInv
    BY <1>1 DEF NumberedInv, Older
  <2>2. AckInv
    BY DEF Init, AckInv
  <2> QED BY <2>1, <2>2 DEF PathInv
<1>3. Pending = <<>>
  <2>1. PathOK
    BY TypeInit, PathTypes
  <2>2. Front = <<>>
    BY <1>1, EmptySeq, ConcatEmptySeq DEF Front, Some
  <2> QED BY <1>1, <2>1, <2>2, EmptySeq, ConcatEmptySeq DEF PathOK
<1>4. Fifo!Init
  <2>1. [i \in DOMAIN performed |-> performed[i].cmd] = <<>>
    BY DEF Init
  <2>2. habit.slow \in BOOLEAN /\ habit.mouse \in BOOLEAN
    BY TypeInit, Bounds DEF TypeInv
  <2> QED BY <1>3, <2>1, <2>2 DEF Fifo!Init, Init
<1> QED BY <1>2, <1>4

LEMMA PathNext ==
  TypeInv /\ RegisterInv /\ PathInv /\ TypeInv' /\ [Next /\ UNCHANGED habit]_<<vars, habit>>
  => PathInv' /\ [Fifo!Step]_Fifo!vars
<1> SUFFICES ASSUME TypeInv, RegisterInv, PathInv, TypeInv', [Next /\ UNCHANGED habit]_<<vars, habit>>
             PROVE  PathInv' /\ [Fifo!Step]_Fifo!vars
  OBVIOUS
<1>1. CASE UNCHANGED <<vars, habit>>
  <2>1. UNCHANGED <<asked, performed, habit, dev, index, pc, half, val, got, toWorker, queue>>
    BY <1>1 DEF vars, pageVars, wireVars, guestVars
  <2>2. Rest' = Rest /\ Held' = Held
    BY <2>1 DEF Rest, Held
  <2>3. InRegister' = InRegister
    BY <2>1, <2>2 DEF InRegister
  <2>4. NumberedInv'
    BY <2>1, <2>2, NumbersStay DEF PathInv
  <2>5. AckInv'
    BY <2>1 DEF PathInv, AckInv
  <2>6. [Fifo!Step]_Fifo!vars
    BY <2>1, <2>2, <2>3, FrontStays
  <2> QED BY <2>4, <2>5, <2>6 DEF PathInv
<1>2. CASE Next /\ UNCHANGED habit
  BY <1>2, AsksRefine, PageRefines, WorkerRefines, AccessRefines, PollRefines, ActRefines, MouseRefines DEF Next, Guest
<1> QED BY <1>1, <1>2

\* The whole way of a command, from the page's queue to PVMON, is a queue: for any
\* number of commands and screens and however the threads take turns, commands are
\* carried out in the order in which they were asked for, each at most once and
\* none that was not asked for; and one is lost only where PVMON leaves the
\* register for two seconds or the mouse's interrupt falls into an access.
THEOREM FifoImplemented == Spec => ImplementsFifo
<1>1. Spec => [](TypeInv /\ RegisterInv)
  BY TypeInit, TypeNext, RegisterInit, RegisterNext, PTL DEF Spec
<1> QED BY <1>1, PathInit, PathNext, PTL DEF Spec, ImplementsFifo, Fifo!Spec
=============================================================================
