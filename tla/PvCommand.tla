------------------------------ MODULE PvCommand ------------------------------
(***************************************************************************)
(* Commands from the page to the guest: the page's queue (web/app.js), the *)
(* bridge to the worker the emulator runs in (worker_client.js and         *)
(* worker.js under v86/src/browser), the command registers of the adapter  *)
(* (vga.js) and PVMON, which polls them (guest/pvmon/pvmon.c).             *)
(*                                                                         *)
(* The page and the worker are threads: they share a control block, one    *)
(* word at a time, and messages go from the page to the worker in order.   *)
(* The guest runs inside the worker, one port access at a time, between    *)
(* the worker's own turns.  PVMON reads and writes a register by setting   *)
(* the adapter's index, touching its data port and checking that the index *)
(* is still what it set: the mouse driver's interrupt handler, which uses  *)
(* the same two ports, leaves its own index behind.  An access is repeated *)
(* until the check succeeds; that rd and wr stop after the fourth try is   *)
(* left out, it takes an interrupt into each of them.                      *)
(*                                                                         *)
(* A command stands for its code and its argument alike; that registers    *)
(* hold them in two words matters only where one is read without the       *)
(* other.                                                                  *)
(***************************************************************************)
EXTENDS Naturals, Sequences, FiniteSets

CONSTANTS MaxAsked,    \* bound: commands the page asks for
          Kinds,       \* of which kinds: "scroll", "plain", "string"
          Keys,        \* a scroll's window and direction
          MaxLines,    \* the most lines a scroll carries (15)
          MaxScrolls,  \* queued scrolls beyond which they are dropped (3)
          StrLen,      \* bound: length of a command string
          MaxBlocks,   \* bound: control blocks, one for every screen size
          Habits,      \* bound: what happens in a behaviour -- the kinds and keys of
                       \* commands and how many of them, the number of blocks, and
                       \* whether PVMON may leave a command for two seconds (slow)
                       \* and the mouse interrupt falls between accesses (mouse)
          None         \* the register value 0

ASSUME PvCommandAssumption ==
  /\ {MaxAsked, MaxLines, MaxScrolls, StrLen, MaxBlocks} \subseteq Nat \ {0}
  /\ Kinds \subseteq {"scroll", "plain", "string"}
  /\ \A b \in Habits : /\ b.kinds \subseteq Kinds /\ b.keys \subseteq Keys
                      /\ b.asked \in 1 .. MaxAsked /\ b.blocks \in 1 .. MaxBlocks
                      /\ b.slow \in BOOLEAN /\ b.mouse \in BOOLEAN

Command == [id : 1 .. MaxAsked, kind : Kinds, key : Keys, lines : 0 .. MaxLines]
Char    == [id : 1 .. MaxAsked, n : 1 .. StrLen]

ASSUME NoneAssumption == None \notin Command \cup Char

Least(a, b) == IF a <= b THEN a ELSE b

\* The text of a string command.
Text(c) == IF c.kind = "string" THEN [n \in 1 .. StrLen |-> [id |-> c.id, n |-> n]] ELSE <<>>

VARIABLES
  asked,      \* history: how many commands have been asked for
  queue,      \* page: cmdQueue
  sent,       \* page: cmd_sent
  overdue,    \* page: two seconds have passed since cmdSentAt
  page,       \* page: where in pumpCommands it is: "idle", "seq", "cmd"
  pageBlock,  \* page: the control block it reads, by its number
  toWorker,   \* messages to the worker
  toPage,     \* messages to the page: numbers of new control blocks
  blocks,     \* the control blocks: the words PV_CMD and CMD_SEQ of each
  block,      \* worker: the one it writes
  seq,        \* worker: cmd_seq
  worker,     \* worker: where in mirror_state: "free", "mirror1", "mirror2"
  dev,        \* adapter: pv_cmd, pv_cmd_arg, pv_cmd_str
  index,      \* adapter: the index register, a register or "mouse"
  pc,         \* guest: the access PVMON is at, "idle" or "act"
  half,       \* guest: the part of it that is next: "index", "data", "check"
  val,        \* guest: what the access has read
  got,        \* guest: the command, argument and string read so far
  performed,  \* history: what PVMON has carried out
  habit       \* what happens in this behaviour

pageVars   == <<asked, queue, sent, overdue, page, pageBlock>>
wireVars   == <<toWorker, toPage>>
workerVars == <<blocks, block, seq, worker>>
guestVars  == <<index, pc, half, val, got, performed>>
vars == <<pageVars, wireVars, workerVars, dev, guestVars>>

Nothing == [cmd |-> None, arg |-> None, str |-> <<>>]
NewBlock == [cmd |-> None, seq |-> 0]

Init ==
  /\ asked = 0 /\ queue = <<>> /\ sent = 0 /\ overdue = TRUE
  /\ page = "idle" /\ pageBlock = 1
  /\ toWorker = <<>> /\ toPage = <<>>
  /\ blocks = [b \in 1 .. MaxBlocks |-> NewBlock] /\ block = 1
  /\ seq = 0 /\ worker = "free"
  /\ dev = Nothing
  /\ index = "cmd" /\ pc = "idle" /\ half = "index" /\ val = None
  /\ got = Nothing /\ performed = <<>>
  /\ habit \in Habits

-----------------------------------------------------------------------------
(* The page.                                                               *)

Last(q) == q[Len(q)]
Scrolls(q) == Cardinality({i \in DOMAIN q : q[i].kind = "scroll"})

\* A mutant of the lines two scrolls come to, without the cap; and the lines.
TogetherUncapped(a, b) == a + b
Together(a, b) == Least(MaxLines, a + b)

\* sendCommand and sendCommandString: a scroll may go into the last command of
\* the queue or nowhere; anything else joins the queue and has it looked at.
Ask(c) ==
  /\ page = "idle" /\ asked < habit.asked
  /\ asked' = asked + 1
  /\ LET scroll == c.kind = "scroll" /\ queue # <<>>
         merges == scroll /\ Last(queue).kind = "scroll" /\ Last(queue).key = c.key
     IN \/ /\ merges
           /\ queue' = [queue EXCEPT ![Len(queue)].lines = Together(@, c.lines)]
           /\ UNCHANGED page
        \/ /\ scroll /\ ~merges /\ Scrolls(queue) >= MaxScrolls
           /\ UNCHANGED <<queue, page>>
        \/ /\ ~merges /\ ~(scroll /\ Scrolls(queue) >= MaxScrolls)
           /\ queue' = Append(queue, c)
           /\ page' = "seq"
  /\ UNCHANGED <<sent, overdue, pageBlock, wireVars, workerVars, dev, guestVars>>

\* The interval timer, and the heartbeat: pumpCommands, if there is anything.
TimerPump ==
  /\ page = "idle" /\ queue # <<>>
  /\ page' = "seq"
  /\ UNCHANGED <<asked, queue, sent, overdue, pageBlock, wireVars, workerVars, dev, guestVars>>

\* The rest of pumpCommands: the guest is busy, and not for two seconds yet, or
\* the first of the queue goes out.
Wait == UNCHANGED <<queue, sent, overdue, toWorker>>
SendHead ==
  /\ toWorker' = Append(toWorker, Head(queue))
  /\ queue' = Tail(queue)
  /\ sent' = sent + 1
  /\ overdue' = FALSE

\* guestBusy, that is the getter of pv_cmd: first whether the worker has
\* confirmed all that was sent; and a mutant that takes it for granted.
UnconfirmedNever(b) == FALSE
Unconfirmed(b) == blocks[b].seq < sent

ReadSeq ==
  /\ page = "seq"
  /\ IF Unconfirmed(pageBlock)
     THEN /\ page' = "idle"
          /\ IF overdue THEN SendHead ELSE Wait
     ELSE page' = "cmd" /\ Wait
  /\ UNCHANGED <<asked, pageBlock, toPage, workerVars, dev, guestVars>>

\* ... then what the register holds.
ReadCmd ==
  /\ page = "cmd"
  /\ page' = "idle"
  /\ IF blocks[pageBlock].cmd = None \/ overdue THEN SendHead ELSE Wait
  /\ UNCHANGED <<asked, pageBlock, toPage, workerVars, dev, guestVars>>

\* The message "screen" brings a new control block.
TakeBlock ==
  /\ page = "idle" /\ toPage # <<>>
  /\ pageBlock' = Head(toPage)
  /\ toPage' = Tail(toPage)
  /\ UNCHANGED <<asked, queue, sent, overdue, page, toWorker, workerVars, dev, guestVars>>

TwoSeconds ==
  /\ habit.slow /\ ~overdue
  /\ overdue' = TRUE
  /\ UNCHANGED <<asked, queue, sent, page, pageBlock, wireVars, workerVars, dev, guestVars>>

-----------------------------------------------------------------------------
(* The worker.                                                             *)

\* The adapter's handlers of pv-command and pv-command-string.
Raised(c) == [cmd |-> c, arg |-> IF c.kind = "string" THEN None ELSE c,
              str |-> IF c.kind = "string" THEN Text(c) ELSE dev.str]

\* A command arrives: counted, handed to the adapter, and mirrored.
Deliver ==
  /\ worker = "free" /\ toWorker # <<>>
  /\ toWorker' = Tail(toWorker)
  /\ seq' = seq + 1
  /\ dev' = Raised(Head(toWorker))
  /\ worker' = "mirror1"
  /\ UNCHANGED <<pageVars, toPage, blocks, block, guestVars>>

\* The render timer: mirror_state.
Render ==
  /\ worker = "free"
  /\ worker' = "mirror1"
  /\ UNCHANGED <<pageVars, wireVars, blocks, block, seq, dev, guestVars>>

\* mirror_state stores PV_CMD, then CMD_SEQ; in the mutants, the other way round,
\* and PV_CMD alone.
MirroredCmdOnly(b, step) == [b EXCEPT !.cmd = dev.cmd]
MirroredSeqFirst(b, step) ==
  IF step = "mirror1" THEN [b EXCEPT !.seq = seq] ELSE [b EXCEPT !.cmd = dev.cmd]
Mirrored(b, step) ==
  IF step = "mirror1" THEN [b EXCEPT !.cmd = dev.cmd] ELSE [b EXCEPT !.seq = seq]

Mirror ==
  /\ worker # "free"
  /\ blocks' = [blocks EXCEPT ![block] = Mirrored(@, worker)]
  /\ worker' = IF worker = "mirror1" THEN "mirror2" ELSE "free"
  /\ UNCHANGED <<pageVars, wireVars, block, seq, dev, guestVars>>

\* The guest's screen has changed its size (set_size_graphical).
NewScreen ==
  /\ worker = "free" /\ block < habit.blocks
  /\ block' = block + 1
  /\ toPage' = Append(toPage, block + 1)
  /\ UNCHANGED <<pageVars, toWorker, blocks, seq, worker, dev, guestVars>>

-----------------------------------------------------------------------------
(* PVMON.                                                                  *)

\* The access that follows pc, once it has what it went for: run_host_command
\* looks first, then run_host_command_1 reads command and argument,
\* acknowledges, and reads the string of a command that has one.  In the mutant
\* it acknowledges first.
FollowingAckFirst(v, g) ==
  CASE pc = "look" -> IF v = None THEN "idle" ELSE "cmd"
    [] pc = "cmd"  -> IF v = None THEN "idle" ELSE "ack"
    [] pc = "ack"  -> "arg"
    [] pc = "arg"  -> IF g.cmd.kind = "string" THEN "str" ELSE "act"
    [] pc = "str"  -> IF v = None THEN "act" ELSE "str"
Following(v, g) ==
  CASE pc = "look" -> IF v = None THEN "idle" ELSE "cmd"
    [] pc = "cmd"  -> IF v = None THEN "idle" ELSE "arg"
    [] pc = "arg"  -> "ack"
    [] pc = "ack"  -> IF g.cmd.kind = "string" THEN "str" ELSE "act"
    [] pc = "str"  -> IF v = None THEN "act" ELSE "str"

\* ... what it then knows.
Learnt(v) ==
  CASE pc = "cmd" -> [got EXCEPT !.cmd = v]
    [] pc = "arg" -> [got EXCEPT !.arg = v]
    [] pc = "str" /\ v # None -> [got EXCEPT !.str = Append(@, v)]
    [] OTHER      -> got

\* The register an access is to.
Register == IF pc \in {"look", "ack"} THEN "cmd" ELSE pc

\* PVMON runs between the worker's turns.
Running == worker = "free"

\* The poll timer, or the fast loop.
Poll ==
  /\ Running /\ pc = "idle"
  /\ pc' = "look"
  /\ got' = Nothing
  /\ UNCHANGED <<pageVars, wireVars, workerVars, dev, index, half, val, performed>>

SetIndex ==
  /\ Running /\ pc \notin {"idle", "act"} /\ half = "index"
  /\ index' = Register
  /\ half' = "data"
  /\ UNCHANGED <<pageVars, wireVars, workerVars, dev, pc, val, got, performed>>

\* The access proper.  On somebody else's index it goes to a pointer register.
AccessData ==
  /\ Running /\ half = "data"
  /\ half' = "check"
  /\ IF index = "mouse" THEN UNCHANGED <<dev, val>>
     ELSE CASE pc = "ack" -> dev' = [dev EXCEPT !.cmd = None] /\ UNCHANGED val
            [] pc = "str" -> IF dev.str = <<>> THEN val' = None /\ UNCHANGED dev
                             ELSE val' = Head(dev.str) /\ dev' = [dev EXCEPT !.str = Tail(@)]
            [] pc = "arg" -> val' = dev.arg /\ UNCHANGED dev
            [] OTHER      -> val' = dev.cmd /\ UNCHANGED dev
  /\ UNCHANGED <<pageVars, wireVars, workerVars, index, pc, got, performed>>

CheckIndex ==
  /\ Running /\ half = "check"
  /\ half' = "index"
  /\ IF index # Register THEN UNCHANGED <<pc, got>>
     ELSE pc' = Following(val, got) /\ got' = Learnt(val)
  /\ UNCHANGED <<pageVars, wireVars, workerVars, dev, index, val, performed>>

\* The command itself, and the heartbeat after it.
Act ==
  /\ Running /\ pc = "act"
  /\ performed' = Append(performed, got)
  /\ pc' = "idle"
  /\ UNCHANGED <<pageVars, wireVars, workerVars, dev, index, half, val, got>>

\* PVMOUSE.DRV's interrupt handler.
MouseInterrupt ==
  /\ habit.mouse /\ Running /\ half # "index" /\ index # "mouse"
  /\ index' = "mouse"
  /\ UNCHANGED <<pageVars, wireVars, workerVars, dev, pc, half, val, got, performed>>

-----------------------------------------------------------------------------
Asks == \E c \in [id : {asked + 1}, kind : habit.kinds, key : habit.keys, lines : 1 .. MaxLines] :
          /\ c.kind # "scroll" => c.lines = 1 /\ c.key = CHOOSE k \in habit.keys : TRUE
          /\ Ask(c)

Page   == TimerPump \/ ReadSeq \/ ReadCmd \/ TakeBlock \/ TwoSeconds
Worker == Deliver \/ Render \/ Mirror \/ NewScreen
Access == SetIndex \/ AccessData \/ CheckIndex
Guest  == Poll \/ Access \/ Act \/ MouseInterrupt

Next == Asks \/ Page \/ Worker \/ Guest

Spec == Init /\ [][Next /\ UNCHANGED habit]_<<vars, habit>>

\* The page's timer fires and a turn it begins comes to its end; the worker's
\* event loop gets round to its messages, its timer and the emulator, however
\* often the others are ready; PVMON's timer fires; and not every access that
\* PVMON makes has an interrupt in it.
Fairness ==
  /\ SF_vars(TimerPump) /\ WF_vars(ReadSeq \/ ReadCmd) /\ SF_vars(TakeBlock)
  /\ SF_vars(Deliver) /\ SF_vars(Render) /\ WF_vars(Mirror)
  /\ SF_vars(Poll \/ Access \/ Act)
  /\ SF_vars(AccessData /\ index = Register) /\ SF_vars(CheckIndex /\ index = Register)

FairSpec == Spec /\ Fairness

-----------------------------------------------------------------------------
\* Every variable has its type; in particular a scroll never carries more
\* lines than its four bits hold.
TypeOK ==
  /\ asked \in 0 .. MaxAsked /\ queue \in Seq(Command)
  /\ sent \in Nat /\ overdue \in BOOLEAN
  /\ page \in {"idle", "seq", "cmd"} /\ pageBlock \in 1 .. MaxBlocks
  /\ toWorker \in Seq(Command) /\ toPage \in Seq(1 .. MaxBlocks)
  /\ blocks \in [1 .. MaxBlocks -> [cmd : Command \cup {None}, seq : Nat]]
  /\ block \in 1 .. MaxBlocks /\ seq \in Nat
  /\ worker \in {"free", "mirror1", "mirror2"}
  /\ dev \in [cmd : Command \cup {None}, arg : Command \cup {None}, str : Seq(Char)]
  /\ index \in {"cmd", "arg", "str", "mouse"}
  /\ pc \in {"idle", "look", "cmd", "arg", "ack", "str", "act"}
  /\ half \in {"index", "data", "check"}
  /\ val \in Command \cup Char \cup {None}
  /\ got \in [cmd : Command \cup {None}, arg : Command \cup {None}, str : Seq(Char)]
  /\ performed \in Seq([cmd : Command, arg : Command \cup {None}, str : Seq(Char)])

\* "the command register must not be overwritten before PVMON has taken it"
\* (the getter of pv_cmd): what is raised is there until it is acknowledged.
\* Two seconds without an acknowledgement are the exception.
NotOverwritten ==
  [][~habit.slow /\ dev.cmd # None /\ dev'.cmd # dev.cmd => dev'.cmd = None]_vars

\* PVMON carries a command out with the argument that came with it, unless it
\* was left for two seconds.
OwnArgument ==
  habit.slow \/ \A i \in DOMAIN performed :
    performed[i].cmd.kind # "string" => performed[i].arg = performed[i].cmd

\* The command PVMON is busy with, from the access that brings it on, and the
\* one in the register, if it is another or raised since the acknowledgement.
Held == IF pc \in {"arg", "ack", "str", "act"} THEN got.cmd
        ELSE IF pc = "cmd" /\ half = "check" /\ index = "cmd" THEN val ELSE None
InRegister == IF pc \notin {"str", "act"} /\ dev.cmd = Held THEN None ELSE dev.cmd
Some(c) == IF c = None THEN <<>> ELSE <<c>>

Pending == Some(Held) \o Some(InRegister) \o toWorker \o queue

Fifo == INSTANCE CommandFifo WITH
          Commands <- Command, lossy <- habit.slow \/ habit.mouse, pending <- Pending,
          performed <- [i \in DOMAIN performed |-> performed[i].cmd]

\* From the page's queue to PVMON a command is never carried out twice, out of
\* turn or without having been asked for, and, if PVMON polls and no interrupt
\* falls into its accesses, never lost.
ImplementsFifo == Fifo!Spec

\* No command stays on its way for ever: the path runs empty again and again,
\* there being only so many commands (MaxAsked); and ImplementsFifo says that
\* what leaves it has been carried out, or lost where that may happen.
Carried == []<>(Pending = <<>>)

\* What the string register is for ("string in R_CMDSTR"): a command is carried
\* out with its own string, whole.
OwnString == \A i \in DOMAIN performed : performed[i].str = Text(performed[i].cmd)
=============================================================================
