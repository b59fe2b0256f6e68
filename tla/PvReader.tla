------------------------------ MODULE PvReader ------------------------------
(***************************************************************************)
(* Three programs on one PV socket device: FETCH.EXE (guest/fetch/fetch.c) *)
(* and PAGE.EXE (guest/reader/page.c), which program the adapter           *)
(* themselves, each with a handle that is its own by agreement, and a      *)
(* program that goes through WINSOCK.DLL.  The handle on which a command   *)
(* acts is the one selected last, by whomever.                             *)
(*                                                                         *)
(* Windows 3.11 is cooperative and none of the handlers waits, so a        *)
(* message -- a button, a timer -- is one step; answers arrive between     *)
(* them.  (PvSock has answers between the accesses of a handler.)  A       *)
(* request is answered at once and whole, as the page does it: a header,   *)
(* then the body.  A unit stands for some bytes; it says which request it  *)
(* answers, with which document, and where in the reply it is.             *)
(***************************************************************************)
EXTENDS PvDevice, PvPage, FiniteSetsExt

CONSTANTS Programs,      \* "fetch", "page" and "dial", or some of them
          Casts,         \* bounds: what there is at a time -- the programs used,
                         \* the documents, the lengths of a header, the sizes of
                         \* PAGE's view and how many requests are made
          HandleOf,      \* the handle of each
          MaxReqs,       \* bound: requests, the most of any cast
          HdrMax,        \* how much of a header a reader looks at
          Block,         \* PV_BLOCK, the most a READ asks for
          Chunk,         \* PV_CHUNK, what is drained and parsed at a time
          PumpBlocks,    \* PV_MAX_BLOCKS, blocks in one message
          BufMax,        \* BUF_MAX, what PAGE holds of a document
          ContractHost   \* TRUE if the host may also report an error

ASSUME PvReaderAssumption ==
  /\ Programs \subseteq {"fetch", "page", "dial"}
  /\ \A c \in Casts :
       /\ c.programs \subseteq Programs /\ c.hdrs \subseteq Nat \ {0} /\ c.reqs \in 1 .. MaxReqs
       /\ \A d \in c.docs : d.bundle \in BOOLEAN /\ d.kinds \in Seq(Kinds)
       /\ \A s \in c.sizes : s[2] \in Nat /\ \A k \in Kinds : Heights[k][s[1]] \in Nat
  /\ {MaxReqs, HdrMax, Block, Chunk, PumpBlocks, BufMax} \subseteq Nat \ {0}
  /\ ContractHost \in BOOLEAN
  /\ Programs # {} /\ \A p \in Programs : HandleOf[p] \in Nat
  /\ \A p, q \in Programs : HandleOf[p] = HandleOf[q] => p = q
  /\ NoTarget # "url"

Handles == {HandleOf[p] : p \in Programs}
Readers == Programs \ {"dial"}
Reqs    == 1 .. MaxReqs

\* The units of a reply: a header whose last unit ends in the blank line; then,
\* of a bundle, one with its magic number and the number of its blocks, and two
\* for every block.
BodyLen(d) == IF d.bundle THEN 1 + 2 * Len(d.kinds) ELSE 1
Reply(r, d, hdr) ==
  [n \in 1 .. hdr + BodyLen(d) |->
     LET at == n - hdr
     IN  [req |-> r, n |-> n,
          tag |-> CASE n < hdr -> "hdr"
                    [] n = hdr -> "blank"
                    [] at = 1  -> IF d.bundle THEN "magic" ELSE "text"
                    [] OTHER   -> IF at % 2 = 0 THEN "head" ELSE "load",
          kind |-> IF at > 1 THEN d.kinds[at \div 2] ELSE "none",
          count |-> IF at = 1 THEN Len(d.kinds) ELSE 0]]

\* A reply, and the blocks of its document.
NoReply == [units |-> <<>>, kinds |-> <<>>]
Replied(r, d, hdr) ==
  [units |-> Reply(r, d, hdr), kinds |-> IF d.bundle THEN d.kinds ELSE <<>>]

VARIABLES
  cast,     \* the programs that are used, the documents there are and so on
  sel,      \* adapter: SEL
  dev,      \* adapter: the handle of each program
  fetches,  \* page: fetches under way, [handle, req]
  asked,    \* history: requests made so far
  replies,  \* history: what was answered to each of them
  prog,     \* each program's transfer
  view,     \* PAGE: its view
  now,      \* Windows: GetTickCount
  cut,      \* history: programs whose transfer another one has closed
  late      \* history: programs that asked again before they were answered

vars == <<cast, sel, dev, fetches, asked, replies, prog, view, now, cut, late>>
wire == <<cast, fetches, asked, replies, late>>

\* A program that has just been started; and one that has just asked.
Started0 == [open |-> FALSE, req |-> 0, hdrN |-> 0, inBody |-> FALSE,
             body |-> <<>>, refused |-> FALSE, end |-> "none"]
Asking(r) == [Started0 EXCEPT !.open = TRUE, !.req = r]

Init ==
  /\ cast \in Casts
  /\ sel = CHOOSE h \in Handles : \A g \in Handles : h <= g
  /\ dev = [h \in Handles |-> Blank]
  /\ fetches = {} /\ asked = 0 /\ replies = [r \in Reqs |-> NoReply]
  /\ prog = [p \in Programs |-> Started0]
  /\ view \in {Empty(size[1], size[2]) : size \in cast.sizes}
  /\ now = 0
  /\ cut = {} /\ late = {}

-----------------------------------------------------------------------------
(* What a handler does to the device.                                      *)

\* drop, pv_close: what is closed is the selected handle; and a mutant that
\* closes the program's own.
ClosedHandle(p) == sel
DropDev(p) == IF prog[p].open THEN [dev EXCEPT ![ClosedHandle(p)] = CloseCmd(@)] ELSE dev
DropCut(p) ==
  IF prog[p].open
  THEN cut \cup {q \in Programs \ {p} : prog[q].open /\ HandleOf[q] = ClosedHandle(p)}
  ELSE cut

\* The open of fetch_start and fetch_go, after drop and SEL: the page fetches.
Opened(d, h) == [d EXCEPT ![h] = OpenCmd(SetTarget(@, "url"))]
Ask(p) ==
  /\ asked < cast.reqs
  /\ asked' = asked + 1
  /\ fetches' = fetches \cup {[handle |-> HandleOf[p], req |-> asked + 1]}
  /\ late' = IF \E f \in fetches : f.handle = HandleOf[p] THEN late \cup {p} ELSE late \ {p}
  /\ UNCHANGED <<cast, replies>>

-----------------------------------------------------------------------------
(* What a reader makes of what it reads.                                   *)

\* take_header, consume: the first unit of a chunk that is the body's.  The
\* header ends with the blank line, or when it has been looked at for too long;
\* and a mutant for which the body starts with the next chunk.
EndsOf(s, chunk) == {i \in DOMAIN chunk : chunk[i].tag = "blank" /\ s.hdrN + i <= HdrMax}
BodyFromNext(s, chunk) == IF s.inBody THEN 1 ELSE Len(chunk) + 1
BodyFrom(s, chunk) ==
  CASE s.inBody -> 1
    [] ~s.inBody /\ EndsOf(s, chunk) # {} -> Min(EndsOf(s, chunk)) + 1
    [] OTHER -> Least(Len(chunk), HdrMax - s.hdrN) + 1
BodyFound(s, chunk) ==
  s.inBody \/ EndsOf(s, chunk) # {} \/ s.hdrN + Len(chunk) > HdrMax

\* take_body: FETCH writes it to its file, PAGE keeps what fits its buffer --
\* all of a chunk or nothing; and a mutant that does not ask for room.
FitsAnyway(p, s, units) == TRUE
Fits(p, s, units) == p = "page" => Len(s.body) + Len(units) <= BufMax

Consumed(p, s, chunk) ==
  LET found == BodyFound(s, chunk)
      units == IF found THEN Drop(chunk, BodyFrom(s, chunk) - 1) ELSE <<>>
      t == [s EXCEPT !.hdrN = IF s.inBody THEN @ ELSE @ + BodyFrom(s, chunk) - 1,
                     !.inBody = found]
  IN  IF Fits(p, s, units) THEN [t EXCEPT !.body = @ \o units] ELSE [t EXCEPT !.refused = TRUE]

\* A block, a chunk at a time: After[n] is what its first n units have made of s.
ChunkFrom(n) == ((n - 1) \div Chunk) * Chunk
Eaten(p, s, units) ==
  LET After[n \in 0 .. Len(units)] ==
        IF n = 0 THEN s
        ELSE Consumed(p, After[ChunkFrom(n)], SubSeq(units, ChunkFrom(n) + 1, n))
  IN  After[Len(units)]
AfterBlock(p, x) ==
  IF x.k.state # "data" THEN x
  ELSE [k |-> TakeBlock(x.k, Block), s |-> Eaten(p, x.s, StagedBytes(x.k, Block))]

\* The loop of pv_pump: blocks, as long as there is data, but not for ever.
Pumped(p, k) ==
  LET After[n \in 0 .. PumpBlocks] ==
        IF n = 0 THEN [k |-> k, s |-> prog[p]] ELSE AfterBlock(p, After[n - 1])
  IN  After[PumpBlocks]

\* Whether pv_pump goes on to the end: not while the host still fetches, nor
\* with more data than a message may take; and a mutant that waits for a handle
\* that somebody has closed.
OverUnlessIdle(k) == k.state \notin {"working", "data", "idle"}
Over(k) == k.state \notin {"working", "data"}

\* What the program says then.
Ending(p, k, s) ==
  CASE k.state = "error" -> "failed"
    [] k.state # "error" /\ s.body = <<>> ->
         IF p = "page" THEN "nothing" ELSE IF k.state = "idle" THEN "closed" ELSE "done"
    [] OTHER -> "done"

-----------------------------------------------------------------------------
(* The programs.                                                           *)

\* The handle a program selects before it pumps; and a mutant that takes the
\* one that is selected.
PumpHandleSelected(p) == sel
PumpHandle(p) == HandleOf[p]

\* Get (fetch_start, fetch_go): with an address or without one.  FETCH's button
\* is disabled while it fetches; ABOUT's tabs, which are PAGE's too, are not.
Get(p, address) ==
  /\ p \in Readers /\ (p = "fetch" => ~prog[p].open)
  /\ sel' = HandleOf[p]
  /\ view' = IF p = "page" THEN Freed(view) ELSE view
  /\ IF address
     THEN /\ Ask(p)
          /\ dev' = Opened(DropDev(p), HandleOf[p])
          /\ prog' = [prog EXCEPT ![p] = Asking(asked + 1)]
          /\ cut' = DropCut(p) \ {p}
     ELSE /\ dev' = DropDev(p)
          /\ prog' = [prog EXCEPT ![p].open = FALSE, ![p].end = "none"]
          /\ cut' = DropCut(p)
          /\ UNCHANGED wire
  /\ UNCHANGED now

\* The timer (pv_pump).  At the end comes drop, whose CLOSE is to the handle
\* that has just been selected, and what there is to show.
Pump(p, room) ==
  /\ p \in Readers /\ prog[p].open
  /\ sel' = PumpHandle(p)
  /\ LET x == Pumped(p, dev[PumpHandle(p)])
         end == Ending(p, x.k, x.s)
     IN  IF Over(x.k)
         THEN /\ dev' = [dev EXCEPT ![PumpHandle(p)] = CloseCmd(@)]
              /\ prog' = [prog EXCEPT ![p] = [x.s EXCEPT !.open = FALSE, !.end = end]]
              /\ view' = IF p = "page" /\ end = "done" THEN Presented(view, x.s.body, now, room)
                         ELSE view
         ELSE /\ dev' = [dev EXCEPT ![PumpHandle(p)] = x.k]
              /\ prog' = [prog EXCEPT ![p] = x.s]
              /\ UNCHANGED view
  /\ UNCHANGED <<wire, now, cut>>

\* FETCH's Stop; enabled while it fetches.
Stop ==
  /\ "fetch" \in Programs /\ prog["fetch"].open
  /\ dev' = DropDev("fetch")
  /\ cut' = DropCut("fetch")
  /\ prog' = [prog EXCEPT !["fetch"].open = FALSE, !["fetch"].end = "stopped"]
  /\ UNCHANGED <<sel, wire, view, now>>

\* Close (WM_DESTROY); the program may be started again.
Quit(p) ==
  /\ p \in Readers
  /\ dev' = DropDev(p)
  /\ cut' = DropCut(p)
  /\ prog' = [prog EXCEPT ![p] = Started0]
  /\ view' = IF p = "page" THEN Empty(view.w, view.h) ELSE view
  /\ UNCHANGED <<sel, wire, now>>

\* The Winsock program: WINSOCK.DLL selects its handle in every call.
Dial ==
  /\ "dial" \in Programs /\ ~prog["dial"].open
  /\ Ask("dial")
  /\ sel' = HandleOf["dial"]
  /\ dev' = Opened(dev, HandleOf["dial"])
  /\ prog' = [prog EXCEPT !["dial"] = Asking(asked + 1)]
  /\ cut' = cut \ {"dial"}
  /\ UNCHANGED <<view, now>>

DialTick ==
  /\ "dial" \in Programs /\ prog["dial"].open
  /\ LET h == HandleOf["dial"]
         k == dev[h]
     IN  /\ sel' = h
         /\ IF k.state \in {"closed", "error"}
            THEN /\ dev' = [dev EXCEPT ![h] = CloseCmd(@)]
                 /\ prog' = [prog EXCEPT !["dial"].open = FALSE,
                               !["dial"].end = IF k.state = "error" THEN "failed" ELSE "done"]
            ELSE IF k.state = "data"
            THEN /\ dev' = [dev EXCEPT ![h] = TakeBlock(@, Block)]
                 /\ prog' = [prog EXCEPT !["dial"].body = @ \o StagedBytes(k, Block)]
            ELSE UNCHANGED <<dev, prog>>
  /\ UNCHANGED <<wire, view, now, cut>>

DialClose ==
  /\ "dial" \in Programs /\ prog["dial"].open
  /\ sel' = HandleOf["dial"]
  /\ dev' = [dev EXCEPT ![HandleOf["dial"]] = CloseCmd(@)]
  /\ prog' = [prog EXCEPT !["dial"].open = FALSE, !["dial"].end = "stopped"]
  /\ UNCHANGED <<wire, view, now, cut>>

-----------------------------------------------------------------------------
(* PAGE's view.                                                            *)

HasView == "page" \in cast.programs

Scroll(y, room) ==
  /\ view' = ScrolledTo(view, y, now, room)
  /\ UNCHANGED <<sel, dev, wire, prog, now, cut>>

Size(w, h, room) ==
  /\ view' = Sized(view, w, h, now, room)
  /\ UNCHANGED <<sel, dev, wire, prog, now, cut>>

FrameTick ==
  /\ view.timer
  /\ view' = Ticked(view, now)
  /\ UNCHANGED <<sel, dev, wire, prog, now, cut>>

\* The clock, which matters while a clip plays.  A machine that does not get to
\* its messages for half of the clock's range is left out.
Elapse ==
  /\ view.timer
  /\ \A i \in DOMAIN view.blocks : view.blocks[i].playing =>
       Behind(now, view.blocks[i].due) < ClockWrap \div 2 - 1
  /\ now' = (now + 1) % ClockWrap
  /\ UNCHANGED <<sel, dev, wire, prog, view, cut>>

-----------------------------------------------------------------------------
(* The host.                                                               *)

Answer(f, d, hdr) ==
  /\ fetches' = fetches \ {f}
  /\ replies' = [replies EXCEPT ![f.req] = Replied(f.req, d, hdr)]
  /\ dev' = [dev EXCEPT ![f.handle] = Arrive(@, Reply(f.req, d, hdr), TRUE)]
  /\ UNCHANGED <<cast, sel, asked, late, prog, view, now, cut>>

AnswerError(f) ==
  /\ ContractHost
  /\ fetches' = fetches \ {f}
  /\ dev' = [dev EXCEPT ![f.handle] = Fail(@)]
  /\ UNCHANGED <<cast, sel, asked, replies, late, prog, view, now, cut>>

-----------------------------------------------------------------------------
PumpAny(p) == \E room \in BOOLEAN : Pump(p, room)
HostAnswers == \E f \in fetches : AnswerError(f) \/ \E d \in cast.docs, hdr \in cast.hdrs : Answer(f, d, hdr)
ViewMoves ==
  HasView /\ \E room \in BOOLEAN :
    \/ \E y \in ScrollTargets(view) : Scroll(y, room)
    \/ \E size \in cast.sizes : Size(size[1], size[2], room)

Next ==
  \/ \E p \in cast.programs, address \in BOOLEAN : Get(p, address)
  \/ \E p \in cast.programs : PumpAny(p) \/ Quit(p)
  \/ Stop
  \/ ("dial" \in cast.programs /\ Dial) \/ DialTick \/ DialClose
  \/ ViewMoves
  \/ FrameTick \/ Elapse
  \/ HostAnswers

Spec == Init /\ [][Next]_vars

\* Timers fire and the clock goes on; a fetch comes to its end.  This is weak
\* fairness, with what enables a step that changes something written out where
\* the step takes long to evaluate.
PumpEnabled(p) == prog[p].open /\ (sel # HandleOf[p] \/ dev[HandleOf[p]].state # "working")
TickEnabled == view.timer /\ Ticked(view, now) # view
Fairness ==
  /\ \A p \in Readers : []<>~PumpEnabled(p) \/ []<><<PumpAny(p)>>_vars
  /\ []<>~TickEnabled \/ []<><<FrameTick>>_vars
  /\ WF_vars(Elapse) /\ WF_vars(DialTick) /\ WF_vars(HostAnswers)

FairSpec == Spec /\ Fairness

-----------------------------------------------------------------------------
Unit == [req : Reqs, n : Nat,
         tag : {"hdr", "blank", "magic", "text", "head", "load"},
         kind : Kinds \cup {"none"}, count : Nat]
Transfer ==
  [open : BOOLEAN, req : 0 .. MaxReqs, hdrN : 0 .. HdrMax, inBody : BOOLEAN, body : Seq(Unit),
   refused : BOOLEAN,
   end : {"none", "done", "stopped", "failed", "closed", "nothing"}]
BlockRec ==
  [kind : Kinds, y : Nat, h : Nat, playing : BOOLEAN, ix : Nat, frames : Nat,
   pic : Nat \cup {Garbled}, books : Nat, due : 0 .. ClockWrap - 1]

\* Every variable has its type: a header is never read past its limit, PAGE's
\* buffer never holds more than it may, its list is never longer than its array.
TypeOK ==
  /\ cast \in Casts /\ sel \in Handles /\ dev \in [Handles -> Handle({"url"}, Unit)]
  /\ fetches \subseteq [handle : Handles, req : Reqs]
  /\ asked \in 0 .. MaxReqs
  /\ prog \in [Programs -> Transfer]
  /\ "page" \in Programs => Len(prog["page"].body) <= BufMax
  /\ view.blocks \in Seq(BlockRec) /\ Len(view.blocks) <= MaxBlocks
  /\ view.scroll \in 0 .. Span(view)
  /\ now \in 0 .. ClockWrap - 1
  /\ cut \subseteq Programs /\ late \subseteq Programs

\* "so the two can be fetching at the same time without stealing each other's
\* bytes" (page.c): whatever a program reads answers its own request, unless it
\* had asked before and was not answered yet.
OwnBytes ==
  \A p \in Programs \ late : \A i \in DOMAIN prog[p].body : prog[p].body[i].req = prog[p].req

\* What is left of a reply when its header is gone: all that follows the blank
\* line, or all that follows the most of a header that is looked at.
AfterHeader(s) ==
  LET ends == {i \in 1 .. Least(HdrMax, Len(s)) : s[i].tag = "blank"}
  IN  Drop(s, IF ends # {} THEN Min(ends) ELSE HdrMax)
WholeBody(p) ==
  LET reply == replies[prog[p].req].units
  IN  prog[p].body = IF p = "dial" THEN reply ELSE AfterHeader(reply)

\* A reader that says it is done has the whole of the body and nothing of the
\* header, wherever the reply was cut into blocks and chunks -- unless another
\* program has closed its handle, or it was too much for its buffer (consume,
\* take_header, take_body, pv_pump).
WholeUnlessCut ==
  \A p \in Programs \ (late \cup cut) :
    prog[p].end = "done" /\ ~prog[p].refused => WholeBody(p)

\* The same without the first exception: what another program does is no
\* concern of a reader with a handle of its own ("so take the far end and
\* reselect before every burst", fetch.c; "without stealing", page.c).
WholeWhenDone ==
  \A p \in Programs \ late : prog[p].end = "done" /\ ~prog[p].refused => WholeBody(p)

\* PAGE shows the blocks of the document it was sent, all of them as far as
\* its list has room, or none (parse_page, present).
ShownIsSent ==
  HasView /\ view.blocks # <<>> /\ "page" \notin late \cup cut /\ ~prog["page"].refused =>
    LET kinds == replies[prog["page"].req].kinds
    IN  [i \in DOMAIN view.blocks |-> view.blocks[i].kind]
          = SubSeq(kinds, 1, Least(MaxBlocks, Len(kinds)))

\* A clip that plays shows one of its frames, never the changes of one frame on
\* the picture or the codebooks of another (video_start, video_next, cv_reset):
\* however late its ticks come, after its end, and when it breaks off.
PictureIsFrame ==
  \A i \in DOMAIN view.blocks : view.blocks[i].playing => view.blocks[i].pic # Garbled

\* "A clip that has scrolled away must stop being decoded, and must give its
\* working frame back ... and the frame timer only runs while something is
\* actually playing" (page.c), through scrolling, resizing and new pages.
PlayingIsVisible ==
  /\ \A i \in DOMAIN view.blocks :
       view.blocks[i].playing => OnScreen(view, view.blocks[i])
  /\ view.timer = \E i \in DOMAIN view.blocks : view.blocks[i].playing

\* A transfer comes to its end, also one whose handle another program has
\* closed.
Ends == \A p \in Readers : prog[p].open ~> ~prog[p].open

\* A clip with frames to show goes on to another frame for as long as it plays,
\* also when the clock starts over.
FrameOf(i) == IF i \in DOMAIN view.blocks THEN view.blocks[i].ix ELSE 0
KeepsPlaying ==
  \A i \in 1 .. MaxBlocks :
    LET plays == i \in DOMAIN view.blocks /\ view.blocks[i].playing
                   /\ ClipOf[view.blocks[i].kind].whole >= 2
    IN  <>[]plays => []<><<FrameOf(i)' # FrameOf(i)>>_vars

=============================================================================
