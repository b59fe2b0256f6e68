------------------------------ MODULE PvPixels ------------------------------
(***************************************************************************)
(* The guest's picture on its way to the page: the adapter's dirty range   *)
(* (v86/src/vga.js, screen_fill_buffer), the worker's screen adapter       *)
(* (worker_screen.js) and the page's end (worker_client.js).               *)
(*                                                                         *)
(* There are two paths, and the page has one of them from the start.  On   *)
(* the shared path the pixels and a control block lie in shared memory,    *)
(* which both threads touch one access after another; a spin lock guards   *)
(* the rectangle of what the page has not taken.  On the bitmap path every *)
(* changed region is a message with its pixels.  A new screen size means a *)
(* new buffer, which a message brings to the page.                         *)
(*                                                                         *)
(* The adapter pushes whole rows of the screen, so a rectangle is a range  *)
(* of rows, and a row is the number of the paint that it shows; 0 is what  *)
(* a new buffer and a new canvas hold.                                     *)
(***************************************************************************)
EXTENDS Naturals, Sequences

CONSTANTS Height,     \* rows of the screen
          MaxPaints,  \* bound: paints
          MaxScreens, \* bound: screen sizes
          MaxQueue,   \* regions the page keeps (240)
          Paths       \* subset of {"shared", "bitmap"}

ASSUME PvPixelsAssumption ==
  /\ {Height, MaxPaints, MaxScreens, MaxQueue} \subseteq Nat \ {0}
  /\ Paths \subseteq {"shared", "bitmap"}

Rows == 0 .. Height - 1
Rect == [lo : 0 .. Height, hi : 0 .. Height]
Empty == [lo |-> 0, hi |-> 0]
All   == [lo |-> 0, hi |-> Height]
In(r) == {y \in Rows : r.lo <= y /\ y < r.hi}

Lesser(a, b)  == IF a <= b THEN a ELSE b
Greater(a, b) == IF a <= b THEN b ELSE a
Hull(r, s) == IF r.lo < r.hi THEN [lo |-> Lesser(r.lo, s.lo), hi |-> Greater(r.hi, s.hi)] ELSE s

Picture == [Rows -> 0 .. MaxPaints]
Blank   == [y \in Rows |-> 0]
\* Picture p with the rows of r taken from q.
Copied(p, q, r) == [y \in Rows |-> IF y \in In(r) THEN q[y] ELSE p[y]]

VARIABLES
  path,      \* "shared" or "bitmap"
  paints,    \* history: how many paints there were
  vram,      \* guest: svga_memory
  damage,    \* adapter: the dirty range
  worker,    \* worker: where in update_buffer it is
  region,    \* worker: what it delivers
  seen,      \* worker: the pending rectangle it has read
  screen,    \* worker: the generation of its buffer
  buffers,   \* the shared buffers: pixels, pending rectangle, SEQ, LOCK
  toPage,    \* messages
  page,      \* page: where in apply_pending it is
  gen,       \* page: the generation of the buffer it has, 0 for none
  lastSeq,   \* page: last_seq
  taken,     \* page: the rectangle it copies
  queue,     \* page: regions that have arrived (bitmap path)
  canvas,    \* page: the canvas
  dropped    \* history: rows of dropped regions, until drawn again

guestVars  == <<paints, vram>>
workerVars == <<worker, region, seen, screen>>
pageVars   == <<page, gen, lastSeq, taken, queue, canvas, dropped>>
vars == <<path, guestVars, damage, workerVars, buffers, toPage, pageVars>>

NewBuffer == [px |-> Blank, rect |-> Empty, seq |-> 0, lock |-> 0]

Init ==
  /\ path \in Paths
  /\ paints = 0 /\ vram = Blank /\ damage = All
  /\ worker = "idle" /\ region = Empty /\ seen = Empty /\ screen = 1
  /\ buffers = [b \in 1 .. MaxScreens |-> NewBuffer]
  /\ toPage = <<[t |-> "screen", gen |-> 1]>>
  /\ page = "idle" /\ gen = 0 /\ lastSeq = 0 /\ taken = Empty
  /\ queue = <<>> /\ canvas = Blank /\ dropped = {}

-----------------------------------------------------------------------------
(* The worker: the guest, the adapter, and the screen adapter.             *)

\* The guest draws over some rows.
Paint ==
  /\ worker = "idle" /\ paints < MaxPaints
  /\ paints' = paints + 1
  /\ \E r \in Rect :
       /\ In(r) # {}
       /\ vram' = [y \in Rows |-> IF y \in In(r) THEN paints' ELSE vram[y]]
       /\ damage' = Hull(damage, r)
  /\ UNCHANGED <<path, workerVars, buffers, toPage, pageVars>>

\* A new mode: set_size_graphical allocates, and everything is to be redrawn.
NewScreen ==
  /\ worker = "idle" /\ screen < MaxScreens
  /\ screen' = screen + 1
  /\ toPage' = Append(toPage, [t |-> "screen", gen |-> screen + 1])
  /\ damage' = All
  /\ UNCHANGED <<path, guestVars, worker, region, seen, buffers, pageVars>>

\* screen_fill_buffer: what has changed goes to update_buffer.
Fill ==
  /\ worker = "idle" /\ In(damage) # {}
  /\ damage' = Empty
  /\ IF path = "bitmap"
     THEN /\ toPage' = Append(toPage, [t |-> "frame", gen |-> screen, rect |-> damage, px |-> vram])
          /\ UNCHANGED <<worker, region>>
     ELSE /\ worker' = "copy" /\ region' = damage
          /\ UNCHANGED toPage
  /\ UNCHANGED <<path, guestVars, seen, screen, buffers, pageVars>>

\* What a step of update_buffer does to the buffer; in the mutants it replaces
\* the rectangle the page has not taken, and copies the pixels after SEQ.
StoredReplacing(b) ==
  CASE worker = "copy"   -> [b EXCEPT !.px = Copied(@, vram, region)]
    [] worker = "lock"   -> [b EXCEPT !.lock = 1]
    [] worker = "merge"  -> b
    [] worker = "store"  -> [b EXCEPT !.rect = region]
    [] worker = "unlock" -> [b EXCEPT !.lock = 0]
    [] worker = "bump"   -> [b EXCEPT !.seq = @ + 1]
StoredLate(b) ==
  CASE worker = "copy"   -> [b EXCEPT !.seq = @ + 1]
    [] worker = "lock"   -> [b EXCEPT !.lock = 1]
    [] worker = "merge"  -> b
    [] worker = "store"  -> [b EXCEPT !.rect = Hull(seen, region)]
    [] worker = "unlock" -> [b EXCEPT !.lock = 0]
    [] worker = "bump"   -> [b EXCEPT !.px = Copied(@, vram, region)]
Stored(b) ==
  CASE worker = "copy"   -> [b EXCEPT !.px = Copied(@, vram, region)]
    [] worker = "lock"   -> [b EXCEPT !.lock = 1]
    [] worker = "merge"  -> b
    [] worker = "store"  -> [b EXCEPT !.rect = Hull(seen, region)]
    [] worker = "unlock" -> [b EXCEPT !.lock = 0]
    [] worker = "bump"   -> [b EXCEPT !.seq = @ + 1]

After == [copy |-> "lock", lock |-> "merge", merge |-> "store", store |-> "unlock",
          unlock |-> "bump", bump |-> "idle"]

\* rect_lock comes to its end.  (A thread that has spun 100000 times goes on
\* without the lock; it takes a thread that loses the processor in the middle of
\* three accesses, and is left out.)
Locked(b) == buffers[b].lock = 0

Publish ==
  /\ worker # "idle"
  /\ worker = "lock" => Locked(screen)
  /\ buffers' = [buffers EXCEPT ![screen] = Stored(@)]
  /\ seen' = IF worker = "merge" THEN buffers[screen].rect ELSE seen
  /\ worker' = After[worker]
  /\ UNCHANGED <<path, guestVars, damage, region, screen, toPage, pageVars>>

-----------------------------------------------------------------------------
(* The page.                                                               *)

\* A screen: a new buffer, and a canvas of its size.
TakeScreen ==
  /\ page = "idle" /\ toPage # <<>> /\ Head(toPage).t = "screen"
  /\ gen' = Head(toPage).gen
  /\ lastSeq' = 0
  /\ queue' = <<>>
  /\ canvas' = Blank
  /\ toPage' = Tail(toPage)
  /\ dropped' = {}
  /\ UNCHANGED <<path, guestVars, damage, workerVars, buffers, page, taken>>

\* A region; if there are too many the oldest goes, in the mutant none.
EnqueuedAll(q) == q
Enqueued(q) == IF Len(q) > MaxQueue THEN Tail(q) ELSE q
TakeFrame ==
  /\ page = "idle" /\ toPage # <<>> /\ Head(toPage).t = "frame"
  /\ LET q == Append(queue, Head(toPage))
     IN /\ queue' = Enqueued(q)
        /\ dropped' = dropped \cup UNION {In(q[i].rect) : i \in 1 .. Len(q) - Len(queue')}
  /\ toPage' = Tail(toPage)
  /\ UNCHANGED <<path, guestVars, damage, workerVars, buffers, page, gen, lastSeq, taken, canvas>>

\* The canvas when the regions of q have been drawn one after the other, but for
\* those of another generation: a row is what the last of those it is in shows.
Covering(q, y) == {i \in DOMAIN q : q[i].gen = gen /\ y \in In(q[i].rect)}
Drawn(q) ==
  [y \in Rows |-> LET c == Covering(q, y)
                 IN IF c = {} THEN canvas[y] ELSE q[CHOOSE i \in c : \A j \in c : j <= i].px[y]]

\* apply_pending on the bitmap path.
SyncBitmaps ==
  /\ page = "idle" /\ path = "bitmap" /\ gen # 0 /\ queue # <<>>
  /\ canvas' = Drawn(queue)
  /\ dropped' = dropped \ UNION {In(queue[i].rect) : i \in DOMAIN queue}
  /\ queue' = <<>>
  /\ UNCHANGED <<path, guestVars, damage, workerVars, buffers, toPage, page, gen, lastSeq, taken>>

\* apply_pending on the shared path: nothing new, or the rectangle is taken ...
ReadSeq ==
  /\ page = "idle" /\ path = "shared" /\ gen # 0
  /\ buffers[gen].seq # lastSeq
  /\ lastSeq' = buffers[gen].seq
  /\ page' = "lock"
  /\ UNCHANGED <<path, guestVars, damage, workerVars, buffers, toPage, gen, taken, queue, canvas, dropped>>

\* ... under the lock ...
TakeRect ==
  /\ page \in {"lock", "take", "clear", "unlock"}
  /\ page = "lock" => Locked(gen)
  /\ buffers' = [buffers EXCEPT ![gen] =
        CASE page = "lock"   -> [@ EXCEPT !.lock = 1]
          [] page = "take"   -> @
          [] page = "clear"  -> [@ EXCEPT !.rect = Empty]
          [] page = "unlock" -> [@ EXCEPT !.lock = 0]]
  /\ taken' = IF page = "take" THEN buffers[gen].rect ELSE taken
  /\ page' = CASE page = "lock"   -> "take"
               [] page = "take"   -> "clear"
               [] page = "clear"  -> "unlock"
               [] page = "unlock" -> IF In(taken) = {} THEN "idle" ELSE "copy"
  /\ UNCHANGED <<path, guestVars, damage, workerVars, toPage, gen, lastSeq, queue, canvas, dropped>>

\* ... and its rows are copied.
CopyRows ==
  /\ page = "copy"
  /\ page' = "idle"
  /\ canvas' = Copied(canvas, buffers[gen].px, taken)
  /\ UNCHANGED <<path, guestVars, damage, workerVars, buffers, toPage, gen, lastSeq, taken, queue, dropped>>

-----------------------------------------------------------------------------
Worker == Paint \/ NewScreen \/ Fill \/ Publish
Page   == TakeScreen \/ TakeFrame \/ SyncBitmaps \/ ReadSeq \/ TakeRect \/ CopyRows
Next   == Worker \/ Page

Spec == Init /\ [][Next]_vars

\* The render timer fires, an update that has begun goes on, messages arrive,
\* and the page composites.
Fairness ==
  /\ WF_vars(Fill) /\ WF_vars(Publish)
  /\ WF_vars(TakeScreen \/ TakeFrame) /\ WF_vars(SyncBitmaps)
  /\ WF_vars(ReadSeq) /\ WF_vars(TakeRect \/ CopyRows)
FairSpec == Spec /\ Fairness

-----------------------------------------------------------------------------
\* Every variable has its type.
TypeOK ==
  /\ path \in Paths /\ paints \in 0 .. MaxPaints /\ vram \in Picture
  /\ {damage, region, seen, taken} \subseteq Rect
  /\ worker \in {"idle"} \cup DOMAIN After /\ screen \in 1 .. MaxScreens
  /\ buffers \in [1 .. MaxScreens -> [px : Picture, rect : Rect, seq : Nat, lock : {0, 1}]]
  /\ page \in {"idle", "lock", "take", "clear", "unlock", "copy"}
  /\ gen \in 0 .. MaxScreens /\ lastSeq \in Nat
  /\ Len(queue) <= MaxQueue /\ canvas \in Picture /\ dropped \subseteq Rows

\* The rows that are on their way to the canvas: still to be pushed; in the
\* worker's hands; in the pending rectangle, with a SEQ that makes the page
\* look or is about to; in the page's hands; or in a message or the queue.
Published == IF buffers[screen].seq # lastSeq \/ worker # "idle" \/ page \in {"lock", "take"}
             THEN In(buffers[screen].rect) ELSE {}
Fetched   == IF page \in {"clear", "unlock", "copy"} THEN In(taken) ELSE {}
Carried   == UNION {In(q.rect) : q \in {m \in {queue[i] : i \in DOMAIN queue} \cup
                                              {toPage[i] : i \in DOMAIN toPage} : m.t = "frame"}}
UnderWay == In(damage)
            \cup (IF worker \in {"copy", "lock", "merge", "store"} THEN In(region) ELSE {})
            \cup Published \cup Fetched \cup Carried

\* "Both paths deliver the same thing to the page: these rows of the guest screen
\* changed": with the worker's buffer in hand, a row of the canvas that is not
\* what the guest shows is on its way.  (Rows of a dropped region are the exception.)
NoRowForgotten ==
  gen = screen => \A y \in Rows \ dropped : canvas[y] # vram[y] => y \in UnderWay

\* When the guest has stopped drawing, the canvas comes to show its screen.
CatchesUp ==
  <>[](\A y \in Rows \ dropped : canvas[y] = vram[y])
=============================================================================
