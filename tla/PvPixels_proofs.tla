---------------------------- MODULE PvPixels_proofs ----------------------------
(***************************************************************************)
(* Proofs about PvPixels, for any height of the screen, any number of      *)
(* paints, screens and queued regions, and both paths: type correctness,   *)
(* and that a row which the page shows wrongly is on its way to it.        *)
(***************************************************************************)
EXTENDS PvPixels, SequenceTheorems, WellFoundedInduction, TLAPS

-----------------------------------------------------------------------------
(* Rows, regions and sequences.                                            *)

\* The bounds as numbers.
LEMMA Bounds ==
  /\ Height \in Nat \ {0} /\ MaxPaints \in Nat \ {0} /\ MaxScreens \in Nat \ {0} /\ MaxQueue \in Nat \ {0}
  /\ Rows \subseteq Nat /\ Empty \in Rect /\ All \in Rect /\ Blank \in Picture
  /\ In(Empty) = {} /\ In(All) = Rows
<1>1. Height \in Nat \ {0} /\ MaxPaints \in Nat \ {0} /\ MaxScreens \in Nat \ {0} /\ MaxQueue \in Nat \ {0}
  BY PvPixelsAssumption
<1>2. Rows \subseteq Nat /\ Empty \in Rect /\ All \in Rect /\ Blank \in Picture
  BY <1>1 DEF Rows, Empty, All, Rect, Blank, Picture
<1>3. In(Empty) = {} /\ In(All) = Rows
  BY <1>1 DEF In, Empty, All, Rows
<1> QED BY <1>1, <1>2, <1>3

\* The hull of two ranges of rows is one, and holds the rows of both.
LEMMA HullHolds ==
  ASSUME NEW r \in Rect, NEW s \in Rect
  PROVE  Hull(r, s) \in Rect /\ In(r) \subseteq In(Hull(r, s)) /\ In(s) \subseteq In(Hull(r, s))
<1>1. r.lo \in Nat /\ r.hi \in Nat /\ s.lo \in Nat /\ s.hi \in Nat
  BY Bounds DEF Rect
<1>2. CASE r.lo < r.hi
  <2>1. Hull(r, s) = [lo |-> Lesser(r.lo, s.lo), hi |-> Greater(r.hi, s.hi)]
    BY <1>2 DEF Hull
  <2>2. Lesser(r.lo, s.lo) \in 0 .. Height /\ Greater(r.hi, s.hi) \in 0 .. Height
    BY DEF Rect, Lesser, Greater
  <2>3. /\ Lesser(r.lo, s.lo) <= r.lo /\ Lesser(r.lo, s.lo) <= s.lo
        /\ Greater(r.hi, s.hi) >= r.hi /\ Greater(r.hi, s.hi) >= s.hi
    BY <1>1 DEF Lesser, Greater
  <2>4. \A y \in Rows : y \in In(r) \/ y \in In(s) => y \in In(Hull(r, s))
    BY <1>1, <2>1, <2>2, <2>3, Bounds DEF In
  <2>5. Hull(r, s) \in Rect
    BY <2>1, <2>2 DEF Rect
  <2> QED BY <2>4, <2>5 DEF In
<1>3. CASE ~(r.lo < r.hi)
  <2>1. Hull(r, s) = s
    BY <1>3 DEF Hull
  <2>2. \A y \in Rows : ~(r.lo <= y /\ y < r.hi)
    BY <1>1, <1>3, Bounds
  <2>3. In(r) = {}
    BY <2>2 DEF In
  <2> QED BY <2>1, <2>3
<1> QED BY <1>2, <1>3

\* A picture with rows of another is a picture.
LEMMA CopiedType ==
  ASSUME NEW p \in Picture, NEW q \in Picture, NEW r
  PROVE  Copied(p, q, r) \in Picture
BY DEF Copied, Picture

\* A nonempty set of positions has a last one.
LEMMA LatestIn ==
  ASSUME NEW n \in Nat, NEW S \in SUBSET (1 .. n), S # {}
  PROVE  \E i \in S : \A j \in S : j <= i
<1> DEFINE R == OpToRel(<, Nat)
<1> DEFINE T == {n - i : i \in S}
<1>1. R = {p \in Nat \X Nat : p[1] < p[2]}
  BY Zenon DEF OpToRel
<1>2. T \subseteq Nat /\ T # {}
  <2>1. \A i \in S : n - i \in Nat
    OBVIOUS
  <2> QED BY <2>1
<1>3. PICK x \in T : \A y \in T : <<y, x>> \notin R
  <2> HIDE DEF T
  <2> QED BY <1>2, NatLessThanWellFounded, WFMin
<1>4. PICK i \in S : x = n - i
  BY <1>3
<1>5. \A j \in S : j <= i
  <2> TAKE j \in S
  <2>1. n - j \in T /\ x \in Nat /\ n - j \in Nat
    BY <1>2, <1>3
  <2>2. ~(n - j < x)
    <3> HIDE DEF T
    <3> QED BY <1>1, <1>3, <2>1
  <2> QED BY <1>4, <2>1, <2>2
<1> QED BY <1>4, <1>5

\* The first of a sequence and the rest; and an element appended.
LEMMA HeadTail ==
  ASSUME NEW S, NEW s \in Seq(S), s # <<>>
  PROVE  /\ Head(s) \in S /\ Tail(s) \in Seq(S) /\ Len(Tail(s)) = Len(s) - 1 /\ Len(s) \in Nat
         /\ 1 \in DOMAIN s /\ Head(s) = s[1] /\ DOMAIN s = 1 .. Len(s)
         /\ \A i \in DOMAIN Tail(s) : i \in Nat /\ i >= 1 /\ i + 1 \in DOMAIN s /\ Tail(s)[i] = s[i + 1]
         /\ \A i \in DOMAIN s : i = 1 \/ (i - 1 \in DOMAIN Tail(s) /\ Tail(s)[i - 1] = s[i])
<1>1. Head(s) \in S /\ Tail(s) \in Seq(S) /\ Len(Tail(s)) = Len(s) - 1 /\ Len(s) \in Nat /\ Len(s) >= 1
  BY HeadTailProperties, LenProperties, EmptySeq
<1>2. DOMAIN s = 1 .. Len(s) /\ DOMAIN Tail(s) = 1 .. Len(s) - 1
  BY <1>1, LenProperties
<1>3. \A i \in 1 .. Len(s) - 1 : Tail(s)[i] = s[i + 1]
  BY <1>1, HeadTailProperties
<1>4. \A i \in 1 .. Len(s) : i = 1 \/ (i - 1 \in 1 .. Len(s) - 1 /\ Tail(s)[i - 1] = s[i])
  BY <1>1, <1>3
<1>5. Head(s) = s[1] /\ 1 \in DOMAIN s
  BY <1>1, <1>2
<1> QED BY <1>1, <1>2, <1>3, <1>4, <1>5

LEMMA Appended ==
  ASSUME NEW S, NEW s \in Seq(S), NEW e \in S
  PROVE  /\ Append(s, e) \in Seq(S) /\ Len(Append(s, e)) = Len(s) + 1 /\ Len(s) \in Nat
         /\ DOMAIN s = 1 .. Len(s) /\ DOMAIN Append(s, e) = 1 .. Len(s) + 1
         /\ \A i \in DOMAIN s : Append(s, e)[i] = s[i]
         /\ Append(s, e)[Len(s) + 1] = e
BY AppendProperties, LenProperties

-----------------------------------------------------------------------------
(* What the steps keep, in parts.                                          *)

\* Messages and regions, and what the bitmap path does not use.
Screens == [t : {"screen"}, gen : 1 .. MaxScreens]
Frames  == [t : {"frame"}, gen : 1 .. MaxScreens, rect : Rect, px : Picture]
TypeInv ==
  /\ TypeOK
  /\ toPage \in Seq(Screens \cup Frames) /\ queue \in Seq(Frames)
  /\ page # "idle" => gen # 0 /\ path = "shared"
  /\ path = "bitmap" => worker = "idle"
  /\ path = "shared" => queue = <<>> /\ \A i \in DOMAIN toPage : toPage[i].t = "screen"

\* Messages arrive in the order of the screens they are about: a region that
\* arrives is of the screen the page has.
OrderInv ==
  /\ gen <= screen
  /\ \A i \in DOMAIN toPage :
       /\ gen <= toPage[i].gen /\ toPage[i].gen <= screen
       /\ toPage[i].t = "screen" => gen < toPage[i].gen
       /\ toPage[i].t = "frame" =>
            toPage[i].gen = gen \/ \E j \in DOMAIN toPage : j < i /\ toPage[j] = [t |-> "screen", gen |-> toPage[i].gen]
  /\ \A i, j \in DOMAIN toPage : i < j =>
       toPage[i].gen <= toPage[j].gen /\ (toPage[j].t = "screen" => toPage[i].gen < toPage[j].gen)
  /\ gen = screen \/ \E i \in DOMAIN toPage : toPage[i] = [t |-> "screen", gen |-> screen]
  /\ \A i \in DOMAIN queue : queue[i].gen = gen

\* Whoever is between the two ends of the lock's section has it, and alone.
Inside     == worker \in {"merge", "store", "unlock"}
PageInside == page \in {"take", "clear", "unlock"}
LockInv ==
  /\ Inside => buffers[screen].lock = 1
  /\ PageInside => buffers[gen].lock = 1
  /\ gen = screen => ~(Inside /\ PageInside)
  /\ worker = "store" => seen = buffers[screen].rect
  /\ page = "clear" => taken = buffers[gen].rect

\* A row is in the worker's hands, or in one of the regions of s.
InHand(y) == worker \in {"copy", "lock", "merge", "store"} /\ y \in In(region)
InOneOf(s, y) == \E i \in DOMAIN s : s[i].t = "frame" /\ y \in In(s[i].rect)

\* The shared path.  A row of the buffer is what the guest shows, or still to be
\* copied; SEQ only rises; of a screen the page does not have yet, everything is
\* to be copied or to be found in the rectangle.
SharedInv ==
  path = "shared" =>
    /\ \A y \in Rows : buffers[screen].px[y] # vram[y] =>
         y \in In(damage) \/ (worker = "copy" /\ y \in In(region))
    /\ gen = screen => lastSeq <= buffers[screen].seq
    /\ gen # screen => \A y \in Rows :
         \/ y \in In(damage) \/ InHand(y)
         \/ y \in In(buffers[screen].rect) /\ (buffers[screen].seq # 0 \/ worker # "idle")

\* The bitmap path.  A region shows a row as the guest does, or another after it
\* has the row, or will have; and of a screen the page does not have yet,
\* everything is to be sent or on its way.
BitmapInv ==
  path = "bitmap" =>
    /\ \A i \in DOMAIN toPage : toPage[i].t = "frame" => \A y \in Rows : toPage[i].px[y] # vram[y] =>
         \/ y \in In(damage)
         \/ \E j \in DOMAIN toPage : i < j /\ toPage[j].t = "frame" /\ y \in In(toPage[j].rect)
    /\ \A i \in DOMAIN queue : \A y \in Rows : queue[i].px[y] # vram[y] =>
         \/ y \in In(damage) \/ InOneOf(toPage, y)
         \/ \E j \in DOMAIN queue : i < j /\ y \in In(queue[j].rect)
    /\ gen # screen => \A y \in Rows :
         \/ y \in In(damage)
         \/ \E i \in DOMAIN toPage : toPage[i].t = "frame" /\ toPage[i].gen = screen /\ y \in In(toPage[i].rect)

\* NoRowForgotten, of either path what it is about.
OnItsWay(y) ==
  \/ y \in In(damage) \/ InHand(y)
  \/ path = "shared" /\ (y \in Published \/ y \in Fetched)
  \/ path = "bitmap" /\ (InOneOf(queue, y) \/ InOneOf(toPage, y))
RowInv == gen = screen => \A y \in Rows \ dropped : canvas[y] # vram[y] => OnItsWay(y)

IInv == TypeInv /\ OrderInv /\ LockInv /\ SharedInv /\ BitmapInv /\ RowInv

\* What the steps below use of the types.
LEMMA TypesUsed ==
  ASSUME TypeInv
  PROVE  /\ vram \in Picture /\ canvas \in Picture /\ screen \in 1 .. MaxScreens /\ gen \in 0 .. MaxScreens
         /\ damage \in Rect /\ region \in Rect /\ seen \in Rect /\ taken \in Rect /\ lastSeq \in Nat
         /\ buffers \in [1 .. MaxScreens -> [px : Picture, rect : Rect, seq : Nat, lock : {0, 1}]]
         /\ toPage \in Seq(Screens \cup Frames) /\ queue \in Seq(Frames) /\ path \in {"shared", "bitmap"}
         /\ worker \in {"idle", "copy", "lock", "merge", "store", "unlock", "bump"}
         /\ page \in {"idle", "lock", "take", "clear", "unlock", "copy"}
         /\ page # "idle" => gen # 0 /\ path = "shared"
         /\ path = "bitmap" => worker = "idle"
         /\ path = "shared" => queue = <<>> /\ \A i \in DOMAIN toPage : toPage[i].t = "screen"
<1>1. DOMAIN After = {"copy", "lock", "merge", "store", "unlock", "bump"}
  BY DEF After
<1>2. path \in {"shared", "bitmap"}
  BY PvPixelsAssumption DEF TypeInv, TypeOK
<1> QED BY <1>1, <1>2 DEF TypeInv, TypeOK

LEMMA TypeInit == Init => TypeInv
<1> SUFFICES ASSUME Init PROVE TypeInv
  OBVIOUS
<1>1. path \in Paths /\ paints = 0 /\ vram = Blank /\ damage = All /\ worker = "idle" /\ region = Empty /\ seen = Empty /\ screen = 1
  BY DEF Init
<1>2. page = "idle" /\ gen = 0 /\ lastSeq = 0 /\ taken = Empty /\ queue = <<>> /\ canvas = Blank /\ dropped = {}
  BY DEF Init
<1>3. toPage = <<[t |-> "screen", gen |-> 1]>>
  BY DEF Init
<1>4. toPage \in Seq(Screens \cup Frames)
  <2>1. [t |-> "screen", gen |-> 1] \in Screens \cup Frames
    BY Bounds DEF Screens
  <2> QED BY <1>3, <2>1
<1>5. buffers \in [1 .. MaxScreens -> [px : Picture, rect : Rect, seq : Nat, lock : {0, 1}]]
  BY Bounds DEF Init, NewBuffer
<1>6. queue \in Seq(Frames) /\ Len(queue) = 0
  BY <1>2
<1>7. TypeOK
  BY <1>1, <1>2, <1>5, <1>6, Bounds DEF TypeOK
<1>8. \A i \in DOMAIN toPage : toPage[i].t = "screen"
  BY <1>3
<1> QED BY <1>1, <1>2, <1>4, <1>6, <1>7, <1>8 DEF TypeInv

\* A step of update_buffer on the worker's buffer.
LEMMA StoredType ==
  ASSUME TypeInv, worker # "idle"
  PROVE  Stored(buffers[screen]) \in [px : Picture, rect : Rect, seq : Nat, lock : {0, 1}]
<1> DEFINE b == buffers[screen]
<1>1. b \in [px : Picture, rect : Rect, seq : Nat, lock : {0, 1}]
  BY TypesUsed
<1>2. Copied(b.px, vram, region) \in Picture
  BY <1>1, TypesUsed, CopiedType
<1>3. Hull(seen, region) \in Rect
  BY TypesUsed, HullHolds
<1> HIDE DEF b
<1>4. worker \in {"copy", "lock", "merge", "store", "unlock", "bump"}
  BY TypesUsed
<1>5. Stored(b) \in [px : Picture, rect : Rect, seq : Nat, lock : {0, 1}]
  <2>1. CASE worker = "copy"
    BY <1>1, <1>2, <2>1 DEF Stored
  <2>2. CASE worker = "lock"
    BY <1>1, <2>2 DEF Stored
  <2>3. CASE worker = "merge"
    BY <1>1, <2>3 DEF Stored
  <2>4. CASE worker = "store"
    BY <1>1, <1>3, <2>4 DEF Stored
  <2>5. CASE worker = "unlock"
    BY <1>1, <2>5 DEF Stored
  <2>6. CASE worker = "bump"
    BY <1>1, <2>6 DEF Stored
  <2> QED BY <1>4, <2>1, <2>2, <2>3, <2>4, <2>5, <2>6
<1> QED BY <1>5 DEF b

\* The rows of the canvas when the regions in the queue have been drawn.
LEMMA DrawnRows ==
  ASSUME TypeInv
  PROVE  /\ Drawn(queue) \in Picture
         /\ \A y \in Rows :
              IF Covering(queue, y) = {} THEN Drawn(queue)[y] = canvas[y]
              ELSE \E i \in Covering(queue, y) :
                     (\A j \in Covering(queue, y) : j <= i) /\ Drawn(queue)[y] = queue[i].px[y]
<1>1. queue \in Seq(Frames) /\ canvas \in Picture /\ Len(queue) \in Nat /\ DOMAIN queue = 1 .. Len(queue)
  BY TypesUsed, LenProperties
<1> DEFINE D(y) == LET c == Covering(queue, y)
                   IN IF c = {} THEN canvas[y] ELSE queue[CHOOSE i \in c : \A j \in c : j <= i].px[y]
<1>2. Drawn(queue) = [y \in Rows |-> D(y)]
  BY DEF Drawn
<1>3. ASSUME NEW y \in Rows, Covering(queue, y) # {}
      PROVE  \E i \in Covering(queue, y) : (\A j \in Covering(queue, y) : j <= i) /\ D(y) = queue[i].px[y]
  <2> DEFINE c == Covering(queue, y)
  <2>1. c \in SUBSET (1 .. Len(queue))
    BY <1>1 DEF Covering
  <2> HIDE DEF c
  <2>2. \E i \in c : \A j \in c : j <= i
    BY <1>1, <1>3, <2>1, LatestIn DEF c
  <2> DEFINE m == CHOOSE i \in c : \A j \in c : j <= i
  <2>3. m \in c /\ \A j \in c : j <= m
    BY <2>2
  <2>4. D(y) = queue[m].px[y]
    BY <1>3 DEF c
  <2> HIDE DEF m, D
  <2>5. \E i \in c : (\A j \in c : j <= i) /\ D(y) = queue[i].px[y]
    BY <2>3, <2>4
  <2> QED BY <2>5 DEF c
<1>4. ASSUME NEW y \in Rows, Covering(queue, y) = {}
      PROVE  D(y) = canvas[y]
  BY <1>4
<1>5. \A i \in DOMAIN queue : queue[i].px \in Picture
  <2>1. \A i \in DOMAIN queue : queue[i] \in Frames
    BY <1>1
  <2> QED BY <2>1 DEF Frames
<1>6. \A y \in Rows : D(y) \in 0 .. MaxPaints
  <2> SUFFICES ASSUME NEW y \in Rows PROVE D(y) \in 0 .. MaxPaints
    OBVIOUS
  <2> HIDE DEF D
  <2>1. CASE Covering(queue, y) = {}
    BY <1>1, <1>4, <2>1 DEF Picture
  <2>2. CASE Covering(queue, y) # {}
    <3>1. PICK i \in Covering(queue, y) : D(y) = queue[i].px[y]
      BY <1>3, <2>2
    <3>2. queue[i].px \in Picture
      BY <1>5 DEF Covering
    <3> QED BY <3>1, <3>2 DEF Picture
  <2> QED BY <2>1, <2>2
<1> HIDE DEF D
<1>7. Drawn(queue) \in Picture
  BY <1>2, <1>6 DEF Picture
<1>8. \A y \in Rows : Drawn(queue)[y] = D(y)
  BY <1>2
<1> QED BY <1>3, <1>4, <1>7, <1>8

\* Every step keeps the types: the worker's steps ...
LEMMA WorkerTypes == TypeInv /\ Worker => TypeInv'
<1> SUFFICES ASSUME TypeInv, Worker PROVE TypeInv'
  OBVIOUS
<1>t. TypeOK
  BY DEF TypeInv
<1>1. CASE Paint
  <2>1. PICK r \in Rect : /\ vram' = [y \in Rows |-> IF y \in In(r) THEN paints' ELSE vram[y]]
                          /\ damage' = Hull(damage, r)
    BY <1>1 DEF Paint
  <2>2. paints' \in 0 .. MaxPaints
    BY <1>1, <1>t, Bounds DEF Paint, TypeOK
  <2>3. vram' \in Picture /\ damage' \in Rect
    BY <2>1, <2>2, TypesUsed, HullHolds DEF Picture
  <2>4. UNCHANGED <<path, workerVars, buffers, toPage, pageVars>>
    BY <1>1 DEF Paint
  <2>5. TypeOK'
    BY <1>t, <2>2, <2>3, <2>4 DEF TypeOK, workerVars, pageVars
  <2> QED BY <2>4, <2>5 DEF TypeInv, workerVars, pageVars
<1>2. CASE NewScreen
  <2>1. UNCHANGED <<path, guestVars, worker, region, seen, buffers, pageVars>> /\ damage' = All
    BY <1>2 DEF NewScreen
  <2>2. screen' = screen + 1 /\ screen' \in 1 .. MaxScreens
    BY <1>2, TypesUsed, Bounds DEF NewScreen
  <2>3. toPage' = Append(toPage, [t |-> "screen", gen |-> screen']) /\ [t |-> "screen", gen |-> screen'] \in Screens
    BY <1>2, <2>2 DEF NewScreen, Screens
  <2>4. toPage \in Seq(Screens \cup Frames) /\ [t |-> "screen", gen |-> screen'] \in Screens \cup Frames
    BY <2>3, TypesUsed
  <2>5. toPage' \in Seq(Screens \cup Frames) /\ (path = "shared" => \A i \in DOMAIN toPage' : toPage'[i].t = "screen")
    BY <2>3, <2>4, TypesUsed, Appended
  <2>6. TypeOK'
    BY <1>t, <2>1, <2>2, Bounds DEF TypeOK, guestVars, pageVars
  <2> QED BY <2>1, <2>5, <2>6 DEF TypeInv, guestVars, pageVars
<1>3. CASE Fill
  <2>1. UNCHANGED <<path, guestVars, seen, screen, buffers, pageVars>> /\ damage' = Empty /\ worker = "idle"
    BY <1>3 DEF Fill
  <2>2. CASE path = "bitmap"
    <3> DEFINE f == [t |-> "frame", gen |-> screen, rect |-> damage, px |-> vram]
    <3>1. toPage' = Append(toPage, f) /\ UNCHANGED <<worker, region>>
      BY <1>3, <2>2 DEF Fill
    <3>2. f \in Screens \cup Frames /\ toPage \in Seq(Screens \cup Frames)
      BY TypesUsed DEF Frames
    <3>3. toPage' \in Seq(Screens \cup Frames)
      BY <3>1, <3>2, Appended
    <3>4. TypeOK'
      BY <1>t, <2>1, <3>1, Bounds DEF TypeOK, guestVars, pageVars
    <3> QED BY <2>1, <2>2, <3>1, <3>3, <3>4 DEF TypeInv, guestVars, pageVars
  <2>3. CASE path # "bitmap"
    <3>1. worker' = "copy" /\ region' = damage /\ toPage' = toPage
      BY <1>3, <2>3 DEF Fill
    <3>2. TypeOK'
      BY <1>t, <2>1, <3>1, Bounds DEF TypeOK, guestVars, pageVars, After
    <3> QED BY <2>1, <2>3, <3>1, <3>2 DEF TypeInv, guestVars, pageVars
  <2> QED BY <2>2, <2>3
<1>4. CASE Publish
  <2>1. /\ UNCHANGED <<path, guestVars, damage, region, screen, toPage, pageVars>> /\ worker # "idle"
        /\ buffers' = [buffers EXCEPT ![screen] = Stored(@)]
        /\ seen' = IF worker = "merge" THEN buffers[screen].rect ELSE seen
        /\ worker' = After[worker]
    BY <1>4 DEF Publish
  <2>2. worker' \in {"idle"} \cup DOMAIN After
    BY <2>1, TypesUsed DEF After
  <2>3. buffers' \in [1 .. MaxScreens -> [px : Picture, rect : Rect, seq : Nat, lock : {0, 1}]]
    BY <2>1, TypesUsed, StoredType
  <2>4. seen' \in Rect
    BY <2>1, TypesUsed
  <2>5. TypeOK'
    BY <1>t, <2>1, <2>2, <2>3, <2>4 DEF TypeOK, guestVars, pageVars
  <2>6. path # "bitmap"
    BY <2>1, TypesUsed
  <2> QED BY <2>1, <2>5, <2>6 DEF TypeInv, guestVars, pageVars
<1> QED BY <1>1, <1>2, <1>3, <1>4 DEF Worker

\* ... and the page's.
LEMMA PageTypes == TypeInv /\ Page => TypeInv'
<1> SUFFICES ASSUME TypeInv, Page PROVE TypeInv'
  OBVIOUS
<1>t. TypeOK
  BY DEF TypeInv
<1>1. CASE TakeScreen
  <2>1. /\ UNCHANGED <<path, guestVars, damage, workerVars, buffers, page, taken>>
        /\ toPage # <<>> /\ Head(toPage).t = "screen" /\ toPage' = Tail(toPage)
        /\ gen' = Head(toPage).gen /\ lastSeq' = 0 /\ queue' = <<>> /\ canvas' = Blank /\ dropped' = {}
        /\ page = "idle"
    BY <1>1 DEF TakeScreen
  <2>2. toPage \in Seq(Screens \cup Frames)
    BY TypesUsed
  <2>3. Head(toPage) \in Screens \cup Frames /\ toPage' \in Seq(Screens \cup Frames)
    BY <2>1, <2>2, HeadTail
  <2>4. gen' \in 0 .. MaxScreens
    BY <2>1, <2>3, Bounds DEF Screens, Frames
  <2>5. queue' \in Seq(Frames) /\ Len(queue') = 0
    BY <2>1
  <2>6. TypeOK'
    BY <1>t, <2>1, <2>4, <2>5, Bounds DEF TypeOK, guestVars, workerVars
  <2>7. path = "shared" => \A i \in DOMAIN toPage' : toPage'[i].t = "screen"
    BY <2>1, <2>2, TypesUsed, HeadTail
  <2> QED BY <2>1, <2>3, <2>5, <2>6, <2>7 DEF TypeInv, guestVars, workerVars
<1>2. CASE TakeFrame
  <2>1. /\ UNCHANGED <<path, guestVars, damage, workerVars, buffers, page, gen, lastSeq, taken, canvas>>
        /\ toPage # <<>> /\ Head(toPage).t = "frame" /\ toPage' = Tail(toPage) /\ page = "idle"
        /\ queue' = Enqueued(Append(queue, Head(toPage)))
    BY <1>2 DEF TakeFrame
  <2> DEFINE q == Append(queue, Head(toPage))
  <2>2. dropped' = dropped \cup UNION {In(q[i].rect) : i \in 1 .. Len(q) - Len(queue')}
    BY <1>2 DEF TakeFrame
  <2>3. toPage \in Seq(Screens \cup Frames) /\ queue \in Seq(Frames)
    BY TypesUsed
  <2>4. Head(toPage) \in Frames /\ toPage' \in Seq(Screens \cup Frames) /\ path # "shared"
    <3>1. Head(toPage) \in Screens \cup Frames /\ toPage' \in Seq(Screens \cup Frames) /\ Head(toPage) = toPage[1] /\ 1 \in DOMAIN toPage
      BY <2>1, <2>3, HeadTail
    <3> QED BY <2>1, <3>1, TypesUsed DEF Screens
  <2>5. q \in Seq(Frames) /\ Len(q) = Len(queue) + 1 /\ q # <<>> /\ Len(queue) \in Nat
    BY <2>3, <2>4, AppendProperties, LenProperties
  <2>6. queue' \in Seq(Frames) /\ Len(queue') <= MaxQueue
    <3> HIDE DEF q
    <3>1. Len(queue) <= MaxQueue
      BY <1>t DEF TypeOK
    <3>2. Tail(q) \in Seq(Frames) /\ Len(Tail(q)) = Len(q) - 1
      BY <2>5, HeadTail
    <3>3. queue' = IF Len(q) > MaxQueue THEN Tail(q) ELSE q
      BY <2>1 DEF Enqueued, q
    <3> QED BY <2>5, <3>1, <3>2, <3>3, Bounds
  <2>7. dropped' \subseteq Rows
    BY <1>t, <2>2 DEF TypeOK, In
  <2> HIDE DEF q
  <2>8. TypeOK'
    BY <1>t, <2>1, <2>6, <2>7 DEF TypeOK, guestVars, workerVars
  <2> QED BY <2>1, <2>4, <2>6, <2>8 DEF TypeInv, guestVars, workerVars
<1>3. CASE SyncBitmaps
  <2>1. /\ UNCHANGED <<path, guestVars, damage, workerVars, buffers, toPage, page, gen, lastSeq, taken>>
        /\ canvas' = Drawn(queue) /\ queue' = <<>> /\ dropped' \subseteq dropped /\ path = "bitmap"
    BY <1>3 DEF SyncBitmaps
  <2>2. canvas' \in Picture /\ queue' \in Seq(Frames) /\ Len(queue') = 0
    BY <2>1, DrawnRows
  <2>3. TypeOK'
    BY <1>t, <2>1, <2>2, Bounds DEF TypeOK, guestVars, workerVars
  <2> QED BY <2>1, <2>2, <2>3 DEF TypeInv, guestVars, workerVars
<1>4. CASE ReadSeq
  <2>1. /\ UNCHANGED <<path, guestVars, damage, workerVars, buffers, toPage, gen, taken, queue, canvas, dropped>>
        /\ lastSeq' = buffers[gen].seq /\ page' = "lock" /\ path = "shared" /\ gen # 0
    BY <1>4 DEF ReadSeq
  <2>2. lastSeq' \in Nat
    BY <2>1, TypesUsed
  <2>3. TypeOK'
    BY <1>t, <2>1, <2>2 DEF TypeOK, guestVars, workerVars
  <2> QED BY <2>1, <2>3 DEF TypeInv, guestVars, workerVars
<1>5. CASE TakeRect
  <2>1. /\ UNCHANGED <<path, guestVars, damage, workerVars, toPage, gen, lastSeq, queue, canvas, dropped>>
        /\ page \in {"lock", "take", "clear", "unlock"} /\ gen \in 1 .. MaxScreens
        /\ taken' = IF page = "take" THEN buffers[gen].rect ELSE taken
    BY <1>5, TypesUsed DEF TakeRect
  <2>2. page' \in {"idle", "take", "clear", "unlock", "copy"}
    BY <1>5, <2>1 DEF TakeRect
  <2>3. buffers' \in [1 .. MaxScreens -> [px : Picture, rect : Rect, seq : Nat, lock : {0, 1}]]
    <3> DEFINE b == CASE page = "lock"   -> [buffers[gen] EXCEPT !.lock = 1]
                      [] page = "take"   -> buffers[gen]
                      [] page = "clear"  -> [buffers[gen] EXCEPT !.rect = Empty]
                      [] page = "unlock" -> [buffers[gen] EXCEPT !.lock = 0]
    <3>1. buffers' = [buffers EXCEPT ![gen] = b]
      BY <1>5 DEF TakeRect
    <3>2. buffers[gen] \in [px : Picture, rect : Rect, seq : Nat, lock : {0, 1}]
      BY <2>1, TypesUsed
    <3>3. b \in [px : Picture, rect : Rect, seq : Nat, lock : {0, 1}]
      BY <2>1, <3>2, Bounds
    <3> HIDE DEF b
    <3> QED BY <3>1, <3>3, TypesUsed
  <2>4. taken' \in Rect
    BY <2>1, TypesUsed
  <2>5. TypeOK'
    BY <1>t, <2>1, <2>2, <2>3, <2>4 DEF TypeOK, guestVars, workerVars
  <2>6. gen # 0 /\ path = "shared"
    BY <2>1, TypesUsed
  <2> QED BY <2>1, <2>5, <2>6 DEF TypeInv, guestVars, workerVars
<1>6. CASE CopyRows
  <2>1. /\ UNCHANGED <<path, guestVars, damage, workerVars, buffers, toPage, gen, lastSeq, taken, queue, dropped>>
        /\ page = "copy" /\ page' = "idle" /\ canvas' = Copied(canvas, buffers[gen].px, taken)
    BY <1>6 DEF CopyRows
  <2>2. buffers[gen].px \in Picture
    BY <2>1, TypesUsed
  <2>3. canvas' \in Picture
    BY <2>1, <2>2, TypesUsed, CopiedType
  <2>4. TypeOK'
    BY <1>t, <2>1, <2>3 DEF TypeOK, guestVars, workerVars
  <2> QED BY <2>1, <2>4 DEF TypeInv, guestVars, workerVars
<1> QED BY <1>1, <1>2, <1>3, <1>4, <1>5, <1>6 DEF Page

LEMMA TypeNext == TypeInv /\ [Next]_vars => TypeInv'
<1>1. TypeInv /\ UNCHANGED vars => TypeInv'
  BY DEF TypeInv, TypeOK, vars, guestVars, workerVars, pageVars
<1> QED BY <1>1, WorkerTypes, PageTypes DEF Next

\* Every reachable state is well typed, for any height, any number of paints,
\* screens and queued regions, and either path: the page's queue of regions never
\* grows beyond its bound.
THEOREM TypeCorrect == Spec => []TypeOK
<1>1. TypeInv => TypeOK
  BY DEF TypeInv
<1> QED BY <1>1, TypeInit, TypeNext, PTL DEF Spec

-----------------------------------------------------------------------------
(* Messages, and the lock.                                                 *)

LEMMA Messages ==
  ASSUME TypeInv
  PROVE  /\ \A i \in DOMAIN toPage : /\ toPage[i].gen \in 1 .. MaxScreens /\ i \in Nat /\ i >= 1
                                     /\ toPage[i].t \in {"screen", "frame"}
                                     /\ toPage[i].t = "screen" => toPage[i] = [t |-> "screen", gen |-> toPage[i].gen]
                                     /\ toPage[i].t = "frame" => toPage[i] \in Frames
         /\ \A i \in DOMAIN queue : queue[i] \in Frames /\ i \in Nat /\ i >= 1
<1>1. DOMAIN toPage = 1 .. Len(toPage) /\ DOMAIN queue = 1 .. Len(queue) /\ Len(toPage) \in Nat /\ Len(queue) \in Nat
  BY TypesUsed, LenProperties
<1>2. \A i \in DOMAIN toPage : toPage[i] \in Screens \cup Frames
  BY TypesUsed, <1>1
<1>3. \A i \in DOMAIN queue : queue[i] \in Frames
  BY TypesUsed, <1>1
<1> QED BY <1>1, <1>2, <1>3 DEF Screens, Frames

\* A message about the screen the worker has, or is about to have, goes to the end.
LEMMA OrderAppended ==
  ASSUME TypeInv, OrderInv, UNCHANGED <<gen, queue>>,
         NEW m \in Screens \cup Frames, toPage' = Append(toPage, m), m.gen = screen',
         \/ m.t = "screen" /\ screen' = screen + 1
         \/ m.t = "frame" /\ screen' = screen
  PROVE  OrderInv'
<1> DEFINE n == Len(toPage) + 1
<1>1. /\ Len(toPage) \in Nat /\ DOMAIN toPage = 1 .. Len(toPage) /\ DOMAIN toPage' = 1 .. n
      /\ \A i \in DOMAIN toPage : toPage'[i] = toPage[i]
      /\ toPage'[n] = m
  BY TypesUsed, Appended
<1>2. /\ n \in DOMAIN toPage' /\ n \notin DOMAIN toPage
      /\ \A i \in DOMAIN toPage' : i = n \/ i \in DOMAIN toPage
      /\ \A i \in DOMAIN toPage : i < n /\ i \in DOMAIN toPage' /\ i \in Nat
  BY <1>1
<1>3. gen \in Nat /\ screen \in Nat /\ screen' \in Nat /\ screen <= screen' /\ gen <= screen
  BY TypesUsed, Bounds DEF OrderInv
<1>4. \A i \in DOMAIN toPage : toPage[i].gen \in Nat /\ toPage[i].gen <= screen
  BY Messages, Bounds DEF OrderInv
<1> HIDE DEF n
<1>5. ASSUME NEW i \in DOMAIN toPage'
      PROVE  /\ gen <= toPage'[i].gen /\ toPage'[i].gen <= screen'
             /\ toPage'[i].t = "screen" => gen < toPage'[i].gen
             /\ toPage'[i].t = "frame" =>
                  toPage'[i].gen = gen \/ \E j \in DOMAIN toPage' : j < i /\ toPage'[j] = [t |-> "screen", gen |-> toPage'[i].gen]
  <2>1. CASE i = n
    <3>1. toPage'[i].gen = screen' /\ toPage'[i].t = m.t
      BY <1>1, <2>1
    <3>2. m.t = "screen" => gen < screen'
      BY <1>3
    <3>3. m.t = "frame" => screen' = gen \/ \E j \in DOMAIN toPage : toPage[j] = [t |-> "screen", gen |-> screen']
      BY DEF OrderInv
    <3>4. m.t = "frame" => screen' = gen \/ \E j \in DOMAIN toPage' : j < i /\ toPage'[j] = [t |-> "screen", gen |-> screen']
      BY <1>1, <1>2, <2>1, <3>3
    <3> QED BY <1>3, <3>1, <3>2, <3>4
  <2>2. CASE i \in DOMAIN toPage
    <3>1. toPage'[i] = toPage[i]
      BY <1>1, <2>2
    <3>2. gen <= toPage[i].gen /\ toPage[i].gen <= screen' /\ (toPage[i].t = "screen" => gen < toPage[i].gen)
      BY <1>3, <1>4, <2>2 DEF OrderInv
    <3>3. toPage[i].t = "frame" =>
            toPage[i].gen = gen \/ \E j \in DOMAIN toPage : j < i /\ toPage[j] = [t |-> "screen", gen |-> toPage[i].gen]
      BY <2>2 DEF OrderInv
    <3>4. toPage[i].t = "frame" =>
            toPage[i].gen = gen \/ \E j \in DOMAIN toPage' : j < i /\ toPage'[j] = [t |-> "screen", gen |-> toPage[i].gen]
      BY <1>1, <1>2, <3>3
    <3> QED BY <3>1, <3>2, <3>4
  <2> QED BY <1>2, <2>1, <2>2
<1>6. ASSUME NEW i \in DOMAIN toPage', NEW j \in DOMAIN toPage', i < j
      PROVE  toPage'[i].gen <= toPage'[j].gen /\ (toPage'[j].t = "screen" => toPage'[i].gen < toPage'[j].gen)
  <2>1. i \in DOMAIN toPage /\ toPage'[i] = toPage[i]
    BY <1>1, <1>2, <1>6
  <2>2. CASE j = n
    BY <1>1, <1>3, <1>4, <2>1, <2>2
  <2>3. CASE j \in DOMAIN toPage
    <3>1. toPage'[j] = toPage[j]
      BY <1>1, <2>3
    <3> QED BY <1>6, <2>1, <2>3, <3>1 DEF OrderInv
  <2> QED BY <1>2, <2>2, <2>3
<1>7. gen = screen' \/ \E i \in DOMAIN toPage' : toPage'[i] = [t |-> "screen", gen |-> screen']
  <2>1. CASE m.t = "screen"
    <3>1. m = [t |-> "screen", gen |-> screen']
      BY <2>1 DEF Screens, Frames
    <3> QED BY <1>1, <1>2, <3>1
  <2>2. CASE m.t = "frame"
    <3>1. screen' = screen /\ (gen = screen \/ \E i \in DOMAIN toPage : toPage[i] = [t |-> "screen", gen |-> screen])
      BY <2>2 DEF OrderInv
    <3> QED BY <1>1, <1>2, <3>1
  <2> QED BY <2>1, <2>2
<1>8. gen' = gen /\ queue' = queue /\ gen <= screen' /\ \A i \in DOMAIN queue : queue[i].gen = gen
  BY <1>3 DEF OrderInv
<1> QED BY <1>5, <1>6, <1>7, <1>8 DEF OrderInv

\* The first message is taken: a screen, which is the page's then, or a region.
LEMMA OrderTaken ==
  ASSUME TypeInv, OrderInv, screen' = screen, toPage # <<>>, toPage' = Tail(toPage),
         \/ Head(toPage).t = "screen" /\ gen' = Head(toPage).gen
         \/ Head(toPage).t = "frame" /\ gen' = gen,
         \A i \in DOMAIN queue' : queue'[i].gen = gen'
  PROVE  OrderInv'
<1>1. /\ 1 \in DOMAIN toPage /\ Head(toPage) = toPage[1]
      /\ \A i \in DOMAIN toPage' : i \in Nat /\ i >= 1 /\ i + 1 \in DOMAIN toPage /\ toPage'[i] = toPage[i + 1]
      /\ \A i \in DOMAIN toPage : i = 1 \/ (i - 1 \in DOMAIN toPage' /\ toPage'[i - 1] = toPage[i])
  BY TypesUsed, HeadTail
<1>2. gen \in Nat /\ screen \in Nat /\ \A i \in DOMAIN toPage : toPage[i].gen \in Nat /\ i \in Nat /\ i >= 1
  BY TypesUsed, Messages, Bounds
<1>3. gen' \in Nat /\ gen <= gen' /\ gen' = toPage[1].gen
  <2>1. CASE Head(toPage).t = "screen"
    BY <1>1, <1>2, <2>1 DEF OrderInv
  <2>2. CASE Head(toPage).t = "frame"
    <3>1. toPage[1].gen = gen \/ \E j \in DOMAIN toPage : j < 1
      BY <1>1, <2>2 DEF OrderInv
    <3> QED BY <1>1, <1>2, <2>2, <3>1
  <2> QED BY <2>1, <2>2
<1>4. gen' <= screen'
  BY <1>1, <1>3 DEF OrderInv
<1>5. ASSUME NEW i \in DOMAIN toPage'
      PROVE  /\ gen' <= toPage'[i].gen /\ toPage'[i].gen <= screen'
             /\ toPage'[i].t = "screen" => gen' < toPage'[i].gen
             /\ toPage'[i].t = "frame" =>
                  toPage'[i].gen = gen' \/ \E j \in DOMAIN toPage' : j < i /\ toPage'[j] = [t |-> "screen", gen |-> toPage'[i].gen]
  <2>1. i + 1 \in DOMAIN toPage /\ toPage'[i] = toPage[i + 1] /\ 1 < i + 1 /\ i \in Nat
    BY <1>1
  <2>2. toPage[1].gen <= toPage[i + 1].gen /\ (toPage[i + 1].t = "screen" => toPage[1].gen < toPage[i + 1].gen)
    BY <1>1, <2>1 DEF OrderInv
  <2>3. toPage[i + 1].gen <= screen
    BY <2>1 DEF OrderInv
  <2>4. ASSUME toPage'[i].t = "frame", toPage'[i].gen # gen'
        PROVE  \E j \in DOMAIN toPage' : j < i /\ toPage'[j] = [t |-> "screen", gen |-> toPage'[i].gen]
    <3>1. toPage[i + 1].gen # gen
      BY <1>2, <1>3, <2>1, <2>2, <2>4
    <3>2. PICK j \in DOMAIN toPage : j < i + 1 /\ toPage[j] = [t |-> "screen", gen |-> toPage[i + 1].gen]
      BY <2>1, <2>4, <3>1 DEF OrderInv
    <3>3. j # 1
      BY <1>3, <2>1, <2>4, <3>2
    <3>4. j - 1 \in DOMAIN toPage' /\ toPage'[j - 1] = toPage[j]
      BY <1>1, <3>3
    <3>5. j - 1 < i
      BY <1>2, <2>1, <3>2
    <3> QED BY <2>1, <3>2, <3>4, <3>5
  <2> QED BY <1>3, <2>1, <2>2, <2>3, <2>4
<1>6. ASSUME NEW i \in DOMAIN toPage', NEW j \in DOMAIN toPage', i < j
      PROVE  toPage'[i].gen <= toPage'[j].gen /\ (toPage'[j].t = "screen" => toPage'[i].gen < toPage'[j].gen)
  <2>1. i + 1 \in DOMAIN toPage /\ j + 1 \in DOMAIN toPage /\ i + 1 < j + 1 /\ toPage'[i] = toPage[i + 1] /\ toPage'[j] = toPage[j + 1]
    BY <1>1, <1>6
  <2> QED BY <2>1 DEF OrderInv
<1>7. gen' = screen' \/ \E i \in DOMAIN toPage' : toPage'[i] = [t |-> "screen", gen |-> screen']
  <2> SUFFICES ASSUME gen' # screen
               PROVE  \E i \in DOMAIN toPage' : toPage'[i] = [t |-> "screen", gen |-> screen]
    OBVIOUS
  <2>1. gen # screen
    BY <1>2, <1>3, <1>4
  <2>2. PICK i \in DOMAIN toPage : toPage[i] = [t |-> "screen", gen |-> screen]
    BY <2>1 DEF OrderInv
  <2>3. i # 1
    BY <1>3, <2>2
  <2> QED BY <1>1, <2>2, <2>3
<1> QED BY <1>4, <1>5, <1>6, <1>7 DEF OrderInv

LEMMA OrderNext == TypeInv /\ OrderInv /\ [Next]_vars => OrderInv'
<1> SUFFICES ASSUME TypeInv, OrderInv, [Next]_vars PROVE OrderInv'
  OBVIOUS
<1>1. CASE UNCHANGED <<gen, screen, toPage>> /\ (queue' = queue \/ queue' = <<>>)
  <2>1. \A i \in DOMAIN queue' : queue'[i].gen = gen'
    BY <1>1 DEF OrderInv
  <2> QED BY <1>1, <2>1 DEF OrderInv
<1>2. CASE NewScreen
  <2> DEFINE m == [t |-> "screen", gen |-> screen']
  <2>1. screen' = screen + 1 /\ toPage' = Append(toPage, m) /\ UNCHANGED <<gen, queue>>
    BY <1>2 DEF NewScreen, pageVars
  <2>2. m \in Screens \cup Frames
    BY <1>2, <2>1, TypesUsed, Bounds DEF NewScreen, Screens
  <2> QED BY <2>1, <2>2, OrderAppended
<1>3. CASE Fill /\ path = "bitmap"
  <2> DEFINE m == [t |-> "frame", gen |-> screen, rect |-> damage, px |-> vram]
  <2>1. screen' = screen /\ toPage' = Append(toPage, m) /\ UNCHANGED <<gen, queue>>
    BY <1>3 DEF Fill, pageVars
  <2>2. m \in Screens \cup Frames
    BY TypesUsed DEF Frames
  <2> QED BY <2>1, <2>2, OrderAppended
<1>4. CASE TakeScreen
  <2>1. /\ screen' = screen /\ toPage # <<>> /\ toPage' = Tail(toPage) /\ Head(toPage).t = "screen"
        /\ gen' = Head(toPage).gen /\ queue' = <<>>
    BY <1>4 DEF TakeScreen, workerVars
  <2> QED BY <2>1, OrderTaken
<1>5. CASE TakeFrame
  <2> DEFINE q == Append(queue, Head(toPage))
  <2>1. /\ screen' = screen /\ toPage # <<>> /\ toPage' = Tail(toPage) /\ Head(toPage).t = "frame"
        /\ gen' = gen /\ queue' = Enqueued(q)
    BY <1>5 DEF TakeFrame, workerVars
  <2>2. 1 \in DOMAIN toPage /\ Head(toPage) = toPage[1]
    BY <2>1, TypesUsed, HeadTail
  <2>3. Head(toPage) \in Frames /\ Head(toPage).gen = gen
    <3>1. toPage[1].gen = gen \/ \E j \in DOMAIN toPage : j < 1
      BY <2>1, <2>2 DEF OrderInv
    <3> QED BY <2>1, <2>2, <3>1, Messages
  <2>4. q \in Seq(Frames) /\ q # <<>> /\ \A i \in DOMAIN q : q[i].gen = gen
    <3>1. /\ q \in Seq(Frames) /\ DOMAIN queue = 1 .. Len(queue) /\ DOMAIN q = 1 .. Len(queue) + 1 /\ Len(queue) \in Nat
          /\ \A i \in DOMAIN queue : q[i] = queue[i]
          /\ q[Len(queue) + 1] = Head(toPage)
      BY <2>3, TypesUsed, Appended
    <3> HIDE DEF q
    <3>2. \A i \in DOMAIN q : i \in DOMAIN queue \/ i = Len(queue) + 1
      BY <3>1
    <3>3. q # <<>>
      BY <3>1
    <3> QED BY <2>3, <3>1, <3>2, <3>3 DEF OrderInv
  <2> HIDE DEF q
  <2>5. \A i \in DOMAIN Tail(q) : Tail(q)[i].gen = gen
    BY <2>4, HeadTail
  <2>6. \A i \in DOMAIN queue' : queue'[i].gen = gen'
    BY <2>1, <2>4, <2>5 DEF Enqueued
  <2> QED BY <2>1, <2>6, OrderTaken
<1>6. CASE UNCHANGED vars
  BY <1>1, <1>6 DEF vars, workerVars, pageVars
<1>7. CASE Paint \/ Publish \/ (Fill /\ path # "bitmap")
  BY <1>1, <1>7 DEF Paint, Publish, Fill, workerVars, pageVars
<1>8. CASE SyncBitmaps \/ ReadSeq \/ TakeRect \/ CopyRows
  BY <1>1, <1>8 DEF SyncBitmaps, ReadSeq, TakeRect, CopyRows, workerVars
<1> QED BY <1>2, <1>3, <1>4, <1>5, <1>6, <1>7, <1>8 DEF Next, Worker, Page

\* What a step of update_buffer changes.
LEMMA PublishDoes ==
  ASSUME TypeInv, Publish
  PROVE  /\ worker # "idle" /\ path = "shared"
         /\ UNCHANGED <<path, paints, vram, damage, region, screen, toPage, pageVars>>
         /\ \A g \in 1 .. MaxScreens : g # screen => buffers'[g] = buffers[g]
         /\ buffers'[screen].px = IF worker = "copy" THEN Copied(buffers[screen].px, vram, region) ELSE buffers[screen].px
         /\ buffers'[screen].rect = IF worker = "store" THEN Hull(seen, region) ELSE buffers[screen].rect
         /\ buffers'[screen].seq = IF worker = "bump" THEN buffers[screen].seq + 1 ELSE buffers[screen].seq
         /\ buffers'[screen].lock = IF worker = "lock" THEN 1 ELSE IF worker = "unlock" THEN 0 ELSE buffers[screen].lock
         /\ worker = "lock" => buffers[screen].lock = 0
         /\ seen' = IF worker = "merge" THEN buffers[screen].rect ELSE seen
         /\ worker' = After[worker]
<1>1. /\ worker # "idle" /\ UNCHANGED <<path, guestVars, damage, region, screen, toPage, pageVars>>
      /\ buffers' = [buffers EXCEPT ![screen] = Stored(buffers[screen])]
      /\ seen' = IF worker = "merge" THEN buffers[screen].rect ELSE seen
      /\ worker' = After[worker]
      /\ worker = "lock" => buffers[screen].lock = 0
  BY DEF Publish, Locked
<1>2. path = "shared" /\ worker \in {"copy", "lock", "merge", "store", "unlock", "bump"}
  BY <1>1, TypesUsed
<1>3. buffers'[screen] = Stored(buffers[screen]) /\ \A g \in 1 .. MaxScreens : g # screen => buffers'[g] = buffers[g]
  BY <1>1, TypesUsed
<1> DEFINE b == buffers[screen]
<1>4. b \in [px : Picture, rect : Rect, seq : Nat, lock : {0, 1}]
  BY TypesUsed
<1> HIDE DEF b
<1>5. /\ Stored(b).px = IF worker = "copy" THEN Copied(b.px, vram, region) ELSE b.px
      /\ Stored(b).rect = IF worker = "store" THEN Hull(seen, region) ELSE b.rect
      /\ Stored(b).seq = IF worker = "bump" THEN b.seq + 1 ELSE b.seq
      /\ Stored(b).lock = IF worker = "lock" THEN 1 ELSE IF worker = "unlock" THEN 0 ELSE b.lock
  <2>1. CASE worker = "copy"
    BY <1>4, <2>1 DEF Stored
  <2>2. CASE worker = "lock"
    BY <1>4, <2>2 DEF Stored
  <2>3. CASE worker = "merge"
    BY <1>4, <2>3 DEF Stored
  <2>4. CASE worker = "store"
    BY <1>4, <2>4 DEF Stored
  <2>5. CASE worker = "unlock"
    BY <1>4, <2>5 DEF Stored
  <2>6. CASE worker = "bump"
    BY <1>4, <2>6 DEF Stored
  <2> QED BY <1>2, <2>1, <2>2, <2>3, <2>4, <2>5, <2>6
<1> QED BY <1>1, <1>2, <1>3, <1>5 DEF b, guestVars

\* What a step of the page's taking of the rectangle changes.
LEMMA TakeRectDoes ==
  ASSUME TypeInv, TakeRect
  PROVE  /\ page \in {"lock", "take", "clear", "unlock"} /\ path = "shared" /\ gen \in 1 .. MaxScreens
         /\ UNCHANGED <<path, guestVars, damage, workerVars, toPage, gen, lastSeq, queue, canvas, dropped>>
         /\ \A g \in 1 .. MaxScreens : g # gen => buffers'[g] = buffers[g]
         /\ buffers'[gen].px = buffers[gen].px /\ buffers'[gen].seq = buffers[gen].seq
         /\ buffers'[gen].rect = IF page = "clear" THEN Empty ELSE buffers[gen].rect
         /\ buffers'[gen].lock = IF page = "lock" THEN 1 ELSE IF page = "unlock" THEN 0 ELSE buffers[gen].lock
         /\ page = "lock" => buffers[gen].lock = 0
         /\ taken' = IF page = "take" THEN buffers[gen].rect ELSE taken
         /\ page' = IF page = "lock" THEN "take" ELSE IF page = "take" THEN "clear" ELSE IF page = "clear" THEN "unlock"
                    ELSE IF In(taken) = {} THEN "idle" ELSE "copy"
<1> DEFINE b == buffers[gen]
<1> DEFINE c == CASE page = "lock"   -> [b EXCEPT !.lock = 1]
                  [] page = "take"   -> b
                  [] page = "clear"  -> [b EXCEPT !.rect = Empty]
                  [] page = "unlock" -> [b EXCEPT !.lock = 0]
<1>1. /\ page \in {"lock", "take", "clear", "unlock"}
      /\ UNCHANGED <<path, guestVars, damage, workerVars, toPage, gen, lastSeq, queue, canvas, dropped>>
      /\ buffers' = [buffers EXCEPT ![gen] = c]
      /\ page = "lock" => b.lock = 0
      /\ taken' = IF page = "take" THEN b.rect ELSE taken
  BY DEF TakeRect, Locked
<1>2. page' = IF page = "lock" THEN "take" ELSE IF page = "take" THEN "clear" ELSE IF page = "clear" THEN "unlock"
              ELSE IF In(taken) = {} THEN "idle" ELSE "copy"
  <2>1. page' = CASE page = "lock"   -> "take"
                  [] page = "take"   -> "clear"
                  [] page = "clear"  -> "unlock"
                  [] page = "unlock" -> IF In(taken) = {} THEN "idle" ELSE "copy"
    BY DEF TakeRect
  <2> QED BY <1>1, <2>1
<1>3. path = "shared" /\ gen \in 1 .. MaxScreens
  BY <1>1, TypesUsed
<1>4. b \in [px : Picture, rect : Rect, seq : Nat, lock : {0, 1}]
  BY <1>3, TypesUsed
<1>5. buffers'[gen] = c /\ \A g \in 1 .. MaxScreens : g # gen => buffers'[g] = buffers[g]
  <2> HIDE DEF b, c
  <2> QED BY <1>1, <1>3, TypesUsed
<1>6. /\ c.px = b.px /\ c.seq = b.seq
      /\ c.rect = IF page = "clear" THEN Empty ELSE b.rect
      /\ c.lock = IF page = "lock" THEN 1 ELSE IF page = "unlock" THEN 0 ELSE b.lock
  <2> HIDE DEF b
  <2>1. CASE page = "lock"
    BY <1>4, <2>1
  <2>2. CASE page = "take"
    BY <1>4, <2>2
  <2>3. CASE page = "clear"
    BY <1>4, <2>3
  <2>4. CASE page = "unlock"
    BY <1>4, <2>4
  <2> QED BY <1>1, <2>1, <2>2, <2>3, <2>4
<1> HIDE DEF c
<1> QED BY <1>1, <1>2, <1>3, <1>5, <1>6

\* The worker and the page are never both inside, and what one has read of the
\* rectangle is what it holds until it is stored or cleared.
LEMMA LockNext == TypeInv /\ OrderInv /\ LockInv /\ [Next]_vars => LockInv'
<1> SUFFICES ASSUME TypeInv, OrderInv, LockInv, [Next]_vars PROVE LockInv'
  OBVIOUS
<1>1. CASE Publish
  <2>1. worker' = After[worker] /\ worker \in {"copy", "lock", "merge", "store", "unlock", "bump"} /\ UNCHANGED <<screen, gen, page, taken>>
    BY <1>1, TypesUsed, PublishDoes DEF pageVars
  <2>2. Inside' => buffers'[screen].lock = 1 /\ ~(gen = screen /\ PageInside)
    <3>1. CASE worker = "lock"
      BY <1>1, <3>1, PublishDoes DEF LockInv
    <3>2. CASE worker # "lock"
      <4>1. Inside' => Inside /\ worker # "unlock"
        BY <2>1, <3>2 DEF Inside, After
      <4> QED BY <1>1, <3>2, <4>1, PublishDoes DEF LockInv
    <3> QED BY <3>1, <3>2
  <2>3. PageInside => buffers'[gen].lock = 1
    <3> SUFFICES ASSUME PageInside PROVE buffers'[gen].lock = 1
      OBVIOUS
    <3>1. buffers[gen].lock = 1 /\ gen \in 1 .. MaxScreens
      BY TypesUsed DEF LockInv, PageInside
    <3>2. CASE gen = screen
      <4>1. worker \notin {"unlock", "lock"}
        BY <1>1, <3>1, <3>2, PublishDoes DEF LockInv, Inside
      <4> QED BY <1>1, <3>1, <3>2, <4>1, PublishDoes
    <3>3. CASE gen # screen
      BY <1>1, <3>1, <3>3, PublishDoes
    <3> QED BY <3>2, <3>3
  <2>4. worker' = "store" => seen' = buffers'[screen].rect
    <3>1. worker' = "store" => worker = "merge"
      BY <2>1 DEF After
    <3> QED BY <1>1, <3>1, PublishDoes
  <2>5. page = "clear" => taken = buffers'[gen].rect
    <3> SUFFICES ASSUME page = "clear" PROVE taken = buffers'[gen].rect
      OBVIOUS
    <3>1. taken = buffers[gen].rect /\ gen \in 1 .. MaxScreens
      BY TypesUsed DEF LockInv
    <3>2. gen = screen => worker # "store"
      BY DEF LockInv, Inside, PageInside
    <3> QED BY <1>1, <3>1, <3>2, PublishDoes
  <2> QED BY <2>1, <2>2, <2>3, <2>4, <2>5 DEF LockInv, PageInside
<1>2. CASE TakeRect
  <2>1. UNCHANGED <<screen, gen, worker, seen>> /\ gen \in 1 .. MaxScreens /\ screen \in 1 .. MaxScreens
    BY <1>2, TypesUsed, TakeRectDoes DEF workerVars
  <2>2. PageInside' => buffers'[gen].lock = 1 /\ ~(gen = screen /\ Inside)
    <3>1. CASE page = "lock"
      BY <1>2, <3>1, TakeRectDoes DEF LockInv
    <3>2. CASE page # "lock"
      <4>1. PageInside /\ (PageInside' => page # "unlock")
        BY <1>2, <3>2, TakeRectDoes DEF PageInside
      <4> QED BY <1>2, <3>2, <4>1, TakeRectDoes DEF LockInv
    <3> QED BY <3>1, <3>2
  <2>3. Inside => buffers'[screen].lock = 1
    <3> SUFFICES ASSUME Inside PROVE buffers'[screen].lock = 1
      OBVIOUS
    <3>1. buffers[screen].lock = 1
      BY DEF LockInv
    <3>2. gen = screen => page \notin {"lock", "unlock"}
      BY <1>2, <3>1, TakeRectDoes DEF LockInv, PageInside
    <3> QED BY <1>2, <2>1, <3>1, <3>2, TakeRectDoes
  <2>4. worker = "store" => seen = buffers'[screen].rect
    <3> SUFFICES ASSUME worker = "store" PROVE seen = buffers'[screen].rect
      OBVIOUS
    <3>1. seen = buffers[screen].rect
      BY DEF LockInv
    <3>2. gen = screen => page # "clear"
      BY DEF LockInv, Inside, PageInside
    <3> QED BY <1>2, <2>1, <3>1, <3>2, TakeRectDoes
  <2>5. page' = "clear" => taken' = buffers'[gen].rect
    <3>1. page' = "clear" => page = "take"
      BY <1>2, TakeRectDoes
    <3> QED BY <1>2, <3>1, TakeRectDoes
  <2> QED BY <2>1, <2>2, <2>3, <2>4, <2>5 DEF LockInv, Inside
<1>3. CASE UNCHANGED <<buffers, gen, page, taken>> /\ worker = "idle" /\ worker' \in {"idle", "copy"}
  BY <1>3 DEF LockInv, Inside, PageInside
<1>4. CASE UNCHANGED <<buffers, screen, worker, seen>> /\ page' \in {"idle", "lock"}
  BY <1>4 DEF LockInv, Inside, PageInside
<1>5. CASE UNCHANGED <<buffers, screen, worker, seen, gen, page, taken>>
  BY <1>5 DEF LockInv, Inside, PageInside
<1>6. CASE Paint \/ NewScreen \/ Fill
  BY <1>3, <1>6 DEF Paint, NewScreen, Fill, workerVars, pageVars
<1>7. CASE TakeScreen \/ ReadSeq \/ CopyRows
  BY <1>4, <1>7 DEF TakeScreen, ReadSeq, CopyRows, workerVars
<1>8. CASE TakeFrame \/ SyncBitmaps \/ UNCHANGED vars
  BY <1>5, <1>8 DEF TakeFrame, SyncBitmaps, vars, workerVars, pageVars
<1> QED BY <1>1, <1>2, <1>6, <1>7, <1>8 DEF Next, Worker, Page

-----------------------------------------------------------------------------
(* The shared path.                                                        *)

\* A paint damages the rows it changes, and leaves the damage there was.
LEMMA PaintDoes ==
  ASSUME TypeInv, Paint
  PROVE  /\ UNCHANGED <<path, workerVars, buffers, toPage, pageVars>> /\ worker = "idle"
         /\ In(damage) \subseteq In(damage')
         /\ \A y \in Rows : vram'[y] = vram[y] \/ y \in In(damage')
<1>1. PICK r \in Rect : /\ vram' = [y \in Rows |-> IF y \in In(r) THEN paints' ELSE vram[y]]
                        /\ damage' = Hull(damage, r)
  BY DEF Paint
<1>2. In(damage) \subseteq In(damage') /\ In(r) \subseteq In(damage')
  BY <1>1, TypesUsed, HullHolds
<1>3. \A y \in Rows : vram'[y] = vram[y] \/ y \in In(damage')
  BY <1>1, <1>2
<1> QED BY <1>2, <1>3 DEF Paint

\* What is in the worker's hands, and the pending rectangle, after a step of
\* update_buffer: nothing is lost between them.
LEMMA PublishKeeps ==
  ASSUME TypeInv, LockInv, Publish, NEW y
  PROVE  /\ InHand(y) => InHand(y)' \/ (y \in In(buffers'[screen].rect) /\ worker' # "idle")
         /\ y \in In(buffers[screen].rect) => y \in In(buffers'[screen].rect)
         /\ worker' = "idle" => worker = "bump"
<1>1. worker \in {"copy", "lock", "merge", "store", "unlock", "bump"} /\ worker' = After[worker] /\ region' = region
  BY TypesUsed, PublishDoes
<1>2. CASE worker = "store"
  <2>1. seen = buffers[screen].rect
    BY <1>2 DEF LockInv
  <2>2. In(seen) \subseteq In(buffers'[screen].rect) /\ In(region) \subseteq In(buffers'[screen].rect)
    BY <1>2, PublishDoes, TypesUsed, HullHolds
  <2> QED BY <1>1, <1>2, <2>1, <2>2 DEF After, InHand
<1>3. CASE worker # "store"
  <2>1. buffers'[screen].rect = buffers[screen].rect
    BY <1>3, PublishDoes
  <2>2. worker \in {"copy", "lock", "merge"} => worker' \in {"lock", "merge", "store"}
    BY <1>1 DEF After
  <2>3. worker' = "idle" => worker = "bump"
    BY <1>1 DEF After
  <2> QED BY <1>1, <1>3, <2>1, <2>2, <2>3 DEF InHand
<1> QED BY <1>2, <1>3

LEMMA SharedNext == TypeInv /\ OrderInv /\ LockInv /\ SharedInv /\ [Next]_vars => SharedInv'
<1> SUFFICES ASSUME TypeInv, OrderInv, LockInv, SharedInv, [Next]_vars, path' = "shared" PROVE SharedInv'
  BY DEF SharedInv
<1>p. path = "shared"
  BY DEF Next, Worker, Page, Paint, NewScreen, Fill, Publish, TakeScreen, TakeFrame, SyncBitmaps, ReadSeq, TakeRect, CopyRows, vars
<1>1. \A y \in Rows : buffers[screen].px[y] # vram[y] => y \in In(damage) \/ (worker = "copy" /\ y \in In(region))
  BY <1>p DEF SharedInv
<1>2. gen = screen => lastSeq <= buffers[screen].seq
  BY <1>p DEF SharedInv
<1>3. gen # screen => \A y \in Rows :
        \/ y \in In(damage) \/ InHand(y)
        \/ y \in In(buffers[screen].rect) /\ (buffers[screen].seq # 0 \/ worker # "idle")
  BY <1>p DEF SharedInv
<1>4. CASE Paint
  <2>1. \A y \in Rows : buffers'[screen'].px[y] # vram'[y] => y \in In(damage') \/ (worker' = "copy" /\ y \in In(region'))
    BY <1>1, <1>4, PaintDoes DEF workerVars
  <2>2. gen' = screen' => lastSeq' <= buffers'[screen'].seq
    BY <1>2, <1>4, PaintDoes DEF workerVars, pageVars
  <2>3. gen' # screen' => \A y \in Rows :
          \/ y \in In(damage') \/ InHand(y)'
          \/ y \in In(buffers'[screen'].rect) /\ (buffers'[screen'].seq # 0 \/ worker' # "idle")
    BY <1>3, <1>4, PaintDoes DEF workerVars, pageVars, InHand
  <2> QED BY <2>1, <2>2, <2>3 DEF SharedInv
<1>5. CASE NewScreen
  <2>1. damage' = All /\ screen' = screen + 1 /\ gen' = gen
    BY <1>5 DEF NewScreen, pageVars
  <2>2. gen' # screen' /\ \A y \in Rows : y \in In(damage')
    BY <2>1, TypesUsed, Bounds DEF OrderInv
  <2> QED BY <2>2 DEF SharedInv
<1>6. CASE Fill
  <2>1. /\ UNCHANGED <<vram, screen, buffers, gen, lastSeq>> /\ damage' = Empty /\ worker = "idle"
        /\ worker' = "copy" /\ region' = damage
    BY <1>6, <1>p DEF Fill, guestVars, pageVars
  <2>2. gen' # screen' => \A y \in Rows : InHand(y)' \/ (y \in In(buffers'[screen'].rect) /\ worker' # "idle")
    BY <1>3, <2>1 DEF InHand
  <2> QED BY <1>1, <1>2, <2>1, <2>2 DEF SharedInv
<1>7. CASE Publish
  <2>1. UNCHANGED <<vram, damage, region, screen, gen, lastSeq>> /\ worker \in {"copy", "lock", "merge", "store", "unlock", "bump"}
    BY <1>7, TypesUsed, PublishDoes DEF pageVars
  <2>2. \A y \in Rows : buffers'[screen].px[y] # vram[y] => y \in In(damage)
    <3>1. CASE worker = "copy"
      <4>1. \A y \in Rows : buffers'[screen].px[y] = IF y \in In(region) THEN vram[y] ELSE buffers[screen].px[y]
        <5>1. buffers'[screen].px = Copied(buffers[screen].px, vram, region)
          BY <1>7, <3>1, PublishDoes
        <5> QED BY <5>1 DEF Copied
      <4> QED BY <1>1, <4>1
    <3>2. CASE worker # "copy"
      BY <1>1, <1>7, <3>2, PublishDoes
    <3> QED BY <3>1, <3>2
  <2>3. buffers[screen].seq \in Nat /\ (worker # "bump" => buffers'[screen].seq = buffers[screen].seq)
        /\ (worker = "bump" => buffers'[screen].seq = buffers[screen].seq + 1)
    BY <1>7, TypesUsed, PublishDoes
  <2>4. gen = screen => lastSeq <= buffers'[screen].seq
    BY <1>2, <2>3, TypesUsed
  <2>5. worker' = "idle" => buffers'[screen].seq # 0
    BY <1>7, <2>3, PublishKeeps
  <2>6. gen # screen => \A y \in Rows :
          \/ y \in In(damage) \/ InHand(y)'
          \/ y \in In(buffers'[screen].rect) /\ (buffers'[screen].seq # 0 \/ worker' # "idle")
    BY <1>3, <1>7, <2>5, PublishKeeps
  <2> QED BY <2>1, <2>2, <2>4, <2>6 DEF SharedInv
<1>8. CASE TakeScreen
  <2>1. UNCHANGED <<vram, damage, worker, region, screen, buffers>> /\ lastSeq' = 0 /\ gen' = Head(toPage).gen
    BY <1>8 DEF TakeScreen, guestVars, workerVars
  <2>2. gen # screen
    <3>1. 1 \in DOMAIN toPage /\ Head(toPage) = toPage[1] /\ toPage[1].t = "screen"
      BY <1>8, TypesUsed, HeadTail DEF TakeScreen
    <3>2. gen < toPage[1].gen /\ toPage[1].gen <= screen /\ toPage[1].gen \in Nat
      BY <3>1, Messages, Bounds DEF OrderInv
    <3> QED BY <3>2, TypesUsed, Bounds
  <2>3. lastSeq' <= buffers'[screen'].seq
    BY <2>1, TypesUsed
  <2> QED BY <1>1, <1>3, <2>1, <2>2, <2>3 DEF SharedInv, InHand
<1>9. CASE ReadSeq
  <2>1. UNCHANGED <<vram, damage, worker, region, screen, buffers, gen>> /\ lastSeq' = buffers[gen].seq
    BY <1>9 DEF ReadSeq, guestVars, workerVars
  <2>2. gen = screen => lastSeq' <= buffers'[screen'].seq
    BY <2>1, TypesUsed
  <2> QED BY <1>1, <1>3, <2>1, <2>2 DEF SharedInv, InHand
<1>10. CASE TakeRect
  <2>1. UNCHANGED <<vram, damage, worker, region, screen, gen, lastSeq>> /\ screen \in 1 .. MaxScreens
    BY <1>10, TakeRectDoes, TypesUsed DEF guestVars, workerVars
  <2>2. buffers'[screen].px = buffers[screen].px /\ buffers'[screen].seq = buffers[screen].seq
    BY <1>10, <2>1, TakeRectDoes
  <2>3. gen # screen => buffers'[screen].rect = buffers[screen].rect
    BY <1>10, <2>1, TakeRectDoes
  <2> QED BY <1>1, <1>2, <1>3, <2>1, <2>2, <2>3 DEF SharedInv, InHand
<1>11. CASE CopyRows \/ UNCHANGED vars
  BY <1>1, <1>2, <1>3, <1>11 DEF SharedInv, InHand, CopyRows, guestVars, workerVars, pageVars, vars
<1>12. ~TakeFrame /\ ~SyncBitmaps
  <2>1. ASSUME TakeFrame PROVE FALSE
    <3>1. toPage # <<>> /\ Head(toPage).t = "frame"
      BY <2>1 DEF TakeFrame
    <3>2. Head(toPage) = toPage[1] /\ 1 \in DOMAIN toPage
      BY <3>1, TypesUsed, HeadTail
    <3> QED BY <1>p, <3>1, <3>2, TypesUsed
  <2> QED BY <1>p, <2>1 DEF SyncBitmaps
<1> QED BY <1>4, <1>5, <1>6, <1>7, <1>8, <1>9, <1>10, <1>11, <1>12 DEF Next, Worker, Page

\* A row that is wrong on the page is on its way, on the shared path.
LEMMA SharedRows ==
  ASSUME TypeInv, OrderInv, LockInv, SharedInv, RowInv, [Next]_vars, path = "shared"
  PROVE  RowInv'
<1> SUFFICES ASSUME gen' = screen', NEW y \in Rows, y \notin dropped', canvas'[y] # vram'[y] PROVE OnItsWay(y)'
  BY DEF RowInv
<1> DEFINE Shown == buffers[screen].seq # lastSeq \/ worker # "idle" \/ page \in {"lock", "take"}
<1>p. path' = "shared"
  BY DEF Next, Worker, Page, Paint, NewScreen, Fill, Publish, TakeScreen, TakeFrame, SyncBitmaps, ReadSeq, TakeRect, CopyRows, vars
<1>1. gen = screen /\ y \notin dropped /\ canvas[y] # vram[y] =>
        y \in In(damage) \/ InHand(y) \/ (Shown /\ y \in In(buffers[screen].rect)) \/ (page \in {"clear", "unlock", "copy"} /\ y \in In(taken))
  BY DEF RowInv, OnItsWay, Published, Fetched
<1>2. y \in In(damage') \/ InHand(y)' \/ (Shown' /\ y \in In(buffers'[screen'].rect)) \/ (page' \in {"clear", "unlock", "copy"} /\ y \in In(taken'))
      => OnItsWay(y)'
  BY <1>p DEF OnItsWay, Published, Fetched
<1>3. CASE Paint
  BY <1>1, <1>2, <1>3, PaintDoes DEF workerVars, pageVars, InHand
<1>4. CASE NewScreen
  <2>1. screen' = screen + 1 /\ gen' = gen
    BY <1>4 DEF NewScreen, pageVars
  <2> QED BY <2>1, TypesUsed, Bounds DEF OrderInv
<1>5. CASE Fill
  <2>1. /\ UNCHANGED <<vram, screen, buffers, pageVars>> /\ worker' = "copy" /\ region' = damage /\ worker = "idle"
    BY <1>5 DEF Fill, guestVars
  <2> QED BY <1>1, <1>2, <2>1 DEF InHand, pageVars
<1>6. CASE Publish
  <2>1. UNCHANGED <<vram, damage, region, screen, pageVars>>
    BY <1>6, PublishDoes
  <2>2. worker' = "idle" => buffers'[screen].seq # lastSeq
    <3>1. worker' = "idle" => buffers'[screen].seq = buffers[screen].seq + 1
      BY <1>6, PublishDoes, PublishKeeps
    <3>2. lastSeq <= buffers[screen].seq
      BY <2>1 DEF SharedInv, pageVars
    <3> QED BY <3>1, <3>2, TypesUsed
  <2> QED BY <1>1, <1>2, <1>6, <2>1, <2>2, PublishKeeps DEF pageVars
<1>7. CASE TakeScreen
  <2>1. UNCHANGED <<vram, damage, worker, region, screen, buffers, page>> /\ lastSeq' = 0 /\ canvas' = Blank /\ gen' = Head(toPage).gen
    BY <1>7 DEF TakeScreen, guestVars, workerVars
  <2>2. gen # screen
    <3>1. 1 \in DOMAIN toPage /\ Head(toPage) = toPage[1] /\ toPage[1].t = "screen"
      BY <1>7, TypesUsed, HeadTail DEF TakeScreen
    <3>2. gen < toPage[1].gen /\ toPage[1].gen <= screen /\ toPage[1].gen \in Nat
      BY <3>1, Messages, Bounds DEF OrderInv
    <3> QED BY <3>2, TypesUsed, Bounds
  <2>3. \/ y \in In(damage) \/ InHand(y)
        \/ y \in In(buffers[screen].rect) /\ (buffers[screen].seq # 0 \/ worker # "idle")
    BY <2>2 DEF SharedInv
  <2> QED BY <1>2, <2>1, <2>3 DEF InHand
<1>8. CASE ReadSeq
  <2>1. UNCHANGED <<vram, damage, worker, region, screen, buffers, gen, canvas, dropped>> /\ page = "idle" /\ page' = "lock"
    BY <1>8 DEF ReadSeq, guestVars, workerVars
  <2> QED BY <1>1, <1>2, <2>1 DEF InHand
<1>9. CASE TakeRect
  <2>1. UNCHANGED <<vram, damage, worker, region, screen, gen, lastSeq, canvas, dropped>> /\ buffers'[gen].seq = buffers[gen].seq
        /\ page \in {"lock", "take", "clear", "unlock"}
    BY <1>9, TakeRectDoes DEF guestVars, workerVars
  <2>2. y \in In(damage) \/ InHand(y) => OnItsWay(y)'
    BY <1>2, <2>1 DEF InHand
  <2>3. CASE page = "lock"
    BY <1>1, <1>2, <1>9, <2>1, <2>2, <2>3, TakeRectDoes
  <2>4. CASE page = "take"
    BY <1>1, <1>2, <1>9, <2>1, <2>2, <2>4, TakeRectDoes
  <2>5. CASE page = "clear"
    <3>1. taken = buffers[gen].rect /\ taken' = taken /\ page' = "unlock"
      BY <1>9, <2>5, TakeRectDoes DEF LockInv
    <3> QED BY <1>1, <1>2, <2>1, <2>2, <2>5, <3>1
  <2>6. CASE page = "unlock"
    BY <1>1, <1>2, <1>9, <2>1, <2>2, <2>6, TakeRectDoes
  <2> QED BY <2>1, <2>3, <2>4, <2>5, <2>6
<1>10. CASE CopyRows
  <2>1. /\ UNCHANGED <<vram, damage, worker, region, screen, buffers, gen, lastSeq, dropped>> /\ page = "copy"
        /\ canvas' = Copied(canvas, buffers[gen].px, taken)
    BY <1>10 DEF CopyRows, guestVars, workerVars
  <2>2. canvas'[y] = IF y \in In(taken) THEN buffers[gen].px[y] ELSE canvas[y]
    BY <2>1 DEF Copied
  <2>3. CASE y \in In(taken)
    <3>1. y \in In(damage) \/ InHand(y)
      BY <2>1, <2>2, <2>3 DEF SharedInv, InHand
    <3> QED BY <1>2, <2>1, <3>1 DEF InHand
  <2>4. CASE y \notin In(taken)
    BY <1>1, <1>2, <2>1, <2>2, <2>4 DEF InHand
  <2> QED BY <2>3, <2>4
<1>11. CASE UNCHANGED vars
  BY <1>1, <1>2, <1>11 DEF InHand, guestVars, workerVars, pageVars, vars
<1>12. ~TakeFrame /\ ~SyncBitmaps
  <2>1. ASSUME TakeFrame PROVE FALSE
    <3>1. toPage # <<>> /\ Head(toPage).t = "frame"
      BY <2>1 DEF TakeFrame
    <3>2. Head(toPage) = toPage[1] /\ 1 \in DOMAIN toPage
      BY <3>1, TypesUsed, HeadTail
    <3> QED BY <3>1, <3>2, TypesUsed
  <2> QED BY <2>1 DEF SyncBitmaps
<1> QED BY <1>3, <1>4, <1>5, <1>6, <1>7, <1>8, <1>9, <1>10, <1>11, <1>12 DEF Next, Worker, Page

-----------------------------------------------------------------------------
(* The bitmap path.                                                        *)

\* The steps there are on the bitmap path.
LEMMA BitmapSteps ==
  ASSUME TypeInv, [Next]_vars, path = "bitmap"
  PROVE  path' = "bitmap" /\ (Paint \/ NewScreen \/ Fill \/ TakeScreen \/ TakeFrame \/ SyncBitmaps \/ UNCHANGED vars)
<1>1. ~Publish /\ ~ReadSeq /\ ~TakeRect /\ ~CopyRows
  BY TypesUsed DEF Publish, ReadSeq, TakeRect, CopyRows
<1>2. Paint \/ NewScreen \/ Fill \/ TakeScreen \/ TakeFrame \/ SyncBitmaps \/ UNCHANGED vars
  BY <1>1 DEF Next, Worker, Page
<1>3. path' = path
  BY <1>2 DEF Paint, NewScreen, Fill, TakeScreen, TakeFrame, SyncBitmaps, vars
<1> QED BY <1>2, <1>3

\* What is so of the rows of one state.
FramesShow(y) == \A i \in DOMAIN toPage : toPage[i].t = "frame" /\ toPage[i].px[y] # vram[y] =>
  y \in In(damage) \/ \E j \in DOMAIN toPage : i < j /\ toPage[j].t = "frame" /\ y \in In(toPage[j].rect)
QueueShows(y) == \A i \in DOMAIN queue : queue[i].px[y] # vram[y] =>
  y \in In(damage) \/ InOneOf(toPage, y) \/ \E j \in DOMAIN queue : i < j /\ y \in In(queue[j].rect)
NewShows(y) == gen # screen =>
  y \in In(damage) \/ \E i \in DOMAIN toPage : toPage[i].t = "frame" /\ toPage[i].gen = screen /\ y \in In(toPage[i].rect)
RowComes(y) == gen = screen /\ y \notin dropped /\ canvas[y] # vram[y] =>
  y \in In(damage) \/ InOneOf(queue, y) \/ InOneOf(toPage, y)
Shows(y) == FramesShow(y) /\ QueueShows(y) /\ NewShows(y) /\ RowComes(y)

LEMMA BitmapShows == path = "bitmap" /\ TypeInv => (BitmapInv /\ RowInv <=> \A y \in Rows : Shows(y))
<1> SUFFICES ASSUME path = "bitmap", TypeInv PROVE BitmapInv /\ RowInv <=> \A y \in Rows : Shows(y)
  OBVIOUS
<1>1. \A y : ~InHand(y)
  BY TypesUsed DEF InHand
<1>2. BitmapInv /\ RowInv => \A y \in Rows : Shows(y)
  BY <1>1 DEF BitmapInv, RowInv, OnItsWay, Shows, FramesShow, QueueShows, NewShows, RowComes
<1>3. (\A y \in Rows : Shows(y)) => BitmapInv /\ RowInv
  <2> SUFFICES ASSUME \A y \in Rows : Shows(y) PROVE BitmapInv /\ RowInv
    OBVIOUS
  <2>1. BitmapInv
    BY DEF BitmapInv, Shows, FramesShow, QueueShows, NewShows
  <2>2. RowInv
    BY DEF RowInv, OnItsWay, Shows, RowComes
  <2> QED BY <2>1, <2>2
<1> QED BY <1>2, <1>3

LEMMA FillShows ==
  ASSUME TypeInv, path = "bitmap", Fill, NEW y \in Rows, Shows(y)
  PROVE  Shows(y)'
<1> DEFINE f == [t |-> "frame", gen |-> screen, rect |-> damage, px |-> vram]
<1> DEFINE n == Len(toPage) + 1
<1>1. UNCHANGED <<vram, screen, gen, queue, canvas, dropped>> /\ toPage' = Append(toPage, f)
  BY DEF Fill, guestVars, pageVars
<1>2. f \in Screens \cup Frames /\ toPage \in Seq(Screens \cup Frames)
  BY TypesUsed DEF Frames
<1>3. f.t = "frame" /\ f.gen = screen /\ f.rect = damage /\ f.px = vram
  OBVIOUS
<1> HIDE DEF f
<1>4. /\ Len(toPage) \in Nat /\ DOMAIN toPage = 1 .. Len(toPage) /\ DOMAIN toPage' = 1 .. n
      /\ \A i \in DOMAIN toPage : toPage'[i] = toPage[i]
      /\ toPage'[n] = f
  BY <1>1, <1>2, Appended
<1>5. /\ n \in DOMAIN toPage' /\ \A i \in DOMAIN toPage' : i = n \/ i \in DOMAIN toPage
      /\ \A i \in DOMAIN toPage : i < n /\ i \in DOMAIN toPage'
  BY <1>4
<1> HIDE DEF n
<1>6. FramesShow(y)'
  BY <1>1, <1>3, <1>4, <1>5 DEF Shows, FramesShow
<1>7. InOneOf(toPage, y) \/ y \in In(damage) => InOneOf(toPage', y)
  BY <1>3, <1>4, <1>5 DEF InOneOf
<1>8. QueueShows(y)'
  BY <1>1, <1>7 DEF Shows, QueueShows
<1>9. NewShows(y)'
  BY <1>1, <1>3, <1>4, <1>5 DEF Shows, NewShows
<1>10. InOneOf(queue', y) <=> InOneOf(queue, y)
  BY <1>1
<1>11. RowComes(y)'
  BY <1>1, <1>7, <1>10 DEF Shows, RowComes
<1> QED BY <1>6, <1>8, <1>9, <1>11 DEF Shows

\* The rest of the messages, when the first has been taken.
LEMMA RestShows ==
  ASSUME TypeInv, toPage # <<>>, toPage' = Tail(toPage), UNCHANGED <<vram, damage>>, NEW y, FramesShow(y)
  PROVE  FramesShow(y)'
<1>1. /\ \A i \in DOMAIN toPage' : i \in Nat /\ i >= 1 /\ i + 1 \in DOMAIN toPage /\ toPage'[i] = toPage[i + 1]
      /\ \A i \in DOMAIN toPage : i = 1 \/ (i - 1 \in DOMAIN toPage' /\ toPage'[i - 1] = toPage[i])
  BY TypesUsed, HeadTail
<1> SUFFICES ASSUME NEW i \in DOMAIN toPage', toPage'[i].t = "frame", toPage'[i].px[y] # vram[y], y \notin In(damage)
             PROVE  \E j \in DOMAIN toPage' : i < j /\ toPage'[j].t = "frame" /\ y \in In(toPage'[j].rect)
  BY DEF FramesShow
<1>2. PICK j \in DOMAIN toPage : i + 1 < j /\ toPage[j].t = "frame" /\ y \in In(toPage[j].rect)
  BY <1>1 DEF FramesShow
<1>3. j - 1 \in DOMAIN toPage' /\ toPage'[j - 1] = toPage[j] /\ i < j - 1
  BY <1>1, <1>2, Messages
<1> QED BY <1>2, <1>3

LEMMA ScreenShows ==
  ASSUME TypeInv, OrderInv, path = "bitmap", TakeScreen, NEW y \in Rows, Shows(y)
  PROVE  Shows(y)'
<1>1. /\ UNCHANGED <<vram, damage, screen>> /\ queue' = <<>> /\ toPage' = Tail(toPage) /\ toPage # <<>>
      /\ gen' = Head(toPage).gen /\ canvas' = Blank /\ Head(toPage).t = "screen"
  BY DEF TakeScreen, guestVars, workerVars
<1>2. /\ 1 \in DOMAIN toPage /\ Head(toPage) = toPage[1]
      /\ \A i \in DOMAIN toPage : i = 1 \/ (i - 1 \in DOMAIN toPage' /\ toPage'[i - 1] = toPage[i])
  BY <1>1, TypesUsed, HeadTail
<1>3. gen # screen
  <2>1. gen < toPage[1].gen /\ toPage[1].gen <= screen /\ toPage[1].gen \in Nat
    BY <1>1, <1>2, Messages, Bounds DEF OrderInv
  <2> QED BY <2>1, TypesUsed, Bounds
<1>4. y \in In(damage) \/ \E i \in DOMAIN toPage' : toPage'[i].t = "frame" /\ toPage'[i].gen = screen /\ y \in In(toPage'[i].rect)
  BY <1>1, <1>2, <1>3 DEF Shows, NewShows
<1>5. FramesShow(y)'
  BY <1>1, RestShows DEF Shows
<1>6. QueueShows(y)'
  BY <1>1 DEF QueueShows
<1>7. NewShows(y)' /\ RowComes(y)'
  BY <1>1, <1>4 DEF NewShows, RowComes, InOneOf
<1> QED BY <1>5, <1>6, <1>7 DEF Shows

LEMMA FrameShows ==
  ASSUME TypeInv, OrderInv, path = "bitmap", TakeFrame, NEW y \in Rows, Shows(y)
  PROVE  Shows(y)'
<1> DEFINE q == Append(queue, Head(toPage))
<1> DEFINE n == Len(queue) + 1
<1>1. /\ UNCHANGED <<vram, damage, screen, gen, canvas>> /\ toPage # <<>> /\ toPage' = Tail(toPage)
      /\ Head(toPage).t = "frame" /\ queue' = Enqueued(q)
      /\ dropped' = dropped \cup UNION {In(q[i].rect) : i \in 1 .. Len(q) - Len(queue')}
  BY DEF TakeFrame, guestVars, workerVars
<1>2. /\ 1 \in DOMAIN toPage /\ Head(toPage) = toPage[1]
      /\ \A i \in DOMAIN toPage : i = 1 \/ (i - 1 \in DOMAIN toPage' /\ toPage'[i - 1] = toPage[i])
  BY <1>1, TypesUsed, HeadTail
<1>3. Head(toPage) \in Frames /\ queue \in Seq(Frames)
  BY <1>1, <1>2, Messages, TypesUsed
<1>4. /\ q \in Seq(Frames) /\ Len(queue) \in Nat /\ DOMAIN queue = 1 .. Len(queue) /\ DOMAIN q = 1 .. n /\ Len(q) = n
      /\ \A i \in DOMAIN queue : q[i] = queue[i]
      /\ q[n] = toPage[1] /\ q # <<>>
  BY <1>2, <1>3, Appended, AppendProperties
<1>5. /\ n \in DOMAIN q /\ (\A i \in DOMAIN q : i = n \/ i \in DOMAIN queue)
      /\ \A i \in DOMAIN queue : i < n /\ i \in DOMAIN q
  BY <1>4
<1> HIDE DEF q, n
<1>6. \A i \in DOMAIN toPage : toPage[i].t = "frame" /\ y \in In(toPage[i].rect) => i = 1 \/ InOneOf(toPage', y)
  BY <1>2 DEF InOneOf
<1>7. \A i \in DOMAIN q : q[i].px[y] # vram[y] =>
        y \in In(damage) \/ InOneOf(toPage', y) \/ \E j \in DOMAIN q : i < j /\ y \in In(q[j].rect)
  <2> SUFFICES ASSUME NEW i \in DOMAIN q, q[i].px[y] # vram[y], y \notin In(damage), ~InOneOf(toPage', y)
               PROVE  \E j \in DOMAIN q : i < j /\ y \in In(q[j].rect)
    OBVIOUS
  <2>1. CASE i = n
    <3>1. \E j \in DOMAIN toPage : 1 < j /\ toPage[j].t = "frame" /\ y \in In(toPage[j].rect)
      BY <1>1, <1>2, <1>4, <2>1 DEF Shows, FramesShow
    <3> QED BY <1>6, <3>1
  <2>2. CASE i \in DOMAIN queue
    <3>1. InOneOf(toPage, y) \/ \E j \in DOMAIN queue : i < j /\ y \in In(queue[j].rect)
      BY <1>4, <2>2 DEF Shows, QueueShows
    <3>2. CASE InOneOf(toPage, y)
      <4>1. y \in In(toPage[1].rect)
        BY <1>6, <3>2 DEF InOneOf
      <4> QED BY <1>4, <1>5, <2>2, <4>1
    <3>3. CASE \E j \in DOMAIN queue : i < j /\ y \in In(queue[j].rect)
      BY <1>4, <1>5, <3>3
    <3> QED BY <3>1, <3>2, <3>3
  <2> QED BY <1>5, <2>1, <2>2
<1>8. gen = screen /\ y \notin dropped /\ canvas[y] # vram[y] =>
        y \in In(damage) \/ InOneOf(toPage', y) \/ \E j \in DOMAIN q : y \in In(q[j].rect)
  <2>1. InOneOf(queue, y) => \E j \in DOMAIN q : y \in In(q[j].rect)
    BY <1>4, <1>5 DEF InOneOf
  <2>2. InOneOf(toPage, y) => InOneOf(toPage', y) \/ \E j \in DOMAIN q : y \in In(q[j].rect)
    BY <1>4, <1>5, <1>6 DEF InOneOf
  <2> QED BY <2>1, <2>2 DEF Shows, RowComes
<1>9. \A i \in DOMAIN q : i = 1 \/ (i - 1 \in DOMAIN Tail(q) /\ Tail(q)[i - 1] = q[i])
  BY <1>4, HeadTail
<1>10. \A i \in DOMAIN Tail(q) : i \in Nat /\ i >= 1 /\ i + 1 \in DOMAIN q /\ Tail(q)[i] = q[i + 1]
  BY <1>4, HeadTail
<1>11. \A i \in DOMAIN q : i \in Nat /\ i >= 1 /\ q[i] \in Frames /\ q[i].t = "frame"
  <2>1. \A i \in DOMAIN q : i \in Nat /\ i >= 1 /\ q[i] \in Frames
    BY <1>4
  <2> QED BY <2>1 DEF Frames
<1>12. QueueShows(y)'
  <2>1. CASE queue' = q
    BY <1>1, <1>7, <2>1 DEF QueueShows
  <2>2. CASE queue' = Tail(q)
    <3> SUFFICES ASSUME NEW i \in DOMAIN Tail(q), Tail(q)[i].px[y] # vram[y], y \notin In(damage), ~InOneOf(toPage', y)
                 PROVE  \E j \in DOMAIN Tail(q) : i < j /\ y \in In(Tail(q)[j].rect)
      BY <1>1, <2>2 DEF QueueShows
    <3>1. PICK j \in DOMAIN q : i + 1 < j /\ y \in In(q[j].rect)
      BY <1>7, <1>10
    <3>2. j - 1 \in DOMAIN Tail(q) /\ Tail(q)[j - 1] = q[j] /\ i < j - 1
      BY <1>9, <1>10, <1>11, <3>1
    <3> QED BY <3>1, <3>2
  <2> QED BY <1>1, <2>1, <2>2 DEF Enqueued
<1>13. RowComes(y)'
  <2>1. CASE queue' = q
    <3>1. (\E j \in DOMAIN q : y \in In(q[j].rect)) => InOneOf(queue', y)
      BY <1>11, <2>1 DEF InOneOf
    <3> QED BY <1>1, <1>8, <3>1 DEF RowComes
  <2>2. CASE queue' = Tail(q)
    <3>1. Len(q) - Len(queue') = 1
      BY <1>4, <2>2, HeadTail
    <3>2. In(q[1].rect) \subseteq dropped'
      BY <1>1, <3>1
    <3>3. y \notin dropped' /\ (\E j \in DOMAIN q : y \in In(q[j].rect)) => InOneOf(queue', y)
      <4> SUFFICES ASSUME y \notin dropped', NEW j \in DOMAIN q, y \in In(q[j].rect) PROVE InOneOf(queue', y)
        OBVIOUS
      <4>1. j - 1 \in DOMAIN queue' /\ queue'[j - 1] = q[j]
        BY <1>9, <2>2, <3>2
      <4> QED BY <1>11, <4>1 DEF InOneOf
    <3> QED BY <1>1, <1>8, <3>3 DEF RowComes
  <2> QED BY <1>1, <2>1, <2>2 DEF Enqueued
<1>14. NewShows(y)'
  <2>1. gen # screen => toPage[1].gen # screen
    <3>1. toPage[1].gen = gen \/ \E j \in DOMAIN toPage : j < 1
      BY <1>1, <1>2 DEF OrderInv
    <3> QED BY <3>1, Messages
  <2> QED BY <1>1, <1>2, <2>1 DEF Shows, NewShows
<1>15. FramesShow(y)'
  BY <1>1, RestShows DEF Shows
<1> QED BY <1>12, <1>13, <1>14, <1>15 DEF Shows

LEMMA SyncShows ==
  ASSUME TypeInv, OrderInv, path = "bitmap", SyncBitmaps, NEW y \in Rows, Shows(y)
  PROVE  Shows(y)'
<1>1. /\ UNCHANGED <<vram, damage, screen, gen, toPage>> /\ queue' = <<>> /\ canvas' = Drawn(queue)
      /\ dropped' = dropped \ UNION {In(queue[i].rect) : i \in DOMAIN queue}
  BY DEF SyncBitmaps, guestVars, workerVars
<1>2. FramesShow(y)' /\ QueueShows(y)' /\ NewShows(y)'
  BY <1>1 DEF Shows, FramesShow, QueueShows, NewShows
<1>3. \A i \in DOMAIN queue : y \in In(queue[i].rect) => i \in Covering(queue, y)
  BY DEF OrderInv, Covering
<1>4. RowComes(y)'
  <2> SUFFICES ASSUME gen = screen, y \notin dropped', canvas'[y] # vram[y], y \notin In(damage)
               PROVE  InOneOf(toPage, y)
    BY <1>1 DEF RowComes
  <2>1. CASE Covering(queue, y) = {}
    <3>1. canvas[y] # vram[y]
      BY <1>1, <2>1, DrawnRows
    <3>2. \A i \in DOMAIN queue : y \notin In(queue[i].rect)
      BY <1>3, <2>1
    <3>3. y \notin dropped
      BY <1>1, <3>2
    <3>4. ~InOneOf(queue, y)
      BY <3>2 DEF InOneOf
    <3> QED BY <3>1, <3>3, <3>4 DEF Shows, RowComes
  <2>2. CASE Covering(queue, y) # {}
    <3>1. PICK i \in Covering(queue, y) : (\A j \in Covering(queue, y) : j <= i) /\ canvas'[y] = queue[i].px[y]
      BY <1>1, <2>2, DrawnRows
    <3>2. i \in DOMAIN queue /\ i \in Nat
      BY Messages DEF Covering
    <3>3. ~\E j \in DOMAIN queue : i < j /\ y \in In(queue[j].rect)
      <4> SUFFICES ASSUME NEW j \in DOMAIN queue, i < j, y \in In(queue[j].rect) PROVE FALSE
        OBVIOUS
      <4>1. j <= i /\ j \in Nat
        BY <1>3, <3>1, Messages
      <4> QED BY <3>2, <4>1
    <3> QED BY <3>1, <3>2, <3>3 DEF Shows, QueueShows
  <2> QED BY <2>1, <2>2
<1> QED BY <1>2, <1>4 DEF Shows

LEMMA BitmapNext ==
  ASSUME TypeInv, OrderInv, BitmapInv, RowInv, [Next]_vars, path = "bitmap"
  PROVE  BitmapInv' /\ RowInv'
<1>1. path' = "bitmap" /\ TypeInv'
  BY BitmapSteps, TypeNext
<1>2. \A y \in Rows : Shows(y)
  BY BitmapShows
<1>3. ASSUME NEW y \in Rows PROVE Shows(y)'
  <2>1. Shows(y)
    BY <1>2
  <2>2. CASE Paint
    <3>1. UNCHANGED <<screen, gen, queue, toPage, canvas, dropped>> /\ (y \in In(damage) => y \in In(damage'))
          /\ (vram'[y] = vram[y] \/ y \in In(damage'))
      BY <2>2, PaintDoes DEF workerVars, pageVars
    <3> QED BY <2>1, <3>1 DEF Shows, FramesShow, QueueShows, NewShows, RowComes, InOneOf
  <2>3. CASE NewScreen
    <3>1. damage' = All /\ y \in In(All)
      BY <2>3, Bounds DEF NewScreen
    <3> QED BY <3>1 DEF Shows, FramesShow, QueueShows, NewShows, RowComes
  <2>4. CASE Fill
    BY <2>1, <2>4, FillShows
  <2>5. CASE TakeScreen
    BY <2>1, <2>5, ScreenShows
  <2>6. CASE TakeFrame
    BY <2>1, <2>6, FrameShows
  <2>7. CASE SyncBitmaps
    BY <2>1, <2>7, SyncShows
  <2>8. CASE UNCHANGED vars
    <3>1. UNCHANGED <<vram, damage, screen, gen, queue, toPage, canvas, dropped>>
      BY <2>8 DEF vars, guestVars, workerVars, pageVars
    <3> QED BY <2>1, <3>1 DEF Shows, FramesShow, QueueShows, NewShows, RowComes, InOneOf
  <2> QED BY <2>2, <2>3, <2>4, <2>5, <2>6, <2>7, <2>8, BitmapSteps
<1>4. (path = "bitmap" /\ TypeInv => (BitmapInv /\ RowInv <=> \A y \in Rows : Shows(y)))'
  BY BitmapShows, PTL
<1> QED BY <1>1, <1>3, <1>4

-----------------------------------------------------------------------------
LEMMA InvInit == Init => IInv
<1> SUFFICES ASSUME Init PROVE IInv
  OBVIOUS
<1>1. /\ damage = All /\ worker = "idle" /\ screen = 1 /\ page = "idle" /\ gen = 0 /\ queue = <<>>
      /\ toPage = <<[t |-> "screen", gen |-> 1]>>
  BY DEF Init
<1>2. DOMAIN toPage = {1} /\ toPage[1] = [t |-> "screen", gen |-> 1]
  BY <1>1
<1>3. OrderInv
  BY <1>1, <1>2 DEF OrderInv
<1>4. LockInv
  BY <1>1 DEF LockInv, Inside, PageInside
<1>5. \A y \in Rows : y \in In(damage)
  BY <1>1, Bounds
<1>6. SharedInv /\ BitmapInv /\ RowInv
  BY <1>1, <1>2, <1>5 DEF SharedInv, BitmapInv, RowInv
<1> QED BY <1>3, <1>4, <1>6, TypeInit DEF IInv

LEMMA InvNext == IInv /\ [Next]_vars => IInv'
<1> SUFFICES ASSUME IInv, [Next]_vars PROVE IInv'
  OBVIOUS
<1>1. TypeInv' /\ OrderInv' /\ LockInv' /\ SharedInv' /\ path' = path /\ path \in {"shared", "bitmap"}
  <2>1. path' = path
    BY DEF Next, Worker, Page, Paint, NewScreen, Fill, Publish, TakeScreen, TakeFrame, SyncBitmaps, ReadSeq, TakeRect, CopyRows, vars
  <2> QED BY <2>1, TypeNext, OrderNext, LockNext, SharedNext, TypesUsed DEF IInv
<1>2. BitmapInv' /\ RowInv'
  <2>1. CASE path = "shared"
    <3>1. BitmapInv'
      BY <1>1, <2>1 DEF BitmapInv
    <3> QED BY <2>1, <3>1, SharedRows DEF IInv
  <2>2. CASE path = "bitmap"
    BY <2>2, BitmapNext DEF IInv
  <2> QED BY <1>1, <2>1, <2>2
<1> QED BY <1>1, <1>2 DEF IInv

\* On either path and for any height, a row of the page's canvas that is not what
\* the guest shows is on its way, however the two threads' accesses fall between
\* each other.
THEOREM RowsArrive == Spec => []NoRowForgotten
<1>1. IInv => NoRowForgotten
  <2> SUFFICES ASSUME IInv, gen = screen, NEW y \in Rows, y \notin dropped, canvas[y] # vram[y] PROVE y \in UnderWay
    BY DEF NoRowForgotten
  <2>1. OnItsWay(y)
    BY DEF IInv, RowInv
  <2>2. InOneOf(queue, y) \/ InOneOf(toPage, y) => y \in Carried
    <3>1. \A i \in DOMAIN queue : queue[i].t = "frame" /\ y \in In(queue[i].rect) => y \in Carried
      BY DEF Carried
    <3>2. \A i \in DOMAIN toPage : toPage[i].t = "frame" /\ y \in In(toPage[i].rect) => y \in Carried
      BY DEF Carried
    <3> QED BY <3>1, <3>2 DEF InOneOf
  <2> QED BY <2>1, <2>2 DEF OnItsWay, UnderWay, InHand
<1> QED BY <1>1, InvInit, InvNext, PTL DEF Spec
=============================================================================
