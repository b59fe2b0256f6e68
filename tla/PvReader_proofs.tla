-------------------------- MODULE PvReader_proofs ---------------------------
(***************************************************************************)
(* Proofs about PvReader, for any programs, handles, documents, sizes of   *)
(* blocks, chunks and buffers, and both kinds of host.                     *)
(***************************************************************************)
EXTENDS PvReader, SequenceTheorems, WellFoundedInduction, TLAPS

-----------------------------------------------------------------------------
(* Recursive functions over 0 .. n.                                        *)

LEMMA LowestIn ==
  ASSUME NEW S \in SUBSET Nat, S # {}
  PROVE  \E n \in S : \A m \in S : ~(m < n)
<1> DEFINE R == OpToRel(<, Nat)
<1>1. IsWellFoundedOn(R, Nat)
  BY NatLessThanWellFounded
<1> HIDE DEF R
<1>2. PICK n \in S : \A m \in S : ~(<<m, n>> \in R)
  BY <1>1, WFMin
<1> USE DEF R
<1>3. \A m \in S : m < n => <<m, n>> \in R
  BY Zenon DEF OpToRel
<1> QED BY <1>2, <1>3

\* A set of numbers up to n that has every number whose predecessors it has.
LEMMA Upwards ==
  ASSUME NEW n \in Nat, NEW good,
         \A i \in 0 .. n : (\A j \in 0 .. i - 1 : j \in good) => i \in good
  PROVE  \A i \in 0 .. n : i \in good
<1> DEFINE bad == {i \in 0 .. n : i \notin good}
<1> SUFFICES ASSUME bad # {} PROVE FALSE
  OBVIOUS
<1>1. bad \in SUBSET Nat
  OBVIOUS
<1>2. PICK i \in bad : \A j \in bad : ~(j < i)
  BY <1>1, LowestIn
<1>3. i \in 0 .. n /\ i \notin good
  OBVIOUS
<1>4. \A j \in 0 .. i - 1 : j \in 0 .. n /\ j < i
  BY <1>3
<1>5. \A j \in 0 .. i - 1 : j \in good
  BY <1>2, <1>4
<1> QED BY <1>3, <1>5

\* There is a function of which every value follows, by a function of its own,
\* from an earlier one.
Follows(f, n, base, from, step) ==
  f = [i \in 0 .. n |-> IF i = 0 THEN base ELSE step[i][f[from[i]]]]

LEMMA Recursion ==
  ASSUME NEW n \in Nat, NEW V, NEW base \in V,
         NEW from \in [1 .. n -> Nat], \A i \in 1 .. n : from[i] < i,
         NEW step \in [1 .. n -> [V -> V]]
  PROVE  \E f \in [0 .. n -> V] : Follows(f, n, base, from, step)
<1> DEFINE Is(f, m) == /\ f \in [0 .. m -> V]
                       /\ \A i \in 0 .. m : f[i] = IF i = 0 THEN base ELSE step[i][f[from[i]]]
           good == {m \in 0 .. n : \E f : Is(f, m)}
<1>1. ASSUME NEW m \in 0 .. n, \A j \in 0 .. m - 1 : j \in good
      PROVE  m \in good
  <2>1. CASE m = 0
    <3> DEFINE f == [i \in 0 .. 0 |-> base]
    <3>1. Is(f, 0)
      OBVIOUS
    <3> QED BY <2>1, <3>1
  <2>2. CASE m # 0
    <3>1. m - 1 \in 0 .. m - 1 /\ m - 1 \in 0 .. n /\ m \in 1 .. n /\ m \in Nat
      BY <2>2
    <3>2. m - 1 \in good
      BY <1>1, <3>1
    <3>3. PICK f : Is(f, m - 1)
      BY <3>2
    <3>4. from[m] \in 0 .. m - 1 /\ f[from[m]] \in V
      BY <3>1, <3>3
    <3> DEFINE new == step[m][f[from[m]]]
    <3>5. new \in V
      BY <3>1, <3>4
    <3> DEFINE g == [i \in 0 .. m |-> IF i = m THEN new ELSE f[i]]
    <3>6. \A i \in 0 .. m : i # m => i \in 0 .. m - 1
      BY <3>1
    <3>7. \A i \in 0 .. m - 1 : i \in 0 .. m /\ i # m
      BY <3>1
    <3> HIDE DEF new
    <3>8. g \in [0 .. m -> V] /\ g[m] = new /\ \A i \in 0 .. m - 1 : g[i] = f[i]
      BY <3>1, <3>3, <3>5, <3>6, <3>7
    <3> HIDE DEF g
    <3>9. \A i \in 0 .. m : g[i] = IF i = 0 THEN base ELSE step[i][g[from[i]]]
      <4> TAKE i \in 0 .. m
      <4>1. CASE i = m
        BY <2>2, <3>4, <3>8, <4>1 DEF new
      <4>2. CASE i # m
        <5>1. i \in 0 .. m - 1 /\ (i # 0 => i \in 1 .. n)
          BY <3>1, <3>6, <4>2
        <5>2. i # 0 => from[i] \in 0 .. m - 1
          BY <3>1, <5>1
        <5>3. f[i] = IF i = 0 THEN base ELSE step[i][f[from[i]]]
          BY <3>3, <5>1
        <5> QED BY <3>8, <5>1, <5>2, <5>3
      <4> QED BY <4>1, <4>2
    <3> QED BY <3>8, <3>9
  <2> QED BY <2>1, <2>2
<1> HIDE DEF good
<1>2. \A m \in 0 .. n : m \in good
  BY <1>1, Upwards
<1>3. PICK f : Is(f, n)
  <2> HIDE DEF Is
  <2>1. n \in good
    BY <1>2
  <2>2. \E f : Is(f, n)
    BY <2>1, Zenon DEF good
  <2> QED BY <2>2
<1> DEFINE g == [i \in 0 .. n |-> IF i = 0 THEN base ELSE step[i][f[from[i]]]]
<1>4. f = [i \in 0 .. n |-> f[i]] /\ f \in [0 .. n -> V]
  BY <1>3
<1>5. \A i \in 0 .. n : f[i] = g[i]
  BY <1>3
<1>6. f = g
  <2>1. g = [i \in 0 .. n |-> g[i]]
    OBVIOUS
  <2> HIDE DEF g
  <2> QED BY <1>4, <1>5, <2>1
<1> QED BY <1>4, <1>6 DEF Follows

-----------------------------------------------------------------------------
(* PAGE's view: types, and what is shown.                                  *)

\* Whatever plays is a clip, and shows the frame that its next one changes.
ClipOK(b) ==
  b.playing => /\ b.kind \in Clips /\ b.pic # Garbled
               /\ b.ix = 0 \/ b.pic = b.ix
               /\ Inter(b) => b.books = b.ix

Widths == UNION {{size[1] : size \in c.sizes} : c \in Casts}
View == [blocks : Seq(BlockRec), docH : Nat, scroll : Nat, w : Widths, h : Nat,
         timer : BOOLEAN, range : Nat, pos : Nat, shift : Nat]
Fit(v)   == v \in View /\ Len(v.blocks) <= MaxBlocks /\ \A i \in DOMAIN v.blocks : ClipOK(v.blocks[i])
Laid(v)  == Fit(v) /\ v.scroll <= Span(v) /\ (v.blocks = <<>> => v.docH = 0)
Shows(v) == /\ \A i \in DOMAIN v.blocks : v.blocks[i].playing => OnScreen(v, v.blocks[i])
            /\ v.timer = \E i \in DOMAIN v.blocks : v.blocks[i].playing
\* The same blocks, whatever they show and wherever they are.
SameBlocks(v, u) == /\ DOMAIN u.blocks = DOMAIN v.blocks
                    /\ \A i \in DOMAIN v.blocks : u.blocks[i].kind = v.blocks[i].kind
SamePlace(b, c)  == c \in BlockRec /\ c.kind = b.kind /\ c.y = b.y /\ c.h = b.h

LEMMA PageBounds ==
  /\ Pad \in Nat /\ MaxBlocks \in Nat /\ MaxBlocks > 0 /\ MaxPos \in Nat /\ ClockWrap \in Nat /\ ClockWrap > 0
  /\ Clips \subseteq Kinds
  /\ \A c \in Clips : /\ ClipOf[c].promised \in Nat /\ ClipOf[c].whole \in Nat
                      /\ ClipOf[c].tail \in BOOLEAN /\ ClipOf[c].step \in Nat
BY PvPageAssumption

LEMMA BlockFields ==
  ASSUME NEW b \in BlockRec
  PROVE  /\ b.kind \in Kinds /\ b.y \in Nat /\ b.h \in Nat /\ b.playing \in BOOLEAN /\ b.ix \in Nat
         /\ b.frames \in Nat /\ b.pic \in Nat \cup {Garbled} /\ b.books \in Nat /\ b.due \in 0 .. ClockWrap - 1
BY DEF BlockRec

\* The changes of a block that its clip makes.
LEMMA BlockChanged ==
  ASSUME NEW b \in BlockRec, NEW playing \in BOOLEAN, NEW ix \in Nat, NEW frames \in Nat,
         NEW pic \in Nat \cup {Garbled}, NEW books \in Nat, NEW due \in 0 .. ClockWrap - 1
  PROVE  /\ SamePlace(b, [b EXCEPT !.ix = ix, !.books = books])
         /\ SamePlace(b, [b EXCEPT !.frames = frames])
         /\ SamePlace(b, [b EXCEPT !.ix = ix, !.pic = pic, !.books = books])
         /\ SamePlace(b, [b EXCEPT !.playing = playing, !.pic = pic, !.books = books])
         /\ SamePlace(b, [b EXCEPT !.playing = playing, !.ix = ix, !.pic = pic, !.books = books, !.due = due])
         /\ SamePlace(b, [b EXCEPT !.due = due])
BY DEF SamePlace, BlockRec

\* video_next: a clip that plays goes on playing.
LEMMA NextFrameKeeps ==
  ASSUME NEW b \in BlockRec, ClipOK(b), b.playing
  PROVE  SamePlace(b, NextFrame(b)) /\ ClipOK(NextFrame(b)) /\ NextFrame(b).playing
<1> DEFINE clip == ClipOf[b.kind]
           over == b.ix >= b.frames \/ (b.ix >= clip.whole /\ ~clip.tail)
           c    == IF over THEN Again(b) ELSE b
           j    == c.ix + 1
<1>1. /\ b.kind \in Clips /\ b.pic # Garbled /\ (b.ix = 0 \/ b.pic = b.ix) /\ (Inter(b) => b.books = b.ix)
      /\ clip.whole \in Nat
  BY PageBounds DEF ClipOK
<1>2. b.ix \in Nat /\ b.pic \in Nat /\ b.books \in Nat /\ b.frames \in Nat /\ b.playing
  BY <1>1, BlockFields
<1>3. SamePlace(b, c) /\ ClipOK(c) /\ c.playing /\ (c.ix = 0 \/ c = b) /\ c.pic = b.pic /\ c.frames = b.frames
  <2>1. CASE over
    <3>1. SamePlace(b, Again(b))
      BY BlockFields, BlockChanged DEF Again
    <3>2. Again(b).playing /\ Again(b).ix = 0 /\ Again(b).books = 0 /\ Again(b).pic = b.pic /\ Again(b).kind = b.kind
          /\ Again(b).frames = b.frames
      BY <1>2 DEF Again, BlockRec
    <3> QED BY <1>1, <2>1, <3>1, <3>2 DEF ClipOK, Inter
  <2>2. CASE ~over
    BY <1>2, <2>2 DEF SamePlace
  <2> QED BY <2>1, <2>2
<1>4. NextFrame(b) = CASE b.frames = 0 -> b
                       [] b.frames > 0 /\ j > clip.whole -> IF clip.tail THEN [c EXCEPT !.frames = c.ix] ELSE c
                       [] OTHER -> [c EXCEPT !.ix = j, !.pic = Decoded(c, j), !.books = j]
  BY DEF NextFrame
<1> HIDE DEF c
<1>5. c \in BlockRec /\ c.ix \in Nat /\ c.pic \in Nat /\ c.books \in Nat /\ c.frames \in Nat /\ c.kind \in Clips
  BY <1>1, <1>2, <1>3, BlockFields DEF SamePlace
<1>6. /\ SamePlace(c, [c EXCEPT !.frames = c.ix]) /\ [c EXCEPT !.frames = c.ix].playing
      /\ ClipOK([c EXCEPT !.frames = c.ix])
  <2>1. SamePlace(c, [c EXCEPT !.frames = c.ix])
    BY <1>5, BlockFields, BlockChanged
  <2>2. \A n \in Nat : LET d == [c EXCEPT !.frames = n]
                       IN  d.playing = c.playing /\ d.ix = c.ix /\ d.pic = c.pic /\ d.books = c.books /\ d.kind = c.kind
    BY <1>5 DEF BlockRec
  <2> QED BY <1>3, <1>5, <2>1, <2>2 DEF ClipOK, Inter
<1>7. /\ SamePlace(c, [c EXCEPT !.ix = j, !.pic = Decoded(c, j), !.books = j])
      /\ [c EXCEPT !.ix = j, !.pic = Decoded(c, j), !.books = j].playing
      /\ ClipOK([c EXCEPT !.ix = j, !.pic = Decoded(c, j), !.books = j])
  <2>1. Decoded(c, j) = j /\ j \in Nat /\ j # Garbled
    BY <1>3, <1>5 DEF ClipOK, Decoded, Garbled
  <2> DEFINE d == [c EXCEPT !.ix = j, !.pic = j, !.books = j]
  <2>2. SamePlace(c, d)
    BY <1>5, <2>1, BlockFields, BlockChanged
  <2>3. d.playing = c.playing /\ d.ix = j /\ d.pic = j /\ d.books = j /\ d.kind = c.kind
    BY <1>5 DEF BlockRec
  <2> HIDE DEF d, j
  <2>4. ClipOK(d) /\ d.playing
    BY <1>3, <1>5, <2>1, <2>3 DEF ClipOK
  <2> QED BY <2>1, <2>2, <2>4 DEF d
<1>8. b.frames # 0 => b.frames > 0
  BY <1>2
<1> HIDE DEF j, clip
<1> QED BY <1>3, <1>4, <1>6, <1>7, <1>8 DEF SamePlace

\* video_start and video_stop.
LEMMA StartStopKeeps ==
  ASSUME NEW b \in BlockRec, NEW now0 \in 0 .. ClockWrap - 1
  PROVE  /\ SamePlace(b, Stopped(b)) /\ ~Stopped(b).playing /\ ClipOK(Stopped(b))
         /\ b.kind \in Clips => SamePlace(b, Started(b, now0)) /\ Started(b, now0).playing /\ ClipOK(Started(b, now0))
<1>1. SamePlace(b, Stopped(b)) /\ SamePlace(b, Started(b, now0))
  BY BlockFields, BlockChanged DEF Stopped, Started
<1>2. Stopped(b).playing = FALSE
  BY DEF Stopped, BlockRec
<1>3. LET c == Started(b, now0)
      IN  c.playing = TRUE /\ c.ix = 0 /\ c.pic = 0 /\ c.books = 0 /\ c.kind = b.kind
  BY DEF Started, BlockRec
<1> QED BY <1>1, <1>2, <1>3 DEF ClipOK, Garbled

\* tick_videos.
LEMMA TickKeeps ==
  ASSUME NEW b \in BlockRec, ClipOK(b), b.playing, NEW now0 \in 0 .. ClockWrap - 1
  PROVE  SamePlace(b, TickedClip(b, now0)) /\ ClipOK(TickedClip(b, now0)) /\ TickedClip(b, now0).playing
<1> DEFINE d == NextDue(b, now0)
           c == [b EXCEPT !.due = d]
<1>1. d \in 0 .. ClockWrap - 1
  <2>1. b.kind \in Clips /\ ClipOf[b.kind].step \in Nat /\ b.due \in Nat /\ now0 \in Nat /\ ClockWrap \in Nat /\ ClockWrap > 0
    BY PageBounds, BlockFields DEF ClipOK
  <2>2. \A x \in Nat : x % ClockWrap \in 0 .. ClockWrap - 1
    BY <2>1
  <2> QED BY <2>1, <2>2 DEF NextDue
<1> HIDE DEF d
<1>2. SamePlace(b, c)
  BY <1>1, BlockFields, BlockChanged
<1>3. c.playing = b.playing /\ c.ix = b.ix /\ c.pic = b.pic /\ c.books = b.books /\ c.kind = b.kind
  BY DEF BlockRec
<1>4. TickedClip(b, now0) = IF Behind(now0, b.due) < 0 THEN b ELSE NextFrame(c)
  BY DEF TickedClip, d
<1> HIDE DEF c
<1>5. ClipOK(c) /\ c.playing /\ c \in BlockRec
  BY <1>2, <1>3 DEF ClipOK, Inter, SamePlace
<1>6. SamePlace(c, NextFrame(c)) /\ ClipOK(NextFrame(c)) /\ NextFrame(c).playing
  BY <1>5, NextFrameKeeps
<1>7. SamePlace(b, b)
  BY DEF SamePlace
<1> QED BY <1>2, <1>4, <1>6, <1>7 DEF SamePlace

LEMMA ViewFields ==
  ASSUME NEW v \in View
  PROVE  /\ v.blocks \in Seq(BlockRec) /\ v.docH \in Nat /\ v.scroll \in Nat /\ v.w \in Widths /\ v.h \in Nat
         /\ v.timer \in BOOLEAN /\ v.range \in Nat /\ v.pos \in Nat /\ v.shift \in Nat
         /\ Len(v.blocks) \in Nat /\ DOMAIN v.blocks = 1 .. Len(v.blocks)
         /\ \A i \in DOMAIN v.blocks : v.blocks[i] \in BlockRec
         /\ Span(v) \in Nat
<1>1. v.blocks \in Seq(BlockRec) /\ v.docH \in Nat /\ v.h \in Nat
  BY DEF View
<1>2. Len(v.blocks) \in Nat /\ DOMAIN v.blocks = 1 .. Len(v.blocks) /\ \A i \in DOMAIN v.blocks : v.blocks[i] \in BlockRec
  BY <1>1, LenProperties, ElementOfSeq
<1> QED BY <1>1, <1>2 DEF View, Span, Larger

\* Other blocks, as many of them.
LEMMA BlocksChanged ==
  ASSUME NEW v \in View, NEW bs \in [DOMAIN v.blocks -> BlockRec]
  PROVE  /\ bs \in Seq(BlockRec) /\ Len(bs) = Len(v.blocks) /\ DOMAIN bs = DOMAIN v.blocks
         /\ bs = <<>> <=> v.blocks = <<>>
<1>1. v.blocks \in Seq(BlockRec) /\ Len(v.blocks) \in Nat /\ DOMAIN v.blocks = 1 .. Len(v.blocks)
  BY ViewFields
<1>2. bs \in Seq(BlockRec) /\ DOMAIN bs = 1 .. Len(v.blocks)
  BY <1>1, IsASeq
<1>3. Len(bs) = Len(v.blocks)
  BY <1>1, <1>2, LenProperties
<1> QED BY <1>1, <1>2, <1>3, EmptySeq

LEMMA ViewChanged ==
  ASSUME NEW v \in View
  PROVE  /\ \A bs \in Seq(BlockRec), t \in BOOLEAN : [v EXCEPT !.blocks = bs, !.timer = t] \in View
         /\ \A bs \in Seq(BlockRec), docH \in Nat : [v EXCEPT !.blocks = bs, !.docH = docH] \in View
         /\ \A bs \in Seq(BlockRec), docH \in Nat, y \in Nat, t \in BOOLEAN :
              [v EXCEPT !.blocks = bs, !.docH = docH, !.scroll = y, !.timer = t] \in View
         /\ \A bs \in Seq(BlockRec) : [v EXCEPT !.blocks = bs] \in View
         /\ \A y \in Nat, s \in Nat, r \in Nat, p \in Nat :
              [v EXCEPT !.scroll = y, !.shift = s, !.range = r, !.pos = p] \in View
         /\ \A y \in Nat, p \in Nat : [v EXCEPT !.scroll = y, !.pos = p] \in View
         /\ \A w \in Widths, h \in Nat : [v EXCEPT !.w = w, !.h = h] \in View
BY DEF View

\* update_playing: every clip that plays is on screen, and the timer runs if one
\* does, whatever was so before.
LEMMA PlayedShows ==
  ASSUME NEW v, Fit(v), NEW now0 \in 0 .. ClockWrap - 1, NEW room \in BOOLEAN
  PROVE  LET u == Played(v, now0, room)
         IN  /\ Fit(u) /\ Shows(u) /\ SameBlocks(v, u) /\ Span(u) = Span(v)
             /\ u.scroll = v.scroll /\ u.docH = v.docH /\ (u.blocks = <<>> <=> v.blocks = <<>>)
<1> DEFINE Update(b) == CASE b.kind \notin Clips -> b
                          [] b.kind \in Clips /\ ~OnScreen(v, b) -> Stopped(b)
                          [] OTHER -> IF b.playing \/ ~room THEN b ELSE NextFrame(Started(b, now0))
           bs == [i \in DOMAIN v.blocks |-> Update(v.blocks[i])]
           t == \E i \in DOMAIN bs : bs[i].playing
           u == [v EXCEPT !.blocks = bs, !.timer = t]
<1>1. Played(v, now0, room) = u
  BY DEF Played
<1>2. v \in View /\ \A i \in DOMAIN v.blocks : v.blocks[i] \in BlockRec /\ ClipOK(v.blocks[i])
  BY ViewFields DEF Fit
<1>3. ASSUME NEW b \in BlockRec, ClipOK(b)
      PROVE  /\ SamePlace(b, Update(b)) /\ ClipOK(Update(b))
             /\ Update(b).playing => OnScreen(v, b)
  <2>1. CASE b.kind \notin Clips
    <3>1. Update(b) = b /\ ~b.playing
      BY <1>3, <2>1 DEF ClipOK
    <3> QED BY <1>3, <3>1 DEF SamePlace
  <2>2. CASE b.kind \in Clips /\ ~OnScreen(v, b)
    <3>1. Update(b) = Stopped(b)
      BY <2>2
    <3> QED BY <3>1, StartStopKeeps
  <2>3. CASE b.kind \in Clips /\ OnScreen(v, b)
    <3> DEFINE n == NextFrame(Started(b, now0))
    <3>1. Update(b) = b \/ Update(b) = n
      BY <2>3
    <3>2. Started(b, now0) \in BlockRec /\ ClipOK(Started(b, now0)) /\ Started(b, now0).playing
      BY <2>3, StartStopKeeps DEF SamePlace
    <3>3. SamePlace(Started(b, now0), n) /\ ClipOK(n)
      BY <3>2, NextFrameKeeps
    <3>4. SamePlace(b, Started(b, now0)) /\ SamePlace(b, b)
      BY <2>3, StartStopKeeps DEF SamePlace
    <3> HIDE DEF Update, n
    <3>5. SamePlace(b, n)
      BY <3>3, <3>4 DEF SamePlace
    <3> QED BY <1>3, <2>3, <3>1, <3>3, <3>4, <3>5
  <2> QED BY <2>1, <2>2, <2>3
<1> HIDE DEF Update
<1>4. \A i \in DOMAIN v.blocks : /\ SamePlace(v.blocks[i], bs[i]) /\ ClipOK(bs[i])
                                 /\ bs[i].playing => OnScreen(v, v.blocks[i])
  BY <1>2, <1>3
<1>5. bs \in [DOMAIN v.blocks -> BlockRec]
  BY <1>4 DEF SamePlace
<1>6. /\ bs \in Seq(BlockRec) /\ Len(bs) = Len(v.blocks) /\ DOMAIN bs = DOMAIN v.blocks
      /\ bs = <<>> <=> v.blocks = <<>>
  BY <1>2, <1>5, BlocksChanged
<1> HIDE DEF bs
<1>7. t \in BOOLEAN
  OBVIOUS
<1> HIDE DEF t
<1>8. u \in View
  BY <1>2, <1>6, <1>7, ViewChanged
<1>9. u.blocks = bs /\ u.timer = t /\ u.scroll = v.scroll /\ u.docH = v.docH /\ u.h = v.h
  BY <1>2 DEF View
<1> HIDE DEF u
<1>10. Fit(u)
  BY <1>4, <1>6, <1>8, <1>9 DEF Fit
<1>11. Shows(u)
  <2>1. \A i \in DOMAIN bs : bs[i].playing => OnScreen(u, bs[i])
    BY <1>4, <1>6, <1>9 DEF SamePlace, OnScreen
  <2>2. u.timer = \E i \in DOMAIN u.blocks : u.blocks[i].playing
    BY <1>9, Zenon DEF t
  <2> QED BY <1>9, <2>1, <2>2 DEF Shows
<1>12. SameBlocks(v, u) /\ Span(u) = Span(v)
  BY <1>4, <1>6, <1>9 DEF SameBlocks, SamePlace, Span
<1> QED BY <1>1, <1>6, <1>9, <1>10, <1>11, <1>12

\* y >> n is a number no larger than y, and zero at last; y << n is a number.
LEMMA Shifted ==
  ASSUME NEW y \in Nat, NEW n \in Nat
  PROVE  Units(y, n) \in Nat /\ Pixels(y, n) \in Nat /\ (n = y => Units(y, n) = 0)
<1> DEFINE from == [i \in 1 .. n |-> i - 1]
           down == [i \in 1 .. n |-> [x \in Nat |-> x \div 2]]
           up   == [i \in 1 .. n |-> [x \in Nat |-> 2 * x]]
           Halves(f) == f = [i \in 0 .. n |-> IF i = 0 THEN y ELSE f[i - 1] \div 2]
           Doubles(f) == f = [i \in 0 .. n |-> IF i = 0 THEN y ELSE 2 * f[i - 1]]
<1>1. /\ from \in [1 .. n -> Nat] /\ \A i \in 1 .. n : from[i] < i
      /\ down \in [1 .. n -> [Nat -> Nat]] /\ up \in [1 .. n -> [Nat -> Nat]]
  OBVIOUS
<1>2. \A i \in 0 .. n : i # 0 => i \in 1 .. n /\ i - 1 \in 0 .. n
  OBVIOUS
<1>3. \E f : Halves(f)
  <2>1. \E f \in [0 .. n -> Nat] : Follows(f, n, y, from, down)
    <3> HIDE DEF from, down
    <3>1. \A i \in 1 .. n : from[i] < i
      BY <1>1
    <3> QED BY <1>1, <3>1, Recursion
  <2>4. PICK f \in [0 .. n -> Nat] : f = [i \in 0 .. n |-> IF i = 0 THEN y ELSE down[i][f[from[i]]]]
    BY <2>1, Zenon DEF Follows
  <2>2. \A i \in 0 .. n : i # 0 => down[i][f[from[i]]] = f[i - 1] \div 2
    BY <1>2, <2>4
  <2>3. Halves(f)
    BY <2>4, <2>2
  <2> QED BY <2>3
<1>4. \E f : Doubles(f)
  <2>1. \E f \in [0 .. n -> Nat] : Follows(f, n, y, from, up)
    <3> HIDE DEF from, up
    <3>1. \A i \in 1 .. n : from[i] < i
      BY <1>1
    <3> QED BY <1>1, <3>1, Recursion
  <2>4. PICK f \in [0 .. n -> Nat] : f = [i \in 0 .. n |-> IF i = 0 THEN y ELSE up[i][f[from[i]]]]
    BY <2>1, Zenon DEF Follows
  <2>2. \A i \in 0 .. n : i # 0 => up[i][f[from[i]]] = 2 * f[i - 1]
    BY <1>2, <2>4
  <2>3. Doubles(f)
    BY <2>4, <2>2
  <2> QED BY <2>3
<1> DEFINE Half == CHOOSE f : Halves(f)
           Twice == CHOOSE f : Doubles(f)
<1>5. Units(y, n) = Half[n] /\ Pixels(y, n) = Twice[n]
  BY DEF Units, Pixels
<1>6. Halves(Half) /\ Doubles(Twice)
  <2> HIDE DEF Halves, Doubles
  <2> QED BY <1>3, <1>4, Zenon
<1> HIDE DEF Half, Twice
<1>7. \A i \in 0 .. n : /\ Half[i] = IF i = 0 THEN y ELSE Half[i - 1] \div 2
                        /\ Twice[i] = IF i = 0 THEN y ELSE 2 * Twice[i - 1]
  BY <1>6
<1> HIDE DEF Halves, Doubles, from, down, up
<1> DEFINE Good(i) == Half[i] \in Nat /\ Twice[i] \in Nat /\ (Half[i] = 0 \/ Half[i] + i <= y)
           good == {i \in 0 .. n : Good(i)}
<1>8. ASSUME NEW i \in 0 .. n, \A j \in 0 .. i - 1 : j \in good
      PROVE  i \in good
  <2>1. CASE i = 0
    BY <1>7, <2>1
  <2>2. CASE i # 0
    <3>1. i - 1 \in 0 .. i - 1 /\ i - 1 \in 0 .. n /\ i \in Nat
      BY <2>2
    <3>2. Good(i - 1)
      BY <1>8, <3>1
    <3>3. Half[i] = Half[i - 1] \div 2 /\ Twice[i] = 2 * Twice[i - 1]
      BY <1>7, <2>2
    <3>4. \A x \in Nat : x \div 2 \in Nat /\ (x > 0 => x \div 2 <= x - 1) /\ (x = 0 => x \div 2 = 0)
      OBVIOUS
    <3>5. Good(i)
      BY <3>1, <3>2, <3>3, <3>4
    <3> QED BY <3>5
  <2> QED BY <2>1, <2>2
<1> HIDE DEF good
<1>9. n \in good
  BY <1>8, Upwards
<1>10. Good(n)
  BY <1>9 DEF good
<1> QED BY <1>5, <1>10

\* set_range's loop ends.
LEMMA ShiftFound ==
  ASSUME NEW span \in Nat
  PROVE  ShiftFor(span) \in Nat
<1> DEFINE few == {s \in 0 .. span : Units(span, s) <= MaxPos}
<1>1. few # {} /\ few \in SUBSET Nat
  <2>1. Units(span, span) = 0 /\ span \in 0 .. span
    BY Shifted
  <2>2. span \in few
    BY <2>1, PageBounds
  <2> QED BY <2>2
<1>2. PICK s \in few : \A r \in few : ~(r < s)
  BY <1>1, LowestIn
<1>3. /\ s \in 0 .. span /\ Units(span, s) <= MaxPos
      /\ \A r \in 0 .. s - 1 : Units(span, r) > MaxPos
  <2>1. s \in 0 .. span /\ Units(span, s) <= MaxPos
    OBVIOUS
  <2>2. ASSUME NEW r \in 0 .. s - 1
        PROVE  Units(span, r) > MaxPos
    <3>1. r \in 0 .. span /\ r < s /\ r \in Nat
      BY <2>1
    <3> HIDE DEF few
    <3>2. Units(span, r) \in Nat
      BY <3>1, Shifted
    <3>4. MaxPos \in Nat
      BY PageBounds
    <3>3. ~(Units(span, r) <= MaxPos)
      BY <1>2, <3>1 DEF few
    <3> QED BY <3>2, <3>3, <3>4
  <2> QED BY <2>1, <2>2
<1>4. ShiftFor(span) \in 0 .. span
  BY <1>3 DEF ShiftFor
<1> QED BY <1>4

\* set_range: the view is not below the end of the page.
LEMMA RangedFits ==
  ASSUME NEW v, Fit(v)
  PROVE  LET u == Ranged(v)
         IN  /\ Fit(u) /\ u.scroll <= Span(u) /\ u.blocks = v.blocks /\ u.docH = v.docH
<1> DEFINE y == Smaller(v.scroll, Span(v))
           s == ShiftFor(Span(v))
           u == [v EXCEPT !.scroll = y, !.shift = s, !.range = Units(Span(v), s), !.pos = Units(y, s)]
<1>1. v \in View
  BY DEF Fit
<1>2. Span(v) \in Nat /\ y \in Nat /\ y <= Span(v)
  BY <1>1, ViewFields DEF Smaller
<1>3. s \in Nat
  BY <1>2, ShiftFound
<1> HIDE DEF y, s
<1>4. Units(Span(v), s) \in Nat /\ Units(y, s) \in Nat
  BY <1>2, <1>3, Shifted
<1>5. u \in View
  BY <1>1, <1>2, <1>3, <1>4, ViewChanged
<1>6. u.blocks = v.blocks /\ u.docH = v.docH /\ u.h = v.h /\ u.scroll = y
  BY <1>1 DEF View
<1>7. Ranged(v) = u
  BY DEF Ranged, y, s
<1> HIDE DEF u
<1>8. Fit(u) /\ Span(u) = Span(v)
  BY <1>5, <1>6 DEF Fit, Span
<1> QED BY <1>2, <1>6, <1>7, <1>8

\* measure: every block gets its place, and the page its height.
LEMMA BottomsFound ==
  ASSUME NEW v, Fit(v)
  PROVE  /\ \A i \in 1 .. Len(v.blocks) : HeightAt(v, i) \in Nat
         /\ \A i \in 0 .. Len(v.blocks) : Bottoms(v)[i] \in Nat
<1> DEFINE n == Len(v.blocks)
           high == [i \in 1 .. n |-> HeightAt(v, i)]
           from == [i \in 1 .. n |-> i - 1]
           step == [i \in 1 .. n |-> [x \in Nat |-> x + high[i]]]
           Is(f) == f = [i \in 0 .. n |-> IF i = 0 THEN Pad ELSE f[i - 1] + HeightAt(v, i)]
           bottom == CHOOSE f : Is(f)
<1>1. v \in View /\ n \in Nat /\ DOMAIN v.blocks = 1 .. n
  BY ViewFields DEF Fit
<1>2. ASSUME NEW i \in 1 .. n
      PROVE  HeightAt(v, i) \in Nat
  <2>1. v.blocks[i].kind \in Kinds /\ v.w \in Widths
    BY <1>1, ViewFields, BlockFields
  <2>2. PICK c \in Casts : \E size \in c.sizes : v.w = size[1]
    BY <2>1 DEF Widths
  <2>3. PICK size \in c.sizes : v.w = size[1]
    BY <2>2
  <2> QED BY <2>1, <2>3, PvReaderAssumption DEF HeightAt
<1>3. /\ from \in [1 .. n -> Nat] /\ high \in [1 .. n -> Nat]
      /\ \A i \in 1 .. n : from[i] < i
  BY <1>2
<1>4. step \in [1 .. n -> [Nat -> Nat]]
  <2> HIDE DEF high
  <2> QED BY <1>3
<1>5. \E f \in [0 .. n -> Nat] : Follows(f, n, Pad, from, step)
  <2> HIDE DEF from, step, n
  <2> QED BY <1>1, <1>3, <1>4, PageBounds, Recursion
<1>6. PICK f \in [0 .. n -> Nat] : f = [i \in 0 .. n |-> IF i = 0 THEN Pad ELSE step[i][f[from[i]]]]
  BY <1>5, Zenon DEF Follows
<1>7. \A i \in 0 .. n : i # 0 => i \in 1 .. n /\ i - 1 \in 0 .. n
  BY <1>1
<1>8. \A i \in 0 .. n : i # 0 => step[i][f[from[i]]] = f[i - 1] + HeightAt(v, i)
  BY <1>6, <1>7
<1>9. Is(f)
  BY <1>6, <1>8
<1>10. Is(bottom)
  <2> HIDE DEF Is
  <2> QED BY <1>9, Zenon
<1>11. Bottoms(v) = bottom
  BY DEF Bottoms
<1> HIDE DEF bottom
<1>12. \A i \in 0 .. n : bottom[i] = IF i = 0 THEN Pad ELSE bottom[i - 1] + HeightAt(v, i)
  BY <1>10
<1> DEFINE good == {i \in 0 .. n : bottom[i] \in Nat}
<1>13. ASSUME NEW i \in 0 .. n, \A j \in 0 .. i - 1 : j \in good
       PROVE  i \in good
  <2>1. CASE i = 0
    BY <1>12, <2>1, PageBounds
  <2>2. CASE i # 0
    <3>1. i - 1 \in 0 .. i - 1 /\ i \in 1 .. n
      BY <1>7, <2>2
    <3>2. bottom[i - 1] \in Nat /\ HeightAt(v, i) \in Nat
      BY <1>2, <1>13, <3>1
    <3> QED BY <1>12, <2>2, <3>2
  <2> QED BY <2>1, <2>2
<1> HIDE DEF good
<1>14. \A i \in 0 .. n : i \in good
  BY <1>1, <1>13, Upwards
<1> QED BY <1>2, <1>11, <1>14 DEF good

Moved(b, y, h) == [b EXCEPT !.y = y, !.h = h]

LEMMA MeasuredFits ==
  ASSUME NEW v, Fit(v)
  PROVE  LET u == Measured(v)
         IN  /\ Fit(u) /\ u.scroll <= Span(u) /\ SameBlocks(v, u)
             /\ u.blocks = <<>> <=> v.blocks = <<>>
<1> DEFINE bottom == Bottoms(v)
           bs == [i \in DOMAIN v.blocks |->
                    [v.blocks[i] EXCEPT !.y = bottom[i - 1], !.h = HeightAt(v, i)]]
           docH == bottom[Len(v.blocks)] + Pad
           u == [v EXCEPT !.blocks = bs, !.docH = docH]
<1>1. Measured(v) = Ranged(u)
  BY DEF Measured
<1>2. /\ v \in View /\ DOMAIN v.blocks = 1 .. Len(v.blocks) /\ Len(v.blocks) \in Nat
      /\ \A i \in DOMAIN v.blocks : v.blocks[i] \in BlockRec /\ ClipOK(v.blocks[i])
  BY ViewFields DEF Fit
<1>3. /\ docH \in Nat
      /\ \A i \in DOMAIN v.blocks : HeightAt(v, i) \in Nat /\ bottom[i - 1] \in Nat
  <2>1. Len(v.blocks) \in 0 .. Len(v.blocks) /\ \A i \in 1 .. Len(v.blocks) : i - 1 \in 0 .. Len(v.blocks)
    BY <1>2
  <2> QED BY <1>2, <2>1, BottomsFound, PageBounds
<1>4. ASSUME NEW b \in BlockRec, ClipOK(b), NEW y \in Nat, NEW h \in Nat
      PROVE  Moved(b, y, h) \in BlockRec /\ Moved(b, y, h).kind = b.kind /\ ClipOK(Moved(b, y, h))
  <2> DEFINE c == Moved(b, y, h)
  <2>1. /\ c \in BlockRec /\ c.kind = b.kind /\ c.playing = b.playing /\ c.ix = b.ix /\ c.pic = b.pic
        /\ c.books = b.books
    BY DEF Moved, BlockRec
  <2> HIDE DEF c
  <2>2. ClipOK(c)
    BY <1>4, <2>1 DEF ClipOK, Inter
  <2> QED BY <2>1, <2>2 DEF c
<1> HIDE DEF bottom, docH
<1>5. \A i \in DOMAIN v.blocks : bs[i] \in BlockRec /\ bs[i].kind = v.blocks[i].kind /\ ClipOK(bs[i])
  <2> TAKE i \in DOMAIN v.blocks
  <2> DEFINE b == v.blocks[i]
             y == bottom[i - 1]
             h == HeightAt(v, i)
  <2>1. bs[i] = Moved(b, y, h)
    BY DEF Moved
  <2>2. b \in BlockRec /\ ClipOK(b) /\ y \in Nat /\ h \in Nat
    BY <1>2, <1>3
  <2> HIDE DEF b, y, h, bs
  <2>3. bs[i] \in BlockRec /\ bs[i].kind = b.kind /\ ClipOK(bs[i])
    BY <1>4, <2>1, <2>2
  <2> QED BY <2>3 DEF b
<1>6. bs \in [DOMAIN v.blocks -> BlockRec]
  BY <1>5
<1>7. /\ bs \in Seq(BlockRec) /\ Len(bs) = Len(v.blocks) /\ DOMAIN bs = DOMAIN v.blocks
      /\ bs = <<>> <=> v.blocks = <<>>
  BY <1>2, <1>6, BlocksChanged
<1> HIDE DEF bs
<1>8. u \in View /\ u.blocks = bs
  <2>1. u \in View
    BY <1>2, <1>3, <1>7, ViewChanged
  <2> QED BY <1>2, <2>1 DEF View
<1> HIDE DEF u
<1>9. Fit(u)
  BY <1>5, <1>7, <1>8 DEF Fit
<1>10. LET w == Ranged(u) IN Fit(w) /\ w.scroll <= Span(w) /\ w.blocks = u.blocks
  BY <1>9, RangedFits
<1> QED BY <1>1, <1>5, <1>7, <1>8, <1>10 DEF SameBlocks

\* scroll_to, and where on_vscroll scrolls to.
LEMMA ScrolledShows ==
  ASSUME NEW v, Laid(v), Shows(v), NEW y \in Int, NEW now0 \in 0 .. ClockWrap - 1, NEW room \in BOOLEAN
  PROVE  LET u == ScrolledTo(v, y, now0, room)
         IN  Laid(u) /\ Shows(u) /\ SameBlocks(v, u)
<1> DEFINE z == Larger(0, Smaller(y, Span(v)))
           p == Units(z, v.shift)
           u == [v EXCEPT !.scroll = z, !.pos = p]
           w == Played(u, now0, room)
<1>1. v \in View /\ Span(v) \in Nat /\ v.shift \in Nat
  BY ViewFields DEF Laid, Fit
<1>2. z \in Nat /\ z <= Span(v)
  BY <1>1 DEF Larger, Smaller
<1> HIDE DEF z
<1>3. p \in Nat
  BY <1>1, <1>2, Shifted
<1>4. ScrolledTo(v, y, now0, room) = IF z = v.scroll THEN v ELSE w
  BY DEF ScrolledTo, z
<1> HIDE DEF p
<1>5. u \in View
  BY <1>1, <1>2, <1>3, ViewChanged
<1>6. u.blocks = v.blocks /\ u.scroll = z /\ u.h = v.h /\ u.docH = v.docH
  BY <1>1 DEF View
<1> HIDE DEF u
<1>7. Fit(u) /\ Span(u) = Span(v)
  BY <1>5, <1>6 DEF Laid, Fit, Span
<1>8. /\ Fit(w) /\ Shows(w) /\ SameBlocks(u, w) /\ Span(w) = Span(u)
      /\ w.scroll = u.scroll /\ w.docH = u.docH /\ (w.blocks = <<>> <=> u.blocks = <<>>)
  BY <1>7, PlayedShows
<1> HIDE DEF w
<1>9. Laid(w) /\ SameBlocks(v, w)
  BY <1>2, <1>6, <1>7, <1>8 DEF Laid, SameBlocks
<1> QED BY <1>4, <1>8, <1>9 DEF SameBlocks

LEMMA TargetsAreInts ==
  ASSUME NEW v, Fit(v)
  PROVE  ScrollTargets(v) \subseteq Int
<1>1. v.scroll \in Nat /\ v.h \in Nat /\ v.docH \in Nat /\ v.range \in Nat /\ v.shift \in Nat
  BY ViewFields DEF Fit
<1>2. \A pos \in 0 .. v.range : Pixels(pos, v.shift) \in Nat
  <2> TAKE pos \in 0 .. v.range
  <2>1. pos \in Nat
    BY <1>1
  <2> QED BY <1>1, <2>1, Shifted
<1> QED BY <1>1, <1>2 DEF ScrollTargets

\* WM_SIZE.
LEMMA SizedShows ==
  ASSUME NEW v, Laid(v), Shows(v), NEW width \in Widths, NEW height \in Nat,
         NEW now0 \in 0 .. ClockWrap - 1, NEW room \in BOOLEAN
  PROVE  LET u == Sized(v, width, height, now0, room)
         IN  Laid(u) /\ Shows(u) /\ SameBlocks(v, u)
<1> DEFINE u == [v EXCEPT !.w = width, !.h = height]
           m == Measured(u)
           w == Played(m, now0, room)
<1>1. Sized(v, width, height, now0, room) = IF v.blocks = <<>> THEN u ELSE w
  BY DEF Sized
<1>2. v \in View /\ v.scroll \in Nat /\ v.docH \in Nat /\ v.h \in Nat
  BY ViewFields DEF Laid, Fit
<1>3. /\ u \in View /\ u.blocks = v.blocks /\ u.docH = v.docH /\ u.scroll = v.scroll /\ u.timer = v.timer
      /\ u.h = height
  BY <1>2, ViewChanged DEF View
<1> HIDE DEF u
<1>4. Fit(u)
  BY <1>3 DEF Laid, Fit
<1>5. CASE v.blocks = <<>>
  <2>1. v.docH = 0 /\ v.scroll <= Span(v)
    BY <1>5 DEF Laid
  <2>2. Laid(u)
    BY <1>2, <1>3, <1>4, <1>5, <2>1 DEF Laid, Span, Larger
  <2>3. DOMAIN v.blocks = {}
    BY <1>5
  <2>4. Shows(u)
    BY <1>3, <2>3 DEF Shows
  <2> QED BY <1>1, <1>3, <1>5, <2>2, <2>4 DEF SameBlocks
<1>6. CASE v.blocks # <<>>
  <2>1. Fit(m) /\ m.scroll <= Span(m) /\ SameBlocks(u, m) /\ (m.blocks = <<>> <=> u.blocks = <<>>)
    BY <1>4, MeasuredFits
  <2> HIDE DEF m
  <2>2. /\ Fit(w) /\ Shows(w) /\ SameBlocks(m, w) /\ Span(w) = Span(m)
        /\ w.scroll = m.scroll /\ (w.blocks = <<>> <=> m.blocks = <<>>)
    BY <2>1, PlayedShows
  <2> HIDE DEF w
  <2> QED BY <1>1, <1>3, <1>6, <2>1, <2>2 DEF Laid, SameBlocks
<1> QED BY <1>5, <1>6

\* tick_videos leaves everything in its place.
LEMMA TickedShows ==
  ASSUME NEW v, Laid(v), Shows(v), NEW now0 \in 0 .. ClockWrap - 1
  PROVE  LET u == Ticked(v, now0)
         IN  Laid(u) /\ Shows(u) /\ SameBlocks(v, u)
<1> DEFINE bs == [i \in DOMAIN v.blocks |->
                    IF v.blocks[i].playing /\ OnScreen(v, v.blocks[i])
                    THEN TickedClip(v.blocks[i], now0) ELSE v.blocks[i]]
           u == [v EXCEPT !.blocks = bs]
<1>1. Ticked(v, now0) = u
  BY DEF Ticked
<1>2. v \in View /\ \A i \in DOMAIN v.blocks : v.blocks[i] \in BlockRec /\ ClipOK(v.blocks[i])
  BY ViewFields DEF Laid, Fit
<1>3. \A i \in DOMAIN v.blocks : /\ SamePlace(v.blocks[i], bs[i]) /\ ClipOK(bs[i])
                                 /\ (bs[i].playing <=> v.blocks[i].playing)
  <2> TAKE i \in DOMAIN v.blocks
  <2>1. CASE v.blocks[i].playing /\ OnScreen(v, v.blocks[i])
    <3>1. bs[i] = TickedClip(v.blocks[i], now0)
      BY <2>1
    <3> HIDE DEF bs
    <3> QED BY <1>2, <2>1, <3>1, TickKeeps
  <2>2. CASE ~(v.blocks[i].playing /\ OnScreen(v, v.blocks[i]))
    <3>1. bs[i] = v.blocks[i]
      BY <2>2
    <3> HIDE DEF bs
    <3> QED BY <1>2, <3>1 DEF SamePlace
  <2> QED BY <2>1, <2>2
<1> HIDE DEF bs
<1>4. DOMAIN bs = DOMAIN v.blocks /\ bs = [i \in DOMAIN v.blocks |-> bs[i]]
  BY DEF bs
<1>5. bs \in [DOMAIN v.blocks -> BlockRec]
  BY <1>3, <1>4 DEF SamePlace
<1>6. /\ bs \in Seq(BlockRec) /\ Len(bs) = Len(v.blocks) /\ DOMAIN bs = DOMAIN v.blocks
      /\ bs = <<>> <=> v.blocks = <<>>
  BY <1>2, <1>5, BlocksChanged
<1>7. u \in View
  BY <1>2, <1>6, ViewChanged
<1>8. u.blocks = bs /\ u.timer = v.timer /\ u.scroll = v.scroll /\ u.docH = v.docH /\ u.h = v.h
  BY <1>2 DEF View
<1> HIDE DEF u
<1>9. Laid(u) /\ SameBlocks(v, u)
  BY <1>3, <1>6, <1>7, <1>8 DEF Laid, Fit, Span, SameBlocks, SamePlace
<1>10. \A i \in DOMAIN bs : bs[i].playing => OnScreen(u, bs[i])
  BY <1>3, <1>6, <1>8 DEF SamePlace, OnScreen, Shows
<1>11. u.timer = \E i \in DOMAIN bs : bs[i].playing
  <2>1. (\E i \in DOMAIN bs : bs[i].playing) <=> (\E i \in DOMAIN v.blocks : v.blocks[i].playing)
    BY <1>3, <1>6, Zenon
  <2>2. v.timer = \E i \in DOMAIN v.blocks : v.blocks[i].playing
    BY DEF Shows
  <2> QED BY <1>8, <2>1, <2>2, Zenon
<1> QED BY <1>1, <1>8, <1>9, <1>10, <1>11 DEF Shows

\* free_page, and a view that has just been made.
LEMMA FreedShows ==
  /\ \A v : Fit(v) => /\ Laid(Freed(v)) /\ Shows(Freed(v)) /\ Freed(v).blocks = <<>>
  /\ \A width \in Widths, height \in Nat :
       Laid(Empty(width, height)) /\ Shows(Empty(width, height)) /\ Empty(width, height).blocks = <<>>
<1>1. <<>> \in Seq(BlockRec) /\ Len(<<>>) = 0 /\ DOMAIN <<>> = {}
  OBVIOUS
<1>2. ASSUME NEW u \in View, u.blocks = <<>>, u.docH = 0, u.scroll = 0, u.timer = FALSE
      PROVE  Laid(u) /\ Shows(u)
  <2>1. Fit(u) /\ Span(u) = Larger(0, 0 - u.h) /\ u.h \in Nat
    BY <1>1, <1>2, PageBounds, ViewFields DEF Fit, Span
  <2>2. Span(u) = 0
    BY <2>1 DEF Larger
  <2>3. DOMAIN u.blocks = {} /\ u.scroll <= Span(u)
    BY <1>1, <1>2, <2>2
  <2>4. u.timer = \E i \in DOMAIN u.blocks : u.blocks[i].playing
    BY <1>2, <2>3
  <2> QED BY <1>2, <2>1, <2>3, <2>4 DEF Laid, Shows
<1>3. ASSUME NEW v, Fit(v)
      PROVE  Laid(Freed(v)) /\ Shows(Freed(v)) /\ Freed(v).blocks = <<>>
  <2>1. v \in View
    BY <1>3 DEF Fit
  <2> DEFINE u == [v EXCEPT !.blocks = <<>>, !.docH = 0, !.scroll = 0, !.timer = FALSE]
  <2>2. u \in View
    BY <1>1, <2>1, ViewChanged
  <2>3. u.blocks = <<>> /\ u.docH = 0 /\ u.scroll = 0 /\ u.timer = FALSE
    BY <2>1 DEF View
  <2>4. Freed(v) = u
    BY DEF Freed
  <2> HIDE DEF u
  <2> QED BY <1>2, <2>2, <2>3, <2>4
<1>4. ASSUME NEW width \in Widths, NEW height \in Nat
      PROVE  LET u == Empty(width, height) IN Laid(u) /\ Shows(u) /\ u.blocks = <<>>
  <2> DEFINE u == Empty(width, height)
  <2>1. u \in View
    BY <1>1 DEF Empty, View
  <2>2. u.blocks = <<>> /\ u.docH = 0 /\ u.scroll = 0 /\ u.timer = FALSE
    BY DEF Empty
  <2> HIDE DEF u
  <2>3. Laid(u) /\ Shows(u) /\ u.blocks = <<>>
    BY <1>2, <2>1, <2>2
  <2> QED BY <2>3 DEF u
<1> QED BY <1>3, <1>4

-----------------------------------------------------------------------------
(* parse_page and present.                                                 *)

\* A unit that says of what kind a block is says one there is.
GoodUnit == {u \in Unit : u.tag = "head" => u.kind \in Kinds}

WalkRec == [at : Nat, blocks : Seq(BlockRec), end : BOOLEAN,
            err : {"none", "magic", "empty", "colours", "garbled", "truncated"}]
\* A walk through buf: blocks as buf names them, in its order.
WalkOK(w, buf) ==
  /\ Len(w.blocks) <= MaxBlocks /\ w.at = 2 * Len(w.blocks) + 2
  /\ \A i \in 1 .. Len(w.blocks) :
       ~w.blocks[i].playing /\ w.blocks[i].kind = buf[2 * i].kind /\ 2 * i + 1 <= Len(buf)
  /\ w.end => Len(w.blocks) = MaxBlocks

LEMMA FreshFits ==
  ASSUME NEW kind \in Kinds
  PROVE  Fresh(kind) \in BlockRec /\ Fresh(kind).playing = FALSE /\ Fresh(kind).kind = kind
<1>1. 0 \in Nat /\ 0 \in Nat \cup {Garbled} /\ 0 \in 0 .. ClockWrap - 1
  BY PageBounds
<1>2. (IF kind \in Clips THEN ClipOf[kind].promised ELSE 0) \in Nat
  BY PageBounds
<1> QED BY <1>1, <1>2 DEF Fresh, BlockRec

LEMMA WalkKeeps ==
  ASSUME NEW buf \in Seq(GoodUnit), NEW w \in WalkRec, WalkOK(w, buf)
  PROVE  /\ WalkOn(w, buf) \in WalkRec /\ WalkOK(WalkOn(w, buf), buf)
         /\ WalkOn(w, buf).err = "none" =>
              \/ w.end \/ WalkOn(w, buf).end \/ w.at > Len(buf)
              \/ Len(WalkOn(w, buf).blocks) = Len(w.blocks) + 1
<1> DEFINE over == w.err # "none" \/ w.end \/ w.at > Len(buf)
           kind == buf[w.at].kind
           bs == Append(w.blocks, Fresh(kind))
           u == [w EXCEPT !.blocks = bs, !.at = w.at + 2]
<1>1. /\ w.at \in Nat /\ w.blocks \in Seq(BlockRec) /\ Len(w.blocks) \in Nat /\ w.at > 0
      /\ w.end \in BOOLEAN /\ Len(buf) \in Nat
  BY LenProperties DEF WalkRec, WalkOK
<1>2. CASE over
  <2>1. WalkOn(w, buf) = w
    BY <1>2 DEF WalkOn
  <2> QED BY <1>2, <2>1
<1>3. CASE ~over
  <2>1. w.at \in 1 .. Len(buf) /\ w.err = "none" /\ ~w.end
    BY <1>1, <1>3
  <2>2. buf[w.at] \in GoodUnit
    BY <2>1, ElementOfSeq
  <2>3. WalkOn(w, buf) = IF buf[w.at].tag # "head" THEN [w EXCEPT !.err = "garbled"]
                         ELSE IF w.at + 1 > Len(buf) THEN [w EXCEPT !.err = "truncated"]
                         ELSE IF Len(w.blocks) >= MaxBlocks THEN [w EXCEPT !.end = TRUE]
                         ELSE IF Unfit(w, kind) THEN [w EXCEPT !.err = "colours"]
                         ELSE u
    BY <1>3 DEF WalkOn
  <2>4. \A e \in {"garbled", "truncated", "colours"} :
          LET x == [w EXCEPT !.err = e]
          IN  x \in WalkRec /\ WalkOK(x, buf) /\ x.err = e
    BY DEF WalkRec, WalkOK
  <2>5. CASE Len(w.blocks) >= MaxBlocks
    <3> DEFINE x == [w EXCEPT !.end = TRUE]
    <3>1. x \in WalkRec /\ x.blocks = w.blocks /\ x.at = w.at /\ x.end = TRUE
      BY DEF WalkRec
    <3>2. Len(w.blocks) = MaxBlocks
      BY <1>1, <2>5, PageBounds DEF WalkOK
    <3> HIDE DEF x
    <3>3. WalkOK(x, buf)
      BY <3>1, <3>2 DEF WalkOK
    <3>4. WalkOn(w, buf) \in {x} \cup {[w EXCEPT !.err = "garbled"], [w EXCEPT !.err = "truncated"]}
      BY <2>3, <2>5 DEF x
    <3> QED BY <2>4, <3>1, <3>3, <3>4
  <2>6. CASE Len(w.blocks) < MaxBlocks /\ buf[w.at].tag = "head" /\ ~(w.at + 1 > Len(buf))
    <3>1. kind \in Kinds
      BY <2>2, <2>6 DEF GoodUnit
    <3>2. Fresh(kind) \in BlockRec /\ Fresh(kind).playing = FALSE /\ Fresh(kind).kind = kind
      BY <3>1, FreshFits
    <3> HIDE DEF kind
    <3>3. /\ bs \in Seq(BlockRec) /\ Len(bs) = Len(w.blocks) + 1
          /\ \A i \in 1 .. Len(w.blocks) : bs[i] = w.blocks[i]
          /\ bs[Len(w.blocks) + 1] = Fresh(kind)
      BY <1>1, <3>2, AppendProperties
    <3> HIDE DEF bs
    <3>4. u \in WalkRec /\ u.blocks = bs /\ u.at = w.at + 2 /\ u.end = w.end /\ u.err = w.err
      <4>1. w.at + 2 \in Nat
        BY <1>1
      <4>2. u \in WalkRec
        BY <3>3, <4>1 DEF WalkRec
      <4>3. u.blocks = bs /\ u.at = w.at + 2 /\ u.end = w.end /\ u.err = w.err
        BY DEF WalkRec
      <4> QED BY <4>2, <4>3
    <3> HIDE DEF u
    <3>5. /\ Len(bs) <= MaxBlocks /\ u.at = 2 * Len(bs) + 2
          /\ 2 * (Len(w.blocks) + 1) = w.at
      BY <1>1, <2>6, <3>3, <3>4, PageBounds DEF WalkOK
    <3>6. ASSUME NEW i \in 1 .. Len(bs)
          PROVE  ~bs[i].playing /\ bs[i].kind = buf[2 * i].kind /\ 2 * i + 1 <= Len(buf)
      <4>1. CASE i = Len(w.blocks) + 1
        <5>1. 2 * i = w.at /\ bs[i] = Fresh(kind)
          BY <3>3, <3>5, <4>1
        <5>2. 2 * i + 1 <= Len(buf)
          BY <1>1, <2>6, <5>1
        <5> QED BY <3>2, <5>1, <5>2 DEF kind
      <4>2. CASE i # Len(w.blocks) + 1
        <5>1. i \in 1 .. Len(w.blocks)
          BY <1>1, <3>3, <4>2
        <5> QED BY <3>3, <5>1 DEF WalkOK
      <4> QED BY <4>1, <4>2
    <3>7. WalkOK(u, buf)
      BY <2>1, <3>4, <3>5, <3>6 DEF WalkOK
    <3>8. WalkOn(w, buf) \in {u, [w EXCEPT !.err = "colours"]}
      BY <1>1, <2>3, <2>6, PageBounds DEF u
    <3> QED BY <2>4, <3>3, <3>4, <3>7, <3>8
  <2>7. CASE buf[w.at].tag # "head" \/ w.at + 1 > Len(buf)
    <3>1. WalkOn(w, buf) \in {[w EXCEPT !.err = "garbled"], [w EXCEPT !.err = "truncated"]}
      BY <2>3, <2>7
    <3> QED BY <2>4, <3>1
  <2> QED BY <1>1, <2>5, <2>6, <2>7, PageBounds
<1> QED BY <1>2, <1>3

\* The walk: what it has made of its first n blocks.
LEMMA WalkedFollows ==
  ASSUME NEW buf \in Seq(GoodUnit), buf # <<>>
  PROVE  /\ Walked(buf) \in WalkRec /\ WalkOK(Walked(buf), buf)
         /\ Walked(buf).err = "none" =>
              \/ Len(Walked(buf).blocks) \in {MaxBlocks, buf[1].count}
              \/ 2 * Len(Walked(buf).blocks) + 2 > Len(buf)
<1> DEFINE count == buf[1].count
           V == {w \in WalkRec : WalkOK(w, buf)}
           from == [i \in 1 .. count |-> i - 1]
           step == [i \in 1 .. count |-> [w \in V |-> WalkOn(w, buf)]]
           Is(f) == f = [n \in 0 .. count |-> IF n = 0 THEN Start ELSE WalkOn(f[n - 1], buf)]
           after == CHOOSE f : Is(f)
<1>1. Len(buf) \in Nat \ {0} /\ count \in Nat
  <2>1. Len(buf) \in Nat \ {0}
    BY EmptySeq
  <2>2. buf[1] \in Unit
    BY <2>1, ElementOfSeq DEF GoodUnit
  <2> QED BY <2>1, <2>2 DEF Unit
<1>2. Start \in V
  <2>1. <<>> \in Seq(BlockRec) /\ Len(<<>>) = 0
    OBVIOUS
  <2> QED BY <2>1, PageBounds DEF Start, WalkRec, WalkOK
<1>3. \A w \in V : WalkOn(w, buf) \in V
  BY WalkKeeps
<1> HIDE DEF V, count
<1>4. from \in [1 .. count -> Nat] /\ (\A i \in 1 .. count : from[i] < i) /\ step \in [1 .. count -> [V -> V]]
  BY <1>1, <1>3
<1>5. \E f \in [0 .. count -> V] : Follows(f, count, Start, from, step)
  <2> HIDE DEF from, step
  <2>1. \A i \in 1 .. count : from[i] < i
    BY <1>4
  <2> QED BY <1>1, <1>2, <1>4, <2>1, Recursion
<1>6. PICK f \in [0 .. count -> V] : f = [i \in 0 .. count |-> IF i = 0 THEN Start ELSE step[i][f[from[i]]]]
  BY <1>5, Zenon DEF Follows
<1>7. \A i \in 0 .. count : i # 0 => i \in 1 .. count /\ i - 1 \in 0 .. count
  BY <1>1
<1>8. \A i \in 0 .. count : i # 0 => step[i][f[from[i]]] = WalkOn(f[i - 1], buf)
  BY <1>6, <1>7
<1>9. Is(f)
  BY <1>6, <1>8
<1>10. Is(after)
  <2> HIDE DEF Is
  <2> QED BY <1>9, Zenon
<1>11. Walked(buf) = after[count]
  BY DEF Walked, count
<1> HIDE DEF after
<1>12. \A i \in 0 .. count : after[i] = IF i = 0 THEN Start ELSE WalkOn(after[i - 1], buf)
  BY <1>10
<1> DEFINE Full(w) == Len(w.blocks) = MaxBlocks \/ 2 * Len(w.blocks) + 2 > Len(buf)
           good == {i \in 0 .. count : /\ after[i] \in V
                                       /\ after[i].err = "none" => Len(after[i].blocks) = i \/ Full(after[i])}
<1>13. ASSUME NEW i \in 0 .. count, \A j \in 0 .. i - 1 : j \in good
       PROVE  i \in good
  <2>1. CASE i = 0
    <3>1. after[i] = Start /\ Len(Start.blocks) = 0
      BY <1>12, <2>1 DEF Start
    <3> QED BY <1>2, <2>1, <3>1
  <2>2. CASE i # 0
    <3> DEFINE w == after[i - 1]
               u == after[i]
    <3>1. i - 1 \in 0 .. i - 1 /\ u = WalkOn(w, buf)
      BY <1>1, <1>7, <1>12, <2>2
    <3>2. i - 1 \in good
      BY <1>13, <3>1
    <3>3. w \in V /\ (w.err = "none" => Len(w.blocks) = i - 1 \/ Full(w))
      BY <3>2
    <3> HIDE DEF w, u
    <3>4. w \in WalkRec /\ WalkOK(w, buf) /\ u \in V
      BY <1>3, <3>1, <3>3 DEF V
    <3>5. /\ u \in WalkRec /\ WalkOK(u, buf)
          /\ u.err = "none" =>
               \/ w.end \/ u.end \/ w.at > Len(buf)
               \/ Len(u.blocks) = Len(w.blocks) + 1
      BY <3>1, <3>4, WalkKeeps
    <3>6. w.err # "none" \/ Full(w) => u.err # "none" \/ Full(u)
      <4>1. w.err # "none" \/ w.at > Len(buf) => u = w
        BY <3>1 DEF WalkOn
      <4>2. Len(w.blocks) = MaxBlocks => u.blocks = w.blocks
        BY <3>1, <3>4, PageBounds DEF WalkOn, WalkRec
      <4> QED BY <3>4, <4>1, <4>2 DEF WalkOK
    <3>7. u.err = "none" => Len(u.blocks) = i \/ Full(u)
      <4> SUFFICES ASSUME u.err = "none" PROVE Len(u.blocks) = i \/ Full(u)
        OBVIOUS
      <4>1. w.err = "none" /\ (Len(w.blocks) = i - 1 \/ Full(w))
        BY <3>3, <3>6, <3>1 DEF WalkOn
      <4>2. CASE Full(w)
        BY <3>6, <4>2
      <4>3. CASE Len(w.blocks) = i - 1 /\ ~Full(w)
        <5>1. ~w.end /\ ~(w.at > Len(buf))
          BY <3>4, <4>3 DEF WalkOK
        <5>2. u.end \/ Len(u.blocks) = Len(w.blocks) + 1
          BY <3>5, <5>1
        <5> QED BY <3>5, <4>3, <5>2, <1>1 DEF WalkOK
      <4> QED BY <4>1, <4>2, <4>3
    <3> QED BY <3>4, <3>7 DEF u
  <2> QED BY <2>1, <2>2
<1> HIDE DEF good
<1>14. count \in good
  <2>1. \A i \in 0 .. count : i \in good
    BY <1>1, <1>13, Upwards
  <2> QED BY <1>1, <2>1
<1>15. after[count] \in V /\ (after[count].err = "none" => Len(after[count].blocks) = count \/ Full(after[count]))
  BY <1>14 DEF good
<1> QED BY <1>11, <1>15 DEF V, count

\* The blocks bs are those of the bundle buf, all of them or as many as the
\* list holds.
Named(bs, buf) ==
  /\ buf[1].tag = "magic" /\ Len(bs) <= MaxBlocks
  /\ \A i \in 1 .. Len(bs) : bs[i].kind = buf[2 * i].kind /\ 2 * i + 1 <= Len(buf)
  /\ Len(bs) \in {MaxBlocks, buf[1].count} \/ 2 * Len(bs) + 2 > Len(buf)

LEMMA ParsedNames ==
  ASSUME NEW buf \in Seq(GoodUnit), buf # <<>>
  PROVE  LET w == Parsed(buf)
         IN  w.err = "none" =>
               /\ w.blocks \in Seq(BlockRec) /\ w.blocks # <<>> /\ Named(w.blocks, buf)
               /\ \A i \in 1 .. Len(w.blocks) : ~w.blocks[i].playing
<1> DEFINE w == Walked(buf)
           p == Parsed(buf)
<1>1. /\ w \in WalkRec /\ WalkOK(w, buf)
      /\ w.err = "none" =>
           Len(w.blocks) \in {MaxBlocks, buf[1].count} \/ 2 * Len(w.blocks) + 2 > Len(buf)
  BY WalkedFollows
<1>2. p = IF buf[1].tag # "magic" THEN [Start EXCEPT !.err = "magic"]
          ELSE IF w.err = "none" /\ w.blocks = <<>> THEN [w EXCEPT !.err = "empty"] ELSE w
  BY DEF Parsed
<1>3. [Start EXCEPT !.err = "magic"].err = "magic" /\ [w EXCEPT !.err = "empty"].err = "empty"
  BY <1>1 DEF Start, WalkRec
<1> HIDE DEF w, p
<1>4. p.err = "none" => p = w /\ w.blocks # <<>> /\ buf[1].tag = "magic"
  BY <1>2, <1>3
<1> SUFFICES ASSUME p.err = "none"
             PROVE  /\ p.blocks \in Seq(BlockRec) /\ p.blocks # <<>> /\ Named(p.blocks, buf)
                    /\ \A i \in 1 .. Len(p.blocks) : ~p.blocks[i].playing
  BY DEF p
<1>5. w.blocks \in Seq(BlockRec)
  BY <1>1 DEF WalkRec
<1> QED BY <1>1, <1>4, <1>5 DEF WalkOK, Named

LEMMA SameBlocksNamed ==
  ASSUME NEW bs \in Seq(BlockRec), NEW cs \in Seq(BlockRec), NEW buf,
         DOMAIN cs = DOMAIN bs, \A i \in DOMAIN bs : cs[i].kind = bs[i].kind, Named(bs, buf)
  PROVE  Named(cs, buf)
<1>1. DOMAIN bs = 1 .. Len(bs) /\ DOMAIN cs = 1 .. Len(cs) /\ Len(bs) \in Nat /\ Len(cs) \in Nat
  BY LenProperties
<1>2. Len(bs) = Len(cs)
  BY <1>1
<1> QED BY <1>1, <1>2 DEF Named

LEMMA PresentedShows ==
  ASSUME NEW v, Laid(v), NEW buf \in Seq(GoodUnit), buf # <<>>,
         NEW now0 \in 0 .. ClockWrap - 1, NEW room \in BOOLEAN
  PROVE  LET u == Presented(v, buf, now0, room)
         IN  /\ Laid(u) /\ Shows(u)
             /\ u.blocks # <<>> => Named(u.blocks, buf)
<1> DEFINE w == Parsed(buf)
           f == Freed(v)
           g == [f EXCEPT !.blocks = w.blocks]
           m == Measured(g)
           u == Played(m, now0, room)
<1>1. Presented(v, buf, now0, room) = IF w.err # "none" THEN f ELSE u
  BY DEF Presented
<1>2. Laid(f) /\ Shows(f) /\ f.blocks = <<>>
  BY FreedShows DEF Laid
<1>3. w.err = "none" => /\ w.blocks \in Seq(BlockRec) /\ w.blocks # <<>> /\ Named(w.blocks, buf)
                        /\ \A i \in 1 .. Len(w.blocks) : ~w.blocks[i].playing
  BY ParsedNames
<1> HIDE DEF w, f
<1>4. CASE w.err = "none"
  <2>1. f \in View
    BY <1>2 DEF Laid, Fit
  <2>2. g \in View /\ g.blocks = w.blocks
    <3>1. g \in View
      BY <1>3, <1>4, <2>1, ViewChanged
    <3> QED BY <2>1, <3>1 DEF View
  <2> HIDE DEF g
  <2>3. Fit(g)
    <3>1. DOMAIN w.blocks = 1 .. Len(w.blocks)
      BY <1>3, <1>4, LenProperties
    <3>2. Len(w.blocks) <= MaxBlocks /\ \A i \in DOMAIN w.blocks : ClipOK(w.blocks[i])
      BY <1>3, <1>4, <3>1 DEF Named, ClipOK
    <3> QED BY <2>2, <3>2 DEF Fit
  <2>4. /\ Fit(m) /\ m.scroll <= Span(m) /\ SameBlocks(g, m)
        /\ m.blocks = <<>> <=> g.blocks = <<>>
    BY <2>3, MeasuredFits
  <2> HIDE DEF m
  <2>5. /\ Fit(u) /\ Shows(u) /\ SameBlocks(m, u) /\ Span(u) = Span(m)
        /\ u.scroll = m.scroll /\ (u.blocks = <<>> <=> m.blocks = <<>>)
    BY <2>4, PlayedShows
  <2> HIDE DEF u
  <2>6. u.blocks \in Seq(BlockRec) /\ SameBlocks(g, u) /\ u.blocks # <<>> /\ Laid(u)
    BY <1>3, <1>4, <2>2, <2>4, <2>5 DEF SameBlocks, Laid, Fit, View
  <2>7. Named(u.blocks, buf)
    BY <1>3, <1>4, <2>2, <2>6, SameBlocksNamed DEF SameBlocks
  <2> QED BY <1>1, <1>4, <2>5, <2>6, <2>7
<1>5. CASE w.err # "none"
  BY <1>1, <1>2, <1>5
<1> QED BY <1>4, <1>5

-----------------------------------------------------------------------------
(* take_header, take_body and pv_pump.                                     *)

\* A transfer that has read units of U; and one of p's that has come of s.
Transfers(U) ==
  [open : BOOLEAN, req : 0 .. MaxReqs, hdrN : 0 .. HdrMax, inBody : BOOLEAN, body : Seq(U),
   refused : BOOLEAN,
   end : {"none", "done", "stopped", "failed", "closed", "nothing"}]
Held(p, U) == {s \in Transfers(U) : p = "page" => Len(s.body) <= BufMax}
Since(p, U, s) == {t \in Held(p, U) : t.open = s.open /\ t.req = s.req /\ t.end = s.end}

LEMMA ReaderBounds ==
  /\ HdrMax \in Nat \ {0} /\ Chunk \in Nat \ {0} /\ Block \in Nat \ {0} /\ PumpBlocks \in Nat \ {0}
  /\ BufMax \in Nat \ {0} /\ MaxReqs \in Nat \ {0}
BY PvReaderAssumption

LEMMA TransferFields ==
  ASSUME NEW U, NEW s \in Transfers(U)
  PROVE  /\ s.open \in BOOLEAN /\ s.req \in 0 .. MaxReqs /\ s.hdrN \in 0 .. HdrMax /\ s.inBody \in BOOLEAN
         /\ s.body \in Seq(U) /\ s.refused \in BOOLEAN
         /\ s.end \in {"none", "done", "stopped", "failed", "closed", "nothing"}
         /\ Len(s.body) \in Nat
BY LenProperties DEF Transfers

LEMMA Dropped ==
  ASSUME NEW U, NEW s \in Seq(U), NEW n \in 0 .. Len(s)
  PROVE  /\ Drop(s, n) \in Seq(U) /\ Len(Drop(s, n)) = Len(s) - n
         /\ \A i \in 1 .. Len(s) - n : Drop(s, n)[i] = s[n + i]
         /\ SubSeq(s, 1, n) \in Seq(U) /\ Len(SubSeq(s, 1, n)) = n
         /\ \A i \in 1 .. n : SubSeq(s, 1, n)[i] = s[i]
<1>1. Len(s) \in Nat /\ \A i \in 1 .. Len(s) : s[i] \in U
  BY LenProperties, ElementOfSeq
<1>2. /\ SubSeq(s, n + 1, Len(s)) \in Seq(U)
      /\ Len(SubSeq(s, n + 1, Len(s))) = IF n + 1 <= Len(s) THEN Len(s) - (n + 1) + 1 ELSE 0
      /\ \A i \in 1 .. Len(s) - (n + 1) + 1 : SubSeq(s, n + 1, Len(s))[i] = s[n + 1 + i - 1]
  <2>1. n + 1 \in Int /\ Len(s) \in Int /\ \A i \in n + 1 .. Len(s) : s[i] \in U
    BY <1>1
  <2> QED BY <2>1, SubSeqProperties
<1>3. /\ SubSeq(s, 1, n) \in Seq(U) /\ Len(SubSeq(s, 1, n)) = IF 1 <= n THEN n - 1 + 1 ELSE 0
      /\ \A i \in 1 .. n - 1 + 1 : SubSeq(s, 1, n)[i] = s[1 + i - 1]
  <2>1. n \in Int /\ 1 \in Int /\ \A i \in 1 .. n : s[i] \in U
    BY <1>1
  <2> QED BY <2>1, SubSeqProperties
<1> DEFINE d == SubSeq(s, n + 1, Len(s))
           e == SubSeq(s, 1, n)
<1>4. Drop(s, n) = d
  BY DEF Drop
<1> HIDE DEF d, e
<1>5. Len(d) = Len(s) - n /\ \A i \in 1 .. Len(s) - n : d[i] = s[n + i]
  <2>1. Len(d) = Len(s) - n
    BY <1>1, <1>2 DEF d
  <2>2. ASSUME NEW i \in 1 .. Len(s) - n
        PROVE  d[i] = s[n + i]
    <3>1. i \in 1 .. Len(s) - (n + 1) + 1 /\ n + 1 + i - 1 = n + i
      BY <1>1
    <3> QED BY <1>2, <3>1 DEF d
  <2> QED BY <2>1, <2>2
<1>6. Len(e) = n /\ \A i \in 1 .. n : e[i] = s[i]
  <2>1. Len(e) = n
    BY <1>1, <1>3 DEF e
  <2>2. ASSUME NEW i \in 1 .. n
        PROVE  e[i] = s[i]
    <3>1. i \in 1 .. n - 1 + 1 /\ 1 + i - 1 = i
      BY <1>1
    <3> QED BY <1>3, <3>1 DEF e
  <2> QED BY <2>1, <2>2
<1> QED BY <1>2, <1>3, <1>4, <1>5, <1>6 DEF d, e

\* Where take_header finds the end of a header.
LEMMA HeaderEnd ==
  ASSUME NEW U, NEW s \in Transfers(U), NEW chunk \in Seq(U)
  PROVE  LET k == BodyFrom(s, chunk) - 1
         IN  /\ k \in 0 .. Len(chunk) /\ BodyFrom(s, chunk) \in Nat
             /\ s.inBody => k = 0
             /\ ~s.inBody => s.hdrN + k \in 0 .. HdrMax
             /\ ~s.inBody /\ EndsOf(s, chunk) # {} =>
                  k \in EndsOf(s, chunk) /\ \A i \in EndsOf(s, chunk) : k <= i
             /\ ~s.inBody /\ EndsOf(s, chunk) = {} => k = Least(Len(chunk), HdrMax - s.hdrN)
<1> DEFINE ends == EndsOf(s, chunk)
<1>1. /\ s.hdrN \in 0 .. HdrMax /\ s.inBody \in BOOLEAN /\ HdrMax \in Nat
      /\ Len(chunk) \in Nat /\ DOMAIN chunk = 1 .. Len(chunk)
  BY TransferFields, ReaderBounds, LenProperties
<1>2. ends \subseteq 1 .. Len(chunk) /\ \A i \in ends : s.hdrN + i <= HdrMax
  BY <1>1 DEF EndsOf
<1>3. BodyFrom(s, chunk) = CASE s.inBody -> 1
                             [] ~s.inBody /\ ends # {} -> Min(ends) + 1
                             [] OTHER -> Least(Len(chunk), HdrMax - s.hdrN) + 1
  BY DEF BodyFrom
<1> HIDE DEF ends
<1>4. CASE s.inBody
  BY <1>1, <1>3, <1>4
<1>5. CASE ~s.inBody /\ ends # {}
  <2>1. ends \in SUBSET Nat
    BY <1>1, <1>2
  <2>2. PICK k \in ends : \A i \in ends : ~(i < k)
    BY <1>5, <2>1, LowestIn
  <2>3. \A i \in ends : k <= i
    BY <2>1, <2>2
  <2>4. Min(ends) \in ends /\ \A i \in ends : Min(ends) <= i
    BY <2>3 DEF Min
  <2> HIDE DEF Min
  <2>5. BodyFrom(s, chunk) = Min(ends) + 1
    BY <1>3, <1>5
  <2>6. Min(ends) \in Nat
    BY <2>1, <2>4
  <2> QED BY <1>1, <1>2, <1>5, <2>4, <2>5, <2>6 DEF ends
<1>6. CASE ~s.inBody /\ ends = {}
  <2>1. BodyFrom(s, chunk) = Least(Len(chunk), HdrMax - s.hdrN) + 1
    BY <1>3, <1>6
  <2>2. Least(Len(chunk), HdrMax - s.hdrN) \in 0 .. Len(chunk)
    BY <1>1 DEF Least
  <2> QED BY <1>1, <1>6, <2>1, <2>2 DEF ends, Least
<1> QED BY <1>4, <1>5, <1>6

\* consume, of a chunk that makes t of s.
Consumes(U, p, s, chunk, t) ==
  LET k == BodyFrom(s, chunk) - 1
  IN  /\ t \in Since(p, U, s)
      /\ t.hdrN = IF s.inBody THEN s.hdrN ELSE s.hdrN + k
      /\ t.inBody = BodyFound(s, chunk)
      /\ ~t.refused => /\ ~s.refused
                       /\ t.body = s.body \o (IF BodyFound(s, chunk) THEN Drop(chunk, k) ELSE <<>>)

LEMMA ConsumedIs ==
  ASSUME NEW U, NEW p, NEW s \in Held(p, U), NEW chunk \in Seq(U)
  PROVE  Consumes(U, p, s, chunk, Consumed(p, s, chunk))
<1> DEFINE k == BodyFrom(s, chunk) - 1
           found == BodyFound(s, chunk)
           units == IF found THEN Drop(chunk, k) ELSE <<>>
           hdrN == IF s.inBody THEN s.hdrN ELSE s.hdrN + BodyFrom(s, chunk) - 1
           t == [s EXCEPT !.hdrN = hdrN, !.inBody = found]
           full == [t EXCEPT !.body = s.body \o units]
           over == [t EXCEPT !.refused = TRUE]
<1>1. s \in Transfers(U)
  BY DEF Held
<1>2. /\ k \in 0 .. Len(chunk) /\ (~s.inBody => s.hdrN + k \in 0 .. HdrMax)
      /\ s.hdrN \in 0 .. HdrMax /\ s.body \in Seq(U)
  BY <1>1, HeaderEnd, TransferFields
<1>3. BodyFrom(s, chunk) = k + 1
  <2>1. BodyFrom(s, chunk) \in Nat
    BY <1>1, HeaderEnd
  <2> QED BY <2>1
<1>4. hdrN = IF s.inBody THEN s.hdrN ELSE s.hdrN + k
  BY <1>2, <1>3
<1>5. hdrN \in 0 .. HdrMax
  BY <1>2, <1>4
<1>6. units \in Seq(U)
  BY <1>2, Dropped, EmptySeq
<1>7. found \in BOOLEAN
  BY <1>1, TransferFields DEF BodyFound
<1>8. Consumed(p, s, chunk) = IF Fits(p, s, units) THEN [t EXCEPT !.body = t.body \o units] ELSE over
  BY DEF Consumed
<1> HIDE DEF units, found, hdrN, k
<1>9. /\ t \in Transfers(U) /\ t.body = s.body /\ t.open = s.open /\ t.req = s.req /\ t.end = s.end
      /\ t.hdrN = hdrN /\ t.inBody = found /\ t.refused = s.refused
  BY <1>1, <1>5, <1>7 DEF Transfers
<1>10. s.body \o units \in Seq(U) /\ Len(s.body \o units) = Len(s.body) + Len(units)
  BY <1>2, <1>6, ConcatProperties
<1> DEFINE body == s.body \o units
<1> HIDE DEF t, body
<1>11. LET x == [t EXCEPT !.body = body]
       IN  /\ x \in Transfers(U) /\ x.body = body /\ x.open = t.open /\ x.req = t.req /\ x.end = t.end
           /\ x.hdrN = t.hdrN /\ x.inBody = t.inBody /\ x.refused = t.refused
  <2>1. body \in Seq(U)
    BY <1>10 DEF body
  <2> QED BY <1>9, <2>1 DEF Transfers
<1>12. /\ over \in Transfers(U) /\ over.body = t.body /\ over.open = t.open /\ over.req = t.req /\ over.end = t.end
       /\ over.hdrN = t.hdrN /\ over.inBody = t.inBody /\ over.refused = TRUE
  BY <1>9 DEF Transfers
<1>13. CASE Fits(p, s, units)
  <2>1. Consumed(p, s, chunk) = [t EXCEPT !.body = body]
    BY <1>8, <1>9, <1>13 DEF body
  <2>2. p = "page" => Len(body) <= BufMax
    BY <1>10, <1>13 DEF body, Fits
  <2> QED BY <1>4, <1>9, <1>11, <2>1, <2>2 DEF Consumes, Since, Held, body, units, found, k
<1>14. CASE ~Fits(p, s, units)
  <2>1. Consumed(p, s, chunk) = over
    BY <1>8, <1>14
  <2> HIDE DEF over
  <2>2. p = "page" => Len(over.body) <= BufMax
    BY <1>9, <1>12 DEF Held
  <2> QED BY <1>4, <1>9, <1>12, <2>1, <2>2 DEF Consumes, Since, Held, found, k
<1> QED BY <1>13, <1>14

\* pv_pump's inner loop, of the units of a block: the chunks they are taken in
\* begin at multiples of Chunk, and each is consumed after the one before.
EatenBy(U, p, s, units, after) ==
  /\ after \in [0 .. Len(units) -> Since(p, U, s)]
  /\ after[0] = s /\ Eaten(p, s, units) = after[Len(units)]
  /\ \A n \in 1 .. Len(units) :
       after[n] = Consumed(p, after[ChunkFrom(n)], SubSeq(units, ChunkFrom(n) + 1, n))

LEMMA EatenFollows ==
  ASSUME NEW U, NEW p, NEW s \in Held(p, U), NEW units \in Seq(U)
  PROVE  /\ \A n \in 1 .. Len(units) : ChunkFrom(n) \in 0 .. n - 1
         /\ \E after : EatenBy(U, p, s, units, after)
<1> DEFINE len == Len(units)
           V == Since(p, U, s)
           from == [n \in 1 .. len |-> ChunkFrom(n)]
           step == [n \in 1 .. len |-> [t \in V |-> Consumed(p, t, SubSeq(units, ChunkFrom(n) + 1, n))]]
           Is(f) == f = [n \in 0 .. len |->
                           IF n = 0 THEN s
                           ELSE Consumed(p, f[ChunkFrom(n)], SubSeq(units, ChunkFrom(n) + 1, n))]
           after == CHOOSE f : Is(f)
<1>1. len \in Nat
  BY LenProperties
<1>2. ASSUME NEW n \in 1 .. len
      PROVE  ChunkFrom(n) \in 0 .. n - 1
  <2>1. \A x \in Nat, c \in Nat \ {0} : (x \div c) * c \in 0 .. x
    OBVIOUS
  <2>2. n - 1 \in Nat
    BY <1>1
  <2> QED BY <2>1, <2>2, ReaderBounds DEF ChunkFrom
<1>3. ASSUME NEW n \in 1 .. len, NEW t \in V
      PROVE  Consumed(p, t, SubSeq(units, ChunkFrom(n) + 1, n)) \in V
  <2>1. SubSeq(units, ChunkFrom(n) + 1, n) \in Seq(U)
    <3>1. \A i \in ChunkFrom(n) + 1 .. n : units[i] \in U
      <4> TAKE i \in ChunkFrom(n) + 1 .. n
      <4>1. i \in 1 .. len
        BY <1>1, <1>2
      <4> QED BY <4>1, ElementOfSeq
    <3>2. ChunkFrom(n) + 1 \in Int /\ n \in Int
      BY <1>1, <1>2
    <3> QED BY <3>1, <3>2, SubSeqProperties
  <2>2. t \in Held(p, U) /\ t.open = s.open /\ t.req = s.req /\ t.end = s.end
    BY DEF Since
  <2> DEFINE chunk == SubSeq(units, ChunkFrom(n) + 1, n)
             u == Consumed(p, t, chunk)
  <2> HIDE DEF chunk
  <2>3. u \in Since(p, U, t)
    BY <2>1, <2>2, ConsumedIs DEF chunk, Consumes
  <2> HIDE DEF u
  <2>4. u \in V
    BY <2>2, <2>3 DEF Since
  <2> QED BY <2>4 DEF u, chunk
<1>4. s \in V
  BY DEF Since
<1> HIDE DEF V
<1>5. from \in [1 .. len -> Nat] /\ (\A n \in 1 .. len : from[n] < n)
  <2>1. \A n \in 1 .. len : ChunkFrom(n) \in Nat /\ ChunkFrom(n) < n
    BY <1>1, <1>2
  <2> QED BY <2>1
<1>6. step \in [1 .. len -> [V -> V]]
  BY <1>3
<1>7. \E f \in [0 .. len -> V] : Follows(f, len, s, from, step)
  <2> HIDE DEF from, step, len
  <2>1. \A i \in 1 .. len : from[i] < i
    BY <1>5
  <2> QED BY <1>1, <1>4, <1>5, <1>6, <2>1, Recursion
<1>8. PICK f \in [0 .. len -> V] : f = [i \in 0 .. len |-> IF i = 0 THEN s ELSE step[i][f[from[i]]]]
  BY <1>7, Zenon DEF Follows
<1>9. \A n \in 1 .. len : step[n][f[from[n]]] = Consumed(p, f[ChunkFrom(n)], SubSeq(units, ChunkFrom(n) + 1, n))
  <2> TAKE n \in 1 .. len
  <2>1. from[n] = ChunkFrom(n) /\ ChunkFrom(n) \in 0 .. len
    BY <1>1, <1>2
  <2>2. f[ChunkFrom(n)] \in V
    BY <1>8, <2>1
  <2> QED BY <2>1, <2>2
<1>10. \A n \in 0 .. len : n # 0 => n \in 1 .. len
  BY <1>1
<1>11. Is(f)
  <2> HIDE DEF step, from
  <2> QED BY <1>8, <1>9, <1>10
<1>12. \A g : Is(g) => g = f
  <2> SUFFICES ASSUME NEW g, Is(g) PROVE g = f
    OBVIOUS
  <2> DEFINE same == {n \in 0 .. len : g[n] = f[n]}
  <2>1. \A n \in 0 .. len : /\ g[n] = IF n = 0 THEN s
                                      ELSE Consumed(p, g[ChunkFrom(n)], SubSeq(units, ChunkFrom(n) + 1, n))
                            /\ f[n] = IF n = 0 THEN s
                                      ELSE Consumed(p, f[ChunkFrom(n)], SubSeq(units, ChunkFrom(n) + 1, n))
    BY <1>11
  <2>2. ASSUME NEW n \in 0 .. len, \A j \in 0 .. n - 1 : j \in same
        PROVE  n \in same
    BY <1>2, <1>10, <2>1, <2>2
  <2>3. \A n \in 0 .. len : n \in same
    <3> HIDE DEF same
    <3> QED BY <1>1, <2>2, Upwards
  <2>4. g = [n \in 0 .. len |-> g[n]] /\ f = [n \in 0 .. len |-> f[n]]
    BY <1>11
  <2> QED BY <2>3, <2>4
<1>13. after = f
  <2> HIDE DEF Is
  <2> QED BY <1>11, <1>12, Zenon
<1>14. Eaten(p, s, units) = after[len]
  BY DEF Eaten
<1>15. f[0] = s /\ \A n \in 1 .. len : f[n] = Consumed(p, f[ChunkFrom(n)], SubSeq(units, ChunkFrom(n) + 1, n))
  <2>1. \A n \in 1 .. len : n \in 0 .. len /\ n # 0
    BY <1>1
  <2> QED BY <1>1, <1>11, <2>1
<1>16. EatenBy(U, p, s, units, f)
  BY <1>8, <1>13, <1>14, <1>15 DEF V, EatenBy
<1> QED BY <1>2, <1>16

-----------------------------------------------------------------------------
(* The device, of which a handle hands out units of U.                     *)

Url(U) == Handle({"url"}, U)

LEMMA UrlFields ==
  ASSUME NEW U, NEW k \in Url(U)
  PROVE  /\ k.state \in SockStates /\ k.result \in Nat /\ k.target \in {"url"} \cup {NoTarget}
         /\ k.out \in Seq(U \cup {Zero}) /\ k.rest \in Seq(U) /\ k.block \in Nat /\ k.done \in BOOLEAN
         /\ Len(k.rest) \in Nat
BY LenProperties DEF Url, Handle

LEMMA UrlBlank ==
  ASSUME NEW U
  PROVE  /\ Blank \in Url(U) /\ \A k : CloseCmd(k) = Blank
         /\ \A k \in Url(U) : LET o == OpenCmd(SetTarget(k, "url"))
                              IN  /\ o \in Url(U) /\ o.state = "working" /\ o.rest = <<>> /\ ~o.done
<1>1. <<>> \in Seq(U) /\ <<>> \in Seq(U \cup {Zero})
  OBVIOUS
<1>2. Blank \in Url(U)
  BY <1>1 DEF Blank, Url, Handle, SockStates
<1>3. ASSUME NEW k \in Url(U)
      PROVE  OpenCmd(SetTarget(k, "url")) = [Blank EXCEPT !.state = "working"]
  <2>1. SetTarget(k, "url").target = "url"
    BY DEF SetTarget, Url, Handle
  <2> QED BY <2>1, PvReaderAssumption DEF OpenCmd, OpenAccepted
<1>4. LET o == [Blank EXCEPT !.state = "working"]
      IN  /\ o \in Url(U) /\ o.state = "working" /\ o.rest = <<>> /\ ~o.done
  BY <1>1 DEF Blank, Url, Handle, SockStates
<1> QED BY <1>2, <1>3, <1>4 DEF CloseCmd

LEMMA UrlTakes ==
  ASSUME NEW U, NEW k \in Url(U)
  PROVE  LET n == Least(Block, Len(k.rest))
             t == TakeBlock(k, Block)
         IN  /\ n \in 0 .. Len(k.rest) /\ (k.rest # <<>> => n > 0)
             /\ StagedBytes(k, Block) = SubSeq(k.rest, 1, n) /\ StagedBytes(k, Block) \in Seq(U)
             /\ t \in Url(U) /\ t.rest = Drop(k.rest, n) /\ t.done = k.done
             /\ t.state = IF n < Len(k.rest) \/ n = 0 THEN k.state
                          ELSE IF k.done THEN "closed" ELSE "working"
<1> DEFINE n == Least(Block, Len(k.rest))
           rest == Drop(k.rest, n)
           state == IF n < Len(k.rest) \/ n = 0 THEN k.state ELSE IF k.done THEN "closed" ELSE "working"
<1>1. k.rest \in Seq(U) /\ Len(k.rest) \in Nat /\ k.state \in SockStates /\ k.done \in BOOLEAN
  BY UrlFields
<1>2. n \in 0 .. Len(k.rest) /\ (k.rest # <<>> => n > 0) /\ n \in Nat
  BY <1>1, ReaderBounds, EmptySeq DEF Least
<1>3. TakeBlock(k, Block) = [k EXCEPT !.rest = rest, !.result = n, !.block = 0, !.state = state]
  BY DEF TakeBlock
<1>4. StagedBytes(k, Block) = SubSeq(k.rest, 1, n)
  BY DEF StagedBytes
<1> HIDE DEF n
<1>5. rest \in Seq(U) /\ SubSeq(k.rest, 1, n) \in Seq(U)
  BY <1>1, <1>2, Dropped
<1>6. state \in SockStates
  BY <1>1 DEF SockStates
<1> HIDE DEF rest, state
<1>7. LET t == [k EXCEPT !.rest = rest, !.result = n, !.block = 0, !.state = state]
      IN  t \in Url(U) /\ t.rest = rest /\ t.done = k.done /\ t.state = state
  BY <1>2, <1>5, <1>6 DEF Url, Handle
<1> QED BY <1>2, <1>3, <1>4, <1>5, <1>7 DEF n, rest, state

LEMMA UrlArrives ==
  ASSUME NEW U, NEW k \in Url(U), NEW s \in Seq(U), s # <<>>
  PROVE  /\ Arrive(k, s, TRUE) \in Url(U) /\ Fail(k) \in Url(U)
         /\ k.state = "idle" => Arrive(k, s, TRUE) = k /\ Fail(k) = k
         /\ k.state # "idle" => /\ Arrive(k, s, TRUE).rest = k.rest \o s /\ Arrive(k, s, TRUE).state = "data"
                                /\ Arrive(k, s, TRUE).done = TRUE
                                /\ Fail(k).state = "error" /\ Fail(k).rest = k.rest
<1> DEFINE rest == k.rest \o s
<1>1. k.rest \in Seq(U) /\ k.done \in BOOLEAN /\ k.state \in SockStates
  BY UrlFields
<1>2. rest \in Seq(U) /\ rest # <<>>
  <2>1. rest \in Seq(U) /\ Len(rest) = Len(k.rest) + Len(s)
    BY <1>1, ConcatProperties
  <2>2. Len(s) \in Nat \ {0} /\ Len(k.rest) \in Nat
    BY <1>1, EmptySeq, LenProperties
  <2> QED BY <2>1, <2>2, EmptySeq
<1> HIDE DEF rest
<1>3. k.state # "idle" => Arrive(k, s, TRUE) = [k EXCEPT !.rest = rest, !.done = TRUE, !.state = "data"]
  BY <1>1, <1>2 DEF Arrive, rest
<1>4. LET a == [k EXCEPT !.rest = rest, !.done = TRUE, !.state = "data"]
      IN  a \in Url(U) /\ a.rest = rest /\ a.state = "data" /\ a.done = TRUE
  BY <1>2 DEF Url, Handle, SockStates
<1>5. LET a == [k EXCEPT !.state = "error", !.done = TRUE]
      IN  a \in Url(U) /\ a.state = "error" /\ a.rest = k.rest
  BY <1>1 DEF Url, Handle, SockStates
<1>6. k.state = "idle" => Arrive(k, s, TRUE) = k /\ Fail(k) = k
  BY DEF Arrive, Fail
<1>7. k.state # "idle" => Fail(k) = [k EXCEPT !.state = "error", !.done = TRUE]
  BY DEF Fail
<1> QED BY <1>3, <1>4, <1>5, <1>6, <1>7 DEF rest

\* pv_pump's blocks, one after the other.
PumpedBy(U, p, k, s, after) ==
  /\ after \in [0 .. PumpBlocks -> [k : Url(U), s : Since(p, U, s)]]
  /\ after[0].k = k /\ after[0].s = s /\ Pumped(p, k) = after[PumpBlocks]
  /\ \A n \in 1 .. PumpBlocks : after[n] = AfterBlock(p, after[n - 1])

LEMMA PumpedFollows ==
  ASSUME NEW U, NEW p, NEW k \in Url(U), NEW s \in Held(p, U), s = prog[p]
  PROVE  \E after : PumpedBy(U, p, k, s, after)
<1> DEFINE V == [k : Url(U), s : Since(p, U, s)]
           base == [k |-> k, s |-> s]
           from == [n \in 1 .. PumpBlocks |-> n - 1]
           step == [n \in 1 .. PumpBlocks |-> [x \in V |-> AfterBlock(p, x)]]
           Is(f) == f = [n \in 0 .. PumpBlocks |-> IF n = 0 THEN base ELSE AfterBlock(p, f[n - 1])]
           after == CHOOSE f : Is(f)
<1>1. PumpBlocks \in Nat
  BY ReaderBounds
<1>2. base \in V /\ base.k = k /\ base.s = s
  <2>1. s \in Since(p, U, s)
    BY DEF Since
  <2> QED BY <2>1
<1>3. ASSUME NEW x \in V
      PROVE  AfterBlock(p, x) \in V
  <2>1. x.k \in Url(U) /\ x.s \in Since(p, U, s)
    OBVIOUS
  <2>2. x.s \in Held(p, U)
    BY <2>1 DEF Since
  <2> DEFINE units == StagedBytes(x.k, Block)
             t == Eaten(p, x.s, units)
  <2>3. units \in Seq(U) /\ TakeBlock(x.k, Block) \in Url(U)
    BY <2>1, UrlTakes
  <2> HIDE DEF units
  <2>4. t \in Since(p, U, x.s)
    <3>1. PICK f : EatenBy(U, p, x.s, units, f)
      BY <2>2, <2>3, EatenFollows
    <3>2. Len(units) \in 0 .. Len(units)
      BY <2>3, LenProperties
    <3> QED BY <3>1, <3>2 DEF EatenBy
  <2> HIDE DEF t
  <2>5. t \in Since(p, U, s)
    BY <2>1, <2>4 DEF Since
  <2>6. AfterBlock(p, x) = IF x.k.state # "data" THEN x ELSE [k |-> TakeBlock(x.k, Block), s |-> t]
    BY DEF AfterBlock, units, t
  <2> QED BY <2>3, <2>5, <2>6
<1> HIDE DEF V, base
<1>4. from \in [1 .. PumpBlocks -> Nat] /\ (\A n \in 1 .. PumpBlocks : from[n] < n)
  BY <1>1
<1>5. step \in [1 .. PumpBlocks -> [V -> V]]
  BY <1>3
<1>6. \E f \in [0 .. PumpBlocks -> V] : Follows(f, PumpBlocks, base, from, step)
  <2> HIDE DEF from, step
  <2>1. \A i \in 1 .. PumpBlocks : from[i] < i
    BY <1>4
  <2> QED BY <1>1, <1>2, <1>4, <1>5, <2>1, Recursion
<1>7. PICK f \in [0 .. PumpBlocks -> V] :
        f = [i \in 0 .. PumpBlocks |-> IF i = 0 THEN base ELSE step[i][f[from[i]]]]
  BY <1>6, Zenon DEF Follows
<1>8. \A n \in 0 .. PumpBlocks : n # 0 => n \in 1 .. PumpBlocks /\ n - 1 \in 0 .. PumpBlocks
  BY <1>1
<1>9. \A n \in 0 .. PumpBlocks : n # 0 => step[n][f[from[n]]] = AfterBlock(p, f[n - 1])
  BY <1>7, <1>8
<1>10. Is(f)
  <2> HIDE DEF step, from
  <2> QED BY <1>7, <1>9
<1>11. \A g : Is(g) => g = f
  <2> SUFFICES ASSUME NEW g, Is(g) PROVE g = f
    OBVIOUS
  <2> DEFINE same == {n \in 0 .. PumpBlocks : g[n] = f[n]}
  <2>1. \A n \in 0 .. PumpBlocks : /\ g[n] = IF n = 0 THEN base ELSE AfterBlock(p, g[n - 1])
                                   /\ f[n] = IF n = 0 THEN base ELSE AfterBlock(p, f[n - 1])
    BY <1>10
  <2>2. ASSUME NEW n \in 0 .. PumpBlocks, \A j \in 0 .. n - 1 : j \in same
        PROVE  n \in same
    <3>1. n # 0 => n - 1 \in 0 .. n - 1
      BY <1>1
    <3> QED BY <2>1, <2>2, <3>1
  <2>3. \A n \in 0 .. PumpBlocks : n \in same
    <3> HIDE DEF same
    <3> QED BY <1>1, <2>2, Upwards
  <2>4. g = [n \in 0 .. PumpBlocks |-> g[n]] /\ f = [n \in 0 .. PumpBlocks |-> f[n]]
    BY <1>10
  <2> QED BY <2>3, <2>4
<1>12. after = f
  <2> HIDE DEF Is
  <2> QED BY <1>10, <1>11, Zenon
<1>13. Pumped(p, k) = after[PumpBlocks]
  BY DEF Pumped, base
<1>14. f[0] = base /\ \A n \in 1 .. PumpBlocks : f[n] = AfterBlock(p, f[n - 1])
  <2>1. \A n \in 1 .. PumpBlocks : n \in 0 .. PumpBlocks /\ n # 0
    BY <1>1
  <2> QED BY <1>1, <1>10, <2>1
<1>15. PumpedBy(U, p, k, s, f)
  BY <1>2, <1>7, <1>12, <1>13, <1>14 DEF V, PumpedBy
<1> QED BY <1>15

\* The units of a reply.
OwnUnits(r) == {u \in GoodUnit : u.req = r}
AReply(r, d, hdr) == /\ r \in Reqs /\ hdr \in Nat \ {0}
                     /\ d.bundle \in BOOLEAN /\ d.kinds \in Seq(Kinds)

LEMMA ReplyUnits ==
  ASSUME NEW r, NEW d, NEW hdr, AReply(r, d, hdr)
  PROVE  LET R == Reply(r, d, hdr)
         IN  /\ R \in Seq(OwnUnits(r)) /\ R # <<>> /\ Len(R) = hdr + BodyLen(d) /\ BodyLen(d) \in Nat \ {0}
             /\ \A n \in 1 .. Len(R) :
                  /\ n < hdr => R[n].tag = "hdr"
                  /\ n = hdr => R[n].tag = "blank"
                  /\ n > hdr => R[n].tag \in {"magic", "text", "head", "load"}
                  /\ n = hdr + 1 => /\ R[n].tag = (IF d.bundle THEN "magic" ELSE "text")
                                    /\ R[n].count = Len(d.kinds)
                  /\ n > hdr + 1 => R[n].kind = d.kinds[(n - hdr) \div 2]
<1> DEFINE len == hdr + BodyLen(d)
           Tag(n) == CASE n < hdr -> "hdr"
                       [] n = hdr -> "blank"
                       [] n - hdr = 1  -> IF d.bundle THEN "magic" ELSE "text"
                       [] OTHER   -> IF (n - hdr) % 2 = 0 THEN "head" ELSE "load"
           Kind(n) == IF n - hdr > 1 THEN d.kinds[(n - hdr) \div 2] ELSE "none"
           Count(n) == IF n - hdr = 1 THEN Len(d.kinds) ELSE 0
           U(n) == [req |-> r, n |-> n, tag |-> Tag(n), kind |-> Kind(n), count |-> Count(n)]
           R == [n \in 1 .. len |-> U(n)]
<1>1. /\ r \in Reqs /\ hdr \in Nat \ {0} /\ d.bundle \in BOOLEAN /\ d.kinds \in Seq(Kinds)
      /\ Len(d.kinds) \in Nat
  BY LenProperties DEF AReply
<1>9. hdr \in Nat \ {0} /\ Len(d.kinds) \in Nat
  BY <1>1
<1>2. BodyLen(d) \in Nat \ {0} /\ len \in Nat \ {0} /\ (~d.bundle => len = hdr + 1)
      /\ (d.bundle => len = hdr + 1 + 2 * Len(d.kinds))
  <2>1. CASE d.bundle
    <3>1. BodyLen(d) = 1 + 2 * Len(d.kinds)
      BY <2>1 DEF BodyLen
    <3>2. BodyLen(d) \in Nat \ {0} /\ len \in Nat \ {0} /\ len = hdr + 1 + 2 * Len(d.kinds)
      <4>1. \A x \in Nat, h \in Nat \ {0} : /\ 1 + 2 * x \in Nat \ {0} /\ h + (1 + 2 * x) \in Nat \ {0}
                                            /\ h + (1 + 2 * x) = h + 1 + 2 * x
        OBVIOUS
      <4> QED BY <1>9, <3>1, <4>1
    <3> QED BY <2>1, <3>2, Zenon
  <2>2. CASE ~d.bundle
    <3>1. BodyLen(d) = 1
      BY <2>2 DEF BodyLen
    <3>2. BodyLen(d) \in Nat \ {0} /\ len \in Nat \ {0} /\ len = hdr + 1
      BY <1>9, <3>1
    <3> QED BY <2>2, <3>2, Zenon
  <2> QED BY <2>1, <2>2
<1>3. Reply(r, d, hdr) = R
  BY DEF Reply
<1> HIDE DEF len
<1>4. ASSUME NEW n \in 1 .. len
      PROVE  /\ Kind(n) \in Kinds \cup {"none"} /\ (Tag(n) = "head" => Kind(n) \in Kinds)
             /\ Tag(n) \in {"hdr", "blank", "magic", "text", "head", "load"} /\ Count(n) \in Nat
             /\ n < hdr => Tag(n) = "hdr"
             /\ n = hdr => Tag(n) = "blank"
             /\ n > hdr => Tag(n) \in {"magic", "text", "head", "load"}
             /\ n = hdr + 1 => Tag(n) = (IF d.bundle THEN "magic" ELSE "text") /\ Count(n) = Len(d.kinds)
             /\ n > hdr + 1 => Kind(n) = d.kinds[(n - hdr) \div 2]
  <2>1. CASE n < hdr
    BY <1>1, <1>2, <2>1
  <2>2. CASE n = hdr
    BY <1>1, <1>2, <2>2
  <2>3. CASE n = hdr + 1
    BY <1>1, <1>2, <2>3
  <2>4. CASE n > hdr + 1
    <3>1. len # hdr + 1
      BY <1>1, <1>2, <2>4
    <3>7. len = hdr + 1 + 2 * Len(d.kinds)
      BY <1>2, <3>1, Zenon
    <3> DEFINE m == (n - hdr) \div 2
    <3>2. n - hdr \in 2 .. 1 + 2 * Len(d.kinds)
      <4>1. n \in 1 .. hdr + 1 + 2 * Len(d.kinds)
        BY <3>7
      <4>2. \A x \in Nat, h \in Nat \ {0} :
              \A i \in 1 .. h + 1 + 2 * x : i > h + 1 => i - h \in 2 .. 1 + 2 * x
        OBVIOUS
      <4> QED BY <1>9, <2>4, <4>1, <4>2
    <3>3. \A x \in 2 .. 1 + 2 * Len(d.kinds) : x \div 2 \in 1 .. Len(d.kinds)
      BY <1>1
    <3>4. m \in 1 .. Len(d.kinds)
      BY <3>2, <3>3
    <3>5. d.kinds[m] \in Kinds
      BY <1>1, <3>4, ElementOfSeq
    <3>6. Kind(n) = d.kinds[m] /\ Tag(n) \in {"head", "load"} /\ Count(n) = 0
      BY <1>1, <1>2, <2>4
    <3> QED BY <1>1, <1>2, <2>4, <3>5, <3>6
  <2> QED BY <1>1, <1>2, <2>1, <2>2, <2>3, <2>4
<1> HIDE DEF Tag, Kind, Count
<1>5. ASSUME NEW n \in 1 .. len
      PROVE  U(n) \in OwnUnits(r)
  <2>1. n \in Nat
    BY <1>2
  <2>2. U(n) \in Unit
    BY <1>1, <1>4, <2>1 DEF Unit
  <2> QED BY <1>4, <2>2 DEF OwnUnits, GoodUnit
<1>6. /\ \A n \in 1 .. len : R[n].tag = Tag(n) /\ R[n].kind = Kind(n) /\ R[n].count = Count(n)
  OBVIOUS
<1> HIDE DEF U
<1>7. R \in Seq(OwnUnits(r)) /\ Len(R) = len
  <2>1. R \in Seq(OwnUnits(r)) /\ DOMAIN R = 1 .. len
    BY <1>2, <1>5, IsASeq
  <2> QED BY <1>2, <2>1, LenProperties
<1>8. R # <<>>
  BY <1>2, <1>7
<1> HIDE DEF R
<1> QED BY <1>2, <1>3, <1>4, <1>6, <1>7, <1>8 DEF len

\* What the host may answer with.
LEMMA CastReplies ==
  ASSUME NEW c \in Casts, NEW r \in Reqs
  PROVE  /\ \A d \in c.docs, hdr \in c.hdrs : AReply(r, d, hdr)
         /\ \A size \in c.sizes : size[1] \in Widths /\ size[2] \in Nat
BY PvReaderAssumption DEF AReply, Widths

-----------------------------------------------------------------------------
(* Types.                                                                  *)

TypeInv ==
  /\ cast \in Casts /\ sel \in Handles /\ dev \in [Handles -> Url(GoodUnit)]
  /\ fetches \subseteq [handle : Handles, req : Reqs] /\ asked \in 0 .. MaxReqs
  /\ prog \in [Programs -> Transfers(GoodUnit)] /\ \A p \in Programs : prog[p] \in Held(p, GoodUnit)
  /\ Laid(view) /\ Shows(view)
  /\ now \in 0 .. ClockWrap - 1
  /\ cut \subseteq Programs /\ late \subseteq Programs

LEMMA SeqWider ==
  ASSUME NEW S, NEW T, S \subseteq T
  PROVE  Seq(S) \subseteq Seq(T)
<1> SUFFICES ASSUME NEW s \in Seq(S) PROVE s \in Seq(T)
  OBVIOUS
<1>1. Len(s) \in Nat /\ s \in [1 .. Len(s) -> S]
  BY LenProperties
<1>2. s \in [1 .. Len(s) -> T]
  BY <1>1
<1> HIDE <1>1
<1>3. Len(s) \in Nat
  BY <1>1
<1> QED BY <1>2, <1>3

LEMMA Wider ==
  ASSUME NEW U, NEW V, U \subseteq V
  PROVE  Url(U) \subseteq Url(V) /\ Transfers(U) \subseteq Transfers(V)
<1>1. Seq(U) \subseteq Seq(V) /\ Seq(U \cup {Zero}) \subseteq Seq(V \cup {Zero})
  BY SeqWider
<1> QED BY <1>1 DEF Url, Handle, Transfers

\* The view's type is among the others'.
LEMMA TypesFollow == TypeInv => TypeOK
<1> SUFFICES ASSUME TypeInv PROVE TypeOK
  OBVIOUS
<1>1. GoodUnit \subseteq Unit
  BY DEF GoodUnit
<1>2. dev \in [Handles -> Handle({"url"}, Unit)]
  BY <1>1, Wider DEF TypeInv, Url
<1>3. prog \in [Programs -> Transfer]
  <2>1. Transfers(Unit) = Transfer
    BY DEF Transfers, Transfer
  <2> QED BY <1>1, <2>1, Wider DEF TypeInv
<1>4. "page" \in Programs => Len(prog["page"].body) <= BufMax
  BY DEF TypeInv, Held
<1>5. view.blocks \in Seq(BlockRec) /\ Len(view.blocks) <= MaxBlocks /\ view.scroll \in 0 .. Span(view)
  <2>1. view \in View /\ view.scroll <= Span(view) /\ Len(view.blocks) <= MaxBlocks
    BY DEF TypeInv, Laid, Fit
  <2> QED BY <2>1, ViewFields
<1> QED BY <1>2, <1>3, <1>4, <1>5 DEF TypeInv, TypeOK

LEMMA PumpKeeps ==
  ASSUME TypeInv, NEW p \in Programs
  PROVE  LET x == Pumped(p, dev[HandleOf[p]])
         IN  x.k \in Url(GoodUnit) /\ x.s \in Since(p, GoodUnit, prog[p])
<1>1. dev[HandleOf[p]] \in Url(GoodUnit) /\ prog[p] \in Held(p, GoodUnit)
  BY DEF TypeInv, Handles
<1>2. PICK f : PumpedBy(GoodUnit, p, dev[HandleOf[p]], prog[p], f)
  BY <1>1, PumpedFollows
<1>3. PumpBlocks \in 0 .. PumpBlocks
  BY ReaderBounds
<1> QED BY <1>2, <1>3 DEF PumpedBy

\* Transfers begin and end.
LEMMA TransferChanged ==
  ASSUME NEW U, NEW p
  PROVE  /\ Started0 \in Held(p, U) /\ \A r \in Reqs : Asking(r) \in Held(p, U)
         /\ \A s \in Held(p, U), end \in {"none", "done", "stopped", "failed", "closed", "nothing"} :
              LET t == [s EXCEPT !.open = FALSE, !.end = end]
              IN  /\ t \in Held(p, U) /\ ~t.open /\ t.end = end /\ t.body = s.body /\ t.req = s.req
                  /\ t.refused = s.refused
<1>1. <<>> \in Seq(U) /\ Len(<<>>) = 0
  OBVIOUS
<1>2. 0 \in 0 .. MaxReqs /\ 0 \in 0 .. HdrMax /\ 0 <= BufMax /\ \A r \in Reqs : r \in 0 .. MaxReqs
  BY ReaderBounds DEF Reqs
<1>3. Started0 \in Held(p, U)
  BY <1>1, <1>2 DEF Started0, Held, Transfers
<1>4. \A r \in Reqs : Asking(r) \in Held(p, U)
  BY <1>1, <1>2 DEF Asking, Started0, Held, Transfers
<1>5. ASSUME NEW s \in Held(p, U), NEW end \in {"none", "done", "stopped", "failed", "closed", "nothing"}
      PROVE  LET t == [s EXCEPT !.open = FALSE, !.end = end]
             IN  /\ t \in Held(p, U) /\ ~t.open /\ t.end = end /\ t.body = s.body /\ t.req = s.req
                 /\ t.refused = s.refused
  <2> DEFINE t == [s EXCEPT !.open = FALSE, !.end = end]
  <2>1. t \in Transfers(U) /\ ~t.open /\ t.end = end /\ t.body = s.body /\ t.req = s.req /\ t.refused = s.refused
    BY DEF Held, Transfers
  <2> HIDE DEF t
  <2>2. t \in Held(p, U)
    BY <2>1 DEF Held
  <2> QED BY <2>1, <2>2 DEF t
<1> QED BY <1>3, <1>4, <1>5

LEMMA DeviceKeeps ==
  ASSUME TypeInv, NEW p \in Programs
  PROVE  /\ HandleOf[p] \in Handles /\ DropDev(p) \in [Handles -> Url(GoodUnit)] /\ DropCut(p) \subseteq Programs
         /\ \A d \in [Handles -> Url(GoodUnit)] : Opened(d, HandleOf[p]) \in [Handles -> Url(GoodUnit)]
<1>1. HandleOf[p] \in Handles
  BY DEF Handles
<1>2. DropDev(p) \in [Handles -> Url(GoodUnit)]
  BY UrlBlank DEF TypeInv, DropDev
<1>3. DropCut(p) \subseteq Programs
  BY DEF TypeInv, DropCut
<1>4. ASSUME NEW d \in [Handles -> Url(GoodUnit)]
      PROVE  Opened(d, HandleOf[p]) \in [Handles -> Url(GoodUnit)]
  <2>1. OpenCmd(SetTarget(d[HandleOf[p]], "url")) \in Url(GoodUnit)
    BY <1>1, UrlBlank
  <2> QED BY <2>1 DEF Opened
<1> QED BY <1>1, <1>2, <1>3, <1>4

LEMMA AskTypes ==
  ASSUME TypeInv, NEW p \in Programs, Ask(p)
  PROVE  /\ asked + 1 \in Reqs /\ asked' \in 0 .. MaxReqs
         /\ fetches' \subseteq [handle : Handles, req : Reqs] /\ late' \subseteq Programs /\ cast' = cast
<1>1. cast.reqs \in 1 .. MaxReqs /\ asked \in 0 .. MaxReqs /\ asked < cast.reqs /\ MaxReqs \in Nat
  BY PvReaderAssumption, ReaderBounds DEF TypeInv, Ask
<1>2. asked + 1 \in Reqs /\ asked + 1 \in 0 .. MaxReqs
  BY <1>1 DEF Reqs
<1>3. HandleOf[p] \in Handles
  BY DEF Handles
<1> QED BY <1>2, <1>3 DEF TypeInv, Ask

LEMMA GetTypes ==
  ASSUME TypeInv, NEW p \in Programs, NEW address \in BOOLEAN, Get(p, address)
  PROVE  TypeInv'
<1>1. HandleOf[p] \in Handles /\ DropDev(p) \in [Handles -> Url(GoodUnit)] /\ DropCut(p) \subseteq Programs
  BY DeviceKeeps
<1>2. sel' \in Handles /\ now' = now
  BY <1>1 DEF Get
<1>3. Laid(view') /\ Shows(view')
  <2>1. Laid(view) /\ Shows(view) /\ view' \in {view, Freed(view)}
    BY DEF TypeInv, Get
  <2>2. Laid(Freed(view)) /\ Shows(Freed(view))
    BY <2>1, FreedShows DEF Laid
  <2> QED BY <2>1, <2>2
<1>4. CASE address
  <2>1. Ask(p) /\ dev' = Opened(DropDev(p), HandleOf[p]) /\ prog' = [prog EXCEPT ![p] = Asking(asked + 1)]
        /\ cut' = DropCut(p) \ {p}
    BY <1>4 DEF Get
  <2>2. /\ asked + 1 \in Reqs /\ asked' \in 0 .. MaxReqs
        /\ fetches' \subseteq [handle : Handles, req : Reqs] /\ late' \subseteq Programs /\ cast' = cast
    BY <2>1, AskTypes
  <2>3. dev' \in [Handles -> Url(GoodUnit)]
    BY <1>1, <2>1, DeviceKeeps
  <2>4. Asking(asked + 1) \in Held(p, GoodUnit)
    BY <2>2, TransferChanged
  <2>5. prog' \in [Programs -> Transfers(GoodUnit)] /\ \A q \in Programs : prog'[q] \in Held(q, GoodUnit)
    BY <2>1, <2>4 DEF TypeInv, Held
  <2> QED BY <1>1, <1>2, <1>3, <2>1, <2>2, <2>3, <2>5 DEF TypeInv
<1>5. CASE ~address
  <2>1. dev' = DropDev(p) /\ prog' = [prog EXCEPT ![p] = [prog[p] EXCEPT !.open = FALSE, !.end = "none"]]
        /\ cut' = DropCut(p) /\ UNCHANGED wire
    BY <1>5 DEF Get, TypeInv
  <2>2. [prog[p] EXCEPT !.open = FALSE, !.end = "none"] \in Held(p, GoodUnit)
    BY TransferChanged DEF TypeInv
  <2>3. prog' \in [Programs -> Transfers(GoodUnit)] /\ \A q \in Programs : prog'[q] \in Held(q, GoodUnit)
    BY <2>1, <2>2 DEF TypeInv, Held
  <2> QED BY <1>1, <1>2, <1>3, <2>1, <2>3 DEF TypeInv, wire
<1> QED BY <1>4, <1>5

LEMMA PumpTypes ==
  ASSUME TypeInv, NEW p \in Programs, NEW room \in BOOLEAN, Pump(p, room)
  PROVE  TypeInv'
<1> DEFINE x == Pumped(p, dev[HandleOf[p]])
           end == Ending(p, x.k, x.s)
           t == [x.s EXCEPT !.open = FALSE, !.end = end]
<1>1. x.k \in Url(GoodUnit) /\ x.s \in Held(p, GoodUnit) /\ HandleOf[p] \in Handles
  BY PumpKeeps, DeviceKeeps DEF Since
<1>2. sel' = HandleOf[p] /\ UNCHANGED <<wire, now, cut>>
  BY DEF Pump, PumpHandle
<1>3. \/ /\ dev' = [dev EXCEPT ![HandleOf[p]] = Blank] /\ prog' = [prog EXCEPT ![p] = t]
         /\ view' = IF p = "page" /\ end = "done" THEN Presented(view, x.s.body, now, room) ELSE view
      \/ /\ dev' = [dev EXCEPT ![HandleOf[p]] = x.k] /\ prog' = [prog EXCEPT ![p] = x.s] /\ view' = view
  BY Zenon DEF Pump, PumpHandle, CloseCmd
<1> HIDE DEF x
<1>4. end \in {"none", "done", "stopped", "failed", "closed", "nothing"} /\ (end = "done" /\ p = "page" => x.s.body # <<>>)
  BY DEF Ending
<1> HIDE DEF end
<1>5. t \in Held(p, GoodUnit)
  BY <1>1, <1>4, TransferChanged
<1> HIDE DEF t
<1>6. Blank \in Url(GoodUnit)
  BY UrlBlank
<1>7. dev' \in [Handles -> Url(GoodUnit)]
  BY <1>1, <1>3, <1>6 DEF TypeInv
<1>8. prog' \in [Programs -> Transfers(GoodUnit)] /\ \A q \in Programs : prog'[q] \in Held(q, GoodUnit)
  BY <1>1, <1>3, <1>5 DEF TypeInv, Held
<1>9. Laid(view') /\ Shows(view')
  <2>1. Laid(view) /\ Shows(view) /\ now \in 0 .. ClockWrap - 1
    BY DEF TypeInv
  <2>2. CASE p = "page" /\ end = "done"
    <3>1. x.s.body \in Seq(GoodUnit) /\ x.s.body # <<>>
      BY <1>1, <1>4, <2>2, TransferFields DEF Held
    <3>2. Laid(Presented(view, x.s.body, now, room)) /\ Shows(Presented(view, x.s.body, now, room))
      BY <2>1, <3>1, PresentedShows
    <3> QED BY <1>3, <2>1, <2>2, <3>2
  <2>3. CASE ~(p = "page" /\ end = "done")
    BY <1>3, <2>1, <2>3
  <2> QED BY <2>2, <2>3
<1> QED BY <1>1, <1>2, <1>7, <1>8, <1>9 DEF TypeInv, wire

LEMMA StopQuitTypes ==
  ASSUME TypeInv, NEW p \in Programs, (Stop /\ p = "fetch") \/ Quit(p)
  PROVE  TypeInv'
<1>1. DropDev(p) \in [Handles -> Url(GoodUnit)] /\ DropCut(p) \subseteq Programs
  BY DeviceKeeps
<1> DEFINE t == [prog[p] EXCEPT !.open = FALSE, !.end = "stopped"]
<1>2. dev' = DropDev(p) /\ cut' = DropCut(p) /\ UNCHANGED <<sel, wire, now>>
      /\ view' \in {view, Empty(view.w, view.h)} /\ prog' \in {[prog EXCEPT ![p] = t], [prog EXCEPT ![p] = Started0]}
  BY DEF Stop, Quit, TypeInv
<1>3. t \in Held(p, GoodUnit) /\ Started0 \in Held(p, GoodUnit)
  BY TransferChanged DEF TypeInv
<1> HIDE DEF t
<1>4. prog' \in [Programs -> Transfers(GoodUnit)] /\ \A q \in Programs : prog'[q] \in Held(q, GoodUnit)
  BY <1>2, <1>3 DEF TypeInv, Held
<1>5. Laid(view') /\ Shows(view')
  <2>1. view \in View /\ Laid(view) /\ Shows(view)
    BY DEF TypeInv, Laid, Fit
  <2>2. view.w \in Widths /\ view.h \in Nat
    BY <2>1, ViewFields
  <2>3. Laid(Empty(view.w, view.h)) /\ Shows(Empty(view.w, view.h))
    BY <2>2, FreedShows
  <2> QED BY <1>2, <2>1, <2>3
<1> QED BY <1>1, <1>2, <1>4, <1>5 DEF TypeInv, wire

LEMMA DialTypes ==
  ASSUME TypeInv, "dial" \in Programs, Dial \/ DialTick \/ DialClose
  PROVE  TypeInv'
<1> DEFINE h == HandleOf["dial"]
           s == prog["dial"]
           k == dev[h]
           bytes == StagedBytes(k, Block)
<1>1. /\ h \in Handles /\ s \in Held("dial", GoodUnit) /\ k \in Url(GoodUnit)
      /\ \A q \in Programs : prog[q] \in Held(q, GoodUnit)
  BY DEF TypeInv, Handles
<1>2. \A t \in Held("dial", GoodUnit) : [prog EXCEPT !["dial"] = t] \in [Programs -> Transfers(GoodUnit)]
        /\ \A q \in Programs : [prog EXCEPT !["dial"] = t][q] \in Held(q, GoodUnit)
  BY DEF TypeInv, Held
<1>3. Blank \in Url(GoodUnit) /\ \A c : CloseCmd(c) = Blank
  BY UrlBlank
<1>4. \A end \in {"none", "done", "stopped", "failed", "closed", "nothing"} :
        [s EXCEPT !.open = FALSE, !.end = end] \in Held("dial", GoodUnit)
  BY <1>1, TransferChanged
<1>5. ASSUME Dial PROVE TypeInv'
  <2>1. /\ asked + 1 \in Reqs /\ asked' \in 0 .. MaxReqs
        /\ fetches' \subseteq [handle : Handles, req : Reqs] /\ late' \subseteq Programs /\ cast' = cast
    BY <1>5, AskTypes DEF Dial
  <2>2. dev' \in [Handles -> Url(GoodUnit)]
    BY <1>5, DeviceKeeps DEF Dial, TypeInv
  <2>3. Asking(asked + 1) \in Held("dial", GoodUnit)
    BY <2>1, TransferChanged
  <2>4. prog' = [prog EXCEPT !["dial"] = Asking(asked + 1)] /\ sel' = h /\ cut' = cut \ {"dial"}
        /\ UNCHANGED <<view, now>>
    BY <1>5 DEF Dial
  <2> QED BY <1>1, <1>2, <2>1, <2>2, <2>3, <2>4 DEF TypeInv
<1>6. ASSUME DialTick PROVE TypeInv'
  <2>1. sel' = h /\ UNCHANGED <<wire, view, now, cut>>
    BY <1>6 DEF DialTick
  <2>2. CASE k.state \in {"closed", "error"}
    <3> DEFINE end == IF k.state = "error" THEN "failed" ELSE "done"
    <3>1. dev' = [dev EXCEPT ![h] = Blank] /\ prog' = [prog EXCEPT !["dial"] = [s EXCEPT !.open = FALSE, !.end = end]]
      BY <1>3, <1>6, <2>2 DEF DialTick, TypeInv
    <3>2. end \in {"none", "done", "stopped", "failed", "closed", "nothing"}
      OBVIOUS
    <3> HIDE DEF end
    <3>3. [s EXCEPT !.open = FALSE, !.end = end] \in Held("dial", GoodUnit)
      BY <1>4, <3>2
    <3> QED BY <1>1, <1>2, <1>3, <2>1, <3>1, <3>3 DEF TypeInv, wire
  <2>3. CASE k.state = "data"
    <3> DEFINE t == [s EXCEPT !.body = s.body \o bytes]
    <3>1. dev' = [dev EXCEPT ![h] = TakeBlock(k, Block)] /\ prog' = [prog EXCEPT !["dial"] = t]
      BY <1>6, <2>3 DEF DialTick, TypeInv
    <3>2. TakeBlock(k, Block) \in Url(GoodUnit) /\ bytes \in Seq(GoodUnit)
      BY <1>1, UrlTakes
    <3> HIDE DEF bytes
    <3>3. s.body \o bytes \in Seq(GoodUnit)
      BY <1>1, <3>2, TransferFields, ConcatProperties DEF Held
    <3>4. t \in Held("dial", GoodUnit)
      BY <1>1, <3>3 DEF Held, Transfers
    <3> QED BY <1>1, <1>2, <2>1, <3>1, <3>2, <3>4 DEF TypeInv, wire
  <2>4. CASE k.state \notin {"closed", "error", "data"}
    <3>1. dev' = dev /\ prog' = prog
      BY <1>6, <2>4 DEF DialTick
    <3> QED BY <1>1, <2>1, <3>1 DEF TypeInv, wire
  <2> QED BY <2>2, <2>3, <2>4
<1>7. ASSUME DialClose PROVE TypeInv'
  <2>1. /\ sel' = h /\ dev' = [dev EXCEPT ![h] = Blank]
        /\ prog' = [prog EXCEPT !["dial"] = [s EXCEPT !.open = FALSE, !.end = "stopped"]]
        /\ UNCHANGED <<wire, view, now, cut>>
    BY <1>3, <1>7 DEF DialClose, TypeInv
  <2>2. [s EXCEPT !.open = FALSE, !.end = "stopped"] \in Held("dial", GoodUnit)
    BY <1>4
  <2> QED BY <1>1, <1>2, <1>3, <2>1, <2>2 DEF TypeInv, wire
<1> QED BY <1>5, <1>6, <1>7

LEMMA ViewTypes ==
  ASSUME TypeInv, ViewMoves \/ FrameTick \/ Elapse
  PROVE  TypeInv' /\ SameBlocks(view, view')
<1>1. Laid(view) /\ Shows(view) /\ now \in 0 .. ClockWrap - 1 /\ cast \in Casts
  BY DEF TypeInv
<1>2. ASSUME ViewMoves
      PROVE  Laid(view') /\ Shows(view') /\ SameBlocks(view, view') /\ UNCHANGED <<sel, dev, wire, prog, now, cut>>
  <2>1. PICK room \in BOOLEAN : \/ \E y \in ScrollTargets(view) : Scroll(y, room)
                                \/ \E size \in cast.sizes : Size(size[1], size[2], room)
    BY <1>2 DEF ViewMoves
  <2>2. CASE \E y \in ScrollTargets(view) : Scroll(y, room)
    <3>1. PICK y \in ScrollTargets(view) : Scroll(y, room)
      BY <2>2
    <3>2. y \in Int
      BY <1>1, TargetsAreInts DEF Laid
    <3> QED BY <1>1, <3>1, <3>2, ScrolledShows DEF Scroll
  <2>3. CASE \E size \in cast.sizes : Size(size[1], size[2], room)
    <3>1. PICK size \in cast.sizes : Size(size[1], size[2], room)
      BY <2>3
    <3>2. size[1] \in Widths /\ size[2] \in Nat
      BY <1>1, PvReaderAssumption DEF Widths
    <3> QED BY <1>1, <3>1, <3>2, SizedShows DEF Size
  <2> QED BY <2>1, <2>2, <2>3
<1>3. ASSUME FrameTick
      PROVE  Laid(view') /\ Shows(view') /\ SameBlocks(view, view') /\ UNCHANGED <<sel, dev, wire, prog, now, cut>>
  BY <1>1, <1>3, TickedShows DEF FrameTick
<1>4. ASSUME Elapse
      PROVE  now' \in 0 .. ClockWrap - 1 /\ UNCHANGED <<sel, dev, wire, prog, view, cut>>
  <2>1. now \in Nat /\ ClockWrap \in Nat \ {0}
    BY <1>1, PvPageAssumption
  <2> QED BY <1>4, <2>1 DEF Elapse
<1>5. SameBlocks(view, view)
  BY DEF SameBlocks
<1>6. CASE ViewMoves \/ FrameTick
  BY <1>2, <1>3, <1>6 DEF TypeInv, wire
<1>7. CASE Elapse
  BY <1>1, <1>4, <1>5, <1>7 DEF TypeInv, wire
<1> QED BY <1>6, <1>7

LEMMA HostTypes ==
  ASSUME TypeInv, NEW f \in fetches, AnswerError(f) \/ \E d \in cast.docs, hdr \in cast.hdrs : Answer(f, d, hdr)
  PROVE  TypeInv'
<1>1. f.handle \in Handles /\ f.req \in Reqs /\ dev[f.handle] \in Url(GoodUnit)
  BY DEF TypeInv
<1>2. \A k \in Url(GoodUnit) : [dev EXCEPT ![f.handle] = k] \in [Handles -> Url(GoodUnit)]
  BY DEF TypeInv
<1>3. CASE AnswerError(f)
  <2>1. Fail(dev[f.handle]) \in Url(GoodUnit)
    <3>1. CASE dev[f.handle].state = "idle"
      BY <1>1, <3>1 DEF Fail
    <3>2. CASE dev[f.handle].state # "idle"
      BY <1>1, <3>2 DEF Fail, Url, Handle, SockStates
    <3> QED BY <3>1, <3>2
  <2>2. fetches' \subseteq fetches /\ dev' = [dev EXCEPT ![f.handle] = Fail(dev[f.handle])]
        /\ UNCHANGED <<cast, sel, asked, replies, late, prog, view, now, cut>>
    BY <1>3 DEF AnswerError
  <2>3. dev' \in [Handles -> Url(GoodUnit)]
    BY <1>2, <2>1, <2>2
  <2> QED BY <2>2, <2>3 DEF TypeInv
<1>4. CASE \E d \in cast.docs, hdr \in cast.hdrs : Answer(f, d, hdr)
  <2>1. PICK d \in cast.docs, hdr \in cast.hdrs : Answer(f, d, hdr)
    BY <1>4
  <2>2. AReply(f.req, d, hdr)
    BY <1>1, CastReplies DEF TypeInv
  <2> DEFINE R == Reply(f.req, d, hdr)
  <2>3. R \in Seq(OwnUnits(f.req)) /\ R # <<>>
    BY <2>2, ReplyUnits
  <2>4. fetches' \subseteq fetches /\ dev' = [dev EXCEPT ![f.handle] = Arrive(dev[f.handle], R, TRUE)]
        /\ UNCHANGED <<cast, sel, asked, late, prog, view, now, cut>>
    BY <2>1 DEF Answer
  <2> HIDE DEF R
  <2>5. R \in Seq(GoodUnit)
    BY <2>3, SeqWider DEF OwnUnits
  <2>6. Arrive(dev[f.handle], R, TRUE) \in Url(GoodUnit)
    BY <1>1, <2>3, <2>5, UrlArrives
  <2>7. dev' \in [Handles -> Url(GoodUnit)]
    BY <1>2, <2>4, <2>6
  <2> QED BY <2>4, <2>7 DEF TypeInv
<1> QED BY <1>3, <1>4

LEMMA TypeInit == Init => TypeInv
<1> SUFFICES ASSUME Init PROVE TypeInv
  OBVIOUS
<1>1. cast \in Casts /\ fetches = {} /\ asked = 0 /\ asked \in 0 .. MaxReqs /\ now = 0 /\ cut = {} /\ late = {}
  BY ReaderBounds DEF Init
<1>2. sel \in Handles
  <2>1. Handles # {} /\ Handles \in SUBSET Nat
    <3>1. Programs # {} /\ \A p \in Programs : HandleOf[p] \in Nat
      BY PvReaderAssumption
    <3> QED BY <3>1 DEF Handles
  <2>2. PICK h \in Handles : \A g \in Handles : ~(g < h)
    BY <2>1, LowestIn
  <2>3. \A g \in Handles : h <= g
    BY <2>1, <2>2
  <2> QED BY <2>3 DEF Init
<1>3. dev \in [Handles -> Url(GoodUnit)]
  BY UrlBlank DEF Init
<1>4. prog \in [Programs -> Transfers(GoodUnit)] /\ \A p \in Programs : prog[p] \in Held(p, GoodUnit)
  BY TransferChanged DEF Init, Held
<1>5. Laid(view) /\ Shows(view)
  <2>1. PICK size \in cast.sizes : view = Empty(size[1], size[2])
    BY DEF Init
  <2>2. size[1] \in Widths /\ size[2] \in Nat
    BY <1>1, PvReaderAssumption DEF Widths
  <2> QED BY <2>1, <2>2, FreedShows
<1>6. 0 \in 0 .. ClockWrap - 1
  BY PageBounds
<1> QED BY <1>1, <1>2, <1>3, <1>4, <1>5, <1>6 DEF TypeInv

LEMMA TypeNext == TypeInv /\ [Next]_vars => TypeInv'
<1> SUFFICES ASSUME TypeInv, [Next]_vars PROVE TypeInv'
  OBVIOUS
<1>1. cast.programs \subseteq Programs
  BY PvReaderAssumption DEF TypeInv
<1>2. ASSUME NEW p \in cast.programs, NEW address \in BOOLEAN, Get(p, address) PROVE TypeInv'
  BY <1>1, <1>2, GetTypes
<1>3. ASSUME NEW p \in cast.programs, PumpAny(p) PROVE TypeInv'
  BY <1>1, <1>3, PumpTypes DEF PumpAny
<1>4. ASSUME NEW p \in cast.programs, Quit(p) PROVE TypeInv'
  BY <1>1, <1>4, StopQuitTypes
<1>5. ASSUME Stop PROVE TypeInv'
  <2>1. "fetch" \in Programs
    BY <1>5 DEF Stop
  <2> QED BY <1>5, <2>1, StopQuitTypes
<1>6. ASSUME Dial \/ DialTick \/ DialClose PROVE TypeInv'
  <2>1. "dial" \in Programs
    BY <1>6 DEF Dial, DialTick, DialClose
  <2> QED BY <1>6, <2>1, DialTypes
<1>7. ASSUME ViewMoves \/ FrameTick \/ Elapse PROVE TypeInv'
  BY <1>7, ViewTypes
<1>8. ASSUME HostAnswers PROVE TypeInv'
  BY <1>8, HostTypes DEF HostAnswers
<1>9. ASSUME UNCHANGED vars PROVE TypeInv'
  BY <1>9 DEF TypeInv, vars
<1> QED BY <1>2, <1>3, <1>4, <1>5, <1>6, <1>7, <1>8, <1>9 DEF Next

LEMMA TypeHolds == Spec => []TypeInv
<1> QED BY TypeInit, TypeNext, PTL DEF Spec

\* Everything is of its type: no header is read past its limit, PAGE's buffer
\* and its list of blocks do not overflow, and its view is not below the end of
\* its page (consume, take_header, take_body, parse_page, set_range).
THEOREM TypeCorrect == Spec => []TypeOK
<1> QED BY TypeHolds, TypesFollow, PTL

\* Whatever plays shows one of its frames (video_start, video_next, cv_reset).
THEOREM PicturesWhole == Spec => []PictureIsFrame
<1>1. TypeInv => PictureIsFrame
  BY DEF TypeInv, Laid, Fit, ClipOK, PictureIsFrame
<1> QED BY <1>1, TypeHolds, PTL

\* Whatever plays is on screen, and the frame timer runs if something plays and
\* only then (update_playing after every change of the view).
THEOREM PlayingVisible == Spec => []PlayingIsVisible
<1>1. TypeInv => PlayingIsVisible
  BY Zenon DEF TypeInv, Shows, PlayingIsVisible
<1> QED BY <1>1, TypeHolds, PTL

-----------------------------------------------------------------------------
(* Whose bytes a program reads.                                            *)

\* What p has read answers its request; so does, while it reads, all that its
\* handle holds and all that is still to come for it.
Own(p) ==
  /\ prog[p].body \in Seq(OwnUnits(prog[p].req))
  /\ prog[p].open => /\ dev[HandleOf[p]] \in Url(OwnUnits(prog[p].req))
                     /\ \A f \in fetches : f.handle = HandleOf[p] => f.req = prog[p].req
OwnInv == \A p \in Programs \ late : Own(p)

LEMMA DistinctHandles ==
  ASSUME NEW p \in Programs, NEW q \in Programs, p # q
  PROVE  HandleOf[p] # HandleOf[q]
BY PvReaderAssumption

\* What a program does to the handles.
LEMMA DeviceOf ==
  ASSUME TypeInv, NEW p \in Programs
  PROVE  /\ \A h \in Handles : DropDev(p)[h] \in {dev[h], Blank}
         /\ \A d \in [Handles -> Url(GoodUnit)] :
              /\ \A h \in Handles \ {HandleOf[p]} : Opened(d, HandleOf[p])[h] = d[h]
              /\ Opened(d, HandleOf[p])[HandleOf[p]] = OpenCmd(SetTarget(d[HandleOf[p]], "url"))
<1>1. \A h \in Handles : DropDev(p)[h] \in {dev[h], Blank}
  BY DEF TypeInv, DropDev, CloseCmd
<1>2. HandleOf[p] \in Handles
  BY DEF Handles
<1> QED BY <1>1, <1>2 DEF Opened

LEMMA AskOwn ==
  ASSUME NEW q \in Programs, Ask(q)
  PROVE  /\ \A p \in Programs \ late' : p # q =>
              p \notin late /\ \A f \in fetches' : f.handle = HandleOf[p] => f \in fetches
         /\ q \notin late' => \A f \in fetches' : f.handle = HandleOf[q] => f.req = asked + 1
         /\ q \notin late' => \A f \in fetches : f.handle # HandleOf[q]
<1> DEFINE new == [handle |-> HandleOf[q], req |-> asked + 1]
<1>1. fetches' = fetches \cup {new} /\ new.handle = HandleOf[q] /\ new.req = asked + 1
  BY DEF Ask
<1> HIDE DEF new
<1>2. late' = IF \E f \in fetches : f.handle = HandleOf[q] THEN late \cup {q} ELSE late \ {q}
  BY DEF Ask
<1>3. q \notin late' => \A f \in fetches : f.handle # HandleOf[q]
  BY <1>2
<1>4. \A p \in Programs \ late' : p # q => p \notin late
  BY <1>2
<1> QED BY <1>1, <1>3, <1>4, DistinctHandles

\* A program that does nothing keeps what it has, whatever the others do.
LEMMA OwnUntouched ==
  ASSUME NEW p \in Programs, Own(p), prog'[p] = prog[p],
         dev'[HandleOf[p]] \in {dev[HandleOf[p]], Blank},
         \A f \in fetches' : f.handle = HandleOf[p] => f \in fetches
  PROVE  Own(p)'
BY UrlBlank DEF Own

\* A transfer that has just begun, and one that has ended.
LEMMA OwnBegins ==
  ASSUME NEW p \in Programs, NEW k \in Url(GoodUnit), prog'[p] = Asking(asked + 1),
         dev'[HandleOf[p]] = OpenCmd(SetTarget(k, "url")),
         \A f \in fetches' : f.handle = HandleOf[p] => f.req = asked + 1
  PROVE  Own(p)'
<1>1. OpenCmd(SetTarget(k, "url")) = [Blank EXCEPT !.state = "working"]
  <2>1. SetTarget(k, "url").target = "url"
    BY DEF SetTarget, Url, Handle
  <2> QED BY <2>1, PvReaderAssumption DEF OpenCmd, OpenAccepted
<1>2. \A U : [Blank EXCEPT !.state = "working"] \in Url(U)
  <2> TAKE U
  <2>1. <<>> \in Seq(U) /\ <<>> \in Seq(U \cup {Zero})
    OBVIOUS
  <2> QED BY <2>1 DEF Blank, Url, Handle, SockStates
<1>3. prog'[p].body = <<>> /\ prog'[p].req = asked + 1
  BY DEF Asking, Started0
<1>4. dev'[HandleOf[p]] \in Url(OwnUnits(asked + 1))
  BY <1>1, <1>2
<1>5. <<>> \in Seq(OwnUnits(asked + 1))
  OBVIOUS
<1> QED BY <1>3, <1>4, <1>5 DEF Own

LEMMA OwnEnds ==
  ASSUME NEW p \in Programs, ~prog'[p].open,
         prog'[p].body = <<>> \/ (Own(p) /\ prog'[p].body = prog[p].body /\ prog'[p].req = prog[p].req)
  PROVE  Own(p)'
<1>1. prog'[p].body \in Seq(OwnUnits(prog'[p].req))
  <2>1. <<>> \in Seq(OwnUnits(prog'[p].req))
    OBVIOUS
  <2> QED BY <2>1 DEF Own
<1> QED BY <1>1 DEF Own

EndedAs(s, end) == [s EXCEPT !.open = FALSE, !.end = end]

LEMMA TransferEnds ==
  ASSUME NEW U, NEW p, NEW s \in Held(p, U),
         NEW end \in {"none", "done", "stopped", "failed", "closed", "nothing"}
  PROVE  /\ EndedAs(s, end) \in Held(p, U) /\ ~EndedAs(s, end).open /\ EndedAs(s, end).end = end
         /\ EndedAs(s, end).body = s.body /\ EndedAs(s, end).req = s.req
         /\ EndedAs(s, end).refused = s.refused
<1> DEFINE t == [s EXCEPT !.open = FALSE, !.end = end]
<1>1. t \in Transfers(U) /\ ~t.open /\ t.end = end /\ t.body = s.body /\ t.req = s.req /\ t.refused = s.refused
  BY DEF Held, Transfers
<1>2. EndedAs(s, end) = t
  BY DEF EndedAs
<1> HIDE DEF t
<1> QED BY <1>1, <1>2 DEF Held

LEMMA GetOwn ==
  ASSUME TypeInv, OwnInv, NEW q \in Programs, NEW address \in BOOLEAN, Get(q, address)
  PROVE  OwnInv'
<1> SUFFICES ASSUME NEW p \in Programs, p \notin late' PROVE Own(p)'
  BY DEF OwnInv
<1>1. /\ prog \in [Programs -> Transfers(GoodUnit)] /\ HandleOf[p] \in Handles /\ HandleOf[q] \in Handles
      /\ DropDev(q) \in [Handles -> Url(GoodUnit)] /\ DropDev(q)[HandleOf[p]] \in {dev[HandleOf[p]], Blank}
  BY DeviceKeeps, DeviceOf DEF TypeInv
<1>2. CASE address
  <2>1. Ask(q) /\ dev' = Opened(DropDev(q), HandleOf[q]) /\ prog' = [prog EXCEPT ![q] = Asking(asked + 1)]
    BY <1>2 DEF Get
  <2>2. CASE p # q
    <3>1. p \notin late /\ \A f \in fetches' : f.handle = HandleOf[p] => f \in fetches
      BY <2>1, <2>2, AskOwn
    <3>2. prog'[p] = prog[p] /\ dev'[HandleOf[p]] \in {dev[HandleOf[p]], Blank}
      BY <1>1, <2>1, <2>2, DistinctHandles, DeviceOf
    <3>3. Own(p)
      BY <3>1 DEF OwnInv
    <3> QED BY <3>1, <3>2, <3>3, OwnUntouched
  <2>3. CASE p = q
    <3>1. \A f \in fetches' : f.handle = HandleOf[p] => f.req = asked + 1
      BY <2>1, <2>3, AskOwn
    <3>2. prog'[p] = Asking(asked + 1)
      BY <1>1, <2>1, <2>3
    <3>3. dev'[HandleOf[p]] = OpenCmd(SetTarget(DropDev(q)[HandleOf[p]], "url"))
      BY <1>1, <2>1, <2>3, DeviceOf
    <3>4. DropDev(q)[HandleOf[p]] \in Url(GoodUnit)
      BY <1>1
    <3> QED BY <3>1, <3>2, <3>3, <3>4, OwnBegins
  <2> QED BY <2>2, <2>3
<1>3. CASE ~address
  <2>1. dev' = DropDev(q) /\ prog' = [prog EXCEPT ![q] = EndedAs(prog[q], "none")]
        /\ UNCHANGED wire
    BY <1>1, <1>3 DEF Get, EndedAs
  <2>2. Own(p)
    BY <2>1 DEF OwnInv, wire
  <2>3. CASE p # q
    BY <1>1, <2>1, <2>2, <2>3, OwnUntouched DEF wire
  <2>4. CASE p = q
    <3>1. prog'[p] = EndedAs(prog[q], "none") /\ prog[p] \in Held(p, GoodUnit)
      BY <1>1, <2>1, <2>4 DEF TypeInv
    <3>2. ~prog'[p].open /\ prog'[p].body = prog[p].body /\ prog'[p].req = prog[p].req
      BY <2>4, <3>1, TransferEnds
    <3> QED BY <2>2, <3>2, OwnEnds
  <2> QED BY <2>3, <2>4
<1> QED BY <1>2, <1>3

LEMMA PumpOwn ==
  ASSUME TypeInv, OwnInv, NEW q \in Programs, NEW room \in BOOLEAN, Pump(q, room)
  PROVE  OwnInv'
<1> SUFFICES ASSUME NEW p \in Programs, p \notin late' PROVE Own(p)'
  BY DEF OwnInv
<1> DEFINE h == HandleOf[q]
           x == Pumped(q, dev[h])
           end == Ending(q, x.k, x.s)
           t == EndedAs(x.s, end)
<1>1. UNCHANGED wire /\ prog[q].open /\ h \in Handles /\ HandleOf[p] \in Handles
  BY DeviceKeeps DEF Pump
<1>2. \/ /\ dev' = [dev EXCEPT ![h] = Blank] /\ prog' = [prog EXCEPT ![q] = t]
      \/ /\ dev' = [dev EXCEPT ![h] = x.k] /\ prog' = [prog EXCEPT ![q] = x.s]
  BY Zenon DEF Pump, PumpHandle, CloseCmd, EndedAs
<1>3. prog \in [Programs -> Transfers(GoodUnit)] /\ dev \in [Handles -> Url(GoodUnit)]
  BY DEF TypeInv
<1>4. Own(p)
  BY <1>1 DEF OwnInv, wire
<1>5. CASE p # q
  <2>1. prog'[p] = prog[p] /\ dev'[HandleOf[p]] = dev[HandleOf[p]]
    <3> HIDE DEF x, t
    <3> QED BY <1>1, <1>2, <1>3, <1>5, DistinctHandles
  <2> QED BY <1>1, <1>4, <2>1, OwnUntouched DEF wire
<1>6. CASE p = q
  <2> DEFINE U == OwnUnits(prog[p].req)
  <2>1. dev[h] \in Url(U) /\ prog[p] \in Held(p, U)
    <3>1. prog[p] \in Held(p, GoodUnit) /\ prog[p].body \in Seq(U)
      BY <1>4 DEF TypeInv, Own
    <3>2. prog[p] \in Held(p, U)
      <4> HIDE DEF U
      <4> QED BY <3>1 DEF Held, Transfers
    <3> QED BY <1>1, <1>4, <1>6, <3>2 DEF Own
  <2> HIDE DEF U
  <2>2. x.k \in Url(U) /\ x.s \in Since(p, U, prog[p])
    <3>1. PICK f : PumpedBy(U, p, dev[h], prog[p], f)
      BY <2>1, PumpedFollows
    <3>2. PumpBlocks \in 0 .. PumpBlocks
      BY ReaderBounds
    <3> QED BY <1>6, <3>1, <3>2 DEF PumpedBy
  <2> HIDE DEF x
  <2>3. x.s \in Held(p, U) /\ x.s.req = prog[p].req /\ x.s.body \in Seq(U)
    BY <2>2, TransferFields DEF Since, Held
  <2>4. CASE dev' = [dev EXCEPT ![h] = x.k] /\ prog' = [prog EXCEPT ![q] = x.s]
    <3>1. dev'[HandleOf[p]] = x.k /\ prog'[p] = x.s
      BY <1>1, <1>3, <1>6, <2>4
    <3> QED BY <1>1, <1>4, <1>6, <2>2, <2>3, <3>1 DEF Own, U, wire
  <2>5. CASE dev' = [dev EXCEPT ![h] = Blank] /\ prog' = [prog EXCEPT ![q] = t]
    <3>1. end \in {"none", "done", "stopped", "failed", "closed", "nothing"}
      BY DEF Ending
    <3> HIDE DEF end
    <3>2. ~t.open /\ t.req = x.s.req /\ t.body = x.s.body
      BY <2>3, <3>1, TransferEnds
    <3> HIDE DEF t
    <3>3. prog'[p] = t
      BY <1>3, <1>6, <2>5
    <3> QED BY <2>3, <3>2, <3>3 DEF Own, U
  <2> QED BY <1>2, <2>4, <2>5
<1> QED BY <1>5, <1>6

LEMMA StopQuitOwn ==
  ASSUME TypeInv, OwnInv, NEW q \in Programs, (Stop /\ q = "fetch") \/ Quit(q)
  PROVE  OwnInv'
<1> SUFFICES ASSUME NEW p \in Programs, p \notin late' PROVE Own(p)'
  BY DEF OwnInv
<1> DEFINE t == EndedAs(prog[q], "stopped")
<1>1. prog \in [Programs -> Transfers(GoodUnit)] /\ HandleOf[p] \in Handles /\ prog[q] \in Held(q, GoodUnit)
  BY DEF TypeInv, Handles
<1>2. dev' = DropDev(q) /\ UNCHANGED wire /\ prog' \in {[prog EXCEPT ![q] = t], [prog EXCEPT ![q] = Started0]}
  BY <1>1 DEF Stop, Quit, EndedAs
<1>3. Own(p)
  BY <1>2 DEF OwnInv, wire
<1>4. CASE p # q
  <2>1. prog'[p] = prog[p] /\ dev'[HandleOf[p]] \in {dev[HandleOf[p]], Blank}
    <3> HIDE DEF t
    <3> QED BY <1>1, <1>2, <1>4, DeviceOf
  <2> QED BY <1>2, <1>3, <2>1, OwnUntouched DEF wire
<1>5. CASE p = q
  <2>1. ~t.open /\ t.body = prog[q].body /\ t.req = prog[q].req
    BY <1>1, TransferEnds
  <2> HIDE DEF t
  <2>2. prog'[p] \in {t, Started0}
    BY <1>1, <1>2, <1>5
  <2>3. ~Started0.open /\ Started0.body = <<>>
    BY DEF Started0
  <2> QED BY <1>3, <1>5, <2>1, <2>2, <2>3, OwnEnds
<1> QED BY <1>4, <1>5

LEMMA DialOwn ==
  ASSUME TypeInv, OwnInv, "dial" \in Programs, Dial \/ DialTick \/ DialClose
  PROVE  OwnInv'
<1> SUFFICES ASSUME NEW p \in Programs, p \notin late' PROVE Own(p)'
  BY DEF OwnInv
<1> DEFINE h == HandleOf["dial"]
           s == prog["dial"]
           bytes == StagedBytes(dev[h], Block)
<1>1. /\ prog \in [Programs -> Transfers(GoodUnit)] /\ dev \in [Handles -> Url(GoodUnit)]
      /\ HandleOf[p] \in Handles /\ h \in Handles /\ s \in Held("dial", GoodUnit)
  BY DEF TypeInv, Handles
<1>2. ASSUME Dial PROVE Own(p)'
  <2>1. Ask("dial") /\ dev' = Opened(dev, h) /\ prog' = [prog EXCEPT !["dial"] = Asking(asked + 1)]
    BY <1>2 DEF Dial
  <2>2. CASE p # "dial"
    <3>1. p \notin late /\ \A f \in fetches' : f.handle = HandleOf[p] => f \in fetches
      BY <2>1, <2>2, AskOwn
    <3>2. prog'[p] = prog[p] /\ dev'[HandleOf[p]] = dev[HandleOf[p]]
      BY <1>1, <2>1, <2>2, DistinctHandles, DeviceOf
    <3>3. Own(p)
      BY <3>1 DEF OwnInv
    <3> QED BY <3>1, <3>2, <3>3, OwnUntouched
  <2>3. CASE p = "dial"
    <3>1. \A f \in fetches' : f.handle = HandleOf[p] => f.req = asked + 1
      BY <2>1, <2>3, AskOwn
    <3>2. prog'[p] = Asking(asked + 1) /\ dev'[HandleOf[p]] = OpenCmd(SetTarget(dev[h], "url"))
      BY <1>1, <2>1, <2>3, DeviceOf
    <3>3. dev[h] \in Url(GoodUnit)
      BY <1>1
    <3> QED BY <3>1, <3>2, <3>3, OwnBegins
  <2> QED BY <2>2, <2>3
<1>3. ASSUME DialTick \/ DialClose PROVE Own(p)'
  <2>1. UNCHANGED wire
    BY <1>3 DEF DialTick, DialClose
  <2>2. Own(p)
    BY <2>1 DEF OwnInv, wire
  <2> DEFINE Ended(end) == /\ dev' = [dev EXCEPT ![h] = Blank]
                           /\ prog' = [prog EXCEPT !["dial"] = EndedAs(s, end)]
  <2>3. \/ Ended("stopped") \/ Ended("failed") \/ Ended("done")
        \/ (dev' = dev /\ prog' = prog)
        \/ /\ dev' = [dev EXCEPT ![h] = TakeBlock(dev[h], Block)]
           /\ prog' = [prog EXCEPT !["dial"] = [s EXCEPT !.body = s.body \o bytes]] /\ s.open
    BY <1>1, <1>3 DEF DialTick, DialClose, CloseCmd, EndedAs
  <2>4. CASE p # "dial"
    <3>1. prog'[p] = prog[p] /\ dev'[HandleOf[p]] = dev[HandleOf[p]]
      <4> HIDE DEF bytes
      <4> QED BY <1>1, <2>3, <2>4, DistinctHandles
    <3> QED BY <2>1, <2>2, <3>1, OwnUntouched DEF wire
  <2>5. CASE p = "dial"
    <3>1. CASE \E end \in {"stopped", "failed", "done"} : Ended(end)
      <4>1. PICK end \in {"stopped", "failed", "done"} : Ended(end)
        BY <3>1
      <4>2. prog'[p] = EndedAs(s, end)
        BY <1>1, <2>5, <4>1
      <4>3. ~prog'[p].open /\ prog'[p].body = s.body /\ prog'[p].req = s.req
        BY <1>1, <4>2, TransferEnds
      <4> QED BY <2>2, <2>5, <4>3, OwnEnds
    <3>2. CASE dev' = dev /\ prog' = prog
      BY <2>1, <2>2, <3>2, OwnUntouched DEF wire
    <3>3. CASE /\ dev' = [dev EXCEPT ![h] = TakeBlock(dev[h], Block)]
               /\ prog' = [prog EXCEPT !["dial"] = [s EXCEPT !.body = s.body \o bytes]] /\ s.open
      <4> DEFINE U == OwnUnits(s.req)
      <4>1. s.body \in Seq(U) /\ dev[h] \in Url(U)
        BY <2>2, <2>5, <3>3 DEF Own
      <4> HIDE DEF U
      <4>2. bytes \in Seq(U) /\ TakeBlock(dev[h], Block) \in Url(U)
        BY <4>1, UrlTakes
      <4> HIDE DEF bytes
      <4>3. s.body \o bytes \in Seq(U)
        BY <4>1, <4>2, ConcatProperties
      <4>4. prog'[p] = [s EXCEPT !.body = s.body \o bytes] /\ dev'[h] = TakeBlock(dev[h], Block)
        BY <1>1, <2>5, <3>3
      <4>5. prog'[p].body = s.body \o bytes /\ prog'[p].req = s.req /\ prog'[p].open = s.open
        BY <1>1, <4>4 DEF Held, Transfers
      <4> QED BY <2>1, <2>2, <2>5, <3>3, <4>2, <4>3, <4>4, <4>5 DEF Own, U, wire
    <3> QED BY <2>3, <3>1, <3>2, <3>3
  <2> QED BY <2>4, <2>5
<1> QED BY <1>2, <1>3

LEMMA HostOwn ==
  ASSUME TypeInv, OwnInv, NEW f \in fetches, AnswerError(f) \/ \E d \in cast.docs, hdr \in cast.hdrs : Answer(f, d, hdr)
  PROVE  OwnInv'
<1> SUFFICES ASSUME NEW p \in Programs, p \notin late' PROVE Own(p)'
  BY DEF OwnInv
<1>1. f.handle \in Handles /\ f.req \in Reqs /\ dev \in [Handles -> Url(GoodUnit)] /\ HandleOf[p] \in Handles
  BY DEF TypeInv, Handles
<1>2. fetches' \subseteq fetches /\ prog' = prog /\ late' = late
  BY DEF AnswerError, Answer
<1>3. Own(p)
  BY <1>2 DEF OwnInv
<1>4. \/ dev' = [dev EXCEPT ![f.handle] = Fail(dev[f.handle])]
      \/ \E R \in Seq(OwnUnits(f.req)) : R # <<>> /\ dev' = [dev EXCEPT ![f.handle] = Arrive(dev[f.handle], R, TRUE)]
  <2>1. CASE AnswerError(f)
    BY <2>1 DEF AnswerError
  <2>2. CASE \E d \in cast.docs, hdr \in cast.hdrs : Answer(f, d, hdr)
    <3>1. PICK d \in cast.docs, hdr \in cast.hdrs : Answer(f, d, hdr)
      BY <2>2
    <3>2. AReply(f.req, d, hdr)
      BY <1>1, CastReplies DEF TypeInv
    <3>3. Reply(f.req, d, hdr) \in Seq(OwnUnits(f.req)) /\ Reply(f.req, d, hdr) # <<>>
      BY <3>2, ReplyUnits
    <3> QED BY <3>1, <3>3 DEF Answer
  <2> QED BY <2>1, <2>2
<1>5. CASE f.handle # HandleOf[p] \/ ~prog[p].open
  <2>1. f.handle # HandleOf[p] => dev'[HandleOf[p]] = dev[HandleOf[p]]
    BY <1>1, <1>4
  <2> QED BY <1>2, <1>3, <1>5, <2>1 DEF Own
<1>6. CASE f.handle = HandleOf[p] /\ prog[p].open
  <2> DEFINE U == OwnUnits(prog[p].req)
             k == dev[HandleOf[p]]
  <2>1. f.req = prog[p].req /\ k \in Url(U)
    BY <1>3, <1>6 DEF Own
  <2>2. dev'[HandleOf[p]] \in Url(U)
    <3>1. CASE dev' = [dev EXCEPT ![f.handle] = Fail(dev[f.handle])]
      <4>1. dev'[HandleOf[p]] = Fail(k)
        BY <1>1, <1>6, <3>1
      <4> HIDE DEF U, k
      <4>2. Fail(k) \in Url(U)
        <5>1. CASE k.state = "idle"
          BY <2>1, <5>1 DEF Fail
        <5>2. CASE k.state # "idle"
          BY <2>1, <5>2 DEF Fail, Url, Handle, SockStates
        <5> QED BY <5>1, <5>2
      <4> QED BY <4>1, <4>2
    <3>2. CASE \E R \in Seq(OwnUnits(f.req)) : R # <<>> /\ dev' = [dev EXCEPT ![f.handle] = Arrive(dev[f.handle], R, TRUE)]
      <4>1. PICK R \in Seq(U) : R # <<>> /\ dev' = [dev EXCEPT ![f.handle] = Arrive(dev[f.handle], R, TRUE)]
        BY <2>1, <3>2
      <4>2. dev'[HandleOf[p]] = Arrive(k, R, TRUE)
        BY <1>1, <1>6, <4>1
      <4> HIDE DEF U, k
      <4> QED BY <2>1, <4>1, <4>2, UrlArrives
    <3> QED BY <1>4, <3>1, <3>2
  <2> QED BY <1>2, <1>3, <2>2 DEF Own
<1> QED BY <1>5, <1>6

LEMMA OwnNext == TypeInv /\ OwnInv /\ [Next]_vars => OwnInv'
<1> SUFFICES ASSUME TypeInv, OwnInv, [Next]_vars PROVE OwnInv'
  OBVIOUS
<1>1. cast.programs \subseteq Programs
  BY PvReaderAssumption DEF TypeInv
<1>2. ASSUME NEW p \in cast.programs, NEW address \in BOOLEAN, Get(p, address) PROVE OwnInv'
  BY <1>1, <1>2, GetOwn
<1>3. ASSUME NEW p \in cast.programs, PumpAny(p) PROVE OwnInv'
  BY <1>1, <1>3, PumpOwn DEF PumpAny
<1>4. ASSUME NEW p \in cast.programs, Quit(p) PROVE OwnInv'
  BY <1>1, <1>4, StopQuitOwn
<1>5. ASSUME Stop PROVE OwnInv'
  <2>1. "fetch" \in Programs
    BY <1>5 DEF Stop
  <2> QED BY <1>5, <2>1, StopQuitOwn
<1>6. ASSUME Dial \/ DialTick \/ DialClose PROVE OwnInv'
  <2>1. "dial" \in Programs
    BY <1>6 DEF Dial, DialTick, DialClose
  <2> QED BY <1>6, <2>1, DialOwn
<1>7. ASSUME ViewMoves \/ FrameTick \/ Elapse PROVE OwnInv'
  <2>1. UNCHANGED <<dev, prog, fetches, late>>
    BY <1>7 DEF ViewMoves, Scroll, Size, FrameTick, Elapse, wire
  <2> QED BY <2>1 DEF OwnInv, Own
<1>8. ASSUME HostAnswers PROVE OwnInv'
  BY <1>8, HostOwn DEF HostAnswers
<1>9. ASSUME UNCHANGED vars PROVE OwnInv'
  BY <1>9 DEF OwnInv, Own, vars
<1> QED BY <1>2, <1>3, <1>4, <1>5, <1>6, <1>7, <1>8, <1>9 DEF Next

LEMMA OwnHolds == Spec => []OwnInv
<1>1. Init => OwnInv
  <2>1. ASSUME Init, NEW p \in Programs PROVE Own(p)
    <3>1. prog[p].body = <<>> /\ ~prog[p].open
      BY <2>1 DEF Init, Started0
    <3> QED BY <3>1 DEF Own
  <2> QED BY <2>1 DEF OwnInv
<1> QED BY <1>1, TypeHolds, OwnNext, PTL DEF Spec

\* No program reads what answers another one's request, or an earlier request of
\* its own that it had given up, unless it asked again before the answer had
\* come (fetch.c, page.c: a handle of one's own, selected before every burst).
THEOREM OwnBytesRead == Spec => []OwnBytes
<1>1. OwnInv => OwnBytes
  <2> SUFFICES ASSUME OwnInv, NEW p \in Programs \ late, NEW i \in DOMAIN prog[p].body
               PROVE  prog[p].body[i].req = prog[p].req
    BY DEF OwnBytes
  <2>1. prog[p].body \in Seq(OwnUnits(prog[p].req))
    BY DEF OwnInv, Own
  <2>2. i \in 1 .. Len(prog[p].body)
    BY <2>1, LenProperties
  <2>3. prog[p].body[i] \in OwnUnits(prog[p].req)
    BY <2>1, <2>2, ElementOfSeq
  <2> QED BY <2>3 DEF OwnUnits
<1> QED BY <1>1, OwnHolds, PTL

-----------------------------------------------------------------------------
(* Whether a program has the whole of a body.                              *)

\* Elements a + 1 to b of s.
Part(s, a, b) == SubSeq(s, a + 1, b)

LEMMA Parts ==
  ASSUME NEW U, NEW R \in Seq(U), NEW a \in Nat, NEW b \in a .. Len(R)
  PROVE  /\ Part(R, a, b) \in Seq(U) /\ Len(Part(R, a, b)) = b - a
         /\ \A i \in 1 .. b - a : Part(R, a, b)[i] = R[a + i]
<1>1. Len(R) \in Nat /\ \A i \in 1 .. Len(R) : R[i] \in U
  BY LenProperties, ElementOfSeq
<1>2. a + 1 \in Int /\ b \in Int /\ \A i \in a + 1 .. b : R[i] \in U
  BY <1>1
<1>3. /\ Part(R, a, b) \in Seq(U) /\ Len(Part(R, a, b)) = IF a + 1 <= b THEN b - (a + 1) + 1 ELSE 0
      /\ \A i \in 1 .. b - (a + 1) + 1 : Part(R, a, b)[i] = R[a + 1 + i - 1]
  BY <1>2, SubSeqProperties DEF Part
<1>4. Len(Part(R, a, b)) = b - a
  BY <1>1, <1>3
<1>5. ASSUME NEW i \in 1 .. b - a
      PROVE  Part(R, a, b)[i] = R[a + i]
  <2>1. i \in 1 .. b - (a + 1) + 1 /\ a + 1 + i - 1 = a + i
    BY <1>1
  <2> QED BY <1>3, <2>1
<1> QED BY <1>3, <1>4, <1>5

LEMMA PartOfPart ==
  ASSUME NEW U, NEW R \in Seq(U), NEW a \in Nat, NEW c \in a .. Len(R),
         NEW x \in Nat, NEW y \in x .. c - a
  PROVE  Part(Part(R, a, c), x, y) = Part(R, a + x, a + y)
<1> DEFINE S == Part(R, a, c)
           s == Part(S, x, y)
           t == Part(R, a + x, a + y)
<1>1. Len(R) \in Nat
  BY LenProperties
<1>2. S \in Seq(U) /\ Len(S) = c - a /\ \A i \in 1 .. c - a : S[i] = R[a + i]
  BY Parts
<1> HIDE DEF S
<1>3. y \in x .. Len(S) /\ a + x \in Nat /\ a + y \in a + x .. Len(R) /\ a + y - (a + x) = y - x
  BY <1>1, <1>2
<1>4. s \in Seq(U) /\ Len(s) = y - x /\ \A i \in 1 .. y - x : s[i] = S[x + i]
  BY <1>2, <1>3, Parts
<1>5. t \in Seq(U) /\ Len(t) = y - x /\ \A i \in 1 .. y - x : t[i] = R[a + x + i]
  BY <1>3, Parts
<1> HIDE DEF s, t
<1>6. ASSUME NEW i \in 1 .. y - x
      PROVE  s[i] = t[i]
  <2>1. x + i \in 1 .. c - a /\ a + (x + i) = a + x + i
    BY <1>1
  <2> QED BY <1>2, <1>4, <1>5, <2>1
<1>7. s = t
  BY <1>4, <1>5, <1>6, SeqEqual
<1> QED BY <1>7 DEF s, t, S

LEMMA PartsJoin ==
  ASSUME NEW U, NEW R \in Seq(U), NEW a \in Nat, NEW b \in a .. Len(R), NEW c \in b .. Len(R)
  PROVE  Part(R, a, b) \o Part(R, b, c) = Part(R, a, c)
<1>1. Len(R) \in Nat
  BY LenProperties
<1>2. a + 1 \in 1 .. Len(R) + 1 /\ b \in (a + 1) - 1 .. Len(R)
  BY <1>1
<1> QED BY <1>2, ConcatAdjacentSubSeq DEF Part

LEMMA PartEmpty ==
  ASSUME NEW U, NEW R \in Seq(U), NEW a \in Nat
  PROVE  Part(R, a, a) = <<>> /\ (a >= Len(R) => Part(R, a, Len(R)) = <<>>)
<1>1. Len(R) \in Nat
  BY LenProperties
<1>2. a < a + 1 /\ a \in Int /\ a + 1 \in Int /\ (a >= Len(R) => Len(R) < a + 1)
  BY <1>1
<1> QED BY <1>1, <1>2, SubSeqEmpty DEF Part

\* How long the header of R is for one who looks at HdrMax units of it at most;
\* what a reader, and what p, has when it has been given the first n units of R.
Blanks(R) == {i \in 1 .. Least(HdrMax, Len(R)) : R[i].tag = "blank"}
HeaderLen(R) == IF Blanks(R) # {} THEN Min(Blanks(R)) ELSE HdrMax
Got(s, R, n) ==
  ~s.refused =>
    IF s.inBody THEN HeaderLen(R) <= n /\ s.body = Part(R, HeaderLen(R), n)
    ELSE s.body = <<>> /\ s.hdrN = n /\ \A i \in 1 .. n : R[i].tag # "blank"
Has(p, s, R, n) == IF p = "dial" THEN s.body = Part(R, 0, n) ELSE Got(s, R, n)

LEMMA HeaderLenIs ==
  ASSUME NEW U, NEW R \in Seq(U)
  PROVE  /\ HeaderLen(R) \in 1 .. HdrMax
         /\ \A k \in 1 .. Len(R) :
              k <= HdrMax /\ R[k].tag = "blank" /\ (\A i \in 1 .. k - 1 : R[i].tag # "blank")
                => HeaderLen(R) = k
         /\ (\A i \in 1 .. Least(HdrMax, Len(R)) : R[i].tag # "blank") => HeaderLen(R) = HdrMax
<1>1. Len(R) \in Nat /\ HdrMax \in Nat \ {0}
  BY LenProperties, ReaderBounds
<1>2. Least(HdrMax, Len(R)) \in Nat /\ Least(HdrMax, Len(R)) <= HdrMax
      /\ \A k \in 1 .. Len(R) : k <= HdrMax => k \in 1 .. Least(HdrMax, Len(R))
  BY <1>1 DEF Least
<1> DEFINE ends == Blanks(R)
<1>3. ends \in SUBSET (1 .. HdrMax) /\ ends \in SUBSET Nat
  BY <1>1, <1>2 DEF Blanks
<1>4. ends # {} => Min(ends) \in ends /\ \A i \in ends : Min(ends) <= i
  <2> SUFFICES ASSUME ends # {} PROVE Min(ends) \in ends /\ \A i \in ends : Min(ends) <= i
    OBVIOUS
  <2> HIDE DEF ends
  <2>1. PICK k \in ends : \A i \in ends : ~(i < k)
    BY <1>3, LowestIn
  <2>2. \A i \in ends : k <= i
    BY <1>3, <2>1
  <2> QED BY <2>2 DEF Min
<1>5. HeaderLen(R) = IF ends # {} THEN Min(ends) ELSE HdrMax
  BY DEF HeaderLen
<1> DEFINE m == Min(ends)
<1> HIDE DEF m
<1>6. ends # {} => HeaderLen(R) = m /\ m \in ends /\ \A i \in ends : m <= i
  BY <1>4, <1>5 DEF m
<1>7. \A k \in 1 .. Least(HdrMax, Len(R)) : R[k].tag = "blank" <=> k \in ends
  BY DEF Blanks
<1> HIDE DEF ends
<1>8. ASSUME NEW k \in 1 .. Len(R), k <= HdrMax, R[k].tag = "blank", \A i \in 1 .. k - 1 : R[i].tag # "blank"
      PROVE  HeaderLen(R) = k
  <2>1. k \in ends
    BY <1>2, <1>7, <1>8
  <2>2. m \in ends /\ m <= k /\ HeaderLen(R) = m
    BY <1>6, <2>1
  <2>3. m \in 1 .. Least(HdrMax, Len(R))
    BY <2>2 DEF ends, Blanks
  <2>4. R[m].tag = "blank"
    BY <1>7, <2>2, <2>3
  <2>5. m \in Nat /\ m >= 1 /\ k \in Nat
    BY <1>1, <1>2, <2>3
  <2>6. ~(m < k)
    BY <1>8, <2>4, <2>5
  <2> QED BY <2>2, <2>5, <2>6
<1>9. (\A i \in 1 .. Least(HdrMax, Len(R)) : R[i].tag # "blank") => HeaderLen(R) = HdrMax
  <2> SUFFICES ASSUME \A i \in 1 .. Least(HdrMax, Len(R)) : R[i].tag # "blank" PROVE HeaderLen(R) = HdrMax
    OBVIOUS
  <2>1. ends = {}
    BY DEF ends, Blanks
  <2> QED BY <1>5, <2>1
<1>10. HeaderLen(R) \in 1 .. HdrMax
  <2>1. HdrMax \in 1 .. HdrMax
    BY <1>1
  <2>2. CASE ends = {}
    BY <1>5, <2>1, <2>2
  <2>3. CASE ends # {}
    <3>1. m \in 1 .. HdrMax
      BY <1>3, <1>6, <2>3
    <3> QED BY <1>6, <2>3, <3>1
  <2> QED BY <2>2, <2>3
<1> QED BY <1>8, <1>9, <1>10

\* consume, of a chunk that is the units n + 1 to m of a reply: wherever the
\* header's end falls, it is found there.
LEMMA ConsumedGot ==
  ASSUME NEW U, NEW p, NEW s \in Held(p, U), NEW R \in Seq(U), NEW n \in 0 .. Len(R), NEW m \in n .. Len(R),
         Got(s, R, n)
  PROVE  Got(Consumed(p, s, Part(R, n, m)), R, m)
<1> DEFINE chunk == Part(R, n, m)
           t == Consumed(p, s, chunk)
           k == BodyFrom(s, chunk) - 1
           len == HeaderLen(R)
<1> SUFFICES ASSUME ~t.refused
             PROVE  IF t.inBody THEN len <= m /\ t.body = Part(R, len, m)
                    ELSE t.body = <<>> /\ t.hdrN = m /\ \A i \in 1 .. m : R[i].tag # "blank"
  BY DEF Got
<1>1. /\ Len(R) \in Nat /\ HdrMax \in Nat \ {0} /\ s \in Transfers(U) /\ s.inBody \in BOOLEAN
      /\ s.body \in Seq(U) /\ n \in Nat /\ m \in Nat /\ s.hdrN \in 0 .. HdrMax
  BY LenProperties, ReaderBounds, TransferFields DEF Held
<1>2. chunk \in Seq(U) /\ Len(chunk) = m - n /\ \A i \in 1 .. m - n : chunk[i] = R[n + i]
  BY <1>1, Parts
<1>3. DOMAIN chunk = 1 .. m - n
  BY <1>2, LenProperties
<1>4. len \in 1 .. HdrMax
  BY HeaderLenIs
<1> HIDE DEF chunk
<1>5. /\ t.hdrN = IF s.inBody THEN s.hdrN ELSE s.hdrN + k
      /\ t.inBody = BodyFound(s, chunk)
      /\ ~s.refused /\ t.body = s.body \o (IF BodyFound(s, chunk) THEN Drop(chunk, k) ELSE <<>>)
  <2>1. Consumes(U, p, s, chunk, t)
    BY <1>2, ConsumedIs
  <2> HIDE DEF t
  <2> QED BY <2>1, Zenon DEF Consumes
<1>6. /\ k \in 0 .. Len(chunk) /\ (s.inBody => k = 0)
      /\ ~s.inBody /\ EndsOf(s, chunk) # {} =>
           k \in EndsOf(s, chunk) /\ \A i \in EndsOf(s, chunk) : k <= i
      /\ ~s.inBody /\ EndsOf(s, chunk) = {} => k = Least(Len(chunk), HdrMax - s.hdrN)
  BY <1>1, <1>2, HeaderEnd
<1> HIDE DEF t, k, len
<1>7. Drop(chunk, k) = Part(R, n + k, m)
  <2>1. Drop(chunk, k) = Part(chunk, k, m - n)
    BY <1>2 DEF Drop, Part
  <2>2. k \in Nat /\ m - n \in k .. m - n /\ n + (m - n) = m
    BY <1>1, <1>2, <1>6
  <2>3. Part(Part(R, n, m), k, m - n) = Part(R, n + k, n + (m - n))
    BY <1>1, <2>2, PartOfPart
  <2> QED BY <2>1, <2>2, <2>3 DEF chunk
<1>8. CASE s.inBody
  <2>1. len <= n /\ s.body = Part(R, len, n) /\ k = 0 /\ n + 0 = n
    BY <1>1, <1>5, <1>6, <1>8 DEF Got, len
  <2>2. BodyFound(s, chunk)
    BY <1>8 DEF BodyFound
  <2>3. t.body = Part(R, len, n) \o Part(R, n, m)
    BY <1>5, <1>7, <2>1, <2>2
  <2>4. Part(R, len, n) \o Part(R, n, m) = Part(R, len, m)
    <3>1. len \in Nat /\ n \in len .. Len(R)
      BY <1>1, <1>4, <2>1
    <3> QED BY <1>1, <3>1, PartsJoin
  <2>5. len <= m
    BY <1>1, <1>4, <2>1
  <2>6. t.inBody /\ t.body = Part(R, len, m)
    BY <1>5, <2>2, <2>3, <2>4, Zenon
  <2> QED BY <2>5, <2>6, Zenon
<1>9. CASE ~s.inBody
  <2>1. s.body = <<>> /\ s.hdrN = n /\ n <= HdrMax /\ \A i \in 1 .. n : R[i].tag # "blank"
    BY <1>1, <1>5, <1>9 DEF Got
  <2>2. BodyFound(s, chunk) <=> (EndsOf(s, chunk) # {} \/ m > HdrMax)
    <3>1. n + (m - n) = m
      BY <1>1
    <3> QED BY <1>2, <1>9, <2>1, <3>1 DEF BodyFound
  <2>3. \A i \in 1 .. m - n : i \in EndsOf(s, chunk) <=> R[n + i].tag = "blank" /\ n + i <= HdrMax
    BY <1>2, <1>3, <2>1 DEF EndsOf
  <2>4. EndsOf(s, chunk) \subseteq 1 .. m - n
    BY <1>3 DEF EndsOf
  <2>5. BodyFound(s, chunk) => t.body = Part(R, n + k, m)
    <3>1. n + k \in Nat /\ m \in n + k .. Len(R)
      BY <1>1, <1>2, <1>6
    <3>2. Part(R, n + k, m) \in Seq(U)
      BY <3>1, Parts
    <3> QED BY <1>5, <1>7, <2>1, <3>2, ConcatEmptySeq
  <2>6. ~BodyFound(s, chunk) => t.body = <<>>
    BY <1>5, <2>1
  <2>7. CASE EndsOf(s, chunk) # {}
    <3>1. k \in EndsOf(s, chunk) /\ k \in 1 .. m - n /\ \A i \in EndsOf(s, chunk) : k <= i
      BY <1>6, <1>9, <2>4, <2>7
    <3>2. R[n + k].tag = "blank" /\ n + k <= HdrMax /\ n + k \in 1 .. Len(R) /\ n + k <= m
      BY <1>1, <2>3, <3>1
    <3>3. ASSUME NEW i \in 1 .. (n + k) - 1
          PROVE  R[i].tag # "blank"
      <4>1. CASE i <= n
        BY <1>1, <2>1, <3>1, <4>1
      <4>2. CASE i > n
        <5> DEFINE j == i - n
        <5>1. j \in 1 .. m - n /\ n + j = i /\ i <= HdrMax /\ ~(k <= j)
          BY <1>1, <3>1, <3>2, <4>2
        <5> HIDE DEF j
        <5>2. j \notin EndsOf(s, chunk)
          BY <3>1, <5>1
        <5> QED BY <2>3, <5>1, <5>2
      <4> QED BY <1>1, <3>1, <4>1, <4>2
    <3>4. len = n + k
      BY <3>2, <3>3, HeaderLenIs DEF len
    <3> QED BY <1>5, <2>2, <2>5, <2>7, <3>2, <3>4
  <2>8. CASE EndsOf(s, chunk) = {}
    <3>1. ASSUME NEW i \in 1 .. m, i <= HdrMax
          PROVE  R[i].tag # "blank"
      <4>1. CASE i <= n
        BY <1>1, <2>1, <4>1
      <4>2. CASE i > n
        <5>1. i - n \in 1 .. m - n /\ n + (i - n) = i
          BY <1>1, <4>2
        <5> QED BY <2>3, <2>8, <3>1, <5>1
      <4> QED BY <1>1, <4>1, <4>2
    <3>2. k = Least(m - n, HdrMax - n)
      BY <1>2, <1>6, <1>9, <2>1, <2>8
    <3>3. CASE m > HdrMax
      <4>1. n + k = HdrMax
        BY <1>1, <2>1, <3>2, <3>3 DEF Least
      <4>2. len = HdrMax
        <5>1. \A i \in 1 .. Least(HdrMax, Len(R)) : i \in 1 .. m /\ i <= HdrMax
          BY <1>1, <3>3 DEF Least
        <5> QED BY <3>1, <5>1, HeaderLenIs DEF len
      <4>3. len <= m
        BY <1>1, <3>3, <4>2
      <4>4. t.inBody /\ t.body = Part(R, len, m)
        BY <1>5, <2>2, <2>5, <3>3, <4>1, <4>2, Zenon
      <4> QED BY <4>3, <4>4, Zenon
    <3>4. CASE ~(m > HdrMax)
      <4>1. n + k = m /\ \A i \in 1 .. m : i <= HdrMax
        BY <1>1, <2>1, <3>2, <3>4 DEF Least
      <4> QED BY <1>5, <1>9, <2>1, <2>2, <2>6, <2>8, <3>1, <3>4, <4>1
    <3> QED BY <3>3, <3>4
  <2> QED BY <2>7, <2>8
<1> QED BY <1>1, <1>8, <1>9

\* A block, of the units n + 1 to m.
LEMMA EatenGot ==
  ASSUME NEW U, NEW p, NEW s \in Held(p, U), NEW R \in Seq(U), NEW n \in 0 .. Len(R), NEW m \in n .. Len(R),
         Got(s, R, n)
  PROVE  Got(Eaten(p, s, Part(R, n, m)), R, m)
<1> DEFINE units == Part(R, n, m)
           len == m - n
<1>1. Len(R) \in Nat /\ n \in Nat /\ m \in Nat /\ len \in Nat /\ n + len = m /\ n + 0 = n
  BY LenProperties
<1>2. units \in Seq(U) /\ Len(units) = len
  BY <1>1, Parts
<1> HIDE DEF units
<1>3. \A i \in 1 .. len : ChunkFrom(i) \in 0 .. i - 1
  BY <1>2, EatenFollows
<1>4. \E after : EatenBy(U, p, s, units, after)
  BY <1>2, EatenFollows
<1>5. PICK after \in [0 .. len -> Since(p, U, s)] :
        /\ after[0] = s /\ Eaten(p, s, units) = after[len]
        /\ \A i \in 1 .. len :
             after[i] = Consumed(p, after[ChunkFrom(i)], SubSeq(units, ChunkFrom(i) + 1, i))
  BY <1>2, <1>4 DEF EatenBy
<1> HIDE DEF len
<1> DEFINE good == {i \in 0 .. len : Got(after[i], R, n + i)}
<1>6. ASSUME NEW i \in 0 .. len, \A j \in 0 .. i - 1 : j \in good
      PROVE  i \in good
  <2>1. CASE i = 0
    BY <1>1, <1>5, <2>1
  <2>2. CASE i # 0
    <3> DEFINE c == ChunkFrom(i)
    <3>1. i \in 1 .. len /\ c \in 0 .. i - 1 /\ c \in 0 .. len /\ c \in Nat /\ i \in Nat
      BY <1>1, <1>3, <2>2
    <3>2. after[i] = Consumed(p, after[c], Part(units, c, i))
      BY <1>5, <3>1 DEF Part
    <3> HIDE DEF c
    <3>3. Got(after[c], R, n + c)
      BY <1>6, <3>1
    <3>4. after[c] \in Held(p, U)
      BY <1>5, <3>1 DEF Since
    <3>5. Part(units, c, i) = Part(R, n + c, n + i)
      <4>1. i \in c .. m - n
        BY <1>1, <3>1 DEF len
      <4> QED BY <1>1, <3>1, <4>1, PartOfPart DEF units
    <3>6. n + c \in 0 .. Len(R) /\ n + i \in n + c .. Len(R)
      BY <1>1, <3>1
    <3>7. Got(Consumed(p, after[c], Part(R, n + c, n + i)), R, n + i)
      BY <3>3, <3>4, <3>6, ConsumedGot
    <3> QED BY <3>2, <3>5, <3>7
  <2> QED BY <2>1, <2>2
<1>7. \A i \in 0 .. len : i \in good
  <2> HIDE DEF good
  <2> QED BY <1>1, <1>6, Upwards
<1>8. len \in good
  BY <1>1, <1>7
<1> QED BY <1>1, <1>5, <1>8 DEF units

\* A reply R of which p has the beginning and the handle k the rest.
Flows(p, k, s, R) ==
  /\ k.done /\ k.state \in {"data", "closed"} /\ (k.state = "closed" <=> k.rest = <<>>)
  /\ \E n \in 0 .. Len(R) : k.rest = Drop(R, n) /\ Has(p, s, R, n)

LEMMA TakesOn ==
  ASSUME NEW U, NEW k \in Url(U), NEW R \in Seq(U), NEW n \in 0 .. Len(R), k.rest = Drop(R, n),
         k.state = "data", k.done, k.rest # <<>>
  PROVE  \E m \in n .. Len(R) :
           /\ StagedBytes(k, Block) = Part(R, n, m)
           /\ LET t == TakeBlock(k, Block)
              IN  /\ t.rest = Drop(R, m) /\ t.done /\ t.state \in {"data", "closed"}
                  /\ t.state = "closed" <=> t.rest = <<>>
<1> DEFINE j == Least(Block, Len(k.rest))
           t == TakeBlock(k, Block)
           m == n + j
<1>1. Len(R) \in Nat /\ n \in Nat /\ Len(R) \in n .. Len(R)
  BY LenProperties
<1>2. k.rest = Part(R, n, Len(R)) /\ k.rest \in Seq(U) /\ Len(k.rest) = Len(R) - n
  <2>1. k.rest = Part(R, n, Len(R))
    BY DEF Drop, Part
  <2> QED BY <1>1, <2>1, Parts
<1>3. /\ j \in 0 .. Len(k.rest) /\ j > 0 /\ StagedBytes(k, Block) = SubSeq(k.rest, 1, j)
      /\ t.rest = Drop(k.rest, j) /\ t.done = k.done
      /\ t.state = IF j < Len(k.rest) \/ j = 0 THEN k.state ELSE IF k.done THEN "closed" ELSE "working"
  BY UrlTakes
<1> HIDE DEF j, t
<1>4. m \in n .. Len(R) /\ j \in Nat /\ Len(R) - n \in j .. Len(R) - n /\ n + (Len(R) - n) = Len(R)
  BY <1>1, <1>2, <1>3
<1>5. StagedBytes(k, Block) = Part(R, n, m)
  <2>1. SubSeq(k.rest, 1, j) = Part(k.rest, 0, j)
    BY DEF Part
  <2>2. j \in 0 .. Len(R) - n /\ n + 0 = n
    BY <1>1, <1>4
  <2>3. Part(Part(R, n, Len(R)), 0, j) = Part(R, n + 0, n + j)
    BY <1>1, <2>2, PartOfPart
  <2> QED BY <1>2, <1>3, <2>1, <2>2, <2>3
<1>6. t.rest = Part(R, m, Len(R))
  <2>1. Drop(k.rest, j) = Part(k.rest, j, Len(R) - n)
    BY <1>2 DEF Drop, Part
  <2>2. Part(Part(R, n, Len(R)), j, Len(R) - n) = Part(R, n + j, n + (Len(R) - n))
    <3> DEFINE c == Len(R)
    <3>1. c \in n .. Len(R) /\ j \in Nat /\ c - n \in j .. c - n
      BY <1>1, <1>4
    <3> HIDE DEF c
    <3> DEFINE y == c - n
    <3>2. y \in j .. c - n
      BY <3>1
    <3> HIDE DEF y
    <3>3. Part(Part(R, n, c), j, y) = Part(R, n + j, n + y)
      BY <1>1, <3>1, <3>2, PartOfPart
    <3> QED BY <3>3 DEF y, c
  <2> QED BY <1>2, <1>3, <1>4, <2>1, <2>2
<1>7. t.rest \in Seq(U) /\ Len(t.rest) = Len(R) - m
  <2>1. m \in Nat /\ Len(R) \in m .. Len(R)
    BY <1>1, <1>4
  <2> HIDE DEF m
  <2> QED BY <1>6, <2>1, Parts
<1>8. t.rest = <<>> <=> ~(j < Len(k.rest))
  <2>1. t.rest = <<>> <=> Len(t.rest) = 0
    BY <1>7, EmptySeq
  <2> QED BY <1>1, <1>2, <1>3, <1>7, <2>1
<1>9. t.state = IF j < Len(k.rest) THEN "data" ELSE "closed"
  <2>1. j # 0
    BY <1>4, <1>3
  <2> QED BY <1>3, <2>1
<1>10. t.rest = Drop(R, m)
  BY <1>6 DEF Drop, Part
<1> HIDE DEF m
<1> QED BY <1>3, <1>4, <1>5, <1>8, <1>9, <1>10 DEF t

LEMMA BlockFlows ==
  ASSUME NEW U, NEW p, p # "dial", NEW s \in Held(p, U), NEW k \in Url(U), NEW R \in Seq(U),
         Flows(p, k, s, R)
  PROVE  LET x == AfterBlock(p, [k |-> k, s |-> s]) IN Flows(p, x.k, x.s, R)
<1>1. AfterBlock(p, [k |-> k, s |-> s]) =
        IF k.state # "data" THEN [k |-> k, s |-> s]
        ELSE [k |-> TakeBlock(k, Block), s |-> Eaten(p, s, StagedBytes(k, Block))]
  BY DEF AfterBlock
<1>2. CASE k.state # "data"
  BY <1>1, <1>2
<1>3. CASE k.state = "data"
  <2>1. PICK n \in 0 .. Len(R) : k.rest = Drop(R, n) /\ Got(s, R, n)
    BY DEF Flows, Has
  <2>2. k.done /\ k.rest # <<>>
    BY <1>3 DEF Flows
  <2>3. PICK m \in n .. Len(R) :
           /\ StagedBytes(k, Block) = Part(R, n, m)
           /\ LET t == TakeBlock(k, Block)
              IN  /\ t.rest = Drop(R, m) /\ t.done /\ t.state \in {"data", "closed"}
                  /\ t.state = "closed" <=> t.rest = <<>>
    BY <1>3, <2>1, <2>2, TakesOn
  <2>4. Got(Eaten(p, s, Part(R, n, m)), R, m)
    BY <2>1, EatenGot
  <2>5. m \in 0 .. Len(R)
    BY LenProperties
  <2> DEFINE t == TakeBlock(k, Block)
             e == Eaten(p, s, StagedBytes(k, Block))
  <2> HIDE DEF t, e
  <2>6. Flows(p, t, e, R)
    BY <2>3, <2>4, <2>5 DEF Flows, Has, t, e
  <2> QED BY <1>1, <1>3, <2>6 DEF t, e
<1> QED BY <1>2, <1>3

\* A message's blocks: the reply goes on, and where there is no data nothing does.
LEMMA PumpedFlows ==
  ASSUME NEW U, NEW p, p # "dial", NEW k \in Url(U), NEW s \in Held(p, U), s = prog[p]
  PROVE  /\ k.state # "data" => Pumped(p, k).k = k /\ Pumped(p, k).s = s
         /\ \A R \in Seq(U) : Flows(p, k, s, R) => Flows(p, Pumped(p, k).k, Pumped(p, k).s, R)
<1> DEFINE V == [k : Url(U), s : Since(p, U, s)]
<1>6. PICK after : PumpedBy(U, p, k, s, after)
  BY PumpedFollows
<1>1. /\ after \in [0 .. PumpBlocks -> V]
      /\ after[0].k = k /\ after[0].s = s /\ Pumped(p, k) = after[PumpBlocks]
      /\ \A n \in 1 .. PumpBlocks : after[n] = AfterBlock(p, after[n - 1])
  BY <1>6 DEF PumpedBy
<1>2. PumpBlocks \in Nat
  BY ReaderBounds
<1>3. \A n \in 0 .. PumpBlocks : n # 0 => n \in 1 .. PumpBlocks /\ n - 1 \in 0 .. PumpBlocks /\ n - 1 \in 0 .. n - 1
  BY <1>2
<1>4. ASSUME k.state # "data"
      PROVE  Pumped(p, k).k = k /\ Pumped(p, k).s = s
  <2> DEFINE good == {n \in 0 .. PumpBlocks : after[n].k = k /\ after[n].s = s}
  <2>1. ASSUME NEW n \in 0 .. PumpBlocks, \A j \in 0 .. n - 1 : j \in good
        PROVE  n \in good
    <3>1. CASE n = 0
      BY <1>1, <3>1
    <3>2. CASE n # 0
      <4>1. after[n] = AfterBlock(p, after[n - 1]) /\ after[n - 1].k = k /\ after[n - 1].s = s
        BY <1>1, <1>3, <2>1, <3>2
      <4>2. after[n] = after[n - 1]
        BY <1>4, <4>1 DEF AfterBlock
      <4> QED BY <4>1, <4>2
    <3> QED BY <3>1, <3>2
  <2>2. \A n \in 0 .. PumpBlocks : n \in good
    <3> HIDE DEF good
    <3> QED BY <1>2, <2>1, Upwards
  <2>3. PumpBlocks \in good
    BY <1>2, <2>2
  <2> QED BY <1>1, <2>3
<1>5. ASSUME NEW R \in Seq(U), Flows(p, k, s, R)
      PROVE  Flows(p, Pumped(p, k).k, Pumped(p, k).s, R)
  <2> DEFINE good == {n \in 0 .. PumpBlocks : Flows(p, after[n].k, after[n].s, R)}
  <2>1. ASSUME NEW n \in 0 .. PumpBlocks, \A j \in 0 .. n - 1 : j \in good
        PROVE  n \in good
    <3>1. CASE n = 0
      BY <1>1, <1>5, <3>1
    <3>2. CASE n # 0
      <4> DEFINE x == after[n - 1]
      <4>1. after[n] = AfterBlock(p, x) /\ Flows(p, x.k, x.s, R) /\ x \in V
        BY <1>1, <1>3, <2>1, <3>2
      <4> HIDE DEF x
      <4>2. x.k \in Url(U) /\ x.s \in Held(p, U) /\ x = [k |-> x.k, s |-> x.s]
        BY <4>1 DEF Since
      <4>3. Flows(p, AfterBlock(p, x).k, AfterBlock(p, x).s, R)
        BY <4>1, <4>2, BlockFlows
      <4> QED BY <4>1, <4>3
    <3> QED BY <3>1, <3>2
  <2>2. \A n \in 0 .. PumpBlocks : n \in good
    <3> HIDE DEF good
    <3> QED BY <1>2, <2>1, Upwards
  <2>3. PumpBlocks \in good
    BY <1>2, <2>2
  <2> QED BY <1>1, <2>3
<1> QED BY <1>4, <1>5

\* With the last unit taken there is nothing left to come.
LEMMA Complete ==
  ASSUME NEW U, NEW p, NEW k \in Url(U), NEW s \in Held(p, U), NEW R \in Seq(U), Flows(p, k, s, R), k.state = "closed", ~s.refused
  PROVE  s.body = IF p = "dial" THEN R ELSE AfterHeader(R)
<1>1. Len(R) \in Nat
  BY LenProperties
<1>2. PICK n \in 0 .. Len(R) : k.rest = Drop(R, n) /\ Has(p, s, R, n)
  BY DEF Flows
<1>3. n = Len(R)
  <2>1. Len(Drop(R, n)) = Len(R) - n
    BY Dropped
  <2>2. Drop(R, n) = <<>>
    BY <1>2 DEF Flows
  <2>3. Len(Drop(R, n)) = 0
    BY <2>2
  <2> QED BY <1>1, <2>1, <2>3
<1>4. CASE p = "dial"
  <2>1. s.body = SubSeq(R, 1, Len(R))
    BY <1>2, <1>3, <1>4 DEF Has, Part
  <2> QED BY <1>4, <2>1, SubSeqFull
<1>5. CASE p # "dial"
  <2>1. AfterHeader(R) = Part(R, HeaderLen(R), Len(R))
    BY Zenon DEF AfterHeader, HeaderLen, Blanks, Drop, Part
  <2>2. Got(s, R, Len(R))
    BY <1>2, <1>3, <1>5 DEF Has
  <2>3. CASE s.inBody
    BY <1>5, <2>1, <2>2, <2>3 DEF Got
  <2>4. CASE ~s.inBody
    <3>1. s.body = <<>> /\ s.hdrN = Len(R) /\ \A i \in 1 .. Len(R) : R[i].tag # "blank"
      BY <2>2, <2>4 DEF Got
    <3>2. HdrMax \in Nat /\ s.hdrN \in 0 .. HdrMax
      BY ReaderBounds, TransferFields DEF Held
    <3>3. \A i \in 1 .. Least(HdrMax, Len(R)) : i \in 1 .. Len(R)
      BY <1>1, <3>2 DEF Least
    <3>4. HeaderLen(R) = HdrMax
      BY <3>1, <3>3, HeaderLenIs
    <3>5. Part(R, HdrMax, Len(R)) = <<>>
      BY <1>1, <3>1, <3>2, PartEmpty
    <3> QED BY <1>5, <2>1, <3>1, <3>4, <3>5
  <2> QED BY <2>3, <2>4
<1> QED BY <1>4, <1>5

\* Requests are numbered: no two programs have the same, and what has not been
\* asked for yet is nobody's.
NumInv ==
  /\ \A f \in fetches : f.req <= asked
  /\ \A p \in Programs : prog[p].req <= asked
  /\ \A f \in fetches, p \in Programs : f.req = prog[p].req => f.handle = HandleOf[p]

\* A program asks; or no request comes, and a program keeps the one it has or
\* is started anew.
Asks(q) == Ask(q) /\ prog' = [prog EXCEPT ![q] = Asking(asked + 1)]
NoneAsked == /\ fetches' \subseteq fetches /\ asked' = asked
             /\ \A p \in Programs : prog'[p].req \in {prog[p].req, 0}

LEMMA NumberedAsks ==
  ASSUME TypeInv, NumInv, NEW q \in Programs, Asks(q)
  PROVE  NumInv'
<1> DEFINE new == [handle |-> HandleOf[q], req |-> asked + 1]
<1>1. asked \in Nat /\ asked' = asked + 1 /\ fetches' = fetches \cup {new} /\ fetches \subseteq [handle : Handles, req : Reqs]
  BY DEF TypeInv, Asks, Ask
<1>2. new.handle = HandleOf[q] /\ new.req = asked + 1
  OBVIOUS
<1> HIDE DEF new
<1>3. prog'[q].req = asked + 1 /\ \A p \in Programs \ {q} : prog'[p].req = prog[p].req
  BY DEF Asks, TypeInv, Asking, Started0
<1>4. \A p \in Programs : prog[p].req \in Nat /\ prog[p].req <= asked
  BY TransferFields, ReaderBounds DEF TypeInv, NumInv
<1>5. \A f \in fetches : f.req \in Nat /\ f.req <= asked
  BY <1>1 DEF NumInv, Reqs
<1>6. \A f \in fetches' : f.req <= asked'
  BY <1>1, <1>2, <1>5
<1>7. \A p \in Programs : prog'[p].req <= asked'
  BY <1>1, <1>3, <1>4
<1>8. ASSUME NEW f \in fetches', NEW p \in Programs, f.req = prog'[p].req
      PROVE  f.handle = HandleOf[p]
  <2>1. CASE f \in fetches /\ p # q
    BY <1>3, <1>8, <2>1 DEF NumInv
  <2>2. CASE f \in fetches /\ p = q
    BY <1>1, <1>3, <1>5, <1>8, <2>2
  <2>3. CASE f = new /\ p # q
    BY <1>1, <1>2, <1>3, <1>4, <1>8, <2>3
  <2>4. CASE f = new /\ p = q
    BY <1>2, <2>4
  <2> QED BY <1>1, <2>1, <2>2, <2>3, <2>4
<1> QED BY <1>6, <1>7, <1>8 DEF NumInv

LEMMA NumberedElse ==
  ASSUME TypeInv, NumInv, NoneAsked
  PROVE  NumInv'
<1>1. \A f \in fetches : f.req \in Nat \ {0}
  BY DEF TypeInv, Reqs
<1>2. asked \in Nat
  BY DEF TypeInv
<1> QED BY <1>1, <1>2 DEF NumInv, NoneAsked

LEMMA AsksOrNot ==
  ASSUME TypeInv, [Next]_vars
  PROVE  (\E q \in Programs : Asks(q)) \/ NoneAsked
<1>1. cast.programs \subseteq Programs /\ prog \in [Programs -> Transfers(GoodUnit)]
      /\ \A p \in Programs : prog[p] \in Held(p, GoodUnit)
  BY PvReaderAssumption DEF TypeInv
<1>2. Started0.req = 0 /\ \A p \in Programs, end \in {"none", "done", "stopped", "failed", "closed", "nothing"} :
                            EndedAs(prog[p], end).req = prog[p].req
  BY <1>1, TransferEnds DEF Started0
<1>3. ASSUME NEW q \in Programs, NEW t, prog' = [prog EXCEPT ![q] = t], t.req \in {prog[q].req, 0}, UNCHANGED wire
      PROVE  NoneAsked
  BY <1>1, <1>3 DEF NoneAsked, wire
<1>4. ASSUME UNCHANGED prog, fetches' \subseteq fetches, asked' = asked
      PROVE  NoneAsked
  BY <1>4 DEF NoneAsked
<1>5. ASSUME NEW p \in Programs, NEW address \in BOOLEAN, Get(p, address)
      PROVE  Asks(p) \/ NoneAsked
  <2>1. CASE address
    BY <1>5, <2>1 DEF Get, Asks
  <2>2. CASE ~address
    <3>1. prog' = [prog EXCEPT ![p] = EndedAs(prog[p], "none")] /\ UNCHANGED wire
      BY <1>1, <1>5, <2>2 DEF Get, EndedAs
    <3> QED BY <1>2, <1>3, <3>1
  <2> QED BY <2>1, <2>2
<1>6. ASSUME NEW p \in Programs, NEW room \in BOOLEAN, Pump(p, room)
      PROVE  NoneAsked
  <2> DEFINE x == Pumped(p, dev[HandleOf[p]])
             end == Ending(p, x.k, x.s)
  <2>1. prog' \in {[prog EXCEPT ![p] = EndedAs(x.s, end)], [prog EXCEPT ![p] = x.s]} /\ UNCHANGED wire
    BY <1>6, Zenon DEF Pump, PumpHandle, EndedAs
  <2>2. x.s \in Held(p, GoodUnit) /\ x.s.req = prog[p].req
    BY PumpKeeps DEF Since
  <2>3. end \in {"none", "done", "stopped", "failed", "closed", "nothing"}
    BY DEF Ending
  <2> HIDE DEF x, end
  <2>4. EndedAs(x.s, end).req = prog[p].req
    BY <2>2, <2>3, TransferEnds
  <2> QED BY <1>3, <2>1, <2>2, <2>4
<1>7. ASSUME NEW p \in Programs, (Stop /\ p = "fetch") \/ Quit(p)
      PROVE  NoneAsked
  <2>1. prog' \in {[prog EXCEPT ![p] = EndedAs(prog[p], "stopped")], [prog EXCEPT ![p] = Started0]} /\ UNCHANGED wire
    BY <1>1, <1>7 DEF Stop, Quit, EndedAs
  <2> QED BY <1>2, <1>3, <2>1
<1>8. ASSUME "dial" \in Programs, Dial \/ DialTick \/ DialClose
      PROVE  Asks("dial") \/ NoneAsked
  <2> DEFINE s == prog["dial"]
             body == s.body \o StagedBytes(dev[HandleOf["dial"]], Block)
             t == [s EXCEPT !.body = body]
  <2>1. CASE Dial
    BY <2>1 DEF Dial, Asks
  <2>2. CASE DialTick \/ DialClose
    <3>1. /\ UNCHANGED wire
          /\ \/ prog' = prog \/ prog' = [prog EXCEPT !["dial"] = t]
             \/ \E end \in {"stopped", "failed", "done"} : prog' = [prog EXCEPT !["dial"] = EndedAs(s, end)]
      BY <1>1, <1>8, <2>2 DEF DialTick, DialClose, EndedAs
    <3>2. t.req = s.req
      <4> HIDE DEF body
      <4> QED BY <1>1, <1>8 DEF Transfers
    <3> HIDE DEF t
    <3>3. CASE prog' = prog
      BY <1>4, <3>1, <3>3 DEF wire
    <3>4. CASE prog' # prog
      BY <1>2, <1>3, <1>8, <3>1, <3>2, <3>4
    <3> QED BY <3>3, <3>4
  <2> QED BY <1>8, <2>1, <2>2
<1>9. ASSUME ViewMoves \/ FrameTick \/ Elapse \/ HostAnswers \/ UNCHANGED vars
      PROVE  NoneAsked
  <2>1. UNCHANGED prog /\ fetches' \subseteq fetches /\ asked' = asked
    BY <1>9 DEF ViewMoves, Scroll, Size, FrameTick, Elapse, HostAnswers, Answer, AnswerError, vars, wire
  <2> QED BY <1>4, <2>1
<1>10. Stop => "fetch" \in Programs
  BY DEF Stop
<1>11. Dial \/ DialTick \/ DialClose => "dial" \in Programs
  BY DEF Dial, DialTick, DialClose
<1> QED BY <1>1, <1>5, <1>6, <1>7, <1>8, <1>9, <1>10, <1>11, Zenon DEF Next, PumpAny

\* What has been answered to each request.
IsReply(r, x) == x = NoReply \/ \E d, hdr : AReply(r, d, hdr) /\ x = Replied(r, d, hdr)
ReplyInv == /\ DOMAIN replies = Reqs /\ replies = [r \in Reqs |-> replies[r]]
            /\ \A r \in Reqs : IsReply(r, replies[r])

LEMMA Answers ==
  ASSUME TypeInv, ReplyInv, NEW f \in fetches, NEW d \in cast.docs, NEW hdr \in cast.hdrs, Answer(f, d, hdr)
  PROVE  /\ AReply(f.req, d, hdr) /\ replies' = [replies EXCEPT ![f.req] = Replied(f.req, d, hdr)]
         /\ replies'[f.req].units = Reply(f.req, d, hdr) /\ ReplyInv'
<1>1. f.req \in Reqs /\ AReply(f.req, d, hdr)
  <2>1. f.req \in Reqs
    BY DEF TypeInv
  <2> QED BY <2>1, CastReplies DEF TypeInv
<1> DEFINE x == Replied(f.req, d, hdr)
<1>2. x.units = Reply(f.req, d, hdr) /\ IsReply(f.req, x)
  BY <1>1 DEF IsReply, Replied
<1>3. replies' = [replies EXCEPT ![f.req] = x]
  BY DEF Answer
<1> HIDE DEF x
<1>4. replies' = [r \in Reqs |-> IF r = f.req THEN x ELSE replies[r]]
  BY <1>1, <1>3 DEF ReplyInv
<1> QED BY <1>1, <1>2, <1>3, <1>4 DEF ReplyInv, x

LEMMA RepliesNext == TypeInv /\ ReplyInv /\ [Next]_vars => ReplyInv'
<1> SUFFICES ASSUME TypeInv, ReplyInv, [Next]_vars PROVE ReplyInv'
  OBVIOUS
<1>1. (\E f \in fetches, d \in cast.docs, hdr \in cast.hdrs : Answer(f, d, hdr)) \/ UNCHANGED replies
  BY DEF Next, Get, Ask, PumpAny, Pump, Quit, Stop, Dial, DialTick, DialClose, ViewMoves, Scroll, Size, FrameTick, Elapse,
         HostAnswers, AnswerError, vars, wire
<1>2. CASE \E f \in fetches, d \in cast.docs, hdr \in cast.hdrs : Answer(f, d, hdr)
  BY <1>2, Answers
<1>3. CASE UNCHANGED replies
  BY <1>3 DEF ReplyInv
<1> QED BY <1>1, <1>2, <1>3

\* What a reader, or the Winsock program, that is not cut off is at: it waits for
\* its answer; or the answer was an error; or it has the first part of it and its
\* handle the rest; or it is done and has all there was to have.
Waits(p) ==
  /\ prog[p] = Asking(prog[p].req)
  /\ dev[HandleOf[p]].state = "working" /\ dev[HandleOf[p]].rest = <<>>
  /\ \E f \in fetches : f.req = prog[p].req
NonePending(p) == prog[p].req \in Reqs /\ \A f \in fetches : f.req # prog[p].req
Reads(p) ==
  /\ NonePending(p) /\ prog[p].end = "none"
  /\ \/ dev[HandleOf[p]].state = "error"
     \/ Flows(p, dev[HandleOf[p]], prog[p], replies[prog[p].req].units)
IsWhole(p) == NonePending(p) /\ (~prog[p].refused => WholeBody(p))
WholeAt(p) ==
  /\ prog[p].open => Waits(p) \/ Reads(p)
  /\ ~prog[p].open /\ prog[p].end = "done" => IsWhole(p)
WholeInv == \A p \in Programs \ (late \cup cut) : WholeAt(p)

LEMMA WholeUntouched ==
  ASSUME NEW p \in Programs, WholeAt(p), prog'[p] = prog[p],
         prog[p].open => dev'[HandleOf[p]] = dev[HandleOf[p]],
         \A f : f.req = prog[p].req => (f \in fetches' <=> f \in fetches),
         replies'[prog[p].req] = replies[prog[p].req]
  PROVE  WholeAt(p)'
<1>1. NonePending(p) => NonePending(p)'
  BY DEF NonePending
<1>2. prog[p].open /\ Waits(p) => Waits(p)'
  BY DEF Waits
<1>3. prog[p].open /\ Reads(p) => Reads(p)'
  BY <1>1 DEF Reads
<1>4. IsWhole(p) => IsWhole(p)'
  BY <1>1 DEF IsWhole, WholeBody
<1> QED BY <1>2, <1>3, <1>4 DEF WholeAt

LEMMA WholeBegins ==
  ASSUME NEW p \in Programs, NEW k \in Url(GoodUnit), prog'[p] = Asking(asked + 1),
         dev'[HandleOf[p]] = OpenCmd(SetTarget(k, "url")),
         [handle |-> HandleOf[p], req |-> asked + 1] \in fetches'
  PROVE  WholeAt(p)'
<1>1. prog'[p].open /\ prog'[p].req = asked + 1
  BY DEF Asking, Started0
<1>2. dev'[HandleOf[p]].state = "working" /\ dev'[HandleOf[p]].rest = <<>>
  BY UrlBlank
<1>3. Waits(p)'
  BY <1>1, <1>2 DEF Waits
<1> QED BY <1>1, <1>3 DEF WholeAt

LEMMA WholeEnds ==
  ASSUME NEW p \in Programs, ~prog'[p].open, prog'[p].end # "done"
  PROVE  WholeAt(p)'
BY DEF WholeAt

\* A close hits the own handle, or cuts off the program whose handle it is.
LEMMA DropLeaves ==
  ASSUME TypeInv, NEW q \in Programs, NEW p \in Programs, p # q, p \notin DropCut(q)
  PROVE  p \notin cut /\ (prog[p].open => DropDev(q)[HandleOf[p]] = dev[HandleOf[p]])
<1>1. HandleOf[p] \in Handles /\ dev \in [Handles -> Url(GoodUnit)]
  BY DEF Handles, TypeInv
<1> QED BY <1>1 DEF DropCut, DropDev, ClosedHandle

\* One that asks does not touch the others' requests.
LEMMA AskLeaves ==
  ASSUME TypeInv, NumInv, NEW q \in Programs, Asks(q), NEW p \in Programs, p # q, p \notin late'
  PROVE  /\ p \notin late /\ prog'[p] = prog[p] /\ replies' = replies
         /\ \A f : f.req = prog[p].req => (f \in fetches' <=> f \in fetches)
<1> DEFINE new == [handle |-> HandleOf[q], req |-> asked + 1]
<1>1. fetches' = fetches \cup {new} /\ replies' = replies
  BY DEF Asks, Ask
<1>2. prog'[p] = prog[p]
  BY DEF Asks, TypeInv
<1>3. p \notin late
  BY AskOwn DEF Asks
<1>4. new.req # prog[p].req
  <2>1. prog[p].req \in Nat /\ prog[p].req <= asked /\ asked \in Nat
    BY TransferFields, ReaderBounds DEF TypeInv, NumInv
  <2> QED BY <2>1
<1> HIDE DEF new
<1> QED BY <1>1, <1>2, <1>3, <1>4

LEMMA GetWhole ==
  ASSUME TypeInv, NumInv, WholeInv, NEW q \in Programs, NEW address \in BOOLEAN, Get(q, address)
  PROVE  WholeInv'
<1> SUFFICES ASSUME NEW p \in Programs, p \notin late' \cup cut' PROVE WholeAt(p)'
  BY DEF WholeInv
<1>1. /\ prog \in [Programs -> Transfers(GoodUnit)] /\ HandleOf[p] \in Handles /\ HandleOf[q] \in Handles
      /\ DropDev(q) \in [Handles -> Url(GoodUnit)] /\ prog[q] \in Held(q, GoodUnit)
  BY DeviceKeeps DEF TypeInv
<1>2. CASE address
  <2>1. Asks(q) /\ dev' = Opened(DropDev(q), HandleOf[q]) /\ cut' = DropCut(q) \ {q}
    BY <1>2 DEF Get, Asks
  <2>2. CASE p # q
    <3>1. p \notin late /\ prog'[p] = prog[p] /\ replies' = replies
          /\ \A f : f.req = prog[p].req => (f \in fetches' <=> f \in fetches)
      BY <2>1, <2>2, AskLeaves
    <3>2. p \notin cut /\ (prog[p].open => DropDev(q)[HandleOf[p]] = dev[HandleOf[p]])
      BY <2>1, <2>2, DropLeaves
    <3>3. dev'[HandleOf[p]] = DropDev(q)[HandleOf[p]]
      BY <1>1, <2>1, <2>2, DistinctHandles, DeviceOf
    <3>4. WholeAt(p)
      BY <3>1, <3>2 DEF WholeInv
    <3> QED BY <3>1, <3>2, <3>3, <3>4, WholeUntouched
  <2>3. CASE p = q
    <3>1. [handle |-> HandleOf[p], req |-> asked + 1] \in fetches' /\ prog'[p] = Asking(asked + 1)
      BY <1>1, <2>1, <2>3 DEF Asks, Ask
    <3>2. dev'[HandleOf[p]] = OpenCmd(SetTarget(DropDev(q)[HandleOf[p]], "url"))
      BY <1>1, <2>1, <2>3, DeviceOf
    <3>3. DropDev(q)[HandleOf[p]] \in Url(GoodUnit)
      BY <1>1
    <3> QED BY <3>1, <3>2, <3>3, WholeBegins
  <2> QED BY <2>2, <2>3
<1>3. CASE ~address
  <2>1. dev' = DropDev(q) /\ prog' = [prog EXCEPT ![q] = EndedAs(prog[q], "none")] /\ cut' = DropCut(q)
        /\ UNCHANGED wire
    BY <1>1, <1>3 DEF Get, EndedAs
  <2>2. CASE p # q
    <3>1. p \notin cut /\ (prog[p].open => dev'[HandleOf[p]] = dev[HandleOf[p]])
      BY <2>1, <2>2, DropLeaves
    <3>2. prog'[p] = prog[p] /\ fetches' = fetches /\ replies' = replies /\ late' = late
      BY <1>1, <2>1, <2>2 DEF wire
    <3> QED BY <3>1, <3>2, WholeUntouched DEF WholeInv
  <2>3. CASE p = q
    <3>1. prog'[p] = EndedAs(prog[q], "none")
      BY <1>1, <2>1, <2>3
    <3>2. ~prog'[p].open /\ prog'[p].end = "none"
      BY <1>1, <3>1, TransferEnds
    <3> QED BY <3>2, WholeEnds
  <2> QED BY <2>2, <2>3
<1> QED BY <1>2, <1>3

LEMMA StopQuitWhole ==
  ASSUME TypeInv, WholeInv, NEW q \in Programs, (Stop /\ q = "fetch") \/ Quit(q)
  PROVE  WholeInv'
<1> SUFFICES ASSUME NEW p \in Programs, p \notin late' \cup cut' PROVE WholeAt(p)'
  BY DEF WholeInv
<1> DEFINE t == EndedAs(prog[q], "stopped")
<1>1. prog \in [Programs -> Transfers(GoodUnit)] /\ prog[q] \in Held(q, GoodUnit)
  BY DEF TypeInv
<1>2. /\ dev' = DropDev(q) /\ cut' = DropCut(q) /\ UNCHANGED wire
      /\ prog' \in {[prog EXCEPT ![q] = t], [prog EXCEPT ![q] = Started0]}
  BY <1>1 DEF Stop, Quit, EndedAs
<1>3. CASE p # q
  <2>1. p \notin cut /\ (prog[p].open => dev'[HandleOf[p]] = dev[HandleOf[p]])
    BY <1>2, <1>3, DropLeaves
  <2>2. prog'[p] = prog[p] /\ fetches' = fetches /\ replies' = replies /\ late' = late
    <3> HIDE DEF t
    <3> QED BY <1>1, <1>2, <1>3 DEF wire
  <2> QED BY <2>1, <2>2, WholeUntouched DEF WholeInv
<1>4. CASE p = q
  <2>1. ~t.open /\ t.end = "stopped" /\ ~Started0.open /\ Started0.end = "none"
    BY <1>1, TransferEnds DEF Started0
  <2> HIDE DEF t
  <2>2. prog'[p] \in {t, Started0}
    BY <1>1, <1>2, <1>4
  <2> QED BY <2>1, <2>2, WholeEnds
<1> QED BY <1>3, <1>4

\* The units of what was answered.
LEMMA RepliedUnits ==
  ASSUME ReplyInv, NEW r \in Reqs
  PROVE  replies[r].units \in Seq(GoodUnit)
<1>1. CASE replies[r] = NoReply
  <2>1. <<>> \in Seq(GoodUnit)
    OBVIOUS
  <2> QED BY <1>1, <2>1 DEF NoReply
<1>2. CASE replies[r] # NoReply
  <2>1. PICK d, hdr : AReply(r, d, hdr) /\ replies[r] = Replied(r, d, hdr)
    BY <1>2 DEF ReplyInv, IsReply
  <2>2. replies[r].units = Reply(r, d, hdr)
    BY <2>1 DEF Replied
  <2>3. Reply(r, d, hdr) \in Seq(OwnUnits(r))
    BY <2>1, ReplyUnits
  <2>4. OwnUnits(r) \subseteq GoodUnit
    BY DEF OwnUnits
  <2> QED BY <2>2, <2>3, <2>4, SeqWider
<1> QED BY <1>1, <1>2

LEMMA PumpWhole ==
  ASSUME TypeInv, ReplyInv, WholeInv, NEW q \in Programs, NEW room \in BOOLEAN, Pump(q, room)
  PROVE  WholeInv'
<1> SUFFICES ASSUME NEW p \in Programs, p \notin late' \cup cut' PROVE WholeAt(p)'
  BY DEF WholeInv
<1> DEFINE h == HandleOf[q]
           x == Pumped(q, dev[h])
           end == Ending(q, x.k, x.s)
           t == EndedAs(x.s, end)
           R == replies[prog[q].req].units
<1>1. /\ UNCHANGED <<fetches, replies, late, cut>> /\ prog[q].open /\ h \in Handles /\ HandleOf[p] \in Handles
      /\ q # "dial"
  BY DeviceKeeps DEF Pump, wire, Readers
<1>2. \/ Over(x.k) /\ dev' = [dev EXCEPT ![h] = Blank] /\ prog' = [prog EXCEPT ![q] = t]
      \/ ~Over(x.k) /\ dev' = [dev EXCEPT ![h] = x.k] /\ prog' = [prog EXCEPT ![q] = x.s]
  BY Zenon DEF Pump, PumpHandle, CloseCmd, EndedAs
<1>3. prog \in [Programs -> Transfers(GoodUnit)] /\ dev \in [Handles -> Url(GoodUnit)] /\ prog[q] \in Held(q, GoodUnit)
  BY DEF TypeInv
<1>4. WholeAt(p)
  BY <1>1 DEF WholeInv
<1>5. CASE p # q
  <2>1. prog'[p] = prog[p] /\ dev'[HandleOf[p]] = dev[HandleOf[p]]
    <3> HIDE DEF x, t
    <3> QED BY <1>1, <1>2, <1>3, <1>5, DistinctHandles
  <2> QED BY <1>1, <1>4, <2>1, WholeUntouched
<1>6. CASE p = q
  <2>1. /\ x.k \in Url(GoodUnit) /\ x.s \in Held(q, GoodUnit) /\ x.s.req = prog[q].req /\ x.s.open
        /\ x.s.end = prog[q].end
    BY <1>1, PumpKeeps DEF Since
  <2>2. dev[h] \in Url(GoodUnit)
    BY <1>1, <1>3
  <2>3. dev[h].state # "data" => x.k = dev[h] /\ x.s = prog[q]
    BY <1>1, <1>3, <2>2, PumpedFlows
  <2>4. \A S \in Seq(GoodUnit) : Flows(q, dev[h], prog[q], S) => Flows(q, x.k, x.s, S)
    BY <1>1, <1>3, <2>2, PumpedFlows
  <2>5. end \in {"none", "done", "stopped", "failed", "closed", "nothing"} /\ (x.k.state = "error" => end = "failed")
    BY DEF Ending
  <2> HIDE DEF x, end
  <2>6. t \in Held(q, GoodUnit) /\ ~t.open /\ t.end = end /\ t.body = x.s.body /\ t.req = x.s.req /\ t.refused = x.s.refused
    BY <2>1, <2>5, TransferEnds
  <2> HIDE DEF t
  <2>7. /\ Over(x.k) => prog'[q] = t
        /\ ~Over(x.k) => prog'[q] = x.s /\ dev'[h] = x.k
    BY <1>1, <1>2, <1>3
  <2>8. CASE Waits(q)
    <3>1. x.k = dev[h] /\ x.s = prog[q] /\ ~Over(x.k)
      BY <2>3, <2>8 DEF Waits, Over
    <3> QED BY <1>1, <1>4, <1>6, <2>7, <3>1, WholeUntouched
  <2>9. CASE Reads(q) /\ dev[h].state = "error"
    <3>1. x.k = dev[h] /\ Over(x.k) /\ end = "failed"
      BY <2>3, <2>5, <2>9 DEF Over
    <3> QED BY <1>6, <2>6, <2>7, <3>1, WholeEnds
  <2>10. CASE Reads(q) /\ Flows(q, dev[h], prog[q], R)
    <3>1. NonePending(q) /\ R \in Seq(GoodUnit)
      BY <2>10, RepliedUnits DEF Reads, NonePending
    <3>2. Flows(q, x.k, x.s, R)
      BY <2>4, <2>10, <3>1
    <3>3. CASE ~Over(x.k)
      <4>1. prog'[p].req = prog[q].req /\ prog'[p].open /\ NonePending(p)' /\ prog'[p].end = "none"
        BY <1>1, <1>6, <2>1, <2>7, <2>10, <3>1, <3>3 DEF NonePending, Reads
      <4>2. Flows(p, dev'[HandleOf[p]], prog'[p], replies'[prog'[p].req].units)
        BY <1>1, <1>6, <2>7, <3>2, <3>3, <4>1
      <4> QED BY <4>1, <4>2 DEF WholeAt, Reads
    <3>4. CASE Over(x.k)
      <4>1. x.k.state = "closed"
        BY <3>2, <3>4 DEF Over, Flows
      <4>2. ~x.s.refused => x.s.body = AfterHeader(R)
        BY <1>1, <2>1, <3>1, <3>2, <4>1, Complete
      <4>3. ~prog'[p].open /\ prog'[p].req = prog[q].req /\ prog'[p].body = x.s.body /\ prog'[p].refused = x.s.refused
        BY <1>6, <2>1, <2>6, <2>7, <3>4
      <4>4. NonePending(p)' /\ replies'[prog'[p].req].units = R
        BY <1>1, <3>1, <4>3 DEF NonePending
      <4> HIDE DEF R
      <4>5. IsWhole(p)'
        BY <1>1, <1>6, <4>2, <4>3, <4>4 DEF IsWhole, WholeBody
      <4> QED BY <4>3, <4>5 DEF WholeAt
    <3> QED BY <3>3, <3>4
  <2>11. Waits(q) \/ Reads(q)
    BY <1>1, <1>4, <1>6 DEF WholeAt
  <2> QED BY <2>8, <2>9, <2>10, <2>11 DEF Reads
<1> QED BY <1>5, <1>6

LEMMA DialWhole ==
  ASSUME TypeInv, NumInv, ReplyInv, WholeInv, "dial" \in Programs, Dial \/ DialTick \/ DialClose
  PROVE  WholeInv'
<1> SUFFICES ASSUME NEW p \in Programs, p \notin late' \cup cut' PROVE WholeAt(p)'
  BY DEF WholeInv
<1> DEFINE h == HandleOf["dial"]
           s == prog["dial"]
           k == dev[h]
           bytes == StagedBytes(k, Block)
           R == replies[s.req].units
<1>1. /\ prog \in [Programs -> Transfers(GoodUnit)] /\ dev \in [Handles -> Url(GoodUnit)]
      /\ HandleOf[p] \in Handles /\ h \in Handles /\ s \in Held("dial", GoodUnit) /\ k \in Url(GoodUnit)
  BY DEF TypeInv, Handles
<1>2. ASSUME Dial PROVE WholeAt(p)'
  <2>1. Asks("dial") /\ dev' = Opened(dev, h) /\ cut' = cut \ {"dial"}
    BY <1>2 DEF Dial, Asks
  <2>2. CASE p # "dial"
    <3>1. p \notin late /\ p \notin cut /\ prog'[p] = prog[p] /\ replies' = replies
          /\ \A f : f.req = prog[p].req => (f \in fetches' <=> f \in fetches)
      BY <2>1, <2>2, AskLeaves
    <3>2. dev'[HandleOf[p]] = dev[HandleOf[p]]
      BY <1>1, <2>1, <2>2, DistinctHandles, DeviceOf
    <3> QED BY <3>1, <3>2, WholeUntouched DEF WholeInv
  <2>3. CASE p = "dial"
    <3>1. [handle |-> HandleOf[p], req |-> asked + 1] \in fetches' /\ prog'[p] = Asking(asked + 1)
      BY <1>1, <2>1, <2>3 DEF Asks, Ask
    <3>2. dev'[HandleOf[p]] = OpenCmd(SetTarget(k, "url"))
      BY <1>1, <2>1, <2>3, DeviceOf
    <3> HIDE DEF k
    <3> QED BY <1>1, <3>1, <3>2, WholeBegins
  <2> QED BY <2>2, <2>3
<1>3. ASSUME DialTick \/ DialClose PROVE WholeAt(p)'
  <2>1. UNCHANGED <<fetches, replies, late, cut>> /\ s.open
    BY <1>3 DEF DialTick, DialClose, wire
  <2>2. WholeAt(p)
    BY <2>1 DEF WholeInv
  <2> DEFINE Ended(end) == /\ dev' = [dev EXCEPT ![h] = Blank]
                           /\ prog' = [prog EXCEPT !["dial"] = EndedAs(s, end)]
  <2>3. \/ Ended("stopped") \/ Ended("failed") \/ (Ended("done") /\ k.state = "closed")
        \/ (dev' = dev /\ prog' = prog)
        \/ /\ dev' = [dev EXCEPT ![h] = TakeBlock(k, Block)] /\ k.state = "data"
           /\ prog' = [prog EXCEPT !["dial"] = [s EXCEPT !.body = s.body \o bytes]]
    BY <1>1, <1>3 DEF DialTick, DialClose, CloseCmd, EndedAs
  <2>4. CASE p # "dial"
    <3>1. prog'[p] = prog[p] /\ dev'[HandleOf[p]] = dev[HandleOf[p]]
      <4> HIDE DEF bytes
      <4> QED BY <1>1, <2>3, <2>4, DistinctHandles
    <3> QED BY <2>1, <2>2, <3>1, WholeUntouched
  <2>5. CASE p = "dial"
    <3>1. CASE Ended("stopped") \/ Ended("failed")
      <4>1. PICK end \in {"stopped", "failed"} : Ended(end)
        BY <3>1
      <4>2. prog'[p] = EndedAs(s, end)
        BY <1>1, <2>5, <4>1
      <4>3. ~prog'[p].open /\ prog'[p].end = end
        BY <1>1, <4>2, TransferEnds
      <4> QED BY <4>3, WholeEnds
    <3>2. CASE Ended("done") /\ k.state = "closed"
      <4>1. prog'[p] = EndedAs(s, "done")
        BY <1>1, <2>5, <3>2
      <4>2. ~prog'[p].open /\ prog'[p].body = s.body /\ prog'[p].req = s.req /\ prog'[p].refused = s.refused
        BY <1>1, <4>1, TransferEnds
      <4>3. NonePending(p) /\ Flows(p, k, s, R)
        BY <2>1, <2>2, <2>5, <3>2 DEF WholeAt, Waits, Reads
      <4>4. R \in Seq(GoodUnit)
        BY <2>5, <4>3, RepliedUnits DEF NonePending
      <4>5. ~s.refused => s.body = R
        BY <1>1, <2>5, <3>2, <4>3, <4>4, Complete
      <4>6. NonePending(p)' /\ replies'[prog'[p].req].units = R
        BY <2>1, <2>5, <4>2, <4>3 DEF NonePending
      <4> HIDE DEF R
      <4>7. IsWhole(p)'
        BY <2>5, <4>2, <4>5, <4>6 DEF IsWhole, WholeBody
      <4> QED BY <4>2, <4>7 DEF WholeAt
    <3>3. CASE dev' = dev /\ prog' = prog
      BY <2>1, <2>2, <3>3, WholeUntouched
    <3>4. CASE /\ dev' = [dev EXCEPT ![h] = TakeBlock(k, Block)] /\ k.state = "data"
               /\ prog' = [prog EXCEPT !["dial"] = [s EXCEPT !.body = s.body \o bytes]]
      <4>1. NonePending(p) /\ Flows(p, k, s, R) /\ (s.end = "none")
        BY <2>1, <2>2, <2>5, <3>4 DEF WholeAt, Waits, Reads
      <4>2. R \in Seq(GoodUnit)
        BY <2>5, <4>1, RepliedUnits DEF NonePending
      <4>3. PICK n \in 0 .. Len(R) : k.rest = Drop(R, n) /\ s.body = Part(R, 0, n)
        BY <2>5, <4>1 DEF Flows, Has
      <4>4. k.done /\ k.rest # <<>>
        BY <3>4, <4>1 DEF Flows
      <4>5. PICK m \in n .. Len(R) :
              /\ bytes = Part(R, n, m)
              /\ LET t == TakeBlock(k, Block)
                 IN  /\ t.rest = Drop(R, m) /\ t.done /\ t.state \in {"data", "closed"}
                     /\ t.state = "closed" <=> t.rest = <<>>
        <5> HIDE DEF k, R
        <5> QED BY <1>1, <3>4, <4>2, <4>3, <4>4, TakesOn DEF bytes
      <4> DEFINE body == s.body \o bytes
      <4>6. body = Part(R, 0, m) /\ m \in 0 .. Len(R)
        <5>1. Len(R) \in Nat /\ 0 \in Nat /\ n \in 0 .. Len(R) /\ m \in n .. Len(R)
          BY <4>2, LenProperties
        <5> HIDE DEF R
        <5>2. Part(R, 0, n) \o Part(R, n, m) = Part(R, 0, m)
          BY <4>2, <5>1, PartsJoin
        <5> QED BY <4>3, <4>5, <5>1, <5>2
      <4> HIDE DEF body
      <4>7. prog'[p] = [s EXCEPT !.body = body] /\ dev'[HandleOf[p]] = TakeBlock(k, Block)
        BY <1>1, <2>5, <3>4 DEF body
      <4>8. prog'[p].body = body /\ prog'[p].req = s.req /\ prog'[p].open /\ prog'[p].end = "none"
        BY <1>1, <2>1, <4>1, <4>7 DEF Held, Transfers
      <4>9. NonePending(p)' /\ replies'[prog'[p].req].units = R
        BY <2>1, <2>5, <4>1, <4>8 DEF NonePending
      <4> HIDE DEF R
      <4>10. Flows(p, dev'[HandleOf[p]], prog'[p], R)
        BY <2>5, <4>5, <4>6, <4>7, <4>8 DEF Flows, Has
      <4> QED BY <4>8, <4>9, <4>10 DEF WholeAt, Reads
    <3> QED BY <2>3, <3>1, <3>2, <3>3, <3>4
  <2> QED BY <2>4, <2>5
<1> QED BY <1>2, <1>3

LEMMA FirstArrives ==
  ASSUME NEW U, NEW k \in Url(U), NEW R \in Seq(U), R # <<>>, k.rest = <<>>, k.state # "idle"
  PROVE  LET a == Arrive(k, R, TRUE) IN a.rest = R /\ a.state = "data" /\ a.done
<1> DEFINE a == Arrive(k, R, TRUE)
<1>1. a.rest = k.rest \o R /\ a.state = "data" /\ a.done = TRUE
  BY UrlArrives
<1> HIDE DEF a
<1>2. <<>> \o R = R
  BY ConcatEmptySeq
<1> QED BY <1>1, <1>2 DEF a

LEMMA HostWhole ==
  ASSUME TypeInv, NumInv, ReplyInv, OwnInv, WholeInv, NEW f \in fetches,
         AnswerError(f) \/ \E d \in cast.docs, hdr \in cast.hdrs : Answer(f, d, hdr)
  PROVE  WholeInv'
<1> SUFFICES ASSUME NEW p \in Programs, p \notin late' \cup cut' PROVE WholeAt(p)'
  BY DEF WholeInv
<1> DEFINE k == dev[HandleOf[p]]
<1>1. /\ f.handle \in Handles /\ f.req \in Reqs /\ dev \in [Handles -> Url(GoodUnit)] /\ HandleOf[p] \in Handles
      /\ fetches \subseteq [handle : Handles, req : Reqs] /\ k \in Url(GoodUnit)
  BY DEF TypeInv, Handles
<1>2. fetches' = fetches \ {f} /\ prog' = prog /\ late' = late /\ cut' = cut
  BY DEF AnswerError, Answer
<1>3. WholeAt(p) /\ Own(p)
  BY <1>2 DEF WholeInv, OwnInv
<1>4. /\ f.handle # HandleOf[p] => dev'[HandleOf[p]] = k
      /\ f.req # prog[p].req => replies'[prog[p].req] = replies[prog[p].req]
  <2>1. CASE AnswerError(f)
    BY <1>1, <2>1 DEF AnswerError
  <2>2. CASE \E d \in cast.docs, hdr \in cast.hdrs : Answer(f, d, hdr)
    <3>1. PICK d \in cast.docs, hdr \in cast.hdrs : Answer(f, d, hdr)
      BY <2>2
    <3> DEFINE x == Replied(f.req, d, hdr)
               a == Arrive(dev[f.handle], Reply(f.req, d, hdr), TRUE)
    <3>2. dev' = [dev EXCEPT ![f.handle] = a] /\ replies' = [replies EXCEPT ![f.req] = x]
      BY <3>1 DEF Answer
    <3> HIDE DEF x, a
    <3>3. f.handle # HandleOf[p] => dev'[HandleOf[p]] = k
      BY <1>1, <3>2
    <3>4. f.req # prog[p].req => replies'[prog[p].req] = replies[prog[p].req]
      BY <1>1, <3>2 DEF ReplyInv
    <3> QED BY <3>3, <3>4
  <2> QED BY <2>1, <2>2
<1>5. CASE f.req # prog[p].req
  <2>1. prog[p].open => f.handle # HandleOf[p]
    BY <1>3, <1>5 DEF Own
  <2>2. \A g : g.req = prog[p].req => (g \in fetches' <=> g \in fetches)
    BY <1>2, <1>5
  <2> QED BY <1>2, <1>3, <1>4, <2>1, <2>2, WholeUntouched
<1>6. CASE f.req = prog[p].req
  <2>1. f.handle = HandleOf[p] /\ prog[p].req \in Reqs
    BY <1>1, <1>6 DEF NumInv
  <2>2. NonePending(p)'
    <3>1. \A g \in fetches : g.req = prog[p].req => g = f
      BY <1>1, <1>6, <2>1 DEF NumInv
    <3> QED BY <1>2, <2>1, <3>1 DEF NonePending
  <2>3. ~NonePending(p)
    BY <1>6 DEF NonePending
  <2>4. CASE ~prog[p].open
    BY <1>2, <1>3, <2>3, <2>4 DEF WholeAt, IsWhole
  <2>5. CASE prog[p].open
    <3>1. Waits(p) /\ prog[p].end = "none"
      BY <1>3, <2>3, <2>5 DEF WholeAt, Reads, Waits, Asking, Started0
    <3>2. CASE AnswerError(f)
      <4>1. dev'[HandleOf[p]] = Fail(k)
        BY <1>1, <2>1, <3>2 DEF AnswerError
      <4>2. k.state # "idle"
        BY <3>1 DEF Waits
      <4>3. Fail(k).state = "error"
        <5> HIDE DEF k
        <5> QED BY <1>1, <4>2 DEF Fail, Url, Handle
      <4> QED BY <1>2, <2>2, <2>5, <3>1, <4>1, <4>3 DEF WholeAt, Reads
    <3>3. CASE \E d \in cast.docs, hdr \in cast.hdrs : Answer(f, d, hdr)
      <4>1. PICK d \in cast.docs, hdr \in cast.hdrs : Answer(f, d, hdr)
        BY <3>3
      <4> DEFINE R == Reply(f.req, d, hdr)
      <4>2. replies'[f.req].units = R /\ R \in Seq(GoodUnit) /\ R # <<>>
        <5>1. AReply(f.req, d, hdr) /\ replies'[f.req].units = R
          BY <4>1, Answers
        <5>2. R \in Seq(OwnUnits(f.req)) /\ R # <<>>
          BY <5>1, ReplyUnits
        <5>3. OwnUnits(f.req) \subseteq GoodUnit
          BY DEF OwnUnits
        <5> HIDE DEF R
        <5> QED BY <5>1, <5>2, <5>3, SeqWider
      <4>3. dev'[HandleOf[p]] = Arrive(k, R, TRUE)
        BY <1>1, <2>1, <4>1 DEF Answer
      <4> HIDE DEF R
      <4>4. LET a == Arrive(k, R, TRUE)
            IN  a.rest = R /\ a.state = "data" /\ a.done
        <5>1. k.rest = <<>> /\ k.state # "idle"
          BY <3>1 DEF Waits
        <5> HIDE DEF k
        <5>2. k \in Url(GoodUnit) /\ R \in Seq(GoodUnit) /\ R # <<>>
          BY <1>1, <4>2
        <5> QED BY <5>1, <5>2, FirstArrives, Zenon
      <4>5. R = Drop(R, 0) /\ 0 \in 0 .. Len(R)
        BY <4>2, SubSeqFull, LenProperties DEF Drop
      <4>6. Has(p, prog[p], R, 0)
        <5>1. prog[p].body = <<>> /\ prog[p].hdrN = 0 /\ ~prog[p].inBody
          BY <3>1 DEF Waits, Asking, Started0
        <5>2. Part(R, 0, 0) = <<>>
          BY <4>2, PartEmpty
        <5> QED BY <5>1, <5>2 DEF Has, Got
      <4>7. Flows(p, dev'[HandleOf[p]], prog'[p], replies'[prog'[p].req].units)
        <5> HIDE DEF k
        <5> QED BY <1>2, <1>6, <4>2, <4>3, <4>4, <4>5, <4>6 DEF Flows
      <4> QED BY <1>2, <2>2, <2>5, <3>1, <4>7 DEF WholeAt, Reads
    <3> QED BY <3>2, <3>3
  <2> QED BY <2>4, <2>5
<1> QED BY <1>5, <1>6

LEMMA WholeNext == TypeInv /\ NumInv /\ ReplyInv /\ OwnInv /\ WholeInv /\ [Next]_vars => WholeInv'
<1> SUFFICES ASSUME TypeInv, NumInv, ReplyInv, OwnInv, WholeInv, [Next]_vars PROVE WholeInv'
  OBVIOUS
<1>1. cast.programs \subseteq Programs
  BY PvReaderAssumption DEF TypeInv
<1>2. ASSUME NEW p \in cast.programs, NEW address \in BOOLEAN, Get(p, address) PROVE WholeInv'
  BY <1>1, <1>2, GetWhole
<1>3. ASSUME NEW p \in cast.programs, PumpAny(p) PROVE WholeInv'
  BY <1>1, <1>3, PumpWhole DEF PumpAny
<1>4. ASSUME NEW p \in cast.programs, Quit(p) PROVE WholeInv'
  BY <1>1, <1>4, StopQuitWhole
<1>5. ASSUME Stop PROVE WholeInv'
  <2>1. "fetch" \in Programs
    BY <1>5 DEF Stop
  <2> QED BY <1>5, <2>1, StopQuitWhole
<1>6. ASSUME Dial \/ DialTick \/ DialClose PROVE WholeInv'
  <2>1. "dial" \in Programs
    BY <1>6 DEF Dial, DialTick, DialClose
  <2> QED BY <1>6, <2>1, DialWhole
<1>7. ASSUME ViewMoves \/ FrameTick \/ Elapse \/ UNCHANGED vars PROVE WholeInv'
  <2>1. UNCHANGED <<dev, prog, fetches, replies, late, cut>>
    BY <1>7 DEF ViewMoves, Scroll, Size, FrameTick, Elapse, wire, vars
  <2> QED BY <2>1, WholeUntouched DEF WholeInv
<1>8. ASSUME HostAnswers PROVE WholeInv'
  BY <1>8, HostWhole DEF HostAnswers
<1> QED BY <1>2, <1>3, <1>4, <1>5, <1>6, <1>7, <1>8 DEF Next

LEMMA WholeHolds == Spec => [](NumInv /\ ReplyInv /\ WholeInv)
<1>1. Init => NumInv /\ ReplyInv /\ WholeInv
  <2> SUFFICES ASSUME Init PROVE NumInv /\ ReplyInv /\ WholeInv
    OBVIOUS
  <2>1. NumInv
    BY DEF Init, NumInv, Started0
  <2>2. ReplyInv
    BY DEF Init, ReplyInv, IsReply
  <2>3. WholeInv
    BY DEF Init, WholeInv, WholeAt, Started0
  <2> QED BY <2>1, <2>2, <2>3
<1>2. TypeInv /\ NumInv /\ [Next]_vars => NumInv'
  BY AsksOrNot, NumberedAsks, NumberedElse
<1> QED BY <1>1, <1>2, TypeHolds, OwnHolds, RepliesNext, WholeNext, PTL DEF Spec

\* Whoever is done has the body to its last unit and nothing of the header,
\* wherever blocks and chunks were cut, unless another one has closed his handle
\* or it was too much for his buffer (take_header, consume, take_body, pv_pump).
THEOREM BodiesWhole == Spec => []WholeUnlessCut
<1>1. TypeInv /\ WholeInv => WholeUnlessCut
  <2> SUFFICES ASSUME TypeInv, WholeInv, NEW p \in Programs \ (late \cup cut), prog[p].end = "done", ~prog[p].refused
               PROVE  WholeBody(p)
    BY DEF WholeUnlessCut
  <2>1. WholeAt(p)
    BY DEF WholeInv
  <2>2. prog[p].open \in BOOLEAN
    BY TransferFields DEF TypeInv
  <2>3. ~prog[p].open
    BY <2>1 DEF WholeAt, Waits, Reads, Asking, Started0
  <2> QED BY <2>1, <2>3 DEF WholeAt, IsWhole
<1> QED BY <1>1, TypeHolds, WholeHolds, PTL


-----------------------------------------------------------------------------
(* PAGE shows what it was sent.                                            *)

\* What the view shows is of the body that is there, whose transfer is over.
ShownInv ==
  "page" \in Programs /\ view.blocks # <<>> =>
    /\ ~prog["page"].open /\ prog["page"].end = "done" /\ prog["page"].body # <<>>
    /\ Named(view.blocks, prog["page"].body)

LEMMA ShownStays ==
  ASSUME ShownInv, view' = view \/ view'.blocks = <<>>,
         "page" \in Programs => prog'["page"] = prog["page"] \/ view'.blocks = <<>>
  PROVE  ShownInv'
BY DEF ShownInv

LEMMA OthersStay ==
  ASSUME TypeInv, NEW p \in Programs, p # "page", \E s : prog' = [prog EXCEPT ![p] = s]
  PROVE  "page" \in Programs => prog'["page"] = prog["page"]
BY DEF TypeInv

LEMMA GetShown ==
  ASSUME TypeInv, ShownInv, NEW p \in Programs, NEW address \in BOOLEAN, Get(p, address)
  PROVE  ShownInv'
<1>1. CASE p = "page"
  <2>1. view' = Freed(view)
    BY <1>1 DEF Get
  <2>2. view'.blocks = <<>>
    BY <2>1, FreedShows DEF TypeInv, Laid
  <2> QED BY <2>2, ShownStays
<1>2. CASE p # "page"
  <2>1. view' = view
    BY <1>2 DEF Get
  <2>2. \E s : prog' = [prog EXCEPT ![p] = s]
    BY DEF Get, TypeInv
  <2>3. "page" \in Programs => prog'["page"] = prog["page"]
    BY <1>2, <2>2, OthersStay
  <2> QED BY <2>1, <2>3, ShownStays
<1> QED BY <1>1, <1>2

LEMMA PumpShown ==
  ASSUME TypeInv, ShownInv, NEW p \in Programs, NEW room \in BOOLEAN, Pump(p, room)
  PROVE  ShownInv'
<1> DEFINE x == Pumped(p, dev[HandleOf[p]])
           end == Ending(p, x.k, x.s)
           t == [x.s EXCEPT !.open = FALSE, !.end = end]
<1>1. x.s \in Held(p, GoodUnit)
  BY PumpKeeps DEF Since
<1>2. \/ /\ prog' = [prog EXCEPT ![p] = t]
         /\ view' = IF p = "page" /\ end = "done" THEN Presented(view, x.s.body, now, room) ELSE view
      \/ prog' = [prog EXCEPT ![p] = x.s] /\ view' = view
  BY Zenon DEF Pump, PumpHandle
<1>3. prog[p].open
  BY DEF Pump
<1> HIDE DEF x
<1>4. end \in {"none", "done", "stopped", "failed", "closed", "nothing"} /\ (end = "done" /\ p = "page" => x.s.body # <<>>)
  BY DEF Ending
<1> HIDE DEF end
<1>5. ~t.open /\ t.end = end /\ t.body = x.s.body
  BY <1>1 DEF Held, Transfers
<1> HIDE DEF t
<1>6. CASE p = "page"
  <2>1. view.blocks = <<>>
    BY <1>3, <1>6 DEF ShownInv
  <2>2. CASE view' = view
    BY <2>1, <2>2, ShownStays
  <2>3. CASE prog' = [prog EXCEPT ![p] = t] /\ end = "done" /\ view' = Presented(view, x.s.body, now, room)
    <3>1. x.s.body \in Seq(GoodUnit) /\ x.s.body # <<>>
      BY <1>1, <1>4, <1>6, <2>3, TransferFields DEF Held
    <3>2. view'.blocks # <<>> => Named(view'.blocks, x.s.body)
      BY <2>3, <3>1, PresentedShows DEF TypeInv
    <3>3. prog'[p] = t
      BY <2>3 DEF TypeInv
    <3> QED BY <1>5, <1>6, <2>3, <3>1, <3>2, <3>3 DEF ShownInv
  <2> QED BY <1>2, <1>6, <2>2, <2>3
<1>7. CASE p # "page"
  <2>1. view' = view /\ \E s : prog' = [prog EXCEPT ![p] = s]
    BY <1>2, <1>7
  <2>2. "page" \in Programs => prog'["page"] = prog["page"]
    BY <1>7, <2>1, OthersStay
  <2> QED BY <2>1, <2>2, ShownStays
<1> QED BY <1>6, <1>7

LEMMA ShownNext == TypeInv /\ ShownInv /\ [Next]_vars => ShownInv'
<1> SUFFICES ASSUME TypeInv, ShownInv, [Next]_vars PROVE ShownInv'
  OBVIOUS
<1>1. cast.programs \subseteq Programs
  BY PvReaderAssumption DEF TypeInv
<1>2. ASSUME NEW p \in cast.programs, NEW address \in BOOLEAN, Get(p, address) PROVE ShownInv'
  BY <1>1, <1>2, GetShown
<1>3. ASSUME NEW p \in cast.programs, PumpAny(p) PROVE ShownInv'
  BY <1>1, <1>3, PumpShown DEF PumpAny
<1>4. ASSUME NEW p \in cast.programs, Quit(p) PROVE ShownInv'
  <2>1. CASE p = "page"
    BY <1>4, <2>1, ShownStays DEF Quit, Empty
  <2>2. CASE p # "page"
    <3>1. view' = view /\ prog' = [prog EXCEPT ![p] = Started0]
      BY <1>4, <2>2 DEF Quit
    <3> QED BY <1>1, <2>2, <3>1, OthersStay, ShownStays
  <2> QED BY <2>1, <2>2
<1>5. ASSUME Stop \/ Dial \/ DialTick \/ DialClose PROVE ShownInv'
  <2>1. PICK p \in {"fetch", "dial"} : p \in Programs /\ (UNCHANGED prog \/ \E s : prog' = [prog EXCEPT ![p] = s])
    BY <1>5 DEF Stop, Dial, DialTick, DialClose, TypeInv
  <2>2. "page" \in Programs => prog'["page"] = prog["page"]
    <3>1. CASE UNCHANGED prog
      BY <3>1
    <3>2. CASE ~UNCHANGED prog
      BY <2>1, <3>2, OthersStay
    <3> QED BY <3>1, <3>2
  <2>3. view' = view
    BY <1>5 DEF Stop, Dial, DialTick, DialClose
  <2> QED BY <2>2, <2>3, ShownStays
<1>6. ASSUME ViewMoves \/ FrameTick \/ Elapse PROVE ShownInv'
  <2>1. TypeInv' /\ SameBlocks(view, view')
    BY <1>6, ViewTypes
  <2>2. view.blocks \in Seq(BlockRec) /\ view'.blocks \in Seq(BlockRec)
    BY <2>1, ViewFields DEF TypeInv, Laid, Fit
  <2>3. view'.blocks # <<>> => view.blocks # <<>>
    BY <2>1, <2>2, LenProperties, EmptySeq DEF SameBlocks
  <2>4. \A buf : Named(view.blocks, buf) => Named(view'.blocks, buf)
    BY <2>1, <2>2, SameBlocksNamed DEF SameBlocks
  <2>5. prog' = prog
    BY <1>6 DEF ViewMoves, Scroll, Size, FrameTick, Elapse
  <2> QED BY <2>3, <2>4, <2>5 DEF ShownInv
<1>7. ASSUME HostAnswers \/ UNCHANGED vars PROVE ShownInv'
  BY <1>7, ShownStays DEF HostAnswers, AnswerError, Answer, vars
<1> QED BY <1>2, <1>3, <1>4, <1>5, <1>6, <1>7 DEF Next

KindsShown(bs) == [i \in DOMAIN bs |-> bs[i].kind]

\* The blocks a walk has found in what follows the header are the document's,
\* as many as there are or as there is room for.
LEMMA ShownFrom ==
  ASSUME NEW r, NEW d, NEW hdr, AReply(r, d, hdr), NEW bs \in Seq(BlockRec),
         AfterHeader(Reply(r, d, hdr)) # <<>>, Named(bs, AfterHeader(Reply(r, d, hdr)))
  PROVE  /\ d.bundle
         /\ KindsShown(bs) = SubSeq(d.kinds, 1, Least(MaxBlocks, Len(d.kinds)))
<1> DEFINE R == Reply(r, d, hdr)
           U == OwnUnits(r)
           buf == AfterHeader(R)
           count == Len(d.kinds)
           len == HeaderLen(R)
<1>1. /\ R \in Seq(U) /\ Len(R) = hdr + BodyLen(d) /\ hdr \in Nat \ {0} /\ d.bundle \in BOOLEAN
      /\ d.kinds \in Seq(Kinds) /\ count \in Nat /\ BodyLen(d) \in Nat \ {0}
      /\ MaxBlocks \in Nat /\ HdrMax \in Nat \ {0} /\ Len(bs) \in Nat /\ DOMAIN bs = 1 .. Len(bs)
  BY ReplyUnits, LenProperties, ReaderBounds, PageBounds DEF AReply
<1>2. /\ \A n \in 1 .. Len(R) :
           /\ n < hdr => R[n].tag = "hdr"
           /\ n = hdr => R[n].tag = "blank"
           /\ n = hdr + 1 => R[n].tag = (IF d.bundle THEN "magic" ELSE "text") /\ R[n].count = count
           /\ n > hdr + 1 => R[n].kind = d.kinds[(n - hdr) \div 2]
  BY ReplyUnits
<1>3. buf = Part(R, len, Len(R))
  BY Zenon DEF AfterHeader, HeaderLen, Blanks, Drop, Part
<1>4. len \in 1 .. HdrMax
  BY <1>1, HeaderLenIs
<1>5. buf # <<>> /\ Named(bs, buf)
  OBVIOUS
<1> HIDE DEF R, buf, U, count, len
<1>6. len < Len(R)
  BY <1>1, <1>3, <1>4, <1>5 DEF Part
<1>7. Len(buf) = Len(R) - len /\ \A i \in 1 .. Len(R) - len : buf[i] = R[len + i]
  <2>1. len \in Nat /\ Len(R) \in len .. Len(R) /\ R \in Seq(U)
    BY <1>1, <1>4, <1>6
  <2> QED BY <1>3, <2>1, Parts
<1>8. buf[1].tag = "magic" /\ Len(bs) <= MaxBlocks
  BY <1>5, Zenon DEF Named
<1>9. \A i \in 1 .. Len(bs) : bs[i].kind = buf[2 * i].kind /\ 2 * i + 1 <= Len(buf)
  BY <1>5, Zenon DEF Named
<1>10. Len(bs) \in {MaxBlocks, buf[1].count} \/ 2 * Len(bs) + 2 > Len(buf)
  BY <1>5, Zenon DEF Named
<1>11. R[len + 1].tag = "magic"
  BY <1>1, <1>4, <1>6, <1>7, <1>8
<1>12. len = hdr
  <2>1. CASE hdr <= HdrMax
    <3>1. hdr \in 1 .. Len(R) /\ \A i \in 1 .. hdr - 1 : i \in 1 .. Len(R) /\ i < hdr
      BY <1>1
    <3>2. R[hdr].tag = "blank" /\ \A i \in 1 .. hdr - 1 : R[i].tag # "blank"
      BY <1>2, <3>1
    <3>3. R \in Seq(U)
      BY <1>1
    <3> QED BY <2>1, <3>1, <3>2, <3>3, HeaderLenIs DEF len
  <2>2. CASE hdr > HdrMax
    <3>1. len + 1 \in 1 .. Len(R) /\ len + 1 <= hdr
      BY <1>1, <1>4, <1>6, <2>2
    <3> QED BY <1>1, <1>2, <1>11, <3>1
  <2> QED BY <1>1, <2>1, <2>2
<1>13. d.bundle /\ buf[1].count = count /\ Len(buf) = 1 + 2 * count
  <2>1. hdr + 1 \in 1 .. Len(R) /\ 1 \in 1 .. Len(R) - len
    BY <1>1, <1>12
  <2>2. d.bundle /\ R[hdr + 1].count = count
    BY <1>2, <1>11, <1>12, <2>1
  <2> QED BY <1>1, <1>7, <1>12, <2>1, <2>2 DEF BodyLen, count
<1>14. Len(bs) <= count
  <2>1. Len(bs) > 0 => 2 * Len(bs) + 1 <= Len(buf)
    <3>1. Len(bs) \in Nat
      BY <1>1
    <3>2. Len(bs) > 0 => Len(bs) \in 1 .. Len(bs)
      BY <3>1
    <3> QED BY <1>9, <3>2, Zenon
  <2> QED BY <1>1, <1>13, <2>1
<1>15. Len(bs) = Least(MaxBlocks, count)
  <2>1. Len(bs) <= MaxBlocks /\ (Len(bs) \in {MaxBlocks, count} \/ 2 * Len(bs) + 2 > Len(buf))
    BY <1>13, <1>8, <1>10
  <2>2. \A n, max, all, len0 \in Nat :
          n <= max /\ n <= all /\ len0 = 1 + 2 * all /\ (n \in {max, all} \/ 2 * n + 2 > len0) => n = Least(max, all)
    BY DEF Least
  <2>3. Len(bs) \in Nat /\ MaxBlocks \in Nat /\ count \in Nat /\ Len(buf) \in Nat
    BY <1>1, <1>13
  <2>4. Len(bs) <= MaxBlocks /\ Len(bs) <= count /\ Len(buf) = 1 + 2 * count
        /\ (Len(bs) \in {MaxBlocks, count} \/ 2 * Len(bs) + 2 > Len(buf))
    BY <1>13, <1>14, <2>1
  <2> QED BY <2>2, <2>3, <2>4, Zenon
<1>16. \A i \in 1 .. Len(bs) : bs[i].kind = d.kinds[i]
  <2> SUFFICES ASSUME NEW i \in 1 .. Len(bs) PROVE bs[i].kind = d.kinds[i]
    OBVIOUS
  <2>1. bs[i].kind = buf[2 * i].kind
    BY <1>9
  <2>2. 2 * i \in 1 .. Len(R) - len /\ buf[2 * i] = R[hdr + 2 * i]
    BY <1>1, <1>7, <1>12, <1>13, <1>14
  <2>3. hdr + 2 * i \in 1 .. Len(R) /\ hdr + 2 * i > hdr + 1 /\ ((hdr + 2 * i) - hdr) \div 2 = i
    BY <1>1, <1>12, <2>2
  <2>4. R[hdr + 2 * i].kind = d.kinds[((hdr + 2 * i) - hdr) \div 2]
    BY <1>2, <2>3
  <2> QED BY <2>1, <2>2, <2>3, <2>4
<1>17. SubSeq(d.kinds, 1, Len(bs)) = [i \in 1 .. Len(bs) |-> d.kinds[i]]
  BY <1>1, <1>14, SubSeqProperties
<1>18. [i \in 1 .. Len(bs) |-> bs[i].kind] = [i \in 1 .. Len(bs) |-> d.kinds[i]]
  BY <1>16
<1> QED BY <1>1, <1>13, <1>15, <1>17, <1>18 DEF count, KindsShown

\* PAGE shows the blocks of the document it was sent, as many as its list has
\* room for, or none (parse_page, present).
THEOREM ShownSent == Spec => []ShownIsSent
<1>1. Init => ShownInv
  BY DEF Init, Empty, ShownInv
<1>2. TypeInv /\ ReplyInv /\ WholeInv /\ ShownInv => ShownIsSent
  <2> SUFFICES ASSUME TypeInv, ReplyInv, WholeInv, ShownInv, HasView, view.blocks # <<>>,
                      "page" \notin late \cup cut, ~prog["page"].refused
               PROVE  LET kinds == replies[prog["page"].req].kinds
                      IN  [i \in DOMAIN view.blocks |-> view.blocks[i].kind]
                            = SubSeq(kinds, 1, Least(MaxBlocks, Len(kinds)))
    BY DEF ShownIsSent
  <2> DEFINE s == prog["page"]
             x == replies[s.req]
  <2>1. "page" \in Programs /\ view.blocks \in Seq(BlockRec)
    BY PvReaderAssumption, ViewFields DEF TypeInv, HasView, Laid, Fit
  <2>2. ~s.open /\ s.end = "done" /\ s.body # <<>> /\ Named(view.blocks, s.body)
    BY <2>1 DEF ShownInv
  <2>3. s.req \in Reqs /\ s.body = AfterHeader(x.units)
    BY <2>1, <2>2 DEF WholeInv, WholeAt, IsWhole, WholeBody, NonePending
  <2>4. IsReply(s.req, x)
    BY <2>3 DEF ReplyInv
  <2> HIDE DEF s, x
  <2>5. CASE x = NoReply
    <3>1. x.units = <<>>
      BY <2>5 DEF NoReply
    <3>2. \A n \in Nat : SubSeq(<<>>, n + 1, Len(<<>>)) = <<>>
      OBVIOUS
    <3>3. Part(<<>>, HeaderLen(<<>>), Len(<<>>)) = <<>>
      <4>1. HeaderLen(<<>>) \in Nat
        <5>1. <<>> \in Seq(GoodUnit) /\ HdrMax \in Nat
          BY ReaderBounds
        <5>2. HeaderLen(<<>>) \in 1 .. HdrMax
          BY <5>1, HeaderLenIs, Zenon
        <5> QED BY <5>1, <5>2
      <4> QED BY <3>2, <4>1 DEF Part
    <3>4. AfterHeader(<<>>) = Part(<<>>, HeaderLen(<<>>), Len(<<>>))
      BY Zenon DEF AfterHeader, HeaderLen, Blanks, Drop, Part
    <3> QED BY <2>2, <2>3, <3>1, <3>3, <3>4
  <2>6. CASE x # NoReply
    <3>1. PICK d, hdr : AReply(s.req, d, hdr) /\ x = Replied(s.req, d, hdr)
      BY <2>4, <2>6 DEF IsReply
    <3>2. x.units = Reply(s.req, d, hdr) /\ x.kinds = IF d.bundle THEN d.kinds ELSE <<>>
      BY <3>1 DEF Replied
    <3>3. /\ d.bundle
          /\ KindsShown(view.blocks) = SubSeq(d.kinds, 1, Least(MaxBlocks, Len(d.kinds)))
      <4>1. AfterHeader(Reply(s.req, d, hdr)) # <<>> /\ Named(view.blocks, AfterHeader(Reply(s.req, d, hdr)))
        BY <2>2, <2>3, <3>2
      <4> QED BY <2>1, <3>1, <4>1, ShownFrom, Zenon
    <3> QED BY <3>2, <3>3 DEF s, x, KindsShown
  <2> QED BY <2>5, <2>6
<1> QED BY <1>1, <1>2, TypeHolds, WholeHolds, ShownNext, PTL DEF Spec

=============================================================================
