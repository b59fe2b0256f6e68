------------------------------- MODULE PvPage -------------------------------
(***************************************************************************)
(* The view of PAGE.EXE (guest/reader/page.c): the display list it makes   *)
(* of a bundle, where each block lies, what the scroll bar says, and the   *)
(* clips, which play while they are on screen and only then.  This module  *)
(* is what each handler does to the view, as functions from records to     *)
(* records; PvReader gives it a transfer to show and a window to live in.  *)
(*                                                                         *)
(* A bundle is the sequence of its blocks' kinds.  Of text and pictures    *)
(* only the height at a given width is kept.  Of a clip it is kept how     *)
(* many frames it announces, how many there are and whether a piece of     *)
(* another follows; a picture is the number of the frame it shows.         *)
(***************************************************************************)
EXTENDS Integers, Sequences

CONSTANTS Heights,    \* of each kind of block and each width of the view
          ClipOf,     \* of kinds that are clips: codec, promised, whole, tail, step
          Pad,        \* PAD, the margin above and below a page
          MaxBlocks,  \* MAX_BLOCKS
          MaxPos,     \* the most a scroll bar counts to (30000)
          ClockWrap   \* values of GetTickCount (2^32)

Kinds  == DOMAIN Heights
Clips  == DOMAIN ClipOf
Codecs == {"delta", "cinepak"}

ASSUME PvPageAssumption ==
  /\ {Pad, MaxBlocks, MaxPos, ClockWrap} \subseteq Nat \ {0}
  /\ Clips \subseteq Kinds
  /\ \A c \in Clips : ClipOf[c] \in [codec : Codecs, promised : Nat, whole : Nat,
                                     tail : BOOLEAN, step : Nat \ {0}]

Larger(a, b) == IF a >= b THEN a ELSE b
Smaller(a, b) == IF a <= b THEN a ELSE b

\* BLOCK: a block of the display list, not measured and, if a clip, not playing.
Fresh(kind) ==
  [kind |-> kind, y |-> 0, h |-> 0, playing |-> FALSE, ix |-> 0,
   frames |-> IF kind \in Clips THEN ClipOf[kind].promised ELSE 0,
   pic |-> 0, books |-> 0, due |-> 0]

Empty(width, height) ==
  [blocks |-> <<>>, docH |-> 0, scroll |-> 0, w |-> width, h |-> height,
   timer |-> FALSE, range |-> 0, pos |-> 0, shift |-> 0]

-----------------------------------------------------------------------------
(* Clips.  A picture that is none of the clip's frames is Garbled.         *)

Garbled == -1
Inter(b) == ClipOf[b.kind].codec = "cinepak"

\* What frame j makes of the picture.  The first frame of a clip is a whole
\* picture; any other changes the one before it.  Cinepak's codebooks are
\* changed from frame to frame in the same way, and its first frame is coded
\* for empty ones.
Decoded(b, j) ==
  IF /\ j = 1 \/ b.pic = j - 1
     /\ Inter(b) => b.books = j - 1
  THEN j ELSE Garbled

\* video_next's return to the first frame; and a mutant without cv_reset.
AgainKeepingBooks(b) == [b EXCEPT !.ix = 0]
Again(b) == [b EXCEPT !.ix = 0, !.books = 0]

\* video_next and video_frame: the next frame, the first after the last, or,
\* where the clip breaks off, none and a clip that is shorter from now on.
NextFrame(b) ==
  LET clip == ClipOf[b.kind]
      over == b.ix >= b.frames \/ (b.ix >= clip.whole /\ ~clip.tail)
      c    == IF over THEN Again(b) ELSE b
      j    == c.ix + 1
  IN  CASE b.frames = 0 -> b
        [] b.frames > 0 /\ j > clip.whole -> IF clip.tail THEN [c EXCEPT !.frames = c.ix] ELSE c
        [] OTHER -> [c EXCEPT !.ix = j, !.pic = Decoded(c, j), !.books = j]

\* video_stop, video_start.
Stopped(b) == [b EXCEPT !.playing = FALSE, !.pic = 0, !.books = 0]
Started(b, now) ==
  [b EXCEPT !.playing = TRUE, !.ix = 0, !.pic = 0, !.books = 0, !.due = now]

-----------------------------------------------------------------------------
(* What is on screen.                                                      *)

OnScreen(v, b) == b.y + b.h > v.scroll /\ b.y < v.scroll + v.h

\* update_playing: clips start, with their first frame, and stop.  Where there
\* is no memory left (~room) none starts.  The frame timer runs with them.
PlayedForgetting(v, now, room) ==  \* mutant: what scrolls away plays on
  LET Update(b) == IF b.kind \in Clips /\ OnScreen(v, b) /\ ~b.playing /\ room
                   THEN NextFrame(Started(b, now)) ELSE b
      blocks == [i \in DOMAIN v.blocks |-> Update(v.blocks[i])]
  IN  [v EXCEPT !.blocks = blocks, !.timer = \E i \in DOMAIN blocks : blocks[i].playing]
Played(v, now, room) ==
  LET Update(b) == CASE b.kind \notin Clips -> b
                     [] b.kind \in Clips /\ ~OnScreen(v, b) -> Stopped(b)
                     [] OTHER -> IF b.playing \/ ~room THEN b ELSE NextFrame(Started(b, now))
      blocks == [i \in DOMAIN v.blocks |-> Update(v.blocks[i])]
  IN  [v EXCEPT !.blocks = blocks, !.timer = \E i \in DOMAIN blocks : blocks[i].playing]

\* set_range: the bar counts in units of 2^shift pixels, few enough of them.
Span(v) == Larger(0, v.docH - v.h)
Units(y, shift) ==  \* y >> shift
  LET Half[n \in 0 .. shift] == IF n = 0 THEN y ELSE Half[n - 1] \div 2 IN Half[shift]
Pixels(pos, shift) ==  \* pos << shift
  LET Twice[n \in 0 .. shift] == IF n = 0 THEN pos ELSE 2 * Twice[n - 1] IN Twice[shift]
ShiftFor(span) == CHOOSE s \in 0 .. span :
                    Units(span, s) <= MaxPos /\ \A r \in 0 .. s - 1 : Units(span, r) > MaxPos
Ranged(v) ==
  LET y == Smaller(v.scroll, Span(v))
      s == ShiftFor(Span(v))
  IN  [v EXCEPT !.scroll = y, !.shift = s, !.range = Units(Span(v), s), !.pos = Units(y, s)]

\* measure: blocks one below the other, then set_range.
HeightAt(v, i) == Heights[v.blocks[i].kind][v.w]
Bottoms(v) ==
  LET Bottom[i \in 0 .. Len(v.blocks)] == IF i = 0 THEN Pad ELSE Bottom[i - 1] + HeightAt(v, i)
  IN  Bottom
Measured(v) ==
  LET bottom == Bottoms(v)
  IN  Ranged([v EXCEPT
        !.blocks = [i \in DOMAIN v.blocks |->
                      [v.blocks[i] EXCEPT !.y = bottom[i - 1], !.h = HeightAt(v, i)]],
        !.docH = bottom[Len(v.blocks)] + Pad])

\* scroll_to: to y or as far as the page goes.
ScrolledTo(v, y, now, room) ==
  LET z == Larger(0, Smaller(y, Span(v)))
  IN  IF z = v.scroll THEN v
      ELSE Played([v EXCEPT !.scroll = z, !.pos = Units(z, v.shift)], now, room)

\* on_vscroll, with a line of one unit: lines, pages, the ends, the thumb.
ScrollTargets(v) ==
  LET step == IF v.h > 2 THEN v.h - 1 ELSE 1
  IN  {v.scroll - 1, v.scroll + 1, v.scroll - step, v.scroll + step, 0, v.docH}
      \cup {Pixels(pos, v.shift) : pos \in 0 .. v.range}

\* WM_SIZE of the view.
Sized(v, width, height, now, room) ==
  LET sized == [v EXCEPT !.w = width, !.h = height]
  IN  IF v.blocks = <<>> THEN sized ELSE Played(Measured(sized), now, room)

-----------------------------------------------------------------------------
(* The frame timer.                                                        *)

\* now - then, as a signed number.
Behind(now, then) ==
  LET d == (now - then) % ClockWrap
  IN  IF d >= ClockWrap \div 2 THEN d - ClockWrap ELSE d

\* The schedule of a clip whose frame is due: a step on, or afresh where the
\* clip is more than four steps behind.
NextDue(b, now) ==
  LET step == ClipOf[b.kind].step
      due == (b.due + step) % ClockWrap
  IN  IF Behind(now, due) > 4 * step THEN (now + step) % ClockWrap ELSE due

\* tick_videos, for one clip; in the mutant times are compared as they are.
TickedUnsigned(b, now) ==
  IF now < b.due THEN b ELSE NextFrame([b EXCEPT !.due = NextDue(b, now)])
TickedClip(b, now) ==
  IF Behind(now, b.due) < 0 THEN b ELSE NextFrame([b EXCEPT !.due = NextDue(b, now)])

Ticked(v, now) ==
  [v EXCEPT !.blocks = [i \in DOMAIN @ |->
     IF @[i].playing /\ OnScreen(v, @[i]) THEN TickedClip(@[i], now) ELSE @[i]]]

-----------------------------------------------------------------------------
(* A new page.                                                             *)

\* free_page.  The scroll bar keeps what it said.
Freed(v) == [v EXCEPT !.blocks = <<>>, !.docH = 0, !.scroll = 0, !.timer = FALSE]

\* parse_page, of a walk that has come to unit `at' of the bundle buf: a block
\* is the unit that says what it is and how long, and the unit it holds.  Bytes
\* that are read out of their place stand for an error.  In the mutant the list
\* is one longer than its array.
Start == [at |-> 2, blocks |-> <<>>, err |-> "none", end |-> FALSE]
Unfit(w, kind) ==
  kind \in Clips /\ ClipOf[kind].codec = "cinepak"
    /\ \A i \in DOMAIN w.blocks : w.blocks[i].kind # "lut"
WalkOnOneMore(w, buf) ==
  IF w.end \/ w.at + 1 > Len(buf) THEN w
  ELSE IF Len(w.blocks) > MaxBlocks THEN [w EXCEPT !.end = TRUE]
  ELSE [w EXCEPT !.blocks = Append(@, Fresh(buf[w.at].kind)), !.at = @ + 2]
WalkOn(w, buf) ==
  CASE w.err # "none" \/ w.end \/ w.at > Len(buf) -> w
    [] ~(w.err # "none" \/ w.end \/ w.at > Len(buf)) ->
         IF buf[w.at].tag # "head" THEN [w EXCEPT !.err = "garbled"]
         ELSE IF w.at + 1 > Len(buf) THEN [w EXCEPT !.err = "truncated"]
         ELSE IF Len(w.blocks) >= MaxBlocks THEN [w EXCEPT !.end = TRUE]
         ELSE IF Unfit(w, buf[w.at].kind) THEN [w EXCEPT !.err = "colours"]
         ELSE [w EXCEPT !.blocks = Append(@, Fresh(buf[w.at].kind)), !.at = @ + 2]

Walked(buf) ==
  LET After[n \in 0 .. buf[1].count] == IF n = 0 THEN Start ELSE WalkOn(After[n - 1], buf)
  IN  After[buf[1].count]
Parsed(buf) ==
  IF buf[1].tag # "magic" THEN [Start EXCEPT !.err = "magic"]
  ELSE LET w == Walked(buf)
       IN  IF w.err = "none" /\ w.blocks = <<>> THEN [w EXCEPT !.err = "empty"] ELSE w

\* present: the page is shown from its top, or what was wrong with it is said.
Presented(v, buf, now, room) ==
  LET w == Parsed(buf)
  IN  IF w.err # "none" THEN Freed(v)
      ELSE Played(Measured([Freed(v) EXCEPT !.blocks = w.blocks]), now, room)

=============================================================================
