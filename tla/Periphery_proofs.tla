--------------------------- MODULE Periphery_proofs ---------------------------
(***************************************************************************)
(* The board's periphery, for every value of the constants: the display,   *)
(* the network path, the sensors with the readiness count.  The three have *)
(* no state in common and are proved one after the other.                  *)
(*                                                                         *)
(* Display.  What is asked for and not believed shown lies in a dirty      *)
(* range: inductive with the types.  A READY display with nothing to send  *)
(* shows what it was last asked for: this needs that READY means the glass *)
(* shows the framebuffer, whatever is pending, for only then does sending  *)
(* the dirty ranges make the glass the picture.  It is proved for a bus    *)
(* that does not fail between the init commands and the end of the redraw  *)
(* (RedrawFails = FALSE): without that it is false.                        *)
(*                                                                         *)
(* Network path.  References to a payload slot are counted in every place  *)
(* an event can wait: a slot's count is their sum, and by it no event has  *)
(* a slot that was given to a later payload.  In the default build the way *)
(* of a link change to ACT_NETWORK implements LinkChannel, and what that   *)
(* promises carries over.                                                  *)
(*                                                                         *)
(* Sensors.  A sensor tells the application what it records before its     *)
(* record can change again, and the tick fallback counts no further than   *)
(* the ticks without an interrupt.                                         *)
(***************************************************************************)
EXTENDS Display, NetAdapter, Board, Extrema, FunctionTheorems, SequenceTheorems


Ranges == [Pages -> Range0]

\* Every cell in which two pictures differ is in a range.
CoversDifference(picture, fb, d) ==
    \A p \in Pages, c \in Columns : picture[p][c] # fb[p][c] => InRange(d, p, c)

ReadyShows == state = "READY" => glass = framebuffer

-----------------------------------------------------------------------------
(* Ranges. *)

LEMMA SizeFacts ==
  /\ Width \in Nat \ {0} /\ PageCount \in Nat \ {0} /\ RetryDelay \in Nat \ {0}
  /\ \A c \in Columns : c \in 0..Width /\ c + 1 \in 0..Width /\ c < Width
  /\ 0 \in 0..Width /\ Width \in 0..Width /\ 0 \in Columns /\ 0 \in Pages
<1>1. Width \in Nat \ {0} /\ PageCount \in Nat \ {0} /\ RetryDelay \in Nat \ {0}
  BY DisplayAssumption
<1>2. \A c \in Columns : c \in 0..Width /\ c + 1 \in 0..Width /\ c < Width
  BY <1>1 DEF Columns
<1>3. 0 \in 0..Width /\ Width \in 0..Width
  BY <1>1
<1>4. 0 \in Columns /\ 0 \in Pages
  BY <1>1 DEF Columns, Pages
<1>5. QED
  BY <1>1, <1>2, <1>3, <1>4

\* The lesser and the greater of two columns.
LEMMA TwoColumns ==
  ASSUME NEW x \in 0..Width, NEW y \in 0..Width
  PROVE  /\ Min({x, y}) \in 0..Width /\ Min({x, y}) <= x /\ Min({x, y}) <= y
         /\ Max({x, y}) \in 0..Width /\ Max({x, y}) >= x /\ Max({x, y}) >= y
<1>1. {x, y} \subseteq 0..Width /\ {x, y} # {} /\ 0 \in Int /\ Width \in Int
  BY SizeFacts
<1>2. Min({x, y}) \in {x, y} /\ \A z \in {x, y} : Min({x, y}) <= z
  BY <1>1, MinOf
<1>3. Max({x, y}) \in {x, y} /\ \A z \in {x, y} : Max({x, y}) >= z
  BY <1>1, MaxOf
<1>4. QED
  BY <1>1, <1>2, <1>3

\* A range widened to hold another.
Widened(r, from, to) == [from |-> Min({r.from, from}), to |-> Max({r.to, to})]

LEMMA WidenedFacts ==
  ASSUME NEW r \in Range0, NEW from \in 0..Width, NEW to \in 0..Width
  PROVE  /\ Widened(r, from, to) \in Range0
         /\ Widened(r, from, to).from <= r.from /\ Widened(r, from, to).from <= from
         /\ Widened(r, from, to).to >= r.to /\ Widened(r, from, to).to >= to
<1>1. r.from \in 0..Width /\ r.to \in 0..Width
  BY DEF Range0
<1>2. /\ Min({r.from, from}) \in 0..Width /\ Min({r.from, from}) <= r.from /\ Min({r.from, from}) <= from
      /\ Max({r.to, to}) \in 0..Width /\ Max({r.to, to}) >= r.to /\ Max({r.to, to}) >= to
  BY <1>1, TwoColumns
<1>3. QED
  BY <1>2 DEF Widened, Range0

LEMMA CleanFacts ==
  /\ Clean \in Ranges
  /\ \A p \in Pages, c \in Columns : ~InRange(Clean, p, c)
<1>1. Clean \in Ranges
  BY SizeFacts DEF Clean, Ranges, Range0
<1>2. \A p \in Pages, c \in Columns : ~InRange(Clean, p, c)
  BY SizeFacts DEF Clean, InRange
<1>3. QED
  BY <1>1, <1>2

\* Marking a range on a page keeps what was marked, and never leaves it clean.
LEMMA MarkDirtyFacts ==
  ASSUME NEW d \in Ranges, NEW page \in Pages, NEW from \in 0..Width, NEW to \in 1..Width
  PROVE  /\ MarkDirty(d, page, from, to) \in Ranges
         /\ \A p \in Pages, c \in Columns :
               InRange(d, p, c) \/ (p = page /\ from <= c /\ c < to)
                  => InRange(MarkDirty(d, page, from, to), p, c)
         /\ MarkDirty(d, page, from, to) # Clean
<1> DEFINE e == MarkDirty(d, page, from, to)
           w == Widened(d[page], from, to)
<1>1. d[page] \in Range0 /\ to \in 0..Width
  BY SizeFacts DEF Ranges
<1>2. w \in Range0 /\ w.from <= d[page].from /\ w.from <= from /\ w.to >= d[page].to /\ w.to >= to
  BY <1>1, WidenedFacts
<1>3. e = [d EXCEPT ![page] = w]
  BY DEF MarkDirty, Widened
<1> HIDE DEF e, w
<1>4. e \in Ranges /\ e[page] = w /\ \A p \in Pages \ {page} : e[p] = d[p]
  BY <1>2, <1>3 DEF Ranges
<1>5. ASSUME NEW p \in Pages, NEW c \in Columns,
             InRange(d, p, c) \/ (p = page /\ from <= c /\ c < to)
      PROVE  InRange(e, p, c)
  <2>1. CASE p # page
    BY <1>4, <1>5, <2>1 DEF InRange
  <2>2. CASE p = page
    <3>1. /\ c \in Int /\ w.from \in Int /\ w.to \in Int /\ from \in Int /\ to \in Int
          /\ d[page].from \in Int /\ d[page].to \in Int
      BY <1>1, <1>2, SizeFacts DEF Range0
    <3>2. (d[page].from <= c /\ c < d[page].to) \/ (from <= c /\ c < to)
      BY <1>5, <2>2 DEF InRange
    <3>3. w.from <= c /\ c < w.to
      BY <1>2, <3>1, <3>2
    <3>4. QED
      BY <1>4, <2>2, <3>3 DEF InRange
  <2>3. QED
    BY <2>1, <2>2
<1>6. e # Clean
  <2>1. e[page].to > 0
    <3>1. w.to \in Int /\ to \in Int /\ to >= 1
      BY <1>2, SizeFacts DEF Range0
    <3>2. QED
      BY <1>2, <1>4, <3>1
  <2>2. Clean[page].to = 0
    BY DEF Clean
  <2>3. QED
    BY <2>1, <2>2
<1>7. QED
  BY <1>4, <1>5, <1>6 DEF e

\* The ranges of a scene hold every cell in which it differs.
LEMMA DirtyAfterFacts ==
  ASSUME NEW new
  PROVE  DirtyAfter(new) \in Ranges /\ CoversDifference(new, framebuffer, DirtyAfter(new))
<1>1. ASSUME NEW p \in Pages
      PROVE  /\ DirtyAfter(new)[p] \in Range0
             /\ \A c \in Columns : new[p][c] # framebuffer[p][c] => InRange(DirtyAfter(new), p, c)
  <2> DEFINE D == Difference(p, new)
  <2>1. CASE D = {}
    <3>1. DirtyAfter(new)[p] = Clean[p]
      BY <2>1 DEF DirtyAfter
    <3>2. QED
      BY <2>1, <3>1, CleanFacts DEF Difference, Ranges
  <2>2. CASE D # {}
    <3>1. D \subseteq 0..(Width - 1) /\ Width - 1 \in Int /\ 0 \in Int
      BY SizeFacts DEF Difference, Columns
    <3> HIDE DEF D
    <3>2. Min(D) \in D /\ \A c \in D : Min(D) <= c
      BY <2>2, <3>1, MinOf
    <3>3. Max(D) \in D /\ \A c \in D : Max(D) >= c
      BY <2>2, <3>1, MaxOf
    <3> DEFINE lo == Min(D)
               hi == Max(D)
    <3> HIDE DEF lo, hi
    <3>4. lo \in D /\ hi \in D /\ \A c \in D : c \in Int /\ lo <= c /\ c < hi + 1
      <4>1. lo \in D /\ hi \in D /\ \A c \in D : lo <= c /\ hi >= c
        BY <3>2, <3>3 DEF lo, hi
      <4>2. \A c \in D : c \in Int
        BY <3>1
      <4>3. QED
        BY <4>1, <4>2
    <3>5. lo \in 0..Width /\ hi + 1 \in 1..Width
      <4>1. lo \in 0..(Width - 1) /\ hi \in 0..(Width - 1)
        BY <3>1, <3>4
      <4>2. QED
        BY <4>1, SizeFacts
    <3> DEFINE e == MarkDirty(Clean, p, lo, hi + 1)
    <3>6. /\ e \in Ranges
          /\ \A c \in Columns : lo <= c /\ c < hi + 1 => InRange(e, p, c)
      BY <3>5, CleanFacts, MarkDirtyFacts
    <3>7. DirtyAfter(new)[p] = e[p]
      BY <2>2 DEF DirtyAfter, D, lo, hi
    <3> HIDE DEF e
    <3>8. ASSUME NEW c \in Columns, new[p][c] # framebuffer[p][c]
          PROVE  InRange(DirtyAfter(new), p, c)
      <4>1. c \in D
        BY <3>8 DEF D, Difference
      <4>2. lo <= c /\ c < hi + 1
        BY <3>4, <4>1
      <4>3. QED
        BY <3>6, <3>7, <4>2 DEF InRange
    <3>9. QED
      BY <3>6, <3>7, <3>8 DEF Ranges
  <2>3. QED
    BY <2>1, <2>2
<1>2. DirtyAfter(new) \in Ranges
  BY <1>1 DEF DirtyAfter, Ranges
<1>3. QED
  BY <1>1, <1>2 DEF CoversDifference

-----------------------------------------------------------------------------
(* Sending. *)

\* Every cell comes before the end of a transfer that does not fail.
LEMMA PlaceBeforeEnd ==
  ASSUME NEW p \in Pages, NEW c \in Columns
  PROVE  Place(p, c) < End
<1> DEFINE here == p * Width
           rest == (PageCount - 1 - p) * Width
<1>1. /\ p \in Nat /\ c \in Nat /\ c < Width /\ PageCount - 1 - p \in Nat
      /\ Width \in Nat /\ PageCount \in Nat
  BY SizeFacts DEF Pages, Columns
<1>2. here \in Nat /\ rest \in Nat
  BY <1>1
<1>3. PageCount * Width = here + rest + Width
  BY <1>1
<1> HIDE DEF here, rest
<1>4. here + c < here + rest + Width
  BY <1>1, <1>2
<1>5. QED
  BY <1>3, <1>4 DEF Place, End, here

\* A transfer makes a picture of two, whatever ranges it sends and wherever it
\* stops.
LEMMA SentInPicture ==
  ASSUME NEW onto \in Picture, NEW picture \in Picture, NEW d, NEW cut
  PROVE  Sent(onto, picture, d, cut) \in Picture
BY DEF Sent, Picture

\* A whole transfer onto the picture the ranges were taken from shows the other.
LEMMA SentShows ==
  ASSUME NEW onto \in Picture, NEW picture \in Picture, NEW d,
         CoversDifference(picture, onto, d)
  PROVE  Sent(onto, picture, d, End) = picture
<1> DEFINE s == Sent(onto, picture, d, End)
<1>1. ASSUME NEW p \in Pages, NEW c \in Columns
      PROVE  s[p][c] = picture[p][c]
  <2>1. Place(p, c) < End
    BY PlaceBeforeEnd
  <2>2. s[p][c] = IF InRange(d, p, c) /\ Place(p, c) < End THEN picture[p][c] ELSE onto[p][c]
    BY DEF Sent
  <2>3. CASE InRange(d, p, c)
    BY <2>1, <2>2, <2>3
  <2>4. CASE ~InRange(d, p, c)
    BY <2>2, <2>4 DEF CoversDifference
  <2>5. QED
    BY <2>3, <2>4
<1>2. s \in Picture
  BY SentInPicture
<1> HIDE DEF s
<1>3. \A p \in Pages : s[p] = picture[p]
  BY <1>1, <1>2 DEF Picture
<1>4. s = picture
  BY <1>2, <1>3 DEF Picture
<1>5. QED
  BY <1>4 DEF s

\* A redraw that does not fail shows the framebuffer.
LEMMA RedrawShows ==
  ASSUME glass \in Picture, framebuffer \in Picture
  PROVE  Redrawn(End) = framebuffer
<1>1. CoversDifference(framebuffer, glass, Whole)
  <2>1. ASSUME NEW p \in Pages, NEW c \in Columns PROVE InRange(Whole, p, c)
    <3>1. c \in Nat /\ c < Width
      BY SizeFacts DEF Columns
    <3>2. QED
      BY <3>1 DEF InRange, Whole
  <2>2. QED
    BY <2>1 DEF CoversDifference
<1>2. QED
  BY <1>1, SentShows DEF Redrawn

-----------------------------------------------------------------------------
(* Pictures. *)

LEMMA DarkInPicture == Dark \in Picture
BY DEF Dark, Picture

\* A text touches its page from its column on and nothing else.
LEMMA RenderedFacts ==
  ASSUME NEW fb \in Picture, NEW page \in Pages, NEW column \in Columns, NEW text
  PROVE  /\ Rendered(fb, page, column, text) \in Picture
         /\ \A p \in Pages, c \in Columns :
               Rendered(fb, page, column, text)[p][c] # fb[p][c] => p = page /\ column <= c
<1> DEFINE row == [c \in Columns |->
               IF c < column THEN fb[page][c] ELSE IF c - column < text THEN 1 ELSE 0]
           r == Rendered(fb, page, column, text)
<1>1. row \in [Columns -> {0, 1}]
  BY DEF Picture
<1>2. r = [fb EXCEPT ![page] = row]
  BY DEF Rendered
<1>3. ASSUME NEW c \in Columns, row[c] # fb[page][c] PROVE column <= c
  <2>1. c \in Int /\ column \in Int
    BY DEF Columns
  <2>2. ~(c < column)
    BY <1>3
  <2>3. QED
    BY <2>1, <2>2
<1> HIDE DEF row, r
<1>4. r \in Picture /\ r[page] = row /\ \A p \in Pages \ {page} : r[p] = fb[p]
  BY <1>1, <1>2 DEF Picture
<1>5. \A p \in Pages, c \in Columns : r[p][c] # fb[p][c] => p = page /\ column <= c
  BY <1>3, <1>4
<1>6. QED
  BY <1>4, <1>5 DEF r

LEMMA ComposedInPicture ==
  ASSUME NEW s \in Scene
  PROVE  Composed(s) \in Picture
<1>1. ASSUME NEW p \in Pages
      PROVE  Composed(s)[p] \in [Columns -> {0, 1}]
  <2> DEFINE text == s.lines[SceneLine(s, p)]
  <2>1. s.column \in Columns
    BY DEF Scene
  <2>2. Dark[p] \in [Columns -> {0, 1}]
    BY DarkInPicture DEF Picture
  <2>3. Rendered(Dark, p, s.column, text)[p] \in [Columns -> {0, 1}]
    <3> HIDE DEF text
    <3>1. Rendered(Dark, p, s.column, text) \in Picture
      BY <2>1, DarkInPicture, RenderedFacts
    <3>2. QED
      BY <3>1 DEF Picture
  <2>4. Composed(s)[p] = IF s.visible /\ SceneLine(s, p) \in 1..SceneLines
                         THEN Rendered(Dark, p, s.column, text)[p] ELSE Dark[p]
    BY DEF Composed
  <2>5. QED
    BY <2>2, <2>3, <2>4
<1>2. QED
  BY <1>1 DEF Composed, Picture

-----------------------------------------------------------------------------
(* The invariants. *)

DisplayInv == TypeOK /\ UnsentIsDirty

LEMMA InvInit == Init => DisplayInv /\ ReadyShows
<1> SUFFICES ASSUME Init PROVE DisplayInv /\ ReadyShows
  OBVIOUS
<1>1. glass \in Picture
  <2>1. [p \in Pages |-> [c \in Columns |-> 1]] \in Picture
    BY DEF Picture
  <2>2. QED
    BY <2>1, DarkInPicture DEF Init
<1>2. retryIn \in 0..RetryDelay
  BY SizeFacts DEF Init
<1>3. TypeOK
  BY <1>1, <1>2, DarkInPicture, CleanFacts DEF Init, TypeOK, Ranges
<1>4. UnsentIsDirty
  BY DEF Init, UnsentIsDirty
<1>5. ReadyShows
  BY DEF Init, ReadyShows
<1>6. QED
  BY <1>3, <1>4, <1>5 DEF DisplayInv

\* What the invariant says of a display with nothing to send.
LEMMA NothingPending ==
  ASSUME DisplayInv, ~pendingFlush
  PROVE  dirty = Clean /\ staging = framebuffer
<1>1. dirty = Clean
  BY DEF DisplayInv, UnsentIsDirty
<1>2. \A p \in Pages, c \in Columns : staging[p][c] = framebuffer[p][c]
  BY <1>1, CleanFacts DEF DisplayInv, UnsentIsDirty
<1>3. staging \in Picture /\ framebuffer \in Picture
  BY DEF DisplayInv, TypeOK
<1>4. \A p \in Pages : staging[p] = framebuffer[p]
  BY <1>2, <1>3 DEF Picture
<1>5. staging = framebuffer
  BY <1>3, <1>4 DEF Picture
<1>6. QED
  BY <1>1, <1>5

\* A flush, whether or not it fails, onto whatever the glass shows.
LEMMA FlushKeeps ==
  ASSUME DisplayInv, NEW onto \in Picture, NEW picture \in Picture, NEW d \in Ranges, NEW cut,
         d # Clean, CoversDifference(picture, framebuffer, d),
         Flushes(onto, picture, d, cut), staging' = picture,
         calm' = calm, bootObserved' \in BOOLEAN
  PROVE  DisplayInv' /\ (onto = framebuffer => ReadyShows')
<1>1. glass' \in Picture
  BY SentInPicture DEF Flushes
<1>2. RetryDelay \in 0..RetryDelay /\ 0 \in 0..RetryDelay
  BY SizeFacts
<1>3. CASE cut = End
  <2>1. /\ framebuffer' = picture /\ dirty' = Clean /\ pendingFlush' = FALSE
        /\ state' = "READY" /\ retryIn' = 0
    BY <1>3 DEF Flushes
  <2>2. TypeOK'
    BY <1>1, <1>2, <2>1, CleanFacts DEF TypeOK, DisplayInv, Ranges
  <2>3. UnsentIsDirty'
    BY <2>1 DEF UnsentIsDirty
  <2>4. ASSUME onto = framebuffer PROVE ReadyShows'
    <3>1. Sent(onto, picture, d, End) = picture
      BY <2>4, SentShows
    <3>2. QED
      BY <1>3, <2>1, <3>1 DEF ReadyShows, Flushes
  <2>5. QED
    BY <2>2, <2>3, <2>4 DEF DisplayInv
<1>4. CASE cut # End
  <2>1. /\ framebuffer' = framebuffer /\ dirty' = d /\ pendingFlush' = TRUE
        /\ state' = "ERROR" /\ retryIn' = RetryDelay
    BY <1>4 DEF Flushes, ScheduleRetry
  <2>2. TypeOK'
    BY <1>1, <1>2, <2>1 DEF TypeOK, DisplayInv, Ranges
  <2>3. UnsentIsDirty'
    <3>1. \A p \in Pages, c \in Columns :
             staging'[p][c] # framebuffer'[p][c] => InRange(dirty', p, c)
      BY <2>1 DEF CoversDifference
    <3>2. pendingFlush' <=> dirty' # Clean
      BY <2>1
    <3>3. QED
      BY <3>1, <3>2 DEF UnsentIsDirty, InRange
  <2>4. ReadyShows'
    BY <2>1 DEF ReadyShows
  <2>5. QED
    BY <2>2, <2>3, <2>4 DEF DisplayInv
<1>5. QED
  BY <1>3, <1>4

\* Sending what is pending.
LEMMA PendingFlushKeeps ==
  ASSUME DisplayInv, NEW onto \in Picture, NEW cut, pendingFlush,
         Flushes(onto, staging, dirty, cut), staging' = staging,
         calm' = calm, bootObserved' \in BOOLEAN
  PROVE  DisplayInv' /\ (onto = framebuffer => ReadyShows')
<1>1. staging \in Picture /\ dirty \in Ranges
  BY DEF DisplayInv, TypeOK, Ranges
<1>2. dirty # Clean /\ CoversDifference(staging, framebuffer, dirty)
  BY DEF DisplayInv, UnsentIsDirty, CoversDifference
<1>3. QED
  BY <1>1, <1>2, FlushKeeps

LEMMA ResetKeeps ==
  ASSUME DisplayInv, Reset, glass' \in Picture, calm' = calm
  PROVE  DisplayInv' /\ ReadyShows'
<1>1. 0 \in 0..RetryDelay
  BY SizeFacts
<1>2. TypeOK'
  BY <1>1, DarkInPicture, CleanFacts DEF DisplayInv, TypeOK, Reset, Ranges
<1>3. UnsentIsDirty'
  BY DEF Reset, UnsentIsDirty
<1>4. QED
  BY <1>2, <1>3 DEF DisplayInv, Reset, ReadyShows

\* The start-up keeps the first invariant always, and the second when the redraw
\* does not fail.
LEMMA TryInitializeKeeps ==
  ASSUME DisplayInv, TryInitialize, calm' = calm
  PROVE  DisplayInv' /\ (~RedrawFails => ReadyShows')
<1>1. /\ glass \in Picture /\ framebuffer \in Picture /\ bootObserved \in BOOLEAN
      /\ RetryDelay \in 0..RetryDelay /\ 0 \in 0..RetryDelay
  BY SizeFacts DEF DisplayInv, TypeOK
<1>2. CASE InitCommandsFail /\ bootObserved' = TRUE
  <2>1. TypeOK'
    BY <1>1, <1>2 DEF DisplayInv, TypeOK, InitCommandsFail, ScheduleRetry
  <2>2. UnsentIsDirty'
    BY <1>2 DEF DisplayInv, UnsentIsDirty, InitCommandsFail, InRange
  <2>3. ReadyShows'
    BY <1>2 DEF ReadyShows, InitCommandsFail, ScheduleRetry
  <2>4. QED
    BY <2>1, <2>2, <2>3 DEF DisplayInv
<1>3. ASSUME NEW redraw \in IF RedrawFails THEN Cuts ELSE {End},
             \/ Initialized(redraw) /\ bootObserved' = TRUE
             \/ ReadyRefused(redraw)
      PROVE  DisplayInv' /\ (~RedrawFails => ReadyShows')
  <2>1. Redrawn(redraw) \in Picture
    BY <1>1, SentInPicture DEF Redrawn
  <2>2. ~RedrawFails => Redrawn(redraw) = framebuffer
    BY <1>1, <1>3, RedrawShows
  <2>3. CASE ReadyRefused(redraw)
    BY <2>1, <2>3, ResetKeeps DEF ReadyRefused
  <2>4. CASE Initialized(redraw) /\ bootObserved' = TRUE /\ pendingFlush
    <3>1. PICK cut \in Cuts : Flushes(Redrawn(redraw), staging, dirty, cut)
      BY <2>4 DEF Initialized
    <3>2. staging' = staging
      BY <2>4 DEF Initialized
    <3>3. QED
      BY <2>1, <2>2, <2>4, <3>1, <3>2, PendingFlushKeeps
  <2>5. CASE Initialized(redraw) /\ bootObserved' = TRUE /\ ~pendingFlush
    <3>1. /\ state' = "READY" /\ retryIn' = 0 /\ glass' = Redrawn(redraw)
          /\ UNCHANGED <<framebuffer, staging, dirty, pendingFlush>>
      BY <2>5 DEF Initialized
    <3>2. TypeOK'
      BY <1>1, <2>1, <2>5, <3>1 DEF DisplayInv, TypeOK
    <3>3. UnsentIsDirty'
      BY <3>1 DEF DisplayInv, UnsentIsDirty, InRange
    <3>4. QED
      BY <2>2, <3>1, <3>2, <3>3 DEF DisplayInv, ReadyShows
  <2>6. QED
    BY <1>3, <2>3, <2>4, <2>5
<1>4. QED
  BY <1>2, <1>3 DEF TryInitialize

LEMMA TickKeeps ==
  ASSUME DisplayInv, Tick1s
  PROVE  DisplayInv' /\ (~RedrawFails /\ ReadyShows => ReadyShows')
<1>1. calm' = calm /\ bootObserved
  BY DEF Tick1s
<1>2. CASE state = "READY" /\ TickReady /\ pendingFlush
  <2>1. PICK cut \in Cuts : Flushes(glass, staging, dirty, cut)
    BY <1>2 DEF TickReady
  <2>2. staging' = staging /\ bootObserved' \in BOOLEAN /\ glass \in Picture
    BY <1>2 DEF TickReady, DisplayInv, TypeOK
  <2>3. QED
    BY <1>1, <1>2, <2>1, <2>2, PendingFlushKeeps DEF ReadyShows
<1>3. CASE state = "READY" /\ TickReady /\ ~pendingFlush
  BY <1>1, <1>3 DEF TickReady, actor, DisplayInv, TypeOK, UnsentIsDirty, InRange, ReadyShows
<1>4. CASE state = "ERROR" /\ RetryDue /\ TryInitialize
  BY <1>1, <1>4, TryInitializeKeeps
<1>5. CASE /\ state = "ERROR" /\ ~RetryDue /\ retryIn' = retryIn - 1
           /\ UNCHANGED <<glass, state, bootObserved, framebuffer, staging, dirty, pendingFlush>>
  <2>1. retryIn - 1 \in 0..RetryDelay
    <3>1. retryIn \in 0..RetryDelay /\ RetryDelay \in Nat
      BY SizeFacts DEF DisplayInv, TypeOK
    <3>2. ~(retryIn <= 1)
      BY <1>5 DEF RetryDue
    <3>3. QED
      BY <3>1, <3>2
  <2>2. TypeOK'
    BY <1>1, <1>5, <2>1 DEF DisplayInv, TypeOK
  <2>3. UnsentIsDirty' /\ ReadyShows'
    BY <1>5 DEF DisplayInv, UnsentIsDirty, InRange, ReadyShows
  <2>4. QED
    BY <2>2, <2>3 DEF DisplayInv
<1>6. QED
  BY <1>2, <1>3, <1>4, <1>5 DEF Tick1s

LEMMA DisplayTextKeeps ==
  ASSUME DisplayInv, NEW page \in Pages, NEW column \in Columns, NEW text \in Texts,
         DisplayText(page, column, text)
  PROVE  DisplayInv' /\ (ReadyShows => ReadyShows')
<1> DEFINE base == IF pendingFlush THEN staging ELSE framebuffer
           new == Rendered(base, page, column, text)
           d == MarkDirty(dirty, page, column, Width)
<1>1. /\ staging' = new /\ dirty' = d /\ pendingFlush' = TRUE
      /\ UNCHANGED <<glass, calm, state, bootObserved, retryIn, framebuffer>>
  BY DEF DisplayText
<1>2. base = staging /\ staging \in Picture /\ framebuffer \in Picture /\ dirty \in Ranges
  BY NothingPending DEF DisplayInv, TypeOK, Ranges
<1> HIDE DEF base
<1>3. /\ new \in Picture
      /\ \A p \in Pages, c \in Columns : new[p][c] # base[p][c] => p = page /\ column <= c
  BY <1>2, RenderedFacts
<1>4. column \in 0..Width /\ Width \in 1..Width /\ \A c \in Columns : c < Width
  BY SizeFacts
<1>5. /\ d \in Ranges /\ d # Clean
      /\ \A p \in Pages, c \in Columns :
            InRange(dirty, p, c) \/ (p = page /\ column <= c /\ c < Width) => InRange(d, p, c)
  BY <1>2, <1>4, MarkDirtyFacts
<1> HIDE DEF new, d
<1>6. TypeOK'
  BY <1>1, <1>3, <1>5 DEF DisplayInv, TypeOK, Ranges
<1>7. \A p \in Pages, c \in Columns : new[p][c] # framebuffer[p][c] => InRange(d, p, c)
  <2>1. \A p \in Pages, c \in Columns : staging[p][c] # framebuffer[p][c] => InRange(dirty, p, c)
    BY DEF DisplayInv, UnsentIsDirty
  <2>2. QED
    BY <1>2, <1>3, <1>4, <1>5, <2>1
<1>8. UnsentIsDirty'
  BY <1>1, <1>5, <1>7 DEF UnsentIsDirty, InRange
<1>9. QED
  BY <1>1, <1>6, <1>8 DEF DisplayInv, ReadyShows

LEMMA CommitTextKeeps ==
  ASSUME DisplayInv, CommitText
  PROVE  DisplayInv' /\ (ReadyShows => ReadyShows')
<1>1. PICK cut \in Cuts : Flushes(glass, staging, dirty, cut)
  BY DEF CommitText
<1>2. /\ pendingFlush /\ state = "READY" /\ staging' = staging /\ calm' = calm
      /\ bootObserved' \in BOOLEAN /\ glass \in Picture
  BY DEF CommitText, DisplayInv, TypeOK
<1>3. QED
  BY <1>1, <1>2, PendingFlushKeeps DEF ReadyShows

LEMMA CommitSceneKeeps ==
  ASSUME DisplayInv, NEW s \in Scene, CommitScene(s)
  PROVE  DisplayInv' /\ (ReadyShows => ReadyShows')
<1> DEFINE new == Composed(s)
           d == DirtyAfter(new)
<1>1. /\ staging' = new /\ calm' = calm /\ bootObserved' = bootObserved
      /\ IF d # Clean /\ state = "READY"
         THEN \E cut \in Cuts : Flushes(glass, new, d, cut)
         ELSE /\ dirty' = d /\ pendingFlush' = (d # Clean)
              /\ UNCHANGED <<glass, state, retryIn, framebuffer>>
  BY DEF CommitScene
<1>2. new \in Picture /\ glass \in Picture /\ bootObserved \in BOOLEAN
  BY ComposedInPicture DEF DisplayInv, TypeOK
<1> HIDE DEF new
<1>3. d \in Ranges /\ CoversDifference(new, framebuffer, d)
  BY DirtyAfterFacts
<1> HIDE DEF d
<1>4. CASE d # Clean /\ state = "READY"
  <2>1. PICK cut \in Cuts : Flushes(glass, new, d, cut)
    BY <1>1, <1>4
  <2>2. QED
    BY <1>1, <1>2, <1>3, <1>4, <2>1, FlushKeeps DEF ReadyShows
<1>5. CASE ~(d # Clean /\ state = "READY")
  <2>1. /\ dirty' = d /\ pendingFlush' = (d # Clean)
        /\ UNCHANGED <<glass, state, retryIn, framebuffer>>
    BY <1>1, <1>5
  <2>2. pendingFlush' \in BOOLEAN
    BY <2>1
  <2>3. TypeOK'
    BY <1>1, <1>2, <1>3, <2>1, <2>2 DEF DisplayInv, TypeOK, Ranges
  <2>4. UnsentIsDirty'
    BY <1>1, <1>3, <2>1 DEF UnsentIsDirty, CoversDifference, InRange
  <2>5. QED
    BY <2>1, <2>3, <2>4 DEF DisplayInv, ReadyShows
<1>6. QED
  BY <1>4, <1>5

\* Every step keeps the first invariant, and the second with it when no redraw
\* fails.
LEMMA InvNext ==
  ASSUME DisplayInv, [Next]_vars
  PROVE  DisplayInv' /\ (~RedrawFails /\ ReadyShows => ReadyShows')
<1>1. CASE World
  BY <1>1 DEF World, actor, DisplayInv, TypeOK, UnsentIsDirty, InRange, ReadyShows
<1>2. CASE BootCompleted
  BY <1>2, TryInitializeKeeps DEF BootCompleted
<1>3. CASE Tick1s
  BY <1>3, TickKeeps
<1>4. CASE CommitText
  BY <1>4, CommitTextKeeps
<1>5. ASSUME NEW p \in Pages, NEW c \in Columns, NEW t \in Texts, DisplayText(p, c, t)
      PROVE  DisplayInv' /\ (ReadyShows => ReadyShows')
  BY <1>5, DisplayTextKeeps
<1>6. ASSUME NEW s \in Scene, CommitScene(s)
      PROVE  DisplayInv' /\ (ReadyShows => ReadyShows')
  BY <1>6, CommitSceneKeeps
<1>7. CASE UNCHANGED vars
  BY <1>7 DEF vars, actor, DisplayInv, TypeOK, UnsentIsDirty, InRange, ReadyShows
<1>8. QED
  BY <1>1, <1>2, <1>3, <1>4, <1>5, <1>6, <1>7 DEF Next

-----------------------------------------------------------------------------
\* The types hold in every state.
THEOREM DisplayInvAlways == Spec => []DisplayInv
<1>1. Init => DisplayInv
  BY InvInit
<1>2. DisplayInv /\ [Next]_vars => DisplayInv'
  BY InvNext
<1>3. QED
  BY <1>1, <1>2, PTL DEF Spec

(***************************************************************************)
(* Whatever is asked for and not believed to be shown lies in a dirty      *)
(* range, after any order of texts, scenes, flushes that fail anywhere,    *)
(* retries and restarts: ev_oled_actor_mark_dirty(), prepare_scene_commit  *)
(* and flush_pending together lose no cell.                                *)
(***************************************************************************)
THEOREM UnsentIsDirtyAlways == Spec => []UnsentIsDirty
<1>1. DisplayInv => UnsentIsDirty
  BY DEF DisplayInv
<1>2. QED
  BY <1>1, DisplayInvAlways, PTL

(***************************************************************************)
(* A READY display with nothing to send shows what it believes it shows    *)
(* and was last asked for, provided no redraw of ev_oled_actor_try_        *)
(* initialize() fails after its init commands went through: that one       *)
(* answers OK although nothing was drawn.                                  *)
(***************************************************************************)
THEOREM ReadyMeansShownAlways ==
  ASSUME ~RedrawFails
  PROVE  Spec => []ReadyMeansShown
<1>1. Init => DisplayInv /\ ReadyShows
  BY InvInit
<1>2. DisplayInv /\ ReadyShows /\ [Next]_vars => DisplayInv' /\ ReadyShows'
  BY InvNext
<1>3. DisplayInv /\ ReadyShows => ReadyMeansShown
  BY NothingPending DEF ReadyShows, ReadyMeansShown
<1>4. QED
  BY <1>1, <1>2, <1>3, PTL DEF Spec
-----------------------------------------------------------------------------
(* The network path.  References to a slot are counted by queue.            *)

LEMMA CountType ==
  ASSUME NEW q \in Seq(Event), NEW s
  PROVE  /\ IsFiniteSet({i \in DOMAIN q : q[i].slot = s}) /\ ReferencesIn(q, s) \in Nat
<1>1. DOMAIN q = 1..Len(q) /\ 1 \in Int /\ Len(q) \in Int
  OBVIOUS
<1>2. IsFiniteSet(1..Len(q))
  BY ONLY <1>1, FS_Interval
<1>3. IsFiniteSet({i \in DOMAIN q : q[i].slot = s})
  BY <1>1, <1>2, FS_Subset
<1>4. QED
  BY <1>3, FS_CardinalityType DEF ReferencesIn

LEMMA CountEmpty ==
  ASSUME NEW s
  PROVE  ReferencesIn(<<>>, s) = 0
<1>1. {i \in DOMAIN <<>> : <<>>[i].slot = s} = {}
  OBVIOUS
<1>2. QED
  BY <1>1, FS_EmptySet DEF ReferencesIn

LEMMA CountAppend ==
  ASSUME NEW q \in Seq(Event), NEW e \in Event, NEW s
  PROVE  ReferencesIn(Append(q, e), s) = ReferencesIn(q, s) + Refers(e, s)
<1> DEFINE n == Len(q)
           longer == Append(q, e)
           Old == {i \in DOMAIN q : q[i].slot = s}
           New == {i \in DOMAIN longer : longer[i].slot = s}
<1>1. /\ n \in Nat /\ DOMAIN q = 1..n /\ DOMAIN longer = 1..(n + 1) /\ longer[n + 1] = e
      /\ \A i \in 1..n : longer[i] = q[i]
  OBVIOUS
<1>2. n + 1 \notin Old /\ 1..(n + 1) = 1..n \cup {n + 1}
  BY <1>1
<1>3. IsFiniteSet(Old) /\ Cardinality(Old) \in Nat
  BY CountType DEF ReferencesIn
<1>6. ReferencesIn(q, s) = Cardinality(Old) /\ ReferencesIn(longer, s) = Cardinality(New)
  BY DEF ReferencesIn
<1> HIDE DEF longer, n
<1>4. CASE e.slot = s
  <2>1. New = Old \cup {n + 1}
    BY <1>1, <1>2, <1>4
  <2> HIDE DEF Old, New
  <2>2. Cardinality(New) = Cardinality(Old) + 1
    BY <1>2, <1>3, <2>1, FS_AddElement
  <2>3. Refers(e, s) = 1
    BY <1>4 DEF Refers
  <2>4. ReferencesIn(longer, s) = ReferencesIn(q, s) + Refers(e, s)
    BY <1>3, <1>6, <2>2, <2>3
  <2>5. QED
    BY <2>4 DEF longer
<1>5. CASE e.slot # s
  <2>1. New = Old
    BY <1>1, <1>2, <1>5
  <2>2. Refers(e, s) = 0
    BY <1>5 DEF Refers
  <2> HIDE DEF Old, New
  <2>3. ReferencesIn(longer, s) = ReferencesIn(q, s) + Refers(e, s)
    BY <1>3, <1>6, <2>1, <2>2
  <2>4. QED
    BY <2>3 DEF longer
<1>7. QED
  BY <1>4, <1>5

LEMMA CountOne ==
  ASSUME NEW e \in Event, NEW s
  PROVE  ReferencesIn(<<e>>, s) = Refers(e, s)
<1>1. <<e>> = Append(<<>>, e) /\ <<>> \in Seq(Event)
  OBVIOUS
<1>2. Refers(e, s) \in Nat
  BY DEF Refers
<1>3. ReferencesIn(Append(<<>>, e), s) = ReferencesIn(<<>>, s) + Refers(e, s)
  BY <1>1, CountAppend
<1>4. QED
  BY <1>1, <1>2, <1>3, CountEmpty

LEMMA CountTail ==
  ASSUME NEW q \in Seq(Event), q # <<>>, NEW s
  PROVE  ReferencesIn(q, s) = Refers(Head(q), s) + ReferencesIn(Tail(q), s)
<1> DEFINE n == Len(Tail(q))
           Rest == {i \in DOMAIN Tail(q) : Tail(q)[i].slot = s}
           Moved == {i \in 2..(n + 1) : q[i].slot = s}
           All == {i \in DOMAIN q : q[i].slot = s}
           f == [i \in Rest |-> i + 1]
<1>1. /\ n \in Nat /\ Tail(q) \in Seq(Event) /\ DOMAIN Tail(q) = 1..n /\ DOMAIN q = 1..(n + 1)
      /\ q[1] = Head(q) /\ \A i \in 1..n : Tail(q)[i] = q[i + 1]
  OBVIOUS
<1>2. IsFiniteSet(Rest) /\ Cardinality(Rest) \in Nat
  BY <1>1, CountType DEF ReferencesIn
<1>3. f \in Bijection(Rest, Moved)
  <2>1. \A i \in 1..n : i + 1 \in 2..(n + 1)
    BY <1>1
  <2>2. \A j \in 2..(n + 1) : j - 1 \in 1..n /\ (j - 1) + 1 = j
    BY <1>1
  <2>3. \A i, j \in 1..n : i + 1 = j + 1 => i = j
    BY <1>1
  <2> HIDE DEF n
  <2>4. Rest \subseteq 1..n
    BY <1>1
  <2>5. f \in [Rest -> Moved]
    BY <1>1, <2>1, <2>4
  <2>6. \A i, j \in Rest : f[i] = f[j] => i = j
    BY <2>3, <2>4
  <2>7. \A j \in Moved : \E i \in Rest : f[i] = j
    <3> SUFFICES ASSUME NEW j \in Moved PROVE \E i \in Rest : f[i] = j
      OBVIOUS
    <3>1. j - 1 \in 1..n /\ (j - 1) + 1 = j /\ q[j].slot = s
      BY <2>2
    <3>2. j - 1 \in Rest
      BY <1>1, <3>1
    <3>3. QED
      BY <3>1, <3>2
  <2> HIDE DEF f, Rest, Moved
  <2>8. QED
    BY <2>5, <2>6, <2>7, Fun_IsBij
<1>4. IsFiniteSet(Moved) /\ Cardinality(Moved) = Cardinality(Rest)
  <2> HIDE DEF f, Rest, Moved
  <2>1. QED
    BY <1>2, <1>3, FS_Bijection DEF ExistsBijection
<1>5. 1 \notin Moved /\ 1..(n + 1) = {1} \cup 2..(n + 1)
  BY <1>1
<1>8. ReferencesIn(q, s) = Cardinality(All) /\ ReferencesIn(Tail(q), s) = Cardinality(Rest)
  BY DEF ReferencesIn
<1>6. CASE Head(q).slot = s
  <2>1. All = Moved \cup {1}
    BY <1>1, <1>5, <1>6
  <2> HIDE DEF All, Moved, Rest
  <2>2. Cardinality(All) = Cardinality(Moved) + 1
    BY <1>4, <1>5, <2>1, FS_AddElement
  <2>3. QED
    BY <1>2, <1>4, <1>6, <1>8, <2>2 DEF Refers
<1>7. CASE Head(q).slot # s
  <2>1. All = Moved
    BY <1>1, <1>5, <1>7
  <2> HIDE DEF All, Moved, Rest
  <2>2. QED
    BY <1>2, <1>4, <1>7, <1>8, <2>1 DEF Refers
<1>9. QED
  BY <1>6, <1>7

\* Who is counted, and who is not.
LEMMA CountZero ==
  ASSUME NEW q \in Seq(Event), NEW s
  PROVE  ReferencesIn(q, s) = 0 <=> \A e \in Range(q) : e.slot # s
<1>1. ReferencesIn(q, s) = 0 <=> {i \in DOMAIN q : q[i].slot = s} = {}
  BY CountType, FS_EmptySet DEF ReferencesIn
<1>2. QED
  BY <1>1 DEF Range

-----------------------------------------------------------------------------
(* The payload slots.  A pool is sound when a slot is in use while it has    *)
(* references and the count of slots in use is the true one.                 *)

InUse(p) == {s \in Slots : p.slot[s].inUse}

PoolSound(p) ==
    /\ p \in Pool
    /\ \A s \in Slots : p.slot[s].inUse <=> p.slot[s].refs > 0
    /\ p.used = Cardinality(InUse(p))

LEMMA InUseFinite ==
  ASSUME NEW p
  PROVE  IsFiniteSet(InUse(p)) /\ Cardinality(InUse(p)) \in 0..SlotCount
<1>1. 1 \in Int /\ SlotCount \in Int /\ SlotCount \in Nat
  BY NetAdapterAssumption
<1>2. IsFiniteSet(1..SlotCount) /\ Cardinality(1..SlotCount) = SlotCount
  <2>1. IsFiniteSet(1..SlotCount)
                 /\ Cardinality(1..SlotCount) = IF 1 > SlotCount THEN 0 ELSE SlotCount - 1 + 1
    BY ONLY <1>1, FS_Interval
  <2>2. QED
    BY <1>1, <2>1
<1>3. InUse(p) \subseteq 1..SlotCount
  BY DEF InUse, Slots
<1>4. IsFiniteSet(InUse(p)) /\ Cardinality(InUse(p)) <= SlotCount
  BY <1>2, <1>3, FS_Subset
<1>5. QED
  BY <1>1, <1>4, FS_CardinalityType

\* A free slot is acquired with one reference and a generation of its own.
LEMMA AcquireSound ==
  ASSUME NEW p, PoolSound(p), NEW s \in FreeSlots(p)
  PROVE  /\ PoolSound(Acquired(p, s))
         /\ p.slot[s].refs = 0 /\ Acquired(p, s).slot[s].refs = 1
         /\ \A t \in Slots \ {s} : Acquired(p, s).slot[t] = p.slot[t]
<1> DEFINE q == Acquired(p, s)
           g == (p.slot[s].gen % MaxGen) + 1
<1>1. /\ s \in Slots /\ p.slot \in [Slots -> Slot] /\ p.slot[s] \in Slot
      /\ ~p.slot[s].inUse /\ p.used \in Nat
  BY DEF PoolSound, FreeSlots, Pool
<1>2. p.slot[s].refs = 0
  BY <1>1 DEF PoolSound, Slot
<1>3. g \in 0..MaxGen
  <2>1. p.slot[s].gen \in Nat /\ MaxGen \in Nat /\ MaxGen > 0
    BY <1>1, NetAdapterAssumption DEF Slot
  <2> HIDE DEF g
  <2>2. p.slot[s].gen % MaxGen \in 0..(MaxGen - 1)
    BY <2>1
  <2>3. QED
    BY <2>1, <2>2 DEF g
<1> DEFINE new == [inUse |-> TRUE, refs |-> 1, gen |-> g]
<1> HIDE DEF g
<1>4. new \in Slot
  BY <1>3 DEF Slot
<1>5. q.slot = [p.slot EXCEPT ![s] = new] /\ q.used = p.used + 1
      /\ q = [slot |-> q.slot, used |-> q.used]
  BY DEF Acquired, g
<1>6. q.slot[s] = new /\ q.slot \in [Slots -> Slot] /\ \A t \in Slots \ {s} : q.slot[t] = p.slot[t]
  BY <1>1, <1>4, <1>5
<1>7. InUse(q) = InUse(p) \cup {s} /\ s \notin InUse(p)
  BY <1>1, <1>6 DEF InUse
<1> HIDE DEF q, new
<1>8. q.used = Cardinality(InUse(q))
  <2>1. Cardinality(InUse(p) \cup {s}) = Cardinality(InUse(p)) + 1
    BY <1>7, InUseFinite, FS_AddElement
  <2>2. QED
    BY <1>5, <1>7, <2>1 DEF PoolSound
<1>9. q.used \in 0..SlotCount
  BY <1>8, InUseFinite
<1>10. q \in Pool
  BY <1>5, <1>6, <1>9 DEF Pool
<1>11. \A t \in Slots : q.slot[t].inUse <=> q.slot[t].refs > 0
  BY <1>1, <1>6 DEF PoolSound, new
<1>12. PoolSound(q) /\ q.slot[s].refs = 1
  BY <1>6, <1>8, <1>10, <1>11 DEF PoolSound, new
<1>13. QED
  BY <1>2, <1>6, <1>12 DEF q

\* Retaining for a queued copy counts it, when the event has a slot at all.
LEMMA RetainSound ==
  ASSUME NEW p, PoolSound(p), NEW e \in Event, e.slot # NoSlot => p.slot[e.slot].refs > 0
  PROVE  /\ PoolSound(Retained(p, e.slot))
         /\ \A t \in Slots :
               /\ Retained(p, e.slot).slot[t].refs = p.slot[t].refs + Refers(e, t)
               /\ Retained(p, e.slot).slot[t].gen = p.slot[t].gen
<1> DEFINE s == e.slot
           q == Retained(p, s)
<1>0. s \in Slots \cup {NoSlot} /\ p.slot \in [Slots -> Slot] /\ NoSlot \notin Slots
  BY DEF PoolSound, Pool, Event, NoSlot, Slots
<1>1. CASE s = NoSlot
  <2>1. q = p /\ \A t \in Slots : Refers(e, t) = 0
    BY <1>0, <1>1 DEF Retained, Refers
  <2>2. \A t \in Slots : p.slot[t].refs \in Nat
    BY <1>0 DEF Slot
  <2>3. QED
    BY <2>1, <2>2
<1>2. CASE s # NoSlot
  <2>1. s \in Slots /\ p.slot[s] \in Slot /\ p.slot[s].refs > 0 /\ p.slot[s].refs \in Nat
    BY <1>0, <1>2 DEF Slot
  <2> DEFINE new == [p.slot[s] EXCEPT !.refs = @ + 1]
  <2>2. new \in Slot /\ new.inUse = p.slot[s].inUse /\ new.gen = p.slot[s].gen
        /\ new.refs = p.slot[s].refs + 1
    BY <2>1 DEF Slot
  <2> DEFINE slots == [p.slot EXCEPT ![s] = new]
  <2>3. q = [p EXCEPT !.slot = slots]
    BY <1>2, <2>1 DEF Retained
  <2>4. q.slot = slots /\ q.used = p.used /\ q = [slot |-> slots, used |-> p.used]
    BY <2>3 DEF PoolSound, Pool
  <2> HIDE DEF new
  <2>5. /\ slots \in [Slots -> Slot] /\ slots[s] = new
        /\ \A t \in Slots \ {s} : slots[t] = p.slot[t]
    BY <1>0, <2>1, <2>2
  <2> HIDE DEF q, slots
  <2>6. q \in Pool
    BY <2>4, <2>5 DEF PoolSound, Pool
  <2>7. InUse(q) = InUse(p)
    BY <2>2, <2>4, <2>5 DEF InUse
  <2>8. \A t \in Slots : q.slot[t].inUse <=> q.slot[t].refs > 0
    <3>1. q.slot[s].inUse <=> q.slot[s].refs > 0
      BY <2>1, <2>2, <2>4, <2>5 DEF PoolSound
    <3>2. QED
      BY <2>4, <2>5, <3>1 DEF PoolSound
  <2>9. PoolSound(q)
    BY <2>4, <2>6, <2>7, <2>8 DEF PoolSound
  <2>10. ASSUME NEW t \in Slots
         PROVE  q.slot[t].refs = p.slot[t].refs + Refers(e, t) /\ q.slot[t].gen = p.slot[t].gen
    <3>1. CASE t = s
      BY <2>2, <2>4, <2>5, <3>1 DEF Refers
    <3>2. CASE t # s
      <4>1. q.slot[t] = p.slot[t] /\ Refers(e, t) = 0 /\ p.slot[t].refs \in Nat
        BY <1>0, <2>4, <2>5, <3>2 DEF Refers, Slot
      <4>2. QED
        BY <4>1
    <3>3. QED
      BY <3>1, <3>2
  <2>11. QED
    BY <2>9, <2>10 DEF q
<1>3. QED
  BY <1>1, <1>2

\* Writing one field of a slot.
LEMMA SlotWritten ==
  ASSUME NEW r \in Slot, NEW k \in Nat
  PROVE  /\ [r EXCEPT !.refs = k] \in Slot
         /\ [r EXCEPT !.refs = k].refs = k
         /\ ([r EXCEPT !.refs = k].inUse <=> r.inUse) /\ [r EXCEPT !.refs = k].gen = r.gen
         /\ [r EXCEPT !.inUse = FALSE] \in Slot
         /\ ~[r EXCEPT !.inUse = FALSE].inUse
         /\ [r EXCEPT !.inUse = FALSE].refs = r.refs /\ [r EXCEPT !.inUse = FALSE].gen = r.gen
  BY DEF Slot

\* A release takes one reference back, and frees the slot with the last.
LEMMA ReleaseSound ==
  ASSUME NEW p, PoolSound(p), NEW e \in Event, e.slot # NoSlot => p.slot[e.slot].refs > 0
  PROVE  /\ PoolSound(Released(p, e.slot))
         /\ \A t \in Slots :
               /\ p.slot[t].refs = Released(p, e.slot).slot[t].refs + Refers(e, t)
               /\ Released(p, e.slot).slot[t].gen = p.slot[t].gen
<1> DEFINE s == e.slot
           q == Released(p, s)
<1>0. s \in Slots \cup {NoSlot} /\ p.slot \in [Slots -> Slot] /\ NoSlot \notin Slots
  BY DEF PoolSound, Pool, Event, NoSlot, Slots
<1>1. CASE s = NoSlot
  <2>1. q = p /\ \A t \in Slots : Refers(e, t) = 0
    BY <1>0, <1>1 DEF Released, Refers
  <2>2. \A t \in Slots : p.slot[t].refs \in Nat
    BY <1>0 DEF Slot
  <2>3. QED
    BY <2>1, <2>2
<1>2. CASE s # NoSlot
  <2>1. s \in Slots /\ p.slot[s] \in Slot /\ p.slot[s].refs > 0 /\ p.slot[s].refs \in Nat
        /\ p.slot[s].inUse
    BY <1>0, <1>2 DEF Slot, PoolSound
  <2> DEFINE left == p.slot[s].refs - 1
             fewer == [p.slot[s] EXCEPT !.refs = left]
             new == IF left > 0 THEN fewer ELSE [fewer EXCEPT !.inUse = FALSE]
  <2>2. left \in Nat /\ p.slot[s].refs = left + 1 /\ p.slot[s].refs # 0
        /\ (p.slot[s].refs > 1 <=> left > 0)
    BY <2>1
  <2> HIDE DEF left
  <2>3. fewer \in Slot /\ fewer.refs = left /\ fewer.inUse /\ fewer.gen = p.slot[s].gen
    BY <2>1, <2>2, SlotWritten
  <2> HIDE DEF fewer
  <2>4. [fewer EXCEPT !.inUse = FALSE] \in Slot /\ ~[fewer EXCEPT !.inUse = FALSE].inUse
        /\ [fewer EXCEPT !.inUse = FALSE].refs = fewer.refs
        /\ [fewer EXCEPT !.inUse = FALSE].gen = fewer.gen
    BY <2>2, <2>3, SlotWritten
  <2>7. new \in Slot /\ (new.inUse <=> left > 0) /\ new.refs = left /\ new.gen = p.slot[s].gen
    BY <2>3, <2>4
  <2> DEFINE slots == [p.slot EXCEPT ![s] = new]
             used == IF left > 0 THEN p.used ELSE p.used - 1
  <2>5. q = [slot |-> slots, used |-> used]
    <3>1. CASE left > 0
      <4>1. q = [p EXCEPT !.slot = [p.slot EXCEPT ![s] = fewer]]
        BY <1>2, <2>2, <3>1 DEF Released, left, fewer
      <4>2. q = [p EXCEPT !.slot = slots]
        BY <3>1, <4>1
      <4>3. p = [slot |-> p.slot, used |-> p.used]
        BY DEF PoolSound, Pool
      <4> HIDE DEF slots, q
      <4>4. [[slot |-> p.slot, used |-> p.used] EXCEPT !.slot = slots]
                = [slot |-> slots, used |-> p.used]
        OBVIOUS
      <4>5. QED
        BY <3>1, <4>2, <4>3, <4>4
    <3>2. CASE left = 0
      <4>1. q = [slot |-> [p.slot EXCEPT ![s].refs = 0, ![s].inUse = FALSE], used |-> p.used - 1]
        BY <1>2, <2>2, <3>2 DEF Released
      <4> DEFINE first == [p.slot EXCEPT ![s] = fewer]
      <4>2. fewer = [p.slot[s] EXCEPT !.refs = 0]
        BY <3>2 DEF fewer
      <4>3. first[s] = fewer
        BY <1>0, <2>1
      <4>4. [p.slot EXCEPT ![s].refs = 0, ![s].inUse = FALSE]
                = [first EXCEPT ![s] = [first[s] EXCEPT !.inUse = FALSE]]
        BY ONLY <4>2
      <4> HIDE DEF first
      <4>5. [first EXCEPT ![s] = [first[s] EXCEPT !.inUse = FALSE]] = [first EXCEPT ![s] = new]
        BY <3>2, <4>3
      <4> HIDE DEF new
      <4>6. [first EXCEPT ![s] = new] = slots
        BY <1>0, <2>1 DEF first
      <4>7. [p.slot EXCEPT ![s].refs = 0, ![s].inUse = FALSE] = slots
        BY ONLY <4>4, <4>5, <4>6
      <4>8. QED
        BY <3>2, <4>1, <4>7
    <3>3. QED
      BY <2>2, <3>1, <3>2
  <2>6. q.slot = slots /\ q.used = used
    BY <2>5
  <2> HIDE DEF new
  <2>8. /\ slots \in [Slots -> Slot] /\ slots[s] = new
        /\ \A t \in Slots \ {s} : slots[t] = p.slot[t]
    BY <1>0, <2>1, <2>7
  <2> HIDE DEF slots, used, q
  <2>9. used = Cardinality(InUse(q))
    <3>1. CASE left > 0
      <4>1. InUse(q) = InUse(p)
        BY <2>1, <2>6, <2>7, <2>8, <3>1 DEF InUse
      <4>2. QED
        BY <3>1, <4>1 DEF PoolSound, used
    <3>2. CASE left = 0
      <4>1. ~slots[s].inUse
        BY <2>7, <2>8, <3>2
      <4>2. InUse(q) = InUse(p) \ {s} /\ s \in InUse(p)
        BY <2>1, <2>6, <2>8, <4>1 DEF InUse
      <4>3. Cardinality(InUse(q)) = Cardinality(InUse(p)) - 1
        BY <4>2, InUseFinite, FS_RemoveElement
      <4>4. QED
        BY <3>2, <4>3 DEF PoolSound, used
    <3>3. QED
      BY <2>2, <3>1, <3>2
  <2>10. used \in 0..SlotCount
    BY <2>9, InUseFinite
  <2>11. q \in Pool
    BY <2>5, <2>6, <2>8, <2>10 DEF Pool
  <2>12. \A t \in Slots : q.slot[t].inUse <=> q.slot[t].refs > 0
    BY <2>6, <2>7, <2>8 DEF PoolSound
  <2>13. PoolSound(q)
    BY <2>6, <2>9, <2>11, <2>12 DEF PoolSound
  <2>14. ASSUME NEW t \in Slots
         PROVE  p.slot[t].refs = q.slot[t].refs + Refers(e, t) /\ q.slot[t].gen = p.slot[t].gen
    <3>1. CASE t = s
      BY <2>2, <2>6, <2>7, <2>8, <3>1 DEF Refers
    <3>2. CASE t # s
      <4>1. q.slot[t] = p.slot[t] /\ Refers(e, t) = 0 /\ p.slot[t].refs \in Nat
        BY <1>0, <2>6, <2>8, <3>2 DEF Refers, Slot
      <4>2. QED
        BY <4>1
    <3>3. QED
      BY <3>1, <3>2
  <2>15. QED
    BY <2>13, <2>14 DEF q
<1>3. QED
  BY <1>1, <1>2

-----------------------------------------------------------------------------
(* The holders of references: the MQTT callback, the ring, the two           *)
(* mailboxes, the application's frame and the handler.                       *)

Held(m, r, n, c, a, u) == Range(m) \cup Range(r) \cup {a, u} \cup Range(n) \cup Range(c)

HeldNow == Held(mqttTask, ring, box["network"], box["command"], app.ev, run)

AppSound ==
    /\ app.pc \in {"publish", "dispose"} => app.ev \in Event
    /\ app.pc \in {"idle", "failed"} => app.ev = NoEvent

NetInv == NetTypeOK /\ SlotsExact /\ NeverRecycled /\ AppSound

\* Events without a slot are not counted.
LEMMA Slotless ==
  ASSUME NEW k, NEW s \in Slots
  PROVE  Refers(Plain(k), s) = 0 /\ Refers(NoEvent, s) = 0 /\ NoSlot \notin Slots
BY DEF Refers, Plain, NoEvent, NoSlot, Slots

LEMMA RangeMoves ==
  ASSUME NEW q \in Seq(Event), NEW e \in Event
  PROVE  /\ Range(Append(q, e)) = Range(q) \cup {e}
         /\ q # <<>> => Head(q) \in Range(q) /\ Head(q) \in Event
                        /\ Tail(q) \in Seq(Event) /\ Range(Tail(q)) \subseteq Range(q)
<1>1. Range(Append(q, e)) = Range(q) \cup {e}
  <2>1. DOMAIN Append(q, e) = 1..(Len(q) + 1) /\ DOMAIN q = 1..Len(q) /\ Len(q) \in Nat
        /\ Append(q, e)[Len(q) + 1] = e /\ \A i \in 1..Len(q) : Append(q, e)[i] = q[i]
    OBVIOUS
  <2>2. 1..(Len(q) + 1) = 1..Len(q) \cup {Len(q) + 1}
    BY <2>1
  <2> DEFINE n == Len(q)
             longer == Append(q, e)
  <2> HIDE DEF n, longer
  <2>3. Range(longer) = Range(q) \cup {e}
    BY <2>1, <2>2 DEF n, longer, Range
  <2>4. QED
    BY <2>3 DEF longer
<1>2. ASSUME q # <<>>
      PROVE  Head(q) \in Range(q) /\ Head(q) \in Event
             /\ Tail(q) \in Seq(Event) /\ Range(Tail(q)) \subseteq Range(q)
  <2>1. Head(q) = q[1] /\ 1 \in DOMAIN q /\ Tail(q) \in Seq(Event) /\ Head(q) \in Event
    BY <1>2
  <2>2. \A i \in DOMAIN Tail(q) : i + 1 \in DOMAIN q /\ Tail(q)[i] = q[i + 1]
    BY <1>2
  <2>3. QED
    BY <2>1, <2>2 DEF Range
<1>3. QED
  BY <1>1, <1>2

LEMMA HeldIsCounted ==
  ASSUME NEW m \in Seq(Event), NEW r \in Seq(Event), NEW n \in Seq(Event), NEW c \in Seq(Event),
         NEW a, NEW u, NEW s,
         NEW e \in Held(m, r, n, c, a, u), e.slot = s
  PROVE  ReferencesIn(m, s) + ReferencesIn(r, s) + Refers(a, s) + Refers(u, s)
             + ReferencesIn(n, s) + ReferencesIn(c, s) > 0
<1>1. /\ ReferencesIn(m, s) \in Nat /\ ReferencesIn(r, s) \in Nat
      /\ ReferencesIn(n, s) \in Nat /\ ReferencesIn(c, s) \in Nat
  BY CountType
<1>2. Refers(a, s) \in Nat /\ Refers(u, s) \in Nat
  BY DEF Refers
<1>3. \/ ReferencesIn(m, s) # 0 \/ ReferencesIn(r, s) # 0
      \/ ReferencesIn(n, s) # 0 \/ ReferencesIn(c, s) # 0
      \/ Refers(a, s) # 0 \/ Refers(u, s) # 0
  <2>1. \/ e \in Range(m) \/ e \in Range(r) \/ e \in Range(n) \/ e \in Range(c)
        \/ e = a \/ e = u
    BY DEF Held
  <2>2. CASE e = a \/ e = u
    BY <2>2 DEF Refers
  <2>3. CASE e \in Range(m)
    BY <2>3, CountZero
  <2>4. CASE e \in Range(r)
    BY <2>4, CountZero
  <2>5. CASE e \in Range(n)
    BY <2>5, CountZero
  <2>6. CASE e \in Range(c)
    BY <2>6, CountZero
  <2>7. QED
    BY <2>1, <2>2, <2>3, <2>4, <2>5, <2>6
<1> DEFINE i == ReferencesIn(m, s)
           j == ReferencesIn(r, s)
           k == ReferencesIn(n, s)
           l == ReferencesIn(c, s)
           v == Refers(a, s)
           w == Refers(u, s)
<1>4. i \in Nat /\ j \in Nat /\ k \in Nat /\ l \in Nat /\ v \in Nat /\ w \in Nat
  BY <1>1, <1>2
<1>5. i # 0 \/ j # 0 \/ k # 0 \/ l # 0 \/ v # 0 \/ w # 0
  BY <1>3
<1> HIDE DEF i, j, k, l, v, w
<1>6. i + j + v + w + k + l > 0
  BY ONLY <1>4, <1>5
<1>7. QED
  BY <1>6 DEF i, j, k, l, v, w

\* A held event's slot has references.
LEMMA HeldRefers ==
  ASSUME NetInv, NEW e \in HeldNow, e.slot # NoSlot, e \in Event
  PROVE  e.slot \in Slots /\ pool.slot[e.slot].refs > 0
<1>1. e.slot \in Slots
  BY DEF Event
<1>2. /\ mqttTask \in Seq(Event) /\ ring \in Seq(Event)
      /\ box["network"] \in Seq(Event) /\ box["command"] \in Seq(Event)
  BY DEF NetInv, NetTypeOK, Receivers
<1>3. SharesOf(e.slot) > 0
  BY <1>2, HeldIsCounted DEF HeldNow, SharesOf
<1>4. QED
  BY <1>1, <1>3 DEF NetInv, SlotsExact

LEMMA SoundNow ==
  ASSUME NetInv
  PROVE  PoolSound(pool)
BY DEF NetInv, NetTypeOK, SlotsExact, PoolSound, InUse

\* What a step owes: a sound pool, a reference for each holder, no new holder
\* of a slot and no slot with another payload.
LEMMA Kept ==
  ASSUME NetInv, NetTypeOK', PoolSound(pool'),
         \A t \in Slots : pool'.slot[t].refs = SharesOf(t)',
         \A e \in HeldNow' : e.slot # NoSlot =>
             e.slot \in Slots /\ pool'.slot[e.slot].gen = e.gen
  PROVE  SlotsExact' /\ NeverRecycled'
<1>1. SlotsExact'
  BY DEF PoolSound, InUse, SlotsExact
<1>2. /\ mqttTask' \in Seq(Event) /\ ring' \in Seq(Event)
      /\ box'["network"] \in Seq(Event) /\ box'["command"] \in Seq(Event)
  BY DEF NetTypeOK, Receivers
<1>3. ASSUME NEW e \in HeldNow', e.slot # NoSlot
      PROVE  pool'.slot[e.slot].inUse
  <2>1. SharesOf(e.slot)' > 0
    BY <1>2, <1>3, HeldIsCounted DEF HeldNow, SharesOf
  <2>2. QED
    BY <1>3, <2>1 DEF PoolSound
<1>4. NeverRecycled'
  BY <1>3 DEF NeverRecycled, HeldNow, Held
<1>5. QED
  BY <1>1, <1>4

LEMMA KeptGenerations ==
  ASSUME NetInv, NetTypeOK', PoolSound(pool'),
         \A t \in Slots : pool'.slot[t].refs = SharesOf(t)',
         \A t \in Slots : pool'.slot[t].gen = pool.slot[t].gen,
         \A e \in HeldNow' : e \in HeldNow \/ e.slot = NoSlot
  PROVE  SlotsExact' /\ NeverRecycled'
<1>1. \A e \in HeldNow : e.slot # NoSlot => e.slot \in Slots
  <2>1. \A e \in HeldNow : e \in Event \/ e = NoEvent
    <3>1. \A q \in Seq(Event) : Range(q) \subseteq Event
      BY DEF Range
    <3>2. /\ mqttTask \in Seq(Event) /\ ring \in Seq(Event)
          /\ box["network"] \in Seq(Event) /\ box["command"] \in Seq(Event)
          /\ app.ev \in Event \cup {NoEvent} /\ run \in Event \cup {NoEvent}
      BY DEF NetInv, NetTypeOK, Receivers, Frame
    <3>3. QED
      BY <3>1, <3>2 DEF HeldNow, Held
  <2>2. QED
    BY <2>1 DEF Event, NoEvent, Plain
<1>2. \A e \in HeldNow : e.slot # NoSlot => pool.slot[e.slot].gen = e.gen
  BY DEF NetInv, NeverRecycled, HeldNow, Held
<1>3. QED
  BY <1>1, <1>2, Kept

\* A step that moves no event keeps the accounts.
LEMMA Untouched ==
  ASSUME NetInv, NetTypeOK', UNCHANGED <<mqttTask, ring, pool, app, box, run>>
  PROVE  NetInv'
<1>1. SlotsExact' /\ NeverRecycled'
  BY DEF NetInv, SlotsExact, NeverRecycled, SharesOf
<1>2. AppSound'
  BY DEF NetInv, AppSound
<1>3. QED
  BY <1>1, <1>2 DEF NetInv

-----------------------------------------------------------------------------
(* The steps.                                                               *)

LEMMA EnvironmentKeeps ==
  ASSUME NetInv, Environment
  PROVE  NetInv'
<1>1. sysq' \in Seq({"GOT_IP", "DISCONNECTED"}) /\ age' \in 0..SettleTime /\ since' \in 0..Interval
      /\ ap' \in BOOLEAN /\ session' \in BOOLEAN /\ station' \in {"idle", "joining", "up"}
  <2>1. /\ sysq \in Seq({"GOT_IP", "DISCONNECTED"}) /\ age \in 0..SettleTime /\ since \in 0..Interval
        /\ ap \in BOOLEAN /\ session \in BOOLEAN /\ station \in {"idle", "joining", "up"}
        /\ SettleTime \in Nat /\ Interval \in Nat
    BY NetAdapterAssumption DEF NetInv, NetTypeOK
  <2>2. CASE AccessPoint
    BY <2>1, <2>2 DEF AccessPoint
  <2>3. CASE TimePasses
    BY <2>1, <2>3 DEF TimePasses
  <2>4. CASE Joins
    BY <2>1, <2>4 DEF Joins
  <2>5. CASE Renews
    BY <2>1, <2>5 DEF Renews
  <2>6. CASE Loses
    BY <2>1, <2>6 DEF Loses
  <2>7. QED
    BY <2>2, <2>3, <2>4, <2>5, <2>6 DEF Environment
<1>2. NetTypeOK'
  BY <1>1 DEF Environment, application, NetInv, NetTypeOK, RingAccepts
<1>3. QED
  BY <1>2, Untouched DEF Environment, application

LEMMA NoteWifiUpKeeps ==
  ASSUME NetInv, NoteWifiUp
  PROVE  NetInv'
<1>1. wifiTask' \in Seq(StateKinds \cup {"CONNECT"})
  <2>1. "WIFI_UP" \in StateKinds \cup {"CONNECT"}
    BY DEF StateKinds
  <2> DEFINE Work == StateKinds \cup {"CONNECT"}
  <2> HIDE DEF Work
  <2>2. <<"WIFI_UP">> \in Seq(Work) /\ <<>> \in Seq(Work)
    BY <2>1 DEF Work
  <2>3. QED
    BY <2>2 DEF NoteWifiUp, Work
<1>2. sysq' \in Seq({"GOT_IP", "DISCONNECTED"})
  BY DEF NoteWifiUp, SystemEvent, NetInv, NetTypeOK
<1>3. NetTypeOK'
  BY <1>1, <1>2 DEF NoteWifiUp, application, NetInv, NetTypeOK
<1>4. QED
  BY <1>3, Untouched DEF NoteWifiUp, application

LEMMA NoteWifiDownKeeps ==
  ASSUME NetInv, NoteWifiDown
  PROVE  NetInv'
<1>1. wifiTask' \in Seq(StateKinds \cup {"CONNECT"})
  <2> DEFINE Work == StateKinds \cup {"CONNECT"}
  <2>1. "WIFI_DOWN" \in Work /\ "MQTT_DOWN" \in Work /\ "CONNECT" \in Work
    BY DEF StateKinds
  <2> HIDE DEF Work
  <2>2. /\ (IF mqttConnected THEN <<"MQTT_DOWN">> ELSE <<>>) \in Seq(Work)
        /\ (IF wifiConnected THEN <<"WIFI_DOWN">> ELSE <<>>) \in Seq(Work)
        /\ (IF ReconnectDue THEN <<"CONNECT">> ELSE <<>>) \in Seq(Work)
    BY <2>1
  <2> DEFINE a == IF mqttConnected THEN <<"MQTT_DOWN">> ELSE <<>>
             b == IF wifiConnected THEN <<"WIFI_DOWN">> ELSE <<>>
             c == IF ReconnectDue THEN <<"CONNECT">> ELSE <<>>
  <2>3. wifiTask' = a \o b \o c
    BY DEF NoteWifiDown
  <2>4. a \in Seq(Work) /\ b \in Seq(Work) /\ c \in Seq(Work)
    BY <2>2
  <2> HIDE DEF a, b, c
  <2>5. wifiTask' \in Seq(Work)
    BY <2>3, <2>4
  <2>6. QED
    BY <2>5 DEF Work
<1>2. sysq' \in Seq({"GOT_IP", "DISCONNECTED"}) /\ since' \in 0..Interval
  BY NetAdapterAssumption DEF NoteWifiDown, SystemEvent, NetInv, NetTypeOK
<1>3. NetTypeOK'
  BY <1>1, <1>2 DEF NoteWifiDown, application, NetInv, NetTypeOK
<1>4. QED
  BY <1>3, Untouched DEF NoteWifiDown, application

LEMMA WifiReconnectsKeeps ==
  ASSUME NetInv, WifiReconnects
  PROVE  NetInv'
<1>1. wifiTask' \in Seq(StateKinds \cup {"CONNECT"}) /\ age' \in 0..SettleTime
      /\ station' \in {"idle", "joining", "up"}
  BY NetAdapterAssumption DEF WifiReconnects, NetInv, NetTypeOK
<1>2. NetTypeOK'
  BY <1>1 DEF WifiReconnects, application, NetInv, NetTypeOK
<1>3. QED
  BY <1>2, Untouched DEF WifiReconnects, application

LEMMA PushKeeps ==
  ASSUME NetInv, NEW e \in Event, PushEvent(e)
  PROVE  /\ ring' \in Seq(Event) /\ Len(ring') <= RingCap /\ dropped' \in BOOLEAN
         /\ Range(ring') \subseteq Range(ring) \cup {e}
         /\ RingAccepts => \A s : ReferencesIn(ring', s) = ReferencesIn(ring, s) + Refers(e, s)
         /\ ~RingAccepts => ring' = ring
<1>1. ring \in Seq(Event) /\ Len(ring) <= RingCap /\ RingCap \in Nat /\ dropped \in BOOLEAN
  BY NetAdapterAssumption DEF NetInv, NetTypeOK
<1>2. CASE RingAccepts
  <2>1. ring' = Append(ring, e) /\ Len(ring) < RingCap
    BY <1>2 DEF PushEvent, RingAccepts
  <2>2. Append(ring, e) \in Seq(Event) /\ Len(Append(ring, e)) = Len(ring) + 1
    BY <1>1
  <2>3. Len(ring') <= RingCap
    BY <1>1, <2>1, <2>2
  <2>4. \A s : ReferencesIn(Append(ring, e), s) = ReferencesIn(ring, s) + Refers(e, s)
    BY <1>1, CountAppend
  <2>5. QED
    BY <1>1, <1>2, <2>1, <2>2, <2>3, <2>4, RangeMoves DEF PushEvent
<1>3. CASE ~RingAccepts
  BY <1>1, <1>3 DEF PushEvent
<1>4. QED
  BY <1>2, <1>3

LEMMA PlainEvent ==
  ASSUME NEW k \in StateKinds \cup {"RX"}
  PROVE  Plain(k) \in Event /\ Plain(k).slot = NoSlot /\ Plain(k).kind = k
<1>1. MaxGen \in Nat /\ 0 \in 0..MaxGen
  BY NetAdapterAssumption
<1>2. QED
  BY <1>1 DEF Plain, Event

LEMMA WifiPushesKeeps ==
  ASSUME NetInv, WifiPushes
  PROVE  NetInv'
<1> DEFINE e == Plain(Head(wifiTask))
<1>1. Head(wifiTask) \in StateKinds /\ Tail(wifiTask) \in Seq(StateKinds \cup {"CONNECT"})
  BY DEF WifiPushes, NetInv, NetTypeOK
<1>2. e \in Event /\ e.slot = NoSlot /\ PushEvent(e) /\ \A s \in Slots : Refers(e, s) = 0
  BY <1>1, PlainEvent, Slotless DEF WifiPushes
<1> HIDE DEF e
<1>3. /\ ring' \in Seq(Event) /\ Len(ring') <= RingCap /\ dropped' \in BOOLEAN
      /\ Range(ring') \subseteq Range(ring) \cup {e}
      /\ RingAccepts => \A s : ReferencesIn(ring', s) = ReferencesIn(ring, s) + Refers(e, s)
      /\ ~RingAccepts => ring' = ring
  BY <1>2, PushKeeps
<1>4. NetTypeOK'
  BY <1>1, <1>3 DEF WifiPushes, external, application, NetInv, NetTypeOK
<1>5. ring \in Seq(Event) /\ \A s \in Slots : ReferencesIn(ring, s) \in Nat
  BY CountType DEF NetInv, NetTypeOK
<1>6. \A s \in Slots : ReferencesIn(ring', s) = ReferencesIn(ring, s)
  BY <1>2, <1>3, <1>5
<1>7. \A s \in Slots : SharesOf(s)' = SharesOf(s)
  BY <1>6 DEF SharesOf, WifiPushes, application
<1>8. \A s \in Slots : pool'.slot[s].refs = SharesOf(s)' /\ pool'.slot[s].gen = pool.slot[s].gen
  BY <1>7 DEF NetInv, SlotsExact, WifiPushes
<1>9. PoolSound(pool')
  BY SoundNow DEF WifiPushes
<1>10. \A f \in HeldNow' : f \in HeldNow \/ f.slot = NoSlot
  BY <1>2, <1>3 DEF HeldNow, Held, WifiPushes, application
<1>11. SlotsExact' /\ NeverRecycled'
  BY <1>4, <1>8, <1>9, <1>10, KeptGenerations
<1>12. AppSound'
  BY DEF NetInv, AppSound, WifiPushes, application
<1>13. QED
  BY <1>4, <1>11, <1>12 DEF NetInv

\* A step that gives the MQTT callback one event without a slot.
LEMMA PlainNoted ==
  ASSUME NetInv, NetTypeOK', mqttTask = <<>>,
         \/ mqttTask' = <<>>
         \/ \E k \in StateKinds \cup {"RX"} : mqttTask' = <<Plain(k)>>,
         UNCHANGED <<ring, pool, app, box, run>>
  PROVE  NetInv'
<1>1. CASE mqttTask' = <<>>
  <2>1. UNCHANGED <<mqttTask, ring, pool, app, box, run>>
    BY <1>1
  <2>2. QED
    BY <2>1, Untouched
<1>2. ASSUME NEW k \in StateKinds \cup {"RX"}, mqttTask' = <<Plain(k)>>
      PROVE  NetInv'
  <2>1. Plain(k) \in Event /\ Plain(k).slot = NoSlot
    BY PlainEvent
  <2> DEFINE e == Plain(k)
  <2>2. e \in Event /\ e.slot = NoSlot /\ mqttTask' = <<e>> /\ \A s \in Slots : Refers(e, s) = 0
    BY <1>2, <2>1, Slotless
  <2> HIDE DEF e
  <2>3. \A s \in Slots : ReferencesIn(mqttTask', s) = 0 /\ ReferencesIn(mqttTask, s) = 0
    BY <2>2, CountOne, CountEmpty
  <2>4. \A s \in Slots : SharesOf(s)' = SharesOf(s)
    BY <2>3 DEF SharesOf
  <2>5. \A s \in Slots : pool'.slot[s].refs = SharesOf(s)' /\ pool'.slot[s].gen = pool.slot[s].gen
    BY <2>4 DEF NetInv, SlotsExact
  <2>6. PoolSound(pool')
    BY SoundNow
  <2>7. Range(<<e>>) = {e}
    BY DEF Range
  <2>8. \A f \in HeldNow' : f \in HeldNow \/ f.slot = NoSlot
    BY <2>2, <2>7 DEF HeldNow, Held
  <2>9. SlotsExact' /\ NeverRecycled'
    BY <2>5, <2>6, <2>8, KeptGenerations
  <2>10. AppSound'
    BY DEF NetInv, AppSound
  <2>11. QED
    BY <2>9, <2>10 DEF NetInv
<1>3. QED
  BY <1>1, <1>2

LEMMA NoteMqttKeeps ==
  ASSUME NetInv, NoteMqttUp \/ NoteMqttDown \/ MqttInline
  PROVE  NetInv'
<1>1. mqttTask = <<>> /\ UNCHANGED <<ring, pool, app, box, run>>
  BY DEF NoteMqttUp, NoteMqttDown, MqttInline, MqttCalled, application
<1>2. "MQTT_UP" \in StateKinds \cup {"RX"} /\ "MQTT_DOWN" \in StateKinds \cup {"RX"}
      /\ "RX" \in StateKinds \cup {"RX"}
  BY DEF StateKinds
<1>3. \/ mqttTask' = <<>>
      \/ \E k \in StateKinds \cup {"RX"} : mqttTask' = <<Plain(k)>>
  BY <1>2 DEF NoteMqttUp, NoteMqttDown, MqttInline
<1>4. mqttTask' \in Seq(Event)
  <2>1. ASSUME NEW k \in StateKinds \cup {"RX"} PROVE <<Plain(k)>> \in Seq(Event)
    <3>1. Plain(k) \in Event
      BY PlainEvent
    <3>2. QED
      BY <3>1
  <2>2. CASE mqttTask' = <<>>
    BY <2>2
  <2>3. CASE \E k \in StateKinds \cup {"RX"} : mqttTask' = <<Plain(k)>>
    <3>1. PICK k \in StateKinds \cup {"RX"} : mqttTask' = <<Plain(k)>>
      BY <2>3
    <3>2. QED
      BY <2>1, <3>1
  <2>4. QED
    BY <1>3, <2>2, <2>3
<1>5. NetTypeOK'
  <2>1. CASE NoteMqttUp
    BY <1>4, <2>1 DEF NoteMqttUp, application, NetInv, NetTypeOK
  <2>2. CASE NoteMqttDown
    BY <1>4, <2>2 DEF NoteMqttDown, application, NetInv, NetTypeOK
  <2>3. CASE MqttInline
    BY <1>4, <2>3 DEF MqttInline, application, external, NetInv, NetTypeOK
  <2>4. QED
    BY <2>1, <2>2, <2>3
<1>6. QED
  BY <1>1, <1>3, <1>5, PlainNoted

\* The slot acquired was free, so nothing refers to it yet.
LEMMA MqttStoredKeeps ==
  ASSUME NetInv, MqttStored
  PROVE  NetInv'
<1> DEFINE s == FirstFree(pool)
           e == [kind |-> "RX_LEASE", slot |-> s, gen |-> pool'.slot[s].gen]
<1>1. /\ mqttTask = <<>> /\ pool' = Acquired(pool, s) /\ mqttTask' = <<e>>
      /\ UNCHANGED <<ring, app, box, run>>
  BY DEF MqttStored, MqttCalled, application
<1>2. s \in FreeSlots(pool)
  <2>1. FreeSlots(pool) \subseteq 1..SlotCount /\ FreeSlots(pool) # {} /\ SlotCount \in Nat
    BY NetAdapterAssumption DEF MqttStored, FreeSlots, Slots
  <2>2. \E x \in FreeSlots(pool) : \A y \in FreeSlots(pool) : x <= y
    BY <2>1, LeastOf
  <2>3. QED
    BY <2>2 DEF FirstFree
<1> HIDE DEF s
<1>3. /\ PoolSound(pool') /\ pool.slot[s].refs = 0 /\ pool'.slot[s].refs = 1
      /\ \A t \in Slots \ {s} : pool'.slot[t] = pool.slot[t]
  BY <1>1, <1>2, SoundNow, AcquireSound
<1>4. s \in Slots /\ pool'.slot[s] \in Slot /\ pool' \in Pool
  BY <1>2, <1>3 DEF FreeSlots, PoolSound, Pool
<1>5. e \in Event /\ e.slot = s /\ e.gen = pool'.slot[s].gen
  BY <1>4 DEF Event, Slot
<1> HIDE DEF e
<1>6. NetTypeOK'
  <2>1. <<e>> \in Seq(Event)
    BY <1>5
  <2>2. QED
    BY <1>1, <1>4, <2>1 DEF MqttStored, external, application, NetInv, NetTypeOK
<1>7. \A t \in Slots : ReferencesIn(mqttTask, t) = 0 /\ ReferencesIn(mqttTask', t) = Refers(e, t)
  BY <1>1, <1>5, CountOne, CountEmpty
<1>8. \A t \in Slots : pool'.slot[t].refs = SharesOf(t)'
  <2> SUFFICES ASSUME NEW t \in Slots PROVE pool'.slot[t].refs = SharesOf(t)'
    OBVIOUS
  <2>1. /\ ReferencesIn(ring, t) \in Nat /\ Refers(app.ev, t) \in Nat /\ Refers(run, t) \in Nat
        /\ ReferencesIn(box["network"], t) \in Nat /\ ReferencesIn(box["command"], t) \in Nat
    BY CountType DEF NetInv, NetTypeOK, Receivers, Refers
  <2>2. SharesOf(t)' = Refers(e, t) + SharesOf(t) /\ SharesOf(t) \in Nat
    <3>1. Refers(e, t) \in Nat
      BY DEF Refers
    <3>2. /\ ReferencesIn(ring', t) = ReferencesIn(ring, t) /\ Refers(app'.ev, t) = Refers(app.ev, t)
          /\ Refers(run', t) = Refers(run, t)
          /\ ReferencesIn(box'["network"], t) = ReferencesIn(box["network"], t)
          /\ ReferencesIn(box'["command"], t) = ReferencesIn(box["command"], t)
      BY <1>1
    <3>3. QED
      BY <1>7, <2>1, <3>1, <3>2 DEF SharesOf
  <2>3. pool.slot[t].refs = SharesOf(t)
    BY DEF NetInv, SlotsExact
  <2>4. CASE t = s
    BY <1>3, <1>5, <2>2, <2>3, <2>4 DEF Refers
  <2>5. CASE t # s
    <3>1. Refers(e, t) = 0 /\ pool'.slot[t] = pool.slot[t]
      BY <1>3, <1>5, <2>5 DEF Refers
    <3>2. QED
      BY <2>2, <2>3, <3>1
  <2>6. QED
    BY <2>4, <2>5
<1>9. \A f \in HeldNow' : f.slot # NoSlot =>
          f.slot \in Slots /\ pool'.slot[f.slot].gen = f.gen
  <2> SUFFICES ASSUME NEW f \in HeldNow', f.slot # NoSlot
               PROVE  f.slot \in Slots /\ pool'.slot[f.slot].gen = f.gen
    OBVIOUS
  <2>1. Range(<<e>>) = {e}
    BY DEF Range
  <2>2. CASE f = e
    BY <1>4, <1>5, <2>2
  <2>3. CASE f # e
    <3>1. f \in HeldNow
      BY <1>1, <2>1, <2>3 DEF HeldNow, Held
    <3>2. f \in Event
      <4>1. f \in Event \/ f = NoEvent
        BY <3>1 DEF NetInv, NetTypeOK, HeldNow, Held, Range, Receivers, Frame
      <4>2. QED
        BY <4>1 DEF NoEvent, Plain
    <3>3. f.slot \in Slots /\ pool.slot[f.slot].refs > 0
      BY <3>1, <3>2, HeldRefers
    <3>4. f.slot # s
      BY <1>3, <3>3
    <3>5. pool.slot[f.slot].gen = f.gen
      BY <3>1 DEF NetInv, NeverRecycled, HeldNow, Held
    <3>6. QED
      BY <1>3, <3>3, <3>4, <3>5
  <2>4. QED
    BY <2>2, <2>3
<1>10. SlotsExact' /\ NeverRecycled'
  BY <1>3, <1>6, <1>8, <1>9, Kept
<1>11. AppSound'
  BY <1>1 DEF NetInv, AppSound
<1>12. QED
  BY <1>6, <1>10, <1>11 DEF NetInv

LEMMA MqttPushesKeeps ==
  ASSUME NetInv, MqttPushes
  PROVE  NetInv'
<1> DEFINE e == Head(mqttTask)
<1>1. mqttTask \in Seq(Event) /\ mqttTask # <<>> /\ mqttTask' = Tail(mqttTask) /\ PushEvent(e)
      /\ UNCHANGED <<app, box, run>>
      /\ pool' = IF RingAccepts THEN pool ELSE Released(pool, e.slot)
  BY DEF MqttPushes, application, NetInv, NetTypeOK
<1>2. e \in Event /\ e \in Range(mqttTask) /\ Tail(mqttTask) \in Seq(Event)
      /\ Range(Tail(mqttTask)) \subseteq Range(mqttTask)
  BY <1>1, RangeMoves
<1>3. \A t : ReferencesIn(mqttTask, t) = Refers(e, t) + ReferencesIn(mqttTask', t)
  BY <1>1, CountTail
<1> HIDE DEF e
<1>4. /\ ring' \in Seq(Event) /\ Len(ring') <= RingCap /\ dropped' \in BOOLEAN
      /\ Range(ring') \subseteq Range(ring) \cup {e}
      /\ RingAccepts => \A t : ReferencesIn(ring', t) = ReferencesIn(ring, t) + Refers(e, t)
      /\ ~RingAccepts => ring' = ring
  BY <1>1, <1>2, PushKeeps
<1>5. e \in HeldNow
  BY <1>2 DEF HeldNow, Held
<1>6. e.slot # NoSlot => pool.slot[e.slot].refs > 0
  BY <1>2, <1>5, HeldRefers
<1>7. PoolSound(pool') /\ \A t \in Slots :
          /\ pool.slot[t].refs = pool'.slot[t].refs + (IF RingAccepts THEN 0 ELSE Refers(e, t))
          /\ pool'.slot[t].refs \in Nat
          /\ pool'.slot[t].gen = pool.slot[t].gen
  <2>1. PoolSound(pool)
    BY SoundNow
  <2>2. PoolSound(pool') => \A t \in Slots : pool'.slot[t].refs \in Nat
    BY DEF PoolSound, Pool, Slot
  <2>3. CASE RingAccepts
    BY <1>1, <2>1, <2>2, <2>3
  <2>4. CASE ~RingAccepts
    <3>1. pool' = Released(pool, e.slot)
      BY <1>1, <2>4
    <3>2. PoolSound(pool') /\ \A t \in Slots :
              /\ pool.slot[t].refs = pool'.slot[t].refs + Refers(e, t)
              /\ pool'.slot[t].gen = pool.slot[t].gen
      BY <1>2, <1>6, <2>1, <3>1, ReleaseSound
    <3>3. QED
      BY <2>2, <2>4, <3>2
  <2>5. QED
    BY <2>3, <2>4
<1>8. NetTypeOK'
  BY <1>1, <1>2, <1>4, <1>7 DEF MqttPushes, external, application, NetInv, NetTypeOK, PoolSound
<1>9. \A t \in Slots : pool'.slot[t].refs = SharesOf(t)'
  <2> SUFFICES ASSUME NEW t \in Slots PROVE pool'.slot[t].refs = SharesOf(t)'
    OBVIOUS
  <2>1. /\ ReferencesIn(ring, t) \in Nat /\ Refers(app.ev, t) \in Nat /\ Refers(run, t) \in Nat
        /\ ReferencesIn(box["network"], t) \in Nat /\ ReferencesIn(box["command"], t) \in Nat
        /\ ReferencesIn(mqttTask', t) \in Nat /\ Refers(e, t) \in Nat
    BY <1>1, <1>2, CountType DEF NetInv, NetTypeOK, Receivers, Refers
  <2>2. SharesOf(t)' = ReferencesIn(mqttTask', t) + ReferencesIn(ring', t) + Refers(app.ev, t)
                       + Refers(run, t) + ReferencesIn(box["network"], t)
                       + ReferencesIn(box["command"], t)
    BY <1>1 DEF SharesOf
  <2>3. pool.slot[t].refs = Refers(e, t) + ReferencesIn(mqttTask', t) + ReferencesIn(ring, t)
                            + Refers(app.ev, t) + Refers(run, t)
                            + ReferencesIn(box["network"], t) + ReferencesIn(box["command"], t)
    <3>1. pool.slot[t].refs = SharesOf(t)
      BY DEF NetInv, SlotsExact
    <3>2. ReferencesIn(mqttTask, t) = Refers(e, t) + ReferencesIn(mqttTask', t)
      BY <1>3
    <3>3. QED
      BY <3>1, <3>2 DEF SharesOf
  <2>4. pool.slot[t].refs = pool'.slot[t].refs + (IF RingAccepts THEN 0 ELSE Refers(e, t))
        /\ pool'.slot[t].refs \in Nat
    BY <1>7
  <2>5. CASE RingAccepts
    <3>1. ReferencesIn(ring', t) = ReferencesIn(ring, t) + Refers(e, t)
      BY <1>4, <2>5
    <3>2. QED
      BY <2>1, <2>2, <2>3, <2>4, <2>5, <3>1
  <2>6. CASE ~RingAccepts
    <3>1. ring' = ring
      BY <1>4, <2>6
    <3>2. QED
      BY <2>1, <2>2, <2>3, <2>4, <2>6, <3>1
  <2>7. QED
    BY <2>5, <2>6
<1>10. \A f \in HeldNow' : f \in HeldNow \/ f.slot = NoSlot
  BY <1>1, <1>2, <1>4 DEF HeldNow, Held
<1>11. SlotsExact' /\ NeverRecycled'
  BY <1>7, <1>8, <1>9, <1>10, KeptGenerations
<1>12. AppSound'
  BY <1>1 DEF NetInv, AppSound
<1>13. QED
  BY <1>8, <1>11, <1>12 DEF NetInv

LEMMA PollKeeps ==
  ASSUME NetInv, PollIngress
  PROVE  NetInv'
<1> DEFINE e == Head(ring)
<1>1. /\ ring \in Seq(Event) /\ ring # <<>> /\ ring' = Tail(ring) /\ app.pc = "idle"
      /\ app' = [IdleApp EXCEPT !.pc = "publish", !.ev = e]
      /\ UNCHANGED <<mqttTask, pool, box, run>>
  BY DEF PollIngress, Idle, NetInv, NetTypeOK
<1>2. e \in Event /\ e \in Range(ring) /\ Tail(ring) \in Seq(Event)
      /\ Range(Tail(ring)) \subseteq Range(ring)
  BY <1>1, RangeMoves
<1>3. \A t : ReferencesIn(ring, t) = Refers(e, t) + ReferencesIn(ring', t)
  BY <1>1, CountTail
<1>4. Len(ring') <= RingCap
  BY <1>1, NetAdapterAssumption DEF NetInv, NetTypeOK
<1> HIDE DEF e
<1>5. app' \in Frame /\ app'.ev = e /\ app'.pc = "publish" /\ app.ev = NoEvent
  <2>1. app' = [pc |-> "publish", ev |-> e, next |-> 1, ok |-> TRUE]
    BY <1>1 DEF IdleApp
  <2>2. app' \in Frame
    BY <1>2, <2>1 DEF Frame
  <2>3. app.ev = NoEvent
    BY <1>1 DEF NetInv, AppSound
  <2>4. QED
    BY <2>1, <2>2, <2>3
<1>6. NetTypeOK'
  BY <1>1, <1>2, <1>4, <1>5 DEF PollIngress, external, NetInv, NetTypeOK
<1>7. \A t \in Slots : SharesOf(t)' = SharesOf(t)
  <2> SUFFICES ASSUME NEW t \in Slots PROVE SharesOf(t)' = SharesOf(t)
    OBVIOUS
  <2>1. /\ ReferencesIn(ring', t) \in Nat /\ ReferencesIn(mqttTask, t) \in Nat
        /\ Refers(run, t) \in Nat /\ Refers(e, t) \in Nat
        /\ ReferencesIn(box["network"], t) \in Nat /\ ReferencesIn(box["command"], t) \in Nat
    BY <1>1, <1>2, CountType DEF NetInv, NetTypeOK, Receivers, Refers
  <2>2. Refers(app.ev, t) = 0 /\ Refers(app'.ev, t) = Refers(e, t)
    BY <1>5, Slotless
  <2>3. SharesOf(t)' = ReferencesIn(mqttTask, t) + ReferencesIn(ring', t) + Refers(e, t)
                       + Refers(run, t) + ReferencesIn(box["network"], t)
                       + ReferencesIn(box["command"], t)
    BY <1>1, <2>2 DEF SharesOf
  <2>4. QED
    BY <1>3, <2>1, <2>2, <2>3 DEF SharesOf
<1>8. \A t \in Slots : pool'.slot[t].refs = SharesOf(t)' /\ pool'.slot[t].gen = pool.slot[t].gen
  BY <1>1, <1>7 DEF NetInv, SlotsExact
<1>9. PoolSound(pool')
  BY <1>1, SoundNow
<1>10. \A f \in HeldNow' : f \in HeldNow \/ f.slot = NoSlot
  BY <1>1, <1>2, <1>5 DEF HeldNow, Held
<1>11. SlotsExact' /\ NeverRecycled'
  BY <1>6, <1>8, <1>9, <1>10, KeptGenerations
<1>12. AppSound'
  BY <1>2, <1>5 DEF AppSound
<1>13. QED
  BY <1>6, <1>11, <1>12 DEF NetInv

\* The fan-out: each queued copy counts, and the envelope keeps its own share.
LEMMA DeliverKeeps ==
  ASSUME NetInv, Deliver
  PROVE  NetInv'
<1> DEFINE e == app.ev
           a == Target
<1>1. /\ app.pc = "publish" /\ e \in Event /\ a \in Receivers /\ Len(box[a]) < MailCap
      /\ app.next \in 1..2
      /\ box' = [box EXCEPT ![a] = Append(@, e)] /\ pool' = Retained(pool, e.slot)
      /\ app' = [app EXCEPT !.next = @ + 1]
      /\ UNCHANGED <<mqttTask, ring, run>>
  <2>1. app.pc = "publish" /\ e \in Event /\ app.next \in 1..3 /\ app.next <= Len(Route(e.kind))
    BY DEF Deliver, FanOutOpen, NetInv, NetTypeOK, AppSound, Frame
  <2>2. /\ <<"network">>[1] = "network" /\ Len(<<"network">>) = 1
        /\ <<"network", "command">>[1] = "network" /\ <<"network", "command">>[2] = "command"
        /\ Len(<<"network", "command">>) = 2
    OBVIOUS
  <2>3. app.next \in 1..2 /\ Route(e.kind)[app.next] \in Receivers
    BY <2>1, <2>2 DEF Route, Receivers
  <2>4. QED
    BY <2>1, <2>3 DEF Deliver, Target
<1> HIDE DEF a
<1>2. /\ box \in [Receivers -> Seq(Event)] /\ app \in Frame /\ MailCap \in Nat
      /\ \A b \in Receivers : box[b] \in Seq(Event) /\ Len(box[b]) <= MailCap
  BY NetAdapterAssumption DEF NetInv, NetTypeOK
<1>3. /\ app' \in Frame /\ app'.ev = e /\ app'.pc = "publish"
  <2>1. app.next + 1 \in 1..3
    BY <1>1
  <2>2. app' = [app EXCEPT !.next = app.next + 1] /\ app \in Frame /\ app.pc = "publish"
    BY <1>1, <1>2
  <2>3. QED
    BY <2>1, <2>2 DEF Frame
<1>4. Append(box[a], e) \in Seq(Event) /\ Len(Append(box[a], e)) = Len(box[a]) + 1
      /\ Len(box[a]) \in Nat
  BY <1>1, <1>2
<1>5. /\ box' \in [Receivers -> Seq(Event)] /\ box'[a] = Append(box[a], e)
      /\ \A b \in Receivers \ {a} : box'[b] = box[b]
  BY <1>1, <1>2, <1>4
<1>6. \A b \in Receivers : Len(box'[b]) <= MailCap
  BY <1>1, <1>2, <1>4, <1>5
<1>7. e.slot # NoSlot => pool.slot[e.slot].refs > 0
  <2>1. e \in HeldNow
    BY DEF HeldNow, Held
  <2>2. QED
    BY <1>1, <2>1, HeldRefers
<1>8. PoolSound(pool') /\ \A t \in Slots :
          /\ pool'.slot[t].refs = pool.slot[t].refs + Refers(e, t)
          /\ pool'.slot[t].gen = pool.slot[t].gen
  BY <1>1, <1>7, SoundNow, RetainSound
<1>9. NetTypeOK'
  BY <1>3, <1>5, <1>6, <1>8 DEF Deliver, external, NetInv, NetTypeOK, PoolSound
<1>10. \A t \in Slots : pool'.slot[t].refs = SharesOf(t)'
  <2> SUFFICES ASSUME NEW t \in Slots PROVE pool'.slot[t].refs = SharesOf(t)'
    OBVIOUS
  <2>1. /\ ReferencesIn(ring, t) \in Nat /\ ReferencesIn(mqttTask, t) \in Nat
        /\ Refers(e, t) \in Nat /\ Refers(run, t) \in Nat
        /\ ReferencesIn(box["network"], t) \in Nat /\ ReferencesIn(box["command"], t) \in Nat
    BY <1>1, CountType DEF NetInv, NetTypeOK, Receivers, Refers
  <2>2. ReferencesIn(box'[a], t) = ReferencesIn(box[a], t) + Refers(e, t)
    BY <1>1, <1>2, <1>5, CountAppend
  <2>3. pool.slot[t].refs = ReferencesIn(mqttTask, t) + ReferencesIn(ring, t) + Refers(e, t)
                            + Refers(run, t) + ReferencesIn(box["network"], t)
                            + ReferencesIn(box["command"], t)
    BY DEF NetInv, SlotsExact, SharesOf
  <2>4. SharesOf(t)' = ReferencesIn(mqttTask, t) + ReferencesIn(ring, t) + Refers(e, t)
                       + Refers(run, t) + ReferencesIn(box'["network"], t)
                       + ReferencesIn(box'["command"], t)
    BY <1>1, <1>3 DEF SharesOf
  <2>5. CASE a = "network"
    <3>1. box'["command"] = box["command"]
      BY <1>5, <2>5 DEF Receivers
    <3>2. QED
      BY <1>8, <2>1, <2>2, <2>3, <2>4, <2>5, <3>1
  <2>6. CASE a = "command"
    <3>1. box'["network"] = box["network"]
      BY <1>5, <2>6 DEF Receivers
    <3>2. QED
      BY <1>8, <2>1, <2>2, <2>3, <2>4, <2>6, <3>1
  <2>7. QED
    BY <1>1, <2>5, <2>6 DEF Receivers
<1>11. \A f \in HeldNow' : f \in HeldNow \/ f.slot = NoSlot
  <2>1. Range(box'[a]) = Range(box[a]) \cup {e}
    BY <1>1, <1>2, <1>5, RangeMoves
  <2>2. Range(box'["network"]) \subseteq Range(box["network"]) \cup {e}
        /\ Range(box'["command"]) \subseteq Range(box["command"]) \cup {e}
    BY <1>1, <1>5, <2>1 DEF Receivers
  <2>3. QED
    BY <1>1, <1>3, <2>2 DEF HeldNow, Held
<1>12. SlotsExact' /\ NeverRecycled'
  BY <1>8, <1>9, <1>10, <1>11, KeptGenerations
<1>13. AppSound'
  BY <1>1, <1>3 DEF AppSound
<1>14. QED
  BY <1>9, <1>12, <1>13 DEF NetInv

LEMMA FanOutEndsKeeps ==
  ASSUME NetInv, DeliverFull \/ FanOutDone
  PROVE  NetInv'
<1>1. /\ app.pc = "publish" /\ UNCHANGED <<adapter, external, box, run, view>>
      /\ \/ app' = [app EXCEPT !.pc = "dispose", !.ok = FALSE]
         \/ app' = [app EXCEPT !.pc = "dispose"]
  BY DEF DeliverFull, FanOutDone, FanOutOpen
<1>2. app' \in Frame /\ app'.ev = app.ev /\ app'.pc = "dispose"
  BY <1>1 DEF NetInv, NetTypeOK, Frame
<1>3. NetTypeOK'
  BY <1>1, <1>2 DEF adapter, external, NetInv, NetTypeOK
<1>4. \A t \in Slots : pool'.slot[t].refs = SharesOf(t)' /\ pool'.slot[t].gen = pool.slot[t].gen
  BY <1>1, <1>2 DEF NetInv, SlotsExact, SharesOf, adapter
<1>5. PoolSound(pool')
  BY <1>1, SoundNow DEF adapter
<1>6. \A f \in HeldNow' : f \in HeldNow \/ f.slot = NoSlot
  BY <1>1, <1>2 DEF HeldNow, Held, adapter
<1>7. SlotsExact' /\ NeverRecycled'
  BY <1>3, <1>4, <1>5, <1>6, KeptGenerations
<1>8. AppSound'
  BY <1>1, <1>2 DEF NetInv, AppSound
<1>9. QED
  BY <1>3, <1>7, <1>8 DEF NetInv

\* The two places where a share is given back: the envelope and the handler.
LEMMA DisposeKeeps ==
  ASSUME NetInv, DisposeEvent
  PROVE  NetInv'
<1> DEFINE e == app.ev
<1>1. /\ app.pc = "dispose" /\ e \in Event /\ pool' = Released(pool, e.slot)
      /\ app' = IF app.ok THEN IdleApp ELSE [IdleApp EXCEPT !.pc = "failed"]
      /\ UNCHANGED <<mqttTask, ring, box, run>>
  BY DEF DisposeEvent, NetInv, AppSound
<1>2. app' \in Frame /\ app'.ev = NoEvent /\ app'.pc \in {"idle", "failed"}
  <2>1. IdleApp \in Frame /\ IdleApp.ev = NoEvent /\ IdleApp.pc = "idle"
    BY DEF IdleApp, Frame
  <2>2. [IdleApp EXCEPT !.pc = "failed"] \in Frame
        /\ [IdleApp EXCEPT !.pc = "failed"].ev = NoEvent
        /\ [IdleApp EXCEPT !.pc = "failed"].pc = "failed"
    BY <2>1 DEF Frame
  <2>3. QED
    BY <1>1, <2>1, <2>2
<1>3. e.slot # NoSlot => pool.slot[e.slot].refs > 0
  <2>1. e \in HeldNow
    BY DEF HeldNow, Held
  <2>2. QED
    BY <1>1, <2>1, HeldRefers
<1>4. PoolSound(pool') /\ \A t \in Slots :
          /\ pool.slot[t].refs = pool'.slot[t].refs + Refers(e, t)
          /\ pool'.slot[t].gen = pool.slot[t].gen
  BY <1>1, <1>3, SoundNow, ReleaseSound
<1>5. NetTypeOK'
  BY <1>2, <1>4 DEF DisposeEvent, external, NetInv, NetTypeOK, PoolSound
<1>6. \A t \in Slots : pool'.slot[t].refs = SharesOf(t)'
  <2> SUFFICES ASSUME NEW t \in Slots PROVE pool'.slot[t].refs = SharesOf(t)'
    OBVIOUS
  <2>1. /\ ReferencesIn(ring, t) \in Nat /\ ReferencesIn(mqttTask, t) \in Nat
        /\ Refers(e, t) \in Nat /\ Refers(run, t) \in Nat /\ pool'.slot[t].refs \in Nat
        /\ ReferencesIn(box["network"], t) \in Nat /\ ReferencesIn(box["command"], t) \in Nat
    BY <1>1, <1>4, CountType DEF NetInv, NetTypeOK, Receivers, Refers, PoolSound, Pool, Slot
  <2>2. pool.slot[t].refs = ReferencesIn(mqttTask, t) + ReferencesIn(ring, t) + Refers(e, t)
                            + Refers(run, t) + ReferencesIn(box["network"], t)
                            + ReferencesIn(box["command"], t)
    BY DEF NetInv, SlotsExact, SharesOf
  <2>3. Refers(app'.ev, t) = 0
    BY <1>2, Slotless
  <2>4. SharesOf(t)' = ReferencesIn(mqttTask, t) + ReferencesIn(ring, t) + 0
                       + Refers(run, t) + ReferencesIn(box["network"], t)
                       + ReferencesIn(box["command"], t)
    BY <1>1, <2>3 DEF SharesOf
  <2>5. QED
    BY <1>4, <2>1, <2>2, <2>4
<1>7. \A f \in HeldNow' : f \in HeldNow \/ f.slot = NoSlot
  <2>1. NoEvent.slot = NoSlot
    BY DEF NoEvent, Plain
  <2>2. QED
    BY <1>1, <1>2, <2>1 DEF HeldNow, Held
<1>8. SlotsExact' /\ NeverRecycled'
  BY <1>4, <1>5, <1>6, <1>7, KeptGenerations
<1>9. AppSound'
  BY <1>2 DEF AppSound
<1>10. QED
  BY <1>5, <1>8, <1>9 DEF NetInv

LEMMA HandlerDoneKeeps ==
  ASSUME NetInv, HandlerDone
  PROVE  NetInv'
<1> DEFINE e == run
<1>1. /\ e \in Event /\ pool' = Released(pool, e.slot) /\ run' = NoEvent
      /\ UNCHANGED <<mqttTask, ring, box, app>>
  BY DEF HandlerDone, NetInv, NetTypeOK
<1>2. e.slot # NoSlot => pool.slot[e.slot].refs > 0
  <2>1. e \in HeldNow
    BY DEF HeldNow, Held
  <2>2. QED
    BY <1>1, <2>1, HeldRefers
<1>3. PoolSound(pool') /\ \A t \in Slots :
          /\ pool.slot[t].refs = pool'.slot[t].refs + Refers(e, t)
          /\ pool'.slot[t].gen = pool.slot[t].gen
  BY <1>1, <1>2, SoundNow, ReleaseSound
<1>4. NetTypeOK'
  BY <1>1, <1>3 DEF HandlerDone, external, NetInv, NetTypeOK, PoolSound
<1>5. \A t \in Slots : pool'.slot[t].refs = SharesOf(t)'
  <2> SUFFICES ASSUME NEW t \in Slots PROVE pool'.slot[t].refs = SharesOf(t)'
    OBVIOUS
  <2>1. /\ ReferencesIn(ring, t) \in Nat /\ ReferencesIn(mqttTask, t) \in Nat
        /\ Refers(e, t) \in Nat /\ Refers(app.ev, t) \in Nat /\ pool'.slot[t].refs \in Nat
        /\ ReferencesIn(box["network"], t) \in Nat /\ ReferencesIn(box["command"], t) \in Nat
    BY <1>1, <1>3, CountType DEF NetInv, NetTypeOK, Receivers, Refers, PoolSound, Pool, Slot
  <2>2. pool.slot[t].refs = ReferencesIn(mqttTask, t) + ReferencesIn(ring, t)
                            + Refers(app.ev, t) + Refers(e, t)
                            + ReferencesIn(box["network"], t) + ReferencesIn(box["command"], t)
    BY DEF NetInv, SlotsExact, SharesOf
  <2>3. Refers(run', t) = 0
    BY <1>1, Slotless
  <2>4. SharesOf(t)' = ReferencesIn(mqttTask, t) + ReferencesIn(ring, t)
                       + Refers(app.ev, t) + 0
                       + ReferencesIn(box["network"], t) + ReferencesIn(box["command"], t)
    BY <1>1, <2>3 DEF SharesOf
  <2>5. QED
    BY <1>3, <2>1, <2>2, <2>4
<1>6. \A f \in HeldNow' : f \in HeldNow \/ f.slot = NoSlot
  <2>1. NoEvent.slot = NoSlot
    BY DEF NoEvent, Plain
  <2>2. QED
    BY <1>1, <2>1 DEF HeldNow, Held
<1>7. SlotsExact' /\ NeverRecycled'
  BY <1>3, <1>4, <1>5, <1>6, KeptGenerations
<1>8. AppSound'
  BY <1>1 DEF NetInv, AppSound
<1>9. QED
  BY <1>4, <1>7, <1>8 DEF NetInv

LEMMA HandleKeeps ==
  ASSUME NetInv, NEW a \in Receivers, Handle(a)
  PROVE  NetInv'
<1> DEFINE e == Head(box[a])
<1>1. /\ box \in [Receivers -> Seq(Event)] /\ box[a] \in Seq(Event) /\ box[a] # <<>>
      /\ run = NoEvent /\ run' = e /\ box' = [box EXCEPT ![a] = Tail(@)]
      /\ UNCHANGED <<mqttTask, ring, pool, app>>
  BY DEF Handle, Idle, adapter, NetInv, NetTypeOK
<1>2. e \in Event /\ e \in Range(box[a]) /\ Tail(box[a]) \in Seq(Event)
      /\ Range(Tail(box[a])) \subseteq Range(box[a])
  BY <1>1, RangeMoves
<1>3. \A t : ReferencesIn(box[a], t) = Refers(e, t) + ReferencesIn(Tail(box[a]), t)
  BY <1>1, CountTail
<1> HIDE DEF e
<1>4. /\ box' \in [Receivers -> Seq(Event)] /\ box'[a] = Tail(box[a])
      /\ \A b \in Receivers \ {a} : box'[b] = box[b]
  BY <1>1, <1>2
<1>5. \A b \in Receivers : Len(box'[b]) <= MailCap
  <2>1. \A b \in Receivers : Len(box[b]) <= MailCap
    BY DEF NetInv, NetTypeOK
  <2>2. Len(Tail(box[a])) <= MailCap
    BY <1>1, <2>1, NetAdapterAssumption
  <2>3. QED
    BY <1>4, <2>1, <2>2
<1>6. view' \in {"DISCONNECTED", "WIFI_UP", "MQTT_CONNECTED"}
  BY DEF Handle, Reaction, NetInv, NetTypeOK
<1>7. NetTypeOK'
  BY <1>1, <1>2, <1>4, <1>5, <1>6 DEF Handle, adapter, external, NetInv, NetTypeOK
<1>8. \A t \in Slots : SharesOf(t)' = SharesOf(t)
  <2> SUFFICES ASSUME NEW t \in Slots PROVE SharesOf(t)' = SharesOf(t)
    OBVIOUS
  <2>1. /\ ReferencesIn(ring, t) \in Nat /\ ReferencesIn(mqttTask, t) \in Nat
        /\ Refers(app.ev, t) \in Nat /\ Refers(e, t) \in Nat
        /\ ReferencesIn(box["network"], t) \in Nat /\ ReferencesIn(box["command"], t) \in Nat
        /\ ReferencesIn(box'["network"], t) \in Nat /\ ReferencesIn(box'["command"], t) \in Nat
    BY <1>4, CountType DEF NetInv, NetTypeOK, Receivers, Refers
  <2>2. Refers(run, t) = 0
    BY <1>1, Slotless
  <2>3. ReferencesIn(box[a], t) = Refers(e, t) + ReferencesIn(box'[a], t)
    BY <1>3, <1>4
  <2>4. SharesOf(t)' = ReferencesIn(mqttTask, t) + ReferencesIn(ring, t) + Refers(app.ev, t)
                       + Refers(e, t) + ReferencesIn(box'["network"], t)
                       + ReferencesIn(box'["command"], t)
    BY <1>1 DEF SharesOf
  <2>5. SharesOf(t) = ReferencesIn(mqttTask, t) + ReferencesIn(ring, t) + Refers(app.ev, t)
                      + 0 + ReferencesIn(box["network"], t) + ReferencesIn(box["command"], t)
    BY <2>2 DEF SharesOf
  <2>6. CASE a = "network"
    <3>1. box'["command"] = box["command"]
      BY <1>4, <2>6 DEF Receivers
    <3>2. QED
      BY <2>1, <2>3, <2>4, <2>5, <2>6, <3>1
  <2>7. CASE a = "command"
    <3>1. box'["network"] = box["network"]
      BY <1>4, <2>7 DEF Receivers
    <3>2. QED
      BY <2>1, <2>3, <2>4, <2>5, <2>7, <3>1
  <2>8. QED
    BY <2>6, <2>7 DEF Receivers
<1>9. \A t \in Slots : pool'.slot[t].refs = SharesOf(t)' /\ pool'.slot[t].gen = pool.slot[t].gen
  BY <1>1, <1>8 DEF NetInv, SlotsExact
<1>10. PoolSound(pool')
  BY <1>1, SoundNow
<1>11. \A f \in HeldNow' : f \in HeldNow \/ f.slot = NoSlot
  <2>1. Range(box'["network"]) \subseteq Range(box["network"])
        /\ Range(box'["command"]) \subseteq Range(box["command"])
        /\ e \in Range(box["network"]) \cup Range(box["command"])
    BY <1>2, <1>4 DEF Receivers
  <2>2. QED
    BY <1>1, <2>1 DEF HeldNow, Held
<1>12. SlotsExact' /\ NeverRecycled'
  BY <1>7, <1>9, <1>10, <1>11, KeptGenerations
<1>13. AppSound'
  BY <1>1 DEF NetInv, AppSound
<1>14. QED
  BY <1>7, <1>12, <1>13 DEF NetInv

\* A fresh start, at power-up and after a failed poll.
LEMMA FreshAccounts ==
  /\ PoolSound(FreshPool) /\ IdleApp \in Frame /\ IdleApp.ev = NoEvent /\ IdleApp.pc = "idle"
  /\ \A s \in Slots : FreshPool.slot[s].refs = 0
<1>1. FreeSlot \in Slot /\ ~FreeSlot.inUse /\ FreeSlot.refs = 0
  <2>1. 0 \in 0..MaxGen
    BY NetAdapterAssumption
  <2>2. QED
    BY <2>1 DEF FreeSlot, Slot
<1>2. FreshPool \in Pool /\ \A s \in Slots : FreshPool.slot[s] = FreeSlot
  <2>1. 0 \in 0..SlotCount
    BY NetAdapterAssumption
  <2>2. QED
    BY <1>1, <2>1 DEF FreshPool, Pool
<1>3. InUse(FreshPool) = {}
  BY <1>1, <1>2 DEF InUse
<1>4. FreshPool.used = Cardinality(InUse(FreshPool))
  BY <1>3, FS_EmptySet DEF FreshPool
<1>5. PoolSound(FreshPool)
  BY <1>1, <1>2, <1>4 DEF PoolSound
<1>6. IdleApp \in Frame /\ IdleApp.ev = NoEvent /\ IdleApp.pc = "idle"
  BY DEF IdleApp, Frame
<1>7. QED
  BY <1>1, <1>2, <1>5, <1>6

LEMMA EmptyBoxes ==
  ASSUME NEW b, b = [a \in Receivers |-> <<>>]
  PROVE  /\ b \in [Receivers -> Seq(Event)] /\ \A a \in Receivers : Len(b[a]) <= MailCap
         /\ b["network"] = <<>> /\ b["command"] = <<>>
<1>1. Len(<<>>) = 0 /\ <<>> \in Seq(Event) /\ 0 <= MailCap
  BY NetAdapterAssumption
<1>2. QED
  BY <1>1 DEF Receivers

LEMMA NothingHeld ==
  ASSUME NEW s \in Slots
  PROVE  /\ ReferencesIn(<<>>, s) + ReferencesIn(<<>>, s) + Refers(NoEvent, s) + Refers(NoEvent, s)
                + ReferencesIn(<<>>, s) + ReferencesIn(<<>>, s) = 0
         /\ Held(<<>>, <<>>, <<>>, <<>>, NoEvent, NoEvent) = {NoEvent}
<1>1. Range(<<>>) = {}
  BY DEF Range
<1>2. QED
  BY <1>1, CountEmpty, Slotless DEF Held

LEMMA NetStarts ==
  ASSUME NetInit
  PROVE  NetInv
<1>1. NetTypeOK
  <2>1. /\ Len(<<>>) = 0 /\ <<>> \in Seq(Event) /\ <<>> \in Seq({"GOT_IP", "DISCONNECTED"})
        /\ <<>> \in Seq(StateKinds \cup {"CONNECT"}) /\ 0 <= RingCap
        /\ 0 \in 0..SettleTime /\ Interval \in 0..Interval
    BY NetAdapterAssumption
  <2>2. box \in [Receivers -> Seq(Event)] /\ \A a \in Receivers : Len(box[a]) <= MailCap
    BY EmptyBoxes DEF NetInit
  <2>3. QED
    BY <2>1, <2>2, FreshAccounts, NetAdapterAssumption DEF NetInit, NetTypeOK, PoolSound
<1>2. mqttTask = <<>> /\ ring = <<>> /\ app.ev = NoEvent /\ run = NoEvent /\ pool = FreshPool
      /\ box["network"] = <<>> /\ box["command"] = <<>> /\ app.pc = "idle"
  BY EmptyBoxes, FreshAccounts DEF NetInit
<1>3. \A s \in Slots : SharesOf(s) = 0
  BY <1>2, NothingHeld DEF SharesOf
<1>4. SlotsExact
  BY <1>2, <1>3, FreshAccounts DEF SlotsExact, PoolSound, InUse
<1>5. NeverRecycled
  <2>1. Range(<<>>) = {} /\ NoEvent.slot = NoSlot
    BY DEF Range, NoEvent, Plain
  <2>2. QED
    BY <1>2, <2>1 DEF NeverRecycled
<1>6. AppSound
  BY <1>2 DEF AppSound
<1>7. QED
  BY <1>1, <1>4, <1>5, <1>6 DEF NetInv

LEMMA RestartKeeps ==
  ASSUME NetInv, Restart
  PROVE  NetInv'
<1>1. NetTypeOK'
  <2>1. /\ Len(<<>>) = 0 /\ <<>> \in Seq(Event) /\ <<>> \in Seq({"GOT_IP", "DISCONNECTED"})
        /\ <<>> \in Seq(StateKinds \cup {"CONNECT"}) /\ 0 <= RingCap
        /\ 0 \in 0..SettleTime /\ Interval \in 0..Interval /\ ap' \in BOOLEAN
    BY NetAdapterAssumption DEF Restart, NetInv, NetTypeOK
  <2>2. box' \in [Receivers -> Seq(Event)] /\ \A a \in Receivers : Len(box'[a]) <= MailCap
    BY EmptyBoxes DEF Restart
  <2>3. QED
    BY <2>1, <2>2, FreshAccounts DEF Restart, NetTypeOK, PoolSound
<1>2. mqttTask' = <<>> /\ ring' = <<>> /\ app'.ev = NoEvent /\ run' = NoEvent
      /\ pool' = FreshPool
      /\ box'["network"] = <<>> /\ box'["command"] = <<>> /\ app'.pc = "idle"
  BY EmptyBoxes, FreshAccounts DEF Restart
<1>3. \A s \in Slots : SharesOf(s)' = 0
  BY <1>2, NothingHeld DEF SharesOf
<1>4. SlotsExact'
  BY <1>2, <1>3, FreshAccounts DEF SlotsExact, PoolSound, InUse
<1>5. NeverRecycled'
  <2>1. Range(<<>>) = {} /\ NoEvent.slot = NoSlot
    BY DEF Range, NoEvent, Plain
  <2>2. QED
    BY <1>2, <2>1 DEF NeverRecycled
<1>6. AppSound'
  BY <1>2 DEF AppSound
<1>7. QED
  BY <1>1, <1>4, <1>5, <1>6 DEF NetInv

LEMMA NetStep ==
  ASSUME NetInv, [NetNext]_netVars
  PROVE  NetInv'
<1>1. CASE UNCHANGED netVars
  <2>1. UNCHANGED <<mqttTask, ring, pool, app, box, run>> /\ NetTypeOK'
    BY <1>1 DEF netVars, external, adapter, application, NetInv, NetTypeOK
  <2>2. QED
    BY <2>1, Untouched
<1>2. CASE Environment
  BY <1>2, EnvironmentKeeps
<1>3. CASE WifiTask
  BY <1>3, NoteWifiUpKeeps, NoteWifiDownKeeps, WifiPushesKeeps, WifiReconnectsKeeps DEF WifiTask
<1>4. CASE MqttTask
  BY <1>4, NoteMqttKeeps, MqttStoredKeeps, MqttPushesKeeps DEF MqttTask
<1>5. CASE PollIngress
  BY <1>5, PollKeeps
<1>6. CASE Publishing
  BY <1>6, DeliverKeeps, FanOutEndsKeeps, DisposeKeeps DEF Publishing
<1>7. CASE Restart
  BY <1>7, RestartKeeps
<1>8. ASSUME NEW a \in Receivers, Handle(a) PROVE NetInv'
  BY <1>8, HandleKeeps
<1>9. CASE HandlerDone
  BY <1>9, HandlerDoneKeeps
<1>10. QED
  BY <1>1, <1>2, <1>3, <1>4, <1>5, <1>6, <1>7, <1>8, <1>9 DEF NetNext

LEMMA NetInvAlways == NetSpec => []NetInv
BY NetStarts, NetStep, PTL DEF NetSpec

(* Whatever the callbacks, the ring, the fan-out and the handlers do to a    *)
(* payload slot between each other, refused events and restarts included,    *)
(* its count is the number of references to it, and the diagnostics count is *)
(* the number of slots in use.                                               *)
THEOREM SlotsExactAlways == NetSpec => []SlotsExact
BY NetInvAlways, PTL DEF NetInv

(* An event or a message that refers to a payload slot finds there the       *)
(* payload it was made for.                                                  *)
THEOREM NeverRecycledAlways == NetSpec => []NeverRecycled
BY NetInvAlways, PTL DEF NetInv

-----------------------------------------------------------------------------
(* The default build: link states from the WiFi callback to ACT_NETWORK.     *)

WifiKinds == {"WIFI_UP", "WIFI_DOWN"}

\* What the WiFi callback may have left to do, without MQTT.
WifiWork == {<<>>, <<"WIFI_UP">>, <<"WIFI_DOWN">>, <<"WIFI_DOWN", "CONNECT">>, <<"CONNECT">>}

WifiOnly ==
    /\ mqttTask = <<>> /\ ~session /\ ~mqttConnected
    /\ \A e \in Range(ring) \cup Range(box["network"]) : e.kind \in WifiKinds
    /\ app.pc = "publish" => app.ev.kind \in WifiKinds /\ app.next \in 1..2
    /\ app.pc = "idle" => app.ok
    /\ wifiTask \in WifiWork
    /\ view \in {"DISCONNECTED", "WIFI_UP"}

\* A track alternates and ends in a given state.
Alternates(t, last) ==
    /\ t[Len(t)] = last
    /\ \A i \in 1..(Len(t) - 1) : t[i] # t[i + 1]

LEMMA TrackGrows ==
  ASSUME NEW t \in Seq(WifiKinds), t # <<>>, NEW old, NEW new \in WifiKinds, new # old,
         Alternates(t, old)
  PROVE  Alternates(t \o <<new>>, new)
<1> DEFINE n == Len(t)
           u == t \o <<new>>
<1>1. n \in Nat /\ n > 0 /\ Len(u) = n + 1 /\ u[n + 1] = new /\ \A i \in 1..n : u[i] = t[i]
  OBVIOUS
<1> HIDE DEF u, n
<1>2. t[n] = old /\ \A i \in 1..(n - 1) : t[i] # t[i + 1]
  BY DEF Alternates, n
<1>3. ASSUME NEW i \in 1..n PROVE u[i] # u[i + 1]
  <2>1. CASE i = n
    BY <1>1, <1>2, <2>1
  <2>2. CASE i # n
    <3>1. i \in 1..(n - 1) /\ i \in 1..n /\ i + 1 \in 1..n
      BY <1>1, <2>2
    <3>2. QED
      BY <1>1, <1>2, <3>1
  <2>3. QED
    BY <2>1, <2>2
<1>4. (n + 1) - 1 = n
  BY <1>1
<1>5. Alternates(u, new)
  BY <1>1, <1>3, <1>4 DEF Alternates
<1>6. QED
  BY <1>5 DEF u

LEMMA TrackShrinks ==
  ASSUME NEW t \in Seq(WifiKinds), t # <<>>, NEW v, NEW last, Alternates(<<v>> \o t, last),
         v \in WifiKinds
  PROVE  Alternates(t, last)
<1> DEFINE n == Len(t)
           u == <<v>> \o t
<1>1. n \in Nat /\ n > 0 /\ Len(u) = n + 1 /\ \A i \in 1..n : u[i + 1] = t[i]
  OBVIOUS
<1> HIDE DEF u, n
<1>2. u[n + 1] = last /\ \A i \in 1..((n + 1) - 1) : u[i] # u[i + 1]
  BY <1>1 DEF Alternates, u
<1>3. t[n] = last
  BY <1>1, <1>2
<1>4. ASSUME NEW i \in 1..(n - 1) PROVE t[i] # t[i + 1]
  <2>1. i \in 1..n /\ i + 1 \in 1..n /\ i + 1 \in 1..((n + 1) - 1)
    BY <1>1
  <2>2. QED
    BY <1>1, <1>2, <2>1
<1>5. QED
  BY <1>3, <1>4 DEF Alternates, n

LEMMA KindsMove ==
  ASSUME NEW q \in Seq(Event), \A e \in Range(q) : e.kind \in WifiKinds
  PROVE  /\ Kinds(q) \in Seq(WifiKinds) /\ Len(Kinds(q)) = Len(q)
         /\ \A e \in Event : Kinds(Append(q, e)) = Kinds(q) \o <<e.kind>>
         /\ q # <<>> => Kinds(q) = <<Head(q).kind>> \o Kinds(Tail(q))
<1>1. Kinds(q) \in Seq(WifiKinds) /\ Len(Kinds(q)) = Len(q)
  <2>1. Len(q) \in Nat /\ DOMAIN q = 1..Len(q) /\ \A i \in 1..Len(q) : q[i] \in Range(q)
    BY DEF Range
  <2>2. Kinds(q) \in [1..Len(q) -> WifiKinds]
    BY <2>1 DEF Kinds
  <2>3. QED
    BY <2>1, <2>2
<1>2. ASSUME NEW e \in Event
      PROVE  Kinds(Append(q, e)) = Kinds(q) \o <<e.kind>>
  <2> DEFINE n == Len(q)
             longer == Append(q, e)
             k == Kinds(q)
  <2>1. /\ n \in Nat /\ DOMAIN longer = 1..(n + 1) /\ longer[n + 1] = e
        /\ \A i \in 1..n : longer[i] = q[i]
    OBVIOUS
  <2>2. k \in Seq(WifiKinds) /\ Len(k) = n /\ \A i \in 1..n : k[i] = q[i].kind
    BY <1>1 DEF Kinds
  <2>3. Kinds(longer) = [i \in 1..(n + 1) |-> longer[i].kind]
    BY <2>1 DEF Kinds
  <2> HIDE DEF k, longer, n
  <2>4. k \o <<e.kind>> = [i \in 1..(n + 1) |-> IF i <= n THEN k[i] ELSE e.kind]
    BY <2>1, <2>2
  <2>5. \A i \in 1..(n + 1) : longer[i].kind = IF i <= n THEN k[i] ELSE e.kind
    <3> SUFFICES ASSUME NEW i \in 1..(n + 1)
                 PROVE  longer[i].kind = IF i <= n THEN k[i] ELSE e.kind
      OBVIOUS
    <3>1. i \in 1..n \/ i = n + 1
      BY <2>1
    <3>2. QED
      BY <2>1, <2>2, <3>1
  <2>6. QED
    BY <2>3, <2>4, <2>5 DEF k, longer
<1>3. ASSUME q # <<>>
      PROVE  Kinds(q) = <<Head(q).kind>> \o Kinds(Tail(q))
  <2> DEFINE n == Len(Tail(q))
             h == Head(q).kind
             rest == Kinds(Tail(q))
  <2>1. /\ n \in Nat /\ DOMAIN q = 1..(n + 1) /\ q[1] = Head(q)
        /\ DOMAIN Tail(q) = 1..n /\ \A i \in 1..n : Tail(q)[i] = q[i + 1]
    BY <1>3
  <2>2. rest = [i \in 1..n |-> q[i + 1].kind]
    BY <2>1 DEF Kinds
  <2>3. Kinds(q) = [i \in 1..(n + 1) |-> q[i].kind]
    BY <2>1 DEF Kinds
  <2>4. q[1].kind = h
    BY <2>1
  <2> HIDE DEF n, h, rest
  <2>5. rest \in Seq(WifiKinds) /\ Len(rest) = n
    <3>1. \A i \in 1..n : i + 1 \in 1..(n + 1)
      BY <2>1
    <3>2. \A i \in 1..(n + 1) : q[i].kind \in WifiKinds
      BY <2>1 DEF Range
    <3>3. rest \in [1..n -> WifiKinds]
      BY <2>2, <3>1, <3>2
    <3>4. QED
      BY <2>1, <3>3
  <2>6. <<h>> \o rest = [i \in 1..(n + 1) |-> IF i = 1 THEN h ELSE rest[i - 1]]
    BY <2>1, <2>5
  <2>7. \A i \in 1..(n + 1) : q[i].kind = IF i = 1 THEN h ELSE rest[i - 1]
    <3> SUFFICES ASSUME NEW i \in 1..(n + 1), i # 1
                 PROVE  q[i].kind = rest[i - 1]
      BY <2>4
    <3>1. i - 1 \in 1..n /\ (i - 1) + 1 = i
      BY <2>1
    <3>2. QED
      BY <2>2, <3>1
  <2>8. QED
    BY <2>3, <2>6, <2>7 DEF h, rest
<1>4. QED
  BY <1>1, <1>2, <1>3

\* Concatenation by its laws alone.
Cat(s, t) == s \o t

LEMMA CatLaws ==
  ASSUME NEW S
  PROVE  /\ \A s \in Seq(S), t \in Seq(S) : Cat(s, t) \in Seq(S)
         /\ \A s \in Seq(S), t \in Seq(S), u \in Seq(S) : Cat(Cat(s, t), u) = Cat(s, Cat(t, u))
         /\ \A s \in Seq(S) : Cat(s, <<>>) = s /\ Cat(<<>>, s) = s
<1>1. ASSUME NEW s \in Seq(S), NEW t \in Seq(S) PROVE Cat(s, t) \in Seq(S)
  BY ConcatProperties DEF Cat
<1>2. ASSUME NEW s \in Seq(S), NEW t \in Seq(S), NEW u \in Seq(S)
      PROVE  Cat(Cat(s, t), u) = Cat(s, Cat(t, u))
  BY ConcatAssociative DEF Cat
<1>3. ASSUME NEW s \in Seq(S) PROVE Cat(s, <<>>) = s /\ Cat(<<>>, s) = s
  BY ConcatEmptySeq DEF Cat
<1>4. QED
  BY <1>1, <1>2, <1>3

LEMMA Single ==
  ASSUME NEW S, NEW x \in S
  PROVE  /\ <<x>> \in Seq(S) /\ Len(<<x>>) = 1 /\ <<>> \in Seq(S)
         /\ \A t \in Seq(S) : /\ Cat(<<x>>, t) # <<>> /\ Head(Cat(<<x>>, t)) = x
                              /\ Tail(Cat(<<x>>, t)) = t /\ Append(t, x) = Cat(t, <<x>>)
<1>1. <<x>> \in Seq(S) /\ Len(<<x>>) = 1 /\ <<x>>[1] = x /\ <<>> \in Seq(S)
  OBVIOUS
<1> SUFFICES ASSUME NEW t \in Seq(S)
             PROVE  /\ Cat(<<x>>, t) # <<>> /\ Head(Cat(<<x>>, t)) = x
                    /\ Tail(Cat(<<x>>, t)) = t /\ Append(t, x) = Cat(t, <<x>>)
  BY <1>1
<1>2. Append(t, x) = Cat(t, <<x>>)
  BY <1>1, AppendIsConcat DEF Cat
<1> DEFINE u == Cat(<<x>>, t)
           v == Tail(u)
<1>3. /\ u \in Seq(S) /\ Len(u) = Len(t) + 1 /\ Len(t) \in Nat /\ u[1] = x
      /\ \A i \in 1..Len(t) : u[i + 1] = t[i]
  BY <1>1 DEF Cat
<1> HIDE DEF u
<1>4. u # <<>> /\ Head(u) = x /\ v \in Seq(S) /\ Len(v) = Len(t)
      /\ \A i \in 1..Len(v) : v[i] = u[i + 1]
  BY <1>3
<1> HIDE DEF v
<1>5. v = t
  BY <1>3, <1>4, SeqEqual
<1>6. QED
  BY <1>2, <1>4, <1>5 DEF u, v

\* Taking an element out of the middle.
LEMMA RemoveMiddle ==
  ASSUME NEW S, NEW s \in Seq(S), NEW x \in S, NEW t \in Seq(S)
  PROVE  \E i \in DOMAIN Cat(Cat(s, <<x>>), t) :
            RemoveAt(Cat(Cat(s, <<x>>), t), i) = Cat(s, t)
<1> DEFINE q == Cat(Cat(s, <<x>>), t)
           n == Len(s)
           m == Len(t)
<1>1. <<x>> \in Seq(S) /\ Len(<<x>>) = 1 /\ <<x>>[1] = x
  OBVIOUS
<1>2. n \in Nat /\ m \in Nat
  OBVIOUS
<1>3. /\ q \in Seq(S) /\ Len(q) = n + 1 + m /\ DOMAIN q = 1..(n + 1 + m)
      /\ \A i \in 1..n : q[i] = s[i]
      /\ \A i \in 1..m : q[n + 1 + i] = t[i]
  <2> DEFINE p == Cat(s, <<x>>)
  <2>1. p \in Seq(S) /\ Len(p) = n + 1 /\ \A i \in 1..n : p[i] = s[i]
    BY <1>1, <1>2 DEF Cat
  <2> HIDE DEF p, n
  <2>2. /\ Cat(p, t) \in Seq(S) /\ Len(Cat(p, t)) = n + 1 + m
        /\ \A i \in 1..(n + 1) : Cat(p, t)[i] = p[i]
        /\ \A i \in 1..m : Cat(p, t)[n + 1 + i] = t[i]
    BY <1>2, <2>1 DEF Cat
  <2>3. \A i \in 1..n : i \in 1..(n + 1)
    BY <1>2
  <2>4. DOMAIN Cat(p, t) = 1..Len(Cat(p, t))
    BY <2>2
  <2>5. QED
    BY <1>2, <2>1, <2>2, <2>3, <2>4 DEF p
<1> HIDE DEF q, n, m
<1>4. SubSeq(q, 1, (n + 1) - 1) = s
  <2> DEFINE u == SubSeq(q, 1, (n + 1) - 1)
  <2>1. (n + 1) - 1 = n /\ 1 \in 1..(Len(q) + 1) /\ n \in 0..Len(q)
    BY <1>2, <1>3
  <2>2. u \in Seq(S) /\ Len(u) = n /\ \A i \in 1..n : u[i] = q[i]
    BY <1>2, <1>3, <2>1
  <2> HIDE DEF u
  <2>3. u = s
    BY <1>2, <1>3, <2>2, SeqEqual DEF n
  <2>4. QED
    BY <2>3 DEF u
<1>5. SubSeq(q, (n + 1) + 1, Len(q)) = t
  <2> DEFINE u == SubSeq(q, (n + 1) + 1, Len(q))
  <2>1. u \in Seq(S) /\ Len(u) = m /\ \A i \in 1..m : u[i] = q[n + 1 + i]
    <3>1. u = [i \in 1..m |-> q[n + 1 + i]]
      BY <1>2, <1>3
    <3>2. \A i \in 1..m : q[n + 1 + i] \in S
      BY <1>2, <1>3
    <3> HIDE DEF u
    <3>3. QED
      BY <1>2, <3>1, <3>2
  <2> HIDE DEF u
  <2>2. u = t
    BY <1>2, <1>3, <2>1, SeqEqual DEF m
  <2>3. QED
    BY <2>2 DEF u
<1>6. RemoveAt(q, n + 1) = Cat(s, t)
  BY <1>4, <1>5 DEF RemoveAt, Cat
<1>7. n + 1 \in DOMAIN q
  BY <1>2, <1>3
<1>8. QED
  BY <1>6, <1>7 DEF q

\* Moving a piece of the flight to the next place leaves the flight alone.
Line(b, c, d, e) == Cat(Cat(Cat(b, c), d), e)

LEMMA Regroup ==
  ASSUME NEW S, NEW b \in Seq(S), NEW c \in Seq(S), NEW d \in Seq(S), NEW x \in Seq(S)
  PROVE  /\ Line(b, c, d, x) \in Seq(S)
         /\ Line(b, c, Cat(d, x), <<>>) = Line(b, c, d, x)
         /\ Line(b, <<>>, Cat(x, d), c) = Line(b, x, d, c)
         /\ Line(Cat(b, x), <<>>, d, c) = Line(b, x, d, c)
         /\ Line(Cat(x, b), <<>>, d, c) = Cat(x, Line(b, <<>>, d, c))
         /\ Line(b, x, d, c) = Cat(Cat(b, x), Cat(d, c))
         /\ Line(b, <<>>, d, c) = Cat(b, Cat(d, c))
<1>0. <<>> \in Seq(S)
  OBVIOUS
<1>1. /\ \A s \in Seq(S), t \in Seq(S) : Cat(s, t) \in Seq(S)
      /\ \A s \in Seq(S), t \in Seq(S), u \in Seq(S) : Cat(Cat(s, t), u) = Cat(s, Cat(t, u))
      /\ \A s \in Seq(S) : Cat(s, <<>>) = s /\ Cat(<<>>, s) = s
  BY CatLaws, ZenonT(30)
<1>2. Line(b, c, d, x) \in Seq(S)
  BY <1>1 DEF Line
<1>3. Line(b, c, Cat(d, x), <<>>) = Line(b, c, d, x)
  <2> DEFINE bc == Cat(b, c)
  <2>1. bc \in Seq(S)
    BY <1>1
  <2> HIDE DEF bc
  <2>2. Cat(bc, Cat(d, x)) = Cat(Cat(bc, d), x) /\ Cat(bc, Cat(d, x)) \in Seq(S)
    BY <1>1, <2>1
  <2>3. QED
    BY <1>1, <2>2 DEF bc, Line
<1>4. Line(b, <<>>, Cat(x, d), c) = Line(b, x, d, c)
  BY <1>0, <1>1 DEF Line
<1>5. Line(Cat(b, x), <<>>, d, c) = Line(b, x, d, c)
  BY <1>0, <1>1 DEF Line
<1>6. Line(Cat(x, b), <<>>, d, c) = Cat(x, Line(b, <<>>, d, c))
  BY <1>0, <1>1 DEF Line
<1>7. Line(b, x, d, c) = Cat(Cat(b, x), Cat(d, c))
  <2> DEFINE bx == Cat(b, x)
  <2>1. bx \in Seq(S)
    BY <1>1
  <2> HIDE DEF bx
  <2>2. Cat(Cat(bx, d), c) = Cat(bx, Cat(d, c))
    BY <1>1, <2>1
  <2>3. QED
    BY <2>2 DEF bx, Line
<1>8. Line(b, <<>>, d, c) = Cat(b, Cat(d, c))
  <2>1. Cat(b, <<>>) = b
    BY <1>1
  <2>2. Cat(Cat(b, d), c) = Cat(b, Cat(d, c))
    BY <1>1
  <2>3. QED
    BY <2>1, <2>2 DEF Line
<1>9. QED
  BY <1>2, <1>3, <1>4, <1>5, <1>6, <1>7, <1>8

LEMMA LineLength ==
  ASSUME NEW S, NEW b \in Seq(S), NEW c \in Seq(S), NEW d \in Seq(S), NEW e \in Seq(S)
  PROVE  Len(Line(b, c, d, e)) = Len(b) + Len(c) + Len(d) + Len(e)
<1>1. ASSUME NEW s \in Seq(S), NEW t \in Seq(S)
      PROVE  Cat(s, t) \in Seq(S) /\ Len(Cat(s, t)) = Len(s) + Len(t)
  BY DEF Cat
<1> DEFINE bc == Cat(b, c)
           bcd == Cat(bc, d)
<1>2. bc \in Seq(S) /\ Len(bc) = Len(b) + Len(c)
  BY <1>1
<1> HIDE DEF bc
<1>3. bcd \in Seq(S) /\ Len(bcd) = Len(bc) + Len(d)
  BY <1>1, <1>2
<1> HIDE DEF bcd
<1>4. Len(Cat(bcd, e)) = Len(bcd) + Len(e)
  BY <1>1, <1>3
<1>5. QED
  BY <1>2, <1>3, <1>4 DEF Line, bc, bcd

\* As many kinds as events wait.
LEMMA WaitingLength ==
  ASSUME NetInv, WifiOnly
  PROVE  /\ Len(Kinds(ring)) = Len(ring) /\ Len(ring) \in Nat
         /\ Len(Kinds(box["network"])) = Len(box["network"]) /\ Len(box["network"]) \in Nat
<1>1. box["network"] \in Seq(Event) /\ ring \in Seq(Event)
  BY DEF NetInv, NetTypeOK, Receivers
<1>2. /\ \A e \in Range(ring) : e.kind \in WifiKinds
      /\ \A e \in Range(box["network"]) : e.kind \in WifiKinds
  BY DEF WifiOnly
<1>3. Len(Kinds(ring)) = Len(ring)
  BY <1>1, <1>2, KindsMove
<1>4. Len(Kinds(box["network"])) = Len(box["network"])
  BY <1>1, <1>2, KindsMove
<1>5. QED
  BY <1>1, <1>3, <1>4

LEMMA RoomFacts == LinkRoom \in Nat /\ LinkRoom <= RingCap /\ LinkRoom <= MailCap
BY NetAdapterAssumption DEF LinkRoom

\* A step as the channel sees it.
ChannelStep == [Link!Next]_(Link!vars)

LEMMA FlightPieces ==
  ASSUME NetInv, WifiOnly
  PROVE  /\ Believed \in WifiKinds /\ Noted \in WifiKinds
         /\ Kinds(box["network"]) \in Seq(WifiKinds) /\ Kinds(ring) \in Seq(WifiKinds)
         /\ Publishes \in Seq(WifiKinds) /\ ToBePushed \in Seq(WifiKinds)
         /\ Flight \in Seq(WifiKinds)
         /\ Flight = Line(Kinds(box["network"]), Publishes, Kinds(ring), ToBePushed)
<1>1. Believed \in WifiKinds /\ Noted \in WifiKinds
  BY DEF Believed, Noted, WifiKinds
<1>2. app.pc = "publish" => app.ev.kind \in WifiKinds
  BY DEF WifiOnly
<1>3. wifiTask # <<>> /\ Head(wifiTask) # "CONNECT" => Head(wifiTask) \in WifiKinds
  BY DEF WifiOnly, WifiWork, WifiKinds
<1>4. Kinds(box["network"]) \in Seq(WifiKinds) /\ Kinds(ring) \in Seq(WifiKinds)
  <2>1. box["network"] \in Seq(Event) /\ ring \in Seq(Event)
    BY DEF NetInv, NetTypeOK, Receivers
  <2>2. QED
    BY <2>1, KindsMove DEF WifiOnly
<1> DEFINE K == WifiKinds
<1> HIDE DEF K
<1>5. \A k \in K : <<k>> \in Seq(K)
  OBVIOUS
<1>6. <<>> \in Seq(K)
  OBVIOUS
<1>7. Publishes \in Seq(WifiKinds) /\ ToBePushed \in Seq(WifiKinds)
  BY <1>2, <1>3, <1>5, <1>6 DEF Publishes, ToBePushed, K
<1>8. Flight = Line(Kinds(box["network"]), Publishes, Kinds(ring), ToBePushed)
  BY DEF Flight, Line, Cat
<1>9. Flight \in Seq(WifiKinds)
  BY <1>4, <1>7, <1>8, Regroup
<1>10. QED
  BY <1>1, <1>4, <1>7, <1>8, <1>9

\* What a step owes that the channel does not see.
LEMMA Unseen ==
  ASSUME Flight' = Flight, Believed' = Believed, Noted' = Noted, Lost' <=> Lost
  PROVE  ChannelStep
<1>1. Lost' = Lost
  BY DEF Lost
<1>2. QED
  BY <1>1 DEF ChannelStep, Link!vars

LEMMA OffChannel ==
  ASSUME WifiOnly,
         UNCHANGED <<dropped, app, view, box, ring, wifiTask, wifiConnected,
                     mqttTask, session, mqttConnected>>
  PROVE  WifiOnly' /\ ChannelStep
<1>1. WifiOnly'
  BY DEF WifiOnly
<1>2. (Lost' <=> Lost) /\ Believed' = Believed /\ Flight' = Flight /\ Noted' = Noted
  BY DEF Lost, Flight, Believed, Publishes, ToBePushed, Noted
<1>3. QED
  BY <1>1, <1>2, Unseen

LEMMA ShortCat ==
  ASSUME NEW x, NEW y
  PROVE  /\ <<>> \o <<>> = <<>> /\ <<>> \o <<x>> = <<x>> /\ <<x>> \o <<>> = <<x>>
         /\ <<x>> \o <<y>> = <<x, y>> /\ Tail(<<x, y>>) = <<y>>
<1>1. <<>> \o <<>> = <<>>
  OBVIOUS
<1>2. <<>> \o <<x>> = <<x>>
  OBVIOUS
<1>3. <<x>> \o <<>> = <<x>>
  OBVIOUS
<1>4. <<x>> \o <<y>> = <<x, y>>
  <2> DEFINE S == {x, y}
  <2>1. x \in S /\ y \in S
    OBVIOUS
  <2> HIDE DEF S
  <2>2. <<x>> \in Seq(S)
    BY <2>1
  <2>3. <<x, y>> \in Seq(S) /\ Len(<<x, y>>) = 2
        /\ <<x, y>>[1] = x /\ <<x, y>>[2] = y
    BY <2>1
  <2> DEFINE s == <<x>> \o <<y>>
             t == <<x, y>>
  <2>4. s \in Seq(S) /\ Len(s) = 2 /\ s[1] = x /\ s[2] = y
    BY <2>1, <2>2
  <2>5. 1..2 = {1, 2}
    OBVIOUS
  <2>6. t \in Seq(S) /\ Len(t) = 2 /\ t[1] = x /\ t[2] = y
    BY <2>3
  <2> HIDE DEF s, t
  <2>7. Len(s) = Len(t) /\ \A i \in 1..Len(s) : s[i] = t[i]
    BY <2>4, <2>5, <2>6
  <2>8. s = t
    BY <2>4, <2>6, <2>7, SeqEqual
  <2>9. QED
    BY <2>8 DEF s, t
<1>5. Tail(<<x, y>>) = <<y>>
  <2> DEFINE S == {x, y}
             s == Tail(<<x, y>>)
             t == <<y>>
  <2>1. x \in S /\ y \in S
    OBVIOUS
  <2> HIDE DEF S
  <2>2. <<x, y>> \in Seq(S) /\ <<x, y>> # <<>> /\ Len(<<x, y>>) = 2 /\ <<x, y>>[2] = y
    BY <2>1
  <2>3. s \in Seq(S) /\ Len(s) = 1 /\ s[1] = y
    BY <2>2, HeadTailProperties
  <2>4. t \in Seq(S) /\ Len(t) = 1 /\ t[1] = y
    BY <2>1
  <2> HIDE DEF s, t
  <2>5. 1..1 = {1}
    OBVIOUS
  <2>6. Len(s) = Len(t) /\ \A i \in 1..Len(s) : s[i] = t[i]
    BY <2>3, <2>4, <2>5
  <2>7. s = t
    BY <2>3, <2>4, <2>6, SeqEqual
  <2>8. QED
    BY <2>7 DEF s, t
<1>6. QED
  BY <1>1, <1>2, <1>3, <1>4, <1>5

\* A change noted and not yet pushed is the last on its way.
LEMMA NoteTracks ==
  ASSUME NetInv, WifiOnly, NoteWifiUp \/ NoteWifiDown
  PROVE  WifiOnly' /\ ChannelStep
<1>1. /\ wifiTask = <<>> /\ WifiOnly
      /\ UNCHANGED <<dropped, app, view, box, ring, mqttTask, session>>
  BY DEF NoteWifiUp, NoteWifiDown, SystemEvent, application
<1> DEFINE rise == IF wifiConnected THEN <<>> ELSE <<"WIFI_UP">>
           fall == IF wifiConnected THEN <<"WIFI_DOWN">> ELSE <<>>
           retry == IF ReconnectDue THEN <<"CONNECT">> ELSE <<>>
<1>2. \/ NoteWifiUp /\ wifiTask' = rise /\ Noted' = "WIFI_UP" /\ ~mqttConnected'
      \/ NoteWifiDown /\ wifiTask' = fall \o retry /\ Noted' = "WIFI_DOWN" /\ ~mqttConnected'
  <2>1. CASE NoteWifiUp
    BY <1>1, <2>1 DEF NoteWifiUp, Noted, WifiOnly
  <2>2. CASE NoteWifiDown
    <3>1. (IF mqttConnected THEN <<"MQTT_DOWN">> ELSE <<>>) = <<>>
      BY <1>1 DEF WifiOnly
    <3>2. wifiTask' = <<>> \o fall \o retry
      BY <2>2, <3>1 DEF NoteWifiDown
    <3>3. <<>> \o fall = fall
      OBVIOUS
    <3>4. QED
      BY <2>2, <3>2, <3>3 DEF NoteWifiDown, Noted
  <2>3. QED
    BY <2>1, <2>2
<1>3. /\ wifiTask' \in WifiWork
      /\ \/ ToBePushed' = <<>> /\ Noted' = Noted
         \/ ToBePushed' = <<Noted'>> /\ Noted' # Noted
  <2>1. CASE NoteWifiUp /\ wifiTask' = rise /\ Noted' = "WIFI_UP"
    <3>1. CASE wifiConnected
      BY <2>1, <3>1 DEF ToBePushed, Noted, WifiWork
    <3>2. CASE ~wifiConnected
      <4>1. wifiTask' = <<"WIFI_UP">> /\ Head(<<"WIFI_UP">>) = "WIFI_UP" /\ <<"WIFI_UP">> # <<>>
        BY <2>1, <3>2
      <4>2. QED
        BY <2>1, <3>2, <4>1 DEF ToBePushed, Noted, WifiWork
    <3>3. QED
      BY <3>1, <3>2
  <2>2. CASE NoteWifiDown /\ wifiTask' = fall \o retry /\ Noted' = "WIFI_DOWN"
    <3>0. /\ <<>> \o <<>> = <<>> /\ <<>> \o <<"CONNECT">> = <<"CONNECT">>
          /\ <<"WIFI_DOWN">> \o <<>> = <<"WIFI_DOWN">>
          /\ <<"WIFI_DOWN">> \o <<"CONNECT">> = <<"WIFI_DOWN", "CONNECT">>
      BY ShortCat
    <3>1. CASE wifiConnected
      <4>1. wifiTask' = <<"WIFI_DOWN">> \/ wifiTask' = <<"WIFI_DOWN", "CONNECT">>
        BY <2>2, <3>0, <3>1
      <4>2. wifiTask' # <<>> /\ Head(wifiTask') = "WIFI_DOWN"
        BY <4>1
      <4>3. QED
        BY <2>2, <3>1, <4>1, <4>2 DEF ToBePushed, Noted, WifiWork
    <3>2. CASE ~wifiConnected
      <4>1. wifiTask' = <<>> \/ wifiTask' = <<"CONNECT">>
        BY <2>2, <3>0, <3>2
      <4>2. wifiTask' = <<>> \/ Head(wifiTask') = "CONNECT"
        BY <4>1
      <4>3. QED
        BY <2>2, <3>2, <4>1, <4>2 DEF ToBePushed, Noted, WifiWork
    <3>3. QED
      BY <3>1, <3>2
  <2>3. QED
    BY <1>2, <2>1, <2>2
<1> HIDE DEF rise, fall, retry
<1>4. WifiOnly'
  BY <1>1, <1>2, <1>3 DEF WifiOnly
<1>5. /\ Flight' = Line(Kinds(box["network"]), Publishes, Kinds(ring), ToBePushed')
      /\ Flight = Line(Kinds(box["network"]), Publishes, Kinds(ring), ToBePushed)
      /\ ToBePushed = <<>> /\ Lost' = Lost /\ Believed' = Believed
  BY <1>1 DEF Flight, Line, Cat, Believed, Publishes, ToBePushed, Lost
<1>6. CASE ToBePushed' = <<>> /\ Noted' = Noted
  <2>1. Flight' = Flight
    BY <1>5, <1>6
  <2>2. QED
    BY <1>4, <1>5, <1>6, <2>1, Unseen
<1>7. CASE ToBePushed' = <<Noted'>> /\ Noted' # Noted
  <2> DEFINE b == Kinds(box["network"])
             c == Publishes
             d == Kinds(ring)
             bcd == Cat(Cat(b, c), d)
  <2>1. b \in Seq(WifiKinds) /\ c \in Seq(WifiKinds) /\ d \in Seq(WifiKinds)
    BY <1>1, FlightPieces
  <2>2. Noted' \in WifiKinds
    BY DEF Noted, WifiKinds
  <2>3. Flight = Cat(bcd, <<>>) /\ Flight' = Cat(bcd, <<Noted'>>)
    BY <1>5, <1>7 DEF Line
  <2> HIDE DEF b, c, d
  <2>4. bcd \in Seq(WifiKinds)
    BY <2>1, CatLaws, ZenonT(30)
  <2> HIDE DEF bcd
  <2>5. Cat(bcd, <<>>) = bcd
    BY <2>4, CatLaws, ZenonT(30)
  <2>6. Append(bcd, Noted') = Cat(bcd, <<Noted'>>)
    BY <2>2, <2>4, Single
  <2>7. Link!Change
    BY <1>5, <1>7, <2>2, <2>3, <2>5, <2>6 DEF Link!Change, Link!LinkStates, WifiKinds
  <2>8. QED
    BY <1>4, <2>7 DEF ChannelStep, Link!Next
<1>8. QED
  BY <1>3, <1>6, <1>7

\* A push moves the change from the callback to the ring.  A full ring loses it.
LEMMA PushTracks ==
  ASSUME NetInv, WifiOnly, WifiPushes
  PROVE  WifiOnly' /\ ChannelStep
<1> DEFINE k == Head(wifiTask)
           e == Plain(k)
<1>1. /\ wifiTask # <<>> /\ k # "CONNECT" /\ PushEvent(e) /\ wifiTask' = Tail(wifiTask)
      /\ WifiOnly /\ UNCHANGED <<app, view, box, mqttTask, session, mqttConnected, wifiConnected>>
  BY DEF WifiPushes, external, application
<1>2. k \in WifiKinds /\ wifiTask' \in {<<>>, <<"CONNECT">>}
  <2>1. \/ wifiTask \in {<<"WIFI_UP">>, <<"WIFI_DOWN">>}
        \/ wifiTask = <<"WIFI_DOWN", "CONNECT">>
    BY <1>1 DEF WifiOnly, WifiWork
  <2>2. CASE wifiTask \in {<<"WIFI_UP">>, <<"WIFI_DOWN">>}
    BY <1>1, <2>2 DEF WifiKinds
  <2>3. CASE wifiTask = <<"WIFI_DOWN", "CONNECT">>
    <3>1. Tail(<<"WIFI_DOWN", "CONNECT">>) = <<"CONNECT">>
      BY ShortCat
    <3>2. wifiTask' = <<"CONNECT">>
      BY ONLY <1>1, <2>3, <3>1
    <3>3. k = "WIFI_DOWN"
      BY <2>3
    <3>4. QED
      BY <3>2, <3>3 DEF WifiKinds
  <2>4. QED
    BY <2>1, <2>2, <2>3
<1>3. e \in Event /\ e.kind = k
  <2>1. k \in StateKinds \cup {"RX"}
    BY <1>2 DEF WifiKinds, StateKinds
  <2>2. QED
    BY <2>1, PlainEvent
<1>4. ToBePushed = <<k>> /\ ToBePushed' = <<>>
  <2>1. wifiTask' # <<>> => Head(wifiTask') = "CONNECT"
    BY <1>2
  <2>2. QED
    BY <1>1, <2>1 DEF ToBePushed
<1>5. ring \in Seq(Event) /\ \A f \in Range(ring) : f.kind \in WifiKinds
  BY <1>1 DEF WifiOnly, NetInv, NetTypeOK
<1> HIDE DEF e
<1>6. Range(ring') \subseteq Range(ring) \cup {e}
  BY <1>1, <1>3, PushKeeps
<1>7. WifiOnly'
  <2>1. \A f \in Range(ring') \cup Range(box'["network"]) : f.kind \in WifiKinds
    BY <1>1, <1>2, <1>3, <1>6 DEF WifiOnly
  <2>2. wifiTask' \in WifiWork
    BY <1>2 DEF WifiWork
  <2>3. QED
    BY <1>1, <2>1, <2>2 DEF WifiOnly
<1> DEFINE b == Kinds(box["network"])
           c == Publishes
           d == Kinds(ring)
           x == <<k>>
<1>8. /\ b \in Seq(WifiKinds) /\ c \in Seq(WifiKinds) /\ d \in Seq(WifiKinds) /\ x \in Seq(WifiKinds)
      /\ Flight = Line(b, c, d, x)
  BY <1>1, <1>4, FlightPieces
<1>9. /\ Flight' = Line(b, c, Kinds(ring'), <<>>)
      /\ Believed' = Believed /\ Noted' = Noted
  BY <1>1, <1>4 DEF Flight, Believed, Noted, Publishes, Line, Cat
<1>10. CASE RingAccepts
  <2>1. ring' = Append(ring, e) /\ (dropped' <=> dropped)
    BY <1>1, <1>10 DEF PushEvent
  <2>2. Kinds(ring') = Cat(d, x)
    BY <1>3, <1>5, <2>1, KindsMove DEF Cat
  <2> HIDE DEF b, c, d, x, k
  <2>3. Flight' = Flight
    BY <1>8, <1>9, <2>2, Regroup
  <2>4. Lost' <=> Lost
    BY <1>1, <2>1 DEF Lost
  <2>5. QED
    BY <1>7, <1>9, <2>3, <2>4, Unseen
<1>11. CASE ~RingAccepts
  <2>1. ring' = ring /\ dropped'
    BY <1>1, <1>11 DEF PushEvent
  <2> DEFINE bcd == Cat(Cat(b, c), d)
  <2>2. bcd \in Seq(WifiKinds)
    <3> HIDE DEF b, c, d, x
    <3>1. QED
      BY <1>8, CatLaws, ZenonT(30)
  <2>3. Flight' = Cat(bcd, <<>>) /\ Flight = Cat(bcd, <<k>>)
    BY <1>8, <1>9, <2>1 DEF Line
  <2> HIDE DEF bcd, b, c, d, x, k
  <2>4. \E i \in DOMAIN Cat(Cat(bcd, <<k>>), <<>>) :
           RemoveAt(Cat(Cat(bcd, <<k>>), <<>>), i) = Cat(bcd, <<>>)
    <3>1. <<>> \in Seq(WifiKinds)
      OBVIOUS
    <3>2. QED
      BY <1>2, <2>2, <3>1, RemoveMiddle
  <2>5. Cat(Cat(bcd, <<k>>), <<>>) = Flight
    BY <1>1, <2>3, FlightPieces, CatLaws, ZenonT(30)
  <2>6. Len(Flight) > LinkRoom
    <3>1. Len(d) = Len(ring) /\ Len(ring) \in Nat /\ RingCap \in Nat /\ ~(Len(ring) < RingCap)
      BY <1>11, WaitingLength, NetAdapterAssumption DEF RingAccepts, d
    <3>2. Len(x) = 1
      BY DEF x
    <3>3. Len(b) \in Nat /\ Len(c) \in Nat
      BY <1>8
    <3>4. Len(Flight) = Len(b) + Len(c) + Len(d) + Len(x)
      BY <1>8, LineLength
    <3>5. QED
      BY <3>1, <3>2, <3>3, <3>4, RoomFacts
  <2>7. Link!Lose
    <3>1. Lost' = TRUE
      BY <2>1 DEF Lost
    <3>2. \E i \in DOMAIN Flight : Flight' = RemoveAt(Flight, i)
      BY <2>3, <2>4, <2>5
    <3>3. QED
      BY <1>9, <2>6, <3>1, <3>2 DEF Link!Lose, Link!RemoveAt, RemoveAt
  <2>8. QED
    BY <1>7, <2>7 DEF ChannelStep, Link!Next
<1>12. QED
  BY <1>10, <1>11

LEMMA ReconnectTracks ==
  ASSUME NetInv, WifiOnly, WifiReconnects
  PROVE  WifiOnly' /\ ChannelStep
<1>1. /\ wifiTask # <<>> /\ Head(wifiTask) = "CONNECT" /\ wifiTask' = Tail(wifiTask)
      /\ UNCHANGED <<dropped, ring, app, view, box, mqttTask, session, mqttConnected,
                     wifiConnected>>
  BY DEF WifiReconnects, application
<1>2. wifiTask' = <<>>
  BY <1>1 DEF WifiOnly, WifiWork
<1>3. WifiOnly'
  BY <1>1, <1>2 DEF WifiOnly, WifiWork
<1>4. ToBePushed = <<>> /\ ToBePushed' = <<>>
  BY <1>1, <1>2 DEF ToBePushed
<1>5. Flight' = Flight /\ Noted' = Noted /\ Believed' = Believed /\ (Lost' <=> Lost)
  BY <1>1, <1>4 DEF Flight, Believed, Publishes, Noted, Lost
<1>6. QED
  BY <1>3, <1>5, Unseen

\* The application takes the oldest change from the ring.
LEMMA PollTracks ==
  ASSUME NetInv, WifiOnly, PollIngress
  PROVE  WifiOnly' /\ ChannelStep
<1> DEFINE k == Head(ring).kind
<1>1. /\ ring \in Seq(Event) /\ ring # <<>> /\ ring' = Tail(ring) /\ app.pc = "idle"
      /\ app' = [IdleApp EXCEPT !.pc = "publish", !.ev = Head(ring)] /\ WifiOnly
      /\ UNCHANGED <<dropped, wifiTask, view, box, mqttTask, session, mqttConnected,
                     wifiConnected>>
  BY DEF PollIngress, Idle, external, NetInv, NetTypeOK
<1>2. app'.pc = "publish" /\ app'.ev = Head(ring) /\ app'.next = 1 /\ app'.ok
  <2>1. app' = [pc |-> "publish", ev |-> Head(ring), next |-> 1, ok |-> TRUE]
    BY <1>1 DEF IdleApp
  <2>2. QED
    BY <2>1
<1>3. Head(ring) \in Range(ring) /\ Range(ring') \subseteq Range(ring)
  BY <1>1, RangeMoves
<1>4. k \in WifiKinds
  BY <1>1, <1>3 DEF WifiOnly
<1>5. WifiOnly'
  BY <1>1, <1>2, <1>3, <1>4 DEF WifiOnly
<1>6. Kinds(ring) = <<k>> \o Kinds(ring')
  BY <1>1, KindsMove DEF WifiOnly
<1>7. Publishes = <<>> /\ Publishes' = <<k>>
  BY <1>1, <1>2 DEF Publishes
<1> DEFINE b == Kinds(box["network"])
           c == ToBePushed
           d == Kinds(ring')
           x == <<k>>
<1>8. Flight' = Line(b, x, d, c)
  BY <1>1, <1>7 DEF Flight, ToBePushed, Line, Cat
<1>9. Flight = Line(b, <<>>, Cat(x, d), c)
  BY <1>1, <1>6, <1>7, FlightPieces DEF Cat
<1>10. d \in Seq(WifiKinds)
  <2>1. ring' \in Seq(Event) /\ \A e \in Range(ring') : e.kind \in WifiKinds
    BY <1>1, <1>5 DEF WifiOnly
  <2>2. QED
    BY <2>1, KindsMove
<1>11. b \in Seq(WifiKinds) /\ c \in Seq(WifiKinds)
  BY <1>1, FlightPieces
<1> HIDE DEF k
<1>12. x \in Seq(WifiKinds)
  BY <1>4, Single
<1> HIDE DEF b, c, d, x
<1>13. Flight' = Flight
  BY <1>8, <1>9, <1>10, <1>11, <1>12, Regroup
<1>14. Believed' = Believed /\ Noted' = Noted /\ (Lost' <=> Lost)
  <2>1. app.ok
    BY <1>1 DEF WifiOnly
  <2>2. QED
    BY <1>1, <1>2, <2>1 DEF Believed, Noted, Lost
<1>15. QED
  BY <1>5, <1>13, <1>14, Unseen

\* A queued copy takes the place of the event being published.
LEMMA DeliverTracks ==
  ASSUME NetInv, WifiOnly, Deliver
  PROVE  WifiOnly' /\ ChannelStep
<1> DEFINE e == app.ev
           k == e.kind
<1>1. /\ app.pc = "publish" /\ e \in Event /\ k \in WifiKinds /\ app.next = 1
      /\ Target = "network" /\ WifiOnly
  <2>1. app.pc = "publish" /\ e \in Event /\ k \in WifiKinds /\ app.next \in 1..2 /\ WifiOnly
        /\ app.next <= Len(Route(k))
    BY DEF Deliver, FanOutOpen, WifiOnly, NetInv, AppSound
  <2>2. Route(k) = <<"network">> /\ Len(<<"network">>) = 1 /\ <<"network">>[1] = "network"
    BY <2>1 DEF Route, WifiKinds, StateKinds
  <2>3. app.next = 1
    BY <2>1, <2>2
  <2>4. Target = "network"
    BY <2>2, <2>3 DEF Target
  <2>5. QED
    BY <2>1, <2>3, <2>4
<1>2. /\ app' = [app EXCEPT !.next = @ + 1]
      /\ box' = [box EXCEPT !["network"] = Append(@, e)]
      /\ UNCHANGED <<dropped, ring, wifiTask, view, mqttTask, session, mqttConnected,
                     wifiConnected>>
  BY <1>1 DEF Deliver, external
<1>3. app'.pc = "publish" /\ app'.ev = e /\ app'.next = 2 /\ app'.ok = app.ok
  BY <1>1, <1>2 DEF NetInv, NetTypeOK, Frame
<1>4. box["network"] \in Seq(Event) /\ box'["network"] = Append(box["network"], e)
  BY <1>2 DEF NetInv, NetTypeOK, Receivers
<1>5. Range(box'["network"]) = Range(box["network"]) \cup {e}
  BY <1>1, <1>4, RangeMoves
<1>6. WifiOnly'
  BY <1>1, <1>2, <1>3, <1>5 DEF WifiOnly
<1>7. Kinds(box'["network"]) = Kinds(box["network"]) \o <<k>>
  BY <1>1, <1>4, KindsMove DEF WifiOnly
<1>8. Publishes = <<k>> /\ Publishes' = <<>>
  BY <1>1, <1>3 DEF Publishes
<1> DEFINE b == Kinds(box["network"])
           c == ToBePushed
           d == Kinds(ring)
           x == <<k>>
<1>9. Flight' = Line(Cat(b, x), <<>>, d, c)
  BY <1>2, <1>7, <1>8 DEF Flight, ToBePushed, Line, Cat
<1>10. /\ b \in Seq(WifiKinds) /\ c \in Seq(WifiKinds) /\ d \in Seq(WifiKinds)
       /\ x \in Seq(WifiKinds) /\ Flight = Line(b, x, d, c)
  BY <1>1, <1>8, FlightPieces
<1> HIDE DEF b, c, d, x
<1>11. Flight' = Flight
  BY <1>9, <1>10, Regroup
<1>12. Believed' = Believed /\ Noted' = Noted /\ (Lost' <=> Lost)
  BY <1>1, <1>2, <1>3 DEF Believed, Noted, Lost
<1>13. QED
  BY <1>6, <1>11, <1>12, Unseen

\* A full mailbox loses the change under publication.
LEMMA FullTracks ==
  ASSUME NetInv, WifiOnly, DeliverFull
  PROVE  WifiOnly' /\ ChannelStep
<1> DEFINE k == app.ev.kind
           b == Kinds(box["network"])
           c == ToBePushed
           d == Kinds(ring)
           x == <<k>>
<1>1. /\ app.pc = "publish" /\ k \in WifiKinds /\ app.next = 1 /\ app \in Frame
      /\ app' = [app EXCEPT !.pc = "dispose", !.ok = FALSE]
      /\ UNCHANGED <<dropped, ring, box, wifiTask, view, mqttTask, session, mqttConnected,
                     wifiConnected>>
  <2>1. /\ app.pc = "publish" /\ k \in WifiKinds /\ app.next \in 1..2
        /\ app.next <= Len(Route(k)) /\ app \in Frame
    BY DEF DeliverFull, FanOutOpen, WifiOnly, NetInv, NetTypeOK
  <2>2. Route(k) = <<"network">> /\ Len(<<"network">>) = 1
    BY <2>1 DEF Route, WifiKinds, StateKinds
  <2>3. QED
    BY <2>1, <2>2 DEF DeliverFull, adapter, external
<1>2. app'.pc = "dispose" /\ ~app'.ok
  BY <1>1 DEF Frame
<1>3. WifiOnly'
  BY <1>1, <1>2 DEF WifiOnly
<1>4. Publishes = x /\ Publishes' = <<>>
  BY <1>1, <1>2 DEF Publishes
<1>5. Flight' = Line(b, <<>>, d, c)
  BY <1>1, <1>4 DEF Flight, ToBePushed, Line, Cat
<1>6. /\ b \in Seq(WifiKinds) /\ c \in Seq(WifiKinds) /\ d \in Seq(WifiKinds)
      /\ x \in Seq(WifiKinds) /\ Flight = Line(b, x, d, c)
  BY <1>4, FlightPieces
<1> HIDE DEF b, c, d
<1>7. \E i \in DOMAIN Flight : Flight' = RemoveAt(Flight, i)
  <2> DEFINE dc == Cat(d, c)
  <2>1. dc \in Seq(WifiKinds)
    BY <1>6, CatLaws, ZenonT(30)
  <2>2. Flight = Cat(Cat(b, x), dc) /\ Flight' = Cat(b, dc)
    <3> HIDE DEF x
    <3>1. Line(b, x, d, c) = Cat(Cat(b, x), Cat(d, c)) /\ Line(b, <<>>, d, c) = Cat(b, Cat(d, c))
      BY <1>6, Regroup
    <3>2. QED
      BY <1>5, <1>6, <3>1
  <2> HIDE DEF dc, k
  <2>3. \E i \in DOMAIN Cat(Cat(b, <<k>>), dc) : RemoveAt(Cat(Cat(b, <<k>>), dc), i) = Cat(b, dc)
    BY <1>1, <1>6, <2>1, RemoveMiddle
  <2>4. QED
    BY <2>2, <2>3
<1>8. Len(Flight) > LinkRoom
  <2>1. Len(b) = Len(box["network"]) /\ Len(box["network"]) >= MailCap
    <3>1. Target = "network"
      BY <1>1 DEF Target, Route, WifiKinds, StateKinds
    <3>2. Len(box[Target]) >= MailCap
      BY DEF DeliverFull
    <3>3. QED
      BY <3>1, <3>2, WaitingLength DEF b
  <2>2. Len(x) = 1 /\ Len(b) \in Nat /\ Len(c) \in Nat /\ Len(d) \in Nat /\ MailCap \in Nat
    BY <1>6, NetAdapterAssumption
  <2>3. Len(Flight) = Len(b) + Len(x) + Len(d) + Len(c)
    <3> HIDE DEF x
    <3>1. QED
      BY <1>6, LineLength
  <2>4. QED
    BY <2>1, <2>2, <2>3, RoomFacts
<1>9. Link!Lose
  <2>1. Lost' = TRUE /\ Believed' = Believed /\ Noted' = Noted
    BY <1>1, <1>2 DEF Lost, Believed, Noted
  <2>2. QED
    BY <1>7, <1>8, <2>1 DEF Link!Lose, Link!RemoveAt, RemoveAt
<1>10. QED
  BY <1>3, <1>9 DEF ChannelStep, Link!Next

\* The end of a publication moves nothing.
LEMMA EndTracks ==
  ASSUME NetInv, WifiOnly, FanOutDone \/ DisposeEvent
  PROVE  WifiOnly' /\ ChannelStep
<1>1. /\ app \in Frame
      /\ UNCHANGED <<dropped, ring, box, wifiTask, view, mqttTask, session, mqttConnected,
                     wifiConnected>>
  BY DEF FanOutDone, DisposeEvent, adapter, external, NetInv, NetTypeOK
<1>2. /\ app'.pc # "publish" /\ (app'.pc = "idle" => app'.ok)
      /\ (Lost' <=> Lost) /\ Publishes = <<>>
  <2>1. CASE FanOutDone
    <3>1. app'.pc = "dispose" /\ app'.ok = app.ok /\ app.pc = "publish"
      BY <1>1, <2>1 DEF FanOutDone, Frame
    <3>2. app.next = 2
      <4>1. app.next \in 1..2 /\ app.ev.kind \in WifiKinds
        BY <1>1, <3>1 DEF WifiOnly
      <4>2. ~(app.next <= Len(Route(app.ev.kind)))
        BY <2>1, <3>1 DEF FanOutDone, FanOutOpen
      <4>3. Route(app.ev.kind) = <<"network">> /\ Len(<<"network">>) = 1
        BY <4>1 DEF Route, WifiKinds, StateKinds
      <4>4. QED
        BY <4>1, <4>2, <4>3
    <3>3. QED
      BY <1>1, <3>1, <3>2 DEF Lost, Publishes
  <2>2. CASE DisposeEvent
    <3>1. app.pc = "dispose"
      BY <2>2 DEF DisposeEvent
    <3>2. CASE app.ok
      <4>1. app' = IdleApp /\ IdleApp.pc = "idle" /\ IdleApp.ok
        BY <2>2, <3>2 DEF DisposeEvent, IdleApp
      <4>2. QED
        BY <1>1, <3>1, <3>2, <4>1 DEF Lost, Publishes
    <3>3. CASE ~app.ok
      <4>1. app'.pc = "failed"
        BY <2>2, <3>3 DEF DisposeEvent, IdleApp
      <4>2. QED
        BY <3>1, <3>3, <4>1 DEF Lost, Publishes
    <3>4. QED
      BY <3>2, <3>3
  <2>3. QED
    BY <2>1, <2>2
<1>3. WifiOnly'
  BY <1>1, <1>2 DEF WifiOnly
<1>4. Publishes' = <<>>
  BY <1>2 DEF Publishes
<1>5. Flight' = Flight /\ Noted' = Noted /\ Believed' = Believed
  BY <1>1, <1>2, <1>4 DEF Flight, Believed, ToBePushed, Noted
<1>6. QED
  BY <1>2, <1>3, <1>5, Unseen

\* The actor hears of the oldest change.
LEMMA HandleTracks ==
  ASSUME NetInv, WifiOnly, NEW a \in Receivers, Handle(a)
  PROVE  WifiOnly' /\ ChannelStep
<1>1. /\ app.pc = "idle" /\ box \in [Receivers -> Seq(Event)] /\ box[a] # <<>>
      /\ box' = [box EXCEPT ![a] = Tail(@)]
      /\ view' = IF a = "network" THEN Reaction(view, Head(box[a]).kind) ELSE view
      /\ UNCHANGED <<dropped, ring, app, wifiTask, mqttTask, session, mqttConnected,
                     wifiConnected>>
  BY DEF Handle, Idle, adapter, external, NetInv, NetTypeOK
<1>2. CASE a = "command"
  <2>1. box'["network"] = box["network"] /\ view' = view
    BY <1>1, <1>2 DEF Receivers
  <2>2. WifiOnly'
    BY <1>1, <2>1 DEF WifiOnly
  <2>3. (Lost' <=> Lost) /\ Flight' = Flight /\ Believed' = Believed /\ Noted' = Noted
    BY <1>1, <2>1 DEF Lost, Flight, Believed, Publishes, ToBePushed, Noted
  <2>4. QED
    BY <2>2, <2>3, Unseen
<1>3. CASE a = "network"
  <2> DEFINE q == box["network"]
             k == Head(q).kind
  <2>1. q \in Seq(Event) /\ q # <<>> /\ box'["network"] = Tail(q)
        /\ \A e \in Range(q) : e.kind \in WifiKinds
    BY <1>1, <1>3 DEF WifiOnly, Receivers
  <2>2. Head(q) \in Range(q) /\ Range(Tail(q)) \subseteq Range(q) /\ Tail(q) \in Seq(Event)
    BY <2>1, RangeMoves
  <2>3. k \in WifiKinds /\ \A e \in Range(Tail(q)) : e.kind \in WifiKinds
    BY <2>1, <2>2
  <2>4. Kinds(q) = <<k>> \o Kinds(Tail(q)) /\ Kinds(Tail(q)) \in Seq(WifiKinds)
    BY <2>1, <2>2, <2>3, KindsMove
  <2>5. view' \in {"DISCONNECTED", "WIFI_UP"} /\ Believed' = k
    <3>1. view' = Reaction(view, k) /\ view \in {"DISCONNECTED", "WIFI_UP"}
      BY <1>1, <1>3 DEF WifiOnly
    <3>2. CASE k = "WIFI_UP"
      BY <3>1, <3>2 DEF Reaction, Believed
    <3>3. CASE k = "WIFI_DOWN"
      BY <3>1, <3>3 DEF Reaction, Believed
    <3>4. QED
      BY <2>3, <3>2, <3>3 DEF WifiKinds
  <2>6. WifiOnly'
    BY <1>1, <2>1, <2>2, <2>5 DEF WifiOnly
  <2>7. Publishes = <<>> /\ Publishes' = <<>>
    BY <1>1 DEF Publishes
  <2> DEFINE x == <<k>>
             b == Kinds(Tail(q))
             d == Kinds(ring)
             c == ToBePushed
             rest == Line(b, <<>>, d, c)
  <2>8. Flight' = rest
    BY <1>1, <2>1, <2>7 DEF Flight, ToBePushed, Line, Cat
  <2>9. Flight = Line(Cat(x, b), <<>>, d, c)
    BY <2>4, <2>7, FlightPieces DEF Cat
  <2>10. /\ b \in Seq(WifiKinds) /\ d \in Seq(WifiKinds) /\ c \in Seq(WifiKinds)
    BY <1>1, <2>4, FlightPieces
  <2> HIDE DEF k
  <2>11. x \in Seq(WifiKinds)
    BY <2>3, Single
  <2> HIDE DEF b, d, c
  <2>12. Flight = Cat(x, rest) /\ rest \in Seq(WifiKinds)
    <3>1. <<>> \in Seq(WifiKinds)
      OBVIOUS
    <3> HIDE DEF x
    <3>2. Line(Cat(x, b), <<>>, d, c) = Cat(x, Line(b, <<>>, d, c))
      BY <2>10, <2>11, Regroup
    <3>3. Line(b, <<>>, d, c) \in Seq(WifiKinds)
      BY <2>10, <3>1, Regroup
    <3>4. QED
      BY <2>9, <3>2, <3>3
  <2> HIDE DEF rest
  <2>13. Flight # <<>> /\ Head(Flight) = k /\ Tail(Flight) = rest
    BY <2>3, <2>12, Single
  <2>14. Noted' = Noted /\ Lost' = Lost
    BY <1>1 DEF Noted, Lost
  <2>15. Link!Hear
    BY <2>5, <2>8, <2>13, <2>14 DEF Link!Hear
  <2>16. QED
    BY <2>6, <2>15 DEF ChannelStep, Link!Next
<1>4. QED
  BY <1>2, <1>3 DEF Receivers

\* From a fresh start both ends say that the link is down.
LEMMA TrackStarts ==
  ASSUME NetInit
  PROVE  WifiOnly /\ Link!Init
<1>1. /\ mqttTask = <<>> /\ ~session /\ ~mqttConnected /\ ~wifiConnected /\ wifiTask = <<>>
      /\ ring = <<>> /\ box["network"] = <<>> /\ app.pc = "idle" /\ app.ok /\ ~dropped
      /\ view = "DISCONNECTED"
  BY EmptyBoxes DEF NetInit, IdleApp
<1>2. Range(<<>>) = {} /\ Kinds(<<>>) = <<>> /\ <<>> \o <<>> = <<>>
  BY ShortCat DEF Range, Kinds
<1>3. WifiOnly
  BY <1>1, <1>2 DEF WifiOnly, WifiWork
<1>4. Believed = "WIFI_DOWN" /\ Publishes = <<>> /\ ToBePushed = <<>> /\ Noted = "WIFI_DOWN"
  BY <1>1 DEF Believed, Publishes, ToBePushed, Noted
<1>5. Flight = <<>>
  BY <1>1, <1>2, <1>4 DEF Flight
<1>6. Lost = FALSE
  BY <1>1 DEF Lost
<1>7. QED
  BY <1>3, <1>4, <1>5, <1>6 DEF Link!Init

LEMMA RestartTracks ==
  ASSUME Restart
  PROVE  WifiOnly' /\ ChannelStep
<1>1. /\ mqttTask' = <<>> /\ ~session' /\ ~mqttConnected' /\ ~wifiConnected' /\ wifiTask' = <<>>
      /\ ring' = <<>> /\ box'["network"] = <<>> /\ app'.pc = "idle" /\ app'.ok /\ ~dropped'
      /\ view' = "DISCONNECTED" /\ app.pc = "failed"
  BY EmptyBoxes DEF Restart, IdleApp
<1>2. Range(<<>>) = {} /\ Kinds(<<>>) = <<>> /\ <<>> \o <<>> = <<>>
  BY ShortCat DEF Range, Kinds
<1>3. WifiOnly'
  BY <1>1, <1>2 DEF WifiOnly, WifiWork
<1>4. Believed' = "WIFI_DOWN" /\ Publishes' = <<>> /\ ToBePushed' = <<>> /\ Noted' = "WIFI_DOWN"
  BY <1>1 DEF Believed, Publishes, ToBePushed, Noted
<1>5. Flight' = <<>>
  BY <1>1, <1>2, <1>4 DEF Flight
<1>6. Lost' = FALSE /\ Lost
  BY <1>1 DEF Lost
<1>7. Link!Restart
  BY <1>4, <1>5, <1>6 DEF Link!Restart
<1>8. QED
  BY <1>3, <1>7 DEF ChannelStep, Link!Next

LEMMA TrackStep ==
  ASSUME ~Mqtt, NetInv, WifiOnly, [NetNext]_netVars
  PROVE  WifiOnly' /\ ChannelStep
<1>1. CASE UNCHANGED netVars
  BY <1>1, OffChannel DEF netVars, external, adapter, application
<1>2. CASE Environment
  <2>1. UNCHANGED session
    BY <1>2 DEF Environment, AccessPoint, TimePasses, Joins, Renews, Loses
  <2>2. QED
    BY <1>2, <2>1, OffChannel DEF Environment, application
<1>3. CASE WifiTask
  BY <1>3, NoteTracks, PushTracks, ReconnectTracks DEF WifiTask
<1>4. CASE MqttTask
  BY <1>4 DEF MqttTask, NoteMqttUp, NoteMqttDown, MqttInline, MqttStored, MqttPushes,
              MqttCalled, WifiOnly
<1>5. CASE PollIngress
  BY <1>5, PollTracks
<1>6. CASE Publishing
  BY <1>6, DeliverTracks, FullTracks, EndTracks DEF Publishing
<1>7. CASE Restart
  BY <1>7, RestartTracks
<1>8. ASSUME NEW a \in Receivers, Handle(a) PROVE WifiOnly' /\ ChannelStep
  BY <1>8, HandleTracks
<1>9. CASE HandlerDone
  BY <1>9, OffChannel DEF HandlerDone, external
<1>10. QED
  BY <1>1, <1>2, <1>3, <1>4, <1>5, <1>6, <1>7, <1>8, <1>9 DEF NetNext

LEMMA WifiOnlyAlways ==
  ASSUME ~Mqtt
  PROVE  NetSpec => []WifiOnly
<1>1. NetInit => WifiOnly
  BY TrackStarts
<1>2. NetInv /\ WifiOnly /\ [NetNext]_netVars => WifiOnly'
  BY TrackStep
<1>3. QED
  BY <1>1, <1>2, NetInvAlways, PTL DEF NetSpec

(* In the default build the callback's list, the ring, the frame of the      *)
(* publication and the mailbox are together a channel that keeps the order:  *)
(* a link change is lost only when more are on their way than the ring or    *)
(* the mailbox can hold, and then and ever after nothing is reordered,       *)
(* repeated or invented.                                                     *)
THEOREM HeardInOrderAlways ==
  ASSUME ~Mqtt
  PROVE  NetSpec => HeardInOrder
<1>1. NetInit => Link!Init
  BY TrackStarts
<1>2. NetInv /\ WifiOnly /\ [NetNext]_netVars => [Link!Next]_(Link!vars)
  BY TrackStep DEF ChannelStep
<1>3. QED
  BY <1>1, <1>2, NetInvAlways, WifiOnlyAlways, PTL DEF NetSpec, HeardInOrder, Link!Spec

\* Link!InStep by way of Alternates.
LEMMA InStepIs ==
  Link!InStep <=> (~Lost => Alternates(<<Believed>> \o Flight, Noted))
BY DEF Link!InStep, Alternates

\* What the channel promises keeps it in step.
LEMMA InStepKept ==
  ASSUME NetInv, WifiOnly, NetInv', WifiOnly', Link!InStep, ChannelStep
  PROVE  Link!InStep'
<1> DEFINE v == <<Believed>>
<1>1. /\ Flight \in Seq(WifiKinds) /\ Believed \in WifiKinds /\ Noted \in WifiKinds
      /\ Noted' \in WifiKinds /\ Believed' \in WifiKinds /\ Flight' \in Seq(WifiKinds)
  <2>1. Flight \in Seq(WifiKinds) /\ Believed \in WifiKinds /\ Noted \in WifiKinds
    BY FlightPieces
  <2>2. (Flight \in Seq(WifiKinds) /\ Believed \in WifiKinds /\ Noted \in WifiKinds)'
    BY FlightPieces, PTL
  <2>3. QED
    BY <2>1, <2>2 DEF WifiKinds
<1>2. ~Lost => Alternates(v \o Flight, Noted)
  BY InStepIs
<1>3. SUFFICES ASSUME ~Lost' PROVE Alternates(<<Believed'>> \o Flight', Noted')
  BY DEF Link!InStep, Alternates
<1>4. v \in Seq(WifiKinds) /\ v \o Flight \in Seq(WifiKinds) /\ v \o Flight # <<>>
      /\ <<Believed'>> \in Seq(WifiKinds) /\ <<Believed'>> \o Flight' # <<>>
  BY <1>1, Single, CatLaws DEF Cat
<1> HIDE DEF v
<1>5. CASE Link!Change
  <2>1. /\ ~Lost /\ Noted' # Noted /\ Flight' = Append(Flight, Noted') /\ Believed' = Believed
    BY <1>3, <1>5 DEF Link!Change
  <2>2. <<Noted'>> \in Seq(WifiKinds) /\ Append(Flight, Noted') = Cat(Flight, <<Noted'>>)
    BY <1>1, Single
  <2>3. v \o Flight' = (v \o Flight) \o <<Noted'>>
    BY <1>1, <1>4, <2>1, <2>2, CatLaws DEF Cat
  <2>4. Alternates((v \o Flight) \o <<Noted'>>, Noted')
    BY <1>1, <1>2, <1>4, <2>1, TrackGrows
  <2>5. QED
    BY <2>1, <2>3, <2>4 DEF v
<1>6. CASE Link!Hear
  <2>1. /\ ~Lost /\ Noted' = Noted /\ Flight # <<>> /\ Believed' = Head(Flight)
        /\ Flight' = Tail(Flight)
    BY <1>3, <1>6 DEF Link!Hear
  <2>2. Flight = <<Believed'>> \o Flight'
    BY <1>1, <2>1, HeadTailProperties, Single DEF Cat
  <2>3. Alternates(Flight, Noted)
    BY <1>1, <1>2, <2>1, TrackShrinks DEF v
  <2>4. QED
    BY <2>1, <2>2, <2>3
<1>7. CASE Link!Lose
  BY <1>3, <1>7 DEF Link!Lose
<1>8. CASE Link!Restart
  <2>1. Believed' = "WIFI_DOWN" /\ Noted' = "WIFI_DOWN" /\ Flight' = <<>>
    BY <1>8 DEF Link!Restart
  <2>2. <<"WIFI_DOWN">> \o <<>> = <<"WIFI_DOWN">>
    BY ShortCat
  <2>3. Alternates(<<"WIFI_DOWN">>, "WIFI_DOWN")
    BY DEF Alternates
  <2>4. QED
    BY <2>1, <2>2, <2>3
<1>9. CASE UNCHANGED Link!vars
  <2>1. Believed' = Believed /\ Noted' = Noted /\ Flight' = Flight /\ Lost' = Lost
    BY <1>9 DEF Link!vars
  <2>2. QED
    BY <1>2, <1>3, <2>1 DEF v
<1>10. QED
  BY <1>5, <1>6, <1>7, <1>8, <1>9 DEF ChannelStep, Link!Next

(* In the default build, as long as nothing was lost to a full ring or       *)
(* mailbox, the link states from what ACT_NETWORK believes through the       *)
(* mailbox, the frame of the publication, the ring and the callback's own    *)
(* list to what the adapter noted alternate: the actor hears of every change *)
(* once and in its order.                                                    *)
THEOREM ViewOnTrackAlways ==
  ASSUME ~Mqtt
  PROVE  NetSpec => []ViewOnTrack
<1>1. Link!Init => Link!InStep
  <2> SUFFICES ASSUME Link!Init PROVE Alternates(<<Believed>> \o Flight, Noted)
    BY InStepIs
  <2>1. <<"WIFI_DOWN">> \o <<>> = <<"WIFI_DOWN">>
    BY ShortCat
  <2>2. QED
    BY <2>1 DEF Link!Init, Alternates
<1>2. NetInit => ViewOnTrack
  BY <1>1, TrackStarts DEF ViewOnTrack
<1>3. /\ NetInv /\ NetInv' /\ WifiOnly /\ WifiOnly' /\ ViewOnTrack /\ [NetNext]_netVars
      => ViewOnTrack'
  BY TrackStep, InStepKept DEF ViewOnTrack
<1>4. QED
  BY <1>2, <1>3, NetInvAlways, WifiOnlyAlways, PTL DEF NetSpec
-----------------------------------------------------------------------------
(* Sensors and readiness.  The inductive invariant of the board: what it     *)
(* records it has told, the ticks not read count no further than those       *)
(* without an interrupt, and the supervisor waits for its ticks at most.     *)

RtcRecord == [booted : BOOLEAN, valid : BOOLEAN, last : Time, sqw : BOOLEAN,
              line : BOOLEAN, since : 0..FallbackTicks, blind : 0..FallbackTicks]

BlindInStep == rtc.blind <= rtc.since /\ rtc.blind < FallbackTicks

StillSettling == ~supervisor.published => supervisor.ticks < SettleTicks

BoardInv == BoardTypeOK /\ AppIsTold /\ BlindInStep /\ StillSettling

\* A new message decides what will be known of its own kind.
LEMMA TellsLast ==
  ASSUME NEW q \in Seq(Message), NEW m \in Message, NEW kind, NEW old, NEW new
  PROVE  /\ m.kind = kind => (Tells(Append(q, m), kind, old, new) <=> Content(m) = new)
         /\ m.kind # kind => (Tells(Append(q, m), kind, old, new) <=> Tells(q, kind, old, new))
<1> DEFINE longer == Append(q, m)
           n == Len(q)
<1>1. /\ n \in Nat /\ Len(longer) = n + 1 /\ longer[n + 1] = m
      /\ \A i \in 1..n : longer[i] = q[i]
  OBVIOUS
<1>2. \A i \in 1..(n + 1) : i \in 1..n \/ i = n + 1
  BY <1>1
<1>3. \A i \in 1..n : i \in 1..(n + 1) /\ n + 1 > i
  BY <1>1
<1>4. n + 1 \in 1..(n + 1) /\ \A j \in 1..(n + 1) : ~(j > n + 1)
  BY <1>1
<1> HIDE DEF longer, n
<1>5. ASSUME m.kind = kind
      PROVE  Tells(longer, kind, old, new) <=> Content(m) = new
  BY <1>1, <1>2, <1>3, <1>4, <1>5 DEF Tells
<1>6. ASSUME m.kind # kind
      PROVE  Tells(longer, kind, old, new) <=> Tells(q, kind, old, new)
  <2>1. \A i \in 1..(n + 1) : longer[i].kind = kind => i \in 1..n /\ longer[i] = q[i]
    BY <1>1, <1>2, <1>6
  <2>2. \A i \in 1..n : q[i].kind = kind => longer[i].kind = kind /\ i \in 1..(n + 1)
    BY <1>1, <1>3
  <2>3. n = Len(q)
    BY DEF n
  <2>4. QED
    BY <1>1, <2>1, <2>2, <2>3, <1>2, <1>3, <1>6 DEF Tells
<1>7. QED
  BY <1>5, <1>6 DEF longer

\* The oldest message passes what it says on to what is known.
LEMMA TellsFirst ==
  ASSUME NEW q \in Seq(Message), q # <<>>, NEW kind, NEW old, NEW new
  PROVE  Tells(Tail(q), kind, IF Head(q).kind = kind THEN Content(Head(q)) ELSE old, new)
            <=> Tells(q, kind, old, new)
<1> DEFINE rest == Tail(q)
           n == Len(rest)
           m == Head(q)
           known1 == IF m.kind = kind THEN Content(m) ELSE old
<1>1. /\ n \in Nat /\ Len(q) = n + 1 /\ q[1] = m
      /\ \A i \in 1..n : rest[i] = q[i + 1]
  OBVIOUS
<1>2. \A i \in 1..(n + 1) : i = 1 \/ (i - 1 \in 1..n /\ (i - 1) + 1 = i)
  BY <1>1
<1>3. \A i \in 1..n : i + 1 \in 1..(n + 1) /\ i + 1 > 1
  BY <1>1
<1>5. 1 \in 1..(n + 1) /\ \A j \in 1..(n + 1) : j > 1 => j - 1 \in 1..n /\ (j - 1) + 1 = j
  BY <1>1
<1> HIDE DEF rest, n, m
<1>7. Len(rest) = n
  BY DEF n
<1>8. CASE \E i \in 1..n : rest[i].kind = kind
  <2>1. \E i \in 1..(n + 1) : q[i].kind = kind
    BY <1>1, <1>3, <1>8
  <2>2. Tells(rest, kind, known1, new) <=>
           \E i \in 1..n : /\ rest[i].kind = kind /\ Content(rest[i]) = new
                           /\ \A j \in 1..n : j > i => rest[j].kind # kind
    BY <1>7, <1>8 DEF Tells
  <2>3. Tells(q, kind, old, new) <=>
           \E i \in 1..(n + 1) : /\ q[i].kind = kind /\ Content(q[i]) = new
                                 /\ \A j \in 1..(n + 1) : j > i => q[j].kind # kind
    BY <1>1, <2>1 DEF Tells
  <2>4. ASSUME NEW i \in 1..n, rest[i].kind = kind, Content(rest[i]) = new,
               \A j \in 1..n : j > i => rest[j].kind # kind
        PROVE  /\ i + 1 \in 1..(n + 1)
               /\ q[i + 1].kind = kind /\ Content(q[i + 1]) = new
               /\ \A j \in 1..(n + 1) : j > i + 1 => q[j].kind # kind
    <3>1. i + 1 \in 1..(n + 1) /\ q[i + 1] = rest[i]
      BY <1>1, <1>3
    <3>2. ASSUME NEW j \in 1..(n + 1), j > i + 1 PROVE q[j].kind # kind
      <4>1. j - 1 \in 1..n /\ (j - 1) + 1 = j /\ j - 1 > i
        BY <1>1, <3>2
      <4>2. rest[j - 1].kind # kind /\ rest[j - 1] = q[(j - 1) + 1]
        BY <1>1, <2>4, <4>1
      <4>3. QED
        BY <4>1, <4>2
    <3>3. QED
      BY <2>4, <3>1, <3>2
  <2>5. ASSUME NEW i \in 1..(n + 1), q[i].kind = kind, Content(q[i]) = new,
               \A j \in 1..(n + 1) : j > i => q[j].kind # kind
        PROVE  \E k \in 1..n : /\ rest[k].kind = kind /\ Content(rest[k]) = new
                               /\ \A j \in 1..n : j > k => rest[j].kind # kind
    <3>1. i # 1
      <4>1. PICK k \in 1..n : rest[k].kind = kind
        BY <1>8
      <4>2. k + 1 \in 1..(n + 1) /\ k + 1 > 1 /\ q[k + 1] = rest[k]
        BY <1>1, <1>3
      <4>3. QED
        BY <2>5, <4>1, <4>2
    <3>2. i - 1 \in 1..n /\ q[i] = rest[i - 1]
      BY <1>1, <1>2, <3>1
    <3>3. ASSUME NEW j \in 1..n, j > i - 1 PROVE rest[j].kind # kind
      <4>1. j + 1 \in 1..(n + 1) /\ j + 1 > i /\ q[j + 1] = rest[j]
        BY <1>1, <1>3, <3>3
      <4>2. QED
        BY <2>5, <4>1
    <3>4. QED
      BY <2>5, <3>2, <3>3
  <2>6. QED
    BY <2>2, <2>3, <2>4, <2>5 DEF rest, m
<1>9. CASE ~\E i \in 1..n : rest[i].kind = kind
  <2>1. \A i \in 1..(n + 1) : i # 1 => q[i].kind # kind
    <3> SUFFICES ASSUME NEW i \in 1..(n + 1), i # 1 PROVE q[i].kind # kind
      OBVIOUS
    <3>1. i - 1 \in 1..n /\ q[i] = rest[i - 1]
      BY <1>1, <1>2
    <3>2. QED
      BY <1>9, <3>1
  <2>2. Tells(rest, kind, known1, new) <=> known1 = new
    BY <1>7, <1>9 DEF Tells
  <2>3. \A j \in 1..(n + 1) : j > 1 => j # 1
    BY <1>1
  <2>4. Tells(q, kind, old, new) <=> known1 = new
    BY <1>1, <1>5, <2>1, <2>3 DEF Tells
  <2>5. QED
    BY <2>2, <2>4 DEF rest, m
<1>10. QED
  BY <1>8, <1>9 DEF rest, m

LEMMA BoardSizes ==
  /\ Times \in Nat \ {0} /\ FallbackTicks \in Nat \ {0} /\ SettleTicks \in Nat \ {0}
  /\ SuperCap \in Nat /\ AppCap \in Nat /\ 0 \in Time /\ NoTime \notin Time
  /\ "RTC" \in Devices /\ "DS18B20" \in Devices /\ Simple \subseteq Devices
  BY BoardAssumption DEF Time, NoTime, Devices

LEMMA Joining ==
  ASSUME NEW S, NEW q \in Seq(S)
  PROVE  /\ q \o <<>> = q
         /\ \A x \in S : q \o <<x>> = Append(q, x)
         /\ Len(<<>>) = 0 /\ \A x \in S : Len(<<x>>) = 1
  OBVIOUS

\* A restart begins anew.
LEMMA BoardFresh ==
  ASSUME mcpNews = FALSE, up = {}, rtc = Rtc0, ds = Ds0, supervisor = Supervisor0, known = App0,
         superBox = <<>>, appBox = <<>>, working \in BOOLEAN, now \in Time
  PROVE  BoardInv
<1>1. BoardTypeOK
  <2>1. rtc \in RtcRecord
    BY BoardSizes DEF Rtc0, RtcRecord
  <2>2. superBox \in Seq(Devices) /\ appBox \in Seq(Message) /\ Len(superBox) = 0 /\ Len(appBox) = 0
    OBVIOUS
  <2>3. /\ ds \in [booted : BOOLEAN, pending : BOOLEAN, valid : BOOLEAN]
        /\ supervisor \in [active : SUBSET Devices, published : BOOLEAN, ticks : 0..SettleTicks]
    BY BoardSizes DEF Ds0, Supervisor0
  <2>4. known \in [ready : BOOLEAN, mask : SUBSET Devices, time : Time \cup {NoTime}, temp : BOOLEAN]
    BY BoardSizes DEF App0
  <2>5. Len(superBox) <= SuperCap /\ Len(appBox) <= AppCap
    BY <2>2, BoardSizes
  <2>6. QED
    BY <2>1, <2>2, <2>3, <2>4, <2>5 DEF BoardTypeOK, RtcRecord
<1>2. AppIsTold
  BY DEF AppIsTold, Rtc0, Supervisor0
<1>3. BlindInStep /\ StillSettling
  BY BoardSizes DEF BlindInStep, StillSettling, Rtc0, Supervisor0
<1>4. QED
  BY <1>1, <1>2, <1>3 DEF BoardInv

LEMMA BoardRestarted ==
  ASSUME Refused, working' \in BOOLEAN, now' \in Time
  PROVE  BoardInv'
<1>1. /\ mcpNews' = FALSE /\ up' = {}
      /\ rtc' = Rtc0 /\ ds' = Ds0 /\ supervisor' = Supervisor0 /\ known' = App0
      /\ superBox' = <<>> /\ appBox' = <<>>
  BY DEF Refused
<1>2. BoardTypeOK'
  <2>1. rtc' \in RtcRecord
    BY <1>1, BoardSizes DEF Rtc0, RtcRecord
  <2>2. /\ superBox' \in Seq(Devices) /\ appBox' \in Seq(Message)
        /\ Len(superBox') = 0 /\ Len(appBox') = 0
    BY <1>1
  <2>3. /\ ds' \in [booted : BOOLEAN, pending : BOOLEAN, valid : BOOLEAN]
        /\ supervisor' \in [active : SUBSET Devices, published : BOOLEAN, ticks : 0..SettleTicks]
    BY <1>1, BoardSizes DEF Ds0, Supervisor0
  <2>4. known' \in [ready : BOOLEAN, mask : SUBSET Devices, time : Time \cup {NoTime}, temp : BOOLEAN]
    BY <1>1, BoardSizes DEF App0
  <2>5. Len(superBox') <= SuperCap /\ Len(appBox') <= AppCap
    BY <2>2, BoardSizes
  <2>6. QED
    BY <1>1, <2>1, <2>2, <2>3, <2>4, <2>5 DEF BoardTypeOK, RtcRecord
<1>3. AppIsTold'
  BY <1>1 DEF AppIsTold, Rtc0, Supervisor0
<1>4. BlindInStep' /\ StillSettling'
  BY <1>1, BoardSizes DEF BlindInStep, StillSettling, Rtc0, Supervisor0
<1>5. QED
  BY <1>2, <1>3, <1>4 DEF BoardInv

\* Reading the clock, with or without success.
LEMMA RefreshStep ==
  ASSUME BoardInv, NEW record \in RtcRecord,
         record.valid = rtc.valid, record.last = rtc.last,
         Refresh(record), mcpNews' \in BOOLEAN, UNCHANGED <<working, now>>
  PROVE  BoardInv'
<1> DEFINE seen == [record EXCEPT !.blind = 0]
<1>1. BoardTypeOK /\ AppIsTold /\ UNCHANGED <<up, ds, supervisor, known>>
  BY DEF BoardInv, Refresh
<1>2. /\ seen \in RtcRecord /\ seen.valid = rtc.valid /\ seen.last = rtc.last
      /\ seen.blind = 0 /\ seen.since = record.since
  BY BoardSizes DEF RtcRecord
<1>3. ReadFails(seen) \/ ReadOk(seen)
  BY DEF Refresh
<1>4. now \in Time /\ appBox \in Seq(Message) /\ superBox \in Seq(Devices)
  BY <1>1 DEF BoardTypeOK
<1> HIDE DEF seen
<1>5. CASE ReadFails(seen)
  <2>1. rtc' = seen /\ UNCHANGED <<superBox, appBox>>
    BY <1>5 DEF ReadFails
  <2>2. BoardTypeOK'
    BY <1>1, <1>2, <2>1 DEF BoardTypeOK, RtcRecord
  <2>3. AppIsTold'
    BY <1>1, <1>2, <2>1 DEF AppIsTold
  <2>4. BlindInStep'
    BY <1>2, <2>1, BoardSizes DEF BlindInStep, RtcRecord
  <2>5. QED
    BY <1>1, <2>2, <2>3, <2>4 DEF BoardInv, StillSettling
<1>6. CASE ReadOk(seen)
  <2> DEFINE m == [kind |-> "TIME_UPDATED", time |-> now]
             ready == IF seen.valid THEN <<>> ELSE <<"RTC">>
             update == IF seen.valid /\ seen.last = now THEN <<>> ELSE <<m>>
  <2>1. /\ Len(superBox) + Len(ready) <= SuperCap /\ Len(appBox) + Len(update) <= AppCap
        /\ rtc' = [seen EXCEPT !.valid = TRUE, !.last = now]
        /\ superBox' = superBox \o ready /\ appBox' = appBox \o update
    BY <1>6 DEF ReadOk, SuperHasRoom, AppHasRoom
  <2>2. m \in Message /\ m.kind = "TIME_UPDATED" /\ Content(m) = now
    BY <1>4 DEF Message, Content
  <2>3. /\ rtc' \in RtcRecord /\ rtc'.valid /\ rtc'.last = now
        /\ rtc'.blind = 0 /\ rtc'.since = record.since
    BY <1>2, <1>4, <2>1 DEF RtcRecord
  <2>4. superBox' \in Seq(Devices) /\ Len(superBox') <= SuperCap
    <3>1. CASE seen.valid
      BY <1>4, <2>1, <3>1, Joining, BoardSizes
    <3>2. CASE ~seen.valid
      <4>1. superBox' = Append(superBox, "RTC") /\ Len(superBox) + 1 <= SuperCap
        BY <1>4, <2>1, <3>2, Joining, BoardSizes
      <4>2. QED
        BY <1>4, <4>1, BoardSizes
    <3>3. QED
      BY <3>1, <3>2
  <2> HIDE DEF m
  <2>5. CASE seen.valid /\ seen.last = now
    <3>1. appBox' = appBox
      BY <1>4, <2>1, <2>5, Joining
    <3>2. BoardTypeOK'
      BY <1>1, <2>3, <2>4, <3>1 DEF BoardTypeOK, RtcRecord
    <3>3. AppIsTold'
      BY <1>1, <1>2, <2>3, <2>5, <3>1 DEF AppIsTold
    <3>4. QED
      BY <1>1, <2>3, <3>2, <3>3, BoardSizes DEF BoardInv, BlindInStep, StillSettling, RtcRecord
  <2>6. CASE ~(seen.valid /\ seen.last = now)
    <3>1. appBox' = Append(appBox, m) /\ Len(appBox) + 1 <= AppCap
      BY <1>4, <2>1, <2>2, <2>6, Joining
    <3>2. appBox' \in Seq(Message) /\ Len(appBox') <= AppCap
      BY <1>4, <2>2, <3>1, BoardSizes
    <3>3. BoardTypeOK'
      BY <1>1, <2>3, <2>4, <3>2 DEF BoardTypeOK, RtcRecord
    <3>4. \A old, new : /\ Tells(appBox', "TIME_UPDATED", old, new) <=> now = new
                        /\ Tells(appBox', "SYSTEM_READY", old, new)
                              <=> Tells(appBox, "SYSTEM_READY", old, new)
      BY <1>4, <2>2, <3>1, TellsLast
    <3>5. AppIsTold'
      BY <1>1, <2>3, <3>4 DEF AppIsTold
    <3>6. QED
      BY <1>1, <2>3, <3>3, <3>5, BoardSizes DEF BoardInv, BlindInStep, StillSettling, RtcRecord
  <2>7. QED
    BY <2>5, <2>6
<1>7. QED
  BY <1>3, <1>5, <1>6

\* The clock's actor at boot, at a falling edge of the square wave, and at a tick.
LEMMA RtcStep ==
  ASSUME BoardInv, RtcBoot \/ SquareWave \/ GpioIrq \/ RtcTick
  PROVE  BoardInv'
<1>1. /\ BoardTypeOK /\ rtc \in RtcRecord /\ working \in BOOLEAN /\ now \in Time
      /\ mcpNews \in BOOLEAN
  BY DEF BoardInv, BoardTypeOK, RtcRecord
<1>2. UNCHANGED <<working, now>>
  BY DEF RtcBoot, SquareWave, GpioIrq, RtcTick
<1>3. ASSUME Refused PROVE BoardInv'
  BY <1>1, <1>2, <1>3, BoardRestarted
<1>4. CASE RtcBoot
  <2> DEFINE record == [rtc EXCEPT !.booted = TRUE]
  <2>1. record \in RtcRecord /\ record.valid = rtc.valid /\ record.last = rtc.last
    BY <1>1 DEF RtcRecord
  <2>2. \/ Refresh(record) /\ UNCHANGED mcpNews
        \/ Refused
    BY <1>4 DEF RtcBoot, TimeRefused
  <2> HIDE DEF record
  <2>3. QED
    BY <1>1, <1>2, <1>3, <2>1, <2>2, RefreshStep
<1>5. CASE GpioIrq
  <2> DEFINE record == [rtc EXCEPT !.since = 0]
  <2>1. record \in RtcRecord /\ record.valid = rtc.valid /\ record.last = rtc.last
    BY <1>1, BoardSizes DEF RtcRecord
  <2>2. \/ Refresh(record) /\ UNCHANGED mcpNews
        \/ Refused
    BY <1>5 DEF GpioIrq, TimeRefused
  <2> HIDE DEF record
  <2>3. QED
    BY <1>1, <1>2, <1>3, <2>1, <2>2, RefreshStep
<1>6. CASE RtcTick
  <2> DEFINE record == [rtc EXCEPT !.since = TickCounted]
  <2>0. rtc.since \in 0..FallbackTicks
    BY <1>1 DEF RtcRecord
  <2>1. /\ TickCounted \in 0..FallbackTicks
        /\ TickCounted = rtc.since + 1 \/ TickCounted >= FallbackTicks
    BY <2>0, BoardSizes DEF TickCounted
  <2>2. /\ record \in RtcRecord /\ record.valid = rtc.valid /\ record.last = rtc.last
        /\ record.since = TickCounted /\ record.blind = rtc.blind
    BY <1>1, <2>1 DEF RtcRecord
  <2>3. \/ Refresh(record) /\ UNCHANGED mcpNews
        \/ Refused
        \/ /\ ~PollDue(record.since) /\ rtc' = [record EXCEPT !.blind = @ + 1]
           /\ UNCHANGED <<mcpNews, up, ds, supervisor, known, superBox, appBox>>
    BY <1>6 DEF RtcTick, TimeRefused
  <2> HIDE DEF record
  <2>4. CASE /\ ~PollDue(record.since) /\ rtc' = [record EXCEPT !.blind = @ + 1]
             /\ UNCHANGED <<mcpNews, up, ds, supervisor, known, superBox, appBox>>
    <3>1. TickCounted < FallbackTicks /\ TickCounted = rtc.since + 1
      BY <2>1, <2>2, <2>4, BoardSizes DEF PollDue
    <3>2. rtc.blind <= rtc.since /\ rtc.blind \in 0..FallbackTicks
      BY <1>1 DEF BoardInv, BlindInStep, RtcRecord
    <3>3. record.blind + 1 \in 0..FallbackTicks /\ record.blind + 1 <= record.since
      BY <2>0, <2>2, <3>1, <3>2, BoardSizes
    <3>4. /\ rtc' \in RtcRecord /\ rtc'.valid = rtc.valid /\ rtc'.last = rtc.last
          /\ rtc'.blind = record.blind + 1 /\ rtc'.since = record.since
      BY <2>2, <2>4, <3>3 DEF RtcRecord
    <3>5. BoardTypeOK'
      BY <1>1, <1>2, <2>4, <3>4 DEF BoardTypeOK, RtcRecord
    <3>6. AppIsTold'
      BY <2>4, <3>4 DEF BoardInv, AppIsTold
    <3>7. BlindInStep'
      BY <2>0, <2>2, <3>1, <3>2, <3>3, <3>4, BoardSizes DEF BlindInStep
    <3>8. QED
      BY <2>4, <3>5, <3>6, <3>7 DEF BoardInv, StillSettling
  <2>5. QED
    BY <1>1, <1>2, <1>3, <2>2, <2>3, <2>4, RefreshStep
<1>7. CASE SquareWave
  <2>1. /\ mcpNews' = FALSE /\ UNCHANGED <<up, ds, supervisor, known, superBox, appBox>>
        /\ \/ rtc' = [rtc EXCEPT !.sqw = TRUE, !.line = TRUE]
           \/ rtc' = [rtc EXCEPT !.sqw = FALSE]
    BY <1>7 DEF SquareWave
  <2>2. /\ rtc' \in RtcRecord /\ rtc'.valid = rtc.valid /\ rtc'.last = rtc.last
        /\ rtc'.blind = rtc.blind /\ rtc'.since = rtc.since
    BY <1>1, <2>1 DEF RtcRecord
  <2>3. BoardTypeOK'
    BY <1>1, <1>2, <2>1, <2>2 DEF BoardTypeOK, RtcRecord
  <2>4. QED
    BY <2>1, <2>2, <2>3 DEF BoardInv, AppIsTold, BlindInStep, StillSettling
<1>8. QED
  BY <1>4, <1>5, <1>6, <1>7

\* The sensor's actor: nothing it publishes is of a kind that is recorded.
LEMMA DsStep ==
  ASSUME BoardInv, DsBoot \/ DsTick
  PROVE  BoardInv'
<1>1. BoardTypeOK /\ UNCHANGED <<working, now>>
  BY DEF BoardInv, DsBoot, DsTick, ScratchpadFails, ScratchpadOk
<1>2. ASSUME NEW record \in [booted : BOOLEAN, pending : BOOLEAN, valid : BOOLEAN], Start(record)
      PROVE  ds' \in [booted : BOOLEAN, pending : BOOLEAN, valid : BOOLEAN]
  BY <1>2 DEF Start
<1>3. /\ ds \in [booted : BOOLEAN, pending : BOOLEAN, valid : BOOLEAN]
      /\ [ds EXCEPT !.valid = TRUE] \in [booted : BOOLEAN, pending : BOOLEAN, valid : BOOLEAN]
  BY <1>1 DEF BoardTypeOK
<1>4. CASE /\ Start(ds)
           /\ UNCHANGED <<mcpNews, up, rtc, supervisor, known, superBox, appBox>>
  <2>1. BoardTypeOK'
    BY <1>1, <1>2, <1>3, <1>4 DEF BoardTypeOK
  <2>2. QED
    BY <1>4, <2>1 DEF BoardInv, AppIsTold, BlindInStep, StillSettling
<1>5. CASE ScratchpadOk
  <2> DEFINE m == [kind |-> "TEMP_UPDATED"]
             ready == IF ds.valid THEN <<>> ELSE <<"DS18B20">>
  <2>1. CASE Refused
    BY <1>1, <2>1, BoardRestarted DEF BoardTypeOK
  <2>2. CASE /\ SuperHasRoom(ready) /\ AppHasRoom(<<m>>)
             /\ Start([ds EXCEPT !.valid = TRUE])
             /\ superBox' = superBox \o ready /\ appBox' = appBox \o <<m>>
             /\ UNCHANGED <<mcpNews, up, rtc, supervisor, known>>
    <3>1. appBox \in Seq(Message) /\ superBox \in Seq(Devices)
      BY <1>1 DEF BoardTypeOK
    <3>2. m \in Message /\ m.kind = "TEMP_UPDATED"
      BY DEF Message
    <3>3. /\ Len(superBox) + Len(ready) <= SuperCap
          /\ superBox' \in Seq(Devices) /\ Len(superBox') <= SuperCap
      <4>1. Len(superBox) + Len(ready) <= SuperCap
        BY <2>2 DEF SuperHasRoom
      <4>2. CASE ds.valid
        BY <2>2, <3>1, <4>1, <4>2, Joining, BoardSizes
      <4>3. CASE ~ds.valid
        <5>1. superBox' = Append(superBox, "DS18B20") /\ Len(superBox) + 1 <= SuperCap
          BY <2>2, <3>1, <4>1, <4>3, Joining, BoardSizes
        <5>2. QED
          BY <3>1, <4>1, <5>1, BoardSizes
      <4>4. QED
        BY <4>2, <4>3
    <3> HIDE DEF m, ready
    <3>4. appBox' = Append(appBox, m) /\ Len(appBox) + 1 <= AppCap
      BY <2>2, <3>1, <3>2, Joining DEF AppHasRoom
    <3>5. appBox' \in Seq(Message) /\ Len(appBox') <= AppCap
      BY <3>1, <3>2, <3>4, BoardSizes
    <3>6. ds' \in [booted : BOOLEAN, pending : BOOLEAN, valid : BOOLEAN]
      BY <1>2, <1>3, <2>2
    <3>7. BoardTypeOK'
      BY <1>1, <2>2, <3>3, <3>5, <3>6 DEF BoardTypeOK
    <3>8. \A old, new : /\ Tells(appBox', "TIME_UPDATED", old, new)
                              <=> Tells(appBox, "TIME_UPDATED", old, new)
                        /\ Tells(appBox', "SYSTEM_READY", old, new)
                              <=> Tells(appBox, "SYSTEM_READY", old, new)
      BY <3>1, <3>2, <3>4, TellsLast
    <3>9. AppIsTold'
      BY <2>2, <3>8 DEF BoardInv, AppIsTold
    <3>10. QED
      BY <2>2, <3>7, <3>9 DEF BoardInv, BlindInStep, StillSettling
  <2>3. QED
    BY <1>5, <2>1, <2>2 DEF ScratchpadOk
<1>6. QED
  BY <1>4, <1>5 DEF DsBoot, DsTick, ScratchpadFails

LEMMA SimpleStep ==
  ASSUME BoardInv, NEW d \in Simple, Announces(d) \/ DropsOut(d)
  PROVE  BoardInv'
<1>1. BoardTypeOK /\ UNCHANGED <<working, now>>
  BY DEF BoardInv, Announces, DropsOut
<1>2. CASE Refused
  BY <1>1, <1>2, BoardRestarted DEF BoardTypeOK
<1>3. CASE DropsOut(d)
  <2>1. BoardTypeOK'
    BY <1>1, <1>3 DEF BoardTypeOK, DropsOut
  <2>2. QED
    BY <1>3, <2>1 DEF DropsOut, BoardInv, AppIsTold, BlindInStep, StillSettling
<1>4. CASE /\ SuperHasRoom(<<d>>)
           /\ up' = up \cup {d}
           /\ superBox' = Append(superBox, d)
           /\ mcpNews' = (mcpNews \/ d = "MCP23008")
           /\ UNCHANGED <<rtc, ds, supervisor, known, appBox>>
  <2>1. superBox \in Seq(Devices) /\ d \in Devices
    BY <1>1, BoardSizes DEF BoardTypeOK
  <2>2. Len(superBox) + 1 <= SuperCap
    BY <1>4, <2>1, Joining DEF SuperHasRoom
  <2>3. superBox' \in Seq(Devices) /\ Len(superBox') <= SuperCap
    BY <1>4, <2>1, <2>2, BoardSizes
  <2>4. BoardTypeOK'
    BY <1>1, <1>4, <2>3 DEF BoardTypeOK
  <2>5. QED
    BY <1>4, <2>4 DEF BoardInv, AppIsTold, BlindInStep, StillSettling
<1>5. QED
  BY <1>2, <1>3, <1>4 DEF Announces

SupervisorRecord == [active : SUBSET Devices, published : BOOLEAN, ticks : 0..SettleTicks]

\* A report, or none, after a step that grows the active devices only if that
\* makes a report due.
LEMMA ReportsStep ==
  ASSUME BoardInv, NEW record \in SupervisorRecord, NEW due \in BOOLEAN,
         record.published = supervisor.published,
         ~due /\ record.published => record.active = supervisor.active,
         ~due /\ ~record.published => record.ticks < SettleTicks,
         Reports(record, due),
         superBox' \in Seq(Devices), Len(superBox') <= SuperCap, UNCHANGED <<working, now>>
  PROVE  BoardInv'
<1>1. BoardTypeOK /\ AppIsTold
  BY DEF BoardInv
<1>2. CASE ~due
  <2>1. supervisor' = record /\ UNCHANGED <<mcpNews, up, rtc, ds, known, appBox>>
    BY <1>2 DEF Reports
  <2>2. BoardTypeOK'
    BY <1>1, <2>1 DEF BoardTypeOK, SupervisorRecord
  <2>3. AppIsTold'
    BY <1>1, <1>2, <2>1 DEF AppIsTold
  <2>4. QED
    BY <1>2, <2>1, <2>2, <2>3 DEF BoardInv, BlindInStep, StillSettling
<1>3. CASE due
  <2> DEFINE m == Ready(record.active)
  <2>1. /\ AppHasRoom(<<"SYSTEM_READY">>)
        /\ supervisor' = [record EXCEPT !.published = TRUE]
        /\ appBox' = Append(appBox, m) /\ UNCHANGED <<mcpNews, up, rtc, ds, known>>
    BY <1>3 DEF Reports
  <2>2. m \in Message /\ m.kind = "SYSTEM_READY" /\ Content(m) = record.active
    BY DEF Message, Ready, Content, SupervisorRecord
  <2> HIDE DEF m
  <2>3. appBox \in Seq(Message) /\ Len(appBox) + 1 <= AppCap
    BY <1>1, <2>1 DEF BoardTypeOK, AppHasRoom
  <2>4. appBox' \in Seq(Message) /\ Len(appBox') <= AppCap
    BY <2>1, <2>2, <2>3, BoardSizes
  <2>5. /\ supervisor' \in SupervisorRecord /\ supervisor'.active = record.active
        /\ supervisor'.published
    BY <2>1 DEF SupervisorRecord
  <2>6. BoardTypeOK'
    <3>1. supervisor' \in [active : SUBSET Devices, published : BOOLEAN, ticks : 0..SettleTicks]
      BY <2>5 DEF SupervisorRecord
    <3>2. /\ superBox' \in Seq(Devices) /\ Len(superBox') <= SuperCap
          /\ UNCHANGED <<working, now, mcpNews, up, rtc, ds, known>>
      BY <2>1
    <3>3. QED
      BY <1>1, <2>4, <3>1, <3>2 DEF BoardTypeOK
  <2>7. \A old, new : /\ Tells(appBox', "TIME_UPDATED", old, new)
                            <=> Tells(appBox, "TIME_UPDATED", old, new)
                      /\ Tells(appBox', "SYSTEM_READY", old, new) <=> record.active = new
    BY <2>1, <2>2, <2>3, TellsLast
  <2>8. AppIsTold'
    BY <1>1, <2>1, <2>5, <2>7 DEF AppIsTold
  <2>9. QED
    BY <2>1, <2>5, <2>6, <2>8 DEF BoardInv, BlindInStep, StillSettling
<1>4. QED
  BY <1>2, <1>3

LEMMA SupervisorStep ==
  ASSUME BoardInv, DeviceReady \/ SupervisorTick
  PROVE  BoardInv'
<1>1. /\ BoardTypeOK /\ supervisor \in SupervisorRecord /\ UNCHANGED <<working, now>>
      /\ StillSettling
  BY DEF BoardInv, BoardTypeOK, SupervisorRecord, DeviceReady, SupervisorTick
<1>2. superBox \in Seq(Devices) /\ Len(superBox) <= SuperCap
  BY <1>1 DEF BoardTypeOK
<1>3. ASSUME Refused PROVE BoardInv'
  BY <1>1, <1>3, BoardRestarted DEF BoardTypeOK
<1>4. CASE DeviceReady
  <2> DEFINE d == Head(superBox)
             record == [supervisor EXCEPT !.active = @ \cup {d}]
             due == ReportDue(record, d \notin supervisor.active)
  <2>1. superBox # <<>> /\ d \in Devices
    BY <1>2, <1>4 DEF DeviceReady
  <2>2. /\ record \in SupervisorRecord /\ record.published = supervisor.published
        /\ record.active = supervisor.active \cup {d} /\ record.ticks = supervisor.ticks
    BY <1>1, <2>1 DEF SupervisorRecord
  <2>3. (Reports(record, due) /\ superBox' = Tail(superBox)) \/ Refused
    BY <1>4 DEF DeviceReady
  <2>4. due \in BOOLEAN
    BY <2>2 DEF ReportDue, Settled, SupervisorRecord
  <2>5. ~due /\ record.published => record.active = supervisor.active
    BY <2>2 DEF ReportDue
  <2>6. ~due /\ ~record.published => record.ticks < SettleTicks
    <3>1. record.ticks \in 0..SettleTicks
      BY <2>2 DEF SupervisorRecord
    <3>2. QED
      BY <3>1, BoardSizes DEF ReportDue, Settled
  <2>7. Tail(superBox) \in Seq(Devices) /\ Len(Tail(superBox)) <= SuperCap
    BY <1>2, <2>1, BoardSizes
  <2> HIDE DEF due, record, d
  <2>8. QED
    BY <1>1, <1>3, <2>2, <2>3, <2>4, <2>5, <2>6, <2>7, ReportsStep
<1>5. CASE SupervisorTick
  <2> DEFINE record == [supervisor EXCEPT !.ticks = @ + 1]
             due == ReportDue(record, FALSE)
  <2>1. ~supervisor.published /\ supervisor.ticks \in 0..SettleTicks
    BY <1>1, <1>5 DEF SupervisorTick, SupervisorRecord
  <2>2. supervisor.ticks + 1 \in 0..SettleTicks
    BY <1>1, <2>1, BoardSizes DEF StillSettling
  <2>3. /\ record \in SupervisorRecord /\ record.published = supervisor.published
        /\ record.active = supervisor.active /\ record.ticks = supervisor.ticks + 1
    BY <1>1, <2>2 DEF SupervisorRecord
  <2>4. (Reports(record, due) /\ superBox' = superBox) \/ Refused
    BY <1>5 DEF SupervisorTick
  <2>5. due \in BOOLEAN
    BY <2>3 DEF ReportDue, Settled, SupervisorRecord
  <2>6. ~due => record.ticks < SettleTicks
    BY <2>1, <2>2, <2>3, BoardSizes DEF ReportDue, Settled
  <2> HIDE DEF due, record
  <2>7. QED
    BY <1>1, <1>2, <1>3, <2>1, <2>3, <2>4, <2>5, <2>6, ReportsStep
<1>6. QED
  BY <1>4, <1>5

\* The application takes the oldest message over.
LEMMA AppStep ==
  ASSUME BoardInv, AppHandles
  PROVE  BoardInv'
<1> DEFINE m == Head(appBox)
<1>1. BoardTypeOK /\ AppIsTold /\ UNCHANGED <<working, now>>
  BY DEF BoardInv, AppHandles
<1>2. CASE Refused
  BY <1>1, <1>2, BoardRestarted DEF BoardTypeOK
<1>3. CASE /\ known' = AppAfter(m) /\ appBox' = Tail(appBox)
           /\ UNCHANGED <<mcpNews, up, rtc, ds, supervisor, superBox>>
  <2>1. appBox \in Seq(Message) /\ appBox # <<>> /\ Len(appBox) <= AppCap
    BY <1>1 DEF AppHandles, BoardTypeOK
  <2>2. m \in Message /\ appBox' \in Seq(Message) /\ Len(appBox') <= AppCap
    BY <1>3, <2>1, BoardSizes
  <2>3. known \in [ready : BOOLEAN, mask : SUBSET Devices, time : Time \cup {NoTime}, temp : BOOLEAN]
    BY <1>1 DEF BoardTypeOK
  <2> HIDE DEF m
  <2>4. /\ known' \in [ready : BOOLEAN, mask : SUBSET Devices, time : Time \cup {NoTime}, temp : BOOLEAN]
        /\ known'.mask = IF m.kind = "SYSTEM_READY" THEN Content(m) ELSE known.mask
        /\ known'.time = IF m.kind = "TIME_UPDATED" THEN Content(m) ELSE known.time
    <3>1. CASE m \in [kind : {"SYSTEM_READY"}, mask : SUBSET Devices]
      BY <1>3, <2>3, <3>1 DEF AppAfter, Content
    <3>2. CASE m \in [kind : {"TIME_UPDATED"}, time : Time]
      BY <1>3, <2>3, <3>2 DEF AppAfter, Content
    <3>3. CASE m \in [kind : {"TEMP_UPDATED"}]
      BY <1>3, <2>3, <3>3 DEF AppAfter, Content
    <3>4. QED
      BY <2>2, <3>1, <3>2, <3>3 DEF Message
  <2>5. \A kind, old, new :
           Tells(appBox', kind, IF m.kind = kind THEN Content(m) ELSE old, new)
              <=> Tells(appBox, kind, old, new)
    BY <1>3, <2>1, TellsFirst DEF m
  <2>6. /\ \A new : Tells(appBox', "SYSTEM_READY", known'.mask, new)
                       <=> Tells(appBox, "SYSTEM_READY", known.mask, new)
        /\ \A new : Tells(appBox', "TIME_UPDATED", known'.time, new)
                       <=> Tells(appBox, "TIME_UPDATED", known.time, new)
    BY <2>4, <2>5
  <2>7. AppIsTold'
    BY <1>1, <1>3, <2>6 DEF AppIsTold
  <2>8. BoardTypeOK'
    BY <1>1, <1>3, <2>2, <2>4 DEF BoardTypeOK
  <2>9. QED
    BY <1>3, <2>7, <2>8 DEF BoardInv, BlindInStep, StillSettling
<1>4. QED
  BY <1>2, <1>3 DEF AppHandles

LEMMA AroundStep ==
  ASSUME BoardInv, Weather \/ Second \/ UNCHANGED boardVars
  PROVE  BoardInv'
<1>1. BoardTypeOK /\ UNCHANGED chip
  BY DEF BoardInv, Weather, Second, boardVars
<1>2. working' \in BOOLEAN /\ now' \in Time
  <2>1. now \in Time /\ working \in BOOLEAN
    BY <1>1 DEF BoardTypeOK
  <2>2. (now + 1) % Times \in Time
    BY <2>1, BoardSizes DEF Time
  <2>3. QED
    BY <2>1, <2>2 DEF Weather, Second, boardVars
<1>3. UNCHANGED <<mcpNews, up, rtc, ds, supervisor, known, superBox, appBox>>
  BY <1>1 DEF chip
<1>4. BoardTypeOK'
  BY <1>1, <1>2, <1>3 DEF BoardTypeOK
<1>5. QED
  BY <1>3, <1>4 DEF BoardInv, AppIsTold, BlindInStep, StillSettling

\* BoardInv is inductive.
THEOREM BoardInvAlways == BoardSpec => []BoardInv
<1>1. BoardInit => BoardInv
  BY BoardFresh DEF BoardInit
<1>2. BoardInv /\ [BoardNext]_boardVars => BoardInv'
  <2> SUFFICES ASSUME BoardInv, [BoardNext]_boardVars PROVE BoardInv'
    OBVIOUS
  <2>1. CASE Weather \/ Second \/ UNCHANGED boardVars
    BY <2>1, AroundStep
  <2>2. CASE RtcBoot \/ SquareWave \/ GpioIrq \/ RtcTick
    BY <2>2, RtcStep
  <2>3. CASE DsBoot \/ DsTick
    BY <2>3, DsStep
  <2>4. CASE \E d \in Simple : Announces(d) \/ DropsOut(d)
    BY <2>4, SimpleStep
  <2>5. CASE DeviceReady \/ SupervisorTick
    BY <2>5, SupervisorStep
  <2>6. CASE AppHandles
    BY <2>6, AppStep
  <2>7. QED
    BY <2>1, <2>2, <2>3, <2>4, <2>5, <2>6 DEF BoardNext
<1>3. QED
  BY <1>1, <1>2, PTL DEF BoardSpec

(***************************************************************************)
(* What the supervisor and the clock's actor recorded the application      *)
(* knows or will know, for any devices, mailboxes and thresholds: both     *)
(* record before they publish, and a refusal restarts the chip.            *)
(***************************************************************************)
THEOREM AppIsToldAlways == BoardSpec => []AppIsTold
<1>1. BoardInv => AppIsTold
  BY DEF BoardInv
<1>2. QED
  BY <1>1, BoardInvAlways, PTL

(***************************************************************************)
(* The clock is read before FallbackTicks ticks have passed without a      *)
(* reading, whatever becomes of the square wave and of its edges.          *)
(***************************************************************************)
THEOREM NeverBlindAlways == BoardSpec => []NeverBlind
<1>1. BoardInv => NeverBlind
  BY DEF BoardInv, BlindInStep, NeverBlind
<1>2. QED
  BY <1>1, BoardInvAlways, PTL
=============================================================================
