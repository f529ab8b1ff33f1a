------------------------------- MODULE Display -------------------------------
(***************************************************************************)
(* The display actor (core/src/ev_oled_actor.c) and the glass it draws on. *)
(* The actor keeps the picture it believes the panel shows (framebuffer),  *)
(* the picture it is asked for (staging) and the ranges in which they      *)
(* differ (dirty); only those are sent.                                    *)
(*                                                                         *)
(* A handler runs to completion, so a handler is one action; a transfer    *)
(* that fails stops at any cell, what went before it is on the glass.  A   *)
(* cell is on or off, a text the number of cells its glyphs light.         *)
(* Half-taken panel commands are not modelled: each transfer sets its own  *)
(* window.                                                                 *)
(*                                                                         *)
(* tick_counter and retry_due_tick are compared by their signed difference *)
(* over at most RetryDelay ticks, which no wrap disturbs: retryIn is it.   *)
(***************************************************************************)
EXTENDS Integers, FiniteSetsExt

CONSTANTS PageCount, Width,  \* EV_OLED_PAGE_COUNT, EV_OLED_WIDTH
          Texts,             \* how many cells a text lights
          SceneLines,        \* EV_OLED_SCENE_LINE_COUNT
          RetryDelay,        \* EV_OLED_RETRY_DELAY_TICKS
          RedrawFails        \* bound: whether the bus may fail between the
                             \* init commands and the end of the redraw

ASSUME DisplayAssumption ==
    /\ PageCount \in Nat \ {0} /\ Width \in Nat \ {0}
    /\ Texts \subseteq Nat /\ SceneLines \in Nat \ {0}
    /\ RetryDelay \in Nat \ {0} /\ RedrawFails \in BOOLEAN

Pages == 0..(PageCount - 1)
Columns == 0..(Width - 1)
Picture == [Pages -> [Columns -> {0, 1}]]
Dark == [p \in Pages |-> [c \in Columns |-> 0]]

\* dirty_column_start and dirty_column_end; an empty range is the clean page.
Range0 == [from : 0..Width, to : 0..Width]
Clean == [p \in Pages |-> [from |-> Width, to |-> 0]]

VARIABLES glass,        \* external: what the panel shows
          calm,         \* external: the bus works and the mailboxes have room
          state, bootObserved, retryIn,
          framebuffer, staging, dirty, pendingFlush
actor == <<state, bootObserved, retryIn, framebuffer, staging, dirty, pendingFlush>>
vars == <<glass, calm, actor>>

Reset ==
    /\ state' = "WAIT_BOOT" /\ bootObserved' = FALSE /\ retryIn' = 0
    /\ framebuffer' = Dark /\ staging' = Dark /\ dirty' = Clean /\ pendingFlush' = FALSE

\* The panel's memory holds anything when the power comes on.
Init ==
    /\ glass \in {Dark, [p \in Pages |-> [c \in Columns |-> 1]]} /\ calm \in BOOLEAN
    /\ state = "WAIT_BOOT" /\ bootObserved = FALSE /\ retryIn = 0
    /\ framebuffer = Dark /\ staging = Dark /\ dirty = Clean /\ pendingFlush = FALSE

World == calm' = ~calm /\ UNCHANGED glass /\ UNCHANGED actor

-----------------------------------------------------------------------------
(* Drawing into a picture. *)

\* ev_oled_actor_render_text_into(): the rest of the page is cleared first.
Rendered(fb, page, column, text) ==
    [fb EXCEPT ![page] = [c \in Columns |->
        IF c < column THEN fb[page][c] ELSE IF c - column < text THEN 1 ELSE 0]]

\* A scene is drawn on a dark picture; lines below the last page are skipped.
Scene == [page : Pages, column : Columns, visible : BOOLEAN, lines : [1..SceneLines -> Texts]]
SceneLine(s, p) == p - s.page + 1
Composed(s) ==
    [p \in Pages |->
        IF s.visible /\ SceneLine(s, p) \in 1..SceneLines
        THEN Rendered(Dark, p, s.column, s.lines[SceneLine(s, p)])[p] ELSE Dark[p]]

\* Fault: the range is replaced, not widened.
Fault_MarkDirty(d, page, from, to) == [d EXCEPT ![page] = [from |-> from, to |-> to]]

MarkDirty(d, page, from, to) ==
    [d EXCEPT ![page] = [from |-> Min({@.from, from}), to |-> Max({@.to, to})]]

\* ev_oled_actor_prepare_scene_commit(): the least ranges that hold every difference.
Difference(p, new) == {c \in Columns : new[p][c] # framebuffer[p][c]}
DirtyAfter(new) ==
    [p \in Pages |->
        IF Difference(p, new) = {} THEN Clean[p]
        ELSE MarkDirty(Clean, p, Min(Difference(p, new)), Max(Difference(p, new)) + 1)[p]]

-----------------------------------------------------------------------------
(* Sending ranges of a picture, page by page, up to the cell where the bus  *)
(* fails; End is the transfer that does not.                                *)

Place(p, c) == p * Width + c
End == PageCount * Width
Whole == [p \in Pages |-> [from |-> 0, to |-> Width]]
InRange(d, p, c) == d[p].from <= c /\ c < d[p].to
Sent(onto, picture, d, cut) ==
    [p \in Pages |-> [c \in Columns |->
        IF InRange(d, p, c) /\ Place(p, c) < cut THEN picture[p][c] ELSE onto[p][c]]]

\* Where a transfer may stop.
Cuts == IF calm THEN {End} ELSE 0..End

ScheduleRetry == state' = "ERROR" /\ retryIn' = RetryDelay

\* ev_oled_actor_flush_pending(), on the glass as it is by then.
Flushes(onto, picture, d, cut) ==
    /\ glass' = Sent(onto, picture, d, cut)
    /\ IF cut = End
       THEN /\ framebuffer' = picture /\ dirty' = Clean /\ pendingFlush' = FALSE
            /\ state' = "READY" /\ retryIn' = 0
       ELSE /\ UNCHANGED framebuffer /\ dirty' = d /\ pendingFlush' = TRUE
            /\ ScheduleRetry

\* Fault: the picture believed to be shown is not sent again.
Fault_Redrawn(cut) == glass

Redrawn(cut) == Sent(glass, framebuffer, Whole, cut)

(* ev_oled_actor_try_initialize().  A redraw that fails schedules a retry   *)
(* and answers OK, so the actor becomes READY all the same.                 *)
InitCommandsFail ==
    /\ ~calm
    /\ ScheduleRetry
    /\ UNCHANGED <<glass, framebuffer, staging, dirty, pendingFlush>>

Initialized(redraw) ==
    IF pendingFlush
    THEN (\E cut \in Cuts : Flushes(Redrawn(redraw), staging, dirty, cut)) /\ UNCHANGED staging
    ELSE /\ state' = "READY" /\ retryIn' = 0 /\ glass' = Redrawn(redraw)
         /\ UNCHANGED <<framebuffer, staging, dirty, pendingFlush>>

\* A refused EV_OLED_READY ends the poll, and the chip restarts.
ReadyRefused(redraw) == ~calm /\ Reset /\ glass' = Redrawn(redraw)

TryInitialize ==
    \/ InitCommandsFail /\ bootObserved' = TRUE
    \/ \E redraw \in IF RedrawFails THEN Cuts ELSE {End} :
          \/ Initialized(redraw) /\ bootObserved' = TRUE
          \/ ReadyRefused(redraw)

-----------------------------------------------------------------------------
(* The handlers. *)

BootCompleted == ~bootObserved /\ TryInitialize /\ UNCHANGED calm

\* Fault: a tick only retries.
Fault_TickReady == UNCHANGED <<glass, actor>>

TickReady ==
    IF pendingFlush
    THEN (\E cut \in Cuts : Flushes(glass, staging, dirty, cut)) /\ UNCHANGED <<bootObserved, staging>>
    ELSE UNCHANGED <<glass, actor>>

RetryDue == retryIn <= 1

Tick1s ==
    /\ bootObserved
    /\ \/ state = "READY" /\ TickReady
       \/ state = "ERROR" /\ RetryDue /\ TryInitialize
       \/ /\ state = "ERROR" /\ ~RetryDue
          /\ retryIn' = retryIn - 1
          /\ UNCHANGED <<glass, state, bootObserved, framebuffer, staging, dirty, pendingFlush>>
    /\ UNCHANGED calm

\* A page or column out of range answers an error and changes nothing.
DisplayText(page, column, text) ==
    /\ staging' = Rendered(IF pendingFlush THEN staging ELSE framebuffer, page, column, text)
    /\ dirty' = MarkDirty(dirty, page, column, Width)
    /\ pendingFlush' = TRUE
    /\ UNCHANGED <<glass, calm, state, bootObserved, retryIn, framebuffer>>

\* ev_oled_actor_handle_commit_frame() without a scene.
CommitText ==
    /\ pendingFlush /\ state = "READY"
    /\ \E cut \in Cuts : Flushes(glass, staging, dirty, cut)
    /\ UNCHANGED <<calm, bootObserved, staging>>

\* With a scene: it replaces whatever was pending, and is sent at once if READY.
CommitScene(s) ==
    LET new == Composed(s)
        d == DirtyAfter(new)
    IN  /\ staging' = new
        /\ IF d # Clean /\ state = "READY"
           THEN \E cut \in Cuts : Flushes(glass, new, d, cut)
           ELSE /\ dirty' = d /\ pendingFlush' = (d # Clean)
                /\ UNCHANGED <<glass, state, retryIn, framebuffer>>
        /\ UNCHANGED <<calm, bootObserved>>

Next ==
    \/ World \/ BootCompleted \/ Tick1s \/ CommitText
    \/ \E p \in Pages, c \in Columns, t \in Texts : DisplayText(p, c, t)
    \/ \E s \in Scene : CommitScene(s)

Spec == Init /\ [][Next]_vars

\* The boot event is published and ticks keep coming.
FairSpec == Spec /\ WF_vars(BootCompleted) /\ WF_vars(Tick1s)

-----------------------------------------------------------------------------
TypeOK ==
    /\ glass \in Picture /\ framebuffer \in Picture /\ staging \in Picture
    /\ calm \in BOOLEAN /\ bootObserved \in BOOLEAN /\ pendingFlush \in BOOLEAN
    /\ state \in {"WAIT_BOOT", "READY", "ERROR"} /\ retryIn \in 0..RetryDelay
    /\ dirty \in [Pages -> Range0]

(***************************************************************************)
(* What is asked for and not believed to be shown lies in a dirty range,   *)
(* however many texts and scenes came since the last flush and however     *)
(* often it failed: no later flush can leave it out.                       *)
(***************************************************************************)
UnsentIsDirty ==
    /\ \A p \in Pages, c \in Columns :
          staging[p][c] # framebuffer[p][c] => InRange(dirty, p, c)
    /\ pendingFlush <=> dirty # Clean

(***************************************************************************)
(* A display that is READY with nothing left to send shows what it         *)
(* believes it shows ("diffs the committed scene against its currently     *)
(* displayed framebuffer"), and that is what it was last asked for, after  *)
(* any history of half-sent pictures, retries and restarts.                *)
(***************************************************************************)
ReadyMeansShown ==
    state = "READY" /\ ~pendingFlush => glass = framebuffer /\ glass = staging

(***************************************************************************)
(* Once the bus works and the mailboxes have room for good, the glass      *)
(* shows again and again what was last asked for: no failure leaves the    *)
(* actor in a state that stops retrying.                                   *)
(***************************************************************************)
ShownAtLast == <>[]calm => []<>(bootObserved /\ glass = staging)
=============================================================================
