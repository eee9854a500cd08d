-------------------------- MODULE SpokenTranscript --------------------------
(***************************************************************************)
(* The caption region of the live page (SpokenTranscriptPresentation in    *)
(* apps/web/src/spoken-transcript-presentation.ts) under the calls that    *)
(* the page's publish() makes for semantic events.                         *)
(*                                                                         *)
(* The object has no notion of which narration it is told about: `finish'  *)
(* carries an outcome and no identity, the lines wait in a queue behind    *)
(* timers, and the player may pause in between.  `view' is the object's    *)
(* private state; its methods are operators from view to view, composed    *)
(* as the methods call each other.                                         *)
(***************************************************************************)
EXTENDS Integers, Sequences, SequencesExt, FiniteSets

CONSTANTS
    Lines,         \* lines of a narration (non-empty lines of its text)
    Words,         \* words of a line
    HistoryLimit,  \* HISTORY_LIMIT
    MaxCalls       \* bound: lines handed to the region

VARIABLES
    view,   \* the presentation object
    play,   \* the narration being played: its call, 0 before its start, or none
    held,   \* the session is paused
    calls,  \* lines handed over so far; a line's call number identifies it
    ended,  \* history: outcome of the playback of each narration call
    fresh   \* history: narration calls that are not replays

vars == <<view, play, held, calls, ended, fresh>>

Outcomes == {"complete", "interrupted", "failed"}
NoItem == [id |-> 0, mode |-> "none", retain |-> FALSE, outcome |-> "none"]
Item(id, mode, retain) ==
    [id |-> id, mode |-> mode, retain |-> retain, outcome |-> "none"]
NoPlay == -1

\* The object as constructed, with or without reduced motion.  log is a history
\* variable: every row archived.
Init ==
    /\ \E reduced \in BOOLEAN :
       view = [reduced |-> reduced, item |-> NoItem, line |-> 0, words |-> 0,
               state |-> "idle", role |-> "narration", paused |-> FALSE,
               callback |-> "none", armed |-> FALSE, pending |-> <<>>, history |-> <<>>, log |-> <<>>]
    /\ play = NoPlay /\ held = FALSE /\ calls = 0
    /\ ended = [c \in 1..MaxCalls |-> "none"] /\ fresh = {}

-----------------------------------------------------------------------------
(* The private methods.                                                    *)

LineCount(item) == IF item.mode = "narration" THEN Lines ELSE 1

\* Mutant: the history is trimmed one row late.
ArchiveOver(v) ==
    LET row  == [id |-> v.item.id, line |-> v.line, words |-> v.words]
        keep == v.words > 0 /\ v.item.retain
    IN  [v EXCEPT !.words = 0,
                  !.history = IF keep
                              THEN SubSeq(<<row>> \o @, 1,
                                          IF Len(@) <= HistoryLimit THEN Len(@) + 1
                                          ELSE HistoryLimit)
                              ELSE @,
                  !.log = IF keep THEN Append(@, row) ELSE @]

\* #archiveActive: what has been revealed moves to the bounded history.
Archive(v) ==
    LET row  == [id |-> v.item.id, line |-> v.line, words |-> v.words]
        keep == v.words > 0 /\ v.item.retain
    IN  [v EXCEPT !.words = 0,
                  !.history = IF keep
                              THEN SubSeq(<<row>> \o @, 1,
                                          IF Len(@) < HistoryLimit THEN Len(@) + 1
                                          ELSE HistoryLimit)
                              ELSE @,
                  !.log = IF keep THEN Append(@, row) ELSE @]

\* #cancelTimer also forgets that the captions were paused.
CancelTimer(v) == [v EXCEPT !.callback = "none", !.armed = FALSE, !.paused = FALSE]

\* #scheduleNext: while paused the callback is kept and not armed.
ScheduleNext(v, callback) ==
    [v EXCEPT !.callback = callback, !.armed = ~v.paused]

\* Mutant: finishing reveals the current line and drops the rest.
RenderRemainingOne(v) == [v EXCEPT !.words = Words]

\* #renderRemainingLines, and the loop of #finishActive.
RECURSIVE RenderRemaining(_)
RenderRemaining(v) ==
    LET shown == [v EXCEPT !.words = Words]
    IN  IF v.line < LineCount(v.item)
        THEN RenderRemaining([Archive(shown) EXCEPT !.line = @ + 1])
        ELSE shown

\* #startNow: player and command lines appear at once and are held by a timer.
StartNow(v, item) ==
    LET begun == [Archive(CancelTimer(v)) EXCEPT
                    !.item = item, !.line = 1, !.state = "active", !.role = item.mode]
    IN  IF item.mode # "narration"
        THEN ScheduleNext([begun EXCEPT !.words = Words], "finish")
        ELSE IF v.reduced THEN RenderRemaining(begun)
        ELSE ScheduleNext(begun, "advance")

\* Mutant: a line that is leaving no longer holds the region.
QueueOrStartEarly(v, item) ==
    IF v.item # NoItem /\ v.state = "active"
    THEN [v EXCEPT !.pending = Append(@, item)]
    ELSE StartNow(v, item)

\* #queueOrStart: one line at a time; the others wait.
QueueOrStart(v, item) ==
    IF v.item # NoItem /\ v.state \in {"active", "settling"}
    THEN [v EXCEPT !.pending = Append(@, item)]
    ELSE StartNow(v, item)

\* Mutant: the newest waiting narration is taken for the one that ended.
RetainOutcomeNewest(v, outcome) ==
    LET open == {k \in DOMAIN v.pending : v.pending[k].mode = "narration"}
    IN  IF open = {} THEN v
        ELSE [v EXCEPT !.pending[CHOOSE k \in open : \A j \in open : k >= j].outcome
                         = outcome]

\* #retainPendingNarrationOutcome: the first waiting narration without an
\* outcome is the one whose playback has just ended.
RetainOutcome(v, outcome) ==
    LET open == {k \in DOMAIN v.pending : /\ v.pending[k].mode = "narration"
                                          /\ v.pending[k].outcome = "none"}
    IN  IF open = {} THEN v
        ELSE [v EXCEPT !.pending[CHOOSE k \in open : \A j \in open : k <= j].outcome
                         = outcome]

\* #archiveFinishedLine
ArchiveFinished(v) ==
    [Archive(v) EXCEPT !.item = NoItem, !.line = 0, !.state = "settled"]

RECURSIVE Finish(_, _), StartPending(_)

\* Mutant: with reduced motion the line is archived and nothing follows.
TransitionAlone(v) ==
    IF v.reduced THEN ArchiveFinished(v) ELSE ScheduleNext(v, "leave")

\* #transitionFinishedLine: with reduced motion the next line follows at once.
Transition(v) ==
    IF v.reduced THEN StartPending(ArchiveFinished(v))
    ELSE ScheduleNext(v, "leave")

\* Mutant: the rest of a stopped narration is revealed as well.
FinishActiveReveals(v, outcome) ==
    IF v.item = NoItem THEN v
    ELSE IF v.state = "settling" THEN RetainOutcome(v, outcome)
    ELSE Transition(RenderRemaining([CancelTimer(v) EXCEPT !.state = "settling",
                                                           !.item.outcome = outcome]))

\* #finishActive
FinishActive(v, outcome) ==
    IF v.item = NoItem THEN v
    ELSE IF v.state = "settling" THEN RetainOutcome(v, outcome)
    ELSE LET settling == [CancelTimer(v) EXCEPT !.state = "settling",
                                                !.item.outcome = outcome]
         IN  Transition(IF outcome = "complete" THEN RenderRemaining(settling)
                        ELSE settling)

\* finish: while a player or command line is shown the outcome belongs to a
\* narration that still waits.
Finish(v, outcome) ==
    IF v.role \in {"player", "command"} THEN RetainOutcome(v, outcome)
    ELSE FinishActive(v, outcome)

\* #startPending: a narration that ended while it waited is finished at once.
StartPending(v) ==
    IF v.pending = <<>> THEN v
    ELSE LET next == Head(v.pending)
             begun == StartNow([v EXCEPT !.pending = Tail(@)],
                               [next EXCEPT !.outcome = "none"])
         IN  IF next.outcome # "none" THEN Finish(begun, next.outcome) ELSE begun

\* #advance: reveal one more word, then wait for the next word or line.
Advance(v) ==
    LET shown == [v EXCEPT !.words = @ + 1]
    IN  IF shown.words < Words THEN ScheduleNext(shown, "advance")
        ELSE IF v.line < LineCount(v.item) THEN ScheduleNext(shown, "advanceLine")
        ELSE shown

\* #advanceLine, #showLine
AdvanceLine(v) == ScheduleNext([Archive(v) EXCEPT !.line = @ + 1], "advance")

-----------------------------------------------------------------------------
(* The timer, and the calls publish() makes for the session's events.      *)

\* #armScheduled: the callback runs unless a newer generation cancelled it.
TimerFires ==
    /\ view.armed
    /\ LET v == [view EXCEPT !.callback = "none", !.armed = FALSE]
       IN  view' = CASE view.callback = "advance"     -> Advance(v)
                     [] view.callback = "advanceLine" -> AdvanceLine(v)
                     [] view.callback = "finish"      -> FinishActive(v, "complete")
                     [] view.callback = "leave"       -> StartPending(ArchiveFinished(v))
    /\ UNCHANGED <<play, held, calls, ended, fresh>>

\* transcript.final -> showPlayer; a turn begins when nothing is played.
ShowPlayer ==
    /\ calls < MaxCalls /\ play = NoPlay
    /\ calls' = calls + 1
    /\ view' = QueueOrStart(view, Item(calls', "player", TRUE))
    /\ UNCHANGED <<play, held, ended, fresh>>

\* engine.command.committed -> showCommand; a stopped turn may commit late,
\* while an older narration is being repeated.
ShowCommand ==
    /\ calls < MaxCalls
    /\ calls' = calls + 1
    /\ view' = QueueOrStart(view, Item(calls', "command", TRUE))
    /\ UNCHANGED <<play, held, ended, fresh>>

\* The controller asks the playback port for a narration: nothing is shown yet.
RequestPlayback ==
    /\ play = NoPlay /\ ~held /\ calls < MaxCalls
    /\ play' = 0
    /\ UNCHANGED <<view, held, calls, ended, fresh>>

\* audio.playback.started -> start, or replay of a narration already shown,
\* which leaves no row in the history.
PlaybackStarted(replay) ==
    /\ play = 0 /\ calls < MaxCalls
    /\ calls' = calls + 1 /\ play' = calls'
    /\ view' = QueueOrStart(view, Item(calls', "narration", ~replay))
    /\ fresh' = IF replay THEN fresh ELSE fresh \cup {calls'}
    /\ UNCHANGED <<held, ended>>

\* audio.playback.ended -> finish, also for a playback that never started.
\* While the session is paused only a stop can end the playback.
PlaybackEnded(outcome) ==
    /\ play # NoPlay
    /\ outcome = "complete" => play # 0
    /\ held => outcome = "interrupted"
    /\ play' = NoPlay
    /\ view' = Finish(view, outcome)
    /\ ended' = IF play = 0 THEN ended ELSE [ended EXCEPT ![play] = outcome]
    /\ UNCHANGED <<held, calls, fresh>>

\* session.paused -> pause: the timer's remaining time is kept.
Pause ==
    /\ ~held /\ play # 0
    /\ held' = TRUE
    /\ view' = IF view.paused THEN view
               ELSE [view EXCEPT !.paused = TRUE, !.armed = FALSE]
    /\ UNCHANGED <<play, calls, ended, fresh>>

\* session.resumed -> resume: the kept callback is armed again.
Resume ==
    /\ held
    /\ held' = FALSE
    /\ view' = IF ~view.paused THEN view
               ELSE [view EXCEPT !.paused = FALSE,
                                 !.armed = view.callback # "none"]
    /\ UNCHANGED <<play, calls, ended, fresh>>

Next ==
    \/ TimerFires
    \/ ShowPlayer
    \/ ShowCommand
    \/ RequestPlayback
    \/ \E replay \in BOOLEAN : PlaybackStarted(replay)
    \/ \E outcome \in Outcomes : PlaybackEnded(outcome)
    \/ Pause
    \/ Resume

Spec == Init /\ [][Next]_vars

-----------------------------------------------------------------------------
(* Properties.                                                             *)

Rows == [id : 1..MaxCalls, line : 1..Lines, words : 1..Words]
Items == [id : 1..MaxCalls, mode : {"narration", "player", "command"},
          retain : BOOLEAN, outcome : Outcomes \cup {"none"}]

CaptionTypeOK ==
    /\ view.item \in Items \cup {NoItem}
    /\ view.line \in 0..Lines /\ view.words \in 0..Words
    /\ view.state \in {"idle", "active", "settling", "settled"}
    /\ view.callback \in {"none", "advance", "advanceLine", "finish", "leave"}
    /\ view.pending \in Seq(Items)
    /\ view.history \in Seq(Rows) /\ Len(view.history) <= HistoryLimit
    /\ play \in {NoPlay} \cup 0..MaxCalls
    /\ view.armed => view.callback # "none" /\ ~view.paused

\* The text of a line that completed is shown in full, of one that did not
\* only what had been revealed: `finish' names no narration, so the outcome a
\* caption gets must be the one of its own playback, wherever it waits.
OutcomeIsOwn ==
    \A item \in {view.item} \cup Range(view.pending) :
        item.mode = "narration" /\ item.outcome # "none" => ended[item.id] = item.outcome

\* A narration that was played to its end is read in full: once it has left the
\* region and the queue, every one of its lines is an archived row of all words.
HeardIsShown ==
    \A c \in {d \in fresh : ended[d] = "complete"} :
        \/ c \in {view.item.id} \cup {view.pending[k].id : k \in DOMAIN view.pending}
        \/ \A line \in 1..Lines :
             [id |-> c, line |-> line, words |-> Words] \in Range(view.log)

\* Captions appear in the order of the calls, and the history is the tail of
\* what was archived, newest first, whatever waits, pauses or is finished early.
InOrder ==
    /\ \A j, k \in DOMAIN view.log : j < k =>
         \/ view.log[j].id < view.log[k].id
         \/ view.log[j].id = view.log[k].id /\ view.log[j].line < view.log[k].line
    /\ view.item # NoItem =>
         \A k \in DOMAIN view.log : view.log[k].id <= view.item.id
    /\ \A k \in DOMAIN view.history :
         view.history[k] = view.log[Len(view.log) + 1 - k]

\* Nothing is stuck: a line that waits has something before it that will leave,
\* a running timer, the callback a pause of the session keeps for its resumption,
\* or a narration whose own playback is still to end.
CaptionsAdvance ==
    /\ view.pending # <<>> =>
         /\ view.item # NoItem
         /\ \/ view.armed
            \/ view.paused /\ view.callback # "none"
            \/ /\ view.item.mode = "narration" /\ view.state = "active"
               /\ play = view.item.id
    /\ view.paused => held

\* The captions are those of what was heard, whole, in order, and never stuck.
CaptionsFollow == CaptionTypeOK /\ OutcomeIsOwn /\ HeardIsShown /\ InOrder /\ CaptionsAdvance

\* An interrupted or failed narration reveals nothing more after the player
\* stopped it, however many timers were running.
StopFreezesCaption ==
    [][ view'.item.outcome \in {"interrupted", "failed"} /\ view'.item.id = view.item.id
          => view'.words = view.words /\ view'.line = view.line ]_vars

=============================================================================
