------------------------ MODULE ExperienceProjection ------------------------
(***************************************************************************)
(* The reducer that turns the ordered stream of semantic events into what  *)
(* the page shows: packages/experience/src/projection.ts.                  *)
(*                                                                         *)
(* An event is a record; its id is the triple of its interaction, its type *)
(* and a count within the interaction.  A narration is named by the count  *)
(* of its request.  The texts, the status wording, the sequence numbers    *)
(* and the debug list are left out: nothing below depends on them.  Every  *)
(* system.error the coordinator emits is recoverable.                      *)
(***************************************************************************)
EXTENDS Integers, Sequences, SequencesExt, FiniteSets

CONSTANTS
    TranscriptLimit,  \* EXPERIENCE_TRANSCRIPT_LIMIT
    SourceLimit,      \* EXPERIENCE_SOURCE_EVENT_LIMIT
    ActionLogLimit    \* EXPERIENCE_ACTION_LOG_LIMIT

ASSUME ProjectionLimits ==
    /\ {TranscriptLimit, ActionLogLimit} \subseteq Nat \ {0}
    /\ SourceLimit \in Nat \ {0, 1}

NoId == <<"none", "none", 0>>
Id(corr, type, n) == <<corr, type, n>>

\* Of narration.* and audio.playback.* events the narration is n; cause is the
\* causationId, outcome the payload's outcome or a system.error's commit state.
Event(type, corr, n, cause, role, outcome) ==
    [type |-> type, corr |-> corr, n |-> n, id |-> Id(corr, type, n),
     cause |-> cause, role |-> role, outcome |-> outcome]

NoSource == [corr |-> "none", output |-> NoId, n |-> 0, request |-> NoId]
NoCue == [corr |-> "none", phase |-> "none", output |-> NoId, n |-> 0]

initialExperienceProjection ==
    [display |-> "booting", start |-> "ready", source |-> NoSource,
     cue |-> NoCue, log |-> <<>>, items |-> <<>>]

-----------------------------------------------------------------------------
\* appendBounded: the oldest value makes room.
appendBounded(values, value, limit) ==
    IF Len(values) < limit THEN Append(values, value)
    ELSE Append(SubSeq(values, Len(values) - limit + 2, Len(values)), value)

\* Mutant: the oldest reference, the item's own event, makes room.
appendSourceOldest(values, value) == appendBounded(values, value, SourceLimit)

\* appendSourceReference: the first reference, the item's own event, stays.
appendSourceReference(values, value) ==
    IF Len(values) < SourceLimit THEN Append(values, value)
    ELSE <<values[1]>> \o SubSeq(values, Len(values) - SourceLimit + 3, Len(values))
           \o <<value>>

\* appendTranscript, transcriptItem
appendTranscript(p, e, role) ==
    [p EXCEPT !.items = appendBounded(@, [id |-> e.id, role |-> role,
                                          delivery |-> "complete", refs |-> <<e.id>>],
                                      TranscriptLimit)]

\* updateDelivery: every item that the event names as a source.
updateDelivery(p, source, delivery, e) ==
    [p EXCEPT !.items =
       [k \in DOMAIN @ |->
          IF source \in Range(@[k].refs)
          THEN [@[k] EXCEPT !.delivery = delivery,
                            !.refs = appendSourceReference(@, e.id)]
          ELSE @[k]]]

\* matchesActiveStoryStartNarration
matchesStartNarration(p, e) ==
    /\ p.start = "starting" /\ e.role = "narrator"
    /\ e.corr = p.source.corr /\ e.n = p.source.n /\ e.cause = p.source.request

\* matchesActiveStoryStartPlayback
matchesStartPlayback(p, e) ==
    /\ p.start = "starting" /\ e.role = "narrator"
    /\ e.corr = p.source.corr /\ e.n = p.source.n /\ e.cause = p.source.output

-----------------------------------------------------------------------------
(* One operator per family of events.                                      *)

ofCaptureEnded(p, e) ==
    [p EXCEPT !.display = CASE e.outcome = "submitted" -> "processing"
                            [] e.outcome = "failed"    -> "blocked"
                            [] OTHER                   -> "ready"]

ofTranscript(p, e) ==
    appendTranscript([p EXCEPT !.cue = IF @.corr = e.corr THEN @ ELSE NoCue], e, "player")

\* Mutant: a request is logged before it is known to be committed.
ofRequestedLogged(p, e) ==
    appendTranscript([p EXCEPT !.cue = [NoCue EXCEPT !.corr = e.corr, !.phase = "requested"],
                               !.log = SubSeq(<<e.corr>> \o @, 1,
                                              IF Len(@) < ActionLogLimit THEN Len(@) + 1
                                              ELSE ActionLogLimit)],
                     e, "system")

ofRequested(p, e) ==
    appendTranscript([p EXCEPT !.cue = [NoCue EXCEPT !.corr = e.corr, !.phase = "requested"]],
                     e, "system")

\* projectCommittedAction: newest first, a known action stays in its place.
addCommittedAction(log, corr) ==
    IF corr \in Range(log) THEN log
    ELSE SubSeq(<<corr>> \o log, 1,
                IF Len(log) < ActionLogLimit THEN Len(log) + 1 ELSE ActionLogLimit)

ofCommitted(p, e) ==
    [p EXCEPT !.log = addCommittedAction(@, e.corr),
              !.cue = IF @ = NoCue THEN [@ EXCEPT !.corr = e.corr, !.phase = "committed"]
                      ELSE IF @.corr = e.corr THEN [@ EXCEPT !.phase = "committed"]
                      ELSE @]

ofRejected(p, e) == [p EXCEPT !.cue = IF @.corr = e.corr THEN NoCue ELSE @]

\* The output of revision zero opens the story.
ofOutput(p, e) ==
    LET opened == IF e.corr = "opening" /\ p.start = "ready"
                  THEN [p EXCEPT !.start = "starting", !.display = "processing",
                                 !.source = [NoSource EXCEPT !.corr = e.corr,
                                                             !.output = e.id]]
                  ELSE p
    IN  appendTranscript(
          [opened EXCEPT !.cue = IF @.phase = "committed" /\ @.corr = e.corr
                                 THEN [@ EXCEPT !.output = e.id] ELSE @],
          e, "game")

ofError(p, e) ==
    appendTranscript(
      [p EXCEPT !.cue = IF @.corr = e.corr /\ e.outcome # "confirmed" THEN NoCue ELSE @,
                !.display = "blocked"],
      e, "system")

\* The narration of the cue's output settled.
cueSettled(p, e) ==
    IF p.cue.corr = e.corr /\ e.role = "narrator" /\ p.cue.n = e.n
    THEN [p EXCEPT !.cue = NoCue] ELSE p

\* narration.cancelled and narration.failed touch the delivery only of the
\* opening; display is what the opening's end shows.
ofPreparationEnd(p, e, display, delivery) ==
    cueSettled(IF matchesStartNarration(p, e)
               THEN [updateDelivery(p, e.cause, delivery, e) EXCEPT
                       !.start = "started", !.display = display]
               ELSE p, e)

ofNarrationRequested(p, e) ==
    updateDelivery(
      [p EXCEPT
         !.source = IF /\ p.start = "starting" /\ e.role = "narrator"
                       /\ e.corr = @.corr /\ e.cause = @.output
                    THEN [@ EXCEPT !.n = e.n, !.request = e.id] ELSE @,
         !.cue = IF @.corr = e.corr /\ e.role = "narrator" /\ @.output = e.cause
                 THEN [@ EXCEPT !.n = e.n] ELSE @],
      e.cause, "pending", e)

ofPlaybackStarted(p, e) ==
    updateDelivery(
      [p EXCEPT !.display = IF e.role = "guide" THEN "guide-speaking"
                            ELSE "narrator-speaking"],
      e.cause, "speaking", e)

\* Mutant: an interrupted playback leaves its item as it was.
ofPlaybackEndedKept(p, e) ==
    LET startEnds == matchesStartPlayback(p, e)
        shown == [p EXCEPT
                    !.start = IF startEnds THEN "started" ELSE @,
                    !.display = IF e.outcome = "failed" THEN "blocked"
                                ELSE IF startEnds \/ @ # "paused" THEN "ready" ELSE @]
        ended == IF e.outcome = "interrupted" THEN shown
                 ELSE updateDelivery(shown, e.cause, e.outcome, e)
    IN  IF p.cue.output = e.cause THEN cueSettled(ended, e) ELSE ended

\* A pause that the player asked for outlives the end of the playback.
ofPlaybackEnded(p, e) ==
    LET startEnds == matchesStartPlayback(p, e)
        shown == [p EXCEPT
                    !.start = IF startEnds THEN "started" ELSE @,
                    !.display = IF e.outcome = "failed" THEN "blocked"
                                ELSE IF startEnds \/ @ # "paused" THEN "ready" ELSE @]
        ended == updateDelivery(shown, e.cause, e.outcome, e)
    IN  IF p.cue.output = e.cause THEN cueSettled(ended, e) ELSE ended

\* reduceExperienceProjection
reduceExperienceProjection(p, e) ==
    CASE e.type = "audio.capture.started"   -> [p EXCEPT !.display = "listening", !.cue = NoCue]
      [] e.type = "audio.capture.ended"     -> ofCaptureEnded(p, e)
      [] e.type = "session.paused"          -> [p EXCEPT !.display = "paused", !.cue = NoCue]
      [] e.type = "session.resumed"         -> [p EXCEPT !.display = "ready"]
      [] e.type = "transcript.final"        -> ofTranscript(p, e)
      [] e.type = "experience.role-introduction" -> appendTranscript(p, e, e.role)
      [] e.type = "guide.reply"             -> appendTranscript(p, e, "guide")
      [] e.type = "engine.command.requested" -> ofRequested(p, e)
      [] e.type = "engine.command.committed" -> ofCommitted(p, e)
      [] e.type = "engine.command.rejected" -> ofRejected(p, e)
      [] e.type = "engine.output"           -> ofOutput(p, e)
      [] e.type = "system.error"            -> ofError(p, e)
      [] e.type = "narration.cancelled"     -> ofPreparationEnd(p, e, "ready", "interrupted")
      [] e.type = "narration.failed"        -> ofPreparationEnd(p, e, "blocked", "failed")
      [] e.type = "narration.requested"     -> ofNarrationRequested(p, e)
      [] e.type = "audio.playback.started"  -> ofPlaybackStarted(p, e)
      [] e.type = "audio.playback.ended"    -> ofPlaybackEnded(p, e)
      [] OTHER                              -> p

\* projectExperience: the events of one step, in order.
projectExperience(p, events) == FoldLeft(reduceExperienceProjection, p, events)

=============================================================================
