------------------------------ MODULE LiveShell ------------------------------
(***************************************************************************)
(* The live page: run() of apps/web/src/openai-live-shell.ts, which wires  *)
(* the voice controller and the turn coordinator to the projection and to  *)
(* what the player sees (voice-state- and story-start-presentation.ts).    *)
(*                                                                         *)
(* A step is what happens between two turns of the browser's event loop:   *)
(* the handler of a click, a key, a media event or a network answer with   *)
(* every microtask it starts.  Controller and coordinator are reduced to   *)
(* the calls and events the page can tell apart (their own interleavings   *)
(* are in VoiceAudioController and SemanticTurnCoordinator): a stop ends   *)
(* a play, a capture, a transcription or a guide call at once, and only a  *)
(* command already submitted to the engine outlives it.                    *)
(***************************************************************************)
EXTENDS ExperienceProjection

CONSTANTS
    Segments,  \* sentences of the opening narration
    TurnIds,   \* interactions of the player's turns, in order
    MaxRetries \* bound: preparations of the opening

ASSUME ShellConstants ==
    Segments \in Nat \ {0} /\ MaxRetries \in Nat \ {0} /\ TurnIds \in Seq(STRING)

VARIABLES
    phase,     \* storyStartPhase
    ctl,       \* controller.state
    play,      \* the narration being played and the ones that follow it
    last,      \* #lastPlayed
    resumeTo,  \* #pausedPlaybackState
    opening,   \* the coordinator's opening: none, inspecting, published, ready
    prepared,  \* opening narrations that are prepared and not taken
    retry,     \* openingPreparationRetry
    tries,     \* preparations of the opening so far
    turn,      \* the coordinator's turn
    turns,     \* turns so far
    preview,   \* the voice sample being played
    samples,   \* the Sample buttons are enabled
    proj,      \* projection
    shown,     \* the activity state on the page
    controls,  \* the arguments of the last applyStoryStartPresentation
    committed  \* history: turns whose command was committed

boot == <<phase, opening, prepared, retry, tries>>
turnVars == <<turn, turns, committed>>
sample == <<preview, samples>>
vars == <<phase, ctl, play, last, resumeTo, opening, prepared, retry, tries, turn,
          turns, preview, samples, proj, shown, controls, committed>>

NoRequest == [corr |-> "none", n |-> 0, role |-> "none", cause |-> NoId]
NoPlay == [by |-> "none", request |-> NoRequest, rest |-> <<>>, stage |-> "none"]
NoTurn == [stage |-> "none", corr |-> "none", aborted |-> FALSE]

-----------------------------------------------------------------------------
(* What the page shows.                                                    *)

\* activityStateForVoiceState
Activity(state) ==
    CASE state = "booting"               -> "starting"
      [] state = "ready"                 -> "idle"
      [] state = "requesting-microphone" -> "requesting"
      [] state = "listening"             -> "listening"
      [] state = "processing"            -> "processing"
      [] state \in {"guide-speaking", "narrator-speaking"} -> "speaking"
      [] state = "paused"                -> "paused"
      [] OTHER                           -> "blocked"

Speaking(role) == IF role = "guide" THEN "guide-speaking" ELSE "narrator-speaking"
SpeakingStates == {"guide-speaking", "narrator-speaking"}
Operating == {"requesting-microphone", "listening", "processing"} \cup SpeakingStates

\* authoritativeVoiceStatePresentation: a blocked projection wins over a
\* controller that is doing nothing.
Shows(state, p) ==
    IF p.display = "blocked" /\ state \notin Operating THEN "blocked" ELSE Activity(state)

\* publish: the projection takes the events in and is rendered.
Publish(events) == proj' = projectExperience(proj, events)

\* #setState and onState, or presentControllerState, after Publish.
Present(state) ==
    /\ ctl' = state
    /\ controls' = <<phase', state>>
    /\ shown' = Shows(state, proj')

\* The last call was renderProjection: the controller did not change.
Render == UNCHANGED <<ctl, controls>> /\ shown' = Activity(proj'.display)

-----------------------------------------------------------------------------
(* The events of the coordinator's and the controller's operations.        *)

Said(type, corr, n, cause, role) == Event(type, corr, n, cause, role, "none")
Failed(corr, n, commit) == Event("system.error", corr, n, NoId, "none", commit)
Output(corr) == Id(corr, "engine.output", 0)
Requested(r) == Said("narration.requested", r.corr, r.n, r.cause, r.role)
Ended(r, outcome) == Event("audio.playback.ended", r.corr, r.n, r.cause, r.role, outcome)

\* #prepareNarrationSegment of a request that the narrator refuses.
Refused(r) == <<Requested(r),
                Said("narration.failed", r.corr, r.n,
                     Id(r.corr, "narration.requested", r.n), r.role),
                Failed(r.corr, r.n, IF r.role = "narrator" THEN "confirmed"
                                    ELSE "not-submitted")>>

IntroductionRequest(k) ==
    [corr |-> "intro", n |-> k, role |-> IF k = 1 THEN "guide" ELSE "narrator",
     cause |-> Id("intro", "experience.role-introduction", k)]

\* #runRoleIntroduction: the first good messages are prepared, then one is not.
IntroductionEvents(good) ==
    FlattenSeq([k \in 1..(IF good = 2 THEN 2 ELSE good + 1) |->
        <<Said("experience.role-introduction", "intro", k, NoId,
               IntroductionRequest(k).role)>>
          \o (IF k <= good THEN <<Requested(IntroductionRequest(k))>>
              ELSE Refused(IntroductionRequest(k)))])

\* The opening's segments of one preparation; a retry asks for new narrations.
OpeningRequests ==
    [k \in 1..Segments |-> [corr |-> "opening", n |-> tries * Segments + k,
                            role |-> "narrator", cause |-> Output("opening")]]

\* #narrate of the opening: the first good segments are prepared, then one is not.
OpeningEvents(good) ==
    FlattenSeq([k \in 1..(IF good = Segments THEN good ELSE good + 1) |->
        IF k <= good THEN <<Requested(OpeningRequests[k])>> ELSE Refused(OpeningRequests[k])])

Init ==
    /\ phase = "welcome" /\ ctl = "ready" /\ play = NoPlay /\ last = NoRequest
    /\ resumeTo = "none" /\ opening = "none" /\ prepared = <<>> /\ retry = FALSE
    /\ tries = 0 /\ turn = NoTurn /\ turns = 0 /\ preview = "none" /\ samples = TRUE
    /\ proj = [initialExperienceProjection EXCEPT !.display = "ready"]
    /\ shown = "idle" /\ controls = <<"welcome", "ready">> /\ committed = {}

\* #play of the first request; the others follow it.
StartPlay(by, requests) ==
    /\ play' = [by |-> by, request |-> Head(requests), rest |-> Tail(requests),
                stage |-> "fetching"]
    /\ last' = Head(requests)

-----------------------------------------------------------------------------
(* ENTER and THE STORY BEGINS.                                             *)

\* startIntroduction; good messages out of two are prepared.
Enter(good) ==
    /\ phase = "welcome" /\ ctl = "ready"
    /\ Publish(IntroductionEvents(good))
    /\ IF good = 2
       THEN /\ StartPlay("intro", <<IntroductionRequest(1), IntroductionRequest(2)>>)
            /\ phase' = "introducing"
            /\ Present("processing")
       ELSE /\ UNCHANGED <<play, last>>
            /\ phase' = "story-ready"
            /\ Present("ready")
    /\ UNCHANGED <<resumeTo, opening, prepared, retry, tries, turnVars, sample>>

\* controller.playPrepared of the opening, called by `by': refused unless the
\* controller is ready, and then startStory's catch goes back to the gate.
PlayOpening(by, requests) ==
    IF ctl \notin {"ready", "processing"}
    THEN /\ UNCHANGED <<play, last, ctl>>
         /\ prepared' = requests
         /\ phase' = IF by = "opening" THEN "story-ready" ELSE phase
         /\ controls' = <<phase', ctl>> /\ shown' = "blocked"
    ELSE /\ prepared' = <<>>
         /\ phase' = IF requests = <<>> THEN "started"
                     ELSE IF by = "opening" THEN "starting" ELSE phase
         /\ IF requests = <<>>
            THEN UNCHANGED <<play, last>> /\ Present("ready")
            ELSE StartPlay(by, requests) /\ Present("processing")

\* startStory: the coordinator inspects the engine first, unless it has
\* published the opening before.
BeginStory ==
    /\ phase = "story-ready"
    /\ IF opening = "ready"
       THEN /\ UNCHANGED <<opening, proj>>
            /\ PlayOpening("opening", prepared)
       ELSE /\ phase' = "starting" /\ opening' = "inspecting"
            /\ controls' = <<"starting", ctl>> /\ shown' = "processing"
            /\ UNCHANGED <<ctl, play, last, prepared, proj>>
    /\ UNCHANGED <<resumeTo, retry, tries, turnVars, sample>>

\* Mutant: the catch of startStory leaves the buttons as they were.
InspectionFailsSilently ==
    /\ opening = "inspecting"
    /\ opening' = "none" /\ phase' = "story-ready" /\ shown' = "blocked"
    /\ UNCHANGED <<ctl, controls, play, last, resumeTo, prepared, retry, tries, proj,
                   turnVars, sample>>

\* prepareOpening's inspection agrees with the boot receipt: the output of
\* revision zero is published and its narration prepared.
Inspected(good) ==
    /\ opening = "inspecting"
    /\ Publish(<<Said("engine.output", "opening", 0, NoId, "none")>> \o OpeningEvents(good))
    /\ tries' = tries + 1
    /\ IF good = Segments
       THEN /\ opening' = "ready"
            /\ PlayOpening("opening", OpeningRequests)
            /\ UNCHANGED retry
       ELSE /\ opening' = "published" /\ retry' = TRUE
            /\ phase' = "started"
            /\ prepared' = SubSeq(OpeningRequests, 1, good)
            /\ controls' = <<"started", ctl>> /\ shown' = "blocked"
            /\ UNCHANGED <<ctl, play, last>>
    /\ UNCHANGED <<resumeTo, turnVars, sample>>

\* The inspection fails or disagrees: nothing was published.
InspectionFails ==
    /\ opening = "inspecting"
    /\ opening' = "none" /\ phase' = "story-ready"
    /\ controls' = <<phase', ctl>> /\ shown' = "blocked"
    /\ UNCHANGED <<ctl, play, last, resumeTo, prepared, retry, tries, proj, turnVars, sample>>

-----------------------------------------------------------------------------
(* Playback.                                                               *)

\* Mutant: an opening that fails keeps the gate closed.
OwnerAfterIntroduction(by) ==
    /\ phase' = IF by = "intro" THEN "story-ready" ELSE phase
    /\ retry' = (by # "retry" /\ retry)

\* What the caller of the play does when it has ended, whatever the outcome.
OwnerAfter(by) ==
    /\ phase' = CASE by = "intro"   -> "story-ready"
                  [] by = "opening" -> "started"
                  [] OTHER          -> phase
    /\ retry' = (by # "retry" /\ retry)

\* The media element's first `playing' event: onStarted.
PlayStarted ==
    /\ play.stage = "fetching"
    /\ play' = [play EXCEPT !.stage = "sounding"]
    /\ Publish(<<Said("audio.playback.started", play.request.corr, play.request.n,
                      play.request.cause, play.request.role)>>)
    /\ UNCHANGED boot /\ Present(Speaking(play.request.role))
    /\ UNCHANGED <<last, resumeTo, turnVars, sample>>

\* play() resolves; the controller then waits for the prefetched segments,
\* still in its speaking state, before it goes on.
PlayCompletes ==
    /\ play.stage = "sounding" /\ ctl # "paused"
    /\ Publish(<<Ended(play.request, "complete")>>)
    /\ IF play.rest # <<>>
       THEN play' = [play EXCEPT !.stage = "gap"] /\ Render /\ UNCHANGED <<phase, retry>>
       ELSE play' = NoPlay /\ OwnerAfter(play.by) /\ Present("ready")
    /\ UNCHANGED <<last, resumeTo, opening, prepared, tries, turnVars, sample>>

\* play() rejects: synthesis, network, authorization or media failure.
PlayFails ==
    /\ play.stage \in {"fetching", "sounding"}
    /\ Publish(<<Ended(play.request, "failed"),
                 Failed(play.request.corr, play.request.n,
                        IF play.request.role = "narrator" THEN "confirmed"
                        ELSE "not-submitted")>>)
    /\ play' = NoPlay /\ OwnerAfter(play.by) /\ Present("recoverable-error")
    /\ UNCHANGED <<last, resumeTo, opening, prepared, tries, turnVars, sample>>

\* The prefetch has settled: the next segment, unless the player paused.
GapEnds ==
    /\ play.stage = "gap"
    /\ UNCHANGED proj
    /\ IF ctl = "paused"
       THEN /\ play' = NoPlay /\ OwnerAfter(play.by) /\ Present("paused")
            /\ UNCHANGED last
       ELSE /\ StartPlay(play.by, play.rest) /\ UNCHANGED <<phase, retry>>
            /\ Present("processing")
    /\ UNCHANGED <<resumeTo, opening, prepared, tries, turnVars, sample>>

-----------------------------------------------------------------------------
(* Stop, Pause, Resume, Repeat.                                            *)

\* The events of what a stop ends, in the order of the operations.
StopEvents ==
    (IF play.stage \in {"fetching", "sounding"} THEN <<Ended(play.request, "interrupted")>>
     ELSE <<>>)
    \o (IF ctl = "listening"
        THEN <<Event("audio.capture.ended", TurnIds[turns + 1], 0, NoId, "none", "cancelled")>>
        ELSE <<>>)
    \o (IF turn.stage \in {"transcribing", "deciding"}
        THEN <<Failed(turn.corr, 0, "not-submitted")>> ELSE <<>>)

\* stopActive (Escape, or the square while nothing is audible) and
\* controller.stop.  A sample that is stopped does not enable the buttons
\* again: previewVoice finds previewAbort cleared.
StopActive ==
    /\ preview' = "none" /\ UNCHANGED samples
    /\ Publish(StopEvents)
    /\ play' = NoPlay /\ resumeTo' = "none"
    /\ turn' = IF turn.stage = "executing" THEN [turn EXCEPT !.aborted = TRUE] ELSE NoTurn
    /\ opening' = IF opening = "inspecting" THEN "none" ELSE opening
    /\ retry' = (play.by # "retry" /\ retry)
    /\ phase' = CASE play.by = "intro" \/ opening = "inspecting" -> "story-ready"
                  [] play.by = "opening" -> "started"
                  [] OTHER -> phase
    /\ IF ctl \notin {"paused", "recoverable-error"} \/ play.by = "repeat"
       THEN Present("ready")
       ELSE IF phase' # phase THEN Present(ctl)
       ELSE Render
    /\ UNCHANGED <<last, prepared, tries, turns, committed>>

\* The square during audible playback: controller.pause.
Pause ==
    /\ ctl \in SpeakingStates
    /\ resumeTo' = ctl
    /\ Publish(<<Said("session.paused", "session-control", 0, NoId, "none")>>)
    /\ UNCHANGED boot /\ Present("paused")
    /\ UNCHANGED <<play, last, turnVars, sample>>

\* The triangle: controller.resume.
Resume ==
    /\ ctl = "paused"
    /\ resumeTo' = "none"
    /\ Publish(<<Said("session.resumed", "session-control", 0, NoId, "none")>>)
    /\ UNCHANGED boot /\ Present(IF resumeTo = "none" THEN "ready" ELSE resumeTo)
    /\ UNCHANGED <<play, last, turnVars, sample>>

Idle == phase = "started" /\ ctl \in {"ready", "recoverable-error"}

\* repeatLastNarration with a narration to repeat: controller.repeat.
Repeat ==
    /\ Idle /\ last # NoRequest
    /\ StartPlay("repeat", <<last>>)
    /\ UNCHANGED proj /\ UNCHANGED boot /\ Present("processing")
    /\ UNCHANGED <<resumeTo, turnVars, sample>>

\* Mutant: the retry publishes the opening's output again.
RetryOpeningAgain(good) ==
    /\ Idle /\ retry /\ last = NoRequest /\ tries < MaxRetries /\ turn = NoTurn
    /\ tries' = tries + 1
    /\ Publish(<<Said("engine.output", "opening", 0, NoId, "none")>> \o OpeningEvents(good))
    /\ retry' = (good # Segments)
    /\ opening' = "ready" /\ PlayOpening("retry", OpeningRequests)
    /\ UNCHANGED <<resumeTo, turnVars, sample>>

\* repeatLastNarration without one: the opening is prepared again from its
\* published output, unless it is ready; the coordinator may be busy, and the
\* controller refuses to play from an error.
RetryOpening(good) ==
    /\ Idle /\ retry /\ last = NoRequest
    /\ IF opening = "ready"
       THEN /\ UNCHANGED <<proj, tries, opening>>
            /\ retry' = (ctl = "recoverable-error" \/ prepared = <<>>)
            /\ PlayOpening("retry", prepared)
       ELSE IF turn # NoTurn
       THEN /\ UNCHANGED <<proj, tries, opening, retry, play, last, prepared, phase, ctl>>
            /\ controls' = <<phase, ctl>> /\ shown' = "blocked"
       ELSE /\ tries < MaxRetries
            /\ tries' = tries + 1
            /\ Publish(OpeningEvents(good))
            /\ retry' = (good # Segments \/ ctl = "recoverable-error")
            /\ IF good = Segments
               THEN opening' = "ready" /\ PlayOpening("retry", prepared \o OpeningRequests)
               ELSE /\ prepared' = prepared \o SubSeq(OpeningRequests, 1, good)
                    /\ UNCHANGED <<opening, play, last, phase, ctl>>
                    /\ controls' = <<phase, ctl>> /\ shown' = "blocked"
    /\ UNCHANGED <<resumeTo, turnVars, sample>>

-----------------------------------------------------------------------------
(* Turns.                                                                  *)

\* toggleCapture: SPEAK or V.
StartCapture ==
    /\ Idle /\ turns < Len(TurnIds)
    /\ UNCHANGED proj /\ UNCHANGED boot /\ Present("requesting-microphone")
    /\ UNCHANGED <<play, last, resumeTo, turnVars, sample>>

Microphone(granted) ==
    /\ ctl = "requesting-microphone"
    /\ Publish(IF granted
               THEN <<Said("audio.capture.started", TurnIds[turns + 1], 0, NoId, "none")>>
               ELSE <<Failed(TurnIds[turns + 1], 0, "not-submitted")>>)
    /\ UNCHANGED boot
    /\ Present(IF granted THEN "listening" ELSE "recoverable-error")
    /\ UNCHANGED <<play, last, resumeTo, turnVars, sample>>

\* toggleCapture: DONE.  A turn that a stop left executing is waited for (what
\* the controller does otherwise is in VoiceAudioController).
FinishCapture(recorded) ==
    /\ ctl = "listening" /\ turn = NoTurn
    /\ turns' = turns + 1
    /\ Publish(<<Event("audio.capture.ended", TurnIds[turns'], 0, NoId, "none",
                       IF recorded THEN "submitted" ELSE "failed")>>
               \o IF recorded THEN <<>> ELSE <<Failed(TurnIds[turns'], 0, "not-submitted")>>)
    /\ turn' = IF recorded THEN [NoTurn EXCEPT !.stage = "transcribing",
                                               !.corr = TurnIds[turns']]
               ELSE NoTurn
    /\ UNCHANGED boot /\ Present(IF recorded THEN "processing" ELSE "recoverable-error")
    /\ UNCHANGED <<play, last, resumeTo, sample, committed>>

Transcribed(heard) ==
    /\ turn.stage = "transcribing"
    /\ Publish(IF heard THEN <<Said("transcript.final", turn.corr, 0, NoId, "none")>>
               ELSE <<Failed(turn.corr, 0, "not-submitted")>>)
    /\ turn' = IF heard THEN [turn EXCEPT !.stage = "deciding"] ELSE NoTurn
    /\ UNCHANGED boot
    /\ IF heard THEN Render ELSE Present("recoverable-error")
    /\ UNCHANGED <<play, last, resumeTo, turns, sample, committed>>

\* The text form.
SubmitText ==
    /\ Idle /\ turn = NoTurn /\ turns < Len(TurnIds)
    /\ turns' = turns + 1
    /\ turn' = [NoTurn EXCEPT !.stage = "deciding", !.corr = TurnIds[turns']]
    /\ Publish(<<Said("transcript.final", TurnIds[turns'], 0, NoId, "none")>>)
    /\ UNCHANGED boot /\ ctl' = "processing" /\ controls' = <<phase, "processing">>
    /\ shown' = Activity(proj'.display)
    /\ UNCHANGED <<play, last, resumeTo, sample, committed>>

\* The end of finishCapture or submitText: what was prepared is played if the
\* controller is where the turn left it.
TurnReturns(requests) ==
    /\ turn' = NoTurn
    /\ IF ctl \in {"ready", "processing"} /\ play = NoPlay
       THEN IF requests # <<>>
            THEN StartPlay("turn", requests) /\ Present("processing")
            ELSE UNCHANGED <<play, last>> /\ Present("ready")
       ELSE /\ UNCHANGED <<play, last, ctl, controls>>
            /\ shown' = IF ctl = "processing" THEN "blocked" ELSE Activity(proj'.display)

\* The guide fails, or answers with a clarification, explanation or refusal.
GuideAnswers(spoken) ==
    /\ turn.stage = "deciding"
    /\ UNCHANGED boot
    /\ LET reply == Said("guide.reply", turn.corr, 0, NoId, "none")
           request == [corr |-> turn.corr, n |-> 1, role |-> "guide", cause |-> reply.id]
       IN  IF spoken
           THEN Publish(<<reply, Requested(request)>>) /\ TurnReturns(<<request>>)
           ELSE Publish(<<Failed(turn.corr, 0, "not-submitted")>>) /\ TurnReturns(<<>>)
    /\ UNCHANGED <<resumeTo, turns, sample, committed>>

Execute ==
    /\ turn.stage = "deciding"
    /\ turn' = [turn EXCEPT !.stage = "executing"]
    /\ Publish(<<Said("engine.command.requested", turn.corr, 0, NoId, "none")>>)
    /\ UNCHANGED boot /\ Render
    /\ UNCHANGED <<play, last, resumeTo, turns, sample, committed>>

\* #finishEngineResult, or an outcome that stays unknown.  A stopped turn only
\* records that its narration was cancelled.
EngineSettles(outcome) ==
    /\ turn.stage = "executing"
    /\ UNCHANGED boot
    /\ LET c == turn.corr
           request == [corr |-> c, n |-> 1, role |-> "narrator", cause |-> Output(c)]
           saved == IF outcome = "unsaved" THEN <<Failed(c, 0, "confirmed")>> ELSE <<>>
           narration == IF turn.aborted
                        THEN Said("narration.cancelled", c, 1, Output(c), "narrator")
                        ELSE Requested(request)
       IN  CASE outcome = "rejected" ->
                  /\ Publish(<<Said("engine.command.rejected", c, 0, NoId, "none")>>)
                  /\ TurnReturns(<<>>) /\ UNCHANGED committed
             [] outcome = "uncertain" ->
                  /\ Publish(<<Failed(c, 0, "uncertain")>>)
                  /\ TurnReturns(<<>>) /\ UNCHANGED committed
             [] OTHER ->
                  /\ Publish(<<Said("engine.command.committed", c, 0, NoId, "none"),
                               Said("engine.output", c, 0, NoId, "none")>>
                             \o saved \o <<narration>>)
                  /\ TurnReturns(IF turn.aborted THEN <<>> ELSE <<request>>)
                  /\ committed' = committed \cup {c}
    /\ UNCHANGED <<resumeTo, turns, sample>>

-----------------------------------------------------------------------------
(* Voice samples, with a playback port of their own.                       *)

\* startVoicePreview
StartPreview ==
    /\ samples
    /\ IF ctl \in {"ready", "recoverable-error"}
       THEN preview' = "fetching" /\ samples' = FALSE /\ shown' = "processing"
       ELSE shown' = "blocked" /\ UNCHANGED sample
    /\ UNCHANGED <<boot, turnVars, ctl, play, last, resumeTo, proj, controls>>

PreviewStarted ==
    /\ preview = "fetching"
    /\ preview' = "playing" /\ shown' = "speaking"
    /\ UNCHANGED <<boot, turnVars, ctl, play, last, resumeTo, proj, controls, samples>>

\* Mutant: the end of a sample is presented as Ready.
PreviewEndsReady(played) ==
    /\ preview # "none" /\ (played => preview = "playing")
    /\ preview' = "none" /\ samples' = TRUE /\ shown' = "idle"
    /\ UNCHANGED <<boot, turnVars, ctl, play, last, resumeTo, proj, controls>>

\* previewVoice's finally, and runControl's catch.
PreviewEnds(played) ==
    /\ preview # "none" /\ (played => preview = "playing")
    /\ preview' = "none" /\ samples' = TRUE
    /\ shown' = IF played THEN Shows(ctl, proj) ELSE "blocked"
    /\ UNCHANGED <<boot, turnVars, ctl, play, last, resumeTo, proj, controls>>

Progress ==
    \/ PlayStarted
    \/ PlayCompletes
    \/ PlayFails
    \/ GapEnds
    \/ \E good \in 0..Segments : Inspected(good)
    \/ InspectionFails

Player ==
    \/ \E good \in 0..2 : Enter(good)
    \/ BeginStory
    \/ StopActive
    \/ Pause
    \/ Resume
    \/ Repeat
    \/ \E good \in 0..Segments : RetryOpening(good)
    \/ StartCapture
    \/ SubmitText
    \/ StartPreview

Next ==
    \/ Progress
    \/ Player
    \/ \E granted \in BOOLEAN : Microphone(granted)
    \/ \E recorded \in BOOLEAN : FinishCapture(recorded)
    \/ \E heard \in BOOLEAN : Transcribed(heard)
    \/ \E spoken \in BOOLEAN : GuideAnswers(spoken)
    \/ Execute
    \/ \E outcome \in {"saved", "unsaved", "rejected", "uncertain"} : EngineSettles(outcome)
    \/ PreviewStarted
    \/ \E played \in BOOLEAN : PreviewEnds(played)

Spec == Init /\ [][Next]_vars

-----------------------------------------------------------------------------
(* Properties.                                                             *)

PageTypeOK ==
    /\ phase \in {"welcome", "introducing", "story-ready", "starting", "started"}
    /\ ctl \in {"ready", "paused", "recoverable-error"} \cup Operating
    /\ play.stage \in {"none", "fetching", "sounding", "gap"}
    /\ opening \in {"none", "inspecting", "published", "ready"}
    /\ turn.stage \in {"none", "transcribing", "deciding", "executing"}
    /\ Len(proj.items) <= TranscriptLimit
    /\ \A k \in DOMAIN proj.items :
         /\ proj.items[k].delivery \in {"complete", "pending", "speaking", "interrupted", "failed"}
         /\ proj.items[k].refs[1] = proj.items[k].id
         /\ Len(proj.items[k].refs) <= SourceLimit
    /\ Range(controls) \subseteq STRING

\* An item of the transcript is marked as being spoken exactly while its own
\* narration sounds: the events of stops, failures, repeats and late turns find
\* it through the bounded list of its source events.
DeliveryIsTrue ==
    \A k \in DOMAIN proj.items :
        proj.items[k].delivery = "speaking"
          <=> play.stage = "sounding" /\ play.request.cause = proj.items[k].id

\* The command cue announces a request only while the engine has it, and a
\* commit only of a committed command; the action log holds committed ones.
CueIsTrue ==
    /\ proj.cue.phase = "requested" => turn.stage = "executing" /\ turn.corr = proj.cue.corr
    /\ proj.cue.phase = "committed" => proj.cue.corr \in committed
    /\ Range(proj.log) \subseteq committed
    /\ \A j, k \in DOMAIN proj.log : j # k => proj.log[j] # proj.log[k]

\* The page never shows Ready while a capture is active, whatever a stopped
\* turn or a voice sample still reports.
ListeningIsShown == ctl = "listening" => shown # "idle"

\* The buttons are enabled for the phase and the controller's state of now: every
\* path, errors and stops included, ends by presenting them.
ControlsAreCurrent == controls = <<phase, ctl>>

\* The opening's exact output is in the canonical stream at most once, and it is
\* there before any turn, however often the story is begun, stopped or retried.
OpeningPublishedOnce ==
    /\ Cardinality({k \in DOMAIN proj.items : proj.items[k].id = Output("opening")}) <= 1
    /\ turns > 0 => proj.start # "ready"

\* The introduction and the opening cannot hang: while the page waits in one of
\* them, the engine's answer or a playback of that very operation is awaited.
GateIsAttended ==
    /\ phase = "introducing" => play.by = "intro"
    /\ phase = "starting" => opening = "inspecting" \/ play.by = "opening"

\* What the page shows of the canonical stream is true of what sounds and of what
\* the engine has.
ProjectionIsTrue == PageTypeOK /\ DeliveryIsTrue /\ CueIsTrue

\* The page's own controls and gate follow the session: nothing active is shown
\* ready, no button is stale, and no gate is closed with nobody to open it.
PageIsCurrent ==
    ListeningIsShown /\ ControlsAreCurrent /\ OpeningPublishedOnce /\ GateIsAttended

\* docs/experience.md: "Only the correlated narrator preparation terminal or
\* playback terminal moves it to `started`, so replay and live reduction expose
\* the same control gate."
GatesAgree == phase = "started" => proj.start # "starting"

\* docs/experience.md, of a failed opening: "do not put it back behind `START
\* STORY`."
NotRegated == proj.start # "ready" => phase # "story-ready"

=============================================================================
