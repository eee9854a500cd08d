------------------------ MODULE VoiceAudioController ------------------------
(***************************************************************************)
(* VoiceAudioController (packages/audio): push-to-talk capture, the turn a *)
(* capture or a typed text becomes, the narration the turn prepares, and   *)
(* the player's Stop, Pause, Resume and Repeat, which come at any moment.  *)
(* The ports are the live ones: what capture.cancel, playback.stop and     *)
(* playback.pause await settles in the task that calls them, so a call of  *)
(* stop or pause is one step; capture.start, capture.stop, transcribe,     *)
(* submitTurn, play, prepare and resume settle in later tasks.  What an    *)
(* abort settles runs before the next task: see Drained.                   *)
(***************************************************************************)
EXTENDS Naturals, Sequences, FiniteSets

CONSTANTS
  MaxTurns,        \* bound: interaction identities
  MaxCalls,        \* bound: calls of playPrepared and repeat that play something
  MaxStops,        \* bound: calls of stop
  MaxNarrations,   \* bound: narration requests one turn prepares
  Capacity,        \* the coordinator's maxTurns
  InvalidTexts,    \* whether a typed text may be one submitTurn refuses
  SlowEngine,      \* whether an aborted turn may still wait for the engine
  None             \* undefined

Interactions == 1..MaxTurns
Calls == 1..MaxCalls
Roles == {"guide", "narrator"}
SpeakingStates == {"guide-speaking", "narrator-speaking"}

ASSUME VoiceConstants ==
  /\ MaxTurns \in Nat /\ MaxCalls \in Nat /\ MaxStops \in Nat
  /\ MaxNarrations \in Nat /\ Capacity \in Nat
  /\ InvalidTexts \in BOOLEAN /\ SlowEngine \in BOOLEAN
  /\ None \notin Nat /\ None \notin Roles \union SpeakingStates

\* What takePrepared returns: the roles of the requests, in order.
Queues == UNION {[1..n -> Roles] : n \in 0..MaxNarrations}

VARIABLES
  state,                 \* #state
  active,                \* #active: the interaction of the capture
  lifecycleEpoch,        \* #lifecycleEpoch
  turnAbort,             \* #turnAbort: the interaction it belongs to
  playbackAbort,         \* #playbackAbort: the call it belongs to
  lastPlayed,            \* #lastPlayed: its role
  pausedPlaybackState,   \* #pausedPlaybackState
  turns,                 \* the locals of startCapture, finishCapture, submitText
  calls,                 \* the locals of playPrepared, repeat and their #play
  resuming,              \* the local playbackState of a pending resume
  stored                 \* the interactions the coordinator knows

vars == <<state, active, lifecycleEpoch, turnAbort, playbackAbort, lastPlayed,
          pausedPlaybackState, turns, calls, resuming, stored>>

Speaking(role) == IF role = "guide" THEN "guide-speaking" ELSE "narrator-speaking"
Restful == {"ready", "recoverable-error"}

NoTurn == [stage |-> "unused", epoch |-> 0, aborted |-> FALSE,
           started |-> FALSE, ended |-> FALSE]
NoCall == [stage |-> "unused", queue |-> <<>>, epoch |-> 0,
           aborted |-> FALSE, repeat |-> FALSE]

Init ==
  /\ state = "ready"
  /\ active = None
  /\ lifecycleEpoch = 0
  /\ turnAbort = None
  /\ playbackAbort = None
  /\ lastPlayed = None
  /\ pausedPlaybackState = None
  /\ turns = [i \in Interactions |-> NoTurn]
  /\ calls = [c \in Calls |-> NoCall]
  /\ resuming = None
  /\ stored = {}

-----------------------------------------------------------------------------
(* What is pending.                                                        *)

\* A continuation no longer owns the session it was started in.
Stale(i) == active # i \/ turns[i].epoch # lifecycleEpoch

Sounding(c) == calls[c].stage \in {"fetching", "audible", "held"}
Pending(c) == Sounding(c) \/ calls[c].stage = "prefetch"
Turning(i) == turns[i].stage \in {"transcribing", "deciding"}

\* Every continuation an abort has settled has run: fetches and media reject
\* at once, a cancelled recorder too, and so does a turn unless it awaits the
\* engine's inspection.
Drained ==
  /\ \A c \in Calls : Pending(c) => ~calls[c].aborted
  /\ \A i \in Interactions :
       /\ turns[i].stage = "stopping" => ~Stale(i)
       /\ turns[i].stage = "transcribing" => ~turns[i].aborted
       /\ turns[i].stage = "deciding" /\ ~SlowEngine => ~turns[i].aborted

Fresh(i) ==
  /\ turns[i].stage = "unused"
  /\ \A j \in 1..(i - 1) : turns[j].stage # "unused"

FreshCall(c) ==
  /\ calls[c].stage = "unused"
  /\ \A d \in 1..(c - 1) : calls[d].stage # "unused"

\* The coordinator's recordTranscriptionFailure and recordAudioFailure accept
\* the interaction; otherwise they throw.
Recordable(i) == i \notin stored /\ Cardinality(stored) < Capacity

\* The coordinator's submitTurn goes on past its checks.
Submittable(i) ==
  /\ Recordable(i)
  /\ \A j \in Interactions : turns[j].stage # "deciding"

-----------------------------------------------------------------------------
(* #play, and the loop of playPrepared around it.                          *)

BeginPlay(c, queue, epoch, repeat) ==
  /\ calls' = [calls EXCEPT ![c] = [stage |-> "fetching", queue |-> queue, epoch |-> epoch,
                                    aborted |-> FALSE, repeat |-> repeat]]
  /\ playbackAbort' = c
  /\ lastPlayed' = Head(queue)
  /\ state' = "processing"

\* Mutant: with nothing prepared, the state is left as it is.
FollowTurnSilently(s, queue) ==
  \/ /\ s \notin {"ready", "processing"} \/ active # None \/ playbackAbort # None \/ queue = <<>>
     /\ state' = s
     /\ UNCHANGED <<calls, playbackAbort, lastPlayed>>
  \/ /\ s \in {"ready", "processing"} /\ active = None /\ playbackAbort = None
     /\ queue # <<>>
     /\ \E c \in Calls : FreshCall(c) /\ BeginPlay(c, queue, lifecycleEpoch, FALSE)

\* The end of a turn, in state s: its narration is played when that is allowed.
FollowTurn(s, queue) ==
  \/ /\ s \notin {"ready", "processing"} \/ active # None \/ playbackAbort # None
     /\ state' = s
     /\ UNCHANGED <<calls, playbackAbort, lastPlayed>>
  \/ /\ s \in {"ready", "processing"} /\ active = None /\ playbackAbort = None
     /\ queue = <<>>
     /\ state' = "ready"
     /\ UNCHANGED <<calls, playbackAbort, lastPlayed>>
  \/ /\ s \in {"ready", "processing"} /\ active = None /\ playbackAbort = None
     /\ queue # <<>>
     /\ \E c \in Calls : FreshCall(c) /\ BeginPlay(c, queue, lifecycleEpoch, FALSE)

Release(c) == playbackAbort' = IF playbackAbort = c THEN None ELSE playbackAbort

CloseCall(c) ==
  /\ calls' = [calls EXCEPT ![c].stage = "over", ![c].queue = <<>>]
  /\ Release(c)
  /\ UNCHANGED lastPlayed

\* #play has returned "complete": on to the next request, if there is one.
Advance(c) ==
  LET rest == Tail(calls[c].queue) IN
  \/ /\ rest = <<>>
     /\ CloseCall(c)
     /\ state' = IF state = "recoverable-error" \/ (state = "paused" /\ ~calls[c].repeat)
                 THEN state ELSE "ready"
  \/ /\ rest # <<>>
     /\ calls[c].epoch # lifecycleEpoch \/ state \in {"paused", "recoverable-error"}
     /\ CloseCall(c)
     /\ UNCHANGED state
  \/ /\ rest # <<>>
     /\ calls[c].epoch = lifecycleEpoch /\ state \notin {"paused", "recoverable-error"}
     /\ BeginPlay(c, rest, calls[c].epoch, calls[c].repeat)

playUnchanged == UNCHANGED <<active, lifecycleEpoch, turnAbort, pausedPlaybackState,
                             turns, resuming, stored>>

PlayPrepared ==
  /\ Drained
  /\ state \in {"ready", "processing"}
  /\ active = None /\ turnAbort = None /\ playbackAbort = None
  /\ \E queue \in Queues : FollowTurn(state, queue)
  /\ playUnchanged

\* Mutant: repeat while something is being played.
RepeatAnytime ==
  /\ Drained
  /\ state # "paused"
  /\ lastPlayed # None
  /\ \E c \in Calls : FreshCall(c) /\ BeginPlay(c, <<lastPlayed>>, lifecycleEpoch, TRUE)
  /\ playUnchanged

Repeat ==
  /\ Drained
  /\ state \in Restful
  /\ lastPlayed # None
  /\ \E c \in Calls : FreshCall(c) /\ BeginPlay(c, <<lastPlayed>>, lifecycleEpoch, TRUE)
  /\ playUnchanged

\* onStarted.
PlayStarts(c) ==
  /\ Drained
  /\ calls[c].stage = "fetching"
  /\ calls' = [calls EXCEPT ![c].stage = "audible"]
  /\ state' = Speaking(Head(calls[c].queue))
  /\ UNCHANGED <<playbackAbort, lastPlayed>>
  /\ playUnchanged

\* The media ends; a request that is not the last one's may still be prepared.
PlayEnds(c) ==
  /\ Drained
  /\ calls[c].stage = "audible"
  /\ \/ Advance(c)
     \/ /\ Len(calls[c].queue) > 1
        /\ calls' = [calls EXCEPT ![c].stage = "prefetch"]
        /\ UNCHANGED <<state, playbackAbort, lastPlayed>>
  /\ playUnchanged

\* nextPreparation settles, by itself or by an abort.
PrefetchEnds(c) ==
  /\ calls[c].stage = "prefetch"
  /\ calls[c].aborted \/ Drained
  /\ Advance(c)
  /\ playUnchanged

\* The media that fails is paused, which rejects a pending resume.
PlayFails(c) ==
  /\ Drained
  /\ Sounding(c)
  /\ CloseCall(c)
  /\ state' = "recoverable-error"
  /\ resuming' = None
  /\ UNCHANGED <<active, lifecycleEpoch, turnAbort, pausedPlaybackState, turns, stored>>

PlayInterrupted(c) ==
  /\ Sounding(c)
  /\ calls[c].aborted
  /\ CloseCall(c)
  /\ state' = IF calls[c].repeat /\ state # "recoverable-error" THEN "ready" ELSE state
  /\ playUnchanged

-----------------------------------------------------------------------------
(* Capture.                                                                *)

captureUnchanged == UNCHANGED <<lifecycleEpoch, playbackAbort, lastPlayed,
                                pausedPlaybackState, calls, resuming>>

StartCapture ==
  /\ Drained
  /\ state \in Restful
  /\ \E i \in Interactions :
       /\ Fresh(i)
       /\ active' = i
       /\ turns' = [turns EXCEPT ![i].stage = "starting", ![i].epoch = lifecycleEpoch]
  /\ state' = "requesting-microphone"
  /\ UNCHANGED <<turnAbort, stored>>
  /\ captureUnchanged

\* Mutant: a late microphone is taken for the capture's.
MicrophoneGrantedLate(i) ==
  /\ Drained
  /\ turns[i].stage = "starting"
  /\ turns' = [turns EXCEPT ![i].stage = "listening", ![i].started = TRUE]
  /\ state' = "listening"
  /\ UNCHANGED <<active, turnAbort, stored>>
  /\ captureUnchanged

\* The microphone opens; one that opens for a capture stopped meanwhile is
\* cancelled.
MicrophoneGranted(i) ==
  /\ Drained
  /\ turns[i].stage = "starting"
  /\ \/ /\ Stale(i)
        /\ turns' = [turns EXCEPT ![i].stage = "over"]
        /\ UNCHANGED state
     \/ /\ ~Stale(i)
        /\ turns' = [turns EXCEPT ![i].stage = "listening", ![i].started = TRUE]
        /\ state' = "listening"
  /\ UNCHANGED <<active, turnAbort, stored>>
  /\ captureUnchanged

\* A failure of interaction i is recorded and shown, or recording it throws
\* and nothing is shown.
RecordFailure(i) ==
  \/ /\ Recordable(i)
     /\ stored' = stored \union {i}
     /\ state' = "recoverable-error"
  \/ /\ ~Recordable(i)
     /\ UNCHANGED <<stored, state>>

MicrophoneRefused(i) ==
  /\ Drained
  /\ turns[i].stage = "starting"
  /\ turns' = [turns EXCEPT ![i].stage = "over"]
  /\ \/ Stale(i) /\ UNCHANGED <<active, stored, state>>
     \/ ~Stale(i) /\ active' = None /\ RecordFailure(i)
  /\ UNCHANGED turnAbort
  /\ captureUnchanged

FinishCapture ==
  /\ Drained
  /\ state = "listening"
  /\ active # None
  /\ turns' = [turns EXCEPT ![active].stage = "stopping", ![active].epoch = lifecycleEpoch]
  /\ state' = "processing"
  /\ UNCHANGED <<active, turnAbort, stored>>
  /\ captureUnchanged

CaptureStops(i) ==
  /\ Drained
  /\ turns[i].stage = "stopping"
  /\ ~Stale(i)
  /\ active' = None
  /\ turnAbort' = i
  /\ turns' = [turns EXCEPT ![i].stage = "transcribing", ![i].ended = TRUE]
  /\ UNCHANGED <<state, stored>>
  /\ captureUnchanged

CaptureStopFails(i) ==
  /\ Drained
  /\ turns[i].stage = "stopping"
  /\ ~Stale(i)
  /\ active' = None
  /\ turns' = [turns EXCEPT ![i].stage = "over", ![i].ended = TRUE]
  /\ RecordFailure(i)
  /\ UNCHANGED turnAbort
  /\ captureUnchanged

\* #recordCancelledTurn: finishCapture finds that stop came first.
RecordCancelledTurn(i) ==
  /\ turns[i].stage = "stopping"
  /\ Stale(i)
  /\ turns' = [turns EXCEPT ![i].stage = "over"]
  /\ \/ /\ Recordable(i)
        /\ stored' = stored \union {i}
        /\ state' = IF state = "paused" THEN state ELSE "ready"
     \/ /\ ~Recordable(i)
        /\ UNCHANGED <<stored, state>>
  /\ UNCHANGED <<active, turnAbort>>
  /\ captureUnchanged

-----------------------------------------------------------------------------
(* Turns.                                                                  *)

turnUnchanged == UNCHANGED <<active, lifecycleEpoch, pausedPlaybackState, resuming>>

\* transcribe returns and submitTurn begins.
Transcribed(i) ==
  /\ Drained
  /\ turns[i].stage = "transcribing"
  /\ Submittable(i)
  /\ turns' = [turns EXCEPT ![i].stage = "deciding"]
  /\ stored' = stored \union {i}
  /\ UNCHANGED <<state, turnAbort, playbackAbort, lastPlayed, calls>>
  /\ turnUnchanged

\* The catch clause of finishCapture: transcribe has failed or was aborted, or
\* submitTurn has thrown.  Then the finally clause, and what follows the turn.
TurnFails(i) ==
  /\ turns[i].stage = "transcribing"
  /\ turns[i].aborted \/ Drained
  /\ turns' = [turns EXCEPT ![i].stage = "over"]
  /\ turnAbort' = None
  /\ \/ /\ Recordable(i)
        /\ stored' = stored \union {i}
        /\ FollowTurn(IF turns[i].aborted THEN state ELSE "recoverable-error", <<>>)
     \/ /\ ~Recordable(i)
        /\ UNCHANGED <<stored, state, playbackAbort, lastPlayed, calls>>
  /\ turnUnchanged

\* submitTurn returns: a turn prepares one narration or none, an aborted turn
\* none.
TurnReturns(i) ==
  /\ turns[i].stage = "deciding"
  /\ turns[i].aborted \/ Drained
  /\ turns' = [turns EXCEPT ![i].stage = "over"]
  /\ turnAbort' = None
  /\ \E queue \in {<<>>} \union {<<r>> : r \in Roles} :
       /\ turns[i].aborted => queue = <<>>
       /\ FollowTurn(state, queue)
  /\ UNCHANGED stored
  /\ turnUnchanged

\* Mutant: a text is taken in any state.
SubmitTextAnytime ==
  /\ Drained
  /\ \E i \in Interactions :
       /\ Fresh(i)
       /\ Submittable(i)
       /\ turns' = [turns EXCEPT ![i].stage = "deciding"]
       /\ turnAbort' = i
       /\ stored' = stored \union {i}
  /\ state' = "processing"
  /\ UNCHANGED <<playbackAbort, lastPlayed, calls>>
  /\ turnUnchanged

\* Mutant: the turn's controller is not kept.
SubmitTextUnowned ==
  /\ Drained
  /\ state \in Restful
  /\ \E i \in Interactions :
       /\ Fresh(i)
       /\ Submittable(i)
       /\ turns' = [turns EXCEPT ![i].stage = "deciding"]
       /\ stored' = stored \union {i}
  /\ state' = "processing"
  /\ UNCHANGED <<turnAbort, playbackAbort, lastPlayed, calls>>
  /\ turnUnchanged

\* submitText, with a text submitTurn accepts.
SubmitText ==
  /\ Drained
  /\ state \in Restful
  /\ \E i \in Interactions :
       /\ Fresh(i)
       /\ Submittable(i)
       /\ turns' = [turns EXCEPT ![i].stage = "deciding"]
       /\ turnAbort' = i
       /\ stored' = stored \union {i}
  /\ state' = "processing"
  /\ UNCHANGED <<playbackAbort, lastPlayed, calls>>
  /\ turnUnchanged

\* submitText, where submitTurn throws: the text has a control character, a
\* turn is in progress, or the coordinator is full.
SubmitTextRefused ==
  /\ Drained
  /\ state \in Restful
  /\ \E i \in Interactions :
       /\ Fresh(i)
       /\ InvalidTexts \/ ~Submittable(i)
       /\ turns' = [turns EXCEPT ![i].stage = "over"]
  /\ turnAbort' = None
  /\ state' = "processing"
  /\ UNCHANGED <<stored, playbackAbort, lastPlayed, calls>>
  /\ turnUnchanged

-----------------------------------------------------------------------------
(* Stop, pause and resume.                                                 *)

\* stop, up to the state it shows; failed says that capture.cancel failed.  The
\* media it stops rejects a pending resume.
Halt(failed) ==
  /\ lifecycleEpoch < MaxStops
  /\ lifecycleEpoch' = lifecycleEpoch + 1
  /\ pausedPlaybackState' = None
  /\ active' = None
  /\ calls' = [c \in Calls |-> [calls[c] EXCEPT !.aborted = @ \/ c = playbackAbort]]
  /\ turns' = [i \in Interactions |->
                 [turns[i] EXCEPT
                    !.aborted = @ \/ i = turnAbort,
                    !.ended = @ \/ (i = active /\ turns[i].started),
                    !.stage = IF i = active /\ @ = "listening" THEN "over" ELSE @]]
  /\ \/ ~failed /\ UNCHANGED stored
     \/ /\ failed
        /\ active # None
        /\ Recordable(active)
        /\ stored' = stored \union {active}
  /\ resuming' = None
  /\ UNCHANGED <<turnAbort, playbackAbort, lastPlayed>>

\* The state stop leaves: an error, also its own, and a pause stay.
Rest(failed) ==
  IF failed THEN "recoverable-error"
  ELSE IF state \in {"paused", "recoverable-error"} THEN state ELSE "ready"

Stop ==
  /\ Drained
  /\ \E failed \in BOOLEAN : Halt(failed) /\ state' = Rest(failed)

\* stop, where capture.cancel fails and recording that throws.
StopThrows ==
  /\ Drained
  /\ lifecycleEpoch < MaxStops
  /\ active # None
  /\ ~Recordable(active)
  /\ lifecycleEpoch' = lifecycleEpoch + 1
  /\ pausedPlaybackState' = None
  /\ active' = None
  /\ calls' = [c \in Calls |-> [calls[c] EXCEPT !.aborted = @ \/ c = playbackAbort]]
  /\ turns' = [i \in Interactions |->
                 [turns[i] EXCEPT
                    !.aborted = @ \/ i = turnAbort,
                    !.stage = IF i = active /\ @ = "listening" THEN "over" ELSE @]]
  /\ resuming' = None
  /\ UNCHANGED <<state, turnAbort, playbackAbort, lastPlayed, stored>>

\* Mutant: the media plays on.
PauseUnheld ==
  /\ Drained
  /\ state \in SpeakingStates
  /\ pausedPlaybackState' = state
  /\ state' = "paused"
  /\ UNCHANGED <<active, lifecycleEpoch, turnAbort, playbackAbort, lastPlayed,
                 turns, calls, resuming, stored>>

\* playback.pause holds the media that is audible, if some is.
Pause ==
  /\ Drained
  /\ \/ /\ state \in SpeakingStates
        /\ pausedPlaybackState' = state
        /\ calls' = [c \in Calls |-> [calls[c] EXCEPT
                                        !.stage = IF @ = "audible" THEN "held" ELSE @]]
        /\ state' = "paused"
        /\ UNCHANGED <<active, lifecycleEpoch, turnAbort, playbackAbort, lastPlayed,
                       turns, resuming, stored>>
     \/ /\ state \notin SpeakingStates \union {"paused"}
        /\ \E failed \in BOOLEAN : Halt(failed)
        /\ state' = "paused"

\* Mutant: there is always a playback to return to.
ResumeUnchecked ==
  /\ Drained
  /\ state = "paused"
  /\ state' = pausedPlaybackState
  /\ pausedPlaybackState' = None
  /\ UNCHANGED <<active, lifecycleEpoch, turnAbort, playbackAbort, lastPlayed,
                 turns, calls, resuming, stored>>

\* resume: with no media to continue, playback.resume returns at once.
Resume ==
  /\ Drained
  /\ state = "paused"
  /\ \/ /\ pausedPlaybackState # None
        /\ \E c \in Calls : Sounding(c)
        /\ resuming' = pausedPlaybackState
        /\ UNCHANGED <<state, pausedPlaybackState>>
     \/ /\ pausedPlaybackState # None
        /\ \A c \in Calls : ~Sounding(c)
        /\ state' = pausedPlaybackState
        /\ pausedPlaybackState' = None
        /\ UNCHANGED resuming
     \/ /\ pausedPlaybackState = None
        /\ state' = "ready"
        /\ UNCHANGED <<pausedPlaybackState, resuming>>
  /\ UNCHANGED <<active, lifecycleEpoch, turnAbort, playbackAbort, lastPlayed,
                 turns, calls, stored>>

\* The media goes on.
Resumed ==
  /\ Drained
  /\ resuming # None
  /\ \E c \in Calls :
       /\ calls[c].stage = "held"
       /\ calls' = [calls EXCEPT ![c].stage = "audible"]
  /\ state' = resuming
  /\ pausedPlaybackState' = None
  /\ resuming' = None
  /\ UNCHANGED <<active, lifecycleEpoch, turnAbort, playbackAbort, lastPlayed, turns, stored>>

\* The browser refuses, or the media is gone: resume rejects.
ResumeRejected ==
  /\ Drained
  /\ resuming # None
  /\ resuming' = None
  /\ UNCHANGED <<state, active, lifecycleEpoch, turnAbort, playbackAbort, lastPlayed,
                 pausedPlaybackState, turns, calls, stored>>

-----------------------------------------------------------------------------
CaptureStep(i) ==
  \/ MicrophoneGranted(i) \/ MicrophoneRefused(i)
  \/ CaptureStops(i) \/ CaptureStopFails(i) \/ RecordCancelledTurn(i)

TurnStep(i) == Transcribed(i) \/ TurnFails(i) \/ TurnReturns(i)

PlayStep(c) ==
  \/ PlayStarts(c) \/ PlayEnds(c) \/ PrefetchEnds(c) \/ PlayFails(c) \/ PlayInterrupted(c)

Next ==
  \/ StartCapture \/ FinishCapture \/ SubmitText \/ SubmitTextRefused
  \/ PlayPrepared \/ Repeat
  \/ Stop \/ StopThrows \/ Pause \/ Resume \/ Resumed \/ ResumeRejected
  \/ \E i \in Interactions : CaptureStep(i) \/ TurnStep(i)
  \/ \E c \in Calls : PlayStep(c)

Spec == Init /\ [][Next]_vars

\* What the platform and the server owe: a recorder that is stopped settles, a
\* transcription and a turn end, media that is not held starts and ends or
\* fails, a preparation settles.  Nobody owes an answer to the permission
\* prompt, and the player owes nothing.
Fairness ==
  /\ \A i \in Interactions :
       /\ WF_vars(CaptureStops(i) \/ CaptureStopFails(i) \/ RecordCancelledTurn(i))
       /\ WF_vars(TurnStep(i))
  /\ \A c \in Calls :
       WF_vars(PlayStarts(c) \/ PlayEnds(c) \/ PrefetchEnds(c) \/ PlayInterrupted(c))

LiveSpec == Spec /\ Fairness

-----------------------------------------------------------------------------
(* Properties.                                                             *)

Turn == [stage : {"unused", "starting", "listening", "stopping", "transcribing",
                  "deciding", "over"},
         epoch : 0..MaxStops, aborted : BOOLEAN, started : BOOLEAN, ended : BOOLEAN]

Call == [stage : {"unused", "fetching", "audible", "held", "prefetch", "over"},
         queue : Seq(Roles), epoch : 0..MaxStops, aborted : BOOLEAN, repeat : BOOLEAN]

\* The type of every variable.
TypeOK ==
  /\ state \in {"requesting-microphone", "listening", "processing", "paused"}
               \union Restful \union SpeakingStates
  /\ active \in Interactions \union {None}
  /\ lifecycleEpoch \in 0..MaxStops
  /\ turnAbort \in Interactions \union {None}
  /\ playbackAbort \in Calls \union {None}
  /\ lastPlayed \in Roles \union {None}
  /\ pausedPlaybackState \in SpeakingStates \union {None}
  /\ turns \in [Interactions -> Turn]
  /\ calls \in [Calls -> Call]
  /\ resuming \in SpeakingStates \union {None}
  /\ stored \subseteq Interactions

\* A capture whose start was recorded (recordCaptureStarted) and whose end was
\* not (recordCaptureEnded) is #active: stop or finishCapture can still end it,
\* and no other capture can have been started over it.  Only in a full store,
\* where recording a failed cancellation throws, does stop leave one behind.
CaptureOwned ==
  \A i \in Interactions :
    turns[i].started /\ ~turns[i].ended => active = i \/ Cardinality(stored) >= Capacity

\* While a capture is active, from the permission prompt to the recorder's
\* last chunk, #state says so: nothing that ends meanwhile (a turn, a playback,
\* a resume) may show the session ready, speaking or in error.
CaptureShown ==
  active # None =>
    \/ turns[active].stage = "starting" /\ state = "requesting-microphone"
    \/ turns[active].stage = "listening" /\ state = "listening"
    \/ turns[active].stage = "stopping" /\ state = "processing"

\* The session's state is well formed, and a capture has its owner and is shown.
CaptureHeld == TypeOK /\ CaptureOwned /\ CaptureShown

\* stop can reach every turn it has not yet aborted: the turn's controller is
\* #turnAbort.
StopReachesTurn ==
  \A i \in Interactions : Turning(i) /\ ~turns[i].aborted => turnAbort = i

\* The playback that is not aborted is #playbackAbort's, so there is one at most
\* and stop can reach it.
StopReachesPlayback ==
  \A c \in Calls : Pending(c) /\ ~calls[c].aborted => playbackAbort = c

\* Nothing is heard while the microphone is in use or the session is paused.
QuietWhileListening ==
  active # None \/ state = "paused" =>
    \A c \in Calls : calls[c].stage = "audible" => calls[c].aborted

\* The controller shows a role speaking only while it has a playback.
SpeakingIsPlaying == state \in SpeakingStates => playbackAbort # None

\* A capture that is being handed over, or a turn, leaves the processing state
\* in the end, unless the coordinator's store is full, where each handler is cut
\* off at the failure it records.
ProcessingSettles ==
  \A i \in Interactions :
    (state = "processing" /\ (Turning(i) \/ active = i))
      ~> (state # "processing" \/ Cardinality(stored) >= Capacity)

\* Whatever is being processed, the session leaves the processing state.
ProcessingEnds == state = "processing" ~> state # "processing"

=============================================================================
