-------------------------- MODULE MicrophoneCapture --------------------------
(***************************************************************************)
(* BrowserMicrophoneCapturePort, InMemoryCapturedAudioStore and the        *)
(* transcriber's use of the store (apps/web/src/openai-live-audio.ts).     *)
(* The permission prompt, the recorder's events, the duration timer and    *)
(* the caller's stop and cancel come in any order.  A settled completion   *)
(* resumes its caller before the next task: see Quiet.  The caller is      *)
(* VoiceAudioController: it hands the clip of a finished capture to the    *)
(* transcriber in the microtask in which stop returned.                    *)
(***************************************************************************)
EXTENDS Naturals, FiniteSets

CONSTANTS
  MaxCaptures,     \* bound: calls of start
  MaxAudioBytes,   \* maxAudioBytes of the port and of the store
  MaxChunk,        \* bound: bytes of one chunk
  MaxEntries,      \* maxEntries of the store
  None             \* undefined

Codes == {"aborted", "capture-busy", "capture-empty", "capture-too-large", "transport-failed"}

ASSUME CaptureConstants ==
  /\ MaxCaptures \in Nat /\ MaxAudioBytes \in Nat \ {0}
  /\ MaxChunk \in Nat \ {0} /\ MaxEntries \in Nat \ {0}
  /\ None \notin Nat /\ None \notin Codes \union {"turn"}

Captures == 1..MaxCaptures

VARIABLES
  starting,   \* #starting: its capture
  active,     \* #active: its capture
  captures,   \* the StartingCapture and ActiveCapture records, and their media
  store       \* #blobs: the bytes of the clips, 0 where there is none

vars == <<starting, active, captures, store>>

(* stage       what the media do: "prompt" is a pending getUserMedia,      *)
(*             "stopping" a recorder told to stop and yet to say so.       *)
(* tracks      the stream's tracks are live.                               *)
(* chunks, total, failure, cancelled, settled, scheduled   as in the code; *)
(*             cancelled is also that of the StartingCapture.              *)
(* completion  None while pending, "turn", or the code of the rejection.   *)
(* caller      the controller: "stop" awaits stop, "turn" has its result,  *)
(*             "transcribing" awaits transcribe.                           *)
NoCapture ==
  [stage |-> "unused", tracks |-> FALSE, chunks |-> 0, total |-> 0,
   failure |-> None, cancelled |-> FALSE, settled |-> FALSE,
   scheduled |-> FALSE, completion |-> None, caller |-> "none"]

Init ==
  /\ starting = None
  /\ active = None
  /\ captures = [c \in Captures |-> NoCapture]
  /\ store = [c \in Captures |-> 0]

Clips == {c \in Captures : store[c] > 0}

\* The continuations of settled completions have run.
Quiet ==
  \A c \in Captures :
    /\ captures[c].caller = "stop" => captures[c].completion = None
    /\ captures[c].caller # "turn"

-----------------------------------------------------------------------------
(* #finalizeCapture and #stopRecorder, from a capture record to the next.  *)

\* The store's put accepts the clip.
Puts(c, cap) ==
  /\ cap.chunks \in 1..MaxAudioBytes
  /\ store[c] > 0 \/ Cardinality(Clips) < MaxEntries

\* How completion settles.
Completion(c, cap) ==
  IF cap.cancelled THEN "aborted"
  ELSE IF cap.failure # None THEN cap.failure
  ELSE IF cap.chunks = 0 THEN "capture-empty"
  ELSE IF Puts(c, cap) THEN "turn" ELSE "capture-busy"

Finalized(c, cap) ==
  IF cap.settled THEN cap
  ELSE [cap EXCEPT !.settled = TRUE, !.scheduled = FALSE, !.tracks = FALSE, !.stage = "over",
                   !.completion = Completion(c, cap),
                   !.chunks = IF cap.cancelled \/ cap.failure # None THEN @ ELSE 0]

FinalizedStore(c, cap) ==
  IF ~cap.settled /\ Completion(c, cap) = "turn"
    THEN [store EXCEPT ![c] = cap.chunks] ELSE store

\* #stopRecorder where recorder.stop throws.
StopThrown(cap) ==
  IF cap.failure = None THEN [cap EXCEPT !.failure = "transport-failed"] ELSE cap

Recording(cap) == ~cap.settled /\ cap.stage = "recording"

\* #stopRecorder(cap) as the last thing a handler does: the recorder is
\* inactive already, is told to stop, or throws and is finalized.
StopRecorder(c, cap) ==
  \/ /\ ~Recording(cap)
     /\ captures' = [captures EXCEPT ![c] = cap]
     /\ UNCHANGED store
  \/ /\ Recording(cap)
     /\ captures' = [captures EXCEPT ![c] = [cap EXCEPT !.stage = "stopping"]]
     /\ UNCHANGED store
  \/ /\ Recording(cap)
     /\ captures' = [captures EXCEPT ![c] = Finalized(c, StopThrown(cap))]
     /\ store' = FinalizedStore(c, StopThrown(cap))

-----------------------------------------------------------------------------
(* start.                                                                  *)

\* start, up to the permission prompt; where it finds another capture it throws.
Start(c) ==
  /\ Quiet
  /\ captures[c].stage = "unused"
  /\ \A d \in 1..(c - 1) : captures[d].stage # "unused"
  /\ active = None /\ starting = None
  /\ starting' = c
  /\ captures' = [captures EXCEPT ![c].stage = "prompt"]
  /\ UNCHANGED <<active, store>>

Refuse(c) ==
  /\ Quiet
  /\ captures[c].stage = "prompt"
  /\ starting' = IF starting = c THEN None ELSE starting
  /\ captures' = [captures EXCEPT ![c].stage = "over"]
  /\ UNCHANGED <<active, store>>

\* The permission comes after cancel: the tracks are stopped as they come.
GrantCancelled(c) ==
  /\ Quiet
  /\ captures[c].stage = "prompt"
  /\ captures[c].cancelled \/ starting # c
  /\ captures' = [captures EXCEPT ![c].stage = "over"]
  /\ UNCHANGED <<starting, active, store>>

\* Mutant: no timer.
GrantUntimed(c) ==
  /\ Quiet
  /\ captures[c].stage = "prompt"
  /\ ~captures[c].cancelled /\ starting = c
  /\ starting' = None
  /\ active' = c
  /\ captures' = [captures EXCEPT ![c] = [@ EXCEPT !.stage = "recording", !.tracks = TRUE]]
  /\ UNCHANGED store

\* The recorder is created and started, and the timer with it.
Grant(c) ==
  /\ Quiet
  /\ captures[c].stage = "prompt"
  /\ ~captures[c].cancelled /\ starting = c
  /\ starting' = None
  /\ active' = c
  /\ captures' = [captures EXCEPT ![c] = [@ EXCEPT !.stage = "recording", !.tracks = TRUE,
                                                   !.scheduled = TRUE]]
  /\ UNCHANGED store

\* No supported format, or createRecorder, recorder.start or schedule throws:
\* whatever was set up is taken back, and start rejects.
GrantFails(c) ==
  /\ Quiet
  /\ captures[c].stage = "prompt"
  /\ ~captures[c].cancelled /\ starting = c
  /\ starting' = None
  /\ captures' = [captures EXCEPT ![c] = [@ EXCEPT !.stage = "over", !.settled = TRUE,
                                                   !.completion = "transport-failed"]]
  /\ UNCHANGED <<active, store>>

-----------------------------------------------------------------------------
(* The recorder's events and the timer.                                    *)

\* Mutant: what does not fit is left out.
ChunkDropped(c, n) ==
  /\ Quiet
  /\ captures[c].stage \in {"recording", "stopping"}
  /\ ~captures[c].settled /\ ~captures[c].cancelled
  /\ captures' = [captures EXCEPT ![c] =
       IF @.total + n > MaxAudioBytes THEN [@ EXCEPT !.total = MaxAudioBytes + 1]
       ELSE [@ EXCEPT !.total = @ + n, !.chunks = @ + n]]
  /\ UNCHANGED <<starting, active, store>>

\* Mutant: the limit is looked at after the chunk has been kept.
ChunkUnlimited(c, n) ==
  /\ Quiet
  /\ captures[c].stage = "recording"
  /\ captures[c].total <= MaxAudioBytes
  /\ captures' = [captures EXCEPT ![c] = [@ EXCEPT !.total = @ + n, !.chunks = @ + n]]
  /\ UNCHANGED <<starting, active, store>>

\* #recordChunk, for n bytes.
Chunk(c, n) ==
  /\ Quiet
  /\ captures[c].stage \in {"recording", "stopping"}
  /\ ~captures[c].settled /\ ~captures[c].cancelled
  /\ LET cap == [captures[c] EXCEPT !.total = @ + n]
     IN \/ /\ cap.total > MaxAudioBytes
           /\ StopRecorder(c, [cap EXCEPT !.failure = "capture-too-large", !.chunks = 0,
                                          !.total = MaxAudioBytes + 1])
        \/ /\ cap.total <= MaxAudioBytes
           /\ captures' = [captures EXCEPT ![c] = [cap EXCEPT !.chunks = @ + n]]
           /\ UNCHANGED store
  /\ UNCHANGED <<starting, active>>

\* #failCapture: the recorder is inactive by then, or still has to be stopped.
RecorderError(c) ==
  /\ Quiet
  /\ captures[c].stage \in {"recording", "stopping"}
  /\ ~captures[c].settled
  /\ LET cap == [captures[c] EXCEPT !.failure = "transport-failed"]
     IN \/ /\ captures' = [captures EXCEPT ![c] = Finalized(c, cap)]
           /\ store' = FinalizedStore(c, cap)
        \/ /\ cap.stage = "recording"
           /\ StopRecorder(c, cap)
  /\ UNCHANGED <<starting, active>>

\* The recorder's stop event: it was told to stop, or its tracks ended.
RecorderStops(c) ==
  /\ Quiet
  /\ captures[c].stage \in {"recording", "stopping"}
  /\ ~captures[c].settled
  /\ captures' = [captures EXCEPT ![c] = Finalized(c, captures[c])]
  /\ store' = FinalizedStore(c, captures[c])
  /\ UNCHANGED <<starting, active>>

\* The maximum duration has passed.
TimerFires(c) ==
  /\ Quiet
  /\ captures[c].scheduled
  /\ StopRecorder(c, [captures[c] EXCEPT !.scheduled = FALSE])
  /\ UNCHANGED <<starting, active>>

-----------------------------------------------------------------------------
(* stop, cancel and transcribe.                                            *)

\* stop, up to its await; of another capture than #active it throws.
Stop(c) ==
  /\ Quiet
  /\ active = c
  /\ captures[c].caller = "none"
  /\ StopRecorder(c, [captures[c] EXCEPT !.caller = "stop"])
  /\ UNCHANGED <<starting, active>>

\* The rest of stop, whose finally gives the port back.
StopReturns(c) ==
  /\ captures[c].caller = "stop"
  /\ captures[c].completion # None
  /\ captures' = [captures EXCEPT ![c].caller =
                    IF captures[c].completion = "turn" THEN "turn" ELSE "none"]
  /\ active' = IF active = c THEN None ELSE active
  /\ UNCHANGED <<starting, store>>

\* Mutant: the microphone is left to the recorder's stop event.
CancelWaits(c) ==
  /\ Quiet
  /\ starting # c /\ active = c
  /\ captures' = [captures EXCEPT ![c].cancelled = TRUE, ![c].stage = "stopping"]
  /\ store' = [store EXCEPT ![c] = 0]
  /\ active' = None
  /\ UNCHANGED starting

\* Mutant: a capture that ended by itself keeps its clip.
CancelKeepsClip(c) ==
  /\ Quiet
  /\ starting # c /\ active = c
  /\ captures' = [captures EXCEPT ![c] = Finalized(c, [@ EXCEPT !.cancelled = TRUE])]
  /\ active' = None
  /\ UNCHANGED <<starting, store>>

\* cancel: the microphone is given back without waiting for the recorder.
Cancel(c) ==
  /\ Quiet
  /\ \/ /\ starting = c
        /\ starting' = None
        /\ captures' = [captures EXCEPT ![c].cancelled = TRUE]
        /\ UNCHANGED <<active, store>>
     \/ /\ starting # c /\ active = c
        /\ captures' = [captures EXCEPT ![c] = Finalized(c, [@ EXCEPT !.cancelled = TRUE])]
        /\ store' = [store EXCEPT ![c] = 0]
        /\ active' = None
        /\ UNCHANGED starting

\* transcribe takes the clip, once, before it sends it.
Transcribe(c) ==
  /\ captures[c].caller = "turn"
  /\ captures' = [captures EXCEPT ![c].caller =
                    IF store[c] \in 1..MaxAudioBytes THEN "transcribing" ELSE "mismatch"]
  /\ store' = [store EXCEPT ![c] = 0]
  /\ UNCHANGED <<starting, active>>

\* The answer, a failure or the abort of the request.
TranscribeSettles(c) ==
  /\ Quiet
  /\ captures[c].caller = "transcribing"
  /\ captures' = [captures EXCEPT ![c].caller = "none"]
  /\ UNCHANGED <<starting, active, store>>

-----------------------------------------------------------------------------
Next ==
  \E c \in Captures :
    \/ Start(c) \/ Refuse(c) \/ GrantCancelled(c) \/ Grant(c) \/ GrantFails(c)
    \/ \E n \in 1..MaxChunk : Chunk(c, n)
    \/ RecorderError(c) \/ RecorderStops(c) \/ TimerFires(c)
    \/ Stop(c) \/ StopReturns(c) \/ Cancel(c) \/ Transcribe(c) \/ TranscribeSettles(c)

Spec == Init /\ [][Next]_vars

\* The timer fires and a recorder told to stop says so; the player need never
\* finish, the permission prompt need never be answered.
Fairness ==
  \A c \in Captures :
    /\ WF_vars(TimerFires(c))
    /\ WF_vars(captures[c].stage = "stopping" /\ RecorderStops(c))
    /\ WF_vars(StopReturns(c))
    /\ WF_vars(Transcribe(c))

FairSpec == Spec /\ Fairness

-----------------------------------------------------------------------------
(* Properties.                                                             *)

\* The ports hold a capture or none, and its records are well formed.
TypeOK ==
  /\ starting \in Captures \union {None}
  /\ active \in Captures \union {None}
  /\ store \in [Captures -> 0..MaxAudioBytes]
  /\ captures \in [Captures ->
       [stage : {"unused", "prompt", "recording", "stopping", "over"},
        tracks : BOOLEAN, chunks : 0..MaxAudioBytes, total : 0..(MaxAudioBytes + 1),
        failure : Codes \union {None}, cancelled : BOOLEAN, settled : BOOLEAN,
        scheduled : BOOLEAN, completion : Codes \union {"turn", None},
        caller : {"none", "stop", "turn", "transcribing", "mismatch"}]]

\* The microphone is live only for the capture that stop and cancel reach: no
\* late permission, recorder error or failed setup leaves a track running.
MicrophoneOwned ==
  \A c \in Captures :
    captures[c].tracks => active = c /\ ~captures[c].settled /\ ~captures[c].cancelled

\* Raw audio is kept only for the capture that is active or whose turn is
\* being handed over: the one-shot store is empty for the next capture, which
\* therefore never finds it full.
AudioIsOneShot ==
  /\ \A c \in Clips : active = c \/ captures[c].caller = "turn"
  /\ \A c \in Captures : captures[c].completion # "capture-busy"

\* A turn's audio is there when it is transcribed, and all of it.
TurnHasItsAudio ==
  \A c \in Captures :
    /\ captures[c].caller # "mismatch"
    /\ captures[c].caller = "turn" => store[c] = captures[c].total

\* A capture is contained: the ports hold at most one, its microphone and its
\* audio are theirs, and its turn gets all of it.
CaptureContained == TypeOK /\ MicrophoneOwned /\ AudioIsOneShot /\ TurnHasItsAudio

\* A microphone that records is released, whether or not anybody stops it.
MicrophoneReleased ==
  \A c \in Captures : captures[c].tracks ~> ~captures[c].tracks

=============================================================================
