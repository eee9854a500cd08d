--------------------- MODULE VoiceAudioControllerProofs ---------------------
(***************************************************************************)
(* Proofs about VoiceAudioController, for any number of captures, turns,   *)
(* playbacks and stops: a capture has its owner and is shown, stop reaches *)
(* the turn and the playback, and nothing is heard over the microphone.    *)
(* They assume ~SlowEngine: an aborted turn settles before the next task.  *)
(***************************************************************************)
EXTENDS VoiceAudioController, FiniteSetTheorems, TLAPS

-----------------------------------------------------------------------------
(* The inductive invariant: the session does one thing at a time.          *)

\* Of all calls exactly #playbackAbort's is pending, and unless it has been
\* aborted the state is the one its stage calls for.
PlayInv ==
  /\ \A c \in Calls :
       /\ Pending(c) <=> playbackAbort = c
       /\ Pending(c) => calls[c].queue # <<>>
       /\ Pending(c) /\ ~calls[c].aborted =>
            \/ calls[c].stage = "fetching" /\ state = "processing"
            \/ calls[c].stage \in {"audible", "prefetch"} /\ state \in SpeakingStates
            \/ /\ calls[c].stage \in {"held", "prefetch"} /\ state = "paused"
               /\ pausedPlaybackState # None
  /\ resuming # None =>
       /\ state = "paused" /\ playbackAbort # None
       /\ calls[playbackAbort].stage = "held" /\ ~calls[playbackAbort].aborted

\* Of all turns exactly #turnAbort's is in progress, while nothing is played.
TurnInv ==
  /\ \A i \in Interactions :
       /\ Turning(i) <=> turnAbort = i
       /\ Turning(i) /\ ~turns[i].aborted => state = "processing"
  /\ turnAbort = None \/ playbackAbort = None

\* While a capture is active there is neither a turn nor a playback, and the
\* state is the capture's; a recorder that is stopping is the active capture's
\* or was given up.
CaptureInv ==
  /\ active # None =>
       /\ CaptureShown
       /\ turns[active].epoch = lifecycleEpoch /\ active \notin stored
       /\ turnAbort = None /\ playbackAbort = None
  /\ \A i \in Interactions :
       /\ turns[i].stage = "listening" => active = i
       /\ turns[i].stage = "stopping" =>
            active \in {i, None} /\ turnAbort = None /\ playbackAbort = None
       /\ turns[i].stage = "unused" => i \notin stored
       /\ turns[i].stage \in {"unused", "starting"} => ~turns[i].started

IInv == TypeOK /\ PlayInv /\ TurnInv /\ CaptureInv /\ CaptureOwned

-----------------------------------------------------------------------------
(* Facts the actions need.                                                 *)

\* undefined is neither an interaction, a call, a state nor a role.
LEMMA NoneDistinct ==
  /\ None \notin Interactions /\ None \notin Calls
  /\ None \notin SpeakingStates /\ None \notin Roles
BY VoiceConstants DEF VoiceConstants, Interactions, Calls

\* A session that rests, with no continuation to run, has nothing going on.
LEMMA Idle ==
  ASSUME IInv, ~SlowEngine, Drained, state \in Restful
  PROVE  /\ active = None /\ turnAbort = None /\ playbackAbort = None /\ resuming = None
         /\ \A c \in Calls : ~Pending(c)
         /\ \A i \in Interactions : ~Turning(i) /\ turns[i].stage \notin {"listening", "stopping"}
<1>1. active = None
  BY DEF IInv, CaptureInv, CaptureShown, Restful
<1>2. \A c \in Calls : ~Pending(c)
  BY DEF IInv, PlayInv, Drained, Restful, SpeakingStates
<1>3. \A i \in Interactions : ~Turning(i)
  BY DEF IInv, TurnInv, Drained, Restful, Turning
<1>4. playbackAbort = None /\ turnAbort = None
  BY <1>2, <1>3 DEF IInv, TypeOK, PlayInv, TurnInv
<1>5. resuming = None
  BY DEF IInv, PlayInv, Restful
<1>6. \A i \in Interactions : turns[i].stage \notin {"listening", "stopping"}
  BY <1>1, NoneDistinct DEF IInv, CaptureInv, Drained, Stale
<1> QED BY <1>1, <1>2, <1>3, <1>4, <1>5, <1>6

\* The same facts for each of the things a session can be doing.  While a capture
\* is active there is neither a turn nor a playback.
LEMMA CaptureAlone ==
  ASSUME IInv, active # None
  PROVE  /\ active \in Interactions /\ turnAbort = None /\ playbackAbort = None
         /\ resuming = None /\ active \notin stored /\ CaptureShown
         /\ turns[active].epoch = lifecycleEpoch
         /\ \A c \in Calls : ~Pending(c)
         /\ \A i \in Interactions : ~Turning(i)
<1>1. /\ active \in Interactions /\ turnAbort = None /\ playbackAbort = None
      /\ active \notin stored /\ CaptureShown /\ turns[active].epoch = lifecycleEpoch
  BY DEF IInv, TypeOK, CaptureInv
<1> QED BY <1>1, NoneDistinct DEF IInv, PlayInv, TurnInv

\* A recorder that is stopping is alone, also when its capture was given up.
LEMMA StoppingAlone ==
  ASSUME IInv, NEW i \in Interactions, turns[i].stage = "stopping"
  PROVE  /\ active \in {i, None} /\ turnAbort = None /\ playbackAbort = None
         /\ resuming = None /\ (Stale(i) => active = None)
         /\ \A c \in Calls : ~Pending(c)
         /\ \A j \in Interactions : ~Turning(j)
<1>1. active \in {i, None} /\ turnAbort = None /\ playbackAbort = None
  BY DEF IInv, CaptureInv
<1>2. active = i => turns[i].epoch = lifecycleEpoch
  BY NoneDistinct DEF IInv, CaptureInv
<1> QED BY <1>1, <1>2, NoneDistinct DEF IInv, PlayInv, TurnInv, Stale

\* A turn in progress is alone.
LEMMA TurnAlone ==
  ASSUME IInv, NEW i \in Interactions, Turning(i)
  PROVE  /\ turnAbort = i /\ playbackAbort = None /\ active = None /\ resuming = None
         /\ \A c \in Calls : ~Pending(c)
         /\ \A j \in Interactions \ {i} : ~Turning(j)
         /\ \A j \in Interactions : turns[j].stage \notin {"listening", "stopping"}
<1>1. turnAbort = i /\ i # None
  BY NoneDistinct DEF IInv, TurnInv
<1>2. playbackAbort = None /\ active = None
  BY <1>1 DEF IInv, TurnInv, CaptureInv
<1> QED BY <1>1, <1>2, NoneDistinct DEF IInv, PlayInv, TurnInv, CaptureInv

\* A pending playback is alone.
LEMMA PlayAlone ==
  ASSUME IInv, NEW c \in Calls, Pending(c)
  PROVE  /\ playbackAbort = c /\ turnAbort = None /\ active = None
         /\ calls[c].queue # <<>>
         /\ \A d \in Calls \ {c} : ~Pending(d)
         /\ \A i \in Interactions : ~Turning(i) /\ turns[i].stage \notin {"listening", "stopping"}
<1>1. playbackAbort = c /\ c # None /\ calls[c].queue # <<>>
  BY NoneDistinct DEF IInv, PlayInv
<1>2. turnAbort = None /\ active = None
  BY <1>1 DEF IInv, TurnInv, CaptureInv
<1> QED BY <1>1, <1>2, NoneDistinct DEF IInv, PlayInv, TurnInv, CaptureInv

\* A full store stays full.
LEMMA StoredGrows ==
  ASSUME stored \subseteq Interactions, NEW i \in Interactions, Cardinality(stored) >= Capacity
  PROVE  Cardinality(stored \union {i}) >= Capacity
<1>1. IsFiniteSet(Interactions)
  BY VoiceConstants, FS_Interval DEF VoiceConstants, Interactions
<1>2. IsFiniteSet(stored)
  BY <1>1, FS_Subset
<1>3. Cardinality(stored) \in Nat /\ Cardinality(stored \union {i}) \in Nat
  BY <1>2, FS_CardinalityType, FS_AddElement
<1>4. Cardinality(stored \union {i}) >= Cardinality(stored)
  <2>1. Cardinality(stored \union {i}) \in {Cardinality(stored), Cardinality(stored) + 1}
    BY <1>2, FS_AddElement
  <2> QED BY <1>3, <2>1
<1> QED BY <1>3, <1>4, VoiceConstants DEF VoiceConstants

\* Only a full store refuses to record a new interaction.
LEMMA RefusedWhenFull ==
  ASSUME stored \subseteq Interactions, NEW i \in Interactions, i \notin stored, ~Recordable(i)
  PROVE  Cardinality(stored) >= Capacity
<1>1. IsFiniteSet(Interactions)
  BY VoiceConstants, FS_Interval DEF VoiceConstants, Interactions
<1>2. Cardinality(stored) \in Nat
  BY <1>1, FS_Subset, FS_CardinalityType
<1> QED BY <1>2, VoiceConstants DEF VoiceConstants, Recordable

\* The record of a capture that starts.
LEMMA StartedTurn ==
  ASSUME NEW t \in Turn, NEW epoch \in 0..MaxStops
  PROVE  [t EXCEPT !.stage = "starting", !.epoch = epoch] \in Turn
BY DEF Turn

\* The records of a capture whose recorder stops, and of media that starts.
LEMMA StoppedTurn ==
  ASSUME NEW t \in Turn, NEW stage \in {"transcribing", "over"}
  PROVE  [t EXCEPT !.stage = stage, !.ended = TRUE] \in Turn
BY DEF Turn

\* A step of one turn leaves the others.
LEMMA OneTurn ==
  ASSUME IInv, NEW i \in Interactions, NEW t \in Turn, turns' = [turns EXCEPT ![i] = t]
  PROVE  turns' \in [Interactions -> Turn]
BY DEF IInv, TypeOK

\* So does a call of playback that becomes audible.
LEMMA AudibleCall ==
  ASSUME IInv, NEW c \in Calls, calls' = [calls EXCEPT ![c].stage = "audible"]
  PROVE  calls' \in [Calls -> Call]
<1>1. calls \in [Calls -> Call] /\ calls[c] \in Call
  BY DEF IInv, TypeOK
<1>2. [calls[c] EXCEPT !.stage = "audible"] \in Call
  BY <1>1 DEF Call
<1>3. calls' = [calls EXCEPT ![c] = [calls[c] EXCEPT !.stage = "audible"]]
  BY <1>1
<1> QED BY <1>1, <1>2, <1>3

-----------------------------------------------------------------------------
(* Each action preserves the invariant.                                    *)

\* A capture starts in a session at rest.
LEMMA StartCapturePreserves ==
  ASSUME IInv, ~SlowEngine, StartCapture
  PROVE  IInv'
<1> USE NoneDistinct DEF StartCapture, Fresh, captureUnchanged
<1>1. TypeOK'
  <2> PICK i \in Interactions : /\ active' = i
                               /\ turns' = [turns EXCEPT ![i].stage = "starting",
                                                         ![i].epoch = lifecycleEpoch]
    OBVIOUS
  <2>1. turns \in [Interactions -> Turn] /\ lifecycleEpoch \in 0..MaxStops
    BY DEF IInv, TypeOK
  <2>2. [turns[i] EXCEPT !.stage = "starting", !.epoch = lifecycleEpoch] \in Turn
    BY <2>1, StartedTurn
  <2>3. turns' = [turns EXCEPT ![i] = [turns[i] EXCEPT !.stage = "starting",
                                                       !.epoch = lifecycleEpoch]]
    OBVIOUS
  <2>4. turns' \in [Interactions -> Turn]
    BY <2>1, <2>2, <2>3
  <2> QED BY <2>4 DEF IInv, TypeOK
<1>2. PlayInv'
  BY Idle DEF IInv, TypeOK, PlayInv, Pending, Sounding, Call
<1>3. TurnInv'
  BY Idle DEF IInv, TypeOK, TurnInv, Turning, Turn
<1>4. CaptureInv'
  BY Idle DEF IInv, TypeOK, CaptureInv, CaptureShown, Turn
<1>5. CaptureOwned'
  BY Idle DEF IInv, TypeOK, CaptureOwned, CaptureInv, Turn
<1> QED BY <1>1, <1>2, <1>3, <1>4, <1>5 DEF IInv

\* The active capture's recorder is told to stop.
LEMMA FinishCapturePreserves ==
  ASSUME IInv, ~SlowEngine, FinishCapture
  PROVE  IInv'
<1> USE NoneDistinct DEF FinishCapture, captureUnchanged
<1>1. TypeOK'
  <2>1. turns' \in [Interactions -> Turn]
    BY CaptureAlone DEF IInv, TypeOK, Turn
  <2>2. calls' \in [Calls -> Call]
    BY CaptureAlone DEF IInv, TypeOK, Call
  <2> QED BY CaptureAlone, <2>1, <2>2 DEF IInv, TypeOK, Restful, SpeakingStates
<1>2. PlayInv'
  BY CaptureAlone DEF IInv, TypeOK, PlayInv, Pending, Sounding, Call
<1>3. TurnInv'
  BY CaptureAlone DEF IInv, TypeOK, TurnInv, Turning, Turn
<1>4. CaptureInv'
  BY CaptureAlone DEF IInv, TypeOK, CaptureInv, CaptureShown, Turn
<1>5. CaptureOwned'
  BY CaptureAlone DEF IInv, TypeOK, CaptureOwned, CaptureInv, Turn
<1> QED BY <1>1, <1>2, <1>3, <1>4, <1>5 DEF IInv

\* A text becomes a turn in a session at rest.
LEMMA SubmitTextPreserves ==
  ASSUME IInv, ~SlowEngine, SubmitText
  PROVE  IInv'
<1> USE NoneDistinct DEF SubmitText, Fresh, turnUnchanged
<1>1. TypeOK'
  <2>1. turns' \in [Interactions -> Turn]
    BY Idle DEF IInv, TypeOK, Turn
  <2>2. calls' \in [Calls -> Call]
    BY Idle DEF IInv, TypeOK, Call
  <2> QED BY Idle, <2>1, <2>2 DEF IInv, TypeOK, Restful, SpeakingStates
<1>2. PlayInv'
  BY Idle DEF IInv, TypeOK, PlayInv, Pending, Sounding, Call
<1>3. TurnInv'
  BY Idle DEF IInv, TypeOK, TurnInv, Turning, Turn
<1>4. CaptureInv'
  BY Idle DEF IInv, TypeOK, CaptureInv, CaptureShown, Turn
<1>5. CaptureOwned'
  BY Idle, StoredGrows DEF IInv, TypeOK, CaptureOwned, CaptureInv, Turn
<1> QED BY <1>1, <1>2, <1>3, <1>4, <1>5 DEF IInv

\* A refused text leaves no turn.
LEMMA SubmitTextRefusedPreserves ==
  ASSUME IInv, ~SlowEngine, SubmitTextRefused
  PROVE  IInv'
<1> USE NoneDistinct DEF SubmitTextRefused, Fresh, turnUnchanged
<1>1. TypeOK'
  <2>1. turns' \in [Interactions -> Turn]
    BY Idle DEF IInv, TypeOK, Turn
  <2>2. calls' \in [Calls -> Call]
    BY Idle DEF IInv, TypeOK, Call
  <2> QED BY Idle, <2>1, <2>2 DEF IInv, TypeOK, Restful, SpeakingStates
<1>2. PlayInv'
  BY Idle DEF IInv, TypeOK, PlayInv, Pending, Sounding, Call
<1>3. TurnInv'
  BY Idle DEF IInv, TypeOK, TurnInv, Turning, Turn
<1>4. CaptureInv'
  BY Idle DEF IInv, TypeOK, CaptureInv, CaptureShown, Turn
<1>5. CaptureOwned'
  BY Idle DEF IInv, TypeOK, CaptureOwned, CaptureInv, Turn
<1> QED BY <1>1, <1>2, <1>3, <1>4, <1>5 DEF IInv

\* Only the capture that is still wanted listens.
LEMMA MicrophoneGrantedPreserves ==
  ASSUME IInv, ~SlowEngine, NEW i \in Interactions, MicrophoneGranted(i)
  PROVE  IInv'
<1> USE NoneDistinct DEF MicrophoneGranted, Stale, captureUnchanged
<1>1. TypeOK'
  <2>1. turns' \in [Interactions -> Turn]
    BY CaptureAlone DEF IInv, TypeOK, Turn
  <2>2. calls' \in [Calls -> Call]
    BY CaptureAlone DEF IInv, TypeOK, Call
  <2> QED BY CaptureAlone, <2>1, <2>2 DEF IInv, TypeOK, Restful, SpeakingStates
<1>2. PlayInv'
  BY CaptureAlone DEF IInv, TypeOK, PlayInv, Pending, Sounding, Call
<1>3. TurnInv'
  BY CaptureAlone DEF IInv, TypeOK, TurnInv, Turning, Turn
<1>4. CaptureInv'
  BY CaptureAlone DEF IInv, TypeOK, CaptureInv, CaptureShown, Turn
<1>5. CaptureOwned'
  BY CaptureAlone DEF IInv, TypeOK, CaptureOwned, CaptureInv, Turn
<1> QED BY <1>1, <1>2, <1>3, <1>4, <1>5 DEF IInv

\* A refused microphone ends the capture that asked for it.
LEMMA MicrophoneRefusedPreserves ==
  ASSUME IInv, ~SlowEngine, NEW i \in Interactions, MicrophoneRefused(i)
  PROVE  IInv'
<1> USE NoneDistinct DEF MicrophoneRefused, RecordFailure, Stale, captureUnchanged
<1>1. TypeOK'
  <2>1. turns' \in [Interactions -> Turn]
    BY CaptureAlone DEF IInv, TypeOK, Turn
  <2>2. calls' \in [Calls -> Call]
    BY CaptureAlone DEF IInv, TypeOK, Call
  <2> QED BY CaptureAlone, <2>1, <2>2 DEF IInv, TypeOK, Restful, SpeakingStates
<1>2. PlayInv'
  BY CaptureAlone DEF IInv, TypeOK, PlayInv, Pending, Sounding, Call
<1>3. TurnInv'
  BY CaptureAlone DEF IInv, TypeOK, TurnInv, Turning, Turn
<1>4. CaptureInv'
  BY CaptureAlone DEF IInv, TypeOK, CaptureInv, CaptureShown, Turn
<1>5. CaptureOwned'
  BY CaptureAlone, StoredGrows DEF IInv, TypeOK, CaptureOwned, CaptureInv, Turn
<1> QED BY <1>1, <1>2, <1>3, <1>4, <1>5 DEF IInv

\* The recording becomes a turn of its own.
LEMMA CaptureStopsPreserves ==
  ASSUME IInv, ~SlowEngine, NEW i \in Interactions, CaptureStops(i)
  PROVE  IInv'
<1> USE NoneDistinct DEF CaptureStops, Stale, captureUnchanged
<1>0. /\ active = i /\ turnAbort = None /\ playbackAbort = None /\ resuming = None
      /\ i \notin stored
      /\ \A c \in Calls : ~Pending(c)
      /\ \A j \in Interactions : ~Turning(j) /\ (turns[j].stage = "stopping" => j = i)
  BY StoppingAlone, CaptureAlone DEF IInv, CaptureInv
<1>1. TypeOK'
  <2>1. turns' \in [Interactions -> Turn]
    <3>1. turns' = [turns EXCEPT ![i] = [turns[i] EXCEPT !.stage = "transcribing", !.ended = TRUE]]
      OBVIOUS
    <3>2. turns[i] \in Turn
      BY DEF IInv, TypeOK
    <3> QED BY <3>1, <3>2, StoppedTurn, OneTurn
  <2>2. calls' \in [Calls -> Call]
    BY <1>0 DEF IInv, TypeOK, Call
  <2> QED BY <1>0, <2>1, <2>2 DEF IInv, TypeOK, Restful, SpeakingStates
<1>2. PlayInv'
  BY <1>0 DEF IInv, TypeOK, PlayInv, Pending, Sounding, Call
<1>3. TurnInv'
  <2>1. \A j \in Interactions : Turning(j)' <=> j = i
    BY <1>0 DEF IInv, TypeOK, Turn, Turning
  <2>2. state' = "processing"
    BY <1>0 DEF IInv, CaptureInv, CaptureShown
  <2> QED BY <1>0, <2>1, <2>2 DEF TurnInv
<1>4. CaptureInv'
  BY <1>0 DEF IInv, TypeOK, CaptureInv, CaptureShown, Turn
<1>5. CaptureOwned'
  BY <1>0 DEF IInv, TypeOK, CaptureOwned, CaptureInv, Turn
<1> QED BY <1>1, <1>2, <1>3, <1>4, <1>5 DEF IInv

\* A recorder that fails to stop ends the capture.
LEMMA CaptureStopFailsPreserves ==
  ASSUME IInv, ~SlowEngine, NEW i \in Interactions, CaptureStopFails(i)
  PROVE  IInv'
<1> USE NoneDistinct DEF CaptureStopFails, RecordFailure, Stale, captureUnchanged
<1>0. /\ active = i /\ turnAbort = None /\ playbackAbort = None /\ resuming = None
      /\ i \notin stored
      /\ \A c \in Calls : ~Pending(c)
      /\ \A j \in Interactions : ~Turning(j) /\ (turns[j].stage = "stopping" => j = i)
  BY StoppingAlone, CaptureAlone DEF IInv, CaptureInv
<1>1. TypeOK'
  <2>1. turns' \in [Interactions -> Turn]
    <3>1. turns' = [turns EXCEPT ![i] = [turns[i] EXCEPT !.stage = "over", !.ended = TRUE]]
      OBVIOUS
    <3>2. turns[i] \in Turn
      BY DEF IInv, TypeOK
    <3> QED BY <3>1, <3>2, StoppedTurn, OneTurn
  <2>2. calls' \in [Calls -> Call]
    BY <1>0 DEF IInv, TypeOK, Call
  <2> QED BY <1>0, <2>1, <2>2 DEF IInv, TypeOK, Restful, SpeakingStates
<1>2. PlayInv'
  BY <1>0 DEF IInv, TypeOK, PlayInv, Pending, Sounding, Call
<1>3. TurnInv'
  BY <1>0 DEF IInv, TypeOK, TurnInv, Turning, Turn
<1>4. CaptureInv'
  BY <1>0 DEF IInv, TypeOK, CaptureInv, CaptureShown, Turn
<1>5. CaptureOwned'
  BY <1>0, StoredGrows DEF IInv, TypeOK, CaptureOwned, CaptureInv, Turn
<1> QED BY <1>1, <1>2, <1>3, <1>4, <1>5 DEF IInv

\* The recorder of a capture given up has stopped.
LEMMA RecordCancelledTurnPreserves ==
  ASSUME IInv, ~SlowEngine, NEW i \in Interactions, RecordCancelledTurn(i)
  PROVE  IInv'
<1> USE NoneDistinct DEF RecordCancelledTurn, captureUnchanged
<1>0. /\ active = None /\ turnAbort = None /\ playbackAbort = None /\ resuming = None
      /\ \A c \in Calls : ~Pending(c)
      /\ \A j \in Interactions : ~Turning(j)
  BY StoppingAlone
<1>1. TypeOK'
  <2>1. turns' \in [Interactions -> Turn]
    BY <1>0 DEF IInv, TypeOK, Turn
  <2>2. calls' \in [Calls -> Call]
    BY <1>0 DEF IInv, TypeOK, Call
  <2> QED BY <1>0, <2>1, <2>2 DEF IInv, TypeOK, Restful, SpeakingStates
<1>2. PlayInv'
  BY <1>0 DEF IInv, TypeOK, PlayInv, Pending, Sounding, Call
<1>3. TurnInv'
  BY <1>0 DEF IInv, TypeOK, TurnInv, Turning, Turn
<1>4. CaptureInv'
  BY <1>0 DEF IInv, TypeOK, CaptureInv, CaptureShown, Turn
<1>5. CaptureOwned'
  BY <1>0, StoredGrows DEF IInv, TypeOK, CaptureOwned, CaptureInv, Turn
<1> QED BY <1>1, <1>2, <1>3, <1>4, <1>5 DEF IInv

\* The transcript goes to the coordinator, in the same turn.
LEMMA TranscribedPreserves ==
  ASSUME IInv, ~SlowEngine, NEW i \in Interactions, Transcribed(i)
  PROVE  IInv'
<1> USE NoneDistinct DEF Transcribed, turnUnchanged
<1>0. /\ turnAbort = i /\ playbackAbort = None /\ active = None /\ resuming = None
      /\ \A c \in Calls : ~Pending(c)
      /\ \A j \in Interactions \ {i} : ~Turning(j)
      /\ \A j \in Interactions : turns[j].stage \notin {"listening", "stopping"}
  BY TurnAlone DEF Turning
<1>1. TypeOK'
  <2>1. turns' \in [Interactions -> Turn]
    BY <1>0 DEF IInv, TypeOK, Turn
  <2>2. calls' \in [Calls -> Call]
    BY <1>0 DEF IInv, TypeOK, Call
  <2> QED BY <1>0, <2>1, <2>2 DEF IInv, TypeOK, Restful, SpeakingStates
<1>2. PlayInv'
  BY <1>0 DEF IInv, TypeOK, PlayInv, Pending, Sounding, Call
<1>3. TurnInv'
  BY <1>0 DEF IInv, TypeOK, TurnInv, Turning, Turn
<1>4. CaptureInv'
  BY <1>0 DEF IInv, TypeOK, CaptureInv, CaptureShown, Turn
<1>5. CaptureOwned'
  BY <1>0, StoredGrows DEF IInv, TypeOK, CaptureOwned, CaptureInv, Turn
<1> QED BY <1>1, <1>2, <1>3, <1>4, <1>5 DEF IInv

\* What was fetched is heard, and the state says who speaks.
LEMMA PlayStartsPreserves ==
  ASSUME IInv, ~SlowEngine, NEW c \in Calls, PlayStarts(c)
  PROVE  IInv'
<1> USE NoneDistinct DEF PlayStarts, playUnchanged
<1>0. /\ playbackAbort = c /\ turnAbort = None /\ active = None /\ calls[c].queue # <<>>
      /\ \A d \in Calls \ {c} : ~Pending(d)
      /\ \A i \in Interactions : ~Turning(i) /\ turns[i].stage \notin {"listening", "stopping"}
      /\ ~calls[c].aborted /\ resuming = None /\ calls[c].queue \in Seq(Roles)
  BY PlayAlone DEF Pending, Sounding, Drained, IInv, PlayInv, TypeOK, Call
<1>1. TypeOK'
  <2>1. calls' \in [Calls -> Call]
    BY AudibleCall
  <2>2. state' \in SpeakingStates
    BY DEF Speaking, SpeakingStates
  <2> QED BY <2>1, <2>2 DEF IInv, TypeOK
<1>2. PlayInv'
  <2>1. state' \in SpeakingStates
    BY DEF Speaking, SpeakingStates
  <2>2. /\ calls'[c].stage = "audible" /\ calls'[c].queue = calls[c].queue
        /\ \A d \in Calls \ {c} : calls'[d] = calls[d]
    BY DEF IInv, TypeOK, Call
  <2>3. \A d \in Calls : Pending(d)' <=> d = c
    BY <1>0, <2>2 DEF Pending, Sounding
  <2> QED BY <1>0, <2>1, <2>2, <2>3 DEF PlayInv
<1>3. TurnInv'
  BY <1>0 DEF IInv, TypeOK, TurnInv, Turning, Turn
<1>4. CaptureInv'
  BY <1>0 DEF IInv, TypeOK, CaptureInv, CaptureShown, Turn
<1>5. CaptureOwned'
  BY <1>0 DEF IInv, TypeOK, CaptureOwned, CaptureInv, Turn
<1> QED BY <1>1, <1>2, <1>3, <1>4, <1>5 DEF IInv

\* A failed playback is over.
LEMMA PlayFailsPreserves ==
  ASSUME IInv, ~SlowEngine, NEW c \in Calls, PlayFails(c)
  PROVE  IInv'
<1> USE NoneDistinct DEF PlayFails, CloseCall, Release
<1>0. /\ playbackAbort = c /\ turnAbort = None /\ active = None /\ calls[c].queue # <<>>
      /\ \A d \in Calls \ {c} : ~Pending(d)
      /\ \A i \in Interactions : ~Turning(i) /\ turns[i].stage \notin {"listening", "stopping"}
      /\ ~calls[c].aborted
  BY PlayAlone DEF Pending, Drained
<1>1. TypeOK'
  <2>1. turns' \in [Interactions -> Turn]
    BY <1>0 DEF IInv, TypeOK, Turn
  <2>2. calls' \in [Calls -> Call]
    BY <1>0 DEF IInv, TypeOK, Call
  <2> QED BY <1>0, <2>1, <2>2 DEF IInv, TypeOK, Restful, SpeakingStates
<1>2. PlayInv'
  BY <1>0 DEF IInv, TypeOK, PlayInv, Pending, Sounding, Call
<1>3. TurnInv'
  BY <1>0 DEF IInv, TypeOK, TurnInv, Turning, Turn
<1>4. CaptureInv'
  BY <1>0 DEF IInv, TypeOK, CaptureInv, CaptureShown, Turn
<1>5. CaptureOwned'
  BY <1>0 DEF IInv, TypeOK, CaptureOwned, CaptureInv, Turn
<1> QED BY <1>1, <1>2, <1>3, <1>4, <1>5 DEF IInv

\* An aborted playback is over.
LEMMA PlayInterruptedPreserves ==
  ASSUME IInv, ~SlowEngine, NEW c \in Calls, PlayInterrupted(c)
  PROVE  IInv'
<1> USE NoneDistinct DEF PlayInterrupted, CloseCall, Release, playUnchanged
<1>0. /\ playbackAbort = c /\ turnAbort = None /\ active = None /\ calls[c].queue # <<>>
      /\ \A d \in Calls \ {c} : ~Pending(d)
      /\ \A i \in Interactions : ~Turning(i) /\ turns[i].stage \notin {"listening", "stopping"}
      /\ calls[c].aborted /\ resuming = None
  BY PlayAlone DEF Pending, IInv, PlayInv
<1>1. TypeOK'
  <2>1. turns' \in [Interactions -> Turn]
    BY <1>0 DEF IInv, TypeOK, Turn
  <2>2. calls' \in [Calls -> Call]
    BY <1>0 DEF IInv, TypeOK, Call
  <2> QED BY <1>0, <2>1, <2>2 DEF IInv, TypeOK, Restful, SpeakingStates
<1>2. PlayInv'
  BY <1>0 DEF IInv, TypeOK, PlayInv, Pending, Sounding, Call
<1>3. TurnInv'
  BY <1>0 DEF IInv, TypeOK, TurnInv, Turning, Turn
<1>4. CaptureInv'
  BY <1>0 DEF IInv, TypeOK, CaptureInv, CaptureShown, Turn
<1>5. CaptureOwned'
  BY <1>0 DEF IInv, TypeOK, CaptureOwned, CaptureInv, Turn
<1> QED BY <1>1, <1>2, <1>3, <1>4, <1>5 DEF IInv

\* resume goes back to the playback that was paused, if there is one.
LEMMA ResumePreserves ==
  ASSUME IInv, ~SlowEngine, Resume
  PROVE  IInv'
<1> USE NoneDistinct DEF Resume
<1>1. TypeOK'
  <2>1. turns' \in [Interactions -> Turn]
    BY DEF IInv, TypeOK, Turn
  <2>2. calls' \in [Calls -> Call]
    BY DEF IInv, TypeOK, Call
  <2> QED BY <2>1, <2>2 DEF IInv, TypeOK, Restful, SpeakingStates
<1>2. PlayInv'
  <2>1. ASSUME pausedPlaybackState # None, \E c \in Calls : Sounding(c),
               resuming' = pausedPlaybackState, UNCHANGED <<state, pausedPlaybackState>>
        PROVE  PlayInv'
    <3>1. PICK c \in Calls : Sounding(c)
      BY <2>1
    <3>2. playbackAbort = c /\ ~calls[c].aborted /\ calls[c].stage = "held"
      BY <3>1 DEF IInv, PlayInv, Pending, Sounding, Drained, SpeakingStates
    <3> QED BY <2>1, <3>2 DEF IInv, PlayInv, Pending, Sounding
  <2>2. ASSUME pausedPlaybackState # None, \A c \in Calls : ~Sounding(c),
               state' = pausedPlaybackState, UNCHANGED resuming
        PROVE  PlayInv'
    <3>1. resuming = None
      BY <2>2 DEF IInv, TypeOK, PlayInv, Sounding
    <3>2. state' \in SpeakingStates
      BY <2>2 DEF IInv, TypeOK
    <3> QED BY <2>2, <3>1, <3>2 DEF IInv, PlayInv, Pending, Sounding
  <2>3. ASSUME pausedPlaybackState = None, UNCHANGED <<pausedPlaybackState, resuming>>,
               state' = "ready"
        PROVE  PlayInv'
    <3>1. \A c \in Calls : ~Pending(c)
      BY <2>3 DEF IInv, PlayInv, Drained, SpeakingStates
    <3>2. resuming = None
      BY <3>1 DEF IInv, TypeOK, PlayInv
    <3> QED BY <2>3, <3>1, <3>2 DEF IInv, PlayInv, Pending, Sounding
  <2> QED BY <2>1, <2>2, <2>3
<1>3. TurnInv'
  BY DEF IInv, TypeOK, TurnInv, Turning, Turn
<1>4. CaptureInv'
  BY DEF IInv, TypeOK, CaptureInv, CaptureShown, Turn
<1>5. CaptureOwned'
  BY DEF IInv, TypeOK, CaptureOwned, CaptureInv, Turn
<1> QED BY <1>1, <1>2, <1>3, <1>4, <1>5 DEF IInv

\* The media that goes on is the one that was held.
LEMMA ResumedPreserves ==
  ASSUME IInv, ~SlowEngine, Resumed
  PROVE  IInv'
<1> USE NoneDistinct DEF Resumed, Drained
<1>0. /\ playbackAbort \in Calls /\ turnAbort = None /\ active = None
      /\ calls[playbackAbort].stage = "held" /\ ~calls[playbackAbort].aborted
      /\ \A d \in Calls \ {playbackAbort} : ~Pending(d)
      /\ \A i \in Interactions : ~Turning(i) /\ turns[i].stage \notin {"listening", "stopping"}
  BY PlayAlone DEF Pending, Sounding, IInv, PlayInv, TypeOK
<1>1. TypeOK'
  <2>1. PICK c \in Calls : calls' = [calls EXCEPT ![c].stage = "audible"]
    OBVIOUS
  <2>2. calls' \in [Calls -> Call]
    BY <2>1, AudibleCall
  <2> QED BY <2>2 DEF IInv, TypeOK
<1>2. PlayInv'
  BY <1>0 DEF IInv, TypeOK, PlayInv, Pending, Sounding, Call
<1>3. TurnInv'
  BY <1>0 DEF IInv, TypeOK, TurnInv, Turning, Turn
<1>4. CaptureInv'
  BY <1>0 DEF IInv, TypeOK, CaptureInv, CaptureShown, Turn
<1>5. CaptureOwned'
  BY <1>0 DEF IInv, TypeOK, CaptureOwned, CaptureInv, Turn
<1> QED BY <1>1, <1>2, <1>3, <1>4, <1>5 DEF IInv

\* A rejected resume changes nothing else.
LEMMA ResumeRejectedPreserves ==
  ASSUME IInv, ~SlowEngine, ResumeRejected
  PROVE  IInv'
<1> USE NoneDistinct DEF ResumeRejected
<1>1. TypeOK'
  <2>1. turns' \in [Interactions -> Turn]
    BY DEF IInv, TypeOK, Turn
  <2>2. calls' \in [Calls -> Call]
    BY DEF IInv, TypeOK, Call
  <2> QED BY <2>1, <2>2 DEF IInv, TypeOK, Restful, SpeakingStates
<1>2. PlayInv'
  BY DEF IInv, TypeOK, PlayInv, Pending, Sounding, Call
<1>3. TurnInv'
  BY DEF IInv, TypeOK, TurnInv, Turning, Turn
<1>4. CaptureInv'
  BY DEF IInv, TypeOK, CaptureInv, CaptureShown, Turn
<1>5. CaptureOwned'
  BY DEF IInv, TypeOK, CaptureOwned, CaptureInv, Turn
<1> QED BY <1>1, <1>2, <1>3, <1>4, <1>5 DEF IInv

\* A call that begins to play is the one that is pending, in the processing state.
LEMMA BeginPlayOwned ==
  ASSUME IInv, NEW c \in Calls, NEW queue \in Seq(Roles), queue # <<>>,
         NEW epoch \in 0..MaxStops, NEW repeat \in BOOLEAN,
         BeginPlay(c, queue, epoch, repeat), resuming' = None,
         \A d \in Calls \ {c} : ~Pending(d)
  PROVE  /\ PlayInv' /\ calls' \in [Calls -> Call] /\ playbackAbort' \in Calls
         /\ lastPlayed' \in Roles /\ state' = "processing"
<1>1. calls' \in [Calls -> Call] /\ lastPlayed' \in Roles
  BY DEF IInv, TypeOK, BeginPlay, Call
<1>2. /\ calls'[c].stage = "fetching" /\ calls'[c].queue = queue
      /\ \A d \in Calls \ {c} : calls'[d] = calls[d]
  BY DEF IInv, TypeOK, BeginPlay
<1>3. \A d \in Calls : Pending(d)' <=> d = c
  BY <1>2 DEF Pending, Sounding
<1> QED BY <1>1, <1>2, <1>3 DEF PlayInv, BeginPlay

\* A call that is closed leaves nothing pending.
LEMMA CloseCallQuiet ==
  ASSUME IInv, NEW c \in Calls, Pending(c), CloseCall(c), resuming' = None
  PROVE  /\ PlayInv' /\ calls' \in [Calls -> Call] /\ playbackAbort' = None
         /\ lastPlayed' = lastPlayed
<1>1. playbackAbort' = None /\ \A d \in Calls \ {c} : ~Pending(d)
  BY PlayAlone DEF CloseCall, Release
<1>2. calls' \in [Calls -> Call] /\ calls'[c].stage = "over"
  <2>1. calls \in [Calls -> Call] /\ <<>> \in Seq(Roles)
    BY DEF IInv, TypeOK
  <2>2. calls' = [calls EXCEPT ![c] = [calls[c] EXCEPT !.stage = "over", !.queue = <<>>]]
    BY DEF CloseCall
  <2>3. [calls[c] EXCEPT !.stage = "over", !.queue = <<>>] \in Call
    BY <2>1 DEF Call
  <2> QED BY <2>1, <2>2, <2>3 DEF Call
<1>3. \A d \in Calls \ {c} : calls'[d] = calls[d]
  BY DEF IInv, TypeOK, CloseCall
<1>4. \A d \in Calls : ~Pending(d)'
  BY <1>1, <1>2, <1>3 DEF Pending, Sounding
<1> QED BY <1>1, <1>2, <1>4, NoneDistinct DEF PlayInv, CloseCall

\* What follows a turn either plays the first narration or leaves nothing pending.
LEMMA FollowTurnOwned ==
  ASSUME IInv, NEW s, NEW queue \in Seq(Roles), FollowTurn(s, queue),
         playbackAbort = None, resuming' = None
  PROVE  /\ PlayInv' /\ calls' \in [Calls -> Call] /\ playbackAbort' \in Calls \union {None}
         /\ lastPlayed' \in Roles \union {None} /\ state' \in {s, "ready", "processing"}
<1>1. \A c \in Calls : ~Pending(c)
  BY NoneDistinct DEF IInv, PlayInv
<1>2. CASE UNCHANGED <<calls, playbackAbort, lastPlayed>> /\ state' \in {s, "ready"}
  BY <1>1, <1>2, NoneDistinct DEF IInv, TypeOK, PlayInv, Pending, Sounding
<1>3. CASE queue # <<>> /\ \E c \in Calls : BeginPlay(c, queue, lifecycleEpoch, FALSE)
  <2>1. PICK c \in Calls : BeginPlay(c, queue, lifecycleEpoch, FALSE)
    BY <1>3
  <2>2. lifecycleEpoch \in 0..MaxStops /\ FALSE \in BOOLEAN
    BY DEF IInv, TypeOK
  <2> QED BY <1>1, <1>3, <2>1, <2>2, BeginPlayOwned
<1> QED BY <1>2, <1>3 DEF FollowTurn

\* With neither a capture nor a turn left, a playback disturbs neither.
LEMMA OnlyPlayback ==
  ASSUME IInv, active = None, active' = None, turnAbort' = None,
         turns' \in [Interactions -> Turn],
         \A j \in Interactions :
           /\ turns'[j].stage \in {turns[j].stage, "over"}
           /\ turns'[j].started = turns[j].started /\ turns'[j].ended = turns[j].ended
           /\ turns'[j].stage \notin {"listening", "stopping", "transcribing", "deciding"},
         stored' = stored \/ \E i \in Interactions :
                               stored' = stored \union {i} /\ turns[i].stage # "unused"
  PROVE  TurnInv' /\ CaptureInv' /\ CaptureOwned'
<1>1. TurnInv'
  BY NoneDistinct DEF TurnInv, Turning
<1>2. CaptureInv'
  BY DEF IInv, CaptureInv
<1>3. CaptureOwned'
  <2>1. Cardinality(stored) >= Capacity => Cardinality(stored') >= Capacity
    BY StoredGrows DEF IInv, TypeOK
  <2> QED BY <2>1, NoneDistinct DEF IInv, CaptureOwned
<1> QED BY <1>1, <1>2, <1>3

\* A playback step of a session that does nothing else preserves the invariant.
LEMMA PlaybackPreserves ==
  ASSUME IInv, active = None, turnAbort = None,
         \A i \in Interactions :
           turns[i].stage \notin {"listening", "stopping", "transcribing", "deciding"},
         playUnchanged, PlayInv', calls' \in [Calls -> Call],
         playbackAbort' \in Calls \union {None}, lastPlayed' \in Roles \union {None},
         state' \in {state, "ready", "processing"}
  PROVE  IInv'
<1>1. TypeOK'
  BY DEF IInv, TypeOK, playUnchanged, Restful
<1>2. turns' = turns /\ stored' = stored /\ active' = None /\ turnAbort' = None
  BY DEF playUnchanged
<1>3. TurnInv' /\ CaptureInv' /\ CaptureOwned'
  <2> HIDE DEF IInv
  <2>1. turns' \in [Interactions -> Turn]
    BY <1>2 DEF IInv, TypeOK
  <2> QED BY <1>2, <2>1, OnlyPlayback
<1> QED BY <1>1, <1>3 DEF IInv

\* Prepared narration is played in a session that does nothing else.
LEMMA PlayPreparedPreserves ==
  ASSUME IInv, ~SlowEngine, PlayPrepared
  PROVE  IInv'
<1>1. PICK queue \in Queues : FollowTurn(state, queue)
  BY DEF PlayPrepared
<1>2. queue \in Seq(Roles)
  BY VoiceConstants DEF Queues, VoiceConstants
<1>3. active = None /\ turnAbort = None /\ playbackAbort = None /\ playUnchanged
  BY DEF PlayPrepared
<1>4. resuming' = None
  BY <1>3 DEF IInv, PlayInv, playUnchanged
<1>5. \A i \in Interactions :
        turns[i].stage \notin {"listening", "stopping", "transcribing", "deciding"}
  BY <1>3, NoneDistinct DEF PlayPrepared, Drained, Stale, IInv, TurnInv, Turning, CaptureInv
<1> QED BY <1>1, <1>2, <1>3, <1>4, <1>5, FollowTurnOwned, PlaybackPreserves

\* What was last played is played again in a session at rest.
LEMMA RepeatPreserves ==
  ASSUME IInv, ~SlowEngine, Repeat
  PROVE  IInv'
<1>1. PICK c \in Calls : BeginPlay(c, <<lastPlayed>>, lifecycleEpoch, TRUE)
  BY DEF Repeat
<1>2. /\ <<lastPlayed>> \in Seq(Roles) /\ <<lastPlayed>> # <<>>
      /\ lifecycleEpoch \in 0..MaxStops /\ TRUE \in BOOLEAN
  BY DEF Repeat, IInv, TypeOK
<1>3. /\ active = None /\ turnAbort = None /\ resuming = None /\ playUnchanged
      /\ \A d \in Calls : ~Pending(d)
      /\ \A i \in Interactions :
           turns[i].stage \notin {"listening", "stopping", "transcribing", "deciding"}
  BY Idle DEF Repeat, Turning
<1>4. resuming' = None
  BY <1>3 DEF playUnchanged
<1>5. /\ PlayInv' /\ calls' \in [Calls -> Call] /\ playbackAbort' \in Calls
      /\ lastPlayed' \in Roles /\ state' = "processing"
  BY <1>1, <1>2, <1>3, <1>4, BeginPlayOwned
<1> QED BY <1>3, <1>5, PlaybackPreserves

\* The loop of playPrepared goes on to its next request or closes the call.
LEMMA AdvancePreserves ==
  ASSUME IInv, NEW c \in Calls, Pending(c), resuming = None, Advance(c), playUnchanged
  PROVE  IInv'
<1>1. resuming' = None
  BY DEF playUnchanged
<1>2. /\ active = None /\ turnAbort = None /\ calls[c].queue # <<>>
      /\ \A d \in Calls \ {c} : ~Pending(d)
      /\ \A i \in Interactions :
           turns[i].stage \notin {"listening", "stopping", "transcribing", "deciding"}
  BY PlayAlone DEF Turning
<1>3. CASE CloseCall(c) /\ state' \in {state, "ready"}
  <2>1. /\ PlayInv' /\ calls' \in [Calls -> Call] /\ playbackAbort' = None
        /\ lastPlayed' = lastPlayed
    BY <1>1, <1>3, CloseCallQuiet
  <2>2. lastPlayed' \in Roles \union {None}
    BY <2>1 DEF IInv, TypeOK
  <2> QED BY <1>2, <1>3, <2>1, <2>2, PlaybackPreserves
<1>4. CASE /\ Tail(calls[c].queue) # <<>>
           /\ BeginPlay(c, Tail(calls[c].queue), calls[c].epoch, calls[c].repeat)
  <2>1. /\ calls[c].queue \in Seq(Roles) /\ calls[c].epoch \in 0..MaxStops
        /\ calls[c].repeat \in BOOLEAN
    BY DEF IInv, TypeOK, Call
  <2>2. Tail(calls[c].queue) \in Seq(Roles)
    BY <1>2, <2>1
  <2>3. /\ PlayInv' /\ calls' \in [Calls -> Call] /\ playbackAbort' \in Calls
        /\ lastPlayed' \in Roles /\ state' = "processing"
    BY <1>1, <1>2, <1>4, <2>1, <2>2, BeginPlayOwned
  <2> QED BY <1>2, <2>3, PlaybackPreserves
<1> QED BY <1>3, <1>4 DEF Advance

\* The media of one request ends.
LEMMA PlayEndsPreserves ==
  ASSUME IInv, ~SlowEngine, NEW c \in Calls, PlayEnds(c)
  PROVE  IInv'
<1>1. Pending(c) /\ calls[c].stage = "audible" /\ ~calls[c].aborted /\ playUnchanged
  BY DEF PlayEnds, Pending, Sounding, Drained
<1>2. /\ playbackAbort = c /\ active = None /\ turnAbort = None /\ calls[c].queue # <<>>
      /\ \A d \in Calls \ {c} : ~Pending(d)
      /\ \A i \in Interactions :
           turns[i].stage \notin {"listening", "stopping", "transcribing", "deciding"}
  BY <1>1, PlayAlone DEF Turning
<1>3. resuming = None /\ state \in SpeakingStates
  BY <1>1, <1>2 DEF IInv, PlayInv
<1>4. CASE Advance(c)
  BY <1>1, <1>3, <1>4, AdvancePreserves
<1>5. CASE /\ calls' = [calls EXCEPT ![c].stage = "prefetch"]
           /\ UNCHANGED <<state, playbackAbort, lastPlayed>>
  <2>1. calls' \in [Calls -> Call]
    BY <1>5 DEF IInv, TypeOK, Call
  <2>2. /\ calls'[c].stage = "prefetch" /\ calls'[c].queue = calls[c].queue
        /\ \A d \in Calls \ {c} : calls'[d] = calls[d]
    BY <1>5 DEF IInv, TypeOK, Call
  <2>3. \A d \in Calls : Pending(d)' <=> d = c
    BY <1>2, <2>2 DEF Pending, Sounding
  <2>4. PlayInv'
    BY <1>1, <1>2, <1>3, <1>5, <2>2, <2>3 DEF PlayInv, playUnchanged
  <2>5. playbackAbort' \in Calls \union {None} /\ lastPlayed' \in Roles \union {None}
    BY <1>5 DEF IInv, TypeOK
  <2> QED BY <1>1, <1>2, <1>5, <2>1, <2>4, <2>5, PlaybackPreserves
<1> QED BY <1>4, <1>5 DEF PlayEnds

\* A preparation settles, also that of an aborted call.
LEMMA PrefetchEndsPreserves ==
  ASSUME IInv, ~SlowEngine, NEW c \in Calls, PrefetchEnds(c)
  PROVE  IInv'
<1>1. Pending(c) /\ calls[c].stage = "prefetch" /\ playUnchanged /\ Advance(c)
  BY DEF PrefetchEnds, Pending
<1>2. resuming = None
  BY <1>1, PlayAlone DEF IInv, PlayInv
<1> QED BY <1>1, <1>2, AdvancePreserves

\* A turn that is over leaves the session to what follows it.
LEMMA TurnOver ==
  ASSUME IInv, NEW i \in Interactions, Turning(i),
         turns' = [turns EXCEPT ![i].stage = "over"], turnAbort' = None, turnUnchanged,
         stored' \in {stored, stored \union {i}},
         PlayInv', calls' \in [Calls -> Call], playbackAbort' \in Calls \union {None},
         lastPlayed' \in Roles \union {None},
         state' \in {state, "ready", "processing", "recoverable-error"}
  PROVE  IInv'
<1>1. active = None /\ active' = None
  BY TurnAlone DEF turnUnchanged
<1>2. turns' \in [Interactions -> Turn]
  BY DEF IInv, TypeOK, Turn
<1>3. TypeOK'
  BY <1>2 DEF IInv, TypeOK, turnUnchanged, Restful
<1>4. turns[i].stage # "unused"
  BY DEF Turning
<1>5. \A j \in Interactions \ {i} :
        turns[j].stage \notin {"listening", "stopping", "transcribing", "deciding"}
  BY TurnAlone DEF Turning
<1>6. \A j \in Interactions :
        /\ turns'[j].stage \in {turns[j].stage, "over"}
        /\ turns'[j].started = turns[j].started /\ turns'[j].ended = turns[j].ended
        /\ turns'[j].stage \notin {"listening", "stopping", "transcribing", "deciding"}
  BY <1>5 DEF IInv, TypeOK, Turn
<1>7. TurnInv' /\ CaptureInv' /\ CaptureOwned'
  BY <1>1, <1>2, <1>4, <1>6, OnlyPlayback
<1> QED BY <1>3, <1>7 DEF IInv

\* A turn fails, or was aborted while its transcript was awaited.
LEMMA TurnFailsPreserves ==
  ASSUME IInv, ~SlowEngine, NEW i \in Interactions, TurnFails(i)
  PROVE  IInv'
<1>1. /\ Turning(i) /\ turns' = [turns EXCEPT ![i].stage = "over"] /\ turnAbort' = None
      /\ turnUnchanged
  BY DEF TurnFails, Turning
<1>2. playbackAbort = None /\ resuming' = None
  BY <1>1, TurnAlone DEF turnUnchanged
<1>3. <<>> \in Seq(Roles)
  OBVIOUS
<1>4. CASE /\ stored' = stored \union {i}
           /\ FollowTurn(IF turns[i].aborted THEN state ELSE "recoverable-error", <<>>)
  <2> DEFINE s == IF turns[i].aborted THEN state ELSE "recoverable-error"
  <2>1. s \in {state, "recoverable-error"} /\ FollowTurn(s, <<>>)
    BY <1>4
  <2> HIDE DEF s
  <2>2. /\ PlayInv' /\ calls' \in [Calls -> Call] /\ playbackAbort' \in Calls \union {None}
        /\ lastPlayed' \in Roles \union {None} /\ state' \in {s, "ready", "processing"}
    BY <1>2, <1>3, <2>1, FollowTurnOwned
  <2> QED BY <1>1, <1>4, <2>1, <2>2, TurnOver
<1>5. CASE UNCHANGED <<stored, state, playbackAbort, lastPlayed, calls>>
  <2>1. /\ PlayInv' /\ calls' \in [Calls -> Call] /\ playbackAbort' \in Calls \union {None}
        /\ lastPlayed' \in Roles \union {None}
    BY <1>1, <1>2, <1>5 DEF IInv, TypeOK, PlayInv, Pending, Sounding, turnUnchanged
  <2> QED BY <1>1, <1>5, <2>1, TurnOver
<1> QED BY <1>4, <1>5 DEF TurnFails

\* A turn returns, with a narration or without one.
LEMMA TurnReturnsPreserves ==
  ASSUME IInv, ~SlowEngine, NEW i \in Interactions, TurnReturns(i)
  PROVE  IInv'
<1>1. /\ Turning(i) /\ turns' = [turns EXCEPT ![i].stage = "over"] /\ turnAbort' = None
      /\ turnUnchanged /\ stored' = stored
  BY DEF TurnReturns, Turning
<1>2. playbackAbort = None /\ resuming' = None
  BY <1>1, TurnAlone DEF turnUnchanged
<1>3. PICK queue \in {<<>>} \union {<<r>> : r \in Roles} : FollowTurn(state, queue)
  BY DEF TurnReturns
<1>4. queue \in Seq(Roles)
  <2>1. <<>> \in Seq(Roles) /\ \A r \in Roles : <<r>> \in Seq(Roles)
    OBVIOUS
  <2> QED BY <2>1
<1>5. /\ PlayInv' /\ calls' \in [Calls -> Call] /\ playbackAbort' \in Calls \union {None}
      /\ lastPlayed' \in Roles \union {None} /\ state' \in {state, "ready", "processing"}
  BY <1>2, <1>3, <1>4, FollowTurnOwned
<1> QED BY <1>1, <1>5, TurnOver

\* The record of a call that is aborted.
LEMMA AbortedCall ==
  ASSUME NEW k \in Call, NEW b \in BOOLEAN
  PROVE  [k EXCEPT !.aborted = b] \in Call
BY DEF Call

\* stop, however it ends: it aborts the turn and the playback it owns and gives
\* the capture up, with its end recorded unless that failed in a full store.
LEMMA HaltedPreserves ==
  ASSUME IInv, lifecycleEpoch' \in 0..MaxStops, pausedPlaybackState' = None,
         active' = None, resuming' = None,
         UNCHANGED <<turnAbort, playbackAbort, lastPlayed>>,
         state' \in {state, "ready", "recoverable-error", "paused"},
         calls' = [c \in Calls |-> [calls[c] EXCEPT !.aborted = @ \/ c = playbackAbort]],
         turns' \in [Interactions -> Turn],
         \A i \in Interactions :
           /\ turns'[i].aborted = (turns[i].aborted \/ i = turnAbort)
           /\ turns'[i].started = turns[i].started
           /\ turns[i].ended => turns'[i].ended
           /\ i = active /\ turns[i].started =>
                turns'[i].ended \/ Cardinality(stored) >= Capacity
           /\ turns'[i].stage = IF i = active /\ turns[i].stage = "listening"
                                THEN "over" ELSE turns[i].stage,
         stored' = stored \/ (active # None /\ stored' = stored \union {active})
  PROVE  IInv'
<1> USE NoneDistinct
<1>1. /\ calls' \in [Calls -> Call]
      /\ \A c \in Calls : /\ calls'[c].stage = calls[c].stage
                          /\ calls'[c].queue = calls[c].queue
                          /\ calls'[c].aborted = (calls[c].aborted \/ c = playbackAbort)
  <2>1. ASSUME NEW c \in Calls
        PROVE  [calls[c] EXCEPT !.aborted = @ \/ c = playbackAbort] \in Call
    <3>1. calls[c] \in Call /\ (calls[c].aborted \/ c = playbackAbort) \in BOOLEAN
      BY <2>1 DEF IInv, TypeOK
    <3> QED BY <3>1, AbortedCall
  <2>2. calls' \in [Calls -> Call]
    BY <2>1
  <2>3. ASSUME NEW c \in Calls
        PROVE  /\ calls'[c].stage = calls[c].stage
               /\ calls'[c].queue = calls[c].queue
               /\ calls'[c].aborted = (calls[c].aborted \/ c = playbackAbort)
    BY <2>3 DEF IInv, TypeOK, Call
  <2> QED BY <2>2, <2>3
<1>2. TypeOK'
  BY <1>1 DEF IInv, TypeOK, Restful
<1>3. PlayInv'
  <2>1. \A c \in Calls : Pending(c)' <=> Pending(c)
    BY <1>1 DEF Pending, Sounding
  <2>2. ASSUME NEW c \in Calls, Pending(c)
        PROVE  calls'[c].queue # <<>> /\ calls'[c].aborted
    <3>1. playbackAbort = c /\ calls[c].queue # <<>>
      BY <2>2 DEF IInv, PlayInv
    <3> QED BY <1>1, <3>1
  <2>3. \A c \in Calls : Pending(c) <=> playbackAbort' = c
    BY DEF IInv, PlayInv
  <2> QED BY <2>1, <2>2, <2>3 DEF PlayInv
<1>4. TurnInv'
  BY DEF IInv, TurnInv, Turning
<1>5. CaptureInv'
  <2>1. active # None => active \in Interactions /\ turns[active].stage # "unused"
    BY DEF IInv, TypeOK, CaptureInv, CaptureShown
  <2>2. \A i \in Interactions : turns'[i].stage # "listening"
    BY DEF IInv, CaptureInv
  <2> QED BY <2>1, <2>2 DEF IInv, CaptureInv
<1>6. CaptureOwned'
  <2>1. Cardinality(stored) >= Capacity => Cardinality(stored') >= Capacity
    BY StoredGrows DEF IInv, TypeOK
  <2> QED BY <2>1 DEF IInv, CaptureOwned
<1> QED BY <1>2, <1>3, <1>4, <1>5, <1>6 DEF IInv

\* What stop does, up to the state it shows.
LEMMA HaltPreserves ==
  ASSUME IInv, NEW failed \in BOOLEAN, Halt(failed),
         state' \in {state, "ready", "recoverable-error", "paused"}
  PROVE  IInv'
<1>1. /\ turns' \in [Interactions -> Turn]
      /\ \A i \in Interactions :
           /\ turns'[i].aborted = (turns[i].aborted \/ i = turnAbort)
           /\ turns'[i].started = turns[i].started
           /\ turns'[i].ended = (turns[i].ended \/ (i = active /\ turns[i].started))
           /\ turns'[i].stage = IF i = active /\ turns[i].stage = "listening"
                                THEN "over" ELSE turns[i].stage
  <2>1. turns \in [Interactions -> Turn]
    BY DEF IInv, TypeOK
  <2>2. ASSUME NEW i \in Interactions
        PROVE  /\ turns'[i] \in Turn
               /\ turns'[i].aborted = (turns[i].aborted \/ i = turnAbort)
               /\ turns'[i].started = turns[i].started
               /\ turns'[i].ended = (turns[i].ended \/ (i = active /\ turns[i].started))
               /\ turns'[i].stage = IF i = active /\ turns[i].stage = "listening"
                                    THEN "over" ELSE turns[i].stage
    <3>1. turns'[i] = [turns[i] EXCEPT
                         !.aborted = @ \/ i = turnAbort,
                         !.ended = @ \/ (i = active /\ turns[i].started),
                         !.stage = IF i = active /\ @ = "listening" THEN "over" ELSE @]
      BY DEF Halt
    <3>2. turns[i] \in Turn
      BY <2>1
    <3> QED BY <3>1, <3>2 DEF Turn
  <2>3. \E f : turns' = [i \in Interactions |-> f[i]]
    <3> WITNESS turns'
    <3> QED BY DEF Halt
  <2> QED BY <2>2, <2>3
<1>2. lifecycleEpoch' \in 0..MaxStops
  <2>1. lifecycleEpoch < MaxStops /\ lifecycleEpoch' = lifecycleEpoch + 1
    BY DEF Halt
  <2>2. lifecycleEpoch \in 0..MaxStops /\ MaxStops \in Nat
    BY VoiceConstants DEF IInv, TypeOK, VoiceConstants
  <2> QED BY <2>1, <2>2
<1>3. stored' = stored \/ (active # None /\ stored' = stored \union {active})
  BY DEF Halt
<1>4. /\ pausedPlaybackState' = None /\ active' = None /\ resuming' = None
      /\ UNCHANGED <<turnAbort, playbackAbort, lastPlayed>>
      /\ calls' = [c \in Calls |-> [calls[c] EXCEPT !.aborted = @ \/ c = playbackAbort]]
  BY DEF Halt
<1> QED BY <1>1, <1>2, <1>3, <1>4, HaltedPreserves

\* stop gives the capture up even where it cannot record that.
LEMMA StopThrowsPreserves ==
  ASSUME IInv, StopThrows
  PROVE  IInv'
<1>1. /\ turns' \in [Interactions -> Turn]
      /\ \A i \in Interactions :
           /\ turns'[i].aborted = (turns[i].aborted \/ i = turnAbort)
           /\ turns'[i].started = turns[i].started
           /\ turns'[i].ended = turns[i].ended
           /\ turns'[i].stage = IF i = active /\ turns[i].stage = "listening"
                                THEN "over" ELSE turns[i].stage
  <2>1. turns \in [Interactions -> Turn]
    BY DEF IInv, TypeOK
  <2>2. ASSUME NEW i \in Interactions
        PROVE  /\ turns'[i] \in Turn
               /\ turns'[i].aborted = (turns[i].aborted \/ i = turnAbort)
               /\ turns'[i].started = turns[i].started
               /\ turns'[i].ended = turns[i].ended
               /\ turns'[i].stage = IF i = active /\ turns[i].stage = "listening"
                                    THEN "over" ELSE turns[i].stage
    <3>1. turns'[i] = [turns[i] EXCEPT
                         !.aborted = @ \/ i = turnAbort,
                         !.stage = IF i = active /\ @ = "listening" THEN "over" ELSE @]
      BY DEF StopThrows
    <3>2. turns[i] \in Turn
      BY <2>1
    <3> QED BY <3>1, <3>2 DEF Turn
  <2>3. \E f : turns' = [i \in Interactions |-> f[i]]
    <3> WITNESS turns'
    <3> QED BY DEF StopThrows
  <2> QED BY <2>2, <2>3
<1>2. lifecycleEpoch' \in 0..MaxStops
  <2>1. lifecycleEpoch < MaxStops /\ lifecycleEpoch' = lifecycleEpoch + 1
    BY DEF StopThrows
  <2>2. lifecycleEpoch \in 0..MaxStops /\ MaxStops \in Nat
    BY VoiceConstants DEF IInv, TypeOK, VoiceConstants
  <2> QED BY <2>1, <2>2
<1>3. Cardinality(stored) >= Capacity
  <2>1. active \in Interactions /\ active \notin stored
    BY CaptureAlone DEF StopThrows
  <2> QED BY <2>1, RefusedWhenFull DEF StopThrows, IInv, TypeOK
<1>4. /\ pausedPlaybackState' = None /\ active' = None /\ resuming' = None
      /\ UNCHANGED <<turnAbort, playbackAbort, lastPlayed>>
      /\ calls' = [c \in Calls |-> [calls[c] EXCEPT !.aborted = @ \/ c = playbackAbort]]
      /\ stored' = stored /\ state' = state
  BY DEF StopThrows
<1> QED BY <1>1, <1>2, <1>3, <1>4, HaltedPreserves

\* stop, with the state it leaves.
LEMMA StopPreserves ==
  ASSUME IInv, Stop
  PROVE  IInv'
<1>1. PICK failed \in BOOLEAN : Halt(failed) /\ state' = Rest(failed)
  BY DEF Stop
<1>2. state' \in {state, "ready", "recoverable-error", "paused"}
  BY <1>1 DEF Rest
<1> QED BY <1>1, <1>2, HaltPreserves

\* pause holds what is heard; with nothing to hold it stops.
LEMMA PausePreserves ==
  ASSUME IInv, ~SlowEngine, Pause
  PROVE  IInv'
<1>1. CASE \E failed \in BOOLEAN : Halt(failed) /\ state' = "paused"
  BY <1>1, HaltPreserves
<1>2. CASE /\ state \in SpeakingStates
           /\ pausedPlaybackState' = state
           /\ calls' = [c \in Calls |-> [calls[c] EXCEPT
                                           !.stage = IF @ = "audible" THEN "held" ELSE @]]
           /\ state' = "paused"
           /\ UNCHANGED <<active, lifecycleEpoch, turnAbort, playbackAbort, lastPlayed,
                          turns, resuming, stored>>
  <2>1. /\ calls' \in [Calls -> Call]
        /\ \A c \in Calls : /\ calls'[c].stage = IF calls[c].stage = "audible"
                                                 THEN "held" ELSE calls[c].stage
                            /\ calls'[c].queue = calls[c].queue
                            /\ calls'[c].aborted = calls[c].aborted
    BY <1>2 DEF IInv, TypeOK, Call
  <2>2. TypeOK'
    BY <1>2, <2>1 DEF IInv, TypeOK
  <2>3. active = None /\ resuming = None
    BY <1>2 DEF IInv, CaptureInv, CaptureShown, PlayInv, SpeakingStates
  <2>4. PlayInv'
    <3>1. \A c \in Calls : Pending(c)' <=> Pending(c)
      BY <2>1 DEF Pending, Sounding
    <3>2. \A c \in Calls : Pending(c) => ~calls[c].aborted
      BY DEF Pause, Drained
    <3>3. \A c \in Calls : Pending(c) =>
            calls[c].stage \in {"audible", "prefetch"} /\ calls[c].queue # <<>>
      BY <1>2, <3>2 DEF IInv, PlayInv, SpeakingStates
    <3>4. state # None
      BY <1>2, NoneDistinct
    <3>5. \A c \in Calls : Pending(c) <=> playbackAbort = c
      BY DEF IInv, PlayInv
    <3> QED BY <1>2, <2>1, <2>3, <3>1, <3>3, <3>4, <3>5 DEF PlayInv
  <2>5. TurnInv'
    BY <1>2 DEF IInv, TurnInv, Turning, Pause, Drained, SpeakingStates
  <2>6. CaptureInv' /\ CaptureOwned'
    BY <1>2, <2>3 DEF IInv, CaptureInv, CaptureOwned
  <2> QED BY <2>2, <2>4, <2>5, <2>6 DEF IInv
<1> QED BY <1>1, <1>2 DEF Pause

-----------------------------------------------------------------------------
(* The theorems.                                                           *)

\* The invariant holds of a new session.
LEMMA InitIInv == Init => IInv
<1> SUFFICES ASSUME Init PROVE IInv
  OBVIOUS
<1> USE NoneDistinct
<1>1. /\ turns \in [Interactions -> Turn] /\ calls \in [Calls -> Call]
      /\ \A i \in Interactions : turns[i] = NoTurn
      /\ \A c \in Calls : calls[c] = NoCall
  BY VoiceConstants DEF Init, NoTurn, NoCall, Turn, Call, VoiceConstants
<1>2. TypeOK
  BY <1>1, VoiceConstants DEF Init, TypeOK, VoiceConstants, Restful
<1>3. PlayInv
  BY <1>1 DEF Init, PlayInv, Pending, Sounding, NoCall
<1>4. TurnInv
  BY <1>1 DEF Init, TurnInv, Turning, NoTurn
<1>5. CaptureInv /\ CaptureOwned
  BY <1>1 DEF Init, CaptureInv, CaptureOwned, NoTurn
<1> QED BY <1>2, <1>3, <1>4, <1>5 DEF IInv

\* Every step preserves the invariant.
LEMMA StepIInv ==
  ASSUME IInv, ~SlowEngine, [Next]_vars
  PROVE  IInv'
<1>1. CASE StartCapture
  BY <1>1, StartCapturePreserves
<1>2. CASE FinishCapture
  BY <1>2, FinishCapturePreserves
<1>3. CASE SubmitText
  BY <1>3, SubmitTextPreserves
<1>4. CASE SubmitTextRefused
  BY <1>4, SubmitTextRefusedPreserves
<1>5. CASE PlayPrepared
  BY <1>5, PlayPreparedPreserves
<1>6. CASE Repeat
  BY <1>6, RepeatPreserves
<1>7. CASE Stop
  BY <1>7, StopPreserves
<1>8. CASE StopThrows
  BY <1>8, StopThrowsPreserves
<1>9. CASE Pause
  BY <1>9, PausePreserves
<1>10. CASE Resume
  BY <1>10, ResumePreserves
<1>11. CASE Resumed
  BY <1>11, ResumedPreserves
<1>12. CASE ResumeRejected
  BY <1>12, ResumeRejectedPreserves
<1>13. CASE \E i \in Interactions : CaptureStep(i)
  BY <1>13, MicrophoneGrantedPreserves, MicrophoneRefusedPreserves, CaptureStopsPreserves,
     CaptureStopFailsPreserves, RecordCancelledTurnPreserves DEF CaptureStep
<1>14. CASE \E i \in Interactions : TurnStep(i)
  BY <1>14, TranscribedPreserves, TurnFailsPreserves, TurnReturnsPreserves DEF TurnStep
<1>15. CASE \E c \in Calls : PlayStep(c)
  BY <1>15, PlayStartsPreserves, PlayEndsPreserves, PrefetchEndsPreserves,
     PlayFailsPreserves, PlayInterruptedPreserves DEF PlayStep
<1>16. CASE UNCHANGED vars
  BY <1>16 DEF vars, IInv, TypeOK, PlayInv, Pending, Sounding, TurnInv, Turning,
               CaptureInv, CaptureShown, CaptureOwned
<1> QED BY <1>1, <1>2, <1>3, <1>4, <1>5, <1>6, <1>7, <1>8, <1>9, <1>10, <1>11, <1>12, <1>13,
           <1>14, <1>15, <1>16 DEF Next

\* A session whose aborted turns settle at once does one thing at a time.
THEOREM Inductive == Spec /\ ~SlowEngine => []IInv
<1>1. CASE SlowEngine
  BY <1>1
<1>2. CASE ~SlowEngine
  <2>1. IInv /\ [Next]_vars => IInv'
    BY <1>2, StepIInv
  <2> QED BY <2>1, InitIInv, PTL DEF Spec
<1> QED BY <1>1, <1>2

\* Every capture whose start was recorded has its owner, and #state shows the
\* capture that is active.
THEOREM CaptureIsHeld == Spec /\ ~SlowEngine => []CaptureHeld
<1>1. IInv => CaptureHeld
  BY DEF IInv, CaptureInv, CaptureHeld, CaptureShown
<1> QED BY <1>1, Inductive, PTL

\* stop can abort every turn that is in progress.
THEOREM StopFindsTurn == Spec /\ ~SlowEngine => []StopReachesTurn
<1>1. IInv => StopReachesTurn
  BY DEF IInv, TurnInv, StopReachesTurn
<1> QED BY <1>1, Inductive, PTL

\* stop can abort the playback that is in progress, and there is one at most.
THEOREM StopFindsPlayback == Spec /\ ~SlowEngine => []StopReachesPlayback
<1>1. IInv => StopReachesPlayback
  BY DEF IInv, PlayInv, StopReachesPlayback
<1> QED BY <1>1, Inductive, PTL

\* Nothing is heard while the microphone is in use or the session is paused.
THEOREM MicrophoneHearsNothing == Spec /\ ~SlowEngine => []QuietWhileListening
<1>1. IInv => QuietWhileListening
  <2> SUFFICES ASSUME IInv, active # None \/ state = "paused",
                      NEW c \in Calls, calls[c].stage = "audible", ~calls[c].aborted
               PROVE  FALSE
    BY DEF QuietWhileListening, IInv, TypeOK, Call
  <2>1. Pending(c)
    BY DEF Pending, Sounding
  <2>2. playbackAbort = c /\ active = None
    BY <2>1, PlayAlone
  <2> QED BY <2>1, <2>2 DEF IInv, PlayInv, SpeakingStates
<1> QED BY <1>1, Inductive, PTL

=============================================================================
