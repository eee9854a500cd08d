----------------------- MODULE MicrophoneCaptureProofs -----------------------
(***************************************************************************)
(* Proofs about MicrophoneCapture, for any number of captures, any sizes   *)
(* of chunks and any limits: a capture is contained.                       *)
(***************************************************************************)
EXTENDS MicrophoneCapture, FiniteSetTheorems, TLAPS

-----------------------------------------------------------------------------
(* The inductive invariant.  k is the record of capture c, st and ac what  *)
(* starting and active hold, and s the bytes of c's clip.                  *)

CaptureRecord ==
  [stage : {"unused", "prompt", "recording", "stopping", "over"},
   tracks : BOOLEAN, chunks : 0..MaxAudioBytes, total : 0..(MaxAudioBytes + 1),
   failure : Codes \union {None}, cancelled : BOOLEAN, settled : BOOLEAN,
   scheduled : BOOLEAN, completion : Codes \union {"turn", None},
   caller : {"none", "stop", "turn", "transcribing", "mismatch"}]

\* Nothing has been recorded before the permission came.
Fresh(k) ==
  /\ ~k.tracks /\ ~k.scheduled /\ ~k.settled
  /\ k.chunks = 0 /\ k.total = 0
  /\ k.failure = None /\ k.completion = None /\ k.caller = "none"

\* The media run exactly for an active capture that is neither settled nor
\* cancelled; the capture that waits for its permission is not cancelled.
MediaOK(k, c, st, ac) ==
  /\ st = c => k.stage = "prompt" /\ ~k.cancelled
  /\ k.stage \in {"unused", "prompt"} => Fresh(k) /\ ac # c
  /\ k.stage = "unused" => ~k.cancelled
  /\ k.stage \in {"recording", "stopping"} => ac = c /\ ~k.settled /\ ~k.cancelled
  /\ k.tracks \/ k.scheduled => k.stage \in {"recording", "stopping"}
  /\ k.settled => k.stage = "over"
  /\ k.settled <=> k.completion # None
  /\ ac = c /\ k.stage = "over" => k.settled

\* A clip is the whole recording of a capture that ended as a turn, from its end
\* to its transcription or cancellation.
AudioOK(k, c, ac, s) ==
  /\ k.chunks <= k.total
  /\ ~k.settled => k.failure # None \/ k.chunks = k.total
  /\ "capture-busy" \notin {k.failure, k.completion}
  /\ s > 0 => k.completion = "turn" /\ (ac = c \/ k.caller = "turn")
  /\ k.completion = "turn" /\ (ac = c \/ k.caller = "turn") => s = k.total /\ s > 0

\* How far the caller is with a capture.
CallerOK(k, c, ac) ==
  /\ ac = c => k.caller \in {"none", "stop"}
  /\ k.caller = "stop" => ac = c \/ k.completion \notin {None, "turn"}
  /\ k.caller \in {"turn", "transcribing"} => k.completion = "turn"
  /\ k.caller # "mismatch"

CaptureOK(k, c, st, ac, s) == MediaOK(k, c, st, ac) /\ AudioOK(k, c, ac, s) /\ CallerOK(k, c, ac)

IInv ==
  /\ TypeOK
  /\ starting = None \/ active = None
  /\ \A c \in Captures : CaptureOK(captures[c], c, starting, active, store[c])

-----------------------------------------------------------------------------
(* Steps of one capture.                                                   *)

\* A step of one capture preserves the invariant if it leaves that capture
\* sound and the others their places in the port.
LEMMA OneCapture ==
  ASSUME IInv, NEW c \in Captures, NEW f \in CaptureRecord, NEW s \in 0..MaxAudioBytes,
         captures' = [captures EXCEPT ![c] = f], store' = [store EXCEPT ![c] = s],
         starting' \in Captures \union {None}, active' \in Captures \union {None},
         starting' = None \/ active' = None,
         \A d \in Captures \ {c} :
           (starting' = d => starting = d) /\ (active' = d <=> active = d),
         CaptureOK(f, c, starting', active', s)
  PROVE  IInv'
<1>1. captures \in [Captures -> CaptureRecord] /\ store \in [Captures -> 0..MaxAudioBytes]
  BY DEF IInv, TypeOK, CaptureRecord
<1>2. TypeOK'
  BY <1>1 DEF TypeOK, CaptureRecord
<1>3. ASSUME NEW d \in Captures
      PROVE  CaptureOK(captures'[d], d, starting', active', store'[d])
  <2>1. CASE d = c
    BY <1>1, <2>1
  <2>2. CASE d # c
    <3>1. captures'[d] = captures[d] /\ store'[d] = store[d]
      BY <1>1, <2>2
    <3>2. CaptureOK(captures[d], d, starting, active, store[d])
      BY DEF IInv
    <3>3. (starting' = d => starting = d) /\ (active' = d <=> active = d)
      BY <2>2
    <3> QED BY <3>1, <3>2, <3>3 DEF CaptureOK, MediaOK, AudioOK, CallerOK
  <2> QED BY <2>1, <2>2
<1> QED BY <1>2, <1>3 DEF IInv

\* The same where the port and the store stay as they are.
LEMMA OneRecord ==
  ASSUME IInv, NEW c \in Captures, NEW f \in CaptureRecord,
         captures' = [captures EXCEPT ![c] = f], UNCHANGED <<starting, active, store>>,
         CaptureOK(f, c, starting, active, store[c])
  PROVE  IInv'
<1>1. store[c] \in 0..MaxAudioBytes /\ store' = [store EXCEPT ![c] = store[c]]
  BY DEF IInv, TypeOK
<1>2. /\ starting' \in Captures \union {None} /\ active' \in Captures \union {None}
      /\ starting' = None \/ active' = None
  BY DEF IInv, TypeOK
<1>3. CaptureOK(f, c, starting', active', store[c])
  OBVIOUS
<1> QED BY <1>1, <1>2, <1>3, OneCapture

\* What the invariant says of the port and of one capture.
LEMMA PortFacts ==
  ASSUME IInv, NEW c \in Captures
  PROVE  /\ captures[c] \in CaptureRecord /\ CaptureOK(captures[c], c, starting, active, store[c])
         /\ captures \in [Captures -> CaptureRecord] /\ store \in [Captures -> 0..MaxAudioBytes]
         /\ starting \in Captures \union {None} /\ active \in Captures \union {None}
         /\ starting = None \/ active = None
         /\ None \notin Captures
<1>1. /\ starting \in Captures \union {None} /\ active \in Captures \union {None}
      /\ store \in [Captures -> 0..MaxAudioBytes]
  BY DEF IInv, TypeOK
<1>2. captures \in [Captures -> CaptureRecord]
  BY DEF IInv, TypeOK, CaptureRecord
<1>3. captures[c] \in CaptureRecord
  BY <1>2
<1>4. CaptureOK(captures[c], c, starting, active, store[c]) /\ (starting = None \/ active = None)
  BY DEF IInv
<1>5. None \notin Captures
  BY CaptureConstants DEF CaptureConstants, Captures
<1> QED BY <1>1, <1>2, <1>3, <1>4, <1>5

\* Where a capture ends, the store is empty: the clip there could only be of
\* the active capture, which is the one that ends.
LEMMA StoreIsFree ==
  ASSUME IInv, Quiet, NEW c \in Captures, active = c, ~captures[c].settled
  PROVE  Cardinality(Clips) < MaxEntries
<1>1. ASSUME NEW d \in Captures PROVE ~(store[d] > 0)
  <2>1. CaptureOK(captures[d], d, starting, active, store[d]) /\ captures[d].caller # "turn"
    BY DEF IInv, Quiet
  <2> QED BY <2>1, CaptureConstants DEF CaptureOK, AudioOK, MediaOK, CaptureConstants
<1>2. Clips = {}
  BY <1>1 DEF Clips
<1> QED BY <1>2, FS_EmptySet, CaptureConstants DEF CaptureConstants

\* #finalizeCapture of a recording: its outcome is a turn exactly when its clip
\* is stored, whole.
LEMMA FinalizePreserves ==
  ASSUME IInv, Quiet, NEW c \in Captures, NEW cap \in CaptureRecord,
         ~captures[c].settled, cap.stage \in {"recording", "stopping"},
         CaptureOK(cap, c, starting, active, store[c]),
         captures' = [captures EXCEPT ![c] = Finalized(c, cap)],
         store' = FinalizedStore(c, cap), UNCHANGED <<starting, active>>
  PROVE  IInv'
<1> DEFINE f == Finalized(c, cap)
           s == IF Completion(c, cap) = "turn" THEN cap.chunks ELSE store[c]
<1>1. /\ active = c /\ starting # c /\ ~cap.settled /\ ~cap.cancelled
      /\ cap.completion = None /\ cap.caller \in {"none", "stop"}
      /\ cap.chunks <= cap.total /\ (cap.failure # None \/ cap.chunks = cap.total)
  BY CaptureConstants DEF CaptureOK, MediaOK, AudioOK, CallerOK, CaptureConstants
<1>2. store \in [Captures -> 0..MaxAudioBytes] /\ store[c] = 0
  BY <1>1, CaptureConstants DEF IInv, TypeOK, CaptureOK, AudioOK, CaptureConstants
<1>3. cap.chunks # 0 => Puts(c, cap)
  BY <1>1, StoreIsFree, CaptureConstants DEF Puts, CaptureRecord, CaptureConstants
<1>4. /\ Completion(c, cap) \in Codes \union {"turn"}
      /\ Completion(c, cap) # "capture-busy"
      /\ Completion(c, cap) = "turn" => cap.failure = None /\ cap.chunks # 0
  BY <1>1, <1>3, CaptureConstants
     DEF Completion, Codes, CaptureRecord, CaptureConstants, CaptureOK, AudioOK
<1>5. store' = [store EXCEPT ![c] = s] /\ s \in 0..MaxAudioBytes
  BY <1>1, <1>2 DEF FinalizedStore, CaptureRecord
<1>6. f = [cap EXCEPT !.settled = TRUE, !.scheduled = FALSE, !.tracks = FALSE, !.stage = "over",
                      !.completion = Completion(c, cap),
                      !.chunks = IF cap.cancelled \/ cap.failure # None THEN @ ELSE 0]
  BY <1>1 DEF Finalized
<1>7. f \in CaptureRecord
  <2>1. 0 \in 0..MaxAudioBytes /\ cap.chunks \in 0..MaxAudioBytes
    BY CaptureConstants DEF CaptureRecord, CaptureConstants
  <2> QED BY <1>4, <1>6, <2>1 DEF CaptureRecord
<1>8. CaptureOK(f, c, starting, active, s)
  BY <1>1, <1>2, <1>4, <1>6, CaptureConstants
     DEF CaptureRecord, CaptureOK, MediaOK, AudioOK, CallerOK, CaptureConstants
<1> HIDE DEF f, s
<1>9. /\ starting' \in Captures \union {None} /\ active' \in Captures \union {None}
      /\ starting' = None \/ active' = None
  BY DEF IInv, TypeOK
<1> QED BY <1>5, <1>7, <1>8, <1>9, OneCapture DEF f

\* #stopRecorder, from a record that is sound.
LEMMA StopRecorderPreserves ==
  ASSUME IInv, Quiet, NEW c \in Captures, NEW cap \in CaptureRecord,
         captures[c].settled => cap.settled, CaptureOK(cap, c, starting, active, store[c]),
         StopRecorder(c, cap), UNCHANGED <<starting, active>>
  PROVE  IInv'
<1>1. CASE captures' = [captures EXCEPT ![c] = cap] /\ UNCHANGED store
  BY <1>1, OneRecord
<1>2. CASE /\ Recording(cap) /\ UNCHANGED store
           /\ captures' = [captures EXCEPT ![c] = [cap EXCEPT !.stage = "stopping"]]
  <2> DEFINE f == [cap EXCEPT !.stage = "stopping"]
  <2>1. f \in CaptureRecord
    BY DEF CaptureRecord
  <2>2. CaptureOK(f, c, starting, active, store[c])
    BY <1>2 DEF Recording, CaptureRecord, CaptureOK, MediaOK, AudioOK, CallerOK
  <2> QED BY <1>2, <2>1, <2>2, OneRecord
<1>3. CASE /\ Recording(cap)
           /\ captures' = [captures EXCEPT ![c] = Finalized(c, StopThrown(cap))]
           /\ store' = FinalizedStore(c, StopThrown(cap))
  <2> DEFINE f == StopThrown(cap)
  <2>1. f \in CaptureRecord
    BY DEF StopThrown, CaptureRecord, Codes
  <2>2. CaptureOK(f, c, starting, active, store[c]) /\ f.stage = "recording"
    BY <1>3, CaptureConstants DEF StopThrown, Recording, CaptureRecord, CaptureOK, MediaOK, AudioOK,
       CallerOK, Fresh, CaptureConstants, Codes
  <2>3. ~captures[c].settled
    BY <1>3 DEF Recording
  <2> HIDE DEF f
  <2> QED BY <1>3, <2>1, <2>2, <2>3, FinalizePreserves DEF f
<1> QED BY <1>1, <1>2, <1>3 DEF StopRecorder

-----------------------------------------------------------------------------
(* Each action.                                                            *)

\* start asks for permission only when the port holds no capture.
LEMMA StartPreserves ==
  ASSUME IInv, NEW c \in Captures, Start(c)
  PROVE  IInv'
<1> DEFINE k == captures[c]
           f == [k EXCEPT !.stage = "prompt"]
<1>1. /\ k \in CaptureRecord /\ CaptureOK(k, c, starting, active, store[c])
      /\ captures \in [Captures -> CaptureRecord] /\ store \in [Captures -> 0..MaxAudioBytes]
      /\ starting \in Captures \union {None} /\ active \in Captures \union {None}
      /\ starting = None \/ active = None
      /\ None \notin Captures
  BY PortFacts
<1>2. /\ captures' = [captures EXCEPT ![c] = f]
      /\ store' = [store EXCEPT ![c] = store[c]]
      /\ starting' = c /\ active' = None
  BY <1>1 DEF Start
<1>3. f \in CaptureRecord /\ store[c] \in 0..MaxAudioBytes
  BY <1>1, CaptureConstants DEF CaptureRecord, CaptureConstants, Codes
<1>4. CaptureOK(f, c, starting', active', store[c])
  BY <1>1, <1>2, CaptureConstants
     DEF Start, CaptureRecord, CaptureOK, MediaOK, AudioOK, CallerOK, Fresh, CaptureConstants
<1> HIDE DEF f
<1>5. \A d \in Captures \ {c} :
        (starting' = d => starting = d) /\ (active' = d <=> active = d)
  BY <1>1, <1>2 DEF Start
<1>6. /\ starting' \in Captures \union {None} /\ active' \in Captures \union {None}
      /\ starting' = None \/ active' = None
  BY <1>1, <1>2 DEF Start
<1> QED BY <1>2, <1>3, <1>4, <1>5, <1>6, OneCapture

\* A refused permission leaves nothing behind.
LEMMA RefusePreserves ==
  ASSUME IInv, NEW c \in Captures, Refuse(c)
  PROVE  IInv'
<1> DEFINE k == captures[c]
           f == [k EXCEPT !.stage = "over"]
<1>1. /\ k \in CaptureRecord /\ CaptureOK(k, c, starting, active, store[c])
      /\ captures \in [Captures -> CaptureRecord] /\ store \in [Captures -> 0..MaxAudioBytes]
      /\ starting \in Captures \union {None} /\ active \in Captures \union {None}
      /\ starting = None \/ active = None
      /\ None \notin Captures
  BY PortFacts
<1>2. /\ captures' = [captures EXCEPT ![c] = f]
      /\ store' = [store EXCEPT ![c] = store[c]]
      /\ starting' = (IF starting = c THEN None ELSE starting) /\ active' = active
  BY <1>1 DEF Refuse
<1>3. f \in CaptureRecord /\ store[c] \in 0..MaxAudioBytes
  BY <1>1, CaptureConstants DEF CaptureRecord, CaptureConstants, Codes
<1>4. CaptureOK(f, c, starting', active', store[c])
  BY <1>1, <1>2, CaptureConstants
     DEF Refuse, CaptureRecord, CaptureOK, MediaOK, AudioOK, CallerOK, Fresh, CaptureConstants
<1> HIDE DEF f
<1>5. \A d \in Captures \ {c} :
        (starting' = d => starting = d) /\ (active' = d <=> active = d)
  BY <1>1, <1>2 DEF Refuse
<1>6. /\ starting' \in Captures \union {None} /\ active' \in Captures \union {None}
      /\ starting' = None \/ active' = None
  BY <1>1, <1>2 DEF Refuse
<1> QED BY <1>2, <1>3, <1>4, <1>5, <1>6, OneCapture

\* A permission that comes after cancel turns no microphone on.
LEMMA GrantCancelledPreserves ==
  ASSUME IInv, NEW c \in Captures, GrantCancelled(c)
  PROVE  IInv'
<1> DEFINE k == captures[c]
           f == [k EXCEPT !.stage = "over"]
<1>1. /\ k \in CaptureRecord /\ CaptureOK(k, c, starting, active, store[c])
      /\ captures \in [Captures -> CaptureRecord] /\ store \in [Captures -> 0..MaxAudioBytes]
      /\ starting \in Captures \union {None} /\ active \in Captures \union {None}
      /\ starting = None \/ active = None
      /\ None \notin Captures
  BY PortFacts
<1>2. /\ captures' = [captures EXCEPT ![c] = f]
      /\ store' = [store EXCEPT ![c] = store[c]]
      /\ starting' = starting /\ active' = active
  BY <1>1 DEF GrantCancelled
<1>3. f \in CaptureRecord /\ store[c] \in 0..MaxAudioBytes
  BY <1>1, CaptureConstants DEF CaptureRecord, CaptureConstants, Codes
<1>4. CaptureOK(f, c, starting', active', store[c])
  BY <1>1, <1>2, CaptureConstants
     DEF GrantCancelled, CaptureRecord, CaptureOK, MediaOK, AudioOK, CallerOK, Fresh, CaptureConstants
<1> HIDE DEF f
<1>5. \A d \in Captures \ {c} :
        (starting' = d => starting = d) /\ (active' = d <=> active = d)
  BY <1>1, <1>2 DEF GrantCancelled
<1>6. /\ starting' \in Captures \union {None} /\ active' \in Captures \union {None}
      /\ starting' = None \/ active' = None
  BY <1>1, <1>2 DEF GrantCancelled
<1> QED BY <1>2, <1>3, <1>4, <1>5, <1>6, OneCapture

\* The capture that asked becomes the active one, with its timer.
LEMMA GrantPreserves ==
  ASSUME IInv, NEW c \in Captures, Grant(c)
  PROVE  IInv'
<1> DEFINE k == captures[c]
           f == [k EXCEPT !.stage = "recording", !.tracks = TRUE, !.scheduled = TRUE]
<1>1. /\ k \in CaptureRecord /\ CaptureOK(k, c, starting, active, store[c])
      /\ captures \in [Captures -> CaptureRecord] /\ store \in [Captures -> 0..MaxAudioBytes]
      /\ starting \in Captures \union {None} /\ active \in Captures \union {None}
      /\ starting = None \/ active = None
      /\ None \notin Captures
  BY PortFacts
<1>2. /\ captures' = [captures EXCEPT ![c] = f]
      /\ store' = [store EXCEPT ![c] = store[c]]
      /\ starting' = None /\ active' = c
  BY <1>1 DEF Grant
<1>3. f \in CaptureRecord /\ store[c] \in 0..MaxAudioBytes
  BY <1>1, CaptureConstants DEF CaptureRecord, CaptureConstants, Codes
<1>4. CaptureOK(f, c, starting', active', store[c])
  BY <1>1, <1>2, CaptureConstants
     DEF Grant, CaptureRecord, CaptureOK, MediaOK, AudioOK, CallerOK, Fresh, CaptureConstants
<1> HIDE DEF f
<1>5. \A d \in Captures \ {c} :
        (starting' = d => starting = d) /\ (active' = d <=> active = d)
  BY <1>1, <1>2 DEF Grant
<1>6. /\ starting' \in Captures \union {None} /\ active' \in Captures \union {None}
      /\ starting' = None \/ active' = None
  BY <1>1, <1>2 DEF Grant
<1> QED BY <1>2, <1>3, <1>4, <1>5, <1>6, OneCapture

\* A setup that fails leaves nothing behind.
LEMMA GrantFailsPreserves ==
  ASSUME IInv, NEW c \in Captures, GrantFails(c)
  PROVE  IInv'
<1> DEFINE k == captures[c]
           f == [k EXCEPT !.stage = "over", !.settled = TRUE, !.completion = "transport-failed"]
<1>1. /\ k \in CaptureRecord /\ CaptureOK(k, c, starting, active, store[c])
      /\ captures \in [Captures -> CaptureRecord] /\ store \in [Captures -> 0..MaxAudioBytes]
      /\ starting \in Captures \union {None} /\ active \in Captures \union {None}
      /\ starting = None \/ active = None
      /\ None \notin Captures
  BY PortFacts
<1>2. /\ captures' = [captures EXCEPT ![c] = f]
      /\ store' = [store EXCEPT ![c] = store[c]]
      /\ starting' = None /\ active' = active
  BY <1>1 DEF GrantFails
<1>3. f \in CaptureRecord /\ store[c] \in 0..MaxAudioBytes
  BY <1>1, CaptureConstants DEF CaptureRecord, CaptureConstants, Codes
<1>4. CaptureOK(f, c, starting', active', store[c])
  BY <1>1, <1>2, CaptureConstants
     DEF GrantFails, CaptureRecord, CaptureOK, MediaOK, AudioOK, CallerOK, Fresh, CaptureConstants, Codes
<1> HIDE DEF f
<1>5. \A d \in Captures \ {c} :
        (starting' = d => starting = d) /\ (active' = d <=> active = d)
  BY <1>1, <1>2 DEF GrantFails
<1>6. /\ starting' \in Captures \union {None} /\ active' \in Captures \union {None}
      /\ starting' = None \/ active' = None
  BY <1>1, <1>2 DEF GrantFails
<1> QED BY <1>2, <1>3, <1>4, <1>5, <1>6, OneCapture

\* The turn takes its clip over from the port.
LEMMA StopReturnsPreserves ==
  ASSUME IInv, NEW c \in Captures, StopReturns(c)
  PROVE  IInv'
<1> DEFINE k == captures[c]
           f == [k EXCEPT !.caller = IF k.completion = "turn" THEN "turn" ELSE "none"]
<1>1. /\ k \in CaptureRecord /\ CaptureOK(k, c, starting, active, store[c])
      /\ captures \in [Captures -> CaptureRecord] /\ store \in [Captures -> 0..MaxAudioBytes]
      /\ starting \in Captures \union {None} /\ active \in Captures \union {None}
      /\ starting = None \/ active = None
      /\ None \notin Captures
  BY PortFacts
<1>2. /\ captures' = [captures EXCEPT ![c] = f]
      /\ store' = [store EXCEPT ![c] = store[c]]
      /\ starting' = starting /\ active' = (IF active = c THEN None ELSE active)
  BY <1>1 DEF StopReturns
<1>3. f \in CaptureRecord /\ store[c] \in 0..MaxAudioBytes
  BY <1>1, CaptureConstants DEF CaptureRecord, CaptureConstants, Codes
<1>4. CaptureOK(f, c, starting', active', store[c])
  BY <1>1, <1>2, CaptureConstants
     DEF StopReturns, CaptureRecord, CaptureOK, MediaOK, AudioOK, CallerOK, Fresh, CaptureConstants
<1> HIDE DEF f
<1>5. \A d \in Captures \ {c} :
        (starting' = d => starting = d) /\ (active' = d <=> active = d)
  BY <1>1, <1>2 DEF StopReturns
<1>6. /\ starting' \in Captures \union {None} /\ active' \in Captures \union {None}
      /\ starting' = None \/ active' = None
  BY <1>1, <1>2 DEF StopReturns
<1> QED BY <1>2, <1>3, <1>4, <1>5, <1>6, OneCapture

\* The clip is there when it is taken, and is taken once.
LEMMA TranscribePreserves ==
  ASSUME IInv, NEW c \in Captures, Transcribe(c)
  PROVE  IInv'
<1> DEFINE k == captures[c]
           f == [k EXCEPT !.caller =
                     IF store[c] \in 1..MaxAudioBytes THEN "transcribing" ELSE "mismatch"]
<1>1. /\ k \in CaptureRecord /\ CaptureOK(k, c, starting, active, store[c])
      /\ captures \in [Captures -> CaptureRecord] /\ store \in [Captures -> 0..MaxAudioBytes]
      /\ starting \in Captures \union {None} /\ active \in Captures \union {None}
      /\ starting = None \/ active = None
      /\ None \notin Captures
  BY PortFacts
<1>2. /\ captures' = [captures EXCEPT ![c] = f]
      /\ store' = [store EXCEPT ![c] = 0]
      /\ starting' = starting /\ active' = active
  BY <1>1 DEF Transcribe
<1>3. f \in CaptureRecord /\ 0 \in 0..MaxAudioBytes
  BY <1>1, CaptureConstants DEF CaptureRecord, CaptureConstants, Codes
<1>4. CaptureOK(f, c, starting', active', 0)
  BY <1>1, <1>2, CaptureConstants
     DEF Transcribe, CaptureRecord, CaptureOK, MediaOK, AudioOK, CallerOK, Fresh, CaptureConstants
<1> HIDE DEF f
<1>5. \A d \in Captures \ {c} :
        (starting' = d => starting = d) /\ (active' = d <=> active = d)
  BY <1>1, <1>2 DEF Transcribe
<1>6. /\ starting' \in Captures \union {None} /\ active' \in Captures \union {None}
      /\ starting' = None \/ active' = None
  BY <1>1, <1>2 DEF Transcribe
<1> QED BY <1>2, <1>3, <1>4, <1>5, <1>6, OneCapture

\* The caller is done with the turn.
LEMMA TranscribeSettlesPreserves ==
  ASSUME IInv, NEW c \in Captures, TranscribeSettles(c)
  PROVE  IInv'
<1> DEFINE k == captures[c]
           f == [k EXCEPT !.caller = "none"]
<1>1. /\ k \in CaptureRecord /\ CaptureOK(k, c, starting, active, store[c])
      /\ captures \in [Captures -> CaptureRecord] /\ store \in [Captures -> 0..MaxAudioBytes]
      /\ starting \in Captures \union {None} /\ active \in Captures \union {None}
      /\ starting = None \/ active = None
      /\ None \notin Captures
  BY PortFacts
<1>2. /\ captures' = [captures EXCEPT ![c] = f]
      /\ store' = [store EXCEPT ![c] = store[c]]
      /\ starting' = starting /\ active' = active
  BY <1>1 DEF TranscribeSettles
<1>3. f \in CaptureRecord /\ store[c] \in 0..MaxAudioBytes
  BY <1>1, CaptureConstants DEF CaptureRecord, CaptureConstants, Codes
<1>4. CaptureOK(f, c, starting', active', store[c])
  BY <1>1, <1>2, CaptureConstants
     DEF TranscribeSettles, CaptureRecord, CaptureOK, MediaOK, AudioOK, CallerOK, Fresh, CaptureConstants
<1> HIDE DEF f
<1>5. \A d \in Captures \ {c} :
        (starting' = d => starting = d) /\ (active' = d <=> active = d)
  BY <1>1, <1>2 DEF TranscribeSettles
<1>6. /\ starting' \in Captures \union {None} /\ active' \in Captures \union {None}
      /\ starting' = None \/ active' = None
  BY <1>1, <1>2 DEF TranscribeSettles
<1> QED BY <1>2, <1>3, <1>4, <1>5, <1>6, OneCapture

\* A chunk is kept if it fits; one that does not ends the recording, as a
\* failure and not as a shorter turn.
LEMMA ChunkPreserves ==
  ASSUME IInv, NEW c \in Captures, NEW n \in 1..MaxChunk, Chunk(c, n)
  PROVE  IInv'
<1> DEFINE k == captures[c]
           large == [k EXCEPT !.failure = "capture-too-large", !.chunks = 0,
                              !.total = MaxAudioBytes + 1]
           more == [k EXCEPT !.total = k.total + n, !.chunks = k.chunks + n]
<1>1. /\ captures[c] \in CaptureRecord /\ CaptureOK(captures[c], c, starting, active, store[c])
      /\ captures \in [Captures -> CaptureRecord] /\ store \in [Captures -> 0..MaxAudioBytes]
      /\ starting \in Captures \union {None} /\ active \in Captures \union {None}
      /\ starting = None \/ active = None
      /\ None \notin Captures
  BY PortFacts
<1>2. /\ Quiet /\ k.stage \in {"recording", "stopping"} /\ ~k.settled
      /\ UNCHANGED <<starting, active>>
  BY DEF Chunk
<1>3. CASE k.total + n > MaxAudioBytes
  <2>1. StopRecorder(c, large)
    <3>1. StopRecorder(c, [[k EXCEPT !.total = @ + n] EXCEPT
                             !.failure = "capture-too-large", !.chunks = 0,
                             !.total = MaxAudioBytes + 1])
      BY <1>1, <1>3, CaptureConstants DEF Chunk, CaptureRecord, CaptureConstants
    <3>2. [[k EXCEPT !.total = @ + n] EXCEPT
             !.failure = "capture-too-large", !.chunks = 0, !.total = MaxAudioBytes + 1] = large
      BY <1>1 DEF CaptureRecord
    <3> QED BY <3>1, <3>2
  <2>2. large \in CaptureRecord
    <3>1. 0 \in 0..MaxAudioBytes /\ MaxAudioBytes + 1 \in 0..(MaxAudioBytes + 1)
      BY CaptureConstants DEF CaptureConstants
    <3> QED BY <1>1, <3>1 DEF CaptureRecord, Codes
  <2>3. CaptureOK(large, c, starting, active, store[c]) /\ ~large.settled
    BY <1>1, <1>2, CaptureConstants DEF CaptureRecord, CaptureOK, MediaOK, AudioOK, CallerOK,
       CaptureConstants, Codes
  <2> HIDE DEF large
  <2> QED BY <1>2, <2>1, <2>2, <2>3, StopRecorderPreserves
<1>4. CASE ~(k.total + n > MaxAudioBytes)
  <2>1. captures' = [captures EXCEPT ![c] = more] /\ UNCHANGED store
    BY <1>1, <1>4, CaptureConstants DEF Chunk, CaptureRecord, CaptureConstants
  <2>2. /\ k.total + n \in 0..(MaxAudioBytes + 1) /\ k.chunks + n \in 0..MaxAudioBytes
        /\ k.chunks + n <= k.total + n
    BY <1>1, <1>4, CaptureConstants
       DEF CaptureRecord, CaptureOK, AudioOK, CaptureConstants
  <2>3. more \in CaptureRecord
    BY <1>1, <2>2 DEF CaptureRecord
  <2>4. CaptureOK(more, c, starting, active, store[c])
    BY <1>1, <1>2, <2>2, CaptureConstants DEF CaptureRecord, CaptureOK, MediaOK, AudioOK, CallerOK,
       CaptureConstants
  <2> HIDE DEF more
  <2> QED BY <1>2, <2>1, <2>3, <2>4, OneRecord
<1> QED BY <1>3, <1>4

\* A recorder that fails ends the recording, or is told to stop.
LEMMA RecorderErrorPreserves ==
  ASSUME IInv, NEW c \in Captures, RecorderError(c)
  PROVE  IInv'
<1> DEFINE k == captures[c]
           f == [k EXCEPT !.failure = "transport-failed"]
<1>1. /\ captures[c] \in CaptureRecord /\ CaptureOK(captures[c], c, starting, active, store[c])
      /\ captures \in [Captures -> CaptureRecord] /\ store \in [Captures -> 0..MaxAudioBytes]
      /\ starting \in Captures \union {None} /\ active \in Captures \union {None}
      /\ starting = None \/ active = None
      /\ None \notin Captures
  BY PortFacts
<1>2. /\ Quiet /\ k.stage \in {"recording", "stopping"} /\ ~k.settled
      /\ UNCHANGED <<starting, active>>
      /\ \/ captures' = [captures EXCEPT ![c] = Finalized(c, f)] /\ store' = FinalizedStore(c, f)
         \/ StopRecorder(c, f)
  BY DEF RecorderError
<1>3. f \in CaptureRecord
  BY <1>1 DEF CaptureRecord, Codes
<1>4. /\ CaptureOK(f, c, starting, active, store[c]) /\ ~f.settled
      /\ f.stage \in {"recording", "stopping"}
  BY <1>1, <1>2, CaptureConstants DEF CaptureRecord, CaptureOK, MediaOK, AudioOK, CallerOK,
     CaptureConstants, Codes
<1> HIDE DEF f
<1> QED BY <1>2, <1>3, <1>4, FinalizePreserves, StopRecorderPreserves

\* The recorder's stop event ends the recording.
LEMMA RecorderStopsPreserves ==
  ASSUME IInv, NEW c \in Captures, RecorderStops(c)
  PROVE  IInv'
<1>1. /\ captures[c] \in CaptureRecord /\ CaptureOK(captures[c], c, starting, active, store[c])
      /\ captures \in [Captures -> CaptureRecord] /\ store \in [Captures -> 0..MaxAudioBytes]
      /\ starting \in Captures \union {None} /\ active \in Captures \union {None}
      /\ starting = None \/ active = None
      /\ None \notin Captures
  BY PortFacts
<1> QED BY <1>1, FinalizePreserves DEF RecorderStops

\* The timer tells the recorder to stop.
LEMMA TimerFiresPreserves ==
  ASSUME IInv, NEW c \in Captures, TimerFires(c)
  PROVE  IInv'
<1> DEFINE f == [captures[c] EXCEPT !.scheduled = FALSE]
<1>1. /\ captures[c] \in CaptureRecord /\ CaptureOK(captures[c], c, starting, active, store[c])
      /\ captures \in [Captures -> CaptureRecord] /\ store \in [Captures -> 0..MaxAudioBytes]
      /\ starting \in Captures \union {None} /\ active \in Captures \union {None}
      /\ starting = None \/ active = None
      /\ None \notin Captures
  BY PortFacts
<1>2. f \in CaptureRecord /\ f.settled = captures[c].settled
  BY <1>1 DEF CaptureRecord
<1>3. CaptureOK(f, c, starting, active, store[c])
  BY <1>1 DEF CaptureRecord, CaptureOK, MediaOK, AudioOK, CallerOK, Fresh
<1>4. Quiet /\ StopRecorder(c, f) /\ UNCHANGED <<starting, active>>
  BY DEF TimerFires
<1> HIDE DEF f
<1> QED BY <1>2, <1>3, <1>4, StopRecorderPreserves

\* stop tells the recorder to stop and waits for it.
LEMMA StopPreserves ==
  ASSUME IInv, NEW c \in Captures, Stop(c)
  PROVE  IInv'
<1> DEFINE f == [captures[c] EXCEPT !.caller = "stop"]
<1>1. /\ captures[c] \in CaptureRecord /\ CaptureOK(captures[c], c, starting, active, store[c])
      /\ captures \in [Captures -> CaptureRecord] /\ store \in [Captures -> 0..MaxAudioBytes]
      /\ starting \in Captures \union {None} /\ active \in Captures \union {None}
      /\ starting = None \/ active = None
      /\ None \notin Captures
  BY PortFacts
<1>2. f \in CaptureRecord /\ f.settled = captures[c].settled
  BY <1>1 DEF CaptureRecord
<1>3. CaptureOK(f, c, starting, active, store[c])
  BY <1>1 DEF Stop, CaptureRecord, CaptureOK, MediaOK, AudioOK, CallerOK, Fresh
<1>4. Quiet /\ StopRecorder(c, f) /\ UNCHANGED <<starting, active>>
  BY DEF Stop
<1> HIDE DEF f
<1> QED BY <1>2, <1>3, <1>4, StopRecorderPreserves

\* The record of a capture that is given up.
GivenUp(r) ==
  [r EXCEPT !.settled = TRUE, !.scheduled = FALSE, !.tracks = FALSE, !.stage = "over",
            !.completion = "aborted"]

\* It is a record, and what was recorded and asked for is as before.
LEMMA GivenUpFields ==
  ASSUME NEW r \in CaptureRecord
  PROVE  /\ GivenUp(r) \in CaptureRecord
         /\ GivenUp(r).stage = "over" /\ GivenUp(r).settled /\ ~GivenUp(r).tracks
         /\ ~GivenUp(r).scheduled /\ GivenUp(r).completion = "aborted"
         /\ GivenUp(r).chunks = r.chunks /\ GivenUp(r).total = r.total
         /\ GivenUp(r).failure = r.failure /\ GivenUp(r).caller = r.caller
         /\ GivenUp(r).cancelled = r.cancelled
<1>1. "aborted" \in Codes \union {"turn", None}
  BY DEF Codes
<1>2. GivenUp(r) \in CaptureRecord
  BY <1>1 DEF GivenUp, CaptureRecord
<1>3. /\ GivenUp(r).stage = "over" /\ GivenUp(r).settled /\ ~GivenUp(r).tracks
      /\ ~GivenUp(r).scheduled /\ GivenUp(r).completion = "aborted"
      /\ GivenUp(r).chunks = r.chunks /\ GivenUp(r).total = r.total
      /\ GivenUp(r).failure = r.failure /\ GivenUp(r).caller = r.caller
      /\ GivenUp(r).cancelled = r.cancelled
  BY DEF GivenUp, CaptureRecord
<1> QED BY <1>2, <1>3

\* cancel withdraws the request for permission, or gives the microphone and the
\* clip up at once.
LEMMA CancelPreserves ==
  ASSUME IInv, NEW c \in Captures, Cancel(c)
  PROVE  IInv'
<1> DEFINE k == captures[c]
           f == [k EXCEPT !.cancelled = TRUE]
<1>1. /\ captures[c] \in CaptureRecord /\ CaptureOK(captures[c], c, starting, active, store[c])
      /\ captures \in [Captures -> CaptureRecord] /\ store \in [Captures -> 0..MaxAudioBytes]
      /\ starting \in Captures \union {None} /\ active \in Captures \union {None}
      /\ starting = None \/ active = None
      /\ None \notin Captures
  BY PortFacts
<1>2. f \in CaptureRecord
  BY <1>1 DEF CaptureRecord
<1>3. CASE /\ starting = c /\ starting' = None /\ captures' = [captures EXCEPT ![c] = f]
           /\ UNCHANGED <<active, store>>
  <2>1. CaptureOK(f, c, starting', active', store[c])
    BY <1>1, <1>3 DEF CaptureRecord, CaptureOK, MediaOK, AudioOK, CallerOK, Fresh
  <2>2. store[c] \in 0..MaxAudioBytes /\ store' = [store EXCEPT ![c] = store[c]]
    BY <1>1, <1>3
  <2>3. \A d \in Captures \ {c} :
          (starting' = d => starting = d) /\ (active' = d <=> active = d)
    BY <1>1, <1>3
  <2> HIDE DEF f
  <2> QED BY <1>1, <1>2, <1>3, <2>1, <2>2, <2>3, OneCapture
<1>4. CASE /\ starting # c /\ active = c /\ captures' = [captures EXCEPT ![c] = Finalized(c, f)]
           /\ store' = [store EXCEPT ![c] = 0] /\ active' = None /\ UNCHANGED starting
  <2> DEFINE g == Finalized(c, f)
  <2>1. g = IF k.settled THEN f ELSE GivenUp(f)
    BY <1>1 DEF Finalized, Completion, GivenUp, CaptureRecord
  <2>2. g \in CaptureRecord /\ 0 \in 0..MaxAudioBytes
    <3>1. 0 \in 0..MaxAudioBytes
      BY CaptureConstants DEF CaptureConstants
    <3>2. CASE k.settled
      BY <1>2, <2>1, <3>1, <3>2
    <3>3. CASE ~k.settled
      <4> HIDE DEF f, g
      <4> QED BY <1>2, <2>1, <3>1, <3>3, GivenUpFields
    <3> QED BY <3>2, <3>3
  <2>3. k.caller = "stop" => k.completion = None
    BY DEF Cancel, Quiet
  <2>4. CaptureOK(g, c, starting', active', 0)
    <3>1. CASE k.settled
      BY <1>1, <1>4, <2>1, <2>3, <3>1, CaptureConstants
         DEF CaptureRecord, CaptureOK, MediaOK, AudioOK, CallerOK, CaptureConstants
    <3>2. CASE ~k.settled
      <4>1. /\ g.stage = "over" /\ g.settled /\ g.cancelled /\ ~g.tracks /\ ~g.scheduled
            /\ g.completion = "aborted" /\ g.chunks = k.chunks /\ g.total = k.total
            /\ g.failure = k.failure /\ g.caller = k.caller
        <5>1. /\ f.cancelled /\ f.chunks = k.chunks /\ f.total = k.total
              /\ f.failure = k.failure /\ f.caller = k.caller
          BY <1>1 DEF CaptureRecord
        <5> HIDE DEF f, g
        <5>2. /\ g.stage = "over" /\ g.settled /\ ~g.tracks /\ ~g.scheduled
              /\ g.completion = "aborted" /\ g.chunks = f.chunks /\ g.total = f.total
              /\ g.failure = f.failure /\ g.caller = f.caller /\ g.cancelled = f.cancelled
          BY <1>2, <2>1, <3>2, GivenUpFields
        <5> QED BY <5>1, <5>2
      <4>2. starting' # c /\ active' # c /\ None # "aborted"
        BY <1>1, <1>4, CaptureConstants DEF CaptureConstants, Codes
      <4> HIDE DEF g
      <4>3. MediaOK(g, c, starting', active')
        BY <4>1, <4>2 DEF MediaOK
      <4>4. AudioOK(g, c, active', 0) /\ CallerOK(g, c, active')
        BY <1>1, <1>4, <4>1, <4>2 DEF CaptureOK, AudioOK, CallerOK
      <4> QED BY <4>3, <4>4 DEF CaptureOK
    <3> QED BY <3>1, <3>2
  <2>5. \A d \in Captures \ {c} :
          (starting' = d => starting = d) /\ (active' = d <=> active = d)
    BY <1>1, <1>4
  <2> HIDE DEF g
  <2>6. captures' = [captures EXCEPT ![c] = g]
    BY <1>4 DEF g
  <2> QED BY <1>1, <1>4, <2>2, <2>4, <2>5, <2>6, OneCapture
<1> QED BY <1>3, <1>4 DEF Cancel

-----------------------------------------------------------------------------
(* The theorem.                                                            *)

\* A port that has not captured anything satisfies the invariant.
LEMMA InitIInv == Init => IInv
<1> SUFFICES ASSUME Init PROVE IInv
  OBVIOUS
<1>1. NoCapture \in CaptureRecord /\ 0 \in 0..MaxAudioBytes
  BY CaptureConstants DEF NoCapture, CaptureRecord, CaptureConstants
<1>2. TypeOK
  BY <1>1 DEF Init, TypeOK, CaptureRecord
<1>3. ASSUME NEW c \in Captures PROVE CaptureOK(NoCapture, c, None, None, 0)
  <2>1. None # c
    BY CaptureConstants DEF Captures, CaptureConstants
  <2> QED BY <2>1, CaptureConstants DEF NoCapture, CaptureOK, MediaOK, AudioOK, CallerOK, Fresh,
          CaptureConstants, Codes
<1> QED BY <1>2, <1>3 DEF Init, IInv

\* Every step of the port, the recorder, the timer and the caller preserves it.
LEMMA StepIInv == IInv /\ [Next]_vars => IInv'
<1> SUFFICES ASSUME IInv, [Next]_vars PROVE IInv'
  OBVIOUS
<1>1. CASE UNCHANGED vars
  BY <1>1 DEF vars, IInv, TypeOK
<1>2. ASSUME NEW c \in Captures,
             Start(c) \/ Refuse(c) \/ GrantCancelled(c) \/ Grant(c) \/ GrantFails(c)
      PROVE  IInv'
  BY <1>2, StartPreserves, RefusePreserves, GrantCancelledPreserves, GrantPreserves,
     GrantFailsPreserves
<1>3. ASSUME NEW c \in Captures, NEW n \in 1..MaxChunk, Chunk(c, n) PROVE IInv'
  BY <1>3, ChunkPreserves
<1>4. ASSUME NEW c \in Captures, RecorderError(c) \/ RecorderStops(c) \/ TimerFires(c)
      PROVE  IInv'
  BY <1>4, RecorderErrorPreserves, RecorderStopsPreserves, TimerFiresPreserves
<1>5. ASSUME NEW c \in Captures,
             \/ Stop(c) \/ StopReturns(c) \/ Cancel(c) \/ Transcribe(c)
             \/ TranscribeSettles(c)
      PROVE  IInv'
  BY <1>5, StopPreserves, StopReturnsPreserves, CancelPreserves, TranscribePreserves,
     TranscribeSettlesPreserves
<1> QED BY <1>1, <1>2, <1>3, <1>4, <1>5 DEF Next

\* The inductive invariant holds in every state the port reaches.
THEOREM Inductive == Spec => []IInv
BY InitIInv, StepIInv, PTL DEF Spec

\* However the permission, the recorder, the timer, stop and cancel interleave,
\* the microphone is live only for the capture the port can stop, the store holds
\* no clip that nobody will take, and a turn's audio is all of its recording.
THEOREM MicrophoneContained == Spec => []CaptureContained
<1> SUFFICES ASSUME IInv PROVE CaptureContained
  BY Inductive, PTL
<1>1. TypeOK /\ \A c \in Captures : CaptureOK(captures[c], c, starting, active, store[c])
  BY DEF IInv
<1>2. MicrophoneOwned
  BY <1>1 DEF MicrophoneOwned, CaptureOK, MediaOK
<1>3. AudioIsOneShot
  BY <1>1 DEF AudioIsOneShot, Clips, CaptureOK, AudioOK
<1>4. TurnHasItsAudio
  BY <1>1 DEF TurnHasItsAudio, CaptureOK, AudioOK, CallerOK
<1> QED BY <1>1, <1>2, <1>3, <1>4 DEF CaptureContained

=============================================================================
