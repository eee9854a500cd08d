----------------------- MODULE SemanticTurnCoordinator -----------------------
(***************************************************************************)
(* SemanticTurnCoordinator (packages/session): player turns, the opening   *)
(* gate and the role introduction, over an engine port whose executes may  *)
(* be lost, a guide and a narrator that may fail, and callers that may     *)
(* abort.  log is the canonical event sequence, without the narration      *)
(* lookahead and the audio events, which change nothing else.              *)
(* The engine is what WorkerProtocol and DorkWorkerEngine show it to be: a *)
(* story, the request the adapter holds uncertain, and the request the     *)
(* worker has been posted and not yet dealt with.                          *)
(***************************************************************************)
EXTENDS Naturals, Sequences, FiniteSets

CONSTANTS
  Interactions,   \* identities of player turns
  Opening,        \* the interaction of the opening gate
  Introduction,   \* the interaction of the role introduction
  MaxTurns,       \* #maxTurns
  MaxRequests,    \* bound: request identities; a turn needs one
  MaxPreludes,    \* bound: preparations of the opening and the introduction
  None            \* undefined

Revisions == 0..MaxRequests

Request == [requestId : 1..MaxRequests, expectedRevision : Revisions]

ASSUME CoordinatorConstants ==
  /\ Opening \notin Interactions
  /\ Introduction \notin Interactions
  /\ Opening # Introduction
  /\ MaxTurns \in Nat \ {0}
  /\ MaxRequests \in Nat /\ MaxRequests >= MaxTurns
  /\ MaxPreludes \in Nat
  /\ None \notin Interactions \cup {Opening, Introduction} \cup Request \cup Nat

Outcomes == {"committed", "clarified", "explained", "rejected", "cancelled", "failed", "uncertain"}

VARIABLES
  \* --- SemanticTurnCoordinator
  turns,          \* #turns: what is stored of each interaction
  activeId,       \* #activeInteractionId
  opening,        \* #opening, with the event its output was published in
  introduction,   \* #roleIntroduction
  intent,         \* #pendingOpeningObjectIntent: the clarification it is from
  frame,          \* the locals of the operation in progress
  nextRequest,    \* what #nextRequestId has used up
  preludes,       \* how many openings and introductions were prepared
  log,            \* #events
  \* --- the engine port (external)
  story,          \* the requests applied to the story
  held,           \* the request the adapter holds uncertain
  posted,         \* the request the worker has yet to deal with
  engineBusy,     \* an abandoned inspection still occupies the engine
  engineDead      \* the worker is gone

coordinatorVars == <<turns, activeId, opening, introduction, intent, frame,
                     nextRequest, preludes, log>>
engineVars == <<story, held, posted, engineBusy, engineDead>>
vars == <<turns, activeId, opening, introduction, intent, frame, nextRequest, preludes, log,
          story, held, posted, engineBusy, engineDead>>

Absent == [kind |-> "absent", outcome |-> "none", request |-> None, requested |-> 0]

NoOpening == [kind |-> "absent", source |-> 0, outcome |-> "none"]

\* The locals of an operation, before it has a request or an outcome.
Frame(op, id, stage, cause) ==
  [op |-> op, id |-> id, stage |-> stage, cause |-> cause,
   request |-> None, requested |-> 0, revision |-> 0,
   outcome |-> "none", intent |-> None, aborted |-> FALSE]

NoFrame == Frame("none", None, "none", 0)

Init ==
  /\ turns = [i \in Interactions |-> Absent]
  /\ activeId = None
  /\ opening = NoOpening
  /\ introduction = "absent"
  /\ intent = None
  /\ frame = NoFrame
  /\ nextRequest = 1
  /\ preludes = 0
  /\ log = <<>>
  /\ story = <<>>
  /\ held = None
  /\ posted = None
  /\ engineBusy = FALSE
  /\ engineDead = FALSE

-----------------------------------------------------------------------------
(* Events.  A list of types is emitted as a chain: the first is caused by  *)
(* cause, each other one by the one before it.                             *)

Chain(id, cause, types, request, revision) ==
  [k \in 1..Len(types) |->
     [type |-> types[k], id |-> id,
      cause |-> IF k = 1 THEN cause ELSE Len(log) + k - 1,
      request |-> request, revision |-> revision]]

Emit(id, cause, types, request, revision) ==
  log' = log \o Chain(id, cause, types, request, revision)

\* Where the k-th of the events being emitted will be.
Place(k) == Len(log) + k

\* Emission on behalf of the operation in progress.
Says(types) == Emit(frame.id, frame.cause, types, frame.request, frame.revision)

-----------------------------------------------------------------------------
(* The engine port.                                                        *)

Runnable(r) ==
  /\ r.expectedRevision = Len(story)
  /\ \A i \in 1..Len(story) : story[i].requestId # r.requestId

RunTurn ==
  /\ ~engineDead
  /\ posted # None
  /\ Runnable(posted)
  /\ story' = Append(story, posted)
  /\ posted' = None
  /\ UNCHANGED <<held, engineBusy, engineDead>>
  /\ UNCHANGED coordinatorVars

RefuseTurn ==
  /\ ~engineDead
  /\ posted # None
  /\ posted' = None
  /\ UNCHANGED <<story, held, engineBusy, engineDead>>
  /\ UNCHANGED coordinatorVars

EngineDies ==
  /\ ~engineDead
  /\ engineDead' = TRUE
  /\ posted' = None
  /\ UNCHANGED <<story, held, engineBusy>>
  /\ UNCHANGED coordinatorVars

\* The inspection a cancelled opening gave up on is over.
EngineFree ==
  /\ engineBusy
  /\ engineBusy' = FALSE
  /\ UNCHANGED <<story, held, posted, engineDead>>
  /\ UNCHANGED coordinatorVars

\* engine.execute up to its first await.
Admits(r) == ~engineBusy /\ held \in {None, r}

Submits(r) ==
  /\ posted' = IF Admits(r) /\ ~engineDead THEN r ELSE posted
  /\ UNCHANGED <<story, held, engineBusy, engineDead>>

-----------------------------------------------------------------------------
(* A new turn.                                                             *)

Stored == {i \in Interactions : turns[i].kind # "absent"}

OpeningPending == opening.kind \in {"pending", "settled"}

Idle == activeId = None /\ ~OpeningPending

\* Mutant: the size of the store is not checked.
SubmitTurnUnbounded(i) ==
  /\ turns[i].kind = "absent"
  /\ Idle
  /\ activeId' = i
  /\ turns' = [turns EXCEPT ![i].kind = "pending"]
  /\ Emit(i, 0, <<"transcript.final">>, None, 0)
  /\ frame' = Frame("turn", i, "guide", Place(1))
  /\ UNCHANGED <<opening, introduction, intent, nextRequest, preludes>>
  /\ UNCHANGED engineVars

SubmitTurn(i) ==
  /\ turns[i].kind = "absent"
  /\ Cardinality(Stored) < MaxTurns
  /\ Idle
  /\ activeId' = i
  /\ turns' = [turns EXCEPT ![i].kind = "pending"]
  /\ Emit(i, 0, <<"transcript.final">>, None, 0)
  /\ frame' = Frame("turn", i, "guide", Place(1))
  /\ UNCHANGED <<opening, introduction, intent, nextRequest, preludes>>
  /\ UNCHANGED engineVars

\* The caller's signal.
Abort ==
  /\ frame # NoFrame
  /\ ~frame.aborted
  /\ frame' = [frame EXCEPT !.aborted = TRUE]
  /\ UNCHANGED <<turns, activeId, opening, introduction, intent, nextRequest, preludes, log>>
  /\ UNCHANGED engineVars

At(op, stage) == frame.op = op /\ frame.stage = stage

\* #runNew returns: the promise is settled and the interaction no longer
\* active, but submitTurn has yet to store the result.
Settle(outcome) ==
  /\ activeId' = None
  /\ turns' = [turns EXCEPT ![frame.id] =
                 [kind |-> "settled", outcome |-> outcome,
                  request |-> frame.request, requested |-> frame.requested]]
  /\ frame' = NoFrame
  /\ UNCHANGED <<opening, introduction, nextRequest, preludes>>

Store(i) ==
  /\ turns[i].kind = "settled"
  /\ turns' = [turns EXCEPT ![i].kind =
                 IF turns[i].outcome = "uncertain" THEN "uncertain" ELSE "complete"]
  /\ UNCHANGED <<activeId, opening, introduction, intent, frame, nextRequest, preludes, log>>
  /\ UNCHANGED engineVars

GuideFails ==
  /\ At("turn", "guide")
  /\ Says(<<"system.error">>)
  /\ Settle(IF frame.aborted THEN "cancelled" ELSE "failed")
  /\ UNCHANGED intent
  /\ UNCHANGED engineVars

\* The operation waits for the narrator, and then has this outcome.
Narrate(types, outcome, nextIntent) ==
  /\ Says(Append(types, "narration.requested"))
  /\ frame' = [frame EXCEPT !.stage = "narrate", !.outcome = outcome,
                            !.cause = Place(Len(types) + 1), !.intent = nextIntent]
  /\ UNCHANGED <<turns, activeId, opening, introduction, nextRequest, preludes>>

\* A rejected decision, or the provider's failure to make one.
GuideRejects(outcome) ==
  /\ At("turn", "guide")
  /\ Narrate(<<"guide.decision.proposed", "guide.decision.rejected",
               "guide.cannot_comply">>, outcome, intent)
  /\ UNCHANGED intent
  /\ UNCHANGED engineVars

\* A clarification leaves an intent pending, or none.
GuideClarifies(remembers) ==
  /\ At("turn", "guide")
  /\ Narrate(<<"guide.decision.proposed", "guide.decision.accepted", "guide.clarification">>,
             "clarified", IF remembers THEN Place(3) ELSE None)
  /\ UNCHANGED intent
  /\ UNCHANGED engineVars

GuideExplains ==
  /\ At("turn", "guide")
  /\ Narrate(<<"guide.decision.proposed", "guide.decision.accepted", "guide.explanation">>,
             "explained", None)
  /\ intent' = None
  /\ UNCHANGED engineVars

\* The decision names a command.
GuideExecutes ==
  /\ At("turn", "guide")
  /\ IF frame.aborted
     THEN /\ Says(<<"guide.decision.proposed", "guide.decision.accepted", "system.error">>)
          /\ Settle("cancelled")
     ELSE /\ Says(<<"guide.decision.proposed", "guide.decision.accepted">>)
          /\ frame' = [frame EXCEPT !.stage = "inspect", !.cause = Place(2)]
          /\ UNCHANGED <<turns, activeId, opening, introduction, nextRequest, preludes>>
  /\ UNCHANGED intent
  /\ UNCHANGED engineVars

InspectFails ==
  /\ At("turn", "inspect")
  /\ Says(<<"system.error">>)
  /\ Settle("failed")
  /\ UNCHANGED intent
  /\ UNCHANGED engineVars

\* A worker busy with an abandoned execute refuses to be inspected.
Inspectable == ~engineBusy /\ ~engineDead /\ posted = None

CancelAfterInspect ==
  /\ At("turn", "inspect")
  /\ Inspectable
  /\ frame.aborted
  /\ Says(<<"system.error">>)
  /\ Settle("cancelled")
  /\ UNCHANGED intent
  /\ UNCHANGED engineVars

RequestCommand ==
  LET r == [requestId |-> nextRequest, expectedRevision |-> Len(story)] IN
  /\ At("turn", "inspect")
  /\ Inspectable
  /\ ~frame.aborted
  /\ nextRequest' = nextRequest + 1
  /\ Emit(frame.id, frame.cause, <<"engine.command.requested">>, r, r.expectedRevision)
  /\ frame' = [frame EXCEPT !.stage = "execute", !.cause = Place(1),
                            !.request = r, !.requested = Place(1)]
  /\ Submits(r)
  /\ UNCHANGED <<turns, activeId, opening, introduction, intent, preludes>>

-----------------------------------------------------------------------------
(* engine.execute ends.                                                    *)

\* Mutant: an engine error is always the player's cancellation.
ExecuteLostAsCancelled ==
  /\ At("turn", "execute")
  /\ held' = IF Admits(frame.request) THEN frame.request ELSE held
  /\ Says(<<"system.error">>)
  /\ Settle("cancelled")
  /\ UNCHANGED intent
  /\ UNCHANGED <<story, posted, engineBusy, engineDead>>

\* The call was refused, aborted or answered with an error: whether the
\* command ran is unknown.
ExecuteLost ==
  /\ At("turn", "execute")
  /\ held' = IF Admits(frame.request) THEN frame.request ELSE held
  /\ Says(<<"system.error">>)
  /\ Settle("uncertain")
  /\ UNCHANGED intent
  /\ UNCHANGED <<story, posted, engineBusy, engineDead>>

\* The engine has answered for the request in the frame.
Answered ==
  /\ frame.stage = "execute"
  /\ Admits(frame.request)
  /\ ~engineDead
  /\ posted = None

Applied(r) == {i \in 1..Len(story) : story[i] = r}

\* The events #recover emits before #finishEngineResult's.
Recovered == IF frame.op = "recover" THEN <<"system.recovered">> ELSE <<>>

\* #finishEngineResult, and what its caller does with a rejection.
EngineRejected ==
  /\ Answered
  /\ Applied(frame.request) = {}
  /\ held' = None
  /\ intent' = None
  /\ Says(Recovered \o <<"engine.command.rejected">>)
  /\ IF frame.op = "turn"
     THEN Settle("failed")
     ELSE /\ activeId' = None
          /\ turns' = [turns EXCEPT ![frame.id].kind = "complete",
                                    ![frame.id].outcome = "failed"]
          /\ frame' = NoFrame
          /\ UNCHANGED <<opening, introduction, nextRequest, preludes>>
  /\ UNCHANGED <<story, posted, engineBusy, engineDead>>

\* Mutant: the committed turn leaves the pending intent alone.
EngineCommittedKeepsIntent ==
  LET n == Len(Recovered) + 2
      revision == CHOOSE i \in Applied(frame.request) : TRUE
  IN
  /\ Answered
  /\ Applied(frame.request) # {}
  /\ held' = None
  /\ Emit(frame.id, frame.cause,
          Recovered \o <<"engine.command.committed", "engine.output">>,
          frame.request, revision)
  /\ frame' = [frame EXCEPT !.stage = "snapshot", !.cause = Place(n), !.revision = revision]
  /\ UNCHANGED <<turns, activeId, opening, introduction, intent, nextRequest, preludes>>
  /\ UNCHANGED <<story, posted, engineBusy, engineDead>>

\* Mutant: the commit is told with the revision before it.
EngineCommittedPrevious ==
  LET n == Len(Recovered) + 2
      revision == frame.request.expectedRevision
  IN
  /\ Answered
  /\ Applied(frame.request) # {}
  /\ held' = None
  /\ intent' = None
  /\ Emit(frame.id, frame.cause,
          Recovered \o <<"engine.command.committed", "engine.output">>,
          frame.request, revision)
  /\ frame' = [frame EXCEPT !.stage = "snapshot", !.cause = Place(n), !.revision = revision]
  /\ UNCHANGED <<turns, activeId, opening, introduction, nextRequest, preludes>>
  /\ UNCHANGED <<story, posted, engineBusy, engineDead>>

EngineCommitted ==
  LET n == Len(Recovered) + 2
      revision == CHOOSE i \in Applied(frame.request) : TRUE
  IN
  /\ Answered
  /\ Applied(frame.request) # {}
  /\ held' = None
  /\ intent' = None
  /\ Emit(frame.id, frame.cause,
          Recovered \o <<"engine.command.committed", "engine.output">>,
          frame.request, revision)
  /\ frame' = [frame EXCEPT !.stage = "snapshot", !.cause = Place(n), !.revision = revision]
  /\ UNCHANGED <<turns, activeId, opening, introduction, nextRequest, preludes>>
  /\ UNCHANGED <<story, posted, engineBusy, engineDead>>

\* The operation in progress is over with a committed turn.
Conclude ==
  /\ IF frame.op = "turn"
     THEN Settle("committed")
     ELSE /\ activeId' = None
          /\ turns' = [turns EXCEPT ![frame.id].kind = "complete",
                                    ![frame.id].outcome = "committed"]
          /\ frame' = NoFrame
          /\ UNCHANGED <<opening, introduction, nextRequest, preludes>>

\* The checkpoint is taken, or it is not and the failure is reported.  Then
\* the output is narrated, unless the player has cancelled or it is blank.
Checkpoint ==
  /\ frame.op \in {"turn", "recover"}
  /\ frame.stage = "snapshot"
  /\ \E saved, blank \in BOOLEAN :
       /\ saved => Inspectable /\ held = None
       /\ LET told == log \o Chain(frame.id, frame.cause,
                             IF saved THEN <<"save.checkpointed">>
                                      ELSE <<"save.failed", "system.error">>,
                             frame.request, IF saved THEN Len(story) ELSE frame.revision)
              Then(type) == Append(told, [type |-> type, id |-> frame.id, cause |-> frame.cause,
                                          request |-> frame.request, revision |-> frame.revision])
          IN
            \/ /\ frame.aborted
               /\ log' = Then("narration.cancelled")
               /\ Conclude
            \/ /\ ~frame.aborted /\ blank
               /\ log' = told
               /\ Conclude
            \/ /\ ~frame.aborted /\ ~blank
               /\ log' = Then("narration.requested")
               /\ frame' = [frame EXCEPT !.stage = "narrate", !.outcome = "committed",
                                         !.cause = Len(told) + 1]
               /\ UNCHANGED <<turns, activeId, opening, introduction, nextRequest, preludes>>
  /\ UNCHANGED intent
  /\ UNCHANGED engineVars

\* What becomes of a requested narration.  An answer may win the race
\* against the player's signal.
NarrationEvents(outcome) ==
  CASE outcome = "ready" -> <<"narration.ready">>
    [] outcome = "cancelled" -> <<"narration.cancelled">>
    [] outcome = "failed" -> <<"narration.failed", "system.error">>

Narration(outcome) ==
  /\ outcome = "cancelled" => frame.aborted
  /\ outcome = "failed" => ~frame.aborted
  /\ Says(NarrationEvents(outcome))

NarrationOutcomes == {"ready", "cancelled", "failed"}

Narrated ==
  /\ frame.op \in {"turn", "recover"}
  /\ frame.stage = "narrate"
  /\ \E outcome \in NarrationOutcomes : Narration(outcome)
  /\ IF frame.outcome = "committed"
     THEN Conclude /\ UNCHANGED intent
     ELSE /\ Settle(frame.outcome)
          /\ intent' = IF frame.outcome = "clarified" THEN frame.intent ELSE intent
  /\ UNCHANGED engineVars

-----------------------------------------------------------------------------
(* Recovery of an uncertain turn.                                          *)

\* Mutant: a recovery makes a request of its own.
RecoverAfresh(i) ==
  LET r == [requestId |-> nextRequest, expectedRevision |-> Len(story)] IN
  /\ turns[i].kind = "uncertain"
  /\ Idle
  /\ nextRequest <= MaxRequests
  /\ nextRequest' = nextRequest + 1
  /\ activeId' = i
  /\ frame' = [Frame("recover", i, "execute", turns[i].requested) EXCEPT !.request = r]
  /\ posted' = IF engineDead \/ engineBusy THEN posted ELSE r
  /\ held' = None
  /\ UNCHANGED <<turns, opening, introduction, intent, preludes, log>>
  /\ UNCHANGED <<story, engineBusy, engineDead>>

\* The exact request is submitted again.
Recover(i) ==
  /\ turns[i].kind = "uncertain"
  /\ Idle
  /\ activeId' = i
  /\ frame' = [Frame("recover", i, "execute", turns[i].requested)
                EXCEPT !.request = turns[i].request]
  /\ Submits(turns[i].request)
  /\ UNCHANGED <<turns, opening, introduction, intent, nextRequest, preludes, log>>

\* The turn stays uncertain, with the result it had.
RecoveryLost ==
  /\ At("recover", "execute")
  /\ held' = IF Admits(frame.request) THEN frame.request ELSE held
  /\ activeId' = None
  /\ frame' = NoFrame
  /\ UNCHANGED <<turns, opening, introduction, intent, nextRequest, preludes, log>>
  /\ UNCHANGED <<story, posted, engineBusy, engineDead>>

\* recordTranscriptionFailure and recordAudioFailure, at any time.
RecordFailure(i) ==
  /\ turns[i].kind = "absent"
  /\ Cardinality(Stored) < MaxTurns
  /\ Emit(i, 0, <<"system.error">>, None, 0)
  /\ turns' = [turns EXCEPT ![i] = [kind |-> "complete", outcome |-> "failed",
                                    request |-> None, requested |-> 0]]
  /\ UNCHANGED <<activeId, opening, introduction, intent, frame, nextRequest, preludes>>
  /\ UNCHANGED engineVars

-----------------------------------------------------------------------------
(* The opening gate and the role introduction.                             *)

\* Mutant: a retried opening forgets that its output was published.
PrepareOpeningAgain ==
  /\ opening.kind \in {"absent", "retryable"}
  /\ activeId = None
  /\ preludes < MaxPreludes
  /\ preludes' = preludes + 1
  /\ activeId' = Opening
  /\ opening' = [kind |-> "pending", source |-> 0, outcome |-> "none"]
  /\ frame' = Frame("opening", Opening, "inspect", 0)
  /\ UNCHANGED <<turns, introduction, intent, nextRequest, log>>
  /\ UNCHANGED engineVars

\* Only the first attempt inspects the engine and publishes the boot output.
PrepareOpening ==
  /\ opening.kind \in {"absent", "retryable"}
  /\ activeId = None
  /\ preludes < MaxPreludes
  /\ preludes' = preludes + 1
  /\ activeId' = Opening
  /\ opening' = [opening EXCEPT !.kind = "pending"]
  /\ IF opening.source = 0
     THEN /\ frame' = Frame("opening", Opening, "inspect", 0)
          /\ UNCHANGED log
     ELSE /\ Emit(Opening, opening.source, <<"narration.requested">>, None, 0)
          /\ frame' = Frame("opening", Opening, "narrate", Place(1))
  /\ UNCHANGED <<turns, introduction, intent, nextRequest>>
  /\ UNCHANGED engineVars

\* #runOpening is over; prepareOpening has yet to store what became of it.
SettleOpening(outcome) ==
  /\ activeId' = None
  /\ opening' = [opening EXCEPT !.kind = "settled", !.outcome = outcome]
  /\ frame' = NoFrame

\* The engine cannot be inspected, has moved on, or the player cancelled
\* while it was being inspected; the inspection may still be under way.
OpeningFails ==
  /\ At("opening", "inspect")
  /\ SettleOpening("thrown")
  /\ engineBusy' \in IF frame.aborted THEN {engineBusy, TRUE} ELSE {engineBusy}
  /\ UNCHANGED <<turns, introduction, intent, nextRequest, preludes, log>>
  /\ UNCHANGED <<story, held, posted, engineDead>>

\* The engine is still at its boot prompt.
OpeningPublished ==
  /\ At("opening", "inspect")
  /\ Inspectable
  /\ ~frame.aborted
  /\ story = <<>>
  /\ Emit(Opening, 0, <<"engine.output", "narration.requested">>, None, 0)
  /\ opening' = [opening EXCEPT !.source = Place(1)]
  /\ frame' = [frame EXCEPT !.stage = "narrate", !.cause = Place(2)]
  /\ UNCHANGED <<turns, activeId, introduction, intent, nextRequest, preludes>>
  /\ UNCHANGED engineVars

OpeningNarrated ==
  /\ At("opening", "narrate")
  /\ \E outcome \in NarrationOutcomes : Narration(outcome) /\ SettleOpening(outcome)
  /\ UNCHANGED <<turns, introduction, intent, nextRequest, preludes>>
  /\ UNCHANGED engineVars

\* Mutant: an opening that threw stays pending.
StoreOpeningOnSuccess ==
  /\ opening.kind = "settled"
  /\ opening.outcome # "thrown"
  /\ opening' = IF opening.outcome = "ready" THEN [opening EXCEPT !.kind = "complete"]
                ELSE IF opening.source # 0 THEN [opening EXCEPT !.kind = "retryable"]
                ELSE NoOpening
  /\ UNCHANGED <<turns, activeId, introduction, intent, frame, nextRequest, preludes, log>>
  /\ UNCHANGED engineVars

StoreOpening ==
  /\ opening.kind = "settled"
  /\ opening' = IF opening.outcome = "ready" THEN [opening EXCEPT !.kind = "complete"]
                ELSE IF opening.source # 0 THEN [opening EXCEPT !.kind = "retryable"]
                ELSE NoOpening
  /\ UNCHANGED <<turns, activeId, introduction, intent, frame, nextRequest, preludes, log>>
  /\ UNCHANGED engineVars

PrepareRoleIntroduction ==
  /\ introduction = "absent"
  /\ activeId = None
  /\ preludes < MaxPreludes
  /\ preludes' = preludes + 1
  /\ introduction' = "pending"
  /\ activeId' = Introduction
  /\ Emit(Introduction, 0, <<"experience.role-introduction", "narration.requested">>, None, 0)
  /\ frame' = Frame("introduction", Introduction, "narrate", Place(2))
  /\ UNCHANGED <<turns, opening, intent, nextRequest>>
  /\ UNCHANGED engineVars

\* The introduction is over, heard or not; it is not repeated.
IntroductionNarrated ==
  /\ At("introduction", "narrate")
  /\ \E outcome \in NarrationOutcomes : Narration(outcome)
  /\ introduction' = "complete"
  /\ activeId' = None
  /\ frame' = NoFrame
  /\ UNCHANGED <<turns, opening, intent, nextRequest, preludes>>
  /\ UNCHANGED engineVars

-----------------------------------------------------------------------------

\* What the code, its providers and the engine do by themselves.
Progress ==
  \/ \E i \in Interactions : Store(i)
  \/ GuideFails
  \/ \E outcome \in {"rejected", "failed"} : GuideRejects(outcome)
  \/ \E remembers \in BOOLEAN : GuideClarifies(remembers)
  \/ GuideExplains \/ GuideExecutes
  \/ InspectFails \/ CancelAfterInspect \/ RequestCommand
  \/ ExecuteLost \/ EngineRejected \/ EngineCommitted
  \/ Checkpoint \/ Narrated \/ RecoveryLost
  \/ OpeningFails \/ OpeningPublished \/ OpeningNarrated \/ StoreOpening
  \/ IntroductionNarrated

Next ==
  \/ Progress
  \/ \E i \in Interactions : SubmitTurn(i) \/ Recover(i) \/ RecordFailure(i)
  \/ Abort
  \/ PrepareOpening
  \/ PrepareRoleIntroduction
  \/ RunTurn \/ RefuseTurn \/ EngineDies \/ EngineFree

Spec == Init /\ [][Next]_vars

\* The guide, the narrator and the engine answer or fail, and the promise
\* queue is served, whatever else a player keeps the coordinator busy with.
\* Players owe nothing.
FairSpec ==
  /\ Spec /\ WF_vars(Progress) /\ WF_vars(StoreOpening)
  /\ \A i \in Interactions : WF_vars(Store(i))

-----------------------------------------------------------------------------
(* Properties.                                                             *)

Events(type) == {k \in 1..Len(log) : log[k].type = type}

\* The variables hold values of the shape the code gives them, and no more
\* interactions are stored than #maxTurns.
TypeOK ==
  /\ \A i \in Interactions :
       /\ turns[i].kind \in {"absent", "pending", "settled", "complete", "uncertain"}
       /\ turns[i].outcome \in Outcomes \cup {"none"}
       /\ turns[i].request \in Request \cup {None}
  /\ Cardinality(Stored) <= MaxTurns
  /\ activeId \in Interactions \cup {Opening, Introduction, None}
  /\ intent \in 1..Len(log) \cup {None}
  /\ nextRequest \in 1..(MaxRequests + 1)
  /\ \A k \in 1..Len(log) : log[k].cause < k
  /\ story \in Seq(Request)

\* The log tells of a turn of the story at most once, and truly: the
\* revision it gives is the turn's place in the story.  Retries, recoveries
\* and aborts never commit a command in the log twice ("a request ID maps
\* to at most one committed revision", docs/architecture.md).
CommittedOnce ==
  /\ \A k \in Events("engine.command.committed") :
       log[k].revision \in 1..Len(story) /\ story[log[k].revision] = log[k].request
  /\ \A j, k \in Events("engine.command.committed") :
       log[j].request = log[k].request => j = k

\* No turn of the story is lost: it is in the log, or the interaction that
\* asked for it is still in progress or uncertain and can recover it.
NoLostTurn ==
  \A n \in 1..Len(story) :
    \/ \E k \in Events("engine.command.committed") : log[k].request = story[n]
    \/ frame # NoFrame /\ frame.request = story[n]
    \/ \E i \in Interactions :
         turns[i].request = story[n] /\ turns[i].outcome = "uncertain"

\* The outcome stored for an interaction is true for good: its command is
\* in the story if and only if it says committed, and one that says
\* otherwise can no longer run.
OutcomeIsTrue ==
  \A i \in Interactions :
    (turns[i].kind \in {"settled", "complete"} /\ turns[i].outcome # "uncertain"
       /\ turns[i].request # None)
      => /\ (turns[i].outcome = "committed") <=> Applied(turns[i].request) # {}
         /\ posted # turns[i].request

\* Every engine output in the log is the boot's or follows the one commit it
\* belongs to, and none is published twice.
OutputHasSource ==
  /\ \A k \in Events("engine.output") :
       \/ log[k].id = Opening /\ log[k].cause = 0
       \/ /\ log[log[k].cause].type = "engine.command.committed"
          /\ log[log[k].cause].request = log[k].request
  /\ \A j, k \in Events("engine.output") :
       (log[j].id = log[k].id /\ log[j].cause = log[k].cause) => j = k

\* A checkpoint reported for a turn is of the revision the turn committed.
CheckpointIsOfTurn ==
  \A k \in Events("save.checkpointed") :
    log[k].revision = log[log[k].cause].revision

\* A clarified intent does not outlive the scene it was asked in: no turn
\* has been committed in the log since its clarification.
IntentIsFresh ==
  intent # None =>
    \A k \in Events("engine.command.committed") : k < intent

\* The coordinator's memory is well formed and agrees with its log: each commit
\* is there once, with its own checkpoint, and no intent is older than the last.
TurnsRecorded == TypeOK /\ CommittedOnce /\ CheckpointIsOfTurn /\ IntentIsFresh

\* Every operation a caller starts comes to an end.
OperationSettles ==
  /\ \A i \in Interactions :
       (turns[i].kind = "pending") ~> (turns[i].kind \notin {"pending", "settled"})
  /\ OpeningPending ~> ~OpeningPending
  /\ (activeId # None) ~> (activeId = None)

=============================================================================
