------------------------ MODULE DorkWorkerEngineProofs ------------------------
(***************************************************************************)
(* Proofs about DorkWorkerEngine, for every set of leases and requests and *)
(* every length of story: its invariants, what a swap may do, and that it  *)
(* implements EngineJournal.                                               *)
(***************************************************************************)
EXTENDS DorkWorkerEngine, TLAPS

-----------------------------------------------------------------------------
(* The inductive invariant.                                                *)

Phases == {"unused", "initializing", "virgin", "live", "gone"}

Worker == [phase : Phases, story : Seq(Request), posted : Request \cup {None},
           uncertain : Request \cup {None}]

BootCall == [kind : {"boot"}, stage : {"create", "boot"}, candidate : Leases]
ExecuteCall == [kind : {"execute"}, lease : Leases, request : Request]
ReadCall == [kind : {"snapshot", "inspect"}, lease : Leases]
RestoreCall ==
  [kind : {"restore"}, stage : {"digest", "create", "boot", "restore", "inspect"},
   lease : Leases, candidate : Leases \cup {None}, story : Seq(Request),
   quality : {"sound", "corrupt_outer", "corrupt_inner"}, aborted : BOOLEAN]

OperationType ==
  operation \in {NoOperation} \cup BootCall \cup ExecuteCall \cup ReadCall \cup RestoreCall

Types ==
  /\ active \in Leases \cup {None} /\ lastActive \in Leases \cup {None}
  /\ cached \in 0..MaxRevision
  /\ uncertain \in Request \cup {None}
  /\ disposed \in BOOLEAN
  /\ workers \in [Leases -> Worker]
  /\ saves \subseteq Seq(Request)
  /\ OperationType

\* A story holds, at each revision, the request that expected it.
Numbered(story) ==
  /\ Len(story) <= MaxRevision
  /\ \A i \in 1..Len(story) : story[i].expectedRevision = i - 1

\* Stories and snapshots are numbered; only a live worker has something posted,
\* and one that has not booted has neither story nor uncertainty.
LeaseInv ==
  /\ \A s \in saves : Numbered(s)
  /\ \A l \in Leases :
       /\ Numbered(workers[l].story)
       /\ workers[l].phase # "live" => workers[l].posted = None
       /\ workers[l].phase \in {"unused", "initializing", "virgin"} =>
            workers[l].story = <<>> /\ workers[l].uncertain = None

HasCandidate == Staging /\ operation.stage # "digest"

\* Every running worker is the active one or the candidate of the call in
\* progress, and these are never the same.
OwnerInv ==
  /\ active # None => active = lastActive /\ ~disposed
  /\ ~disposed /\ active = None => lastActive = None
  /\ lastActive = None => uncertain = None
  /\ lastActive # None => workers[lastActive].phase \in {"live", "gone"}
  /\ \A l \in Leases : Alive(l) => l = active \/ (HasCandidate /\ l = operation.candidate)

\* What a call relies on when it resumes after one of its awaits.
CallInv ==
  /\ operation.kind = "boot" => lastActive = None
  /\ operation.kind \in {"execute", "snapshot", "inspect", "restore"} =>
       operation.lease = lastActive
  /\ operation.kind = "restore" =>
       /\ operation.story \in saves
       /\ operation.stage = "digest" => operation.candidate = None
       /\ active # None => uncertain = None
  /\ HasCandidate =>
       /\ operation.candidate \in Leases
       /\ operation.candidate # lastActive
       /\ workers[operation.candidate].posted = None
       /\ workers[operation.candidate].uncertain = None
       /\ workers[operation.candidate].phase \in
            {"gone", CASE operation.stage = "create" -> "initializing"
                       [] operation.stage = "boot" -> "virgin"
                       [] OTHER -> "live"}
       /\ operation.stage = "inspect" =>
            workers[operation.candidate].story = operation.story

\* The one request whose outcome the facade may not know: the uncertain one,
\* which is also the only one an execute may then carry.
Open == IF uncertain # None THEN uncertain
        ELSE IF operation.kind = "execute" THEN operation.request ELSE None

\* The active engine has only the open request posted, and is where the facade
\* thinks it is, or one turn further on account of the open request.
AgreementInv ==
  active # None =>
    /\ workers[active].uncertain = uncertain
    /\ operation.kind = "execute" => operation.request = Open
    /\ workers[active].posted \in {None, Open}
    /\ \/ Len(workers[active].story) = cached
       \/ /\ Open # None
          /\ Len(workers[active].story) = cached + 1
          /\ workers[active].story[cached + 1] = Open

IInv == Types /\ LeaseInv /\ OwnerInv /\ CallInv /\ AgreementInv

-----------------------------------------------------------------------------
(* Termination.                                                            *)

\* A terminated worker is a worker that keeps its story and its uncertainty.
LEMMA GoneFacts ==
  ASSUME NEW w \in Worker
  PROVE  /\ Gone(w) \in Worker
         /\ Gone(w).phase = "gone" /\ Gone(w).posted = None
         /\ Gone(w).story = w.story /\ Gone(w).uncertain = w.uncertain
BY DEF Gone, Worker, Phases

\* terminateQuietly changes the leases it names and no other.
LEMMA TerminatedFacts ==
  ASSUME NEW ws \in [Leases -> Worker], NEW ls
  PROVE  /\ Terminated(ws, ls) \in [Leases -> Worker]
         /\ \A l \in Leases :
              /\ Terminated(ws, ls)[l].story = ws[l].story
              /\ Terminated(ws, ls)[l].uncertain = ws[l].uncertain
              /\ l \in ls => /\ Terminated(ws, ls)[l].phase = "gone"
                            /\ Terminated(ws, ls)[l].posted = None
              /\ l \notin ls => Terminated(ws, ls)[l] = ws[l]
BY GoneFacts DEF Terminated

-----------------------------------------------------------------------------
(* What the frame of a call holds, and stories.                            *)

\* The members of the call in progress, by its kind.
LEMMA CallFacts ==
  ASSUME Types
  PROVE  /\ operation.kind \in {"none", "boot", "execute", "snapshot", "inspect", "restore"}
         /\ operation.kind = "none" <=> operation = NoOperation
         /\ operation.kind = "boot" => operation \in BootCall
         /\ operation.kind = "execute" => operation \in ExecuteCall
         /\ operation.kind \in {"snapshot", "inspect"} => operation \in ReadCall
         /\ operation.kind = "restore" => operation \in RestoreCall
BY DEF Types, OperationType, BootCall, ExecuteCall, ReadCall, RestoreCall, NoOperation

\* A story without turns is numbered.
LEMMA EmptyNumbered == Numbered(<<>>)
BY FacadeConstants DEF FacadeConstants, Numbered

\* The turn a worker adds expects the revision the story has reached.
LEMMA AppendNumbered ==
  ASSUME NEW s \in Seq(Request), NEW r \in Request, Numbered(s),
         r.expectedRevision = Len(s), Len(s) < MaxRevision
  PROVE  /\ Append(s, r) \in Seq(Request)
         /\ Len(Append(s, r)) = Len(s) + 1
         /\ Append(s, r)[Len(s) + 1] = r
         /\ Numbered(Append(s, r))
BY FacadeConstants DEF FacadeConstants, Numbered

\* A request is in a numbered story at most once.
LEMMA NumberedOnce ==
  ASSUME NEW s \in Seq(Request), Numbered(s),
         NEW i \in 1..Len(s), NEW j \in 1..Len(s), s[i] = s[j]
  PROVE  i = j
BY DEF Numbered

\* A step of one worker leaves the others.
LEMMA OneWorker ==
  ASSUME NEW ws \in [Leases -> Worker], NEW l \in Leases, NEW w \in Worker
  PROVE  [ws EXCEPT ![l] = w] \in [Leases -> Worker]
OBVIOUS

\* A worker whose phase changes.
LEMMA PhaseStep ==
  ASSUME NEW ws \in [Leases -> Worker], NEW l \in Leases, NEW p \in Phases,
         NEW next, next = [ws EXCEPT ![l].phase = p]
  PROVE  next \in [Leases -> Worker]
<1>1. [ws[l] EXCEPT !.phase = p] \in Worker
  BY DEF Worker
<1>2. next = [ws EXCEPT ![l] = [ws[l] EXCEPT !.phase = p]]
  OBVIOUS
<1> QED BY <1>1, <1>2, OneWorker

\* A worker to which something is posted, or nothing any more.
LEMMA PostStep ==
  ASSUME NEW ws \in [Leases -> Worker], NEW l \in Leases, NEW r \in Request \cup {None},
         NEW next, next = [ws EXCEPT ![l].posted = r]
  PROVE  next \in [Leases -> Worker]
<1>1. [ws[l] EXCEPT !.posted = r] \in Worker
  BY DEF Worker
<1>2. next = [ws EXCEPT ![l] = [ws[l] EXCEPT !.posted = r]]
  OBVIOUS
<1> QED BY <1>1, <1>2, OneWorker

-----------------------------------------------------------------------------
(* Each action preserves it.                                               *)

\* Boot starts a candidate of its own.
LEMMA BootPreserves ==
  ASSUME IInv, NEW l \in Leases, Boot(l)
  PROVE  IInv'
<1> USE FacadeConstants DEF FacadeConstants, IInv, Boot, Create, Usable
<1>1. Types'
  <2>1. workers' \in [Leases -> Worker]
    <3>1. workers \in [Leases -> Worker] /\ workers' = [workers EXCEPT ![l].phase = "initializing"]
      BY DEF Types
    <3>2. "initializing" \in Phases
      BY DEF Phases
    <3> HIDE DEF IInv, Create
    <3> QED BY <3>1, <3>2, PhaseStep
  <2>2. OperationType'
    BY DEF OperationType, BootCall
  <2>3. disposed' \in BOOLEAN
    BY DEF Types
  <2> QED BY <2>1, <2>2, <2>3 DEF Types
<1>2. LeaseInv'
  BY EmptyNumbered DEF LeaseInv
<1>3. OwnerInv'
  BY DEF OwnerInv, Alive, HasCandidate, Staging, NoOperation
<1>4. CallInv'
  BY DEF Types, CallInv, LeaseInv, OwnerInv
<1>5. AgreementInv'
  BY DEF AgreementInv
<1> QED BY <1>1, <1>2, <1>3, <1>4, <1>5

\* An execute posts its request to the active worker: the uncertain request,
\* when there is one.
LEMMA ExecutePreserves ==
  ASSUME IInv, NEW r \in Request, Execute(r)
  PROVE  IInv'
<1> USE FacadeConstants DEF FacadeConstants, IInv, Execute, Usable
<1>1. Types'
  <2>1. workers' \in [Leases -> Worker]
    <3>1. workers \in [Leases -> Worker] /\ active \in Leases
      BY DEF Types
    <3>2. workers' \in {workers, [workers EXCEPT ![active].posted = r]}
      OBVIOUS
    <3> QED BY <3>1, <3>2, PostStep
  <2>2. OperationType'
    BY DEF Types, OperationType, ExecuteCall
  <2>3. disposed' \in BOOLEAN
    BY DEF Types
  <2> QED BY <2>1, <2>2, <2>3 DEF Types
<1>2. LeaseInv'
  BY DEF LeaseInv, OwnerInv, Alive
<1>3. OwnerInv'
  BY DEF OwnerInv, Alive, HasCandidate, Staging, NoOperation
<1>4. CallInv'
  BY DEF CallInv, HasCandidate, Staging, OwnerInv
<1>5. AgreementInv'
  BY DEF AgreementInv, Open, NoOperation
<1> QED BY <1>1, <1>2, <1>3, <1>4, <1>5

\* A snapshot changes nothing until the worker answers.
LEMMA SnapshotPreserves ==
  ASSUME IInv, Snapshot
  PROVE  IInv'
<1> USE FacadeConstants DEF FacadeConstants, IInv, Snapshot, Usable
<1>1. Types'
  <2>1. workers' \in [Leases -> Worker]
    BY DEF Types
  <2>2. OperationType'
    BY DEF Types, OperationType, ReadCall
  <2>3. disposed' \in BOOLEAN
    BY DEF Types
  <2> QED BY <2>1, <2>2, <2>3 DEF Types
<1>2. LeaseInv'
  BY EmptyNumbered DEF LeaseInv
<1>3. OwnerInv'
  BY DEF OwnerInv, Alive, HasCandidate, Staging, NoOperation
<1>4. CallInv'
  BY DEF CallInv, HasCandidate, Staging, OwnerInv
<1>5. AgreementInv'
  BY DEF AgreementInv, Open, NoOperation
<1> QED BY <1>1, <1>2, <1>3, <1>4, <1>5

\* Nor does an inspection.
LEMMA InspectPreserves ==
  ASSUME IInv, InspectPublicState
  PROVE  IInv'
<1> USE FacadeConstants DEF FacadeConstants, IInv, InspectPublicState, Usable
<1>1. Types'
  <2>1. workers' \in [Leases -> Worker]
    BY DEF Types
  <2>2. OperationType'
    BY DEF Types, OperationType, ReadCall
  <2>3. disposed' \in BOOLEAN
    BY DEF Types
  <2> QED BY <2>1, <2>2, <2>3 DEF Types
<1>2. LeaseInv'
  BY EmptyNumbered DEF LeaseInv
<1>3. OwnerInv'
  BY DEF OwnerInv, Alive, HasCandidate, Staging, NoOperation
<1>4. CallInv'
  BY DEF CallInv, HasCandidate, Staging, OwnerInv
<1>5. AgreementInv'
  BY DEF AgreementInv, Open, NoOperation
<1> QED BY <1>1, <1>2, <1>3, <1>4, <1>5

\* A restore starts only when no execute is uncertain, from a snapshot a
\* caller holds.
LEMMA RestorePreserves ==
  ASSUME IInv, NEW s \in saves, NEW q \in {"sound", "corrupt_outer", "corrupt_inner"}, Restore(s, q)
  PROVE  IInv'
<1> USE FacadeConstants DEF FacadeConstants, IInv, Restore, Usable
<1>1. Types'
  <2>1. workers' \in [Leases -> Worker]
    BY DEF Types
  <2>2. OperationType'
    BY DEF Types, OperationType, RestoreCall
  <2>3. disposed' \in BOOLEAN
    BY DEF Types
  <2> QED BY <2>1, <2>2, <2>3 DEF Types
<1>2. LeaseInv'
  BY EmptyNumbered DEF LeaseInv
<1>3. OwnerInv'
  BY DEF OwnerInv, Alive, HasCandidate, Staging, NoOperation
<1>4. CallInv'
  BY DEF CallInv, HasCandidate, OwnerInv
<1>5. AgreementInv'
  BY DEF AgreementInv, Open, NoOperation
<1> QED BY <1>1, <1>2, <1>3, <1>4, <1>5

\* Cancelling only marks the call.
LEMMA AbortRestorePreserves ==
  ASSUME IInv, AbortRestore
  PROVE  IInv'
<1> USE FacadeConstants DEF FacadeConstants, IInv, AbortRestore
<1>1. Types'
  <2>1. workers' \in [Leases -> Worker]
    BY DEF Types
  <2>2. OperationType'
    BY DEF Types, OperationType, BootCall, ExecuteCall, ReadCall, RestoreCall, NoOperation
  <2>3. disposed' \in BOOLEAN
    BY DEF Types
  <2> QED BY <2>1, <2>2, <2>3 DEF Types
<1>2. LeaseInv'
  BY EmptyNumbered DEF LeaseInv
<1>3. OwnerInv'
  BY DEF OwnerInv, Alive, HasCandidate, Staging
<1>4. CallInv'
  BY DEF CallInv, HasCandidate, Staging
<1>5. AgreementInv'
  BY DEF AgreementInv, Open
<1> QED BY <1>1, <1>2, <1>3, <1>4, <1>5

\* Disposal terminates the active worker; a candidate stays with its call.
LEMMA DisposePreserves ==
  ASSUME IInv, Dispose
  PROVE  IInv'
<1> USE FacadeConstants DEF FacadeConstants, IInv, Dispose
<1>0. /\ workers' = Terminated(workers, {active})
      /\ workers' \in [Leases -> Worker]
      /\ \A x \in Leases :
           /\ workers'[x].story = workers[x].story
           /\ workers'[x].uncertain = workers[x].uncertain
           /\ x \in {active} => workers'[x].phase = "gone" /\ workers'[x].posted = None
           /\ x \notin {active} => workers'[x] = workers[x]
  BY TerminatedFacts DEF Types

<1>1. Types'
  <2>1. OperationType'
    BY DEF Types, OperationType
  <2>2. disposed' \in BOOLEAN
    OBVIOUS
  <2> QED BY <1>0, <2>1, <2>2 DEF Types
<1>2. LeaseInv'
  BY <1>0 DEF LeaseInv
<1>3. OwnerInv'
  BY <1>0 DEF Types, OwnerInv, Alive, HasCandidate, Staging
<1>4. CallInv'
  BY <1>0 DEF CallInv, HasCandidate, Staging
<1>5. AgreementInv'
  BY <1>0 DEF AgreementInv
<1> QED BY <1>1, <1>2, <1>3, <1>4, <1>5

\* Only the active worker has a request to run, and it is the open one.
LEMMA RunTurnPreserves ==
  ASSUME IInv, NEW l \in Leases, RunTurn(l)
  PROVE  IInv'
<1> USE FacadeConstants DEF FacadeConstants, IInv, RunTurn, Runnable, facadeVars
<1>1. Types'
  <2>1. workers' \in [Leases -> Worker]
    BY DEF Types, Worker
  <2>2. OperationType'
    BY DEF Types, OperationType
  <2>3. disposed' \in BOOLEAN
    BY DEF Types
  <2> QED BY <2>1, <2>2, <2>3 DEF Types
<1>2. LeaseInv'
  BY AppendNumbered DEF Types, Worker
<1>3. OwnerInv'
  BY DEF Types, Worker
<1>4. CallInv'
  BY DEF Types, Worker
<1>5. AgreementInv'
  BY DEF Types, Worker
<1> QED BY <1>1, <1>2, <1>3, <1>4, <1>5

\* A refused request leaves the story as it was.
LEMMA RefuseTurnPreserves ==
  ASSUME IInv, NEW l \in Leases, RefuseTurn(l)
  PROVE  IInv'
<1> USE FacadeConstants DEF FacadeConstants, IInv, RefuseTurn, facadeVars
<1>1. Types'
  <2>1. workers' \in [Leases -> Worker]
    <3>1. workers \in [Leases -> Worker] /\ workers' = [workers EXCEPT ![l].posted = None]
      BY DEF Types
    <3> QED BY <3>1, PostStep
  <2>2. OperationType'
    BY DEF Types, OperationType
  <2>3. disposed' \in BOOLEAN
    BY DEF Types
  <2> QED BY <2>1, <2>2, <2>3 DEF Types
<1>2. LeaseInv'
  BY EmptyNumbered DEF LeaseInv
<1>3. OwnerInv'
  BY DEF OwnerInv, Alive, HasCandidate, Staging
<1>4. CallInv'
  BY DEF CallInv, HasCandidate, Staging
<1>5. AgreementInv'
  BY DEF AgreementInv, Open
<1> QED BY <1>1, <1>2, <1>3, <1>4, <1>5

\* A worker that dies keeps its place as active lease or candidate.
LEMMA WorkerDiesPreserves ==
  ASSUME IInv, NEW l \in Leases, WorkerDies(l)
  PROVE  IInv'
<1> USE FacadeConstants DEF FacadeConstants, IInv, WorkerDies, facadeVars
<1>0. /\ workers' = Terminated(workers, {l})
      /\ workers' \in [Leases -> Worker]
      /\ \A x \in Leases :
           /\ workers'[x].story = workers[x].story
           /\ workers'[x].uncertain = workers[x].uncertain
           /\ x \in {l} => workers'[x].phase = "gone" /\ workers'[x].posted = None
           /\ x \notin {l} => workers'[x] = workers[x]
  BY TerminatedFacts DEF Types

<1>1. Types'
  <2>1. OperationType'
    BY DEF Types, OperationType
  <2>2. disposed' \in BOOLEAN
    BY DEF Types
  <2> QED BY <1>0, <2>1, <2>2 DEF Types
<1>2. LeaseInv'
  BY <1>0 DEF LeaseInv
<1>3. OwnerInv'
  BY <1>0 DEF Types, OwnerInv, Alive, HasCandidate, Staging
<1>4. CallInv'
  BY <1>0 DEF CallInv, HasCandidate, Staging
<1>5. AgreementInv'
  BY <1>0 DEF Types, AgreementInv, Open
<1> QED BY <1>1, <1>2, <1>3, <1>4, <1>5

\* The receipt's revision is where the story is: the request is in it at most
\* once, and no other could have been added since.
LEMMA ExecuteReturnsPreserves ==
  ASSUME IInv, ExecuteReturns
  PROVE  IInv'
<1> USE FacadeConstants DEF FacadeConstants, IInv, ExecuteReturns
<1>a. /\ operation.lease \in Leases /\ operation.request \in Request
      /\ operation.lease = lastActive
  BY CallFacts DEF ExecuteCall, CallInv
<1>1. Types'
  <2>1. workers' \in [Leases -> Worker]
    BY <1>a DEF Types, Worker
  <2>2. cached' \in 0..MaxRevision
    BY <1>a DEF Types, LeaseInv, Numbered
  <2> QED BY <2>1, <2>2 DEF Types, OperationType
<1>2. LeaseInv'
  BY EmptyNumbered DEF LeaseInv
<1>3. OwnerInv'
  BY DEF OwnerInv, Alive, HasCandidate, Staging
<1>4. CallInv'
  BY DEF CallInv, HasCandidate, Staging, NoOperation
<1>5. AgreementInv'
  <2> DEFINE w == workers[operation.lease]
             turns == {i \in 1..Len(w.story) : w.story[i] = operation.request}
  <2>1. SUFFICES ASSUME active # None
                 PROVE  Len(w.story) = cached'
    BY <1>a DEF Types, AgreementInv, OwnerInv, NoOperation
  <2>2. /\ w = workers[active] /\ w.story \in Seq(Request) /\ Numbered(w.story)
        /\ cached \in Nat /\ Open = operation.request
        /\ \/ Len(w.story) = cached
           \/ /\ Len(w.story) = cached + 1
              /\ w.story[cached + 1] = operation.request
    BY <1>a, <2>1 DEF Types, Worker, LeaseInv, OwnerInv, AgreementInv
  <2>3. \A i, j \in turns : i = j
    BY <2>2, NumberedOnce
  <2>4. CASE \E i \in turns : i >= cached
    <3>1. PICK i \in turns : i >= cached
      BY <2>4
    <3>2. cached' = i
      BY <2>3, <2>4, <3>1
    <3>3. i \in 1..Len(w.story) /\ w.story[i] = operation.request
      BY <3>1
    <3>4. CASE Len(w.story) = cached
      BY <2>2, <3>1, <3>2, <3>3, <3>4
    <3>5. CASE Len(w.story) = cached + 1 /\ w.story[cached + 1] = operation.request
      <4>1. i = cached + 1
        <5>1. cached + 1 \in turns
          BY <2>2, <3>5
        <5> QED BY <2>3, <3>1, <5>1
      <4> QED BY <3>2, <3>5, <4>1
    <3> QED BY <2>2, <3>4, <3>5
  <2>5. CASE ~ \E i \in turns : i >= cached
    <3>1. cached + 1 \notin turns
      BY <2>2, <2>5
    <3>2. Len(w.story) = cached
      BY <2>2, <3>1
    <3> QED BY <2>5, <3>2
  <2> QED BY <2>4, <2>5
<1> QED BY <1>1, <1>2, <1>3, <1>4, <1>5

\* The facade and the adapter record the same request as uncertain.
LEMMA ExecuteLostPreserves ==
  ASSUME IInv, ExecuteLost
  PROVE  IInv'
<1> USE FacadeConstants DEF FacadeConstants, IInv, ExecuteLost
<1>a. /\ operation.lease \in Leases /\ operation.request \in Request
      /\ operation.lease = lastActive
  BY CallFacts DEF ExecuteCall, CallInv
<1>1. Types'
  <2>1. workers' \in [Leases -> Worker]
    BY <1>a DEF Types, Worker
  <2> QED BY <1>a, <2>1 DEF Types, OperationType
<1>2. LeaseInv'
  BY <1>a DEF LeaseInv, OwnerInv
<1>3. OwnerInv'
  BY DEF Types, OwnerInv, CallInv, Alive, HasCandidate, Staging, NoOperation, OperationType,
     BootCall, ExecuteCall, ReadCall, RestoreCall
<1>4. CallInv'
  BY DEF CallInv, HasCandidate, Staging, NoOperation
<1>5. AgreementInv'
  BY DEF Types, AgreementInv, Open, NoOperation, OwnerInv, CallInv
<1> QED BY <1>1, <1>2, <1>3, <1>4, <1>5

\* What is saved is the story of a worker.
LEMMA SnapshotReturnsPreserves ==
  ASSUME IInv, SnapshotReturns
  PROVE  IInv'
<1> USE FacadeConstants DEF FacadeConstants, IInv, SnapshotReturns
<1>a. operation.lease \in Leases /\ operation.lease = lastActive
  BY CallFacts DEF ReadCall, CallInv
<1>1. Types'
  BY <1>a DEF Types, Worker, OperationType
<1>2. LeaseInv'
  BY <1>a DEF LeaseInv
<1>3. OwnerInv'
  BY DEF OwnerInv, Alive, HasCandidate, Staging
<1>4. CallInv'
  BY DEF CallInv, HasCandidate, Staging, NoOperation
<1>5. AgreementInv'
  BY DEF AgreementInv, Open, NoOperation
<1> QED BY <1>1, <1>2, <1>3, <1>4, <1>5

\* An inspection brings the cached state up to date.
LEMMA InspectReturnsPreserves ==
  ASSUME IInv, InspectReturns
  PROVE  IInv'
<1> USE FacadeConstants DEF FacadeConstants, IInv, InspectReturns
<1>1. Types'
  <2>1. workers' \in [Leases -> Worker]
    BY DEF Types
  <2>2. OperationType'
    BY DEF OperationType
  <2>3. disposed' \in BOOLEAN
    BY DEF Types
  <2> QED BY <2>1, <2>2, <2>3 DEF Types, LeaseInv, Numbered, OperationType, BootCall,
             ExecuteCall, ReadCall, RestoreCall, NoOperation
<1>2. LeaseInv'
  BY EmptyNumbered DEF LeaseInv
<1>3. OwnerInv'
  BY DEF OwnerInv, Alive, HasCandidate, Staging
<1>4. CallInv'
  BY DEF CallInv, HasCandidate, Staging, NoOperation
<1>5. AgreementInv'
  BY DEF AgreementInv, NoOperation, OwnerInv, CallInv
<1> QED BY <1>1, <1>2, <1>3, <1>4, <1>5

\* A failed read changes nothing.
LEMMA SnapshotOrInspectFailsPreserves ==
  ASSUME IInv, SnapshotOrInspectFails
  PROVE  IInv'
<1> USE FacadeConstants DEF FacadeConstants, IInv, SnapshotOrInspectFails
<1>1. Types'
  <2>1. workers' \in [Leases -> Worker]
    BY DEF Types
  <2>2. OperationType'
    BY DEF OperationType
  <2>3. disposed' \in BOOLEAN
    BY DEF Types
  <2> QED BY <2>1, <2>2, <2>3 DEF Types
<1>2. LeaseInv'
  BY EmptyNumbered DEF LeaseInv
<1>3. OwnerInv'
  BY DEF OwnerInv, Alive, HasCandidate, Staging
<1>4. CallInv'
  BY DEF CallInv, HasCandidate, Staging, NoOperation
<1>5. AgreementInv'
  BY DEF AgreementInv, Open, NoOperation
<1> QED BY <1>1, <1>2, <1>3, <1>4, <1>5

\* Whichever stage fails, the candidate is terminated.
LEMMA StageFailsPreserves ==
  ASSUME IInv, StageFails
  PROVE  IInv'
<1> USE FacadeConstants DEF FacadeConstants, IInv, StageFails, GiveUp
<1>0. /\ workers' = Terminated(workers, {operation.candidate})
      /\ workers' \in [Leases -> Worker]
      /\ \A x \in Leases :
           /\ workers'[x].story = workers[x].story
           /\ workers'[x].uncertain = workers[x].uncertain
           /\ x \in {operation.candidate} => workers'[x].phase = "gone" /\ workers'[x].posted = None
           /\ x \notin {operation.candidate} => workers'[x] = workers[x]
  BY TerminatedFacts DEF Types

<1>1. Types'
  <2>1. OperationType'
    BY DEF OperationType
  <2>2. disposed' \in BOOLEAN
    BY DEF Types
  <2> QED BY <1>0, <2>1, <2>2 DEF Types
<1>2. LeaseInv'
  <2>1. ASSUME NEW x \in Leases
        PROVE  /\ Numbered(workers'[x].story)
               /\ workers'[x].phase # "live" => workers'[x].posted = None
               /\ workers'[x].phase \in {"unused", "initializing", "virgin"} =>
                    workers'[x].story = <<>> /\ workers'[x].uncertain = None
    <3>1. CASE x = operation.candidate
      BY <1>0, <3>1 DEF LeaseInv
    <3>2. CASE x # operation.candidate
      BY <1>0, <3>2 DEF LeaseInv
    <3> QED BY <3>1, <3>2
  <2>2. saves' = saves
    OBVIOUS
  <2> QED BY <2>1, <2>2 DEF LeaseInv
<1>3. OwnerInv'
  BY <1>0 DEF Types, OwnerInv, Alive
<1>4. CallInv'
  BY <1>0 DEF CallInv, HasCandidate, Staging, NoOperation
<1>5. AgreementInv'
  BY <1>0 DEF Types, AgreementInv, Open, OwnerInv, CallInv, Staging
<1> QED BY <1>1, <1>2, <1>3, <1>4, <1>5

\* The candidate of a restore is a worker nobody else has.
LEMMA DigestMatchesPreserves ==
  ASSUME IInv, NEW l \in Leases, DigestMatches(l)
  PROVE  IInv'
<1> USE FacadeConstants DEF FacadeConstants, IInv, DigestMatches, Create, At, Aborted
<1>1. Types'
  <2>1. workers' \in [Leases -> Worker]
    <3>1. workers \in [Leases -> Worker] /\ workers' = [workers EXCEPT ![l].phase = "initializing"]
      BY DEF Types
    <3>2. "initializing" \in Phases
      BY DEF Phases
    <3> HIDE DEF IInv, Create
    <3> QED BY <3>1, <3>2, PhaseStep
  <2>2. OperationType'
    BY DEF Types, OperationType, BootCall, ExecuteCall, ReadCall, RestoreCall, NoOperation
  <2>3. disposed' \in BOOLEAN
    BY DEF Types
  <2> QED BY <2>1, <2>2, <2>3 DEF Types
<1>2. LeaseInv'
  BY EmptyNumbered DEF LeaseInv
<1>3. OwnerInv'
  BY DEF OwnerInv, Alive, HasCandidate, Staging
<1>4. CallInv'
  BY DEF Types, CallInv, LeaseInv, OwnerInv
<1>5. AgreementInv'
  BY DEF AgreementInv, Open
<1> QED BY <1>1, <1>2, <1>3, <1>4, <1>5

\* The candidate is created.
LEMMA CandidateCreatedPreserves ==
  ASSUME IInv, CandidateCreated
  PROVE  IInv'
<1> USE FacadeConstants DEF FacadeConstants, IInv, CandidateCreated, At, Aborted
<1>1. Types'
  <2>1. workers' \in [Leases -> Worker]
    <3>1. operation.candidate \in Leases
      BY CallFacts DEF CallInv, HasCandidate, Staging, BootCall
    <3>2. /\ workers \in [Leases -> Worker]
          /\ workers' = [workers EXCEPT ![operation.candidate].phase = "virgin"]
      BY DEF Types
    <3>3. "virgin" \in Phases
      BY DEF Phases
    <3> HIDE DEF IInv
    <3> QED BY <3>1, <3>2, <3>3, PhaseStep
  <2>2. OperationType'
    BY DEF Types, OperationType, BootCall, ExecuteCall, ReadCall, RestoreCall, NoOperation
  <2>3. disposed' \in BOOLEAN
    BY DEF Types
  <2> QED BY <2>1, <2>2, <2>3 DEF Types
<1>2. LeaseInv'
  BY EmptyNumbered DEF LeaseInv
<1>3. OwnerInv'
  BY DEF OwnerInv, Alive, HasCandidate, Staging
<1>4. CallInv'
  BY DEF Types, CallInv, HasCandidate
<1>5. AgreementInv'
  BY DEF AgreementInv, Open
<1> QED BY <1>1, <1>2, <1>3, <1>4, <1>5

\* A booted candidate becomes active, with an empty story, or is restored.
LEMMA CandidateBootedPreserves ==
  ASSUME IInv, CandidateBooted
  PROVE  IInv'
<1> USE FacadeConstants DEF FacadeConstants, IInv, CandidateBooted, At, Aborted
<1>a. /\ operation \in BootCall \/ operation \in RestoreCall
      /\ operation.candidate \in Leases /\ operation.candidate # lastActive
      /\ workers[operation.candidate] \in Worker
  BY CallFacts DEF Types, CallInv, HasCandidate
<1>1. Types'
  <2>1. workers' \in [Leases -> Worker]
    BY <1>a DEF Types, Worker, Phases
  <2>2. OperationType'
    BY <1>a, CallFacts DEF OperationType, RestoreCall
  <2> QED BY <1>a, <2>1, <2>2 DEF Types
<1>2. LeaseInv'
  BY EmptyNumbered DEF LeaseInv
<1>3. OwnerInv'
  BY DEF Types, OwnerInv, CallInv, Alive, HasCandidate, Staging, NoOperation, OperationType,
     BootCall, ExecuteCall, ReadCall, RestoreCall
<1>4. CallInv'
  BY DEF Types, CallInv, HasCandidate, Staging, NoOperation, OperationType, BootCall,
     ExecuteCall, ReadCall, RestoreCall
<1>5. AgreementInv'
  <2>1. CASE operation.kind = "boot"
    <3>1. /\ active' = operation.candidate /\ cached' = 0 /\ uncertain' = None
          /\ operation' = NoOperation
      BY <1>a, <2>1 DEF CallInv, OwnerInv
    <3>2. /\ workers'[operation.candidate].uncertain = None
          /\ workers'[operation.candidate].posted = None
          /\ workers'[operation.candidate].story = <<>>
      BY <1>a DEF LeaseInv
    <3> QED BY <3>1, <3>2 DEF AgreementInv, NoOperation
  <2>2. CASE operation.kind = "restore"
    <3>1. /\ active' = active /\ cached' = cached /\ uncertain' = uncertain
          /\ operation'.kind = "restore"
      BY <1>a, <2>2 DEF RestoreCall, BootCall
    <3>2. active # None => workers'[active] = workers[active]
      BY <1>a DEF OwnerInv
    <3> QED BY <2>2, <3>1, <3>2 DEF AgreementInv, Open
  <2> QED BY <1>a, <2>1, <2>2
<1> QED BY <1>1, <1>2, <1>3, <1>4, <1>5

\* The candidate takes the snapshot's story.
LEMMA CandidateRestoredPreserves ==
  ASSUME IInv, CandidateRestored
  PROVE  IInv'
<1> USE FacadeConstants DEF FacadeConstants, IInv, CandidateRestored, At, Aborted
<1>a. /\ operation \in BootCall \/ operation \in RestoreCall
      /\ operation.candidate \in Leases /\ operation.candidate # lastActive
      /\ workers[operation.candidate] \in Worker
  BY CallFacts DEF Types, CallInv, HasCandidate, Staging
<1>1. Types'
  <2>1. workers' \in [Leases -> Worker]
    BY DEF Types, Worker, Phases, CallInv, HasCandidate, Staging, OperationType, BootCall,
       ExecuteCall, ReadCall, RestoreCall, NoOperation
  <2>2. OperationType'
    BY DEF Types, OperationType, BootCall, ExecuteCall, ReadCall, RestoreCall, NoOperation
  <2>3. disposed' \in BOOLEAN
    BY DEF Types
  <2> QED BY <2>1, <2>2, <2>3 DEF Types
<1>2. LeaseInv'
  <2>1. operation.kind = "restore" /\ operation.story \in saves
    BY <1>a DEF BootCall, RestoreCall, CallInv
  <2>2. Numbered(operation.story)
    BY <2>1 DEF LeaseInv
  <2> QED BY <1>a, <2>2 DEF LeaseInv
<1>3. OwnerInv'
  BY DEF OwnerInv, Alive, HasCandidate, Staging
<1>4. CallInv'
  BY DEF Types, CallInv, HasCandidate
<1>5. AgreementInv'
  BY DEF AgreementInv, Open, OwnerInv, CallInv, HasCandidate
<1> QED BY <1>1, <1>2, <1>3, <1>4, <1>5

\* The candidate takes the place of the active lease, which is terminated.
LEMMA SwapPreserves ==
  ASSUME IInv, Swap
  PROVE  IInv'
<1> USE FacadeConstants DEF FacadeConstants, IInv, Swap, At, Aborted
<1>a. /\ operation \in RestoreCall /\ operation.kind = "restore" /\ HasCandidate
      /\ operation.candidate \in Leases /\ operation.candidate # lastActive
      /\ operation.lease \in Leases /\ operation.lease = lastActive
      /\ workers[operation.candidate].story = operation.story
  BY CallFacts DEF CallInv, HasCandidate, Staging, BootCall, RestoreCall
<1>0. /\ workers' = Terminated(workers, {operation.lease})
      /\ workers' \in [Leases -> Worker]
      /\ \A x \in Leases :
           /\ workers'[x].story = workers[x].story
           /\ workers'[x].uncertain = workers[x].uncertain
           /\ x \in {operation.lease} => workers'[x].phase = "gone" /\ workers'[x].posted = None
           /\ x \notin {operation.lease} => workers'[x] = workers[x]
  BY TerminatedFacts DEF Types

<1>1. Types'
  <2>1. Len(workers[operation.candidate].story) \in 0..MaxRevision
    BY <1>a DEF LeaseInv, Numbered
  <2>2. disposed' \in BOOLEAN
    BY DEF Types
  <2> QED BY <1>0, <1>a, <2>1, <2>2 DEF Types, OperationType
<1>2. LeaseInv'
  <2>1. saves' = saves /\ \A s \in saves : Numbered(s)
    BY DEF LeaseInv
  <2>2. ASSUME NEW x \in Leases
        PROVE  /\ workers'[x].story = workers[x].story
               /\ workers'[x].uncertain = workers[x].uncertain
               /\ \/ workers'[x].phase = "gone" /\ workers'[x].posted = None
                  \/ workers'[x] = workers[x]
    BY <1>0
  <2> QED BY <2>1, <2>2 DEF LeaseInv
<1>3. OwnerInv'
  BY <1>0, <1>a DEF OwnerInv, Alive
<1>4. CallInv'
  BY <1>0 DEF CallInv, HasCandidate, Staging, NoOperation
<1>5. AgreementInv'
  BY <1>0 DEF AgreementInv, NoOperation, CallInv, HasCandidate
<1> QED BY <1>1, <1>2, <1>3, <1>4, <1>5

-----------------------------------------------------------------------------
(* The invariants.                                                         *)

\* A facade that has not started any worker satisfies the invariant.
LEMMA InitIInv == Init => IInv
<1> SUFFICES ASSUME Init PROVE IInv
  OBVIOUS
<1> USE FacadeConstants DEF FacadeConstants, Init
<1>1. Types
  <2>1. Unused \in Worker
    BY DEF Unused, Worker, Phases
  <2>2. disposed \in BOOLEAN
    OBVIOUS
  <2> QED BY <2>1, <2>2 DEF Types, OperationType
<1>2. LeaseInv
  BY EmptyNumbered DEF LeaseInv, Unused
<1>3. OwnerInv /\ CallInv /\ AgreementInv
  BY DEF OwnerInv, CallInv, AgreementInv, Alive, HasCandidate, Staging, NoOperation, Unused
<1> QED BY <1>1, <1>2, <1>3 DEF IInv

\* Every step of the facade and of its workers preserves the invariant.
LEMMA StepIInv == IInv /\ [Next]_vars => IInv'
<1> SUFFICES ASSUME IInv, [Next]_vars PROVE IInv'
  OBVIOUS
<1>1. CASE UNCHANGED vars
  BY <1>1 DEF vars, IInv, Types, OperationType, LeaseInv, OwnerInv, CallInv, AgreementInv,
     Alive, HasCandidate, Staging, Open
<1>2. ASSUME NEW l \in Leases,
             Boot(l) \/ DigestMatches(l) \/ RunTurn(l) \/ RefuseTurn(l) \/ WorkerDies(l)
      PROVE  IInv'
  BY <1>2, BootPreserves, DigestMatchesPreserves, RunTurnPreserves, RefuseTurnPreserves,
     WorkerDiesPreserves
<1>3. ASSUME NEW r \in Request, Execute(r) PROVE IInv'
  BY <1>3, ExecutePreserves
<1>4. ASSUME NEW s \in saves, NEW q \in {"sound", "corrupt_outer", "corrupt_inner"}, Restore(s, q)
      PROVE  IInv'
  BY <1>4, RestorePreserves
<1>5. CASE Snapshot \/ InspectPublicState \/ AbortRestore \/ Dispose
  BY <1>5, SnapshotPreserves, InspectPreserves, AbortRestorePreserves, DisposePreserves
<1>6. CASE Finishes
  BY <1>6, ExecuteReturnsPreserves, ExecuteLostPreserves, SnapshotReturnsPreserves,
     InspectReturnsPreserves, SnapshotOrInspectFailsPreserves, StageFailsPreserves,
     CandidateCreatedPreserves, CandidateBootedPreserves, CandidateRestoredPreserves,
     SwapPreserves DEF Finishes
<1> QED BY <1>1, <1>2, <1>3, <1>4, <1>5, <1>6 DEF Next

\* The inductive invariant holds in every state the facade reaches.
THEOREM Inductive == Spec => []IInv
BY InitIInv, StepIInv, PTL DEF Spec

\* The facade's variables keep their shape, and between calls the state a
\* rejected restore is answered from is the active engine's, unless an execute
\* is uncertain.
THEOREM CachedStateIsTrue == Spec => []FacadeState
<1>1. IInv => TypeOK
  <2> SUFFICES ASSUME IInv PROVE TypeOK
    OBVIOUS
  <2>1. Types
    BY DEF IInv
  <2>2. /\ operation.kind \in {"none", "boot", "execute", "snapshot", "inspect", "restore"}
        /\ Staging => operation.stage = "digest" \/ operation.candidate \in Leases
    BY <2>1, CallFacts DEF IInv, CallInv, HasCandidate
  <2>3. disposed \in BOOLEAN
    BY <2>1 DEF Types
  <2> QED BY <2>1, <2>2, <2>3 DEF Types, TypeOK, Worker, Phases
<1>2. IInv => CachedStateIsCurrent
  BY DEF IInv, AgreementInv, Open, CachedStateIsCurrent, NoOperation
<1> QED BY Inductive, <1>1, <1>2, PTL DEF FacadeState

\* Between calls no worker runs but the active one, however the calls before
\* were cancelled, failed or overtaken by disposal.
THEOREM NothingLeaks == Spec => []NoOrphanWorker
<1>1. IInv => NoOrphanWorker
  BY DEF IInv, OwnerInv, NoOrphanWorker, HasCandidate, Staging, NoOperation
<1> QED BY Inductive, <1>1, PTL

\* The facade waits for the retry that the adapter admits.
THEOREM AgreedUncertainty == Spec => []UncertaintyAgrees
<1>1. IInv => UncertaintyAgrees
  BY DEF IInv, AgreementInv, UncertaintyAgrees
<1> QED BY Inductive, <1>1, PTL

-----------------------------------------------------------------------------
(* What a step may do to the active lease.                                 *)

\* A worker that runs a turn is the active one, runs the open request, and is
\* not being replaced.
LEMMA RunnerIsActive ==
  ASSUME IInv, NEW l \in Leases, RunTurn(l)
  PROVE  /\ l = active /\ l = lastActive /\ l # None
         /\ workers[l].posted \in Request
         /\ operation.kind # "restore"
<1>1. workers[l].posted # None /\ workers[l].posted \in Request /\ Alive(l)
  BY DEF RunTurn, Runnable, IInv, Types, Worker, Alive
<1>2. l = active
  BY <1>1 DEF IInv, OwnerInv, CallInv
<1>3. l # None
  BY FacadeConstants DEF FacadeConstants
<1>4. operation.kind # "restore"
  BY <1>1, <1>2, <1>3 DEF IInv, CallInv, AgreementInv, Open
<1> QED BY <1>1, <1>2, <1>3, <1>4 DEF IInv, OwnerInv

\* The stage a candidate is in tells what its call is and holds.
LEMMA CandidateFacts ==
  ASSUME IInv, NEW stage \in {"create", "boot", "restore", "inspect"}, At(stage)
  PROVE  /\ operation.candidate \in Leases /\ operation.candidate # lastActive
         /\ workers[operation.candidate] \in Worker
         /\ stage \in {"restore", "inspect"} => operation.kind = "restore"
         /\ stage = "inspect" => workers[operation.candidate].story = operation.story
<1>1. HasCandidate
  BY DEF At, HasCandidate
<1>2. operation \in BootCall \/ operation \in RestoreCall
  BY CallFacts DEF IInv, At, Staging
<1> QED BY <1>1, <1>2 DEF IInv, Types, CallInv, At, BootCall, RestoreCall

\* The steps that leave the story of every lease as it is.
LEMMA StoriesStand ==
  ASSUME IInv, [Next]_vars, ~CandidateRestored, \A l \in Leases : ~RunTurn(l),
         NEW x \in Leases
  PROVE  workers'[x].story = workers[x].story
<1>0. workers \in [Leases -> Worker]
  BY DEF IInv, Types
<1>1. CASE UNCHANGED vars
  BY <1>1 DEF vars
<1>2. ASSUME NEW l \in Leases,
             Boot(l) \/ DigestMatches(l) \/ RefuseTurn(l)
      PROVE  workers'[x].story = workers[x].story
  <2>1. \/ workers' = [workers EXCEPT ![l].phase = "initializing"]
        \/ workers' = [workers EXCEPT ![l].posted = None]
    BY <1>2 DEF Boot, DigestMatches, RefuseTurn, Create
  <2> QED BY <1>0, <2>1 DEF Worker
<1>3. ASSUME NEW r \in Request, Execute(r) PROVE workers'[x].story = workers[x].story
  BY <1>0, <1>3 DEF Execute, Worker
<1>4. CASE \/ \E s \in saves, q \in {"sound", "corrupt_outer", "corrupt_inner"} : Restore(s, q)
           \/ Snapshot \/ InspectPublicState \/ AbortRestore
           \/ SnapshotReturns \/ InspectReturns \/ SnapshotOrInspectFails
  BY <1>4 DEF Restore, Snapshot, InspectPublicState, AbortRestore, SnapshotReturns,
     InspectReturns, SnapshotOrInspectFails
<1>5. CASE \/ \E l \in Leases : WorkerDies(l)
           \/ Dispose \/ StageFails \/ Swap
  <2>1. \E ls : workers' = Terminated(workers, ls)
    BY <1>5 DEF WorkerDies, Dispose, StageFails, GiveUp, Swap
  <2> QED BY <1>0, <2>1, TerminatedFacts
<1>6. CASE ExecuteReturns \/ ExecuteLost
  <2>1. \/ workers' = [workers EXCEPT ![operation.lease].uncertain = None]
        \/ workers' = [workers EXCEPT ![operation.lease].uncertain = operation.request]
    BY <1>6 DEF ExecuteReturns, ExecuteLost
  <2>2. CASE operation.lease = x
    BY <1>0, <2>1, <2>2 DEF Worker
  <2>3. CASE operation.lease # x
    BY <1>0, <2>1, <2>3
  <2> QED BY <2>2, <2>3
<1>7. CASE CandidateCreated \/ CandidateBooted
  <2>1. \/ workers' = [workers EXCEPT ![operation.candidate].phase = "virgin"]
        \/ workers' = [workers EXCEPT ![operation.candidate].phase = "live"]
    BY <1>7 DEF CandidateCreated, CandidateBooted
  <2> QED BY <1>0, <2>1 DEF Worker
<1> QED BY <1>1, <1>2, <1>3, <1>4, <1>5, <1>6, <1>7 DEF Next, Finishes

\* While a restore is staged, the story it may replace does not change: no
\* abandoned execute adds a turn that the swap would lose.
LEMMA StillWhileStaged ==
  ASSUME IInv, [Next]_vars, operation.kind = "restore", active # None
  PROVE  workers'[active].story = workers[active].story
<1>1. active \in Leases /\ active = lastActive
  BY DEF IInv, Types, OwnerInv
<1>2. \A l \in Leases : ~RunTurn(l)
  BY RunnerIsActive
<1>3. CASE CandidateRestored
  <2>1. operation.candidate # active
    BY <1>1, <1>3, CandidateFacts DEF CandidateRestored
  <2> QED BY <1>1, <1>3, <2>1 DEF CandidateRestored, IInv, Types
<1> QED BY <1>1, <1>2, <1>3, StoriesStand

\* Only a boot and a swap make a lease active.
LEMMA OnlySwapsReplace ==
  ASSUME [Next]_vars, active' # active, active' # None
  PROVE  CandidateBooted \/ Swap
BY DEF Next, Finishes, vars, facadeVars, Boot, DigestMatches, RunTurn, RefuseTurn, WorkerDies,
   Execute, Snapshot, InspectPublicState, Restore, AbortRestore, Dispose, ExecuteReturns,
   ExecuteLost, SnapshotReturns, InspectReturns, SnapshotOrInspectFails, StageFails, GiveUp,
   CandidateCreated, CandidateRestored

\* A lease is replaced only by one that holds the whole snapshot, for a caller
\* that has not cancelled, and is terminated with that step.
LEMMA ReplacementIsWhole ==
  ASSUME IInv, [Next]_vars, active' # active, active' # None
  PROVE  /\ ~disposed
         /\ active # None =>
              /\ workers[active'].story \in saves
              /\ workers[active'].story = operation.story
              /\ ~operation.aborted
              /\ workers'[active].phase = "gone"
<1>1. CASE CandidateBooted
  <2>1. operation.kind = "boot" /\ ~disposed
    BY <1>1 DEF CandidateBooted
  <2>2. active = None
    BY <2>1 DEF IInv, CallInv, OwnerInv
  <2> QED BY <2>1, <2>2
<1>2. CASE Swap
  <2>1. /\ active' = operation.candidate /\ ~disposed /\ At("inspect") /\ ~Aborted
        /\ workers' = Terminated(workers, {operation.lease})
    BY <1>2 DEF Swap
  <2>2. operation.kind = "restore" /\ workers[active'].story = operation.story
    BY <2>1, CandidateFacts
  <2>3. operation.lease = lastActive /\ operation.story \in saves
    BY <2>2 DEF IInv, CallInv
  <2>4. active # None => workers'[active].phase = "gone"
    BY <2>1, <2>3, TerminatedFacts DEF IInv, Types, OwnerInv
  <2> QED BY <2>1, <2>2, <2>3, <2>4 DEF Aborted
<1> QED BY <1>1, <1>2, OnlySwapsReplace

\* A restore replaces the active lease whole or not at all, and loses no turn.
THEOREM RestoreIsAtomic == Spec => SwapLosesNothing
<1>1. IInv /\ [Next]_vars =>
        [(active' # active /\ active' # None)
           => /\ ~disposed
              /\ active # None =>
                   /\ workers[active'].story \in saves
                   /\ workers[active'].story = operation.story
                   /\ ~operation.aborted
                   /\ workers'[active].phase = "gone"]_vars
  BY ReplacementIsWhole
<1>2. IInv /\ [Next]_vars =>
        [(operation.kind = "restore" /\ active # None)
           => workers'[active].story = workers[active].story]_vars
  BY StillWhileStaged
<1> QED BY Inductive, <1>1, <1>2, PTL DEF Spec, SwapLosesNothing, SwapIsWhole, ActiveIsStill

-----------------------------------------------------------------------------
(* Refinement: the story of the lease that was active last is the log.     *)

ActiveStory == IF lastActive = None THEN <<>> ELSE workers[lastActive].story

\* A turn of the active worker is a commit.
LEMMA RunTurnView ==
  ASSUME IInv, NEW l \in Leases, RunTurn(l)
  PROVE  \E r \in Request : Journal!Commit(r)
<1> DEFINE r == workers[l].posted
<1>1. /\ l = lastActive /\ l # None /\ r \in Request
  BY RunnerIsActive
<1>2. /\ lastActive' = lastActive /\ saves' = saves /\ reply' = reply
      /\ workers'[l].story = Append(workers[l].story, r)
      /\ r.expectedRevision = Len(workers[l].story)
      /\ \A i \in 1..Len(workers[l].story) : workers[l].story[i].requestId # r.requestId
  BY DEF RunTurn, Runnable, facadeVars, IInv, Types, Worker
<1>3. ActiveStory = workers[l].story /\ ActiveStory' = Append(ActiveStory, r)
  BY <1>1, <1>2 DEF ActiveStory
<1>4. Journal!Commit(r)
  BY <1>2, <1>3 DEF Journal!Commit, Journal!Entries, ActiveStory
<1> QED BY <1>1, <1>4

\* The end of an execute is a true answer.
LEMMA AnswerView ==
  ASSUME IInv, ExecuteReturns
  PROVE  \E r \in Request : Journal!AnswerCommitted(r) \/ Journal!AnswerRejected(r)
<1> DEFINE r == operation.request
           w == workers[operation.lease]
           turns == {i \in 1..Len(w.story) : w.story[i] = r}
<1>1. r \in Request /\ operation.lease \in Leases /\ operation.lease = lastActive
  BY CallFacts DEF ExecuteReturns, IInv, Types, CallInv, ExecuteCall
<1>2. lastActive # None
  BY <1>1, FacadeConstants DEF FacadeConstants
<1>3. /\ lastActive' = lastActive /\ saves' = saves
      /\ reply' = [status |-> IF turns = {} THEN "rejected" ELSE "committed", request |-> r]
      /\ workers'[lastActive].story = workers[lastActive].story
  BY <1>1 DEF ExecuteReturns, IInv, Types, Worker
<1>4. ActiveStory' = ActiveStory /\ ActiveStory = w.story
  BY <1>1, <1>2, <1>3 DEF ActiveStory
<1>5. r \in Journal!Entries(ActiveStory) <=> turns # {}
  BY <1>4 DEF Journal!Entries
<1>6. CASE turns # {}
  <2>1. Journal!AnswerCommitted(r)
    BY <1>3, <1>4, <1>5, <1>6 DEF Journal!AnswerCommitted, ActiveStory
  <2> QED BY <1>1, <2>1
<1>7. CASE turns = {}
  <2>1. Journal!AnswerRejected(r)
    BY <1>3, <1>4, <1>5, <1>7 DEF Journal!AnswerRejected, ActiveStory
  <2> QED BY <1>1, <2>1
<1> QED BY <1>6, <1>7

\* A swap replaces the log by a checkpoint.
LEMMA SwapView ==
  ASSUME IInv, Swap
  PROVE  Journal!Rewind
<1>1. /\ At("inspect") /\ lastActive' = operation.candidate
      /\ workers' = Terminated(workers, {operation.lease})
      /\ saves' = saves /\ reply' = reply
  BY DEF Swap
<1>2. /\ operation.candidate \in Leases /\ operation.kind = "restore"
      /\ workers[operation.candidate].story = operation.story
  BY <1>1, CandidateFacts
<1>3. operation.story \in saves
  BY <1>2 DEF IInv, CallInv
<1>4. workers'[operation.candidate].story = operation.story
  BY <1>1, <1>2, TerminatedFacts DEF IInv, Types
<1>5. ActiveStory' \in saves
  BY <1>1, <1>2, <1>3, <1>4, FacadeConstants DEF ActiveStory, FacadeConstants
<1> QED BY <1>1, <1>5 DEF Journal!Rewind, ActiveStory

\* Every step of the facade and its workers is a step of the journal, or
\* invisible in it.
LEMMA StepView ==
  ASSUME IInv, [Next]_vars
  PROVE  [Journal!Next]_(Journal!journalVars)
<1>0. lastActive \in Leases \cup {None}
  BY DEF IInv, Types
<1>1. CASE \E l \in Leases : RunTurn(l)
  BY <1>1, RunTurnView DEF Journal!Next
<1>2. CASE ExecuteReturns
  BY <1>2, AnswerView DEF Journal!Next
<1>3. CASE Swap
  BY <1>3, SwapView DEF Journal!Next
<1>4. CASE CandidateBooted
  <2>1. /\ saves' = saves /\ reply' = reply
        /\ At("boot") /\ workers[operation.candidate].phase = "virgin"
    BY <1>4 DEF CandidateBooted
  <2>2. operation.candidate \in Leases /\ operation.candidate # lastActive
    BY <2>1, CandidateFacts
  <2>3. /\ workers'[operation.candidate].story = workers[operation.candidate].story
        /\ workers[operation.candidate].story = <<>>
    BY <1>4, <2>1, <2>2 DEF CandidateBooted, IInv, Types, LeaseInv, Worker
  <2>4. lastActive \in Leases => workers'[lastActive].story = workers[lastActive].story
    BY <1>4, <2>2 DEF CandidateBooted, IInv, Types
  <2>5. \/ lastActive = None /\ lastActive' = operation.candidate
        \/ lastActive' = lastActive
    BY <1>4 DEF CandidateBooted, IInv, CallInv
  <2>6. ActiveStory' = ActiveStory
    BY <1>0, <2>2, <2>3, <2>4, <2>5 DEF ActiveStory
  <2> QED BY <2>1, <2>6 DEF Journal!journalVars, ActiveStory
<1>5. CASE CandidateRestored
  <2>1. operation.candidate # lastActive
    BY <1>5, CandidateFacts DEF CandidateRestored
  <2>2. lastActive' = lastActive /\ saves' = saves /\ reply' = reply
    BY <1>5 DEF CandidateRestored
  <2>3. ActiveStory' = ActiveStory
    BY <1>0, <1>5, <2>1, <2>2 DEF CandidateRestored, IInv, Types, ActiveStory
  <2> QED BY <2>2, <2>3 DEF Journal!journalVars, ActiveStory
<1>6. CASE /\ ~ExecuteReturns /\ ~Swap /\ ~CandidateBooted /\ ~CandidateRestored
           /\ ~ \E l \in Leases : RunTurn(l)
  <2>1. \A x \in Leases : workers'[x].story = workers[x].story
    BY <1>6, StoriesStand
  <2>2. /\ lastActive' = lastActive
        /\ \/ saves' = saves /\ reply' \in {reply, NoReply}
           \/ SnapshotReturns
    BY <1>6 DEF Next, Finishes, vars, facadeVars, Boot, DigestMatches, RefuseTurn, WorkerDies,
       Execute, Snapshot, InspectPublicState, Restore, AbortRestore, Dispose, ExecuteLost,
       InspectReturns, SnapshotReturns, SnapshotOrInspectFails, StageFails, GiveUp,
       CandidateCreated
  <2>3. ActiveStory' = ActiveStory
    BY <1>0, <2>1, <2>2 DEF ActiveStory
  <2>4. CASE SnapshotReturns
    <3>1. operation.lease \in Leases /\ operation.lease = lastActive
      BY <2>4, CallFacts DEF SnapshotReturns, IInv, Types, CallInv, ReadCall
    <3>2. saves' = saves \cup {ActiveStory} /\ reply' = reply
      BY <2>4, <3>1, FacadeConstants DEF SnapshotReturns, ActiveStory, FacadeConstants
    <3>3. Journal!Checkpoint
      BY <2>3, <3>2 DEF Journal!Checkpoint, ActiveStory
    <3> QED BY <3>3 DEF Journal!Next
  <2>5. CASE saves' = saves /\ reply' = reply
    BY <2>3, <2>5 DEF Journal!journalVars, ActiveStory
  <2>6. CASE saves' = saves /\ reply' = NoReply
    <3>1. Journal!Forget
      BY <2>3, <2>6 DEF Journal!Forget, ActiveStory, NoReply, Journal!NoReply
    <3> QED BY <3>1 DEF Journal!Next
  <2> QED BY <2>2, <2>4, <2>5, <2>6
<1> QED BY <1>1, <1>2, <1>3, <1>4, <1>5, <1>6

\* With replacement workers, cancelled and failed restores and disposal, the
\* facade still keeps the engine port's promise: the story is a log, and only
\* a checkpoint ever takes its place.
THEOREM FacadeImplementsJournal == Spec => JournalSpec
<1>1. Init => Journal!Init
  BY DEF Init, Journal!Init, NoReply, Journal!NoReply
<1>2. IInv /\ [Next]_vars => [Journal!Next]_(Journal!journalVars)
  BY StepView
<1> QED BY Inductive, <1>1, <1>2, PTL DEF Spec, JournalSpec, Journal!Spec

=============================================================================
