--------------------------- MODULE DorkWorkerEngine ---------------------------
(***************************************************************************)
(* DorkWorkerEngine, the facade that owns the active worker lease and      *)
(* restores a snapshot by staging it in a replacement worker               *)
(* (spikes/dork-worker/dork-worker-engine.ts), with the lease factory      *)
(* (browser-worker-transport.ts).  Each lease stands for one adapter, one  *)
(* transport and one worker; what they do between them is WorkerProtocol,  *)
(* and here they are represented by what it shows of them: a story, the    *)
(* request the adapter holds uncertain, and the request the worker has     *)
(* been posted and not yet dealt with.                                     *)
(* A lease that is replaced, given up or disposed of is terminated for     *)
(* good.  Calls the facade refuses before it changes anything are not      *)
(* actions.                                                                *)
(***************************************************************************)
EXTENDS Naturals, Sequences, FiniteSets

CONSTANTS
  Leases,       \* workers the factory can create
  RequestIds,   \* identities callers give to execute requests
  MaxRevision,  \* bound: turns a story may take
  None          \* undefined

Request == [requestId : RequestIds, expectedRevision : 0..MaxRevision]

ASSUME FacadeConstants ==
  /\ None \notin Leases \cup Request
  /\ MaxRevision \in Nat

NoReply == [status |-> "none"]

VARIABLES
  active,       \* #active: its lease
  cached,       \* #active.state: its revision
  operation,    \* #operation, with what its async frame holds
  uncertain,    \* #uncertainExecute
  disposed,     \* #disposed; #lifecycleEpoch changes only with it
  workers,      \* the leases
  saves,        \* the stories of the snapshots callers hold
  reply,        \* the answer the latest finished execute returned
  lastActive    \* history: the lease that was active last

facadeVars == <<active, cached, operation, uncertain, disposed, lastActive>>
vars == <<active, cached, operation, uncertain, disposed, workers, saves, reply, lastActive>>

Unused == [phase |-> "unused", story |-> <<>>, posted |-> None, uncertain |-> None]

NoOperation == [kind |-> "none"]

Init ==
  /\ active = None
  /\ cached = 0
  /\ operation = NoOperation
  /\ uncertain = None
  /\ disposed = FALSE
  /\ workers = [l \in Leases |-> Unused]
  /\ saves = {}
  /\ reply = NoReply
  /\ lastActive = None

-----------------------------------------------------------------------------
(* Leases.                                                                 *)

Alive(l) == workers[l].phase \in {"initializing", "virgin", "live"}

\* A terminated worker runs nothing that was posted to it.
Gone(w) == [w EXCEPT !.phase = "gone", !.posted = None]

\* terminateQuietly
Terminated(ws, ls) == [l \in Leases |-> IF l \in ls THEN Gone(ws[l]) ELSE ws[l]]

\* The factory starts a worker; its initialization is under way.
Create(l) ==
  /\ workers[l].phase = "unused"
  /\ workers' = [workers EXCEPT ![l].phase = "initializing"]

Runnable(w) ==
  /\ w.posted # None
  /\ w.posted.expectedRevision = Len(w.story)
  /\ \A i \in 1..Len(w.story) : w.story[i].requestId # w.posted.requestId
  /\ Len(w.story) < MaxRevision

\* A live worker runs the request it was posted, or refuses it.
RunTurn(l) ==
  /\ workers[l].phase = "live"
  /\ Runnable(workers[l])
  /\ workers' = [workers EXCEPT ![l].story = Append(@, workers[l].posted), ![l].posted = None]
  /\ UNCHANGED facadeVars
  /\ UNCHANGED <<saves, reply>>

RefuseTurn(l) ==
  /\ workers[l].phase = "live"
  /\ workers[l].posted # None
  /\ workers' = [workers EXCEPT ![l].posted = None]
  /\ UNCHANGED facadeVars
  /\ UNCHANGED <<saves, reply>>

\* A worker error event: its lease terminates itself.
WorkerDies(l) ==
  /\ Alive(l)
  /\ workers' = Terminated(workers, {l})
  /\ UNCHANGED facadeVars
  /\ UNCHANGED <<saves, reply>>

-----------------------------------------------------------------------------
(* The facade's calls.                                                     *)

Usable == ~disposed /\ operation = NoOperation

Boot(l) ==
  /\ Usable
  /\ active = None
  /\ Create(l)
  /\ operation' = [kind |-> "boot", stage |-> "create", candidate |-> l]
  /\ UNCHANGED <<active, cached, uncertain, disposed, saves, reply, lastActive>>

\* The adapter admits a new request when it is confirmed, and otherwise only
\* the uncertain one.
Execute(r) ==
  /\ Usable
  /\ active # None
  /\ workers[active].uncertain \in {None, r}
  /\ operation' = [kind |-> "execute", lease |-> active, request |-> r]
  /\ workers' = IF Alive(active) THEN [workers EXCEPT ![active].posted = r] ELSE workers
  /\ reply' = NoReply
  /\ UNCHANGED <<active, cached, uncertain, disposed, saves, lastActive>>

Snapshot ==
  /\ Usable
  /\ active # None
  /\ workers[active].uncertain = None
  /\ operation' = [kind |-> "snapshot", lease |-> active]
  /\ UNCHANGED <<active, cached, uncertain, disposed, workers, saves, reply, lastActive>>

InspectPublicState ==
  /\ Usable
  /\ active # None
  /\ operation' = [kind |-> "inspect", lease |-> active]
  /\ UNCHANGED <<active, cached, uncertain, disposed, workers, saves, reply, lastActive>>

\* Mutant: a restore may start while an execute is uncertain.
RestoreAnyway(story, quality) ==
  /\ Usable
  /\ active # None
  /\ operation' = [kind |-> "restore", stage |-> "digest", lease |-> active,
                   candidate |-> None, story |-> story, quality |-> quality,
                   aborted |-> FALSE]
  /\ reply' = NoReply
  /\ UNCHANGED <<active, cached, uncertain, disposed, workers, saves, lastActive>>

\* The snapshot a caller presents may be sound, have a digest that does not
\* match its bytes, or match it and fail to decode in the worker.
Restore(story, quality) ==
  /\ Usable
  /\ active # None
  /\ uncertain = None
  /\ operation' = [kind |-> "restore", stage |-> "digest", lease |-> active,
                   candidate |-> None, story |-> story, quality |-> quality,
                   aborted |-> FALSE]
  /\ reply' = NoReply
  /\ UNCHANGED <<active, cached, uncertain, disposed, workers, saves, lastActive>>

\* The caller's signal.  An execute's exchange is rejected on the spot.
AbortRestore ==
  /\ operation.kind = "restore"
  /\ ~operation.aborted
  /\ operation' = [operation EXCEPT !.aborted = TRUE]
  /\ UNCHANGED <<active, cached, uncertain, disposed, workers, saves, reply, lastActive>>

\* Mutant: the active worker is left running.
DisposeQuietly ==
  /\ ~disposed
  /\ disposed' = TRUE
  /\ active' = None
  /\ UNCHANGED <<cached, operation, uncertain, workers, saves, reply, lastActive>>

Dispose ==
  /\ ~disposed
  /\ disposed' = TRUE
  /\ workers' = Terminated(workers, {active})
  /\ active' = None
  /\ UNCHANGED <<cached, operation, uncertain, saves, reply, lastActive>>

-----------------------------------------------------------------------------
(* An execute, a snapshot or an inspection ends.                           *)

\* Mutant: a recovered receipt does not clear #uncertainExecute.
ExecuteReturnsUncleared ==
  /\ operation.kind = "execute"
  /\ LET l == operation.lease
         r == operation.request
         turns == {i \in 1..Len(workers[l].story) : workers[l].story[i] = r}
     IN
       /\ workers[l].phase = "live"
       /\ workers[l].posted = None
       /\ workers' = [workers EXCEPT ![l].uncertain = None]
       /\ cached' = IF \E i \in turns : i >= cached
                    THEN CHOOSE i \in turns : TRUE ELSE cached
       /\ reply' = [status |-> IF turns = {} THEN "rejected" ELSE "committed",
                    request |-> r]
  /\ operation' = NoOperation
  /\ UNCHANGED <<active, uncertain, disposed, saves, lastActive>>

\* The worker has answered.  A request is in the story at most once, and its
\* place there is the revision of its receipt.
ExecuteReturns ==
  /\ operation.kind = "execute"
  /\ LET l == operation.lease
         r == operation.request
         turns == {i \in 1..Len(workers[l].story) : workers[l].story[i] = r}
     IN
       /\ workers[l].phase = "live"
       /\ workers[l].posted = None
       /\ workers' = [workers EXCEPT ![l].uncertain = None]
       /\ cached' = IF \E i \in turns : i >= cached
                    THEN CHOOSE i \in turns : TRUE ELSE cached
       /\ reply' = [status |-> IF turns = {} THEN "rejected" ELSE "committed",
                    request |-> r]
  /\ uncertain' = None
  /\ operation' = NoOperation
  /\ UNCHANGED <<active, disposed, saves, lastActive>>

\* EngineExecutionUncertainError: the call was aborted, the worker reported
\* an error or is gone.  What was posted stays posted.
ExecuteLost ==
  /\ operation.kind = "execute"
  /\ workers' = [workers EXCEPT ![operation.lease].uncertain = operation.request]
  /\ uncertain' = operation.request
  /\ operation' = NoOperation
  /\ UNCHANGED <<active, cached, disposed, saves, reply, lastActive>>

SnapshotReturns ==
  /\ operation.kind = "snapshot"
  /\ workers[operation.lease].phase = "live"
  /\ saves' = saves \cup {workers[operation.lease].story}
  /\ operation' = NoOperation
  /\ UNCHANGED <<active, cached, uncertain, disposed, workers, reply, lastActive>>

\* A worker still busy with an abandoned execute refuses the inspection.
InspectReturns ==
  /\ operation.kind = "inspect"
  /\ workers[operation.lease].phase = "live"
  /\ workers[operation.lease].posted = None
  /\ cached' = Len(workers[operation.lease].story)
  /\ operation' = NoOperation
  /\ UNCHANGED <<active, uncertain, disposed, workers, saves, reply, lastActive>>

SnapshotOrInspectFails ==
  /\ operation.kind \in {"snapshot", "inspect"}
  /\ operation' = NoOperation
  /\ UNCHANGED <<active, cached, uncertain, disposed, workers, saves, reply, lastActive>>

-----------------------------------------------------------------------------
(* A boot or a restore goes through its stages on a candidate lease.       *)

Staging == operation.kind \in {"boot", "restore"}

At(stage) == Staging /\ operation.stage = stage

Aborted == operation.kind = "restore" /\ operation.aborted

\* Mutant: the candidate of a failed stage is not terminated.
GiveUpCarelessly ==
  /\ operation' = NoOperation
  /\ UNCHANGED <<active, cached, uncertain, disposed, workers, saves, reply, lastActive>>

\* Every way out that is not success: finally terminates the candidate.
GiveUp ==
  /\ workers' = Terminated(workers, {operation.candidate})
  /\ operation' = NoOperation
  /\ UNCHANGED <<active, cached, uncertain, disposed, saves, reply, lastActive>>

\* Creation fails or times out, the candidate reports an error or dies, the
\* digest does not match, the worker rejects the snapshot, or the caller
\* cancels.
StageFails ==
  /\ Staging
  /\ GiveUp

\* Mutant: the call loses track of the candidate it asked for.
DigestMatchesUntracked(l) ==
  /\ At("digest")
  /\ operation.quality # "corrupt_outer"
  /\ ~Aborted
  /\ Create(l)
  /\ operation' = [operation EXCEPT !.stage = "create"]
  /\ UNCHANGED <<active, cached, uncertain, disposed, saves, reply, lastActive>>

\* The outer digest matches and the call was not cancelled meanwhile.
DigestMatches(l) ==
  /\ At("digest")
  /\ operation.quality # "corrupt_outer"
  /\ ~Aborted
  /\ Create(l)
  /\ operation' = [operation EXCEPT !.stage = "create", !.candidate = l]
  /\ UNCHANGED <<active, cached, uncertain, disposed, saves, reply, lastActive>>

CandidateCreated ==
  /\ At("create")
  /\ workers[operation.candidate].phase = "initializing"
  /\ ~Aborted
  /\ workers' = [workers EXCEPT ![operation.candidate].phase = "virgin"]
  /\ operation' = [operation EXCEPT !.stage = "boot"]
  /\ UNCHANGED <<active, cached, uncertain, disposed, saves, reply, lastActive>>

\* The candidate answered its boot.  A boot makes it the active lease unless
\* the facade was disposed of meanwhile; a restore goes on.
CandidateBooted ==
  /\ At("boot")
  /\ workers[operation.candidate].phase = "virgin"
  /\ ~Aborted
  /\ \/ /\ operation.kind = "boot"
        /\ ~disposed
        /\ active' = operation.candidate
        /\ lastActive' = operation.candidate
        /\ cached' = 0
        /\ operation' = NoOperation
     \/ /\ operation.kind = "restore"
        /\ operation' = [operation EXCEPT !.stage = "restore"]
        /\ UNCHANGED <<active, cached, lastActive>>
  /\ workers' = [workers EXCEPT ![operation.candidate].phase = "live"]
  /\ UNCHANGED <<uncertain, disposed, saves, reply>>

\* Mutant: a snapshot the candidate cannot decode is taken as far as it goes.
CandidateRestoredPartly ==
  LET n == Len(operation.story) IN
  /\ At("restore")
  /\ workers[operation.candidate].phase = "live"
  /\ ~Aborted
  /\ workers' = [workers EXCEPT ![operation.candidate].story =
                   IF operation.quality = "sound" \/ n = 0 THEN operation.story
                   ELSE SubSeq(operation.story, 1, n - 1)]
  /\ operation' = [operation EXCEPT !.stage = "inspect"]
  /\ UNCHANGED <<active, cached, uncertain, disposed, saves, reply, lastActive>>

CandidateRestored ==
  /\ At("restore")
  /\ workers[operation.candidate].phase = "live"
  /\ operation.quality = "sound"
  /\ ~Aborted
  /\ workers' = [workers EXCEPT ![operation.candidate].story = operation.story]
  /\ operation' = [operation EXCEPT !.stage = "inspect"]
  /\ UNCHANGED <<active, cached, uncertain, disposed, saves, reply, lastActive>>

\* Mutant: the lifecycle check before the swap is missing.
SwapRegardless ==
  /\ At("inspect")
  /\ workers[operation.candidate].phase = "live"
  /\ ~Aborted
  /\ active' = operation.candidate
  /\ lastActive' = operation.candidate
  /\ cached' = Len(workers[operation.candidate].story)
  /\ uncertain' = None
  /\ workers' = Terminated(workers, {operation.lease})
  /\ operation' = NoOperation
  /\ UNCHANGED <<disposed, saves, reply>>

\* Mutant: the replacement keeps the cached state of the lease it replaces.
SwapStale ==
  /\ At("inspect")
  /\ workers[operation.candidate].phase = "live"
  /\ ~Aborted
  /\ ~disposed
  /\ active' = operation.candidate
  /\ lastActive' = operation.candidate
  /\ uncertain' = None
  /\ workers' = Terminated(workers, {operation.lease})
  /\ operation' = NoOperation
  /\ UNCHANGED <<cached, disposed, saves, reply>>

\* The candidate's public state was inspected: it replaces the active lease
\* in one step, and the former worker is terminated.
Swap ==
  /\ At("inspect")
  /\ workers[operation.candidate].phase = "live"
  /\ ~Aborted
  /\ ~disposed
  /\ active' = operation.candidate
  /\ lastActive' = operation.candidate
  /\ cached' = Len(workers[operation.candidate].story)
  /\ uncertain' = None
  /\ workers' = Terminated(workers, {operation.lease})
  /\ operation' = NoOperation
  /\ UNCHANGED <<disposed, saves, reply>>

-----------------------------------------------------------------------------

Finishes ==
  \/ ExecuteReturns \/ ExecuteLost
  \/ SnapshotReturns \/ InspectReturns \/ SnapshotOrInspectFails
  \/ StageFails \/ CandidateCreated \/ CandidateBooted \/ CandidateRestored \/ Swap

Next ==
  \/ \E l \in Leases :
       \/ Boot(l)
       \/ DigestMatches(l)
       \/ RunTurn(l)
       \/ RefuseTurn(l)
       \/ WorkerDies(l)
  \/ \E r \in Request : Execute(r)
  \/ Snapshot
  \/ InspectPublicState
  \/ \E s \in saves, q \in {"sound", "corrupt_outer", "corrupt_inner"} : Restore(s, q)
  \/ AbortRestore
  \/ Dispose
  \/ Finishes

Spec == Init /\ [][Next]_vars

\* Workers answer or die, and the factory's initialization has a timeout.
FairSpec == Spec /\ WF_vars(Finishes \/ \E l \in Leases : DigestMatches(l))

-----------------------------------------------------------------------------
(* Properties.                                                             *)

\* The variables hold values of the shape the code gives them.
TypeOK ==
  /\ active \in Leases \cup {None}
  /\ cached \in 0..MaxRevision
  /\ operation.kind \in {"none", "boot", "execute", "snapshot", "inspect", "restore"}
  /\ Staging => operation.stage = "digest" \/ operation.candidate \in Leases
  /\ uncertain \in Request \cup {None}
  /\ disposed \in BOOLEAN
  /\ \A l \in Leases :
       /\ workers[l].phase \in {"unused", "initializing", "virgin", "live", "gone"}
       /\ workers[l].story \in Seq(Request)
       /\ workers[l].posted \in Request \cup {None}
       /\ workers[l].uncertain \in Request \cup {None}
  /\ saves \subseteq Seq(Request)

\* Between calls the only worker that is running is the active one: failed,
\* cancelled and replaced leases are all terminated, and a disposed facade
\* keeps none.
NoOrphanWorker ==
  operation = NoOperation => \A l \in Leases : Alive(l) => l = active

\* The facade and the adapter agree on which execute is uncertain, so that
\* the retry the facade waits for is the one the adapter admits.
UncertaintyAgrees ==
  (active # None /\ operation = NoOperation) => uncertain = workers[active].uncertain

\* The cached state from which a rejected restore is answered is the active
\* engine's, unless an execute is uncertain.
CachedStateIsCurrent ==
  (active # None /\ operation = NoOperation /\ uncertain = None)
    => cached = Len(workers[active].story)

\* While a restore is staged the active story stands still: no abandoned
\* execute can add a turn that the swap would then lose.
ActiveIsStill ==
  [][(operation.kind = "restore" /\ active # None)
       => workers'[active].story = workers[active].story]_vars

\* The active lease is replaced only by a candidate that holds the whole
\* snapshot, on behalf of a caller that did not cancel; a disposed facade
\* never gets an active lease again.
SwapIsWhole ==
  [][(active' # active /\ active' # None)
       => /\ ~disposed
          /\ active # None =>
               /\ workers[active'].story \in saves
               /\ workers[active'].story = operation.story
               /\ ~operation.aborted
               /\ workers'[active].phase = "gone"]_vars

\* The facade's variables are well formed, and what it answers from is current.
FacadeState == TypeOK /\ CachedStateIsCurrent

\* A swap is whole, and nothing happens to the active story while one is staged.
SwapLosesNothing == SwapIsWhole /\ ActiveIsStill

\* Once the facade is disposed of, every worker it started is terminated.
DisposeReleasesAll == disposed ~> \A l \in Leases : ~Alive(l)

\* Replacement restores keep the engine port's promise.
Journal == INSTANCE EngineJournal WITH
             log <- IF lastActive = None THEN <<>> ELSE workers[lastActive].story,
             checkpoints <- saves

JournalSpec == Journal!Spec

\* "Engine failure restores the most recent verified checkpoint"
\* (docs/architecture.md): when the active worker is gone, a caller that
\* holds a snapshot is allowed to restore it.  The code does not promise
\* this while an execute is uncertain.
FailedEngineRestorable ==
  (Usable /\ active # None /\ ~Alive(active))
    => \A s \in saves : ENABLED Restore(s, "sound")

=============================================================================
