---------------------------- MODULE WorkerProtocol ----------------------------
(***************************************************************************)
(* One engine worker lease, end to end:                                    *)
(*   - WorkerEngineAdapter, the host side (packages/game-engine);          *)
(*   - BrowserDorkWorkerLease, the message transport, and the endpoint     *)
(*     that feeds the worker (spikes/dork-worker/browser-worker-*.ts);     *)
(*   - DorkWorkerRuntime over one DorkCandidateSession, the worker side.   *)
(* The host and the worker run concurrently and share only two FIFO        *)
(* message queues.  An execute may be abandoned by its caller after it was *)
(* posted; the worker still runs and journals it.  The worker may die.     *)
(* Calls the adapter refuses before posting anything leave every variable  *)
(* alone and are not actions.                                              *)
(***************************************************************************)
EXTENDS Naturals, Sequences, FiniteSets

CONSTANTS
  RequestIds,       \* identities callers give to execute requests
  Commands,         \* canonical commands
  LongCommands,     \* those longer than the story's input buffer
  MaxRevision,      \* Number.MAX_SAFE_INTEGER in the code
  MaxReceipts,      \* #maxReceipts
  MaxJournalBytes,  \* #maxReceiptJournalBytes
  WorstBytes,       \* size of the largest committed receipt
  RejectBytes,      \* size of a rejection's receipt
  MaxMessages,      \* bound: operations the host may start
  MaxSaves          \* bound: snapshots the host may hold

ASSUME ProtocolConstants ==
  /\ LongCommands \subseteq Commands
  /\ MaxRevision \in Nat
  /\ MaxReceipts \in Nat
  /\ MaxJournalBytes \in Nat
  /\ WorstBytes \in Nat \ {0}
  /\ RejectBytes \in 1..WorstBytes
  /\ MaxMessages \in Nat
  /\ MaxSaves \in Nat

Boundaries == {"input-requested", "terminated"}

Request == [requestId : RequestIds,
            expectedRevision : 0..MaxRevision,
            command : Commands]

Rejections == {"stale_revision", "duplicate", "invalid_command", "receipt_capacity"}

\* ExecuteResult without its text; a committed result has no rejection.
Result == [status : {"committed", "rejected"},
           rejection : Rejections \cup {"none"},
           previousRevision : 0..MaxRevision,
           revision : 0..MaxRevision,
           boundary : Boundaries]

Receipt == [request : Request, result : Result]

\* A receipt journal: a Map from request identities to receipts.
IsJournal(f) == DOMAIN f \subseteq RequestIds /\ \A id \in DOMAIN f : f[id] \in Receipt

\* An EngineSnapshot: what the worker envelope carries.  story stands for
\* the machine checkpoint, which the command history determines.
IsSnapshot(s) ==
  /\ s.revision \in 0..MaxRevision
  /\ s.story \in Seq(Request)
  /\ IsJournal(s.receipts)
  /\ s.journalBytes \in 0..MaxJournalBytes

Idle == [kind |-> "none", id |-> 0]

VARIABLES
  \* --- WorkerEngineAdapter
  booted,        \* #compatibility is defined
  revision,      \* #revision
  boundary,      \* #boundary
  operation,     \* #operationInFlight, with what its async frame holds
  recovery,      \* #recoveryState
  nextId,        \* #nextMessageId
  saves,         \* snapshots returned to callers
  reply,         \* the answer the latest finished execute returned
  \* --- BrowserDorkWorkerLease
  terminated,    \* #terminated
  pending,       \* the keys of #pending
  toWorker,      \* posted to the worker, not yet received
  toHost,        \* posted to the host, not yet received
  \* --- DorkWorkerRuntime
  session,       \* #session: status, revision, boundary, applied requests
  receipts,      \* #receipts
  journalBytes,  \* #receiptJournalBytes
  busy           \* the request #operationInFlight stands for

adapterVars == <<booted, revision, boundary, operation, recovery, nextId, saves, reply>>
leaseVars == <<terminated, pending, toWorker, toHost>>
runtimeVars == <<session, receipts, journalBytes, busy>>
vars == <<booted, revision, boundary, operation, recovery, nextId, saves, reply,
          terminated, pending, toWorker, toHost,
          session, receipts, journalBytes, busy>>

Ready == [kind |-> "ready"]
Uncertain(r) == [kind |-> "execute-uncertain", request |-> r]
NoReply == [status |-> "none"]
NoSession == [status |-> "none", revision |-> 0,
              boundary |-> "input-requested", story |-> <<>>]

Init ==
  /\ booted = FALSE
  /\ revision = 0
  /\ boundary = "input-requested"
  /\ operation = Idle
  /\ recovery = Ready
  /\ nextId = 1
  /\ saves = {}
  /\ reply = NoReply
  /\ terminated = FALSE
  /\ pending = {}
  /\ toWorker = <<>>
  /\ toHost = <<>>
  /\ session = NoSession
  /\ receipts = <<>>
  /\ journalBytes = 0
  /\ busy = Idle

-----------------------------------------------------------------------------
(* The host starts an operation.                                           *)

\* #beginOperation, #allocateMessageId and #exchange up to the post.  A
\* terminated lease throws: nothing is posted and nothing becomes pending.
Submit(kind, body) ==
  /\ operation = Idle
  /\ nextId <= MaxMessages
  /\ operation' = [kind |-> kind, id |-> nextId, body |-> body,
                   revision |-> revision, boundary |-> boundary]
  /\ nextId' = nextId + 1
  /\ IF terminated
     THEN UNCHANGED <<pending, toWorker>>
     ELSE /\ pending' = pending \cup {nextId}
          /\ toWorker' = Append(toWorker, [id |-> nextId, kind |-> kind, body |-> body])
  /\ UNCHANGED <<booted, revision, boundary, recovery, saves, terminated, toHost>>
  /\ UNCHANGED runtimeVars

Boot ==
  /\ ~booted
  /\ recovery.kind # "boot-quarantined"
  /\ Submit("boot", "story")
  /\ UNCHANGED reply

\* Mutant: an uncertain execute no longer blocks other requests.
ExecuteAllowedAnyway(r) ==
  \/ recovery.kind = "ready" /\ boundary # "terminated"
  \/ recovery.kind = "execute-uncertain"

\* #assertExecuteAllowed and the terminated check.
ExecuteAllowed(r) ==
  \/ recovery.kind = "ready" /\ boundary # "terminated"
  \/ recovery = Uncertain(r)

Execute(r) ==
  /\ booted
  /\ ExecuteAllowed(r)
  /\ Submit("execute", r)
  /\ reply' = NoReply

\* #assertReadyOperation
ReadyOperation == recovery.kind \notin {"execute-uncertain", "restore-quarantined"}

TakeSnapshot ==
  /\ booted
  /\ ReadyOperation
  /\ Cardinality(saves) < MaxSaves
  /\ Submit("snapshot", "none")
  /\ UNCHANGED reply

\* A snapshot whose envelope is unsound has a matching outer digest but
\* bytes the worker cannot decode into a session.
Restore(s, sound) ==
  /\ booted
  /\ ReadyOperation
  /\ Submit("restore", [snapshot |-> s, sound |-> sound])
  /\ reply' = NoReply

InspectPublicState ==
  /\ booted
  /\ Submit("inspect", "none")
  /\ UNCHANGED reply

-----------------------------------------------------------------------------
(* The host settles the operation in flight.                               *)

\* Mutant: an execute that fails is forgotten instead of held uncertain.
FailOperationForgetful ==
  /\ recovery' = CASE operation.kind = "boot" -> [kind |-> "boot-quarantined"]
                   [] operation.kind = "restore" -> [kind |-> "restore-quarantined"]
                   [] OTHER -> recovery
  /\ operation' = Idle
  /\ UNCHANGED <<booted, revision, boundary, saves, reply>>

\* The catch clauses of boot, execute and restore; snapshot and inspect have
\* none.
FailOperation ==
  /\ recovery' = CASE operation.kind = "boot" -> [kind |-> "boot-quarantined"]
                   [] operation.kind = "execute" -> Uncertain(operation.body)
                   [] operation.kind = "restore" -> [kind |-> "restore-quarantined"]
                   [] OTHER -> recovery
  /\ operation' = Idle
  /\ UNCHANGED <<booted, revision, boundary, saves, reply>>

\* Mutant: only a result that advances the known revision is believed.
AcceptsExecuteFresh(r, res, rev, bnd) ==
  IF res.status = "committed"
  THEN /\ res.previousRevision = r.expectedRevision
       /\ res.revision = res.previousRevision + 1
       /\ rev = res.previousRevision
  ELSE /\ res.rejection \in Rejections
       /\ res.previousRevision = res.revision
       /\ res.revision <= rev
       /\ res.revision = rev => res.boundary = bnd

\* #validateExecuteResult against the revision and boundary captured when
\* the call began.
AcceptsExecute(r, res, rev, bnd) ==
  IF res.status = "committed"
  THEN /\ res.previousRevision = r.expectedRevision
       /\ res.revision = res.previousRevision + 1
       /\ rev = res.previousRevision \/ rev >= res.revision
       /\ res.revision = rev => res.boundary = bnd
  ELSE /\ res.rejection \in Rejections
       /\ res.previousRevision = res.revision
       /\ res.revision <= rev
       /\ res.revision = rev => res.boundary = bnd

ConfirmExecute(res) ==
  /\ IF res.status = "committed" /\ res.revision >= operation.revision
     THEN revision' = res.revision /\ boundary' = res.boundary
     ELSE revision' = operation.revision /\ UNCHANGED boundary
  /\ recovery' = Ready
  /\ reply' = [status |-> res.status, request |-> operation.body]
  /\ operation' = Idle
  /\ UNCHANGED <<booted, saves>>

ConfirmBoot(bnd) ==
  /\ booted' = TRUE
  /\ revision' = 0
  /\ boundary' = bnd
  /\ recovery' = Ready
  /\ operation' = Idle
  /\ UNCHANGED <<saves, reply>>

ConfirmSnapshot(s) ==
  /\ saves' = saves \cup {s}
  /\ operation' = Idle
  /\ UNCHANGED <<booted, revision, boundary, recovery, reply>>

AcceptsRestore(res) ==
  IF res.status = "restored"
  THEN res.revision = operation.body.snapshot.revision
  ELSE res.revision = operation.revision /\ res.boundary = operation.boundary

ConfirmRestore(res) ==
  /\ IF res.status = "restored"
     THEN revision' = res.revision /\ boundary' = res.boundary /\ recovery' = Ready
     ELSE UNCHANGED <<revision, boundary, recovery>>
  /\ operation' = Idle
  /\ UNCHANGED <<booted, saves, reply>>

\* Inspection of a confirmed engine must agree exactly; of an uncertain one
\* it may be one revision ahead; of a quarantined one it is diagnostic.
AcceptsInspect(state) ==
  CASE recovery.kind = "ready" ->
         state.revision = operation.revision /\ state.boundary = operation.boundary
    [] recovery.kind = "execute-uncertain" ->
         /\ state.revision >= operation.revision
         /\ state.revision <= IF operation.revision = MaxRevision
                              THEN operation.revision ELSE operation.revision + 1
         /\ state.revision = operation.revision => state.boundary = operation.boundary
    [] OTHER -> TRUE

ConfirmInspect(state) ==
  /\ IF recovery.kind = "execute-uncertain"
     THEN revision' = state.revision /\ boundary' = state.boundary
     ELSE UNCHANGED <<revision, boundary>>
  /\ operation' = Idle
  /\ UNCHANGED <<booted, recovery, saves, reply>>

\* #exchange's kind check and each operation's validation of its result.
Accepts(m) ==
  /\ m.kind = operation.kind
  /\ CASE m.kind = "boot" -> TRUE
       [] m.kind = "execute" -> AcceptsExecute(operation.body, m.body,
                                               operation.revision, operation.boundary)
       [] m.kind = "snapshot" -> m.body.revision = operation.revision
       [] m.kind = "restore" -> AcceptsRestore(m.body)
       [] m.kind = "inspect" -> AcceptsInspect(m.body)

Confirm(m) ==
  \/ m.kind = "boot" /\ ConfirmBoot(m.body)
  \/ m.kind = "execute" /\ ConfirmExecute(m.body)
  \/ m.kind = "snapshot" /\ ConfirmSnapshot(m.body)
  \/ m.kind = "restore" /\ ConfirmRestore(m.body)
  \/ m.kind = "inspect" /\ ConfirmInspect(m.body)

\* The lease receives a worker message.  A response whose exchange is no
\* longer pending is dropped.
DropLateResponse ==
  /\ toHost # <<>>
  /\ Head(toHost).id \notin pending
  /\ toHost' = Tail(toHost)
  /\ UNCHANGED <<terminated, pending, toWorker>>
  /\ UNCHANGED adapterVars
  /\ UNCHANGED runtimeVars

ReceiveResponse ==
  /\ toHost # <<>>
  /\ LET m == Head(toHost) IN
       /\ m.id \in pending
       /\ pending' = pending \ {m.id}
       /\ IF Accepts(m) THEN Confirm(m) ELSE FailOperation
  /\ toHost' = Tail(toHost)
  /\ UNCHANGED <<nextId, terminated, toWorker>>
  /\ UNCHANGED runtimeVars

\* The caller's signal aborts an execute: its exchange is rejected locally,
\* and the posted message is not recalled.
AbortExecute ==
  /\ operation.kind = "execute"
  /\ operation.id \in pending
  /\ pending' = pending \ {operation.id}
  /\ UNCHANGED <<terminated, toWorker, toHost>>
  /\ UNCHANGED adapterVars
  /\ UNCHANGED runtimeVars

\* The continuation of an operation whose exchange was rejected.
ExchangeRejected ==
  /\ operation # Idle
  /\ operation.id \notin pending
  /\ FailOperation
  /\ UNCHANGED nextId
  /\ UNCHANGED leaseVars
  /\ UNCHANGED runtimeVars

\* Mutant: the dead worker's exchanges are not rejected.
LeaseFailsSilently ==
  /\ ~terminated
  /\ terminated' = TRUE
  /\ toWorker' = <<>>
  /\ toHost' = <<>>
  /\ busy' = Idle
  /\ UNCHANGED <<pending, session, receipts, journalBytes>>
  /\ UNCHANGED adapterVars

\* A worker error event or a malformed message: the lease detaches its
\* listeners, terminates the worker and rejects what is pending.
LeaseFails ==
  /\ ~terminated
  /\ terminated' = TRUE
  /\ pending' = {}
  /\ toWorker' = <<>>
  /\ toHost' = <<>>
  /\ busy' = Idle
  /\ UNCHANGED <<session, receipts, journalBytes>>
  /\ UNCHANGED adapterVars

-----------------------------------------------------------------------------
(* The worker.                                                             *)

Post(m, kind, body) ==
  toHost' = Append(toHost, [id |-> m.id, kind |-> kind, body |-> body])

Arriving == Head(toWorker)

AtInputBoundary == session.status = "live" /\ session.boundary = "input-requested"

\* exchange() refuses a request that overlaps another; boot needs a virgin
\* runtime and everything else a booted one; a checkpoint needs the machine
\* waiting for input.
Serviceable(m) ==
  /\ busy = Idle
  /\ (m.kind = "boot") = (session.status = "none")
  /\ m.kind = "snapshot" => AtInputBoundary

Arrives(kind) ==
  /\ toWorker # <<>>
  /\ Arriving.kind = kind
  /\ Serviceable(Arriving)

\* The endpoint takes the next message off the worker's queue.
Take ==
  /\ toWorker' = Tail(toWorker)
  /\ UNCHANGED <<terminated, pending>>
  /\ UNCHANGED adapterVars

\* The message begins an asynchronous operation of the runtime.
Begin ==
  /\ Take
  /\ busy' = Arriving
  /\ UNCHANGED <<session, receipts, journalBytes, toHost>>

\* The message is answered before the runtime yields.
Answer(kind, body) ==
  /\ Take
  /\ Post(Arriving, kind, body)
  /\ UNCHANGED <<session, busy>>

RefuseRequest ==
  /\ toWorker # <<>>
  /\ ~Serviceable(Arriving)
  /\ Answer("error", "none")
  /\ UNCHANGED <<receipts, journalBytes>>

StartOperation ==
  /\ \E kind \in {"boot", "snapshot", "restore"} : Arrives(kind)
  /\ Begin

AnswerInspect ==
  /\ Arrives("inspect")
  /\ Answer("inspect", [revision |-> session.revision, boundary |-> session.boundary])
  /\ UNCHANGED <<receipts, journalBytes>>

\* #canRecordReceipt
CanRecord(bytes) ==
  /\ Cardinality(DOMAIN receipts) < MaxReceipts
  /\ journalBytes + bytes <= MaxJournalBytes

\* #recordReceipt
Record(r, res, bytes) ==
  /\ receipts' = [id \in DOMAIN receipts \cup {r.requestId} |->
                    IF id = r.requestId THEN [request |-> r, result |-> res]
                    ELSE receipts[id]]
  /\ journalBytes' = journalBytes + bytes

\* #rejectedExecute
Rejected(rejection) ==
  [status |-> "rejected", rejection |-> rejection,
   previousRevision |-> session.revision, revision |-> session.revision,
   boundary |-> session.boundary]

\* Mutant: a receipt counts only for the identical request.
KnownExactly(r) ==
  r.requestId \in DOMAIN receipts /\ receipts[r.requestId].request = r

\* Mutant: the journal is never consulted.
KnownNever(r) == FALSE

Known(r) == r.requestId \in DOMAIN receipts

\* An exact retry gets the journaled result.
ReplayReceipt ==
  /\ Arrives("execute")
  /\ Known(Arriving.body)
  /\ LET receipt == receipts[Arriving.body.requestId] IN
       /\ receipt.request = Arriving.body
       /\ Answer("execute", receipt.result)
  /\ UNCHANGED <<receipts, journalBytes>>

\* The identity of another request is never reused.
RejectDuplicate ==
  /\ Arrives("execute")
  /\ Known(Arriving.body)
  /\ receipts[Arriving.body.requestId].request # Arriving.body
  /\ Answer("execute", Rejected("duplicate"))
  /\ UNCHANGED <<receipts, journalBytes>>

\* A terminated story and a stale revision are rejected and journaled, or
\* rejected for want of room in the journal.
RejectUnrunnable ==
  /\ Arrives("execute")
  /\ ~Known(Arriving.body)
  /\ LET r == Arriving.body
         over == session.boundary = "terminated"
         result == Rejected(IF over THEN "invalid_command" ELSE "stale_revision")
     IN
       /\ over \/ r.expectedRevision # session.revision
       /\ IF CanRecord(RejectBytes)
          THEN /\ Answer("execute", result)
               /\ Record(r, result, RejectBytes)
          ELSE /\ Answer("execute", Rejected("receipt_capacity"))
               /\ UNCHANGED <<receipts, journalBytes>>

\* The request may run: it is new, and names the current revision.
Runnable(r) ==
  /\ ~Known(r)
  /\ session.boundary # "terminated"
  /\ r.expectedRevision = session.revision

\* The revision counter is at its limit: an error, without a receipt.
RefuseRevisionLimit ==
  /\ Arrives("execute")
  /\ Runnable(Arriving.body)
  /\ session.revision = MaxRevision
  /\ Answer("error", "none")
  /\ UNCHANGED <<receipts, journalBytes>>

\* #canRecordWorstCaseCommittedReceipt fails: nothing runs.
RejectForCapacity ==
  /\ Arrives("execute")
  /\ Runnable(Arriving.body)
  /\ session.revision # MaxRevision
  /\ ~CanRecord(WorstBytes)
  /\ Answer("execute", Rejected("receipt_capacity"))
  /\ UNCHANGED <<receipts, journalBytes>>

\* Mutant: the preflight reserves room for a rejection only.
StartExecuteOnHope ==
  /\ Arrives("execute")
  /\ Runnable(Arriving.body)
  /\ session.revision # MaxRevision
  /\ CanRecord(RejectBytes)
  /\ Begin

StartExecute ==
  /\ Arrives("execute")
  /\ Runnable(Arriving.body)
  /\ session.revision # MaxRevision
  /\ CanRecord(WorstBytes)
  /\ Begin

\* The asynchronous part of the operation in progress ends and is answered.
Finish(kind) ==
  /\ busy # Idle
  /\ busy.kind = kind
  /\ busy' = Idle
  /\ UNCHANGED <<terminated, pending, toWorker>>
  /\ UNCHANGED adapterVars

FinishBoot(bnd) ==
  /\ Finish("boot")
  /\ session' = [status |-> "live", revision |-> 0, boundary |-> bnd, story |-> <<>>]
  /\ Post(busy, "boot", bnd)
  /\ UNCHANGED <<receipts, journalBytes>>

\* The machine fails before its first prompt; the candidate is disposed.
BootFails ==
  /\ Finish("boot")
  /\ Post(busy, "error", "none")
  /\ UNCHANGED <<session, receipts, journalBytes>>

\* The machine runs the command to its next boundary and the turn is
\* journaled.  If the receipt does not fit, the turn stays and its answer is
\* an error.
CommitTurn(bnd, bytes) ==
  LET r == busy.body
      res == [status |-> "committed", rejection |-> "none",
              previousRevision |-> session.revision,
              revision |-> session.revision + 1, boundary |-> bnd]
  IN
  /\ Finish("execute")
  /\ session.status = "live"
  /\ r.command \notin LongCommands
  /\ session' = [session EXCEPT !.revision = @ + 1, !.boundary = bnd,
                                !.story = Append(@, r)]
  /\ IF CanRecord(bytes)
     THEN Record(r, res, bytes) /\ Post(busy, "execute", res)
     ELSE UNCHANGED <<receipts, journalBytes>> /\ Post(busy, "error", "none")

\* A command longer than the story's input buffer never reaches it.
RejectLongCommand ==
  /\ Finish("execute")
  /\ session.status = "live"
  /\ busy.body.command \in LongCommands
  /\ IF CanRecord(RejectBytes)
     THEN /\ Record(busy.body, Rejected("invalid_command"), RejectBytes)
          /\ Post(busy, "execute", Rejected("invalid_command"))
     ELSE UNCHANGED <<receipts, journalBytes>> /\ Post(busy, "error", "none")
  /\ UNCHANGED session

\* The interpreter fails inside a turn, or has failed before: no revision,
\* no receipt, and the machine never waits for input again.
InterpreterFails ==
  /\ Finish("execute")
  /\ session.status = "failed" \/ busy.body.command \notin LongCommands
  /\ session' = [session EXCEPT !.status = "failed"]
  /\ Post(busy, "error", "none")
  /\ UNCHANGED <<receipts, journalBytes>>

FinishSnapshot ==
  /\ Finish("snapshot")
  /\ Post(busy, "snapshot", [revision |-> session.revision, story |-> session.story,
                             receipts |-> receipts, journalBytes |-> journalBytes])
  /\ UNCHANGED <<session, receipts, journalBytes>>

\* Mutant: the restored story keeps the journal of the branch it replaces.
FinishRestoreStoryOnly ==
  LET s == busy.body.snapshot IN
  /\ Finish("restore")
  /\ busy.body.sound
  /\ session' = [status |-> "live", revision |-> s.revision,
                 boundary |-> "input-requested", story |-> s.story]
  /\ UNCHANGED <<receipts, journalBytes>>
  /\ Post(busy, "restore", [status |-> "restored", revision |-> s.revision,
                            boundary |-> "input-requested"])

\* The staged session replaces the active one together with its journal.
FinishRestore ==
  LET s == busy.body.snapshot IN
  /\ Finish("restore")
  /\ busy.body.sound
  /\ session' = [status |-> "live", revision |-> s.revision,
                 boundary |-> "input-requested", story |-> s.story]
  /\ receipts' = s.receipts
  /\ journalBytes' = s.journalBytes
  /\ Post(busy, "restore", [status |-> "restored", revision |-> s.revision,
                            boundary |-> "input-requested"])

RejectRestore ==
  /\ Finish("restore")
  /\ ~busy.body.sound
  /\ Post(busy, "restore", [status |-> "rejected", revision |-> session.revision,
                            boundary |-> session.boundary])
  /\ UNCHANGED <<session, receipts, journalBytes>>

-----------------------------------------------------------------------------

HostNext ==
  \/ Boot
  \/ \E r \in Request : Execute(r)
  \/ TakeSnapshot
  \/ \E s \in saves, sound \in BOOLEAN : Restore(s, sound)
  \/ InspectPublicState
  \/ ReceiveResponse
  \/ DropLateResponse
  \/ AbortExecute
  \/ ExchangeRejected

WorkerNext ==
  \/ RefuseRequest
  \/ StartOperation
  \/ AnswerInspect
  \/ ReplayReceipt
  \/ RejectDuplicate
  \/ RejectUnrunnable
  \/ RefuseRevisionLimit
  \/ RejectForCapacity
  \/ StartExecute
  \/ \E bnd \in Boundaries : FinishBoot(bnd)
  \/ BootFails
  \/ \E bnd \in Boundaries, bytes \in 1..WorstBytes : CommitTurn(bnd, bytes)
  \/ RejectLongCommand
  \/ InterpreterFails
  \/ FinishSnapshot
  \/ FinishRestore
  \/ RejectRestore

Next == HostNext \/ WorkerNext \/ LeaseFails

Spec == Init /\ [][Next]_vars

\* The worker's event loop and the host's message handler keep running, and
\* a turn is bounded (maxInstructionsPerTurn).  Callers owe nothing.
Fairness ==
  /\ WF_vars(WorkerNext)
  /\ WF_vars(ReceiveResponse \/ DropLateResponse)
  /\ WF_vars(ExchangeRejected)

FairSpec == Spec /\ Fairness

-----------------------------------------------------------------------------
(* Properties.                                                             *)

\* Every variable holds a value of the shape the code gives it.
TypeOK ==
  /\ booted \in BOOLEAN
  /\ revision \in 0..MaxRevision
  /\ boundary \in Boundaries
  /\ operation.id \in 0..MaxMessages
  /\ \/ recovery.kind \in {"ready", "boot-quarantined", "restore-quarantined"}
     \/ recovery.kind = "execute-uncertain" /\ recovery.request \in Request
  /\ nextId \in 1..(MaxMessages + 1)
  /\ \A s \in saves : IsSnapshot(s)
  /\ reply = NoReply
     \/ reply \in [status : {"committed", "rejected"}, request : Request]
  /\ terminated \in BOOLEAN
  /\ pending \subseteq 1..MaxMessages
  /\ session \in [status : {"none", "live", "failed"}, revision : 0..MaxRevision,
                  boundary : Boundaries, story : Seq(Request)]
  /\ IsJournal(receipts)
  /\ journalBytes \in 0..MaxJournalBytes

\* A request identity is applied to the story at most once, whatever was
\* aborted, retried or restored ("A request ID maps to at most one committed
\* revision", docs/architecture.md).
AppliedOnce ==
  \A i, j \in 1..Len(session.story) :
    session.story[i].requestId = session.story[j].requestId => i = j

\* Every turn the story has taken has a committed receipt with its own
\* request and revision, so that an exact retry can always recover it: the
\* capacity check made before the turn ran was enough.
EveryTurnHasReceipt ==
  /\ session.revision = Len(session.story)
  /\ \A i \in 1..Len(session.story) :
       LET r == session.story[i] IN
       /\ Known(r)
       /\ receipts[r.requestId].request = r
       /\ receipts[r.requestId].result.status = "committed"
       /\ receipts[r.requestId].result.revision = i

\* Nothing the worker still has to receive or finish can touch the engine.
Quiet == toWorker = <<>> /\ busy = Idle

\* When the adapter calls its state confirmed and no call is in progress, it
\* is the worker's state, and no abandoned message can still change that.
ConfirmedAgreement ==
  (booted /\ ~terminated /\ recovery.kind = "ready" /\ operation = Idle)
    => /\ Quiet
       /\ revision = session.revision
       /\ boundary = session.boundary

\* While an execute is uncertain the worker is where the adapter believes
\* it is, or exactly one turn further, and then that turn is the uncertain
\* request itself, with its receipt kept.
UncertainWithinOneTurn ==
  (booted /\ ~terminated /\ recovery.kind = "execute-uncertain")
    => \/ session.revision = revision /\ session.boundary = boundary
       \/ /\ session.revision = revision + 1
          /\ session.story[session.revision] = recovery.request
          /\ Known(recovery.request)

\* The answer a caller holds is true of the engine: a committed request is
\* in the story and a rejected one is not, and no message left over from an
\* aborted attempt makes a rejection false later.
ReplyIsTrue ==
  LET applied == {session.story[i] : i \in 1..Len(session.story)} IN
  /\ reply.status = "committed" => reply.request \in applied
  /\ reply.status = "rejected" => reply.request \notin applied

\* The adapter's validation never takes a genuine worker result for a
\* protocol violation: only errors, aborts and a dead worker make an
\* operation fail.
GenuineResultsAccepted ==
  (toHost # <<>> /\ Head(toHost).id \in pending /\ Head(toHost).kind # "error")
    => Accepts(Head(toHost))

\* Until a restore replaces the branch, a journaled answer is never
\* dropped or changed.
ReceiptsAreFinal ==
  [][busy.kind # "restore" =>
       \A id \in DOMAIN receipts :
         id \in DOMAIN receipts' /\ receipts'[id] = receipts[id]]_vars

\* Every call on the adapter returns, with an answer or an error.
OperationSettles == (operation # Idle) ~> (operation = Idle)

\* "cancellation before command commit produces no mutation"
\* (docs/testing.md): the story takes a turn only for a call that has not
\* been cancelled.  The code does not promise this.
CancelledRunsNothing ==
  [][(busy.kind = "execute" /\ Len(session'.story) > Len(session.story))
       => busy.id \in pending]_vars

\* The protocol implements the engine port's promise.
Journal == INSTANCE EngineJournal WITH
             log <- session.story,
             checkpoints <- {s.story : s \in saves}

JournalSpec == Journal!Spec

=============================================================================
