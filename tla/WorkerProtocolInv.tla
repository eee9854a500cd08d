--------------------------- MODULE WorkerProtocolInv ---------------------------
(***************************************************************************)
(* The inductive invariant of WorkerProtocol.  Its parts relate, in order, *)
(* the story to its journal, the operation the worker runs to the journal, *)
(* the adapter's call to its recovery state, the messages under way to the *)
(* call they belong to, the answers under way to the engine they describe, *)
(* and the adapter's revision to the worker's.                             *)
(***************************************************************************)
EXTENDS WorkerProtocol

\* A story and the journal that goes with it: each turn has its committed
\* receipt, each committed receipt its turn, and no receipt is from the
\* future or disagrees about the boundary of the present.
JournalSound(story, rev, bnd, journal) ==
  /\ rev = Len(story)
  /\ \A i \in 1..Len(story) :
       LET r == story[i] IN
       /\ r.requestId \in DOMAIN journal
       /\ journal[r.requestId].request = r
       /\ journal[r.requestId].result.status = "committed"
       /\ journal[r.requestId].result.revision = i
  /\ \A id \in DOMAIN journal :
       LET r == journal[id].request
           res == journal[id].result
       IN
       /\ r.requestId = id
       /\ res.revision <= rev
       /\ res.revision = rev => res.boundary = bnd
       /\ res.status = "committed" =>
            /\ res.revision \in 1..rev
            /\ story[res.revision] = r
            /\ res.previousRevision = res.revision - 1
            /\ r.expectedRevision = res.previousRevision
       /\ res.status = "rejected" =>
            /\ res.rejection \in Rejections
            /\ res.previousRevision = res.revision

JournalInv ==
  /\ JournalSound(session.story, session.revision, session.boundary, receipts)
  /\ session.status = "none" => DOMAIN receipts = {}
  /\ \A s \in saves : JournalSound(s.story, s.revision, "input-requested", s.receipts)

\* What the runtime checked before it yielded still holds when it resumes.
BusyInv ==
  /\ busy.kind \in {"none", "boot", "execute", "snapshot", "restore"}
  /\ busy.kind = "none" => busy = Idle
  /\ busy.kind = "boot" => session.status = "none"
  /\ busy.kind \in {"execute", "snapshot", "restore"} => session.status # "none"
  /\ busy.kind = "execute" =>
       /\ busy.body \in Request
       /\ Runnable(busy.body)
       /\ session.revision # MaxRevision
       /\ CanRecord(WorstBytes)
  /\ busy.kind = "snapshot" => AtInputBoundary
  /\ busy.kind = "restore" => busy.body.snapshot \in saves

\* The call in progress, its captured state, and the recovery state it may
\* run in.
CallInv ==
  /\ operation.kind \in {"none", "boot", "execute", "snapshot", "restore", "inspect"}
  /\ operation.kind = "none" => operation = Idle
  /\ operation.kind # "none" =>
       /\ operation.id = nextId - 1
       /\ operation.id \in 1..MaxMessages
       /\ operation.revision = revision
       /\ operation.boundary = boundary
  /\ operation.kind = "boot" => ~booted /\ recovery.kind = "ready"
  /\ operation.kind = "execute" =>
       /\ operation.body \in Request
       /\ recovery = Ready \/ recovery = Uncertain(operation.body)
  /\ operation.kind \in {"snapshot", "restore"} => recovery.kind = "ready"
  /\ operation.kind = "restore" => operation.body.snapshot \in saves
  /\ operation.kind \in {"execute", "snapshot", "restore", "inspect"} => booted
  /\ booted => session.status # "none" /\ recovery.kind # "boot-quarantined"
  /\ ~booted => recovery.kind \in {"ready", "boot-quarantined"}
  /\ recovery.kind = "restore-quarantined" => terminated
  /\ pending \subseteq {operation.id}
  /\ 0 \notin pending
  /\ (operation.kind \notin {"none", "execute"} /\ ~terminated) => operation.id \in pending

\* A message the worker has yet to receive or to finish: only executes
\* outlive their call, and they are copies of the one request that is open.
Belongs(m) ==
  /\ m.id \in 1..(nextId - 1)
  /\ m.kind \in {"boot", "execute", "snapshot", "restore", "inspect"}
  /\ m.id = operation.id => m.kind = operation.kind /\ m.body = operation.body
  /\ m.kind # "execute" => m.id = operation.id
  /\ m.kind = "execute" =>
       /\ m.body \in Request
       /\ \/ operation.kind = "execute" /\ m.body = operation.body
          \/ recovery = Uncertain(m.body)
       /\ recovery.kind # "execute-uncertain" => m.id = operation.id

MessageInv ==
  /\ terminated => toWorker = <<>> /\ toHost = <<>> /\ busy = Idle
  /\ \A i \in 1..Len(toWorker) : Belongs(toWorker[i])
  /\ busy # Idle => Belongs(busy)
  /\ \A i \in 1..Len(toWorker) : toWorker[i].id = operation.id => i = Len(toWorker)
  /\ (busy # Idle /\ busy.id = operation.id) => toWorker = <<>>

Agree == session.revision = revision /\ session.boundary = boundary

\* An answer to the call in progress describes the engine as it is now.
Faithful(m) ==
  CASE m.kind = "boot" ->
         /\ session.status = "live"
         /\ session.revision = 0
         /\ session.boundary = m.body
    [] m.kind = "execute" ->
         \/ /\ Known(operation.body)
            /\ receipts[operation.body.requestId].request = operation.body
            /\ receipts[operation.body.requestId].result = m.body
         \/ /\ m.body.status = "rejected"
            /\ m.body.rejection \in Rejections
            /\ m.body.previousRevision = session.revision
            /\ m.body.revision = session.revision
            /\ m.body.boundary = session.boundary
            /\ \A i \in 1..Len(session.story) : session.story[i] # operation.body
    [] m.kind = "snapshot" ->
         /\ session.boundary = "input-requested"
         /\ m.body = [revision |-> session.revision, story |-> session.story,
                      receipts |-> receipts, journalBytes |-> journalBytes]
    [] m.kind = "restore" ->
         /\ m.body.status \in {"restored", "rejected"}
         /\ m.body.revision = session.revision
         /\ m.body.boundary = session.boundary
         /\ m.body.status = "restored" => m.body.revision = operation.body.snapshot.revision
         /\ m.body.status = "rejected" => Agree
    [] m.kind = "inspect" ->
         m.body = [revision |-> session.revision, boundary |-> session.boundary]

AnswerInv ==
  \A k \in 1..Len(toHost) :
    LET m == toHost[k] IN
    /\ m.id \in 1..(nextId - 1)
    /\ m.id = operation.id =>
         /\ toWorker = <<>>
         /\ m.kind = "error" =>
              /\ operation.kind # "restore"
              /\ busy # Idle => busy.id # operation.id
         /\ m.kind # "error" =>
              /\ m.kind = operation.kind
              /\ busy = Idle
              /\ Faithful(m)

\* The worker is where the adapter says, or has run the open request.
WithinOneTurn(r) ==
  \/ Agree
  \/ /\ session.revision = revision + 1
     /\ Known(r)
     /\ receipts[r.requestId].request = r
     /\ receipts[r.requestId].result.status = "committed"
     /\ receipts[r.requestId].result.revision = session.revision

AgreementInv ==
  (booted /\ ~terminated) =>
    /\ (recovery.kind = "ready" /\ operation.kind \notin {"execute", "restore"}) => Agree
    /\ (operation.kind = "restore" /\ (toWorker # <<>> \/ busy # Idle)) => Agree
    /\ operation.kind = "execute" => WithinOneTurn(operation.body)
    /\ recovery.kind = "execute-uncertain" => WithinOneTurn(recovery.request)

ReplyInv ==
  /\ ReplyIsTrue
  /\ ~booted => reply = NoReply
  /\ reply # NoReply =>
       /\ operation.kind \notin {"execute", "restore"}
       /\ recovery.kind = "ready"

\* The inductive invariant, typing aside.
ProtocolInv ==
  /\ JournalInv
  /\ BusyInv
  /\ CallInv
  /\ MessageInv
  /\ AnswerInv
  /\ AgreementInv
  /\ ReplyInv

=============================================================================
