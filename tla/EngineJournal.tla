---------------------------- MODULE EngineJournal ----------------------------
(***************************************************************************)
(* What the engine port promises its callers (src/packages/contracts/src/  *)
(* engine.ts): a story is a log of commands.  A request is appended only   *)
(* at the revision it expects and only if its identity is not in the log,  *)
(* a caller is told "committed" only for an entry of the log and           *)
(* "rejected" only for a request the log does not hold, and the log is     *)
(* only ever replaced, whole, by one that was checkpointed.                *)
(***************************************************************************)
EXTENDS Naturals, Sequences

CONSTANT Request        \* records with a requestId and an expectedRevision

VARIABLES log,          \* the requests applied to the story, in order
          checkpoints,  \* the logs for which a caller holds a snapshot
          reply         \* the answer the latest finished execute returned

journalVars == <<log, checkpoints, reply>>

Entries(s) == {s[i] : i \in 1..Len(s)}

NoReply == [status |-> "none"]

Init == log = <<>> /\ checkpoints = {} /\ reply = NoReply

Commit(r) ==
  /\ r.expectedRevision = Len(log)
  /\ \A e \in Entries(log) : e.requestId # r.requestId
  /\ log' = Append(log, r)
  /\ UNCHANGED <<checkpoints, reply>>

AnswerCommitted(r) ==
  /\ r \in Entries(log)
  /\ reply' = [status |-> "committed", request |-> r]
  /\ UNCHANGED <<log, checkpoints>>

AnswerRejected(r) ==
  /\ r \notin Entries(log)
  /\ reply' = [status |-> "rejected", request |-> r]
  /\ UNCHANGED <<log, checkpoints>>

\* The caller has moved on to another operation.
Forget == reply' = NoReply /\ UNCHANGED <<log, checkpoints>>

Checkpoint ==
  /\ checkpoints' = checkpoints \cup {log}
  /\ UNCHANGED <<log, reply>>

Rewind ==
  /\ log' \in checkpoints
  /\ UNCHANGED <<checkpoints, reply>>

Next ==
  \/ \E r \in Request : Commit(r) \/ AnswerCommitted(r) \/ AnswerRejected(r)
  \/ Forget
  \/ Checkpoint
  \/ Rewind

Spec == Init /\ [][Next]_journalVars

\* No request identity is applied to the story twice.
AppliedOnce ==
  \A i, j \in 1..Len(log) : log[i].requestId = log[j].requestId => i = j

=============================================================================
