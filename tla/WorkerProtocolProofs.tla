------------------------- MODULE WorkerProtocolProofs -------------------------
(***************************************************************************)
(* Proofs about WorkerProtocol, for every value of its constants.          *)
(***************************************************************************)
EXTENDS WorkerProtocolInv, TLAPS

Journals == UNION {[ids -> Receipt] : ids \in SUBSET RequestIds}

SnapshotSet == [revision : 0..MaxRevision, story : Seq(Request),
                receipts : Journals, journalBytes : 0..MaxJournalBytes]

Kinds == {"boot", "execute", "snapshot", "restore", "inspect"}

PostedMessage ==
  [id : 1..MaxMessages, kind : Kinds,
   body : Request \cup {"story", "none"} \cup [snapshot : SnapshotSet, sound : BOOLEAN]]

ResponseMessage ==
  [id : 1..MaxMessages, kind : Kinds \cup {"error"},
   body : Boundaries \cup Result \cup SnapshotSet \cup {"none"}
            \cup [status : {"restored", "rejected"}, revision : 0..MaxRevision,
                  boundary : Boundaries]
            \cup [revision : 0..MaxRevision, boundary : Boundaries]]

\* The types of the variables, with those of the queues.
Flags == booted \in BOOLEAN /\ terminated \in BOOLEAN

AdapterTypes ==
  /\ revision \in 0..MaxRevision
  /\ boundary \in Boundaries
  /\ \/ recovery = Ready
     \/ recovery = [kind |-> "boot-quarantined"]
     \/ recovery = [kind |-> "restore-quarantined"]
     \/ \E r \in Request : recovery = Uncertain(r)
  /\ nextId \in 1..(MaxMessages + 1)
  /\ saves \subseteq SnapshotSet
  /\ reply = NoReply
     \/ reply \in [status : {"committed", "rejected"}, request : Request]
  /\ operation.id \in 0..MaxMessages

LeaseTypes ==
  /\ pending \subseteq 1..MaxMessages
  /\ toWorker \in Seq(PostedMessage)
  /\ toHost \in Seq(ResponseMessage)

RuntimeTypes ==
  /\ session \in [status : {"none", "live", "failed"}, revision : 0..MaxRevision,
                  boundary : Boundaries, story : Seq(Request)]
  /\ receipts \in Journals
  /\ journalBytes \in 0..MaxJournalBytes
  /\ busy = Idle \/ busy \in PostedMessage

TypeInv == Flags /\ AdapterTypes /\ LeaseTypes /\ RuntimeTypes

IInv == TypeInv /\ ProtocolInv

-----------------------------------------------------------------------------

\* The journal of a worker that has not booted.
LEMMA EmptyJournal == <<>> \in Journals /\ DOMAIN <<>> = {}
<1>1. <<>> \in [{} -> Receipt]
  OBVIOUS
<1>2. {} \in SUBSET RequestIds
  OBVIOUS
<1> QED BY <1>1, <1>2 DEF Journals

\* What membership in Journals gives: identities and receipts.
LEMMA JournalShape ==
  ASSUME NEW f \in Journals
  PROVE  DOMAIN f \subseteq RequestIds /\ \A id \in DOMAIN f : f[id] \in Receipt
BY DEF Journals

\* Tail of a queue.
LEMMA TailFacts ==
  ASSUME NEW S, NEW s \in Seq(S), s # <<>>
  PROVE  /\ Tail(s) \in Seq(S)
         /\ Len(Tail(s)) = Len(s) - 1
         /\ Len(s) >= 1
         /\ Head(s) = s[1] /\ Head(s) \in S
         /\ \A i \in 1..Len(Tail(s)) : Tail(s)[i] = s[i + 1] /\ i + 1 \in 1..Len(s)
OBVIOUS

\* A queue without messages is the empty one.
LEMMA EmptyQueue ==
  ASSUME NEW S, NEW s \in Seq(S), Len(s) = 0
  PROVE  s = <<>>
OBVIOUS

\* Posting to a queue.
LEMMA AppendFacts ==
  ASSUME NEW S, NEW s \in Seq(S), NEW e \in S
  PROVE  /\ Append(s, e) \in Seq(S)
         /\ Len(Append(s, e)) = Len(s) + 1
         /\ \A i \in 1..Len(s) : Append(s, e)[i] = s[i]
         /\ Append(s, e)[Len(s) + 1] = e
OBVIOUS

\* A new adapter and its new worker satisfy the invariant.
LEMMA InitIInv == Init => IInv
<1> SUFFICES ASSUME Init PROVE IInv
  OBVIOUS
<1> USE ProtocolConstants DEF ProtocolConstants
<1>0. Flags
  BY DEF Init, Flags
<1>1. AdapterTypes
  BY DEF Init, AdapterTypes, Boundaries, Idle
<1>2. LeaseTypes
  BY DEF Init, LeaseTypes
<1>3. RuntimeTypes
  BY EmptyJournal DEF Init, RuntimeTypes, NoSession, Boundaries
<1>4. JournalInv
  BY EmptyJournal DEF Init, JournalInv, JournalSound, NoSession
<1>5. BusyInv /\ CallInv /\ MessageInv /\ AnswerInv
  BY DEF Init, BusyInv, CallInv, MessageInv, AnswerInv, Idle, NoSession, Ready
<1>6. AgreementInv /\ ReplyInv
  BY DEF Init, AgreementInv, ReplyInv, ReplyIsTrue, Agree, NoReply, NoSession, Idle
<1> QED BY <1>0, <1>1, <1>2, <1>3, <1>4, <1>5, <1>6 DEF IInv, TypeInv, ProtocolInv

-----------------------------------------------------------------------------
(* The host starts an operation.                                           *)

\* What the callers of Submit guarantee about the operation they start.
Startable(kind, body) ==
  /\ kind \in Kinds
  /\ kind = "boot" => ~booted /\ recovery = Ready /\ body = "story"
  /\ kind = "execute" => body \in Request /\ (recovery = Ready \/ recovery = Uncertain(body))
  /\ kind \in {"snapshot", "restore"} => recovery = Ready
  /\ kind = "restore" => \E s \in saves, b \in BOOLEAN : body = [snapshot |-> s, sound |-> b]
  /\ kind \in {"snapshot", "inspect"} => body = "none"
  /\ kind # "boot" => booted
  /\ reply' = IF kind \in {"execute", "restore"} THEN NoReply ELSE reply

\* Starting a call on the adapter preserves the invariant.
LEMMA SubmitPreserves ==
  ASSUME IInv, NEW kind, NEW body, Submit(kind, body), Startable(kind, body)
  PROVE  IInv'
<1> USE ProtocolConstants DEF ProtocolConstants
<1> DEFINE msg == [id |-> nextId, kind |-> kind, body |-> body]
<1>1. msg \in PostedMessage /\ nextId \in 1..MaxMessages
  BY DEF IInv, TypeInv, AdapterTypes, Submit, Startable, PostedMessage, Kinds
<1>2. /\ operation = Idle
      /\ operation' = [kind |-> kind, id |-> nextId, body |-> body,
                       revision |-> revision, boundary |-> boundary]
      /\ nextId' = nextId + 1
      /\ UNCHANGED <<booted, revision, boundary, recovery, saves, terminated, toHost>>
      /\ UNCHANGED <<session, receipts, journalBytes, busy>>
  BY DEF Submit, runtimeVars
<1>3. /\ terminated => UNCHANGED <<pending, toWorker>>
      /\ ~terminated => pending' = pending \cup {nextId} /\ toWorker' = Append(toWorker, msg)
  BY DEF Submit
<1>4. Flags'
  BY <1>2 DEF IInv, TypeInv, Flags
<1>5. AdapterTypes' /\ RuntimeTypes'
  BY <1>1, <1>2 DEF IInv, TypeInv, AdapterTypes, RuntimeTypes, Startable
<1>6. LeaseTypes'
  <2>1. CASE terminated
    BY <2>1, <1>2, <1>3 DEF IInv, TypeInv, LeaseTypes
  <2>2. CASE ~terminated
    <3>1. toWorker' \in Seq(PostedMessage)
      BY <2>2, <1>1, <1>3, AppendFacts DEF IInv, TypeInv, LeaseTypes
    <3>2. pending' \subseteq 1..MaxMessages
      BY <2>2, <1>1, <1>3 DEF IInv, TypeInv, LeaseTypes
    <3> QED BY <3>1, <3>2, <1>2 DEF IInv, TypeInv, LeaseTypes
  <2> QED BY <2>1, <2>2
<1>7. JournalInv' /\ BusyInv'
  BY <1>2 DEF IInv, ProtocolInv, JournalInv, BusyInv, Runnable, CanRecord, Known, AtInputBoundary
<1>8. CallInv'
  <2>1. pending = {}
    BY <1>2 DEF IInv, ProtocolInv, CallInv, Idle
  <2>2. pending' \subseteq {nextId} /\ (~terminated => nextId \in pending')
    BY <1>3, <2>1
  <2>3. operation'.kind = kind /\ operation'.id = nextId /\ operation'.body = body
        /\ operation'.revision = revision /\ operation'.boundary = boundary
    BY <1>2
  <2>4. nextId' - 1 = nextId /\ nextId # 0
    BY <1>1, <1>2
  <2>5. kind \in Kinds
    BY DEF Startable
  <2>6. booted' = booted /\ recovery' = recovery /\ session' = session
        /\ saves' = saves /\ terminated' = terminated /\ revision' = revision
        /\ boundary' = boundary
    BY <1>2
  <2>7. /\ booted => session.status # "none" /\ recovery.kind # "boot-quarantined"
        /\ ~booted => recovery.kind \in {"ready", "boot-quarantined"}
        /\ recovery.kind = "restore-quarantined" => terminated
    BY DEF IInv, ProtocolInv, CallInv
  <2>8. kind = "restore" => body.snapshot \in saves
    BY DEF Startable
  <2> QED
    BY <1>1, <2>2, <2>3, <2>4, <2>5, <2>6, <2>7, <2>8 DEF CallInv, Startable, Kinds, Ready
<1>9. MessageInv'
  <2>1. CASE terminated
    BY <2>1, <1>2, <1>3 DEF IInv, ProtocolInv, MessageInv
  <2>2. CASE ~terminated
    <3> DEFINE n == Len(toWorker)
    <3>1. /\ n \in Nat
          /\ toWorker' = Append(toWorker, msg)
          /\ Len(toWorker') = n + 1
          /\ \A i \in 1..n : toWorker'[i] = toWorker[i]
          /\ toWorker'[n + 1] = msg
      BY <2>2, <1>1, <1>3, AppendFacts DEF IInv, TypeInv, LeaseTypes
    <3>2. /\ operation.kind = "none" /\ operation.id = 0
          /\ operation'.kind = kind /\ operation'.id = nextId /\ operation'.body = body
      BY <1>2 DEF Idle
    <3>3. \A m : Belongs(m) => m.id < nextId /\ Belongs(m)'
      <4> SUFFICES ASSUME NEW m, Belongs(m) PROVE m.id < nextId /\ Belongs(m)'
        OBVIOUS
      <4>1. m.id \in 1..(nextId - 1) /\ m.kind = "execute" /\ m.body \in Request
            /\ recovery = Uncertain(m.body)
        BY <3>2 DEF Belongs
      <4>2. recovery.kind = "execute-uncertain" /\ recovery' = recovery
        BY <4>1, <1>2 DEF Uncertain
      <4> QED BY <1>1, <1>2, <3>2, <4>1, <4>2 DEF Belongs
    <3>4. \A m : m = msg => Belongs(m)'
      BY <1>1, <1>2, <3>2 DEF Belongs, Startable, Kinds
    <3>5. \A i \in 1..n : Belongs(toWorker[i])
      BY DEF IInv, ProtocolInv, MessageInv
    <3>6. \A i \in 1..(n + 1) : Belongs(toWorker[i])' /\ (toWorker'[i].id = nextId => i = n + 1)
      <4> SUFFICES ASSUME NEW i \in 1..(n + 1), NEW m, m = toWorker'[i]
                   PROVE  Belongs(m)' /\ (m.id = nextId => i = n + 1)
        BY DEF Belongs
      <4>1. CASE i = n + 1
        BY <4>1, <3>1, <3>4
      <4>2. CASE i # n + 1
        <5>1. i \in 1..n
          BY <4>2, <3>1
        <5>2. Belongs(m)
          BY <5>1, <3>1, <3>5
        <5>3. m.id < nextId /\ Belongs(m)'
          BY <5>2, <3>3
        <5> QED BY <5>3, <1>1
      <4> QED BY <4>1, <4>2
    <3>7. busy # Idle => Belongs(busy)' /\ busy.id < nextId
      <4> SUFFICES ASSUME busy # Idle, NEW m, m = busy PROVE Belongs(m)' /\ m.id < nextId
        BY <1>2 DEF Belongs
      <4> QED BY <3>3 DEF IInv, ProtocolInv, MessageInv
    <3> QED BY <2>2, <1>1, <1>2, <3>1, <3>2, <3>6, <3>7 DEF MessageInv
  <2> QED BY <2>1, <2>2
<1>10. AnswerInv'
  BY <1>1, <1>2 DEF IInv, ProtocolInv, TypeInv, AdapterTypes, AnswerInv
<1>11. AgreementInv'
  <2> SUFFICES ASSUME booted, ~terminated PROVE AgreementInv'
    BY <1>2 DEF AgreementInv
  <2>1. operation.kind = "none" /\ operation'.kind = kind /\ operation'.body = body
    BY <1>2 DEF Idle
  <2>2. /\ recovery.kind = "ready" => Agree
        /\ recovery.kind = "execute-uncertain" => WithinOneTurn(recovery.request)
    BY <2>1 DEF IInv, ProtocolInv, AgreementInv
  <2>3. Agree' = Agree /\ recovery' = recovery
    BY <1>2 DEF Agree
  <2>4. \A r : WithinOneTurn(r)' = WithinOneTurn(r)
    BY <1>2 DEF WithinOneTurn, Agree, Known
  <2>5. kind = "execute" => WithinOneTurn(body)
    BY <2>2 DEF Startable, Ready, Uncertain, WithinOneTurn
  <2>6. kind = "restore" => Agree
    BY <2>2 DEF Startable, Ready
  <2> QED BY <2>1, <2>2, <2>3, <2>4, <2>5, <2>6 DEF AgreementInv
<1>12. ReplyInv'
  BY <1>2 DEF IInv, ProtocolInv, ReplyInv, ReplyIsTrue, Startable, NoReply
<1> QED BY <1>4, <1>5, <1>6, <1>7, <1>8, <1>9, <1>10, <1>11, <1>12 DEF IInv, TypeInv, ProtocolInv

-----------------------------------------------------------------------------
(* The worker takes a message, and answers it or begins to work on it.     *)

\* The call in progress has at most one message before the worker, and it
\* is the last one posted.
LEMMA ArrivingFacts ==
  ASSUME IInv, toWorker # <<>>
  PROVE  /\ Arriving \in PostedMessage
         /\ Arriving = toWorker[1]
         /\ Belongs(Arriving)
         /\ ~terminated
         /\ Tail(toWorker) \in Seq(PostedMessage)
         /\ Arriving.id = operation.id => Tail(toWorker) = <<>>
         /\ \A k \in 1..Len(toHost) : toHost[k].id # operation.id
         /\ busy # Idle => busy.id # operation.id
<1>1. /\ toWorker \in Seq(PostedMessage)
      /\ toHost \in Seq(ResponseMessage)
  BY DEF IInv, TypeInv, LeaseTypes
<1>2. /\ Arriving = toWorker[1] /\ Arriving \in PostedMessage
      /\ Tail(toWorker) \in Seq(PostedMessage)
      /\ Len(toWorker) >= 1 /\ Len(toWorker) \in Nat
      /\ Len(Tail(toWorker)) = Len(toWorker) - 1
  BY <1>1, TailFacts DEF Arriving
<1>3. Belongs(Arriving) /\ (Arriving.id = operation.id => Len(toWorker) = 1)
  <2>1. \A i \in 1..Len(toWorker) :
          Belongs(toWorker[i]) /\ (toWorker[i].id = operation.id => i = Len(toWorker))
    BY DEF IInv, ProtocolInv, MessageInv
  <2>2. 1 \in 1..Len(toWorker)
    BY <1>2
  <2>3. \A m : m = toWorker[1] => Belongs(m) /\ (m.id = operation.id => Len(toWorker) = 1)
    BY <2>1, <2>2
  <2> QED BY <2>3, <1>2
<1>4. Len(Tail(toWorker)) = 0 => Tail(toWorker) = <<>>
  BY <1>2, EmptyQueue
<1>5. \A k \in 1..Len(toHost) : toHost[k].id # operation.id
  BY DEF IInv, ProtocolInv, AnswerInv
<1>6. ~terminated /\ (busy # Idle => busy.id # operation.id)
  BY DEF IInv, ProtocolInv, MessageInv
<1> QED BY <1>2, <1>3, <1>4, <1>5, <1>6

\* Taking a message off the queue leaves the others where they belong.
LEMMA TakeFacts ==
  ASSUME IInv, toWorker # <<>>, Take
  PROVE  /\ toWorker' \in Seq(PostedMessage)
         /\ \A i \in 1..Len(toWorker') :
              /\ Belongs(toWorker[i])'
              /\ toWorker'[i].id = operation'.id => i = Len(toWorker')
         /\ \A m : Belongs(m)' = Belongs(m)
<1>1. /\ toWorker \in Seq(PostedMessage)
      /\ toWorker' = Tail(toWorker)
  BY DEF IInv, TypeInv, LeaseTypes, Take
<1>2. /\ toWorker' \in Seq(PostedMessage)
      /\ Len(toWorker') = Len(toWorker) - 1
      /\ Len(toWorker) \in Nat
      /\ \A i \in 1..Len(toWorker') : toWorker'[i] = toWorker[i + 1] /\ i + 1 \in 1..Len(toWorker)
  BY <1>1, TailFacts
<1>3. UNCHANGED <<nextId, operation, recovery>>
  BY DEF Take, adapterVars
<1>4. \A m : Belongs(m)' = Belongs(m)
  BY <1>3 DEF Belongs
<1>5. ASSUME NEW i \in 1..Len(toWorker')
      PROVE  /\ Belongs(toWorker[i])'
             /\ toWorker'[i].id = operation'.id => i = Len(toWorker')
  <2> SUFFICES ASSUME NEW m, m = toWorker'[i]
               PROVE Belongs(m)' /\ (m.id = operation'.id => i = Len(toWorker'))
    BY DEF Belongs
  <2>1. m = toWorker[i + 1] /\ i + 1 \in 1..Len(toWorker)
    BY <1>2
  <2>2. Belongs(m) /\ (m.id = operation.id => i + 1 = Len(toWorker))
    BY <2>1 DEF IInv, ProtocolInv, MessageInv
  <2> QED BY <2>2, <1>2, <1>3, <1>4
<1> QED BY <1>2, <1>4, <1>5

\* Posting an answer keeps the answers faithful when the new one is, and the
\* call in progress has no other.
LEMMA PostPreserves ==
  ASSUME IInv, NEW m \in ResponseMessage,
         toHost' = Append(toHost, m),
         UNCHANGED <<nextId, operation>>,
         m.id \in 1..(nextId - 1),
         \A k \in 1..Len(toHost) : toHost[k].id = operation.id =>
           /\ toHost[k].kind = "error" /\ toWorker' = <<>> /\ busy' = Idle
           /\ operation.kind # "restore",
         m.id = operation.id =>
           /\ toWorker' = <<>>
           /\ m.kind = "error" =>
                operation.kind # "restore" /\ (busy' # Idle => busy'.id # operation.id)
           /\ m.kind # "error" => m.kind = operation.kind /\ busy' = Idle /\ Faithful(m)'
  PROVE  AnswerInv' /\ toHost' \in Seq(ResponseMessage)
<1>1. /\ toHost' \in Seq(ResponseMessage)
      /\ Len(toHost) \in Nat
      /\ Len(toHost') = Len(toHost) + 1
      /\ \A k \in 1..Len(toHost) : toHost'[k] = toHost[k]
      /\ toHost'[Len(toHost) + 1] = m
  BY AppendFacts DEF IInv, TypeInv, LeaseTypes
<1>2. ASSUME NEW k \in 1..Len(toHost'), NEW a, a = toHost'[k]
      PROVE  /\ a.id \in 1..(nextId - 1)
             /\ a.id = operation.id =>
                  /\ toWorker' = <<>>
                  /\ a.kind = "error" =>
                       operation.kind # "restore" /\ (busy' # Idle => busy'.id # operation.id)
                  /\ a.kind # "error" => a.kind = operation.kind /\ busy' = Idle /\ Faithful(a)'
  <2>1. CASE k = Len(toHost) + 1
    BY <2>1, <1>1, <1>2
  <2>2. CASE k # Len(toHost) + 1
    <3>1. k \in 1..Len(toHost) /\ a = toHost[k]
      BY <2>2, <1>1, <1>2
    <3> QED BY <3>1 DEF IInv, ProtocolInv, AnswerInv
  <2> QED BY <2>1, <2>2
<1>3. AnswerInv'
  <2> SUFFICES ASSUME NEW k \in 1..Len(toHost'), NEW a, a = toHost'[k]
      PROVE  /\ a.id \in 1..(nextId' - 1)
             /\ a.id = operation'.id =>
                  /\ toWorker' = <<>>
                  /\ a.kind = "error" =>
                       operation'.kind # "restore" /\ (busy' # Idle => busy'.id # operation'.id)
                  /\ a.kind # "error" => a.kind = operation'.kind /\ busy' = Idle /\ Faithful(a)'
    BY DEF AnswerInv, Faithful
  <2> QED BY <1>2
<1> QED BY <1>1, <1>3

\* A message the worker answers at once preserves the invariant when the
\* answer is faithful.
LEMMA AnswerPreserves ==
  ASSUME IInv, toWorker # <<>>, Take,
         NEW m \in ResponseMessage, m.id = Arriving.id, toHost' = Append(toHost, m),
         UNCHANGED <<session, busy>>,
         RuntimeTypes', JournalInv', BusyInv',
         \A id \in DOMAIN receipts : id \in DOMAIN receipts' /\ receipts'[id] = receipts[id],
         m.kind = "error" => Arriving.kind # "restore",
         m.kind # "error" =>
           m.kind = Arriving.kind /\ busy = Idle /\ (m.id = operation.id => Faithful(m)')
  PROVE  IInv'
<1>1. /\ UNCHANGED <<booted, revision, boundary, operation, recovery, nextId, saves, reply>>
      /\ UNCHANGED <<terminated, pending>>
      /\ toWorker' = Tail(toWorker)
  BY DEF Take, adapterVars
<1>2. /\ Belongs(Arriving) /\ ~terminated
      /\ Arriving.id = operation.id => toWorker' = <<>>
      /\ \A k \in 1..Len(toHost) : toHost[k].id # operation.id
      /\ busy # Idle => busy.id # operation.id
  BY <1>1, ArrivingFacts
<1>3. /\ Arriving.id \in 1..(nextId - 1)
      /\ Arriving.id = operation.id => Arriving.kind = operation.kind
  BY <1>2 DEF Belongs
<1>4. AnswerInv' /\ toHost' \in Seq(ResponseMessage)
  BY <1>1, <1>2, <1>3, PostPreserves
<1>5. Flags'
  BY <1>1 DEF IInv, TypeInv, Flags
<1>6. AdapterTypes'
  BY <1>1 DEF IInv, TypeInv, AdapterTypes
<1>7. LeaseTypes'
  BY <1>1, <1>4, TakeFacts DEF IInv, TypeInv, LeaseTypes
<1>8. CallInv'
  BY <1>1 DEF IInv, ProtocolInv, CallInv
<1>9. MessageInv'
  <2>1. /\ \A i \in 1..Len(toWorker') :
              /\ Belongs(toWorker[i])'
              /\ toWorker'[i].id = operation'.id => i = Len(toWorker')
    BY TakeFacts
  <2>2. busy # Idle => Belongs(busy)'
    BY <1>1, TakeFacts DEF IInv, ProtocolInv, MessageInv, Belongs
  <2> QED BY <1>1, <1>2, <2>1, <2>2 DEF MessageInv
<1>10. AgreementInv'
  <2>1. \A r : WithinOneTurn(r) => WithinOneTurn(r)'
    BY <1>1 DEF WithinOneTurn, Agree, Known
  <2>2. Agree' = Agree
    BY <1>1 DEF Agree
  <2> QED BY <1>1, <2>1, <2>2 DEF IInv, ProtocolInv, AgreementInv
<1>11. ReplyInv'
  BY <1>1 DEF IInv, ProtocolInv, ReplyInv, ReplyIsTrue
<1> QED BY <1>4, <1>5, <1>6, <1>7, <1>8, <1>9, <1>10, <1>11 DEF IInv, TypeInv, ProtocolInv

\* A message that starts an asynchronous operation preserves the invariant.
LEMMA BeginPreserves ==
  ASSUME IInv, toWorker # <<>>, busy = Idle, Begin, BusyInv'
  PROVE  IInv'
<1>0. /\ Take /\ busy' = Arriving
      /\ UNCHANGED <<session, receipts, journalBytes, toHost>>
  BY DEF Begin
<1>1. /\ UNCHANGED <<booted, revision, boundary, operation, recovery, nextId, saves, reply>>
      /\ UNCHANGED <<terminated, pending>>
      /\ toWorker' = Tail(toWorker)
  BY <1>0 DEF Take, adapterVars
<1>2. /\ Belongs(Arriving) /\ ~terminated
      /\ Arriving.id = operation.id => toWorker' = <<>>
      /\ \A k \in 1..Len(toHost) : toHost[k].id # operation.id
      /\ Arriving \in PostedMessage
  BY <1>1, ArrivingFacts
<1>3. Flags'
  BY <1>1 DEF IInv, TypeInv, Flags
<1>4. AdapterTypes'
  BY <1>1 DEF IInv, TypeInv, AdapterTypes
<1>5. LeaseTypes'
  BY <1>0, <1>1, TakeFacts DEF IInv, TypeInv, LeaseTypes
<1>6. RuntimeTypes'
  BY <1>0, <1>2 DEF IInv, TypeInv, RuntimeTypes
<1>7. JournalInv'
  BY <1>0, <1>1 DEF IInv, ProtocolInv, JournalInv
<1>8. CallInv'
  BY <1>0, <1>1 DEF IInv, ProtocolInv, CallInv
<1>9. MessageInv'
  <2>1. /\ \A i \in 1..Len(toWorker') :
              /\ Belongs(toWorker[i])'
              /\ toWorker'[i].id = operation'.id => i = Len(toWorker')
    BY <1>0, TakeFacts
  <2>2. Belongs(busy)'
    <3> SUFFICES ASSUME NEW m, m = Arriving PROVE Belongs(m)'
      BY <1>0 DEF Belongs
    <3> QED BY <1>0, <1>2, TakeFacts
  <2> QED BY <1>0, <1>1, <1>2, <2>1, <2>2 DEF MessageInv
<1>10. AnswerInv'
  <2>1. toHost' = toHost /\ nextId' = nextId /\ operation' = operation
    BY <1>0, <1>1
  <2> QED BY <2>1, <1>2 DEF IInv, ProtocolInv, AnswerInv
<1>11. AgreementInv'
  <2>1. \A r : WithinOneTurn(r) => WithinOneTurn(r)'
    BY <1>0, <1>1 DEF WithinOneTurn, Agree, Known
  <2>2. Agree' = Agree
    BY <1>0, <1>1 DEF Agree
  <2> QED BY <1>0, <1>1, <2>1, <2>2 DEF IInv, ProtocolInv, AgreementInv
<1>12. ReplyInv'
  BY <1>0, <1>1 DEF IInv, ProtocolInv, ReplyInv, ReplyIsTrue
<1> QED BY <1>3, <1>4, <1>5, <1>6, <1>7, <1>8, <1>9, <1>10, <1>11, <1>12 DEF IInv, TypeInv, ProtocolInv

\* The parts of the invariant an answer without a state change cannot disturb.
LEMMA RuntimeUnchanged ==
  ASSUME IInv, Take, UNCHANGED runtimeVars
  PROVE  RuntimeTypes' /\ JournalInv' /\ BusyInv'
<1>1. UNCHANGED <<session, receipts, journalBytes, busy, saves>>
  BY DEF Take, adapterVars, runtimeVars
<1>2. RuntimeTypes'
  BY <1>1 DEF IInv, TypeInv, RuntimeTypes
<1>3. JournalInv'
  BY <1>1 DEF IInv, ProtocolInv, JournalInv
<1>4. BusyInv'
  BY <1>1 DEF IInv, ProtocolInv, BusyInv, Runnable, CanRecord, Known, AtInputBoundary
<1> QED BY <1>2, <1>3, <1>4

\* An error response to a request that cannot be served.
LEMMA RefuseRequestPreserves == ASSUME IInv, RefuseRequest PROVE IInv'
<1> DEFINE m == [id |-> Arriving.id, kind |-> "error", body |-> "none"]
<1>1. /\ toWorker # <<>> /\ Take /\ toHost' = Append(toHost, m)
      /\ UNCHANGED <<session, busy, receipts, journalBytes>>
      /\ ~Serviceable(Arriving)
  BY DEF RefuseRequest, Answer, Post
<1>2. RuntimeTypes' /\ JournalInv' /\ BusyInv'
  BY <1>1, RuntimeUnchanged DEF runtimeVars
<1>3. m \in ResponseMessage
  BY <1>1, ArrivingFacts DEF PostedMessage, ResponseMessage, Kinds
<1>4. Arriving.kind # "restore"
  <2> SUFFICES ASSUME Arriving.kind = "restore" PROVE FALSE
    OBVIOUS
  <2>1. Belongs(Arriving) /\ (busy # Idle => busy.id # operation.id)
    BY <1>1, ArrivingFacts
  <2>2. operation.kind = "restore"
    BY <2>1 DEF Belongs
  <2>3. session.status # "none" /\ recovery.kind = "ready"
    BY <2>2 DEF IInv, ProtocolInv, CallInv
  <2>4. busy # Idle
    BY <1>1, <2>3 DEF Serviceable
  <2>5. Belongs(busy)
    BY <2>4 DEF IInv, ProtocolInv, MessageInv
  <2> QED BY <2>1, <2>3, <2>4, <2>5 DEF Belongs
<1> QED BY <1>1, <1>2, <1>3, <1>4, AnswerPreserves

\* The answer to an inspection.
LEMMA AnswerInspectPreserves == ASSUME IInv, AnswerInspect PROVE IInv'
<1> DEFINE state == [revision |-> session.revision, boundary |-> session.boundary]
           m == [id |-> Arriving.id, kind |-> "inspect", body |-> state]
<1>1. /\ toWorker # <<>> /\ Take /\ toHost' = Append(toHost, m) /\ busy = Idle
      /\ UNCHANGED <<session, busy, receipts, journalBytes>>
      /\ Arriving.kind = "inspect"
  BY DEF AnswerInspect, Arrives, Serviceable, Answer, Post
<1>2. RuntimeTypes' /\ JournalInv' /\ BusyInv'
  BY <1>1, RuntimeUnchanged DEF runtimeVars
<1>3. m \in ResponseMessage
  BY <1>1, ArrivingFacts DEF IInv, TypeInv, RuntimeTypes, PostedMessage, ResponseMessage, Kinds
<1>4. ASSUME NEW a, a = m PROVE Faithful(a)'
  BY <1>1, <1>4 DEF Faithful
<1> QED BY <1>1, <1>2, <1>3, <1>4, AnswerPreserves

\* The request an arriving execute carries is the one the call is about.
LEMMA ArrivingExecuteFacts ==
  ASSUME IInv, Arrives("execute")
  PROVE  /\ toWorker # <<>> /\ busy = Idle /\ Arriving.kind = "execute"
         /\ session.status # "none"
         /\ Arriving.body \in Request /\ Arriving.id \in 1..MaxMessages
         /\ Arriving.id = operation.id => operation.body = Arriving.body
<1>1. toWorker # <<>> /\ busy = Idle /\ Arriving.kind = "execute" /\ session.status # "none"
  BY DEF Arrives, Serviceable
<1>2. Belongs(Arriving) /\ Arriving \in PostedMessage
  BY <1>1, ArrivingFacts
<1> QED BY <1>1, <1>2 DEF Belongs, PostedMessage

\* The journaled answer of an exact retry.
LEMMA ReplayReceiptPreserves == ASSUME IInv, ReplayReceipt PROVE IInv'
<1> DEFINE r == Arriving.body
           res == receipts[r.requestId].result
           m == [id |-> Arriving.id, kind |-> "execute", body |-> res]
<1>0. Arrives("execute") /\ Known(r) /\ receipts[r.requestId].request = r
  BY DEF ReplayReceipt
<1>1. /\ toWorker # <<>> /\ Take /\ toHost' = Append(toHost, m) /\ busy = Idle
      /\ UNCHANGED <<session, busy, receipts, journalBytes>>
      /\ Arriving.kind = "execute"
  BY DEF ReplayReceipt, Arrives, Serviceable, Answer, Post
<1>2. RuntimeTypes' /\ JournalInv' /\ BusyInv'
  BY <1>1, RuntimeUnchanged DEF runtimeVars
<1>3. m \in ResponseMessage
  <2>1. receipts \in Journals
    BY DEF IInv, TypeInv, RuntimeTypes
  <2>2. res \in Result
    BY <1>0, <2>1, JournalShape DEF Known, Receipt
  <2> QED BY <1>0, <2>2, ArrivingExecuteFacts DEF ResponseMessage, Kinds
<1>4. ASSUME NEW a, a = m, a.id = operation.id PROVE Faithful(a)'
  <2>1. operation.body = r /\ operation' = operation
    BY <1>0, <1>1, <1>4, ArrivingExecuteFacts DEF Take, adapterVars
  <2> QED BY <1>0, <1>1, <1>4, <2>1 DEF Faithful, Known
<1> QED BY <1>1, <1>2, <1>3, <1>4, AnswerPreserves

\* No turn of the story is the request of an absent or a different receipt.
LEMMA NotApplied ==
  ASSUME IInv, NEW r \in Request,
         ~Known(r) \/ receipts[r.requestId].request # r
  PROVE  \A i \in 1..Len(session.story) : session.story[i] # r
<1>1. JournalSound(session.story, session.revision, session.boundary, receipts)
  BY DEF IInv, ProtocolInv, JournalInv
<1> SUFFICES ASSUME NEW i \in 1..Len(session.story), session.story[i] = r
             PROVE  FALSE
  OBVIOUS
<1>2. r.requestId \in DOMAIN receipts /\ receipts[r.requestId].request = r
  BY <1>1 DEF JournalSound
<1> QED BY <1>2 DEF Known

\* A rejection is a result of the expected shape.
LEMMA RejectedIsResult ==
  ASSUME IInv, NEW why \in Rejections
  PROVE  Rejected(why) \in Result
BY DEF IInv, TypeInv, RuntimeTypes, Rejected, Result

\* An execute rejected without a receipt.
LEMMA UnrecordedRejection ==
  ASSUME IInv, Arrives("execute"), NEW why \in Rejections,
         Answer("execute", Rejected(why)), UNCHANGED <<receipts, journalBytes>>,
         ~Known(Arriving.body) \/ receipts[Arriving.body.requestId].request # Arriving.body
  PROVE  IInv'
<1> DEFINE r == Arriving.body
           m == [id |-> Arriving.id, kind |-> "execute", body |-> Rejected(why)]
<1>1. /\ toWorker # <<>> /\ Take /\ toHost' = Append(toHost, m) /\ busy = Idle
      /\ UNCHANGED <<session, busy, receipts, journalBytes>>
      /\ Arriving.kind = "execute" /\ r \in Request
  BY ArrivingExecuteFacts DEF Answer, Post
<1>2. RuntimeTypes' /\ JournalInv' /\ BusyInv'
  BY <1>1, RuntimeUnchanged DEF runtimeVars
<1>3. m \in ResponseMessage
  BY ArrivingExecuteFacts, RejectedIsResult DEF ResponseMessage, Kinds
<1>4. ASSUME NEW a, a = m, a.id = operation.id PROVE Faithful(a)'
  <2>1. operation.body = r /\ operation' = operation
    BY <1>1, <1>4, ArrivingExecuteFacts DEF Take, adapterVars
  <2>2. \A i \in 1..Len(session.story) : session.story[i] # r
    BY <1>1, NotApplied
  <2> QED BY <1>1, <1>4, <2>1, <2>2 DEF Faithful, Rejected
<1> QED BY <1>1, <1>2, <1>3, <1>4, AnswerPreserves

\* The rejection of an identity another request has used.
LEMMA RejectDuplicatePreserves == ASSUME IInv, RejectDuplicate PROVE IInv'
BY UnrecordedRejection DEF RejectDuplicate, Rejections

\* The rejection of a turn the journal has no room for.
LEMMA RejectForCapacityPreserves == ASSUME IInv, RejectForCapacity PROVE IInv'
BY UnrecordedRejection DEF RejectForCapacity, Rejections, Runnable

\* The error at the revision limit.
LEMMA RefuseRevisionLimitPreserves == ASSUME IInv, RefuseRevisionLimit PROVE IInv'
<1> DEFINE m == [id |-> Arriving.id, kind |-> "error", body |-> "none"]
<1>1. /\ toWorker # <<>> /\ Take /\ toHost' = Append(toHost, m)
      /\ UNCHANGED <<session, busy, receipts, journalBytes>>
      /\ Arriving.kind = "execute"
  BY DEF RefuseRevisionLimit, Arrives, Answer, Post
<1>2. RuntimeTypes' /\ JournalInv' /\ BusyInv'
  BY <1>1, RuntimeUnchanged DEF runtimeVars
<1>3. m \in ResponseMessage
  BY <1>1, ArrivingFacts DEF PostedMessage, ResponseMessage, Kinds
<1> QED BY <1>1, <1>2, <1>3, AnswerPreserves

\* Journaling keeps the journal's shape and its byte count in bounds.
LEMMA RecordFacts ==
  ASSUME NEW r \in Request, NEW res \in Result, NEW bytes \in Nat,
         receipts \in Journals, journalBytes \in 0..MaxJournalBytes,
         MaxJournalBytes \in Nat,
         CanRecord(bytes), Record(r, res, bytes)
  PROVE  /\ receipts' \in Journals
         /\ journalBytes' \in 0..MaxJournalBytes
         /\ DOMAIN receipts' = DOMAIN receipts \cup {r.requestId}
         /\ receipts'[r.requestId].request = r
         /\ receipts'[r.requestId].result = res
         /\ \A id \in DOMAIN receipts : id # r.requestId => receipts'[id] = receipts[id]
<1> DEFINE ids == DOMAIN receipts \cup {r.requestId}
           f == [id \in ids |->
                   IF id = r.requestId THEN [request |-> r, result |-> res] ELSE receipts[id]]
<1>1. receipts' = f /\ journalBytes' = journalBytes + bytes
  BY DEF Record
<1>2. DOMAIN receipts \subseteq RequestIds /\ \A id \in DOMAIN receipts : receipts[id] \in Receipt
  BY JournalShape
<1>3. ids \in SUBSET RequestIds
  BY <1>2 DEF Request
<1>4. [request |-> r, result |-> res] \in Receipt
  BY DEF Receipt
<1>5. f \in [ids -> Receipt]
  BY <1>2, <1>4
<1>6. f \in Journals
  BY <1>3, <1>5 DEF Journals
<1>7. journalBytes' \in 0..MaxJournalBytes
  BY <1>1 DEF CanRecord
<1> QED BY <1>1, <1>6, <1>7

\* A rejection recorded under a new identity keeps the journal sound.
LEMMA RecordRejection ==
  ASSUME IInv, NEW r \in Request, ~Known(r), NEW why \in Rejections,
         CanRecord(RejectBytes), Record(r, Rejected(why), RejectBytes),
         session.status # "none",
         UNCHANGED <<session, saves>>
  PROVE  /\ JournalInv'
         /\ receipts' \in Journals /\ journalBytes' \in 0..MaxJournalBytes
         /\ r.requestId \in DOMAIN receipts'
         /\ receipts'[r.requestId].request = r
         /\ receipts'[r.requestId].result = Rejected(why)
         /\ \A id \in DOMAIN receipts : id \in DOMAIN receipts' /\ receipts'[id] = receipts[id]
<1>1. /\ receipts' \in Journals
      /\ journalBytes' \in 0..MaxJournalBytes
      /\ DOMAIN receipts' = DOMAIN receipts \cup {r.requestId}
      /\ receipts'[r.requestId].request = r
      /\ receipts'[r.requestId].result = Rejected(why)
      /\ \A id \in DOMAIN receipts : id # r.requestId => receipts'[id] = receipts[id]
  <2>1. RejectBytes \in Nat /\ MaxJournalBytes \in Nat
    BY ProtocolConstants DEF ProtocolConstants
  <2>2. receipts \in Journals /\ journalBytes \in 0..MaxJournalBytes
    BY DEF IInv, TypeInv, RuntimeTypes
  <2>3. Rejected(why) \in Result
    BY RejectedIsResult
  <2> QED BY <2>1, <2>2, <2>3, RecordFacts
<1>2. \A id \in DOMAIN receipts : id \in DOMAIN receipts' /\ receipts'[id] = receipts[id]
  BY <1>1 DEF Known
<1>3. JournalSound(session.story, session.revision, session.boundary, receipts)
  BY DEF IInv, ProtocolInv, JournalInv
<1>4. session.revision \in Nat
  BY DEF IInv, TypeInv, RuntimeTypes
<1>5. JournalSound(session.story, session.revision, session.boundary, receipts')
  <2>1. ASSUME NEW id \in DOMAIN receipts', id # r.requestId
        PROVE  id \in DOMAIN receipts /\ receipts'[id] = receipts[id]
    BY <1>1, <2>1
  <2>2. /\ session.revision = Len(session.story)
        /\ \A i \in 1..Len(session.story) :
             LET q == session.story[i] IN
             /\ q.requestId \in DOMAIN receipts'
             /\ receipts'[q.requestId].request = q
             /\ receipts'[q.requestId].result.status = "committed"
             /\ receipts'[q.requestId].result.revision = i
    BY <1>2, <1>3 DEF JournalSound
  <2>3. ASSUME NEW res, res = Rejected(why)
        PROVE  /\ res.status = "rejected" /\ res.rejection = why
               /\ res.revision = session.revision /\ res.previousRevision = session.revision
               /\ res.boundary = session.boundary
    BY <2>3 DEF Rejected
  <2>4. ASSUME NEW id \in DOMAIN receipts'
        PROVE  LET q == receipts'[id].request
                   res == receipts'[id].result
               IN  /\ q.requestId = id
                   /\ res.revision <= session.revision
                   /\ res.revision = session.revision => res.boundary = session.boundary
                   /\ res.status = "committed" =>
                        /\ res.revision \in 1..session.revision
                        /\ session.story[res.revision] = q
                        /\ res.previousRevision = res.revision - 1
                        /\ q.expectedRevision = res.previousRevision
                   /\ res.status = "rejected" =>
                        /\ res.rejection \in Rejections
                        /\ res.previousRevision = res.revision
    <3>1. CASE id = r.requestId
      BY <1>1, <1>4, <2>3, <3>1
    <3>2. CASE id # r.requestId
      BY <1>3, <2>1, <3>2 DEF JournalSound
    <3> QED BY <3>1, <3>2
  <2> QED BY <2>2, <2>4 DEF JournalSound
<1>6. JournalInv'
  BY <1>5 DEF IInv, ProtocolInv, JournalInv
<1> QED BY <1>1, <1>2, <1>6

\* The rejection of a stale request, or of one after the end of the story.
LEMMA RejectUnrunnablePreserves == ASSUME IInv, RejectUnrunnable PROVE IInv'
<1> DEFINE r == Arriving.body
           over == session.boundary = "terminated"
           why == IF over THEN "invalid_command" ELSE "stale_revision"
           m == [id |-> Arriving.id, kind |-> "execute", body |-> Rejected(why)]
<1>1. Arrives("execute") /\ ~Known(r) /\ why \in Rejections
  BY DEF RejectUnrunnable, Rejections
<1>2. CASE ~CanRecord(RejectBytes)
  <2>1. Answer("execute", Rejected("receipt_capacity")) /\ UNCHANGED <<receipts, journalBytes>>
    BY <1>2 DEF RejectUnrunnable
  <2> QED BY <1>1, <2>1, UnrecordedRejection DEF Rejections
<1>3. CASE CanRecord(RejectBytes)
  <2>1. /\ Answer("execute", Rejected(why))
        /\ Record(r, Rejected(why), RejectBytes)
    BY <1>3 DEF RejectUnrunnable
  <2>2. /\ toWorker # <<>> /\ busy = Idle /\ Arriving.kind = "execute"
        /\ session.status # "none" /\ r \in Request
        /\ Take /\ toHost' = Append(toHost, m) /\ UNCHANGED <<session, busy>>
    BY <1>1, <2>1, ArrivingExecuteFacts DEF Answer, Post
  <2>3. UNCHANGED <<saves, operation>>
    BY <2>2 DEF Take, adapterVars
  <2>4. /\ JournalInv'
        /\ receipts' \in Journals /\ journalBytes' \in 0..MaxJournalBytes
        /\ r.requestId \in DOMAIN receipts'
        /\ receipts'[r.requestId].request = r
        /\ receipts'[r.requestId].result = Rejected(why)
        /\ \A id \in DOMAIN receipts : id \in DOMAIN receipts' /\ receipts'[id] = receipts[id]
    BY <1>1, <1>3, <2>1, <2>2, <2>3, RecordRejection
  <2>5. RuntimeTypes'
    BY <2>2, <2>4 DEF IInv, TypeInv, RuntimeTypes
  <2>6. BusyInv'
    BY <2>2 DEF BusyInv, Idle
  <2>7. m \in ResponseMessage
    BY <1>1, ArrivingExecuteFacts, RejectedIsResult DEF ResponseMessage, Kinds
  <2>8. ASSUME NEW a, a = m, a.id = operation.id PROVE Faithful(a)'
    <3>1. operation'.body = r
      BY <1>1, <2>3, <2>8, ArrivingExecuteFacts
    <3> QED BY <2>4, <2>8, <3>1 DEF Faithful, Known
  <2> QED BY <2>2, <2>4, <2>5, <2>6, <2>7, <2>8, AnswerPreserves
<1> QED BY <1>2, <1>3

\* The worker begins a boot, a snapshot or a restore.
LEMMA StartOperationPreserves == ASSUME IInv, StartOperation PROVE IInv'
<1>1. /\ toWorker # <<>> /\ busy = Idle /\ Begin
      /\ Arriving.kind \in {"boot", "snapshot", "restore"}
      /\ (Arriving.kind = "boot") = (session.status = "none")
      /\ Arriving.kind = "snapshot" => AtInputBoundary
  BY DEF StartOperation, Arrives, Serviceable
<1>2. Belongs(Arriving)
  BY <1>1, ArrivingFacts
<1>3. Arriving.kind = "restore" => Arriving.body.snapshot \in saves
  BY <1>2 DEF Belongs, IInv, ProtocolInv, CallInv
<1>4. busy' = Arriving /\ UNCHANGED <<session, saves>>
  BY <1>1 DEF Begin, Take, adapterVars
<1>5. BusyInv'
  BY <1>1, <1>3, <1>4 DEF BusyInv, AtInputBoundary
<1> QED BY <1>1, <1>5, BeginPreserves

\* The worker begins a turn it has reserved the receipt for.
LEMMA StartExecutePreserves == ASSUME IInv, StartExecute PROVE IInv'
<1>1. /\ Begin /\ Runnable(Arriving.body) /\ session.revision # MaxRevision
      /\ CanRecord(WorstBytes)
  BY DEF StartExecute
<1>2. /\ toWorker # <<>> /\ busy = Idle /\ Arriving.kind = "execute"
      /\ session.status # "none" /\ Arriving.body \in Request
  BY ArrivingExecuteFacts DEF StartExecute
<1>3. busy' = Arriving /\ UNCHANGED <<session, receipts, journalBytes>>
  BY <1>1 DEF Begin
<1>4. BusyInv'
  BY <1>1, <1>2, <1>3 DEF BusyInv, Runnable, Known, CanRecord
<1> QED BY <1>1, <1>2, <1>4, BeginPreserves

-----------------------------------------------------------------------------
(* The worker finishes what it began.                                      *)

\* The operation the worker is running, and the call it belongs to.
LEMMA BusyFacts ==
  ASSUME IInv, NEW kind \in Kinds, Finish(kind)
  PROVE  /\ busy # Idle /\ busy.kind = kind /\ busy' = Idle
         /\ busy \in PostedMessage /\ Belongs(busy) /\ ~terminated
         /\ UNCHANGED <<booted, revision, boundary, operation, recovery, nextId, saves, reply>>
         /\ UNCHANGED <<terminated, pending, toWorker>>
<1>1. busy # Idle /\ busy.kind = kind /\ busy' = Idle
  BY DEF Finish
<1>2. busy \in PostedMessage
  BY <1>1 DEF IInv, TypeInv, RuntimeTypes
<1>3. Belongs(busy) /\ ~terminated
  BY <1>1 DEF IInv, ProtocolInv, MessageInv
<1> QED BY <1>1, <1>2, <1>3 DEF Finish, adapterVars

\* Ending an operation with a faithful answer preserves the invariant.
LEMMA FinishPreserves ==
  ASSUME IInv, NEW kind \in Kinds, Finish(kind),
         NEW m \in ResponseMessage, m.id = busy.id, toHost' = Append(toHost, m),
         RuntimeTypes', JournalInv', AgreementInv', ReplyIsTrue',
         session.status # "none" => session'.status # "none",
         m.kind = "error" => kind # "restore",
         m.kind # "error" => m.kind = kind /\ (busy.id = operation.id => Faithful(m)')
  PROVE  IInv'
<1>1. /\ busy # Idle /\ busy.kind = kind /\ busy' = Idle
      /\ Belongs(busy) /\ ~terminated
      /\ UNCHANGED <<booted, revision, boundary, operation, recovery, nextId, saves, reply>>
      /\ UNCHANGED <<terminated, pending, toWorker>>
  BY BusyFacts
<1>2. /\ busy.id \in 1..(nextId - 1)
      /\ busy.id = operation.id => kind = operation.kind
  BY <1>1 DEF Belongs
<1>3. busy.id = operation.id => toWorker = <<>>
  BY <1>1 DEF IInv, ProtocolInv, MessageInv
<1>4. \A k \in 1..Len(toHost) : toHost[k].id = operation.id =>
           /\ toHost[k].kind = "error" /\ toWorker = <<>> /\ operation.kind # "restore"
  BY <1>1 DEF IInv, ProtocolInv, AnswerInv
<1>5. AnswerInv' /\ toHost' \in Seq(ResponseMessage)
  BY <1>1, <1>2, <1>3, <1>4, PostPreserves
<1>6. Flags'
  BY <1>1 DEF IInv, TypeInv, Flags
<1>7. AdapterTypes'
  BY <1>1 DEF IInv, TypeInv, AdapterTypes
<1>8. LeaseTypes'
  BY <1>1, <1>5 DEF IInv, TypeInv, LeaseTypes
<1>9. BusyInv'
  BY <1>1 DEF BusyInv, Idle
<1>10. CallInv'
  BY <1>1 DEF IInv, ProtocolInv, CallInv
<1>11. MessageInv'
  <2>1. \A i \in 1..Len(toWorker) : Belongs(toWorker[i])'
    <3> SUFFICES ASSUME NEW i \in 1..Len(toWorker), NEW a, a = toWorker[i] PROVE Belongs(a)'
      BY <1>1 DEF Belongs
    <3> QED BY <1>1 DEF IInv, ProtocolInv, MessageInv, Belongs
  <2> QED BY <1>1, <2>1 DEF IInv, ProtocolInv, MessageInv
<1>12. ReplyInv'
  BY <1>1 DEF IInv, ProtocolInv, ReplyInv
<1> QED BY <1>5, <1>6, <1>7, <1>8, <1>9, <1>10, <1>11, <1>12 DEF IInv, TypeInv, ProtocolInv

\* What an execute the worker is running says about its host.
LEMMA RunningExecute ==
  ASSUME IInv, busy.kind = "execute"
  PROVE  /\ busy.body \in Request /\ Runnable(busy.body)
         /\ session.revision # MaxRevision /\ CanRecord(WorstBytes)
         /\ session.status # "none"
         /\ reply = NoReply
         /\ operation.kind # "restore"
         /\ operation.kind = "execute" => operation.body = busy.body
         /\ recovery.kind = "execute-uncertain" => recovery.request = busy.body
         /\ recovery.kind = "ready" => operation.kind = "execute"
         /\ (booted /\ ~terminated) => Agree
<1>1. /\ busy.body \in Request /\ Runnable(busy.body) /\ session.status # "none"
      /\ session.revision # MaxRevision /\ CanRecord(WorstBytes)
  BY DEF IInv, ProtocolInv, BusyInv
<1>2. Belongs(busy)
  BY DEF IInv, ProtocolInv, MessageInv, Idle
<1>3. \/ operation.kind = "execute" /\ operation.body = busy.body
      \/ recovery = Uncertain(busy.body)
  BY <1>2 DEF Belongs
<1>4. operation.kind = "execute" => recovery = Ready \/ recovery = Uncertain(operation.body)
  BY DEF IInv, ProtocolInv, CallInv
<1>5. /\ operation.kind = "execute" => operation.body = busy.body
      /\ recovery.kind = "execute-uncertain" => recovery.request = busy.body
      /\ recovery.kind = "ready" => operation.kind = "execute"
  BY <1>3, <1>4 DEF Ready, Uncertain
<1>6. operation.kind # "restore"
  BY <1>3 DEF IInv, ProtocolInv, CallInv, Uncertain
<1>7. reply = NoReply
  BY <1>3, <1>5 DEF IInv, ProtocolInv, ReplyInv, Uncertain
<1>8. (booted /\ ~terminated) => WithinOneTurn(busy.body)
  BY <1>3, <1>5 DEF IInv, ProtocolInv, AgreementInv, Uncertain
<1>9. (booted /\ ~terminated) => Agree
  BY <1>1, <1>8 DEF WithinOneTurn, Runnable
<1> QED BY <1>1, <1>5, <1>6, <1>7, <1>9

\* The worker has booted.
LEMMA FinishBootPreserves ==
  ASSUME IInv, NEW bnd \in Boundaries, FinishBoot(bnd) PROVE IInv'
<1> DEFINE m == [id |-> busy.id, kind |-> "boot", body |-> bnd]
<1>1. /\ Finish("boot") /\ toHost' = Append(toHost, m)
      /\ session' = [status |-> "live", revision |-> 0, boundary |-> bnd, story |-> <<>>]
      /\ UNCHANGED <<receipts, journalBytes>>
  BY DEF FinishBoot, Post
<1>2. /\ busy # Idle /\ busy.kind = "boot" /\ busy' = Idle
      /\ busy \in PostedMessage /\ Belongs(busy)
      /\ UNCHANGED <<booted, saves, reply>>
  BY <1>1, BusyFacts DEF Kinds
<1>3. m \in ResponseMessage
  BY <1>2 DEF PostedMessage, ResponseMessage, Kinds
<1>4. session.status = "none" /\ DOMAIN receipts = {}
  BY <1>2 DEF IInv, ProtocolInv, BusyInv, JournalInv
<1>5. RuntimeTypes'
  BY <1>1, <1>2, ProtocolConstants DEF ProtocolConstants, IInv, TypeInv, RuntimeTypes
<1>6. JournalInv'
  <2>1. JournalSound(<<>>, 0, bnd, receipts)
    BY <1>4 DEF JournalSound
  <2>2. /\ session'.story = <<>> /\ session'.revision = 0 /\ session'.boundary = bnd
        /\ session'.status = "live" /\ receipts' = receipts /\ saves' = saves
    BY <1>1, <1>2
  <2> QED BY <2>1, <2>2 DEF IInv, ProtocolInv, JournalInv
<1>7. AgreementInv'
  <2>1. operation.kind = "boot"
    BY <1>2 DEF Belongs
  <2> QED BY <1>2, <2>1 DEF IInv, ProtocolInv, CallInv, AgreementInv
<1>8. ReplyIsTrue'
  <2>1. Len(session.story) = 0
    <3>1. Len(session.story) \in Nat
      BY DEF IInv, TypeInv, RuntimeTypes
    <3>2. \A i \in 1..Len(session.story) : session.story[i].requestId \in DOMAIN receipts
      BY DEF IInv, ProtocolInv, JournalInv, JournalSound
    <3> QED BY <1>4, <3>1, <3>2
  <2>2. reply.status # "committed"
    BY <2>1 DEF IInv, ProtocolInv, ReplyInv, ReplyIsTrue
  <2> QED BY <1>1, <1>2, <2>2 DEF ReplyIsTrue
<1>9. ASSUME NEW a, a = m PROVE Faithful(a)'
  BY <1>1, <1>9 DEF Faithful
<1> QED BY <1>1, <1>3, <1>5, <1>6, <1>7, <1>8, <1>9, FinishPreserves DEF Kinds

\* An operation that leaves the engine as it was.
LEMMA EngineUnchanged ==
  ASSUME IInv, NEW kind \in Kinds, Finish(kind), UNCHANGED <<session, receipts, journalBytes>>
  PROVE  RuntimeTypes' /\ JournalInv' /\ AgreementInv' /\ ReplyIsTrue'
<1>1. /\ busy # Idle /\ busy' = Idle
      /\ UNCHANGED <<booted, revision, boundary, operation, recovery, nextId, saves, reply>>
      /\ UNCHANGED <<terminated, pending, toWorker>>
  BY BusyFacts
<1>2. RuntimeTypes'
  BY <1>1 DEF IInv, TypeInv, RuntimeTypes
<1>3. JournalInv'
  BY <1>1 DEF IInv, ProtocolInv, JournalInv
<1>4. AgreementInv'
  BY <1>1 DEF IInv, ProtocolInv, AgreementInv, Agree, WithinOneTurn, Known
<1>5. ReplyIsTrue'
  BY <1>1 DEF IInv, ProtocolInv, ReplyInv, ReplyIsTrue
<1> QED BY <1>2, <1>3, <1>4, <1>5

\* The worker failed to boot.
LEMMA BootFailsPreserves == ASSUME IInv, BootFails PROVE IInv'
<1> DEFINE m == [id |-> busy.id, kind |-> "error", body |-> "none"]
<1>1. /\ Finish("boot") /\ toHost' = Append(toHost, m)
      /\ UNCHANGED <<session, receipts, journalBytes>>
  BY DEF BootFails, Post
<1>2. m \in ResponseMessage
  BY <1>1, BusyFacts DEF PostedMessage, ResponseMessage, Kinds
<1> QED BY <1>1, <1>2, EngineUnchanged, FinishPreserves DEF Kinds

\* The worker has taken a snapshot.
LEMMA FinishSnapshotPreserves == ASSUME IInv, FinishSnapshot PROVE IInv'
<1> DEFINE snap == [revision |-> session.revision, story |-> session.story,
                    receipts |-> receipts, journalBytes |-> journalBytes]
           m == [id |-> busy.id, kind |-> "snapshot", body |-> snap]
<1>1. /\ Finish("snapshot") /\ toHost' = Append(toHost, m)
      /\ UNCHANGED <<session, receipts, journalBytes>>
  BY DEF FinishSnapshot, Post
<1>2. snap \in SnapshotSet
  BY DEF IInv, TypeInv, RuntimeTypes, SnapshotSet
<1>3. m \in ResponseMessage
  BY <1>1, <1>2, BusyFacts DEF PostedMessage, ResponseMessage, Kinds
<1>4. session.boundary = "input-requested"
  BY <1>1 DEF Finish, IInv, ProtocolInv, BusyInv, AtInputBoundary
<1>5. ASSUME NEW a, a = m PROVE Faithful(a)'
  BY <1>1, <1>4, <1>5 DEF Faithful
<1> QED BY <1>1, <1>3, <1>5, EngineUnchanged, FinishPreserves DEF Kinds

\* The worker refuses a snapshot it cannot decode.
LEMMA RejectRestorePreserves == ASSUME IInv, RejectRestore PROVE IInv'
<1> DEFINE m == [id |-> busy.id, kind |-> "restore",
                 body |-> [status |-> "rejected", revision |-> session.revision,
                           boundary |-> session.boundary]]
<1>1. /\ Finish("restore") /\ toHost' = Append(toHost, m)
      /\ UNCHANGED <<session, receipts, journalBytes>>
  BY DEF RejectRestore, Post
<1>2. m \in ResponseMessage
  BY <1>1, BusyFacts DEF PostedMessage, ResponseMessage, Kinds, IInv, TypeInv, RuntimeTypes
<1>3. /\ Belongs(busy) /\ busy.kind = "restore" /\ busy # Idle /\ ~terminated
      /\ UNCHANGED <<revision, boundary>>
  BY <1>1, BusyFacts DEF Kinds
<1>4. operation.kind = "restore"
  BY <1>3 DEF Belongs
<1>5. Agree
  BY <1>3, <1>4 DEF IInv, ProtocolInv, CallInv, AgreementInv
<1>6. ASSUME NEW a, a = m PROVE Faithful(a)'
  BY <1>1, <1>3, <1>5, <1>6 DEF Faithful, Agree
<1> QED BY <1>1, <1>2, <1>6, EngineUnchanged, FinishPreserves DEF Kinds

\* The restored story comes with its own sound journal.
LEMMA FinishRestorePreserves == ASSUME IInv, FinishRestore PROVE IInv'
<1> DEFINE s == busy.body.snapshot
           m == [id |-> busy.id, kind |-> "restore",
                 body |-> [status |-> "restored", revision |-> s.revision,
                           boundary |-> "input-requested"]]
<1>1. /\ Finish("restore") /\ toHost' = Append(toHost, m)
      /\ session' = [status |-> "live", revision |-> s.revision,
                     boundary |-> "input-requested", story |-> s.story]
      /\ receipts' = s.receipts
      /\ journalBytes' = s.journalBytes
  BY DEF FinishRestore, Post
<1>2. /\ busy # Idle /\ busy.kind = "restore" /\ busy' = Idle
      /\ busy \in PostedMessage /\ Belongs(busy) /\ ~terminated
      /\ UNCHANGED <<booted, revision, boundary, operation, recovery, nextId, saves, reply>>
      /\ UNCHANGED <<terminated, pending, toWorker>>
  BY <1>1, BusyFacts DEF Kinds
<1>3. s \in saves /\ s \in SnapshotSet
  BY <1>2 DEF IInv, TypeInv, AdapterTypes, ProtocolInv, BusyInv
<1>4. m \in ResponseMessage
  BY <1>2, <1>3 DEF PostedMessage, ResponseMessage, Kinds, SnapshotSet, Boundaries
<1>5. RuntimeTypes'
  BY <1>1, <1>2, <1>3 DEF RuntimeTypes, SnapshotSet, Boundaries
<1>6. JournalInv'
  <2>1. JournalSound(s.story, s.revision, "input-requested", s.receipts)
    BY <1>3 DEF IInv, ProtocolInv, JournalInv
  <2>2. /\ session'.story = s.story /\ session'.revision = s.revision
        /\ session'.boundary = "input-requested" /\ session'.status = "live"
    BY <1>1
  <2>3. JournalSound(session.story, session.revision, session.boundary, receipts)'
    BY <1>1, <2>1, <2>2
  <2> QED BY <1>2, <2>2, <2>3 DEF IInv, ProtocolInv, JournalInv
<1>7. operation.kind = "restore" /\ operation.id = busy.id /\ operation.body = busy.body
  BY <1>2 DEF Belongs
<1>8. toWorker = <<>>
  BY <1>2, <1>7 DEF IInv, ProtocolInv, MessageInv
<1>9. AgreementInv'
  BY <1>2, <1>7, <1>8 DEF IInv, ProtocolInv, CallInv, AgreementInv
<1>10. ReplyIsTrue'
  BY <1>2, <1>7 DEF IInv, ProtocolInv, ReplyInv, ReplyIsTrue, NoReply
<1>11. ASSUME NEW a, a = m PROVE Faithful(a)'
  BY <1>1, <1>2, <1>7, <1>11 DEF Faithful
<1> QED BY <1>1, <1>4, <1>5, <1>6, <1>9, <1>10, <1>11, FinishPreserves DEF Kinds

\* An interpreter failure leaves story and journal as they were.
LEMMA InterpreterFailsPreserves == ASSUME IInv, InterpreterFails PROVE IInv'
<1> DEFINE m == [id |-> busy.id, kind |-> "error", body |-> "none"]
<1>1. /\ Finish("execute") /\ toHost' = Append(toHost, m)
      /\ session' = [session EXCEPT !.status = "failed"]
      /\ UNCHANGED <<receipts, journalBytes>>
  BY DEF InterpreterFails, Post
<1>2. /\ busy' = Idle /\ busy \in PostedMessage /\ busy.kind = "execute"
      /\ UNCHANGED <<booted, revision, boundary, operation, recovery, nextId, saves, reply>>
      /\ UNCHANGED <<terminated, pending, toWorker>>
  BY <1>1, BusyFacts DEF Kinds
<1>3. m \in ResponseMessage
  BY <1>2 DEF PostedMessage, ResponseMessage, Kinds
<1>4. /\ session'.status = "failed" /\ session'.story = session.story
      /\ session'.revision = session.revision /\ session'.boundary = session.boundary
      /\ session' \in [status : {"none", "live", "failed"}, revision : 0..MaxRevision,
                       boundary : Boundaries, story : Seq(Request)]
  BY <1>1 DEF IInv, TypeInv, RuntimeTypes
<1>5. RuntimeTypes'
  BY <1>1, <1>2, <1>4 DEF IInv, TypeInv, RuntimeTypes
<1>6. JournalInv'
  BY <1>1, <1>2, <1>4 DEF IInv, ProtocolInv, JournalInv
<1>7. AgreementInv'
  BY <1>1, <1>2, <1>4, RunningExecute DEF AgreementInv, Agree, WithinOneTurn
<1>8. ReplyIsTrue'
  BY <1>2, RunningExecute DEF ReplyIsTrue, NoReply
<1> QED BY <1>1, <1>3, <1>4, <1>5, <1>6, <1>7, <1>8, FinishPreserves DEF Kinds

\* A command the story cannot read is rejected and journaled.
LEMMA RejectLongCommandPreserves == ASSUME IInv, RejectLongCommand PROVE IInv'
<1> DEFINE r == busy.body
           res == Rejected("invalid_command")
           m == [id |-> busy.id, kind |-> "execute", body |-> res]
<1>1. Finish("execute") /\ UNCHANGED session
  BY DEF RejectLongCommand
<1>2. /\ busy' = Idle /\ busy \in PostedMessage /\ busy.kind = "execute" /\ Belongs(busy)
      /\ UNCHANGED <<booted, revision, boundary, operation, recovery, nextId, saves, reply>>
      /\ UNCHANGED <<terminated, pending, toWorker>>
  BY <1>1, BusyFacts DEF Kinds
<1>3. CanRecord(RejectBytes)
  <2>1. CanRecord(WorstBytes)
    BY <1>2, RunningExecute
  <2>2. journalBytes \in Nat
    BY DEF IInv, TypeInv, RuntimeTypes
  <2> QED BY <2>1, <2>2, ProtocolConstants DEF ProtocolConstants, CanRecord
<1>4. Record(r, res, RejectBytes) /\ toHost' = Append(toHost, m)
  BY <1>3 DEF RejectLongCommand, Post
<1>5. r \in Request /\ ~Known(r) /\ session.status # "none"
  BY <1>2, RunningExecute DEF Runnable
<1>6. "invalid_command" \in Rejections
  BY DEF Rejections
<1>7. /\ JournalInv'
      /\ receipts' \in Journals /\ journalBytes' \in 0..MaxJournalBytes
      /\ r.requestId \in DOMAIN receipts'
      /\ receipts'[r.requestId].request = r
      /\ receipts'[r.requestId].result = res
  BY <1>1, <1>2, <1>3, <1>4, <1>5, <1>6, RecordRejection
<1>8. m \in ResponseMessage
  BY <1>2, <1>6, RejectedIsResult DEF PostedMessage, ResponseMessage, Kinds
<1>9. RuntimeTypes'
  BY <1>1, <1>2, <1>7 DEF IInv, TypeInv, RuntimeTypes
<1>10. AgreementInv'
  BY <1>1, <1>2, RunningExecute DEF AgreementInv, Agree, WithinOneTurn
<1>11. ReplyIsTrue'
  BY <1>2, RunningExecute DEF ReplyIsTrue, NoReply
<1>12. ASSUME NEW a, a = m, busy.id = operation.id PROVE Faithful(a)'
  <2>1. operation'.body = r
    BY <1>2, <1>12 DEF Belongs
  <2> QED BY <1>7, <1>12, <2>1 DEF Faithful, Known
<1> QED BY <1>1, <1>4, <1>7, <1>8, <1>9, <1>10, <1>11, <1>12, FinishPreserves DEF Kinds

\* Running a new request at the revision it expects keeps the journal sound.
LEMMA CommitJournal ==
  ASSUME NEW story \in Seq(Request), NEW rev \in Nat, NEW bnd, NEW journal, NEW journal2,
         NEW r \in Request, NEW bnd2,
         JournalSound(story, rev, bnd, journal),
         r.requestId \notin DOMAIN journal,
         r.expectedRevision = rev,
         DOMAIN journal2 = DOMAIN journal \cup {r.requestId},
         journal2[r.requestId].request = r,
         journal2[r.requestId].result.status = "committed",
         journal2[r.requestId].result.previousRevision = rev,
         journal2[r.requestId].result.revision = rev + 1,
         journal2[r.requestId].result.boundary = bnd2,
         \A id \in DOMAIN journal : id # r.requestId => journal2[id] = journal[id],
         \A id \in DOMAIN journal : journal[id].result.revision \in Nat
  PROVE  JournalSound(Append(story, r), rev + 1, bnd2, journal2)
<1> DEFINE story2 == Append(story, r)
<1>1. /\ Len(story) = rev
      /\ Len(story2) = rev + 1
      /\ \A i \in 1..rev : story2[i] = story[i]
      /\ story2[rev + 1] = r
  BY AppendFacts DEF JournalSound
<1>2. \A id \in DOMAIN journal : id \in DOMAIN journal2 /\ journal2[id] = journal[id]
  OBVIOUS
<1>3. ASSUME NEW i \in 1..(rev + 1)
      PROVE  /\ story2[i].requestId \in DOMAIN journal2
             /\ journal2[story2[i].requestId].request = story2[i]
             /\ journal2[story2[i].requestId].result.status = "committed"
             /\ journal2[story2[i].requestId].result.revision = i
  <2>1. CASE i = rev + 1
    BY <2>1, <1>1
  <2>2. CASE i # rev + 1
    <3>1. i \in 1..rev
      BY <2>2
    <3>2. /\ story[i].requestId \in DOMAIN journal
          /\ journal[story[i].requestId].request = story[i]
          /\ journal[story[i].requestId].result.status = "committed"
          /\ journal[story[i].requestId].result.revision = i
      BY <3>1, <1>1 DEF JournalSound
    <3> QED BY <3>1, <3>2, <1>1, <1>2
  <2> QED BY <2>1, <2>2
<1>4. ASSUME NEW id \in DOMAIN journal2
      PROVE  /\ journal2[id].request.requestId = id
             /\ journal2[id].result.revision <= rev + 1
             /\ journal2[id].result.revision = rev + 1 => journal2[id].result.boundary = bnd2
             /\ journal2[id].result.status = "committed" =>
                  /\ journal2[id].result.revision \in 1..(rev + 1)
                  /\ story2[journal2[id].result.revision] = journal2[id].request
                  /\ journal2[id].result.previousRevision = journal2[id].result.revision - 1
                  /\ journal2[id].request.expectedRevision = journal2[id].result.previousRevision
             /\ journal2[id].result.status = "rejected" =>
                  /\ journal2[id].result.rejection \in Rejections
                  /\ journal2[id].result.previousRevision = journal2[id].result.revision
  <2>1. CASE id = r.requestId
    BY <2>1, <1>1
  <2>2. CASE id # r.requestId
    <3>1. id \in DOMAIN journal /\ journal2[id] = journal[id]
      BY <2>2
    <3>2. /\ journal[id].request.requestId = id
          /\ journal[id].result.revision <= rev
          /\ journal[id].result.status = "committed" =>
               /\ journal[id].result.revision \in 1..rev
               /\ story[journal[id].result.revision] = journal[id].request
               /\ journal[id].result.previousRevision = journal[id].result.revision - 1
               /\ journal[id].request.expectedRevision = journal[id].result.previousRevision
          /\ journal[id].result.status = "rejected" =>
               /\ journal[id].result.rejection \in Rejections
               /\ journal[id].result.previousRevision = journal[id].result.revision
      BY <3>1 DEF JournalSound
    <3>3. journal[id].result.revision \in Nat
      BY <3>1
    <3> QED BY <3>1, <3>2, <3>3, <1>1
  <2> QED BY <2>1, <2>2
<1> QED BY <1>1, <1>3, <1>4 DEF JournalSound

\* A turn is run and journaled; the preflight has made room for it.
LEMMA CommitTurnPreserves ==
  ASSUME IInv, NEW bnd \in Boundaries, NEW bytes \in 1..WorstBytes, CommitTurn(bnd, bytes)
  PROVE  IInv'
<1> DEFINE r == busy.body
           res == [status |-> "committed", rejection |-> "none",
                   previousRevision |-> session.revision,
                   revision |-> session.revision + 1, boundary |-> bnd]
           m == [id |-> busy.id, kind |-> "execute", body |-> res]
<1>1. /\ Finish("execute") /\ session.status = "live"
      /\ session' = [session EXCEPT !.revision = @ + 1, !.boundary = bnd, !.story = Append(@, r)]
  BY DEF CommitTurn
<1>2. /\ busy' = Idle /\ busy \in PostedMessage /\ busy.kind = "execute" /\ Belongs(busy)
      /\ UNCHANGED <<booted, revision, boundary, operation, recovery, nextId, saves, reply>>
      /\ UNCHANGED <<terminated, pending, toWorker>>
  BY <1>1, BusyFacts DEF Kinds
<1>3. /\ r \in Request /\ ~Known(r) /\ r.expectedRevision = session.revision
      /\ session.revision # MaxRevision /\ CanRecord(WorstBytes)
  BY <1>2, RunningExecute DEF Runnable
<1>4. /\ session \in [status : {"none", "live", "failed"}, revision : 0..MaxRevision,
                      boundary : Boundaries, story : Seq(Request)]
      /\ receipts \in Journals /\ journalBytes \in 0..MaxJournalBytes
  BY DEF IInv, TypeInv, RuntimeTypes
<1>5. bytes \in Nat /\ MaxJournalBytes \in Nat /\ MaxRevision \in Nat
  BY ProtocolConstants DEF ProtocolConstants
<1>6. CanRecord(bytes)
  BY <1>3, <1>4, <1>5, ProtocolConstants DEF ProtocolConstants, CanRecord
<1>7. Record(r, res, bytes) /\ toHost' = Append(toHost, m)
  BY <1>6 DEF CommitTurn, Post
<1>8. session.revision + 1 \in 0..MaxRevision /\ session.revision \in Nat
  BY <1>3, <1>4, <1>5
<1>9. res \in Result
  BY <1>4, <1>8 DEF Result
<1>10. /\ receipts' \in Journals
       /\ journalBytes' \in 0..MaxJournalBytes
       /\ DOMAIN receipts' = DOMAIN receipts \cup {r.requestId}
       /\ receipts'[r.requestId].request = r
       /\ receipts'[r.requestId].result = res
       /\ \A id \in DOMAIN receipts : id # r.requestId => receipts'[id] = receipts[id]
  BY <1>3, <1>4, <1>5, <1>6, <1>7, <1>9, RecordFacts
<1>11. /\ session'.revision = session.revision + 1 /\ session'.boundary = bnd
       /\ session'.story = Append(session.story, r) /\ session'.status = "live"
       /\ session' \in [status : {"none", "live", "failed"}, revision : 0..MaxRevision,
                        boundary : Boundaries, story : Seq(Request)]
  <2>1. Append(session.story, r) \in Seq(Request)
    BY <1>3, <1>4, AppendFacts
  <2>2. session' = [status |-> "live", revision |-> session.revision + 1,
                    boundary |-> bnd, story |-> Append(session.story, r)]
    BY <1>1, <1>4
  <2> QED BY <2>1, <2>2, <1>8
<1>12. RuntimeTypes'
  BY <1>2, <1>10, <1>11 DEF RuntimeTypes
<1>13. JournalInv'
  <2>1. JournalSound(session.story, session.revision, session.boundary, receipts)
    BY DEF IInv, ProtocolInv, JournalInv
  <2>2. \A id \in DOMAIN receipts : receipts[id].result.revision \in Nat
    BY <1>4, JournalShape DEF Receipt, Result
  <2>3. r.requestId \notin DOMAIN receipts /\ session.story \in Seq(Request)
    BY <1>3, <1>4 DEF Known
  <2>a. /\ receipts'[r.requestId].result.status = "committed"
        /\ receipts'[r.requestId].result.previousRevision = session.revision
        /\ receipts'[r.requestId].result.revision = session.revision + 1
        /\ receipts'[r.requestId].result.boundary = bnd
    BY <1>10
  <2> HIDE DEF res, r
  <2>4. JournalSound(Append(session.story, r), session.revision + 1, bnd, receipts')
    BY <2>a, <1>3, <1>8, <1>10, <2>1, <2>2, <2>3, CommitJournal
  <2>5. JournalSound(session.story, session.revision, session.boundary, receipts)'
    BY <1>11, <2>4
  <2> QED BY <1>2, <1>11, <2>5 DEF IInv, ProtocolInv, JournalInv
<1>14. m \in ResponseMessage
  BY <1>2, <1>9 DEF PostedMessage, ResponseMessage, Kinds
<1>15. AgreementInv'
  <2>2. /\ operation.kind # "restore"
        /\ operation.kind = "execute" => operation.body = r
        /\ recovery.kind = "execute-uncertain" => recovery.request = r
        /\ recovery.kind = "ready" => operation.kind = "execute"
    BY <1>2, RunningExecute
  <2>3. ASSUME NEW q, q = r, booted, ~terminated PROVE WithinOneTurn(q)'
    BY <1>2, <1>10, <1>11, <2>3, RunningExecute DEF WithinOneTurn, Agree, Known
  <2> QED BY <1>2, <2>2, <2>3 DEF AgreementInv
<1>16. ReplyIsTrue'
  BY <1>2, RunningExecute DEF ReplyIsTrue, NoReply
<1>17. ASSUME NEW a, a = m, busy.id = operation.id PROVE Faithful(a)'
  <2>1. operation'.body = r
    BY <1>2, <1>17 DEF Belongs
  <2> QED BY <1>10, <1>17, <2>1 DEF Faithful, Known
<1> QED BY <1>1, <1>7, <1>11, <1>12, <1>13, <1>14, <1>15, <1>16, <1>17, FinishPreserves DEF Kinds

-----------------------------------------------------------------------------
(* The host settles the call in progress.                                  *)

\* Settling a call on the adapter preserves the invariant.
LEMMA SettlePreserves ==
  ASSUME IInv, operation' = Idle,
         UNCHANGED <<nextId, terminated, toWorker>>, UNCHANGED runtimeVars,
         pending' = {},
         toHost' \in Seq(ResponseMessage),
         \A k \in 1..Len(toHost') : toHost'[k].id \in 1..(nextId - 1),
         terminated => toHost' = <<>>,
         Flags', AdapterTypes', JournalInv', AgreementInv', ReplyInv',
         saves \subseteq saves',
         booted' => session.status # "none" /\ recovery'.kind # "boot-quarantined",
         ~booted' => recovery'.kind \in {"ready", "boot-quarantined"},
         recovery'.kind = "restore-quarantined" => terminated,
         \A i \in 1..Len(toWorker) : Belongs(toWorker[i])',
         busy # Idle => Belongs(busy)'
  PROVE  IInv'
<1>1. UNCHANGED <<session, receipts, journalBytes, busy>>
  BY DEF runtimeVars
<1>2. operation'.id = 0 /\ operation'.kind = "none"
  BY DEF Idle
<1>3. LeaseTypes'
  BY DEF IInv, TypeInv, LeaseTypes
<1>4. RuntimeTypes'
  BY <1>1 DEF IInv, TypeInv, RuntimeTypes
<1>5. BusyInv'
  <2>1. busy.kind = "restore" => busy.body.snapshot \in saves'
    BY DEF IInv, ProtocolInv, BusyInv
  <2> QED BY <1>1, <2>1 DEF IInv, ProtocolInv, BusyInv, Runnable, CanRecord, Known, AtInputBoundary
<1>6. CallInv'
  BY <1>1, <1>2 DEF CallInv
<1>7. \A m : Belongs(m)' => m.id # 0
  BY DEF Belongs
<1>8. MessageInv'
  <2>1. terminated => toWorker = <<>> /\ busy = Idle
    BY DEF IInv, ProtocolInv, MessageInv
  <2>2. ASSUME NEW i \in 1..Len(toWorker) PROVE toWorker[i].id # 0
    BY DEF IInv, ProtocolInv, MessageInv, Belongs
  <2>3. busy # Idle => busy.id # 0
    BY DEF IInv, ProtocolInv, MessageInv, Belongs
  <2> QED BY <1>1, <1>2, <2>1, <2>2, <2>3 DEF MessageInv
<1>9. AnswerInv'
  <2>1. \A k \in 1..Len(toHost') : toHost'[k].id # 0 /\ toHost'[k].id \in 1..(nextId' - 1)
    OBVIOUS
  <2> QED BY <1>2, <2>1 DEF AnswerInv
<1> QED BY <1>3, <1>4, <1>5, <1>6, <1>8, <1>9 DEF IInv, TypeInv, ProtocolInv

\* The engine is where it was: what the adapter says of it may not change.
LEMMA FailPreserves ==
  ASSUME IInv, operation # Idle, FailOperation,
         UNCHANGED <<nextId, terminated, toWorker>>, UNCHANGED runtimeVars,
         pending' = {},
         toHost' \in Seq(ResponseMessage),
         \A k \in 1..Len(toHost') : toHost'[k].id \in 1..(nextId - 1),
         terminated => toHost' = <<>>,
         operation.kind # "execute" =>
           \/ terminated
           \/ /\ toWorker = <<>> /\ (busy # Idle => busy.id # operation.id)
              /\ operation.kind # "restore"
  PROVE  IInv'
<1>1. /\ operation' = Idle
      /\ UNCHANGED <<booted, revision, boundary, saves, reply>>
      /\ UNCHANGED <<session, receipts, journalBytes, busy>>
      /\ operation.kind \in Kinds
  BY DEF FailOperation, runtimeVars, IInv, ProtocolInv, CallInv, Kinds
<1>2. /\ operation.kind = "boot" => recovery' = [kind |-> "boot-quarantined"]
      /\ operation.kind = "execute" => recovery' = Uncertain(operation.body)
      /\ operation.kind = "restore" => recovery' = [kind |-> "restore-quarantined"]
      /\ operation.kind \in {"snapshot", "inspect"} => recovery' = recovery
  BY DEF FailOperation
<1>3. /\ operation.kind = "execute" => operation.body \in Request
      /\ operation.kind = "execute" => recovery = Ready \/ recovery = Uncertain(operation.body)
      /\ operation.kind = "boot" => ~booted /\ recovery.kind = "ready"
      /\ operation.kind # "boot" => booted
      /\ operation.kind \in {"snapshot", "restore"} => recovery.kind = "ready"
      /\ booted => session.status # "none" /\ recovery.kind # "boot-quarantined"
      /\ ~booted => recovery.kind \in {"ready", "boot-quarantined"}
      /\ recovery.kind = "restore-quarantined" => terminated
  BY <1>1 DEF IInv, ProtocolInv, CallInv, Kinds
<1>4. Flags'
  BY <1>1 DEF FailOperation, IInv, TypeInv, Flags
<1>5. AdapterTypes'
  <2>1. \/ recovery' = Ready
        \/ recovery' = [kind |-> "boot-quarantined"]
        \/ recovery' = [kind |-> "restore-quarantined"]
        \/ \E r \in Request : recovery' = Uncertain(r)
    BY <1>1, <1>2, <1>3 DEF IInv, TypeInv, AdapterTypes, Kinds
  <2> QED BY <1>1, <2>1, ProtocolConstants
          DEF ProtocolConstants, IInv, TypeInv, AdapterTypes, Idle
<1>6. JournalInv'
  BY <1>1 DEF IInv, ProtocolInv, JournalInv
<1>7. /\ booted' => session.status # "none" /\ recovery'.kind # "boot-quarantined"
      /\ ~booted' => recovery'.kind \in {"ready", "boot-quarantined"}
      /\ recovery'.kind = "restore-quarantined" => terminated
  BY <1>1, <1>2, <1>3 DEF Uncertain, Kinds
<1>8. AgreementInv'
  <2> SUFFICES ASSUME booted, ~terminated
               PROVE  /\ recovery'.kind = "ready" => Agree
                      /\ recovery'.kind = "execute-uncertain" => WithinOneTurn(recovery'.request)
    BY <1>1 DEF AgreementInv, Agree, WithinOneTurn, Known, Idle
  <2> QED BY <1>1, <1>2, <1>3 DEF IInv, ProtocolInv, AgreementInv, Kinds, Uncertain
<1>9. ReplyInv'
  <2>1. reply # NoReply => operation.kind \notin {"execute", "restore"} /\ recovery.kind = "ready"
        /\ ReplyIsTrue
    BY DEF IInv, ProtocolInv, ReplyInv
  <2>2. reply # NoReply => recovery'.kind = "ready" \/ operation.kind = "boot"
    BY <1>1, <1>2, <2>1 DEF Kinds
  <2>3. operation.kind = "boot" => reply = NoReply
    BY <1>3 DEF IInv, ProtocolInv, ReplyInv
  <2> QED BY <1>1, <2>1, <2>2, <2>3 DEF IInv, ProtocolInv, ReplyInv, ReplyIsTrue, Idle
<1>10. \A m : (Belongs(m) /\ (operation.kind = "execute" \/ m.id # operation.id)
                 /\ ~terminated) => Belongs(m)'
  <2> SUFFICES ASSUME NEW m, Belongs(m), ~terminated,
                      operation.kind = "execute" \/ m.id # operation.id
               PROVE  Belongs(m)'
    OBVIOUS
  <2>1. m.kind = "execute" /\ m.body \in Request /\ m.id \in 1..(nextId - 1)
    BY <1>1 DEF Belongs
  <2>2. recovery' = Uncertain(m.body)
    BY <1>1, <1>2, <1>3, <2>1 DEF Belongs, Ready, Uncertain, Kinds
  <2>3. operation'.id = 0 /\ operation'.kind = "none"
    BY <1>1 DEF Idle
  <2> QED BY <2>1, <2>2, <2>3 DEF Belongs, Uncertain
<1>11. \A i \in 1..Len(toWorker) : Belongs(toWorker[i])'
  <2> SUFFICES ASSUME NEW i \in 1..Len(toWorker), NEW m, m = toWorker[i] PROVE Belongs(m)'
    BY DEF Belongs
  <2>1. Belongs(m) /\ ~terminated
    BY DEF IInv, ProtocolInv, MessageInv
  <2> QED BY <2>1, <1>10
<1>12. busy # Idle => Belongs(busy)'
  <2> SUFFICES ASSUME busy # Idle, NEW m, m = busy PROVE Belongs(m)'
    BY <1>1 DEF Belongs
  <2>1. Belongs(m) /\ ~terminated
    BY DEF IInv, ProtocolInv, MessageInv
  <2> QED BY <2>1, <1>10
<1> QED BY <1>1, <1>4, <1>5, <1>6, <1>7, <1>8, <1>9, <1>11, <1>12, SettlePreserves

\* The answer at the head of the queue, when its call still waits for it.
LEMMA AwaitedFacts ==
  ASSUME IInv, toHost # <<>>, Head(toHost).id \in pending
  PROVE  /\ Head(toHost) \in ResponseMessage
         /\ Head(toHost).id = operation.id
         /\ pending \ {Head(toHost).id} = {}
         /\ operation # Idle /\ operation.kind \in Kinds
         /\ ~terminated /\ toWorker = <<>>
         /\ Head(toHost).kind = "error" =>
              /\ operation.kind # "restore"
              /\ busy # Idle => busy.id # operation.id
         /\ Head(toHost).kind # "error" =>
              /\ Head(toHost).kind = operation.kind
              /\ busy = Idle
              /\ Faithful(Head(toHost))
         /\ Tail(toHost) \in Seq(ResponseMessage)
         /\ \A k \in 1..Len(Tail(toHost)) : Tail(toHost)[k].id \in 1..(nextId - 1)
<1> DEFINE m == Head(toHost)
<1>1. toHost \in Seq(ResponseMessage) /\ Len(toHost) \in Nat
  BY DEF IInv, TypeInv, LeaseTypes
<1>2. /\ m \in ResponseMessage /\ m = toHost[1] /\ 1 \in 1..Len(toHost)
      /\ Tail(toHost) \in Seq(ResponseMessage)
      /\ \A k \in 1..Len(Tail(toHost)) :
           Tail(toHost)[k] = toHost[k + 1] /\ k + 1 \in 1..Len(toHost)
  BY <1>1, TailFacts
<1>3. pending \subseteq {operation.id} /\ 0 \notin pending
      /\ (operation.kind = "none" => operation = Idle)
      /\ operation.kind \in Kinds \cup {"none"}
  BY DEF IInv, ProtocolInv, CallInv, Kinds
<1>4. m.id = operation.id /\ pending \ {m.id} = {} /\ operation.id # 0
  BY <1>3
<1>5. operation # Idle /\ operation.kind \in Kinds
  BY <1>3, <1>4 DEF Idle
<1>6. ~terminated
  BY DEF IInv, ProtocolInv, MessageInv
<1>7. \A k \in 1..Len(toHost) : toHost[k].id \in 1..(nextId - 1)
  BY DEF IInv, ProtocolInv, AnswerInv
<1>8. /\ toWorker = <<>>
      /\ m.kind = "error" =>
           /\ operation.kind # "restore"
           /\ busy # Idle => busy.id # operation.id
      /\ m.kind # "error" => m.kind = operation.kind /\ busy = Idle /\ Faithful(m)
  <2>1. \A a : a = toHost[1] /\ a.id = operation.id =>
           /\ toWorker = <<>>
           /\ a.kind = "error" =>
                /\ operation.kind # "restore"
                /\ busy # Idle => busy.id # operation.id
           /\ a.kind # "error" => a.kind = operation.kind /\ busy = Idle /\ Faithful(a)
    BY <1>2 DEF IInv, ProtocolInv, AnswerInv
  <2> HIDE DEF m
  <2> QED BY <2>1, <1>2, <1>4
<1> QED BY <1>2, <1>4, <1>5, <1>6, <1>7, <1>8

\* A genuine answer to an execute passes the adapter's validation.
LEMMA ExecuteAccepted ==
  ASSUME IInv, ~terminated, operation.kind = "execute",
         NEW m, m.kind = "execute", Faithful(m)
  PROVE  AcceptsExecute(operation.body, m.body, operation.revision, operation.boundary)
<1> DEFINE r == operation.body
           res == m.body
<1>1. /\ booted /\ operation.revision = revision /\ operation.boundary = boundary
      /\ r \in Request
  BY DEF IInv, ProtocolInv, CallInv
<1>2. WithinOneTurn(r)
  BY <1>1 DEF IInv, ProtocolInv, AgreementInv
<1>3. /\ revision \in Nat /\ session.revision \in Nat /\ receipts \in Journals
  BY ProtocolConstants DEF ProtocolConstants, IInv, TypeInv, AdapterTypes, RuntimeTypes
<1>4. JournalSound(session.story, session.revision, session.boundary, receipts)
  BY DEF IInv, ProtocolInv, JournalInv
<1>5. \/ Known(r) /\ receipts[r.requestId].request = r /\ receipts[r.requestId].result = res
      \/ /\ res.status = "rejected"
         /\ res.rejection \in Rejections
         /\ res.previousRevision = session.revision
         /\ res.revision = session.revision
         /\ res.boundary = session.boundary
         /\ \A i \in 1..Len(session.story) : session.story[i] # r
  BY DEF Faithful
<1>6. CASE Known(r) /\ receipts[r.requestId].request = r /\ receipts[r.requestId].result = res
  <2>1. r.requestId \in DOMAIN receipts
    BY <1>6 DEF Known
  <2>2. res \in Result
    BY <1>3, <1>6, <2>1, JournalShape DEF Receipt
  <2>3. /\ res.revision <= session.revision
        /\ res.revision = session.revision => res.boundary = session.boundary
        /\ res.status = "committed" =>
             /\ res.previousRevision = res.revision - 1
             /\ r.expectedRevision = res.previousRevision
        /\ res.status = "rejected" =>
             /\ res.rejection \in Rejections
             /\ res.previousRevision = res.revision
    BY <1>4, <1>6, <2>1 DEF JournalSound
  <2>4. res.revision \in Nat /\ res.status \in {"committed", "rejected"}
    BY <2>2, ProtocolConstants DEF ProtocolConstants, Result
  <2>5. \/ Agree
        \/ session.revision = revision + 1 /\ res.status = "committed"
           /\ res.revision = session.revision
    BY <1>2, <1>6 DEF WithinOneTurn
  <2> QED BY <1>1, <1>3, <2>3, <2>4, <2>5 DEF AcceptsExecute, Agree
<1>7. CASE /\ res.status = "rejected"
           /\ res.rejection \in Rejections
           /\ res.previousRevision = session.revision
           /\ res.revision = session.revision
           /\ res.boundary = session.boundary
           /\ \A i \in 1..Len(session.story) : session.story[i] # r
  <2>1. Agree
    <3> SUFFICES ASSUME Known(r), receipts[r.requestId].request = r,
                        receipts[r.requestId].result.status = "committed"
                 PROVE FALSE
      BY <1>2 DEF WithinOneTurn
    <3> QED BY <1>4, <1>7 DEF JournalSound, Known
  <2> QED BY <1>1, <1>3, <1>7, <2>1 DEF AcceptsExecute, Agree
<1> QED BY <1>5, <1>6, <1>7

\* Every genuine answer is accepted.
LEMMA GenuineAccepted == IInv => GenuineResultsAccepted
<1> SUFFICES ASSUME IInv, toHost # <<>>, Head(toHost).id \in pending,
                    Head(toHost).kind # "error", NEW m, m = Head(toHost)
             PROVE  Accepts(m)
  BY DEF GenuineResultsAccepted
<1>1. /\ m.kind = operation.kind /\ m.kind \in Kinds /\ Faithful(m) /\ ~terminated
      /\ toWorker = <<>> /\ busy = Idle
  BY AwaitedFacts
<1>2. /\ operation.revision = revision /\ operation.boundary = boundary
      /\ operation.kind \in {"snapshot", "restore"} => recovery.kind = "ready"
      /\ operation.kind # "boot" => booted
  BY <1>1 DEF IInv, ProtocolInv, CallInv, Kinds
<1>3. /\ revision \in 0..MaxRevision /\ session.revision \in 0..MaxRevision /\ MaxRevision \in Nat
  BY ProtocolConstants DEF ProtocolConstants, IInv, TypeInv, AdapterTypes, RuntimeTypes
<1>4. CASE m.kind = "boot"
  BY <1>1, <1>4 DEF Accepts
<1>5. CASE m.kind = "execute"
  BY <1>1, <1>5, ExecuteAccepted DEF Accepts
<1>6. CASE m.kind = "snapshot"
  <2>1. Agree
    BY <1>1, <1>2, <1>6 DEF IInv, ProtocolInv, AgreementInv
  <2>2. m.body = [revision |-> session.revision, story |-> session.story,
                  receipts |-> receipts, journalBytes |-> journalBytes]
    BY <1>1, <1>6 DEF Faithful
  <2>3. m.body.revision = session.revision
    BY <2>2
  <2> QED BY <1>1, <1>2, <1>6, <2>1, <2>3 DEF Accepts, Agree
<1>7. CASE m.kind = "restore"
  <2>1. /\ m.body.status \in {"restored", "rejected"}
        /\ m.body.revision = session.revision
        /\ m.body.boundary = session.boundary
        /\ m.body.status = "restored" => m.body.revision = operation.body.snapshot.revision
        /\ m.body.status = "rejected" => Agree
    BY <1>1, <1>7 DEF Faithful
  <2>2. AcceptsRestore(m.body)
    BY <1>2, <2>1 DEF AcceptsRestore, Agree
  <2> QED BY <1>1, <1>7, <2>2 DEF Accepts
<1>8. CASE m.kind = "inspect"
  <2>1. m.body = [revision |-> session.revision, boundary |-> session.boundary]
    BY <1>1, <1>8 DEF Faithful
  <2>2. /\ recovery.kind = "ready" => Agree
        /\ recovery.kind = "execute-uncertain" => WithinOneTurn(recovery.request)
    BY <1>1, <1>2, <1>8 DEF IInv, ProtocolInv, AgreementInv
  <2>3. AcceptsInspect(m.body)
    BY <1>2, <1>3, <2>1, <2>2 DEF AcceptsInspect, Agree, WithinOneTurn
  <2> QED BY <1>1, <1>8, <2>3 DEF Accepts
<1> QED BY <1>1, <1>4, <1>5, <1>6, <1>7, <1>8 DEF Kinds

\* The adapter takes the answer at its word, and it was true.
LEMMA ConfirmPreserves ==
  ASSUME IInv, ReceiveResponse, Head(toHost).kind # "error"
  PROVE  IInv'
<1> DEFINE m == Head(toHost)
<1>1. /\ toHost # <<>> /\ m.id \in pending /\ pending' = pending \ {m.id}
      /\ toHost' = Tail(toHost)
      /\ UNCHANGED <<nextId, terminated, toWorker>> /\ UNCHANGED runtimeVars
  BY DEF ReceiveResponse
<1>2. /\ m.kind = operation.kind /\ m.kind \in Kinds /\ Faithful(m) /\ ~terminated
      /\ toWorker = <<>> /\ busy = Idle /\ pending' = {} /\ m \in ResponseMessage
      /\ toHost' \in Seq(ResponseMessage)
      /\ \A k \in 1..Len(toHost') : toHost'[k].id \in 1..(nextId - 1)
  BY <1>1, AwaitedFacts
<1>3. Accepts(m)
  BY <1>1, GenuineAccepted DEF GenuineResultsAccepted
<1>4. Confirm(m)
  BY <1>3 DEF ReceiveResponse
<1>5. UNCHANGED <<session, receipts, journalBytes, busy>>
  BY <1>1 DEF runtimeVars
<1>6. /\ operation.revision = revision /\ operation.boundary = boundary
      /\ m.kind \in {"snapshot", "restore"} => recovery.kind = "ready"
      /\ m.kind = "boot" => ~booted /\ recovery.kind = "ready"
      /\ m.kind # "boot" => booted
      /\ booted => session.status # "none" /\ recovery.kind # "boot-quarantined"
      /\ recovery.kind = "restore-quarantined" => terminated
      /\ m.kind = "execute" => operation.body \in Request
  BY <1>2 DEF IInv, ProtocolInv, CallInv, Kinds
<1>7. /\ revision \in 0..MaxRevision /\ boundary \in Boundaries
      /\ session.revision \in 0..MaxRevision /\ session.boundary \in Boundaries
      /\ 0 \in 0..MaxRevision /\ 0 \in 0..MaxMessages /\ MaxRevision \in Nat
  BY ProtocolConstants DEF ProtocolConstants, IInv, TypeInv, AdapterTypes, RuntimeTypes
<1>8. SUFFICES /\ operation' = Idle /\ Flags' /\ AdapterTypes' /\ JournalInv'
               /\ AgreementInv' /\ ReplyInv' /\ saves \subseteq saves'
               /\ booted' /\ session.status # "none" /\ recovery'.kind # "boot-quarantined"
               /\ recovery'.kind # "restore-quarantined"
  <2>1. /\ \A i \in 1..Len(toWorker) : Belongs(toWorker[i])'
        /\ busy # Idle => Belongs(busy)'
    BY <1>2
  <2>2. booted' = TRUE
    BY <1>8 DEF Flags
  <2> HIDE DEF m
  <2> QED BY <1>1, <1>2, <1>8, <2>1, <2>2, SettlePreserves
<1>9. CASE m.kind = "boot"
  <2>1. ConfirmBoot(m.body)
    BY <1>4, <1>9 DEF Confirm
  <2>2. session.status = "live" /\ session.revision = 0 /\ session.boundary = m.body
    BY <1>2, <1>9 DEF Faithful
  <2>3. /\ booted' = TRUE /\ revision' = 0 /\ boundary' = m.body /\ recovery' = Ready
        /\ operation' = Idle /\ saves' = saves /\ reply' = reply
    BY <2>1 DEF ConfirmBoot
  <2>4. Flags'
    BY <1>1, <2>3 DEF IInv, TypeInv, Flags
  <2>5. AdapterTypes'
    BY <1>1, <1>7, <2>2, <2>3 DEF IInv, TypeInv, AdapterTypes, Idle
  <2>6. JournalInv'
    BY <1>5, <2>3 DEF IInv, ProtocolInv, JournalInv
  <2>7. AgreementInv'
    BY <1>5, <2>2, <2>3 DEF AgreementInv, Agree, Idle, Ready
  <2>8. ReplyInv'
    BY <1>5, <1>6, <1>9, <2>3 DEF IInv, ProtocolInv, ReplyInv, ReplyIsTrue, Idle, Ready
  <2> QED BY <2>2, <2>3, <2>4, <2>5, <2>6, <2>7, <2>8 DEF Ready
<1>10. CASE m.kind = "execute"
  <2> DEFINE r == operation.body
             res == m.body
  <2>1. ConfirmExecute(res)
    BY <1>4, <1>10 DEF Confirm
  <2>2. AcceptsExecute(r, res, revision, boundary)
    BY <1>2, <1>3, <1>6, <1>10 DEF Accepts
  <2>3. /\ recovery' = Ready /\ operation' = Idle /\ UNCHANGED <<booted, saves>>
        /\ reply' = [status |-> res.status, request |-> r]
    BY <2>1 DEF ConfirmExecute
  <2>4. booted /\ session.status # "none"
    BY <1>6, <1>10
  <2>5. WithinOneTurn(r)
    BY <1>2, <1>10, <2>4 DEF IInv, ProtocolInv, AgreementInv
  <2>6. JournalSound(session.story, session.revision, session.boundary, receipts)
    BY DEF IInv, ProtocolInv, JournalInv
  <2>7. \/ Known(r) /\ receipts[r.requestId].request = r /\ receipts[r.requestId].result = res
        \/ /\ res.status = "rejected"
           /\ res.revision = session.revision
           /\ res.boundary = session.boundary
           /\ \A i \in 1..Len(session.story) : session.story[i] # r
    BY <1>2, <1>10 DEF Faithful
  <2>8. /\ res.status \in {"committed", "rejected"}
        /\ res.status = "committed" => \E i \in 1..Len(session.story) : session.story[i] = r
        /\ res.status = "rejected" => \A i \in 1..Len(session.story) : session.story[i] # r
        /\ res.revision \in Nat /\ res.revision <= session.revision
        /\ res.revision = session.revision => res.boundary = session.boundary
    <3>1. CASE Known(r) /\ receipts[r.requestId].request = r
               /\ receipts[r.requestId].result = res
      <4>1. r.requestId \in DOMAIN receipts /\ receipts \in Journals
        BY <3>1 DEF Known, IInv, TypeInv, RuntimeTypes
      <4>2. res \in Result
        BY <3>1, <4>1, JournalShape DEF Receipt
      <4>3. res.revision \in Nat /\ res.status \in {"committed", "rejected"}
        BY <4>2, ProtocolConstants DEF ProtocolConstants, Result
      <4>4. /\ session.revision = Len(session.story)
            /\ res.revision <= session.revision
            /\ res.revision = session.revision => res.boundary = session.boundary
            /\ res.status = "committed" =>
                 res.revision \in 1..session.revision /\ session.story[res.revision] = r
        BY <3>1, <4>1, <2>6 DEF JournalSound
      <4>5. ASSUME NEW i \in 1..Len(session.story), session.story[i] = r
            PROVE  res.status = "committed"
        BY <3>1, <4>5, <2>6 DEF JournalSound
      <4> QED BY <4>3, <4>4, <4>5
    <3>2. CASE /\ res.status = "rejected"
               /\ res.revision = session.revision
               /\ res.boundary = session.boundary
               /\ \A i \in 1..Len(session.story) : session.story[i] # r
      BY <3>2, <1>7
    <3> QED BY <2>7, <3>1, <3>2
  <2>9. revision' = session.revision /\ boundary' = session.boundary
    <3>1. CASE Agree
      BY <3>1, <1>6, <1>7, <2>1, <2>8 DEF ConfirmExecute, Agree
    <3>2. CASE ~Agree
      <4>1. /\ session.revision = revision + 1 /\ Known(r)
            /\ receipts[r.requestId].request = r
            /\ receipts[r.requestId].result.status = "committed"
            /\ receipts[r.requestId].result.revision = session.revision
        BY <3>2, <2>5 DEF WithinOneTurn
      <4>2. \E i \in 1..Len(session.story) : session.story[i] = r
        BY <4>1, <2>6 DEF JournalSound, Known
      <4>3. receipts[r.requestId].result = res
        BY <2>7, <4>2
      <4> QED BY <1>6, <1>7, <2>1, <2>8, <4>1, <4>3 DEF ConfirmExecute
    <3> QED BY <3>1, <3>2
  <2>10. Flags'
    BY <1>1, <2>3 DEF IInv, TypeInv, Flags
  <2>11. AdapterTypes'
    BY <1>1, <1>6, <1>7, <1>10, <2>3, <2>8, <2>9 DEF IInv, TypeInv, AdapterTypes, Idle
  <2>12. JournalInv'
    BY <1>5, <2>3 DEF IInv, ProtocolInv, JournalInv
  <2>13. AgreementInv'
    BY <1>5, <2>3, <2>9 DEF AgreementInv, Agree, Idle, Ready
  <2>14. ReplyInv'
    BY <1>5, <2>3, <2>4, <2>8 DEF ReplyInv, ReplyIsTrue, Idle, Ready
  <2> QED BY <2>3, <2>4, <2>10, <2>11, <2>12, <2>13, <2>14 DEF Ready
<1>11. CASE m.kind = "snapshot"
  <2> DEFINE s == [revision |-> session.revision, story |-> session.story,
                   receipts |-> receipts, journalBytes |-> journalBytes]
  <2>1. ConfirmSnapshot(m.body)
    BY <1>4, <1>11 DEF Confirm
  <2>2. session.boundary = "input-requested" /\ m.body = s
    BY <1>2, <1>11 DEF Faithful
  <2>3. saves' = saves \cup {s} /\ operation' = Idle
        /\ UNCHANGED <<booted, revision, boundary, recovery, reply>>
    BY <2>1, <2>2 DEF ConfirmSnapshot
  <2>4. s \in SnapshotSet
    BY DEF IInv, TypeInv, RuntimeTypes, SnapshotSet
  <2>5. JournalSound(s.story, s.revision, "input-requested", s.receipts)
    BY <2>2 DEF IInv, ProtocolInv, JournalInv
  <2>6. Flags'
    BY <1>1, <2>3 DEF IInv, TypeInv, Flags
  <2>7. AdapterTypes'
    BY <1>1, <1>7, <2>3, <2>4 DEF IInv, TypeInv, AdapterTypes, Idle
  <2>8. JournalInv'
    BY <1>5, <2>3, <2>5 DEF IInv, ProtocolInv, JournalInv
  <2>9. booted /\ session.status # "none" /\ recovery.kind = "ready"
    BY <1>6, <1>11
  <2>10. AgreementInv'
    BY <1>2, <1>5, <1>11, <2>3, <2>9 DEF IInv, ProtocolInv, AgreementInv, Agree, Idle
  <2>11. ReplyInv'
    BY <1>5, <2>3, <2>9 DEF IInv, ProtocolInv, ReplyInv, ReplyIsTrue, Idle
  <2> QED BY <2>3, <2>6, <2>7, <2>8, <2>9, <2>10, <2>11
<1>12. CASE m.kind = "restore"
  <2>1. ConfirmRestore(m.body)
    BY <1>4, <1>12 DEF Confirm
  <2>2. /\ m.body.revision = session.revision /\ m.body.boundary = session.boundary
        /\ m.body.status \in {"restored", "rejected"}
        /\ m.body.status = "rejected" => Agree
    BY <1>2, <1>12 DEF Faithful
  <2>3. booted /\ session.status # "none" /\ recovery.kind = "ready"
    BY <1>6, <1>12
  <2>4. recovery = Ready
    BY <2>3 DEF IInv, TypeInv, AdapterTypes, Uncertain
  <2>5. /\ operation' = Idle /\ UNCHANGED <<booted, saves, reply>> /\ recovery' = Ready
        /\ revision' = session.revision /\ boundary' = session.boundary
    BY <2>1, <2>2, <2>4 DEF ConfirmRestore, Agree
  <2>6. Flags'
    BY <1>1, <2>5 DEF IInv, TypeInv, Flags
  <2>7. AdapterTypes'
    BY <1>1, <1>7, <2>5 DEF IInv, TypeInv, AdapterTypes, Idle
  <2>8. JournalInv'
    BY <1>5, <2>5 DEF IInv, ProtocolInv, JournalInv
  <2>9. AgreementInv'
    BY <1>5, <2>5 DEF AgreementInv, Agree, Idle, Ready
  <2>10. ReplyInv'
    BY <1>5, <2>3, <2>5 DEF IInv, ProtocolInv, ReplyInv, ReplyIsTrue, Idle, Ready
  <2> QED BY <2>3, <2>5, <2>6, <2>7, <2>8, <2>9, <2>10 DEF Ready
<1>13. CASE m.kind = "inspect"
  <2>1. ConfirmInspect(m.body)
    BY <1>4, <1>13 DEF Confirm
  <2>2. m.body = [revision |-> session.revision, boundary |-> session.boundary]
    BY <1>2, <1>13 DEF Faithful
  <2>3. booted /\ session.status # "none" /\ recovery.kind \in {"ready", "execute-uncertain"}
    BY <1>2, <1>6, <1>13 DEF IInv, TypeInv, AdapterTypes, Ready, Uncertain
  <2>4. recovery.kind = "ready" => Agree
    BY <1>2, <1>13, <2>3 DEF IInv, ProtocolInv, AgreementInv
  <2>5. /\ operation' = Idle /\ UNCHANGED <<booted, saves, reply, recovery>>
        /\ revision' = session.revision /\ boundary' = session.boundary
    BY <2>1, <2>2, <2>3, <2>4 DEF ConfirmInspect, Agree
  <2>6. Flags'
    BY <1>1, <2>5 DEF IInv, TypeInv, Flags
  <2>7. AdapterTypes'
    BY <1>1, <1>7, <2>5 DEF IInv, TypeInv, AdapterTypes, Idle
  <2>8. JournalInv'
    BY <1>5, <2>5 DEF IInv, ProtocolInv, JournalInv
  <2>9. AgreementInv'
    BY <1>5, <2>5 DEF AgreementInv, Agree, WithinOneTurn, Idle
  <2>10. ReplyInv'
    BY <1>5, <2>3, <2>5 DEF IInv, ProtocolInv, ReplyInv, ReplyIsTrue, Idle
  <2> QED BY <2>3, <2>5, <2>6, <2>7, <2>8, <2>9, <2>10
<1> QED BY <1>2, <1>9, <1>10, <1>11, <1>12, <1>13 DEF Kinds

\* The adapter receives the response its call waits for.
LEMMA ReceiveResponsePreserves == ASSUME IInv, ReceiveResponse PROVE IInv'
<1>1. /\ toHost # <<>> /\ Head(toHost).id \in pending
      /\ pending' = pending \ {Head(toHost).id} /\ toHost' = Tail(toHost)
      /\ UNCHANGED <<nextId, terminated, toWorker>> /\ UNCHANGED runtimeVars
  BY DEF ReceiveResponse
<1>2. CASE Head(toHost).kind # "error"
  BY <1>2, ConfirmPreserves
<1>3. CASE Head(toHost).kind = "error"
  <2>1. /\ operation # Idle /\ operation.kind \in Kinds /\ ~terminated /\ toWorker = <<>>
        /\ operation.kind # "restore" /\ (busy # Idle => busy.id # operation.id)
        /\ pending' = {} /\ toHost' \in Seq(ResponseMessage)
        /\ \A k \in 1..Len(toHost') : toHost'[k].id \in 1..(nextId - 1)
    BY <1>1, <1>3, AwaitedFacts
  <2>2. ~Accepts(Head(toHost))
    BY <1>3, <2>1 DEF Accepts, Kinds
  <2>3. FailOperation
    BY <2>2 DEF ReceiveResponse
  <2> QED BY <1>1, <2>1, <2>3, FailPreserves
<1> QED BY <1>2, <1>3

\* A rejected exchange leaves its call failed and, if an execute, uncertain.
LEMMA ExchangeRejectedPreserves == ASSUME IInv, ExchangeRejected PROVE IInv'
<1>1. /\ operation # Idle /\ operation.id \notin pending /\ FailOperation
      /\ UNCHANGED <<nextId, terminated, pending, toWorker, toHost>> /\ UNCHANGED runtimeVars
  BY DEF ExchangeRejected, leaseVars
<1>2. /\ pending' = {}
      /\ operation.kind # "execute" => terminated
  BY <1>1 DEF IInv, ProtocolInv, CallInv
<1>3. toHost' \in Seq(ResponseMessage) /\ (terminated => toHost' = <<>>)
  BY <1>1 DEF IInv, TypeInv, LeaseTypes, ProtocolInv, MessageInv
<1>4. \A k \in 1..Len(toHost') : toHost'[k].id \in 1..(nextId - 1)
  BY <1>1 DEF IInv, ProtocolInv, AnswerInv
<1> QED BY <1>1, <1>2, <1>3, <1>4, FailPreserves

\* Messages of finished exchanges may go, and an exchange may be abandoned.
LEMMA LeaseStepPreserves ==
  ASSUME IInv, UNCHANGED adapterVars, UNCHANGED <<session, receipts, journalBytes>>,
         terminated' \in BOOLEAN, terminated => terminated',
         pending' \subseteq pending,
         ~terminated' =>
           /\ UNCHANGED <<toWorker, busy>>
           /\ pending' = pending \/ operation.kind = "execute",
         terminated' => toWorker' = <<>> /\ toHost' = <<>> /\ busy' = Idle,
         toHost' \in Seq(ResponseMessage),
         \A k \in 1..Len(toHost') : \E j \in 1..Len(toHost) : toHost'[k] = toHost[j]
  PROVE  IInv'
<1>1. UNCHANGED <<booted, revision, boundary, operation, recovery, nextId, saves, reply>>
  BY DEF adapterVars
<1>2. Flags'
  BY <1>1 DEF IInv, TypeInv, Flags
<1>3. AdapterTypes'
  BY <1>1 DEF IInv, TypeInv, AdapterTypes
<1>4. toWorker' = toWorker \/ toWorker' = <<>>
  OBVIOUS
<1>5. busy' = busy \/ busy' = Idle
  OBVIOUS
<1>6. LeaseTypes'
  BY <1>4 DEF IInv, TypeInv, LeaseTypes
<1>7. RuntimeTypes'
  BY <1>5 DEF IInv, TypeInv, RuntimeTypes
<1>8. JournalInv'
  BY <1>1 DEF IInv, ProtocolInv, JournalInv
<1>9. BusyInv'
  BY <1>1, <1>5 DEF IInv, ProtocolInv, BusyInv, Runnable, CanRecord, Known, AtInputBoundary, Idle
<1>10. CallInv'
  BY <1>1 DEF IInv, ProtocolInv, CallInv
<1>11. \A m : Belongs(m)' = Belongs(m)
  BY <1>1 DEF Belongs
<1>12. MessageInv'
  <2>1. CASE terminated'
    BY <2>1 DEF MessageInv
  <2>2. CASE ~terminated'
    <3>1. \A i \in 1..Len(toWorker) : Belongs(toWorker[i])'
      <4> SUFFICES ASSUME NEW i \in 1..Len(toWorker), NEW m, m = toWorker[i] PROVE Belongs(m)'
        BY <2>2 DEF Belongs
      <4> QED BY <1>11 DEF IInv, ProtocolInv, MessageInv
    <3>2. busy # Idle => Belongs(busy)'
      <4> SUFFICES ASSUME busy # Idle, NEW m, m = busy PROVE Belongs(m)'
        BY <2>2 DEF Belongs
      <4> QED BY <1>11 DEF IInv, ProtocolInv, MessageInv
    <3> QED BY <1>1, <2>2, <3>1, <3>2 DEF IInv, ProtocolInv, MessageInv
  <2> QED BY <2>1, <2>2
<1>13. AnswerInv'
  <2>1. CASE terminated'
    BY <2>1 DEF AnswerInv
  <2>2. CASE ~terminated'
    <3>1. \A m : Faithful(m)' = Faithful(m)
      BY <1>1 DEF Faithful, Known, Agree
    <3>2. /\ nextId' = nextId /\ operation' = operation /\ toWorker' = toWorker /\ busy' = busy
      BY <1>1, <2>2
    <3>3. SUFFICES ASSUME NEW k \in 1..Len(toHost'), NEW a, a = toHost'[k]
          PROVE  /\ a.id \in 1..(nextId' - 1)
                 /\ a.id = operation'.id =>
                      /\ toWorker' = <<>>
                      /\ a.kind = "error" =>
                           /\ operation'.kind # "restore"
                           /\ busy' # Idle => busy'.id # operation'.id
                      /\ a.kind # "error" =>
                           /\ a.kind = operation'.kind
                           /\ busy' = Idle
                           /\ Faithful(a)'
      BY DEF AnswerInv, Faithful
    <3>4. PICK j \in 1..Len(toHost) : a = toHost[j]
      BY <3>3
    <3>5. /\ a.id \in 1..(nextId - 1)
          /\ a.id = operation.id =>
               /\ toWorker = <<>>
               /\ a.kind = "error" =>
                    /\ operation.kind # "restore"
                    /\ busy # Idle => busy.id # operation.id
               /\ a.kind # "error" => a.kind = operation.kind /\ busy = Idle /\ Faithful(a)
      BY <3>4 DEF IInv, ProtocolInv, AnswerInv
    <3> QED BY <3>1, <3>2, <3>5
  <2> QED BY <2>1, <2>2
<1>14. AgreementInv'
  <2>1. \A r : WithinOneTurn(r)' = WithinOneTurn(r)
    BY <1>1 DEF WithinOneTurn, Agree, Known
  <2>2. Agree' = Agree
    BY <1>1 DEF Agree
  <2> QED BY <1>1, <2>1, <2>2 DEF IInv, ProtocolInv, AgreementInv
<1>15. ReplyInv'
  BY <1>1 DEF IInv, ProtocolInv, ReplyInv, ReplyIsTrue
<1> QED BY <1>2, <1>3, <1>6, <1>7, <1>8, <1>9, <1>10, <1>12, <1>13, <1>14, <1>15
        DEF IInv, TypeInv, ProtocolInv

\* The response of an abandoned exchange is dropped.
LEMMA DropLateResponsePreserves == ASSUME IInv, DropLateResponse PROVE IInv'
<1>1. /\ toHost # <<>> /\ toHost' = Tail(toHost)
      /\ UNCHANGED <<terminated, pending, toWorker>>
      /\ UNCHANGED adapterVars /\ UNCHANGED <<session, receipts, journalBytes, busy>>
  BY DEF DropLateResponse, runtimeVars
<1>2. toHost \in Seq(ResponseMessage)
  BY DEF IInv, TypeInv, LeaseTypes
<1>3. /\ toHost' \in Seq(ResponseMessage)
      /\ \A k \in 1..Len(toHost') : toHost'[k] = toHost[k + 1] /\ k + 1 \in 1..Len(toHost)
  BY <1>1, <1>2, TailFacts
<1>4. \A k \in 1..Len(toHost') : \E j \in 1..Len(toHost) : toHost'[k] = toHost[j]
  BY <1>3
<1>5. terminated \in BOOLEAN /\ ~terminated
  BY <1>1 DEF IInv, TypeInv, Flags, ProtocolInv, MessageInv
<1> QED BY <1>1, <1>3, <1>4, <1>5, LeaseStepPreserves

\* The caller aborts an execute.
LEMMA AbortExecutePreserves == ASSUME IInv, AbortExecute PROVE IInv'
<1>1. /\ operation.kind = "execute" /\ pending' \subseteq pending
      /\ UNCHANGED <<terminated, toWorker, toHost>>
      /\ UNCHANGED adapterVars /\ UNCHANGED <<session, receipts, journalBytes, busy>>
  BY DEF AbortExecute, runtimeVars
<1>2. /\ toHost' \in Seq(ResponseMessage)
      /\ terminated => toWorker' = <<>> /\ toHost' = <<>> /\ busy' = Idle
  BY <1>1 DEF IInv, TypeInv, LeaseTypes, ProtocolInv, MessageInv
<1>3. terminated' \in BOOLEAN /\ (terminated => terminated') /\ (terminated' => terminated)
  BY <1>1 DEF IInv, TypeInv, Flags
<1>4. \A k \in 1..Len(toHost') : \E j \in 1..Len(toHost) : toHost'[k] = toHost[j]
  BY <1>1
<1> QED BY <1>1, <1>2, <1>3, <1>4, LeaseStepPreserves

\* The worker dies.
LEMMA LeaseFailsPreserves == ASSUME IInv, LeaseFails PROVE IInv'
<1>1. /\ terminated' = TRUE /\ pending' = {} /\ toWorker' = <<>> /\ toHost' = <<>>
      /\ busy' = Idle /\ UNCHANGED <<session, receipts, journalBytes>> /\ UNCHANGED adapterVars
  BY DEF LeaseFails
<1>2. toHost' \in Seq(ResponseMessage) /\ Len(toHost') = 0
  BY <1>1
<1>3. \A k \in 1..Len(toHost') : \E j \in 1..Len(toHost) : toHost'[k] = toHost[j]
  BY <1>2
<1> QED BY <1>1, <1>2, <1>3, LeaseStepPreserves

-----------------------------------------------------------------------------
(* Every call on the adapter starts an operation it may start.             *)

\* Outside the quarantines, the recovery state is confirmed or uncertain.
LEMMA RecoveryKinds ==
  ASSUME IInv
  PROVE  /\ recovery.kind = "ready" => recovery = Ready
         /\ booted /\ ReadyOperation => recovery = Ready
<1>1. booted => recovery.kind # "boot-quarantined"
  BY DEF IInv, ProtocolInv, CallInv
<1> QED BY <1>1 DEF IInv, TypeInv, AdapterTypes, Ready, Uncertain, ReadyOperation

\* The host calls boot.
LEMMA BootPreserves == ASSUME IInv, Boot PROVE IInv'
<1>1. ~booted /\ recovery.kind # "boot-quarantined" /\ Submit("boot", "story") /\ reply' = reply
  BY DEF Boot
<1>2. recovery = Ready
  BY <1>1, RecoveryKinds DEF IInv, ProtocolInv, CallInv
<1>3. Startable("boot", "story")
  BY <1>1, <1>2 DEF Startable, Kinds
<1> QED BY <1>1, <1>3, SubmitPreserves

\* The host calls execute: a new request, or the uncertain one.
LEMMA ExecutePreserves == ASSUME IInv, NEW r \in Request, Execute(r) PROVE IInv'
<1>1. booted /\ ExecuteAllowed(r) /\ Submit("execute", r) /\ reply' = NoReply
  BY DEF Execute
<1>2. recovery = Ready \/ recovery = Uncertain(r)
  BY <1>1, RecoveryKinds DEF ExecuteAllowed
<1>3. Startable("execute", r)
  BY <1>1, <1>2 DEF Startable, Kinds
<1> QED BY <1>1, <1>3, SubmitPreserves

\* The host calls snapshot.
LEMMA TakeSnapshotPreserves == ASSUME IInv, TakeSnapshot PROVE IInv'
<1>1. booted /\ ReadyOperation /\ Submit("snapshot", "none") /\ reply' = reply
  BY DEF TakeSnapshot
<1>2. Startable("snapshot", "none")
  BY <1>1, RecoveryKinds DEF Startable, Kinds
<1> QED BY <1>1, <1>2, SubmitPreserves

\* The host calls restore.
LEMMA RestorePreserves ==
  ASSUME IInv, NEW s \in saves, NEW sound \in BOOLEAN, Restore(s, sound) PROVE IInv'
<1> DEFINE body == [snapshot |-> s, sound |-> sound]
<1>1. booted /\ ReadyOperation /\ Submit("restore", body) /\ reply' = NoReply
  BY DEF Restore
<1>2. Startable("restore", body)
  BY <1>1, RecoveryKinds DEF Startable, Kinds
<1> QED BY <1>1, <1>2, SubmitPreserves

\* The host calls inspectPublicState.
LEMMA InspectPublicStatePreserves == ASSUME IInv, InspectPublicState PROVE IInv'
<1>1. booted /\ Submit("inspect", "none") /\ reply' = reply
  BY DEF InspectPublicState
<1>2. Startable("inspect", "none")
  BY <1>1 DEF Startable, Kinds
<1> QED BY <1>1, <1>2, SubmitPreserves

-----------------------------------------------------------------------------
(* The theorems.                                                           *)

\* A step that changes nothing.
LEMMA StutterPreserves == ASSUME IInv, UNCHANGED vars PROVE IInv'
<1>1. /\ UNCHANGED adapterVars /\ UNCHANGED <<session, receipts, journalBytes, busy>>
      /\ UNCHANGED <<terminated, pending, toWorker, toHost>>
  BY DEF vars, adapterVars
<1>2. /\ toHost' \in Seq(ResponseMessage) /\ terminated \in BOOLEAN
      /\ terminated => toWorker' = <<>> /\ toHost' = <<>> /\ busy' = Idle
  BY <1>1 DEF IInv, TypeInv, Flags, LeaseTypes, ProtocolInv, MessageInv
<1>3. \A k \in 1..Len(toHost') : \E j \in 1..Len(toHost) : toHost'[k] = toHost[j]
  BY <1>1
<1> QED BY <1>1, <1>2, <1>3, LeaseStepPreserves

\* Every step of the host, the worker and the lease preserves the invariant.
LEMMA NextPreserves == ASSUME IInv, [Next]_vars PROVE IInv'
<1>1. CASE HostNext
  BY <1>1, BootPreserves, ExecutePreserves, TakeSnapshotPreserves, RestorePreserves,
     InspectPublicStatePreserves, ReceiveResponsePreserves, DropLateResponsePreserves,
     AbortExecutePreserves, ExchangeRejectedPreserves DEF HostNext
<1>2. CASE WorkerNext
  BY <1>2, RefuseRequestPreserves, StartOperationPreserves, AnswerInspectPreserves,
     ReplayReceiptPreserves, RejectDuplicatePreserves, RejectUnrunnablePreserves,
     RefuseRevisionLimitPreserves, RejectForCapacityPreserves, StartExecutePreserves,
     FinishBootPreserves, BootFailsPreserves, CommitTurnPreserves, RejectLongCommandPreserves,
     InterpreterFailsPreserves, FinishSnapshotPreserves, FinishRestorePreserves,
     RejectRestorePreserves DEF WorkerNext
<1>3. CASE LeaseFails
  BY <1>3, LeaseFailsPreserves
<1>4. CASE UNCHANGED vars
  BY <1>4, StutterPreserves
<1> QED BY <1>1, <1>2, <1>3, <1>4 DEF Next

\* The invariant that relates host, messages, worker and journal holds in
\* every state of the protocol, whatever is aborted, retried or lost.
THEOREM Inductive == Spec => []IInv
<1>1. IInv /\ [Next]_vars => IInv'
  BY NextPreserves
<1> QED BY InitIInv, <1>1, PTL DEF Spec

\* Type correctness: the values in the variables keep the shape the code
\* gives them, revisions and the journal's size within their limits.
THEOREM TypeCorrect == Spec => []TypeOK
<1>1. IInv => TypeOK
  <2> SUFFICES ASSUME IInv PROVE TypeOK
    OBVIOUS
  <2>1. booted \in BOOLEAN /\ terminated \in BOOLEAN
    BY DEF IInv, TypeInv, Flags
  <2>2. \A s \in SnapshotSet : IsSnapshot(s)
    BY JournalShape DEF SnapshotSet, IsSnapshot, IsJournal
  <2>3. \A s \in saves : IsSnapshot(s)
    BY <2>2 DEF IInv, TypeInv, AdapterTypes
  <2>4. IsJournal(receipts)
    BY JournalShape DEF IInv, TypeInv, RuntimeTypes, IsJournal
  <2>5. \/ recovery.kind \in {"ready", "boot-quarantined", "restore-quarantined"}
        \/ recovery.kind = "execute-uncertain" /\ recovery.request \in Request
    BY DEF IInv, TypeInv, AdapterTypes, Ready, Uncertain
  <2> QED BY <2>1, <2>3, <2>4, <2>5
          DEF IInv, TypeInv, AdapterTypes, LeaseTypes, RuntimeTypes, TypeOK
<1> QED BY Inductive, <1>1, PTL

\* Every committed turn keeps its own receipt, for any capacity of the
\* journal: the worst-case check made before a turn runs is enough.
THEOREM EveryTurnRecoverable == Spec => []EveryTurnHasReceipt
<1>1. IInv => EveryTurnHasReceipt
  BY DEF IInv, ProtocolInv, JournalInv, JournalSound, EveryTurnHasReceipt, Known
<1> QED BY Inductive, <1>1, PTL

\* No request identity is applied to the story twice.
THEOREM ExactlyOnce == Spec => []AppliedOnce
<1>1. IInv => AppliedOnce
  <2> SUFFICES ASSUME IInv,
                      NEW i \in 1..Len(session.story), NEW j \in 1..Len(session.story),
                      session.story[i].requestId = session.story[j].requestId
               PROVE  i = j
    BY DEF AppliedOnce
  <2>1. /\ receipts[session.story[i].requestId].result.revision = i
        /\ receipts[session.story[j].requestId].result.revision = j
    BY DEF IInv, ProtocolInv, JournalInv, JournalSound
  <2> QED BY <2>1
<1> QED BY Inductive, <1>1, PTL

\* A confirmed adapter that is not in a call agrees with its worker, and no
\* message of an abandoned call can still change the worker.
THEOREM ConfirmedMeansAgreed == Spec => []ConfirmedAgreement
<1>1. IInv => ConfirmedAgreement
  <2> SUFFICES ASSUME IInv, booted, ~terminated, recovery.kind = "ready", operation = Idle
               PROVE  Quiet /\ Agree
    BY DEF ConfirmedAgreement, Agree
  <2>1. operation.kind = "none" /\ operation.id = 0
    BY DEF Idle
  <2>2. Agree
    BY <2>1 DEF IInv, ProtocolInv, AgreementInv
  <2>3. \A m : ~Belongs(m)
    BY <2>1 DEF Belongs, Uncertain
  <2>4. busy = Idle
    BY <2>3 DEF IInv, ProtocolInv, MessageInv
  <2>5. toWorker = <<>>
    <3> SUFFICES ASSUME toWorker # <<>> PROVE FALSE
      OBVIOUS
    <3> QED BY <2>3, ArrivingFacts
  <2> QED BY <2>2, <2>4, <2>5 DEF Quiet
<1> QED BY Inductive, <1>1, PTL

\* An uncertain engine is at most one turn ahead, and the turn is known.
THEOREM UncertaintyIsBounded == Spec => []UncertainWithinOneTurn
<1>1. IInv => UncertainWithinOneTurn
  <2> SUFFICES ASSUME IInv, booted, ~terminated, recovery.kind = "execute-uncertain", ~Agree
               PROVE  /\ session.revision = revision + 1
                      /\ session.story[session.revision] = recovery.request
                      /\ Known(recovery.request)
    BY DEF UncertainWithinOneTurn, Agree
  <2>1. WithinOneTurn(recovery.request)
    BY DEF IInv, ProtocolInv, AgreementInv
  <2>2. JournalSound(session.story, session.revision, session.boundary, receipts)
    BY DEF IInv, ProtocolInv, JournalInv
  <2> QED BY <2>1, <2>2 DEF WithinOneTurn, JournalSound, Known
<1> QED BY Inductive, <1>1, PTL

\* The answer a caller was given is true of the story, and stays true.
THEOREM AnswersAreTrue == Spec => []ReplyIsTrue
<1>1. IInv => ReplyIsTrue
  BY DEF IInv, ProtocolInv, ReplyInv
<1> QED BY Inductive, <1>1, PTL

\* The adapter never refuses a result the worker computed for its call.
THEOREM NoFalseViolation == Spec => []GenuineResultsAccepted
BY Inductive, GenuineAccepted, PTL

-----------------------------------------------------------------------------
(* What the steps may do, from the inductive invariant: journaled answers  *)
(* are final, and the protocol implements EngineJournal, the promise of    *)
(* the engine port.                                                        *)

\* Journaling a new request leaves the other receipts alone.
LEMMA RecordKeeps ==
  ASSUME NEW r, NEW res, NEW bytes, Record(r, res, bytes), ~Known(r),
         NEW id \in DOMAIN receipts
  PROVE  id \in DOMAIN receipts' /\ receipts'[id] = receipts[id]
BY DEF Record, Known

\* Only three steps of the worker journal an answer, and none journals one
\* for a request that has one.
LEMMA StepKeepsReceipts ==
  ASSUME IInv, [Next]_vars, busy.kind # "restore", NEW id \in DOMAIN receipts
  PROVE  id \in DOMAIN receipts' /\ receipts'[id] = receipts[id]
<1>1. CASE receipts' = receipts
  BY <1>1
<1>2. CASE RejectUnrunnable
  <2>1. ~Known(Arriving.body)
    BY <1>2 DEF RejectUnrunnable
  <2> QED BY <1>1, <1>2, <2>1, RecordKeeps DEF RejectUnrunnable
<1>3. busy.kind = "execute" => ~Known(busy.body)
  BY DEF IInv, ProtocolInv, BusyInv, Runnable
<1>4. CASE RejectLongCommand
  <2>1. ~Known(busy.body)
    BY <1>3, <1>4 DEF RejectLongCommand, Finish
  <2> QED BY <1>1, <1>4, <2>1, RecordKeeps DEF RejectLongCommand
<1>5. ASSUME NEW bnd \in Boundaries, NEW bytes \in 1..WorstBytes, CommitTurn(bnd, bytes)
      PROVE  id \in DOMAIN receipts' /\ receipts'[id] = receipts[id]
  <2>1. ~Known(busy.body)
    BY <1>3, <1>5 DEF CommitTurn, Finish
  <2> QED BY <1>1, <1>5, <2>1, RecordKeeps DEF CommitTurn
<1>6. CASE HostNext \/ LeaseFails \/ UNCHANGED vars
  <2>1. receipts' = receipts
    BY <1>6 DEF HostNext, LeaseFails, vars, Boot, Execute, TakeSnapshot, Restore,
       InspectPublicState, Submit, ReceiveResponse, DropLateResponse, AbortExecute,
       ExchangeRejected, runtimeVars
  <2> QED BY <1>1, <2>1
<1>7. CASE WorkerNext
  <2>1. ~FinishRestore
    BY DEF FinishRestore, Finish
  <2>2. CASE \/ RefuseRequest \/ StartOperation \/ AnswerInspect \/ ReplayReceipt
             \/ RejectDuplicate \/ RefuseRevisionLimit \/ RejectForCapacity \/ StartExecute
             \/ \E bnd \in Boundaries : FinishBoot(bnd)
             \/ BootFails \/ InterpreterFails \/ FinishSnapshot \/ RejectRestore
    <3>1. receipts' = receipts
      BY <2>2 DEF RefuseRequest, StartOperation, AnswerInspect, ReplayReceipt, RejectDuplicate,
         RefuseRevisionLimit, RejectForCapacity, StartExecute, FinishBoot, BootFails,
         InterpreterFails, FinishSnapshot, RejectRestore, Begin
    <3> QED BY <1>1, <3>1
  <2> QED BY <1>2, <1>4, <1>5, <1>7, <2>1, <2>2 DEF WorkerNext
<1> QED BY <1>6, <1>7 DEF Next

\* A journaled answer is never dropped or changed, except when a restore
\* replaces the whole branch.
THEOREM JournalIsFinal == Spec => ReceiptsAreFinal
<1>1. IInv /\ [Next]_vars =>
        [busy.kind # "restore" =>
           \A id \in DOMAIN receipts :
             id \in DOMAIN receipts' /\ receipts'[id] = receipts[id]]_vars
  BY StepKeepsReceipts
<1> QED BY Inductive, <1>1, PTL DEF Spec, ReceiptsAreFinal

-----------------------------------------------------------------------------
(* Refinement.                                                             *)


\* The story of an engine that has not booted is empty.
LEMMA UnbootedStory == ASSUME IInv, session.status = "none" PROVE session.story = <<>>
<1>1. session.story \in Seq(Request) /\ Len(session.story) \in Nat
  BY DEF IInv, TypeInv, RuntimeTypes
<1>2. \A i \in 1..Len(session.story) : FALSE
  BY DEF IInv, ProtocolInv, JournalInv, JournalSound
<1> QED BY <1>1, <1>2, EmptyQueue

\* A call may make the latest answer out of date; the story stays.
LEMMA HostCallView ==
  ASSUME IInv, NEW kind, NEW body, Submit(kind, body), reply' = NoReply \/ reply' = reply
  PROVE  Journal!Forget \/ UNCHANGED Journal!journalVars
<1>1. session' = session /\ saves' = saves
  BY DEF Submit, runtimeVars
<1> QED BY <1>1 DEF Journal!Forget, Journal!journalVars, NoReply, Journal!NoReply

\* An answer is reported, or a snapshot becomes the caller's.
LEMMA ReceiveView ==
  ASSUME IInv, ReceiveResponse
  PROVE  Journal!Next \/ UNCHANGED Journal!journalVars
<1> DEFINE m == Head(toHost)
<1>1. /\ toHost # <<>> /\ m.id \in pending /\ session' = session
  BY DEF ReceiveResponse, runtimeVars
<1>2. CASE ~Accepts(m)
  <2>1. FailOperation
    BY <1>2 DEF ReceiveResponse
  <2> QED BY <1>1, <2>1 DEF FailOperation, Journal!journalVars
<1>3. CASE Accepts(m)
  <2>1. Confirm(m)
    BY <1>3 DEF ReceiveResponse
  <2>2. CASE ConfirmBoot(m.body) \/ ConfirmRestore(m.body) \/ ConfirmInspect(m.body)
    BY <1>1, <2>2 DEF ConfirmBoot, ConfirmRestore, ConfirmInspect, Journal!journalVars
  <2>3. CASE m.kind = "snapshot" /\ ConfirmSnapshot(m.body)
    <3>1. m.body = [revision |-> session.revision, story |-> session.story,
                    receipts |-> receipts, journalBytes |-> journalBytes]
      BY <1>1, <2>3, AwaitedFacts DEF Faithful
    <3>2. m.body.story = session.story
      BY <3>1
    <3>3. saves' = saves \cup {m.body} /\ reply' = reply
      BY <2>3 DEF ConfirmSnapshot
    <3>4. {s.story : s \in saves'} = {s.story : s \in saves} \cup {session.story}
      BY <3>2, <3>3
    <3>5. Journal!Checkpoint
      BY <1>1, <3>3, <3>4 DEF Journal!Checkpoint
    <3> QED BY <3>5 DEF Journal!Next
  <2>4. CASE m.kind = "execute" /\ ConfirmExecute(m.body)
    <3>1. /\ reply' = [status |-> m.body.status, request |-> operation.body] /\ saves' = saves
      BY <2>4 DEF ConfirmExecute
    <3>2. /\ operation.kind = "execute" /\ operation.body \in Request
          /\ IInv'
      BY <1>1, <2>4, AwaitedFacts, ReceiveResponsePreserves DEF IInv, ProtocolInv, CallInv
    <3>3. /\ reply' = NoReply \/ reply'.status \in {"committed", "rejected"}
          /\ reply'.status = "committed" =>
               reply'.request \in {session'.story[i] : i \in 1..Len(session'.story)}
          /\ reply'.status = "rejected" =>
               reply'.request \notin {session'.story[i] : i \in 1..Len(session'.story)}
      BY <3>2 DEF IInv, TypeInv, AdapterTypes, ProtocolInv, ReplyInv, ReplyIsTrue
    <3>4. m.body.status \in {"committed", "rejected"}
      BY <3>1, <3>3 DEF NoReply
    <3>5. reply'.status = m.body.status /\ reply'.request = operation.body
      BY <3>1
    <3>6. Journal!AnswerCommitted(operation.body) \/ Journal!AnswerRejected(operation.body)
      BY <1>1, <3>1, <3>3, <3>4, <3>5
         DEF Journal!AnswerCommitted, Journal!AnswerRejected, Journal!Entries
    <3> QED BY <3>2, <3>6 DEF Journal!Next
  <2> QED BY <2>1, <2>2, <2>3, <2>4 DEF Confirm
<1> QED BY <1>2, <1>3

\* A turn of the worker is a commit of the journal.
LEMMA CommitView ==
  ASSUME IInv, NEW bnd, NEW bytes, CommitTurn(bnd, bytes)
  PROVE  Journal!Next
<1> DEFINE r == busy.body
<1>1. /\ Finish("execute")
      /\ session' = [session EXCEPT !.revision = @ + 1, !.boundary = bnd,
                                    !.story = Append(@, r)]
  BY DEF CommitTurn
<1>2. busy.kind = "execute" /\ saves' = saves /\ reply' = reply
  BY <1>1 DEF Finish, adapterVars
<1>3. r \in Request /\ ~Known(r) /\ r.expectedRevision = session.revision
  BY <1>2 DEF IInv, ProtocolInv, BusyInv, Runnable
<1>4. session'.story = Append(session.story, r)
  BY <1>1 DEF IInv, TypeInv, RuntimeTypes
<1>5. /\ session.revision = Len(session.story)
      /\ \A i \in 1..Len(session.story) : session.story[i].requestId \in DOMAIN receipts
  BY DEF IInv, ProtocolInv, JournalInv, JournalSound
<1>6. \A e \in Journal!Entries(session.story) : e.requestId # r.requestId
  BY <1>3, <1>5 DEF Journal!Entries, Known
<1>7. Journal!Commit(r)
  BY <1>2, <1>3, <1>4, <1>5, <1>6 DEF Journal!Commit
<1> QED BY <1>3, <1>7 DEF Journal!Next

\* A restore rewinds the story, whole, to one that was checkpointed.
LEMMA RestoreView ==
  ASSUME IInv, FinishRestore
  PROVE  Journal!Next
<1>1. /\ busy.kind = "restore" /\ saves' = saves /\ reply' = reply
      /\ session'.story = busy.body.snapshot.story
  BY DEF FinishRestore, Finish, adapterVars
<1>2. busy.body.snapshot \in saves
  BY <1>1 DEF IInv, ProtocolInv, BusyInv
<1>3. Journal!Rewind
  BY <1>1, <1>2 DEF Journal!Rewind
<1> QED BY <1>3 DEF Journal!Next

\* Every step of the protocol is a step of the journal, or invisible in it.
LEMMA StepView ==
  ASSUME IInv, [Next]_vars
  PROVE  [Journal!Next]_(Journal!journalVars)
<1>1. CASE HostNext
  <2>1. CASE ReceiveResponse
    BY <2>1, ReceiveView
  <2>2. CASE DropLateResponse \/ AbortExecute \/ ExchangeRejected
    BY <2>2 DEF DropLateResponse, AbortExecute, ExchangeRejected, FailOperation, adapterVars,
       runtimeVars, Journal!journalVars
  <2>3. CASE \/ Boot \/ TakeSnapshot \/ InspectPublicState
             \/ \E r \in Request : Execute(r)
             \/ \E s \in saves, sound \in BOOLEAN : Restore(s, sound)
    <3>1. \E kind, body : Submit(kind, body) /\ (reply' = NoReply \/ reply' = reply)
      BY <2>3 DEF Boot, TakeSnapshot, InspectPublicState, Execute, Restore
    <3> QED BY <3>1, HostCallView DEF Journal!Next
  <2> QED BY <1>1, <2>1, <2>2, <2>3 DEF HostNext
<1>2. CASE LeaseFails \/ UNCHANGED vars
  BY <1>2 DEF LeaseFails, vars, adapterVars, Journal!journalVars
<1>3. CASE WorkerNext
  <2>1. CASE \E bnd \in Boundaries, bytes \in 1..WorstBytes : CommitTurn(bnd, bytes)
    BY <2>1, CommitView
  <2>2. CASE FinishRestore
    BY <2>2, RestoreView
  <2>3. ASSUME NEW bnd \in Boundaries, FinishBoot(bnd)
        PROVE  UNCHANGED Journal!journalVars
    <3>1. /\ busy.kind = "boot" /\ session'.story = <<>> /\ saves' = saves /\ reply' = reply
      BY <2>3 DEF FinishBoot, Finish, adapterVars
    <3>2. session.story = <<>>
      BY <3>1, UnbootedStory DEF IInv, ProtocolInv, BusyInv
    <3> QED BY <3>1, <3>2 DEF Journal!journalVars
  <2>4. CASE InterpreterFails
    <3>1. session'.story = session.story /\ saves' = saves /\ reply' = reply
      BY <2>4 DEF InterpreterFails, Finish, adapterVars
    <3> QED BY <3>1 DEF Journal!journalVars
  <2>5. CASE \/ RefuseRequest \/ StartOperation \/ AnswerInspect \/ ReplayReceipt
             \/ RejectDuplicate \/ RejectUnrunnable \/ RefuseRevisionLimit
             \/ RejectForCapacity \/ StartExecute
    <3>1. Take /\ session' = session
      BY <2>5 DEF RefuseRequest, StartOperation, AnswerInspect, ReplayReceipt, RejectDuplicate,
         RejectUnrunnable, RefuseRevisionLimit, RejectForCapacity, StartExecute, Begin, Answer
    <3> QED BY <3>1 DEF Take, adapterVars, Journal!journalVars
  <2>6. CASE BootFails \/ RejectLongCommand \/ FinishSnapshot \/ RejectRestore
    <3>1. session' = session /\ UNCHANGED adapterVars
      BY <2>6 DEF BootFails, RejectLongCommand, FinishSnapshot, RejectRestore, Finish
    <3> QED BY <3>1 DEF adapterVars, Journal!journalVars
  <2> QED BY <1>3, <2>1, <2>2, <2>3, <2>4, <2>5, <2>6 DEF WorkerNext
<1> QED BY <1>1, <1>2, <1>3 DEF Next

\* The adapter, the transport and the worker together implement the engine
\* port's promise: the story is a log of requests, each applied once at the
\* revision it names, truthfully answered, replaced only by a checkpoint.
THEOREM ImplementsJournal == Spec => JournalSpec
<1>1. Init => Journal!Init
  BY DEF Init, Journal!Init, NoSession, NoReply, Journal!NoReply
<1>2. IInv /\ [Next]_vars => [Journal!Next]_(Journal!journalVars)
  BY StepView
<1> QED BY Inductive, <1>1, <1>2, PTL DEF Spec, JournalSpec, Journal!Spec

=============================================================================
