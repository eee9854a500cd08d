-------------------------- MODULE LiveServiceProofs --------------------------
(***************************************************************************)
(* Proofs about LiveService, for every finite set of calls, every budget   *)
(* and any number of server processes: the request budget, the truth of    *)
(* what a page is told, and that a closed call starts no provider request. *)
(***************************************************************************)
EXTENDS LiveService, FiniteSetTheorems, TLAPS

-----------------------------------------------------------------------------
(* The inductive invariant.                                                *)

Wires == {"none", "ok", "forbidden", "request-too-large", "invalid-request", "internal-error",
          "aborted", "invalid-input", "budget-exhausted", "malformed-response",
          "provider-rejected", "transport-failed"}

CallRecord ==
    [ask : Requests \cup {NoRequest}, token : 0 .. MaxEpoch,
     client : {"idle", "waiting", "failing", "reading", "settled"}, out : Outs,
     link : {"none", "open", "closed"},
     serve : {"none", "body", "service", "fetch", "read", "buffer", "done"},
     cut : BOOLEAN, wire : Wires, spent : 0 .. MaxEpoch, fetched : 0 .. MaxEpoch,
     usage : BOOLEAN]

Types ==
    /\ epoch \in 1 .. MaxEpoch /\ requests \in 0 .. MaxRequests
    /\ call \in [Calls -> CallRecord]

\* The page follows the one answer its call gets.
PageOK(k) ==
    /\ k.client = "idle" => k.link = "none"
    /\ k.link = "none" => k.serve = "none"
    /\ k.out # "none" <=> k.client = "settled"
    /\ k.client = "reading" => k.wire = "ok"
    /\ k.client = "failing" => k.wire \notin {"none", "ok"}
    /\ k.out = "ok" => k.wire = "ok"
    /\ k.out = "budget-exhausted" => k.wire = "budget-exhausted"
    /\ k.out = "session-expired" => k.wire = "forbidden"
    /\ k.out = "invalid-input" =>
         k.ask.fails = "client" \/ k.wire \in {"invalid-input", "invalid-request"}
    /\ k.out # "aborted"

\* What a call has spent, made and reported, by how far the server is with it.
ServeOK(k, e) ==
    /\ k.token \in 0 .. e
    /\ k.spent \in {0, k.token} /\ k.fetched \in {0, k.spent}
    /\ k.serve \in {"none", "body", "service"} => k.spent = 0
    /\ k.serve \in {"fetch", "read", "buffer"} => k.fetched # 0
    /\ k.serve = "buffer" => k.usage /\ k.ask.kind = "speech"
    /\ k.cut => k.link = "closed"
    /\ k.spent # 0 /\ k.fetched = 0 => k.ask.fails = "hints" \/ k.cut

\* The answer on the wire is the last thing the server says, and it is true.
WireOK(k, e) ==
    /\ k.wire # "none" => k.serve = "done"
    /\ k.wire = "ok" => k.fetched # 0 /\ k.usage
    /\ k.wire = "forbidden" => k.token < e /\ k.spent = 0
    /\ k.wire = "budget-exhausted" => k.token # 0 /\ k.spent = 0
    /\ k.wire = "aborted" => k.cut
    /\ k.wire \in {"invalid-input", "invalid-request"} /\ k.ask.kind = "guide" =>
         k.ask.fails # "none"

CallOK(k, e) == PageOK(k) /\ ServeOK(k, e) /\ WireOK(k, e)

Spent(e) == {c \in Calls : call[c].spent = e}

\* The running process has counted the calls that reserved a request in it; no
\* process has more of them than its budget, and one that refused a call for
\* lack of budget has none left.
SharedOK ==
    /\ requests = Cardinality(Spent(epoch))
    /\ \A e \in 1 .. MaxEpoch : Cardinality(Spent(e)) <= MaxRequests
    /\ \A c \in Calls :
         call[c].wire = "budget-exhausted" => Cardinality(Spent(call[c].token)) = MaxRequests

IInv == Types /\ (\A c \in Calls : CallOK(call[c], epoch)) /\ SharedOK

-----------------------------------------------------------------------------
(* Steps that do not touch the budget.                                     *)

\* The calls a process has reserved requests for are finitely many.
LEMMA SpentFinite ==
    ASSUME NEW e
    PROVE  /\ IsFiniteSet(Spent(e))
           /\ Cardinality(Spent(e)) \in Nat
<1>1. Spent(e) \in SUBSET Calls
  BY DEF Spent
<1>2. IsFiniteSet(Spent(e))
  BY <1>1, ServiceConstants, FS_Subset DEF ServiceConstants
<1> QED BY <1>2, FS_CardinalityType

\* The record of a call that was answered.
LEMMA AnsweredRecord ==
    ASSUME NEW k \in CallRecord, NEW wire \in Wires
    PROVE  Answered(k, wire) \in CallRecord
BY DEF Answered, CallRecord

\* The same where it failed: the code, or aborted.
LEMMA FailureRecord ==
    ASSUME NEW k \in CallRecord, NEW code \in Wires
    PROVE  Failure(k, code) \in CallRecord
<1>1. "aborted" \in Wires
  BY DEF Wires
<1>2. (IF k.cut THEN "aborted" ELSE code) \in Wires
  BY <1>1
<1> QED BY <1>2, AnsweredRecord DEF Failure

\* A step of one call that reserves nothing preserves the invariant, if the
\* call stays sound and is refused for lack of budget only when none is left.
LEMMA OneCall ==
    ASSUME IInv, NEW c \in Calls, NEW f \in CallRecord,
           call' = [call EXCEPT ![c] = f], UNCHANGED <<epoch, requests>>,
           CallOK(f, epoch), f.spent = call[c].spent,
           f.wire = "budget-exhausted" =>
             /\ f.token = call[c].token
             /\ call[c].wire = "budget-exhausted" \/ (f.token = epoch /\ requests = MaxRequests)
    PROVE  IInv'
<1>1. Types /\ SharedOK /\ \A d \in Calls : CallOK(call[d], epoch)
  BY DEF IInv
<1>2. call'[c] = f /\ \A d \in Calls \ {c} : call'[d] = call[d]
  BY <1>1 DEF Types
<1>3. Types'
  BY <1>1 DEF Types
<1>4. \A d \in Calls : CallOK(call'[d], epoch)
  BY <1>1, <1>2
<1>5. ASSUME NEW e PROVE {d \in Calls : call'[d].spent = e} = Spent(e)
  BY <1>2 DEF Spent
<1>6. SharedOK'
  <2>1. \A e : Spent(e)' = Spent(e)
    BY <1>5 DEF Spent
  <2>2. requests' = Cardinality(Spent(epoch)')
    BY <1>1, <2>1 DEF SharedOK
  <2>3. \A e \in 1 .. MaxEpoch : Cardinality(Spent(e)') <= MaxRequests
    BY <1>1, <2>1 DEF SharedOK
  <2>4. ASSUME NEW d \in Calls, call'[d].wire = "budget-exhausted"
        PROVE  Cardinality({x \in Calls : call'[x].spent = call'[d].token}) = MaxRequests
    <3>1. {x \in Calls : call'[x].spent = call'[d].token} = Spent(call'[d].token)
      BY <1>5
    <3>2. CASE d = c
      BY <1>1, <1>2, <2>4, <3>1, <3>2 DEF SharedOK
    <3>3. CASE d # c
      BY <1>1, <1>2, <2>4, <3>1, <3>3 DEF SharedOK
    <3> QED BY <3>2, <3>3
  <2> QED BY <2>2, <2>3, <2>4 DEF SharedOK, Spent
<1> QED BY <1>3, <1>4, <1>6 DEF IInv

\* A call is asked once, from a page of this process or an earlier one.
LEMMA AskPreserves ==
    ASSUME IInv, NEW c \in Calls, NEW r \in Requests, NEW token \in 1 .. epoch, Ask(c, r, token)
    PROVE  IInv'
<1> DEFINE k == call[c]
           f == IF r.fails = "client"
                THEN [k EXCEPT !.ask = r, !.token = token, !.client = "settled",
                               !.out = "invalid-input"]
                ELSE [k EXCEPT !.ask = r, !.token = token, !.client = "waiting",
                               !.link = "open"]
<1>1. k \in CallRecord /\ CallOK(k, epoch) /\ epoch \in 1 .. MaxEpoch
  BY DEF IInv, Types
<1>2. call' = [call EXCEPT ![c] = f] /\ UNCHANGED <<epoch, requests>>
  BY DEF Ask, IInv, Types
<1>3. f \in CallRecord
  <2>1. token \in 0 .. MaxEpoch /\ r \in Requests \cup {NoRequest}
    BY <1>1, ServiceConstants DEF ServiceConstants
  <2>2. "invalid-input" \in Outs
    BY DEF Outs
  <2> QED BY <1>1, <2>1, <2>2 DEF CallRecord
<1>4. PageOK(f) /\ ServeOK(f, epoch) /\ WireOK(f, epoch)
  BY <1>1 DEF Ask, CallRecord, CallOK, PageOK, ServeOK, WireOK
<1>5. f.spent = k.spent /\ (f.wire = "budget-exhausted" => f.token = k.token /\ k.wire = f.wire)
  BY <1>1 DEF Ask, CallRecord, CallOK, PageOK, ServeOK, WireOK
<1> HIDE DEF f
<1> QED BY <1>2, <1>3, <1>4, <1>5, OneCall DEF CallOK

\* The player's stop settles the call in the page.
LEMMA StopPreserves ==
    ASSUME IInv, NEW c \in Calls, Stop(c)
    PROVE  IInv'
<1> DEFINE k == call[c]
           f == [k EXCEPT !.client = "settled", !.link = "closed",
                     !.out = IF k.client = "failing" THEN "provider-rejected" ELSE "stopped"]
<1>1. k \in CallRecord /\ CallOK(k, epoch) /\ epoch \in 1 .. MaxEpoch
  BY DEF IInv, Types
<1>2. call' = [call EXCEPT ![c] = f] /\ UNCHANGED <<epoch, requests>>
  BY DEF Stop, IInv, Types
<1>3. f \in CallRecord
  BY <1>1 DEF Stop, CallRecord, CallOK, PageOK, Outs
<1>4. PageOK(f) /\ ServeOK(f, epoch) /\ WireOK(f, epoch)
  BY <1>1 DEF Stop, CallRecord, CallOK, PageOK, ServeOK, WireOK, Outs
<1>5. f.spent = k.spent /\ (f.wire = "budget-exhausted" => f.token = k.token /\ k.wire = f.wire)
  BY <1>1 DEF Stop, CallRecord, CallOK, PageOK, ServeOK, WireOK, Outs
<1> HIDE DEF f
<1> QED BY <1>2, <1>3, <1>4, <1>5, OneCall DEF CallOK

\* The head of the answer decides how the body is read.
LEMMA HeadersPreserves ==
    ASSUME IInv, NEW c \in Calls, Headers(c)
    PROVE  IInv'
<1> DEFINE k == call[c]
           f == [k EXCEPT !.client = IF k.wire = "ok" THEN "reading" ELSE "failing"]
<1>1. k \in CallRecord /\ CallOK(k, epoch) /\ epoch \in 1 .. MaxEpoch
  BY DEF IInv, Types
<1>2. call' = [call EXCEPT ![c] = f] /\ UNCHANGED <<epoch, requests>>
  BY DEF Headers, IInv, Types
<1>3. f \in CallRecord
  BY <1>1 DEF Headers, CallRecord, CallOK, PageOK
<1>4. PageOK(f) /\ ServeOK(f, epoch) /\ WireOK(f, epoch)
  BY <1>1 DEF Headers, CallRecord, CallOK, PageOK, ServeOK, WireOK
<1>5. f.spent = k.spent /\ (f.wire = "budget-exhausted" => f.token = k.token /\ k.wire = f.wire)
  BY <1>1 DEF Headers, CallRecord, CallOK, PageOK, ServeOK, WireOK
<1> HIDE DEF f
<1> QED BY <1>2, <1>3, <1>4, <1>5, OneCall DEF CallOK

\* The page is told what is on the wire: an abort never is while it listens.
LEMMA SettlePreserves ==
    ASSUME IInv, NEW c \in Calls, Settle(c)
    PROVE  IInv'
<1> DEFINE k == call[c]
           f == [k EXCEPT !.client = "settled", !.link = "closed", !.out = failureCode(k.wire)]
<1>1. k \in CallRecord /\ CallOK(k, epoch) /\ epoch \in 1 .. MaxEpoch
  BY DEF IInv, Types
<1>2. call' = [call EXCEPT ![c] = f] /\ UNCHANGED <<epoch, requests>>
  BY DEF Settle, IInv, Types
<1>3. f \in CallRecord
  BY <1>1 DEF Settle, CallRecord, CallOK, PageOK, failureCode, Outs, Wires
<1>4. PageOK(f) /\ ServeOK(f, epoch) /\ WireOK(f, epoch)
  BY <1>1 DEF Settle, CallRecord, CallOK, PageOK, ServeOK, WireOK, failureCode, Outs, Wires
<1>5. f.spent = k.spent /\ (f.wire = "budget-exhausted" => f.token = k.token /\ k.wire = f.wire)
  BY <1>1 DEF Settle, CallRecord, CallOK, PageOK, ServeOK, WireOK, failureCode, Outs, Wires
<1> HIDE DEF f
<1> QED BY <1>2, <1>3, <1>4, <1>5, OneCall DEF CallOK

\* A dropped connection changes neither side yet.
LEMMA DropPreserves ==
    ASSUME IInv, NEW c \in Calls, Drop(c)
    PROVE  IInv'
<1> DEFINE k == call[c]
           f == [k EXCEPT !.link = "closed"]
<1>1. k \in CallRecord /\ CallOK(k, epoch) /\ epoch \in 1 .. MaxEpoch
  BY DEF IInv, Types
<1>2. call' = [call EXCEPT ![c] = f] /\ UNCHANGED <<epoch, requests>>
  BY DEF Drop, IInv, Types
<1>3. f \in CallRecord
  BY <1>1 DEF Drop, CallRecord, CallOK, PageOK
<1>4. PageOK(f) /\ ServeOK(f, epoch) /\ WireOK(f, epoch)
  BY <1>1 DEF Drop, CallRecord, CallOK, PageOK, ServeOK, WireOK
<1>5. f.spent = k.spent /\ (f.wire = "budget-exhausted" => f.token = k.token /\ k.wire = f.wire)
  BY <1>1 DEF Drop, CallRecord, CallOK, PageOK, ServeOK, WireOK
<1> HIDE DEF f
<1> QED BY <1>2, <1>3, <1>4, <1>5, OneCall DEF CallOK

\* The page notices a lost connection.
LEMMA LostPreserves ==
    ASSUME IInv, NEW c \in Calls, Lost(c)
    PROVE  IInv'
<1> DEFINE k == call[c]
           f == [k EXCEPT !.client = "settled",
                     !.out = CASE k.client = "waiting" -> "transport-failed"
                               [] k.client = "failing" -> "provider-rejected"
                               [] OTHER -> "broken"]
<1>1. k \in CallRecord /\ CallOK(k, epoch) /\ epoch \in 1 .. MaxEpoch
  BY DEF IInv, Types
<1>2. call' = [call EXCEPT ![c] = f] /\ UNCHANGED <<epoch, requests>>
  BY DEF Lost, IInv, Types
<1>3. f \in CallRecord
  BY <1>1 DEF Lost, CallRecord, CallOK, PageOK, Outs
<1>4. PageOK(f) /\ ServeOK(f, epoch) /\ WireOK(f, epoch)
  BY <1>1 DEF Lost, CallRecord, CallOK, PageOK, ServeOK, WireOK, Outs
<1>5. f.spent = k.spent /\ (f.wire = "budget-exhausted" => f.token = k.token /\ k.wire = f.wire)
  BY <1>1 DEF Lost, CallRecord, CallOK, PageOK, ServeOK, WireOK, Outs
<1> HIDE DEF f
<1> QED BY <1>2, <1>3, <1>4, <1>5, OneCall DEF CallOK

\* The server takes the request on.
LEMMA ReceivePreserves ==
    ASSUME IInv, NEW c \in Calls, Receive(c)
    PROVE  IInv'
<1> DEFINE k == call[c]
           f == [k EXCEPT !.serve = "body"]
<1>1. k \in CallRecord /\ CallOK(k, epoch) /\ epoch \in 1 .. MaxEpoch
  BY DEF IInv, Types
<1>2. call' = [call EXCEPT ![c] = f] /\ UNCHANGED <<epoch, requests>>
  BY DEF Receive, IInv, Types
<1>3. f \in CallRecord
  BY <1>1 DEF Receive, CallRecord, CallOK, PageOK
<1>4. PageOK(f) /\ ServeOK(f, epoch) /\ WireOK(f, epoch)
  BY <1>1 DEF Receive, CallRecord, CallOK, PageOK, ServeOK, WireOK
<1>5. f.spent = k.spent /\ (f.wire = "budget-exhausted" => f.token = k.token /\ k.wire = f.wire)
  BY <1>1 DEF Receive, CallRecord, CallOK, PageOK, ServeOK, WireOK
<1> HIDE DEF f
<1> QED BY <1>2, <1>3, <1>4, <1>5, OneCall DEF CallOK

\* The request's body is read.
LEMMA BodyPreserves ==
    ASSUME IInv, NEW c \in Calls, Body(c)
    PROVE  IInv'
<1> DEFINE k == call[c]
           f == IF k.ask.fails = "length" THEN Answered(k, "request-too-large")
                ELSE [k EXCEPT !.serve = "service"]
<1>1. k \in CallRecord /\ CallOK(k, epoch) /\ epoch \in 1 .. MaxEpoch
  BY DEF IInv, Types
<1>2. call' = [call EXCEPT ![c] = f] /\ UNCHANGED <<epoch, requests>>
  BY DEF Body, IInv, Types
<1>3. f \in CallRecord
  BY <1>1 DEF Body, CallRecord, CallOK, PageOK, Answered, Wires
<1>4. PageOK(f) /\ ServeOK(f, epoch) /\ WireOK(f, epoch)
  BY <1>1 DEF Body, CallRecord, CallOK, PageOK, ServeOK, WireOK, Answered, Wires
<1>5. f.spent = k.spent /\ (f.wire = "budget-exhausted" => f.token = k.token /\ k.wire = f.wire)
  BY <1>1 DEF Body, CallRecord, CallOK, PageOK, ServeOK, WireOK, Answered, Wires
<1> HIDE DEF f
<1> QED BY <1>2, <1>3, <1>4, <1>5, OneCall DEF CallOK

\* Only a call whose connection is closed is cut.
LEMMA NoticeClosePreserves ==
    ASSUME IInv, NEW c \in Calls, NoticeClose(c)
    PROVE  IInv'
<1> DEFINE k == call[c]
           f == IF k.serve = "body" THEN [Answered(k, "internal-error") EXCEPT !.cut = TRUE]
                ELSE [k EXCEPT !.cut = TRUE]
<1>1. k \in CallRecord /\ CallOK(k, epoch) /\ epoch \in 1 .. MaxEpoch
  BY DEF IInv, Types
<1>2. call' = [call EXCEPT ![c] = f] /\ UNCHANGED <<epoch, requests>>
  BY DEF NoticeClose, IInv, Types
<1>3. f \in CallRecord
  BY <1>1 DEF NoticeClose, CallRecord, CallOK, PageOK, Answered, Wires
<1>4. PageOK(f) /\ ServeOK(f, epoch) /\ WireOK(f, epoch)
  BY <1>1 DEF NoticeClose, CallRecord, CallOK, PageOK, ServeOK, WireOK, Answered, Wires
<1>5. f.spent = k.spent /\ (f.wire = "budget-exhausted" => f.token = k.token /\ k.wire = f.wire)
  BY <1>1 DEF NoticeClose, CallRecord, CallOK, PageOK, ServeOK, WireOK, Answered, Wires
<1> HIDE DEF f
<1> QED BY <1>2, <1>3, <1>4, <1>5, OneCall DEF CallOK

\* The aborted request ends, without a result.
LEMMA AbortFetchPreserves ==
    ASSUME IInv, NEW c \in Calls, AbortFetch(c)
    PROVE  IInv'
<1> DEFINE k == call[c]
           f == Answered(k, IF k.serve = "buffer" THEN "internal-error" ELSE "aborted")
<1>1. k \in CallRecord /\ CallOK(k, epoch) /\ epoch \in 1 .. MaxEpoch
  BY DEF IInv, Types
<1>2. call' = [call EXCEPT ![c] = f] /\ UNCHANGED <<epoch, requests>>
  BY DEF AbortFetch, IInv, Types
<1>3. f \in CallRecord
  BY <1>1 DEF AbortFetch, CallRecord, CallOK, PageOK, Answered, Wires
<1>4. PageOK(f) /\ ServeOK(f, epoch) /\ WireOK(f, epoch)
  BY <1>1 DEF AbortFetch, CallRecord, CallOK, PageOK, ServeOK, WireOK, Answered, Wires
<1>5. f.spent = k.spent /\ (f.wire = "budget-exhausted" => f.token = k.token /\ k.wire = f.wire)
  BY <1>1 DEF AbortFetch, CallRecord, CallOK, PageOK, ServeOK, WireOK, Answered, Wires
<1> HIDE DEF f
<1> QED BY <1>2, <1>3, <1>4, <1>5, OneCall DEF CallOK

\* Only a speech is buffered, and its use is reported before.
LEMMA ProviderAnswersPreserves ==
    ASSUME IInv, NEW c \in Calls, NEW how \in Heads, ProviderAnswers(c, how)
    PROVE  IInv'
<1> DEFINE k == call[c]
           f == IF how # "ok" THEN Failure(k, how)
                ELSE IF k.ask.kind = "speech" THEN [k EXCEPT !.usage = TRUE, !.serve = "buffer"]
                ELSE [k EXCEPT !.serve = "read"]
<1>1. k \in CallRecord /\ CallOK(k, epoch) /\ epoch \in 1 .. MaxEpoch
  BY DEF IInv, Types
<1>2. call' = [call EXCEPT ![c] = f] /\ UNCHANGED <<epoch, requests>>
  BY DEF ProviderAnswers, IInv, Types
<1>3. f \in CallRecord
  BY <1>1 DEF ProviderAnswers, CallRecord, CallOK, PageOK, Failure, Answered, Wires, Heads
<1>4. PageOK(f) /\ ServeOK(f, epoch) /\ WireOK(f, epoch)
  BY <1>1 DEF ProviderAnswers, CallRecord, CallOK, PageOK, ServeOK, WireOK, Failure, Answered, Wires, Heads
<1>5. f.spent = k.spent /\ (f.wire = "budget-exhausted" => f.token = k.token /\ k.wire = f.wire)
  BY <1>1 DEF ProviderAnswers, CallRecord, CallOK, PageOK, ServeOK, WireOK, Failure, Answered, Wires, Heads
<1> HIDE DEF f
<1> QED BY <1>2, <1>3, <1>4, <1>5, OneCall DEF CallOK

\* A result is sent only after its use was reported.
LEMMA ProviderBodyPreserves ==
    ASSUME IInv, NEW c \in Calls, NEW how \in Bodies, ProviderBody(c, how)
    PROVE  IInv'
<1> DEFINE k == call[c]
           f == CASE how = "ok" -> [Answered(k, "ok") EXCEPT !.usage = TRUE]
                  [] how = "undecided" ->
                       [Failure(k, "malformed-response") EXCEPT !.usage = TRUE]
                  [] how = "blank" -> Failure(k, "invalid-input")
                  [] OTHER -> Failure(k, "malformed-response")
<1>1. k \in CallRecord /\ CallOK(k, epoch) /\ epoch \in 1 .. MaxEpoch
  BY DEF IInv, Types
<1>2. call' = [call EXCEPT ![c] = f] /\ UNCHANGED <<epoch, requests>>
  BY DEF ProviderBody, IInv, Types
<1>3. f \in CallRecord
  BY <1>1 DEF ProviderBody, CallRecord, CallOK, PageOK, Failure, Answered, Wires, Bodies
<1>4. PageOK(f) /\ ServeOK(f, epoch) /\ WireOK(f, epoch)
  BY <1>1 DEF ProviderBody, CallRecord, CallOK, PageOK, ServeOK, WireOK, Failure, Answered, Wires, Bodies
<1>5. f.spent = k.spent /\ (f.wire = "budget-exhausted" => f.token = k.token /\ k.wire = f.wire)
  BY <1>1 DEF ProviderBody, CallRecord, CallOK, PageOK, ServeOK, WireOK, Failure, Answered, Wires, Bodies
<1> HIDE DEF f
<1> QED BY <1>2, <1>3, <1>4, <1>5, OneCall DEF CallOK

\* The whole speech is read before it is answered.
LEMMA BufferPreserves ==
    ASSUME IInv, NEW c \in Calls, NEW how \in Streams, Buffer(c, how)
    PROVE  IInv'
<1> DEFINE k == call[c]
           f == Answered(k, CASE how = "ok" -> "ok"
                              [] how = "malformed" -> "internal-error"
                              [] OTHER -> "invalid-request")
<1>1. k \in CallRecord /\ CallOK(k, epoch) /\ epoch \in 1 .. MaxEpoch
  BY DEF IInv, Types
<1>2. call' = [call EXCEPT ![c] = f] /\ UNCHANGED <<epoch, requests>>
  BY DEF Buffer, IInv, Types
<1>3. f \in CallRecord
  BY <1>1 DEF Buffer, CallRecord, CallOK, PageOK, Answered, Wires, Streams
<1>4. PageOK(f) /\ ServeOK(f, epoch) /\ WireOK(f, epoch)
  BY <1>1 DEF Buffer, CallRecord, CallOK, PageOK, ServeOK, WireOK, Answered, Wires, Streams
<1>5. f.spent = k.spent /\ (f.wire = "budget-exhausted" => f.token = k.token /\ k.wire = f.wire)
  BY <1>1 DEF Buffer, CallRecord, CallOK, PageOK, ServeOK, WireOK, Answered, Wires, Streams
<1> HIDE DEF f
<1> QED BY <1>2, <1>3, <1>4, <1>5, OneCall DEF CallOK

-----------------------------------------------------------------------------
(* The budget.                                                             *)

\* Before a request is counted, a call is refused for what is wrong with it; for
\* lack of budget only when its own process has none left.
LEMMA RefusePreserves ==
    ASSUME IInv, NEW c \in Calls, Refuse(c)
    PROVE  IInv'
<1> DEFINE k == call[c]
           f == CASE ~SessionFits(c) -> Answered(k, "forbidden")
                  [] k.ask.fails = "parse" -> Failure(k, "invalid-request")
                  [] k.ask.fails = "provider" -> Failure(k, "invalid-input")
                  [] OTHER -> Failure(k, "budget-exhausted")
<1>1. /\ k \in CallRecord /\ CallOK(k, epoch) /\ epoch \in 1 .. MaxEpoch
      /\ requests \in 0 .. MaxRequests
  BY DEF IInv, Types
<1>2. /\ call' = [call EXCEPT ![c] = f] /\ UNCHANGED <<epoch, requests>>
      /\ k.serve = "service"
      /\ ~SessionFits(c) \/ k.ask.fails \in {"parse", "provider"} \/ ~BudgetLeft
  BY DEF Refuse, IInv, Types
<1>3. f \in CallRecord
  <2>1. {"forbidden", "invalid-request", "invalid-input", "budget-exhausted"} \subseteq Wires
    BY DEF Wires
  <2> HIDE DEF k
  <2> QED BY <1>1, <2>1, AnsweredRecord, FailureRecord
<1>4. PageOK(f) /\ ServeOK(f, epoch) /\ WireOK(f, epoch)
  BY <1>1, <1>2 DEF SessionFits, CallRecord, CallOK, PageOK, ServeOK, WireOK, Failure, Answered
<1>5. /\ f.spent = k.spent /\ f.token = k.token
      /\ f.wire = "budget-exhausted" => f.token = epoch /\ requests = MaxRequests
  BY <1>1, <1>2, ServiceConstants
     DEF ServiceConstants, SessionFits, BudgetLeft, CallRecord, Failure, Answered
<1> HIDE DEF f
<1> QED BY <1>2, <1>3, <1>4, <1>5, OneCall DEF CallOK

\* A request is counted with the call that reserves it, while budget is left.
LEMMA FetchPreserves ==
    ASSUME IInv, NEW c \in Calls, Fetch(c)
    PROVE  IInv'
<1> DEFINE k == call[c]
           f == IF Starts(c)
                THEN [k EXCEPT !.spent = epoch, !.fetched = epoch, !.serve = "fetch"]
                ELSE [Failure(k, "invalid-input") EXCEPT !.spent = epoch]
<1>1. /\ k \in CallRecord /\ CallOK(k, epoch) /\ epoch \in 1 .. MaxEpoch
      /\ requests \in 0 .. MaxRequests /\ Types /\ SharedOK
  BY DEF IInv, Types
<1>2. /\ call' = [call EXCEPT ![c] = f] /\ epoch' = epoch /\ requests' = requests + 1
      /\ k.serve = "service" /\ k.token = epoch /\ k.ask.fails \in {"hints", "none"}
      /\ requests < MaxRequests
  BY DEF Fetch, IInv, Types, SessionFits, BudgetLeft, Reserve
<1>3. f \in CallRecord
  <2>1. epoch \in 0 .. MaxEpoch
    BY <1>1, ServiceConstants DEF ServiceConstants
  <2>2. Failure(k, "invalid-input") \in CallRecord
    <3>1. "invalid-input" \in Wires
      BY DEF Wires
    <3> QED BY <1>1, <3>1, FailureRecord
  <2> QED BY <1>1, <2>1, <2>2 DEF CallRecord
<1>4. PageOK(f) /\ ServeOK(f, epoch) /\ WireOK(f, epoch)
  BY <1>1, <1>2 DEF Starts, CallRecord, CallOK, PageOK, ServeOK, WireOK, Failure, Answered
<1>5. f.spent = epoch /\ f.wire # "budget-exhausted" /\ k.spent = 0
  BY <1>1, <1>2 DEF CallRecord, CallOK, PageOK, ServeOK, WireOK, Failure, Answered
<1> HIDE DEF f
<1>6. call'[c] = f /\ \A d \in Calls \ {c} : call'[d] = call[d]
  BY <1>1, <1>2 DEF Types
<1>7. Types'
  BY <1>1, <1>2, <1>3, ServiceConstants DEF Types, ServiceConstants
<1>8. \A d \in Calls : CallOK(call'[d], epoch')
  BY <1>2, <1>4, <1>6 DEF IInv, CallOK
<1>9. SharedOK'
  <2>1. c \notin Spent(epoch) /\ {x \in Calls : call'[x].spent = epoch} = Spent(epoch) \cup {c}
    BY <1>1, <1>5, <1>6 DEF Spent
  <2>2. Cardinality(Spent(epoch) \cup {c}) = requests + 1
    BY <1>1, <2>1, SpentFinite, FS_AddElement DEF SharedOK
  <2>3. ASSUME NEW e \in 1 .. MaxEpoch, e # epoch
        PROVE  {x \in Calls : call'[x].spent = e} = Spent(e)
    BY <1>1, <1>5, <1>6, <2>3 DEF Spent
  <2>4. requests' = Cardinality(Spent(epoch)')
    BY <1>2, <2>1, <2>2 DEF Spent
  <2>5. ASSUME NEW e \in 1 .. MaxEpoch
        PROVE  Cardinality({x \in Calls : call'[x].spent = e}) <= MaxRequests
    <3>1. CASE e = epoch
      <4>1. requests + 1 <= MaxRequests
        BY <1>1, <1>2, ServiceConstants DEF ServiceConstants
      <4> QED BY <2>1, <2>2, <3>1, <4>1
    <3>2. CASE e # epoch
      BY <1>1, <2>3, <3>2 DEF SharedOK
    <3> QED BY <3>1, <3>2
  <2>6. ASSUME NEW d \in Calls, call'[d].wire = "budget-exhausted"
        PROVE  Cardinality({x \in Calls : call'[x].spent = call'[d].token}) = MaxRequests
    <3>1. d # c /\ call'[d] = call[d]
      BY <1>5, <1>6, <2>6
    <3>2. Cardinality(Spent(call[d].token)) = MaxRequests
      BY <1>1, <2>6, <3>1 DEF SharedOK
    <3>3. call[d].token # epoch
      BY <1>1, <1>2, <3>2 DEF SharedOK
    <3>4. call[d].token \in 1 .. MaxEpoch
      BY <1>1, <2>6, <3>1 DEF IInv, Types, CallRecord, CallOK, WireOK
    <3> QED BY <2>3, <3>1, <3>2, <3>3, <3>4
  <2> QED BY <2>4, <2>5, <2>6 DEF SharedOK, Spent
<1> QED BY <1>7, <1>8, <1>9 DEF IInv

\* A new process has a budget of its own, and no call has spent any of it.
LEMMA RestartPreserves ==
    ASSUME IInv, Restart
    PROVE  IInv'
<1>1. /\ Types /\ SharedOK /\ \A d \in Calls : CallOK(call[d], epoch)
      /\ epoch \in 1 .. MaxEpoch /\ epoch' = epoch + 1 /\ epoch' \in 1 .. MaxEpoch
      /\ requests' = 0
  <2>1. Types /\ SharedOK /\ \A d \in Calls : CallOK(call[d], epoch)
    BY DEF IInv
  <2>2. epoch \in 1 .. MaxEpoch /\ epoch < MaxEpoch /\ epoch' = epoch + 1 /\ requests' = 0
    BY <2>1 DEF Types, Restart
  <2> QED BY <2>1, <2>2, ServiceConstants DEF ServiceConstants
<1>2. ASSUME NEW d \in Calls
      PROVE  /\ call'[d] \in CallRecord
             /\ CallOK(call'[d], epoch')
             /\ call'[d].spent = call[d].spent /\ call'[d].wire = call[d].wire
             /\ call'[d].token = call[d].token
  <2> DEFINE k == call[d]
             f == [k EXCEPT !.serve = "done", !.link = "closed"]
  <2>1. k \in CallRecord /\ CallOK(k, epoch)
    BY <1>1 DEF Types
  <2>2. f \in CallRecord
    BY <2>1 DEF CallRecord
  <2>3. k.serve \notin {"none", "done"} => PageOK(f)
    BY <2>1 DEF CallRecord, CallOK, PageOK, ServeOK, WireOK
  <2>4. ServeOK(k, epoch') /\ WireOK(k, epoch')
    BY <1>1, <2>1 DEF CallRecord, CallOK, ServeOK, WireOK
  <2>5. k.serve \notin {"none", "done"} => ServeOK(f, epoch') /\ WireOK(f, epoch')
    BY <1>1, <2>1, <2>4 DEF CallRecord, ServeOK, WireOK
  <2>6. call'[d] = IF k.serve \in {"none", "done"} THEN k ELSE f
    BY DEF Restart
  <2> QED BY <2>1, <2>2, <2>3, <2>4, <2>5, <2>6 DEF CallOK, CallRecord
<1>3. Types'
  <2>1. requests' \in 0 .. MaxRequests
    BY <1>1, ServiceConstants DEF ServiceConstants
  <2>2. call' \in [Calls -> CallRecord]
    BY <1>2 DEF Restart
  <2> QED BY <1>1, <2>1, <2>2 DEF Types
<1>4. SharedOK'
  <2>1. ASSUME NEW e PROVE {x \in Calls : call'[x].spent = e} = Spent(e)
    BY <1>2 DEF Spent
  <2>2. Spent(epoch + 1) = {}
    BY <1>1 DEF Spent, Types, CallRecord, CallOK, ServeOK
  <2>3. requests' = Cardinality(Spent(epoch)')
    BY <1>1, <2>1, <2>2, FS_EmptySet DEF Spent
  <2>4. \A e \in 1 .. MaxEpoch : Cardinality({x \in Calls : call'[x].spent = e}) <= MaxRequests
    BY <1>1, <2>1 DEF SharedOK
  <2>5. ASSUME NEW d \in Calls, call'[d].wire = "budget-exhausted"
        PROVE  Cardinality({x \in Calls : call'[x].spent = call'[d].token}) = MaxRequests
    BY <1>1, <1>2, <2>1, <2>5 DEF SharedOK
  <2> QED BY <2>3, <2>4, <2>5 DEF SharedOK, Spent
<1> QED BY <1>2, <1>3, <1>4 DEF IInv

-----------------------------------------------------------------------------
(* The theorems.                                                           *)

\* Before any call, nothing is spent.
LEMMA InitIInv == Init => IInv
<1> SUFFICES ASSUME Init PROVE IInv
  OBVIOUS
<1>1. NoCall \in CallRecord
  BY ServiceConstants DEF ServiceConstants, NoCall, NoRequest, CallRecord, Outs, Wires
<1>2. Types
  BY <1>1, ServiceConstants DEF ServiceConstants, Init, Types
<1>3. CallOK(NoCall, epoch)
  BY DEF Init, NoCall, NoRequest, CallOK, PageOK, ServeOK, WireOK
<1>4. ASSUME NEW e \in 1 .. MaxEpoch PROVE Spent(e) = {}
  BY DEF Init, Spent, NoCall
<1>5. SharedOK
  <2>1. epoch \in 1 .. MaxEpoch /\ requests = 0
    BY <1>2 DEF Init, Types
  <2>2. \A c \in Calls : call[c].wire = "none"
    BY DEF Init, NoCall
  <2> QED BY <1>4, <2>1, <2>2, FS_EmptySet, ServiceConstants DEF ServiceConstants, SharedOK
<1> QED BY <1>2, <1>3, <1>5 DEF IInv, Init

\* Every step of a page, of the server or of the provider preserves the invariant.
LEMMA StepIInv == IInv /\ [Next]_vars => IInv'
<1> SUFFICES ASSUME IInv, [Next]_vars PROVE IInv'
  OBVIOUS
<1>1. CASE UNCHANGED vars
  BY <1>1 DEF vars, IInv, Types, SharedOK, Spent
<1>2. ASSUME NEW c \in Calls, NEW r \in Requests, NEW token \in 1 .. epoch, Ask(c, r, token)
      PROVE  IInv'
  BY <1>2, AskPreserves
<1>3. ASSUME NEW c \in Calls, Stop(c) \/ Headers(c) \/ Settle(c) \/ Drop(c) \/ Lost(c)
      PROVE  IInv'
  BY <1>3, StopPreserves, HeadersPreserves, SettlePreserves, DropPreserves, LostPreserves
<1>4. ASSUME NEW c \in Calls,
             \/ Receive(c) \/ Body(c) \/ NoticeClose(c) \/ Refuse(c) \/ Fetch(c)
             \/ AbortFetch(c)
      PROVE  IInv'
  BY <1>4, ReceivePreserves, BodyPreserves, NoticeClosePreserves, RefusePreserves,
     FetchPreserves, AbortFetchPreserves
<1>5. ASSUME NEW c \in Calls, NEW how \in Heads, ProviderAnswers(c, how) PROVE IInv'
  BY <1>5, ProviderAnswersPreserves
<1>6. ASSUME NEW c \in Calls, NEW how \in Bodies, ProviderBody(c, how) PROVE IInv'
  BY <1>6, ProviderBodyPreserves
<1>7. ASSUME NEW c \in Calls, NEW how \in Streams, Buffer(c, how) PROVE IInv'
  BY <1>7, BufferPreserves
<1>8. CASE Restart
  BY <1>8, RestartPreserves
<1> QED BY <1>1, <1>2, <1>3, <1>4, <1>5, <1>6, <1>7, <1>8 DEF Next

\* The inductive invariant holds in every state the service reaches.
THEOREM Inductive == Spec => []IInv
BY InitIInv, StepIInv, PTL DEF Spec

\* However many calls race, no server process makes more provider requests than
\* its budget, its count is exact, and only its own pages are served from it.
THEOREM BudgetIsKept == Spec => []BudgetOK
<1> SUFFICES ASSUME IInv PROVE BudgetOK
  BY Inductive, PTL
<1>1. Types /\ SharedOK /\ \A c \in Calls : CallOK(call[c], epoch)
  BY DEF IInv
<1>2. TypeOK
  <2>1. epoch \in 1 .. MaxEpoch /\ requests \in 0 .. MaxRequests
    BY <1>1 DEF Types
  <2>2. ASSUME NEW c \in Calls
        PROVE  /\ call[c].ask \in Requests \cup {NoRequest} /\ call[c].token \in 0 .. epoch
               /\ call[c].client \in {"idle", "waiting", "failing", "reading", "settled"}
               /\ call[c].out \in Outs /\ (call[c].out # "none" <=> call[c].client = "settled")
               /\ call[c].link \in {"none", "open", "closed"}
               /\ call[c].serve \in {"none", "body", "service", "fetch", "read", "buffer", "done"}
               /\ {call[c].spent, call[c].fetched} \subseteq 0 .. epoch
    BY <1>1, <2>1 DEF Types, CallRecord, CallOK, PageOK, ServeOK
  <2>3. ASSUME NEW c \in Calls PROVE {call[c].cut, call[c].usage} \subseteq BOOLEAN
    BY <1>1 DEF Types, CallRecord
  <2> QED BY <2>1, <2>2, <2>3 DEF TypeOK
<1>3. BudgetHolds
  <2>1. ASSUME NEW e \in 1 .. MaxEpoch
        PROVE  Cardinality({c \in Calls : call[c].fetched = e}) <= MaxRequests
    <3> DEFINE F == {c \in Calls : call[c].fetched = e}
    <3>1. F \in SUBSET Spent(e)
      BY <1>1 DEF Spent, CallOK, ServeOK
    <3>2. IsFiniteSet(F) /\ Cardinality(F) <= Cardinality(Spent(e))
      BY <3>1, SpentFinite, FS_Subset
    <3>3. /\ Cardinality(F) \in Nat /\ Cardinality(Spent(e)) \in Nat
          /\ Cardinality(Spent(e)) <= MaxRequests
      BY <1>1, <3>2, SpentFinite, FS_CardinalityType DEF SharedOK
    <3> QED BY <3>2, <3>3, ServiceConstants DEF ServiceConstants
  <2> QED BY <1>1, <2>1 DEF BudgetHolds, SharedOK, Spent
<1>4. SpentIsMade /\ FetchedInSession
  BY <1>1 DEF SpentIsMade, FetchedInSession, CallOK, ServeOK
<1> QED BY <1>2, <1>3, <1>4 DEF BudgetOK

\* What a page is told of its call is what happened to it.
THEOREM OutcomesAreTrue == Spec => []OutcomeIsTrue
<1> SUFFICES ASSUME IInv PROVE OutcomeIsTrue
  BY Inductive, PTL
<1> SUFFICES ASSUME NEW c \in Calls
             PROVE  /\ call[c].out = "ok" => call[c].fetched # 0 /\ call[c].usage
                    /\ call[c].out = "budget-exhausted" =>
                         /\ call[c].spent = 0
                         /\ Cardinality({d \in Calls : call[d].spent = call[c].token})
                              = MaxRequests
                    /\ call[c].out = "session-expired" =>
                         call[c].token < epoch /\ call[c].spent = 0
                    /\ call[c].out = "invalid-input" /\ call[c].ask.kind = "guide" =>
                         call[c].ask.fails # "none"
                    /\ call[c].out # "aborted"
  BY DEF OutcomeIsTrue
<1>1. PageOK(call[c]) /\ WireOK(call[c], epoch) /\ SharedOK
  BY DEF IInv, CallOK
<1> QED BY <1>1 DEF PageOK, WireOK, SharedOK, Spent

\* Once the server has heard that a call's connection is closed, it makes no
\* provider request for it: the safety half of StopReachesProvider.
THEOREM NoFetchOnceCut == Spec => NoFetchAfterCut
<1>1. IInv /\ [Next]_vars =>
        [\A c \in Calls : call[c].cut => call'[c].fetched = call[c].fetched]_vars
  <2> SUFFICES ASSUME Types, [Next]_vars, NEW d \in Calls, call[d].cut
               PROVE  call'[d].fetched = call[d].fetched
    BY DEF IInv
  <2>0. call \in [Calls -> CallRecord] /\ call[d] \in CallRecord
    BY DEF Types
  <2>1. CASE UNCHANGED vars
    BY <2>1 DEF vars
  <2>2. ASSUME NEW c \in Calls, NEW r \in Requests, NEW token \in 1 .. epoch, Ask(c, r, token)
        PROVE  call'[d].fetched = call[d].fetched
    BY <2>0, <2>2 DEF Ask, CallRecord
  <2>3. ASSUME NEW c \in Calls, Stop(c) \/ Headers(c) \/ Settle(c) \/ Drop(c) \/ Lost(c)
        PROVE  call'[d].fetched = call[d].fetched
    BY <2>0, <2>3 DEF Stop, Headers, Settle, Drop, Lost, CallRecord
  <2>4. ASSUME NEW c \in Calls,
               Receive(c) \/ Body(c) \/ NoticeClose(c) \/ Refuse(c) \/ AbortFetch(c)
        PROVE  call'[d].fetched = call[d].fetched
    <3>1. CASE Receive(c)
      BY <2>0, <3>1 DEF Receive, CallRecord
    <3>2. CASE Body(c)
      BY <2>0, <3>2 DEF Body, Answered, CallRecord
    <3>3. CASE NoticeClose(c)
      BY <2>0, <3>3 DEF NoticeClose, Answered, CallRecord
    <3>4. CASE Refuse(c)
      BY <2>0, <3>4 DEF Refuse, Failure, Answered, CallRecord
    <3>5. CASE AbortFetch(c)
      BY <2>0, <3>5 DEF AbortFetch, Answered, CallRecord
    <3> QED BY <2>4, <3>1, <3>2, <3>3, <3>4, <3>5
  <2>5. ASSUME NEW c \in Calls, Fetch(c) PROVE call'[d].fetched = call[d].fetched
    BY <2>0, <2>5 DEF Fetch, Starts, Failure, Answered, CallRecord
  <2>6. ASSUME NEW c \in Calls, NEW how \in Heads, ProviderAnswers(c, how)
        PROVE  call'[d].fetched = call[d].fetched
    BY <2>0, <2>6 DEF ProviderAnswers, Failure, Answered, CallRecord
  <2>7. ASSUME NEW c \in Calls, NEW how, ProviderBody(c, how) \/ Buffer(c, how)
        PROVE  call'[d].fetched = call[d].fetched
    <3>1. CASE ProviderBody(c, how)
      BY <2>0, <3>1 DEF ProviderBody, Failure, Answered, CallRecord
    <3>2. CASE Buffer(c, how)
      BY <2>0, <3>2 DEF Buffer, Answered, CallRecord
    <3> QED BY <2>7, <3>1, <3>2
  <2>8. CASE Restart
    BY <2>0, <2>8 DEF Restart, CallRecord
  <2> QED BY <2>1, <2>2, <2>3, <2>4, <2>5, <2>6, <2>7, <2>8 DEF Next
<1> QED BY Inductive, <1>1, PTL DEF Spec, NoFetchAfterCut

=============================================================================
