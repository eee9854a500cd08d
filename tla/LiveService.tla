---------------------------- MODULE LiveService -----------------------------
(***************************************************************************)
(* The calls a page makes to its speech and guide provider: the clients of *)
(* apps/web/src/openai-live-audio.ts (transcribe, decide and the speech    *)
(* request, all through safeFetch), the local server (apps/server/src/     *)
(* local-live-harness.ts, openai-live-service.ts) and the provider adapter *)
(* it calls (packages/providers/src/openai-chained.ts).                    *)
(*                                                                         *)
(* A page carries the session token of the server process that served it;  *)
(* a restarted server has another token and a fresh request budget.  Of a  *)
(* request only the first check it fails matters.  Connections drop, the   *)
(* player stops a call at any time, and the provider may answer anything   *)
(* or nothing.                                                             *)
(***************************************************************************)
EXTENDS Naturals, FiniteSets

CONSTANTS
    Calls,        \* the calls of all pages
    Requests,     \* what a call may ask: a kind and the first check it fails
    MaxRequests,  \* profile.maxRequests
    MaxEpoch      \* bound: server processes, one after the other

Kinds == {"transcribe", "guide", "speech"}
Checks == {"client", "length", "parse", "provider", "hints", "none"}

ASSUME ServiceConstants ==
    /\ IsFiniteSet(Calls)
    /\ Requests \subseteq [kind : Kinds, fails : Checks]
    /\ \A r \in Requests : r.fails = "hints" => r.kind = "transcribe"
    /\ MaxRequests \in Nat /\ MaxEpoch \in Nat \ {0}

VARIABLES
    epoch,     \* the server process
    requests,  \* #requests of its provider adapter
    call       \* the calls, with the process in which each spent and fetched

vars == <<epoch, requests, call>>

NoRequest == [kind |-> "none", fails |-> "none"]
NoCall ==
    [ask |-> NoRequest, token |-> 0, client |-> "idle", out |-> "none", link |-> "none",
     serve |-> "none", cut |-> FALSE, wire |-> "none", spent |-> 0, fetched |-> 0,
     usage |-> FALSE]

Init == epoch = 1 /\ requests = 0 /\ call = [c \in Calls |-> NoCall]

-----------------------------------------------------------------------------
(* The page.                                                               *)

\* Before the request is sent, the client checks its input.
Ask(c, r, token) ==
    /\ call[c].client = "idle"
    /\ call' = [call EXCEPT ![c] =
                  IF r.fails = "client"
                  THEN [@ EXCEPT !.ask = r, !.token = token, !.client = "settled",
                                 !.out = "invalid-input"]
                  ELSE [@ EXCEPT !.ask = r, !.token = token, !.client = "waiting",
                                 !.link = "open"]]
    /\ UNCHANGED <<epoch, requests>>

\* Mutant: a refused request is an invalid one.
failureCodeOfClass(wire) ==
    CASE wire \in {"forbidden", "invalid-request"} -> "invalid-input"
      [] wire = "request-too-large" -> "capture-too-large"
      [] wire = "internal-error" -> "provider-rejected"
      [] OTHER -> wire

\* What the client makes of an error code of the server; a server error it does
\* not know is the provider's.
failureCode(wire) ==
    CASE wire = "forbidden" -> "session-expired"
      [] wire = "request-too-large" -> "capture-too-large"
      [] wire = "invalid-request" -> "invalid-input"
      [] wire = "internal-error" -> "provider-rejected"
      [] OTHER -> wire

\* The call's signal aborts.  While a failure is being read, the abort looks
\* like an unreadable failure.
Stop(c) ==
    /\ call[c].client \in {"waiting", "failing", "reading"}
    /\ call' = [call EXCEPT ![c].client = "settled", ![c].link = "closed",
                            ![c].out = IF call[c].client = "failing" THEN "provider-rejected"
                                       ELSE "stopped"]
    /\ UNCHANGED <<epoch, requests>>

\* The response's head arrives.
Headers(c) ==
    /\ call[c].client = "waiting" /\ call[c].link = "open" /\ call[c].wire # "none"
    /\ call' = [call EXCEPT ![c].client = IF call[c].wire = "ok" THEN "reading" ELSE "failing"]
    /\ UNCHANGED <<epoch, requests>>

\* Its body has been read.
Settle(c) ==
    /\ call[c].client \in {"reading", "failing"} /\ call[c].link = "open"
    /\ call' = [call EXCEPT ![c].client = "settled", ![c].link = "closed",
                            ![c].out = failureCode(call[c].wire)]
    /\ UNCHANGED <<epoch, requests>>

\* The connection drops.
Drop(c) ==
    /\ call[c].link = "open"
    /\ call' = [call EXCEPT ![c].link = "closed"]
    /\ UNCHANGED <<epoch, requests>>

\* The client notices: the request failed, a failure was unreadable, or the body
\* of the answer broke off.
Lost(c) ==
    /\ call[c].client \in {"waiting", "failing", "reading"} /\ call[c].link = "closed"
    /\ call' = [call EXCEPT ![c].client = "settled",
                            ![c].out = CASE call[c].client = "waiting" -> "transport-failed"
                                         [] call[c].client = "failing" -> "provider-rejected"
                                         [] OTHER -> "broken"]
    /\ UNCHANGED <<epoch, requests>>

-----------------------------------------------------------------------------
(* The server.                                                             *)

\* The handler of a call ends with an answer.
Answered(record, wire) == [record EXCEPT !.serve = "done", !.wire = wire]

\* The service's catch: whatever failed, a call that was cut is aborted.
Failure(record, code) == Answered(record, IF record.cut THEN "aborted" ELSE code)

\* The listener hands the request on.
Receive(c) ==
    /\ call[c].serve = "none" /\ call[c].link # "none"
    /\ call' = [call EXCEPT ![c].serve = "body"]
    /\ UNCHANGED <<epoch, requests>>

\* readBoundedRequestBody
Body(c) ==
    /\ call[c].serve = "body" /\ call[c].link = "open"
    /\ call' = [call EXCEPT ![c] =
                  IF call[c].ask.fails = "length" THEN Answered(@, "request-too-large")
                  ELSE [@ EXCEPT !.serve = "service"]]
    /\ UNCHANGED <<epoch, requests>>

\* Mutant: only the request's own abort is heard, which ends with its body.
NoticeCloseInBody(c) ==
    /\ call[c].link = "closed" /\ call[c].serve = "body"
    /\ call' = [call EXCEPT ![c] = [Answered(@, "internal-error") EXCEPT !.cut = TRUE]]
    /\ UNCHANGED <<epoch, requests>>

\* The server hears that the connection is closed: a request still being read
\* fails, any other has its signal aborted.
NoticeClose(c) ==
    /\ call[c].link = "closed" /\ ~call[c].cut
    /\ call[c].serve \in {"body", "service", "fetch", "read", "buffer"}
    /\ call' = [call EXCEPT ![c] =
                  IF call[c].serve = "body"
                  THEN [Answered(@, "internal-error") EXCEPT !.cut = TRUE]
                  ELSE [@ EXCEPT !.cut = TRUE]]
    /\ UNCHANGED <<epoch, requests>>

\* Mutant: any token of this server's making will do.
SessionFitsAny(c) == call[c].token # 0

\* The request carries the token of this process.
SessionFits(c) == call[c].token = epoch

\* Mutant: one request too many.
BudgetLeftOffByOne == requests <= MaxRequests

\* The check of #reserveRequest
BudgetLeft == requests < MaxRequests

\* Mutant: a request is counted when it is answered, not when it is made.
ReserveLate(c) == requests' = requests + IF call[c].cut THEN 1 ELSE 0

\* #reserveRequest, after its check
Reserve(c) == requests' = requests + 1

\* Mutant: the budget is spent before the input is checked.
RefuseSpends(c) ==
    /\ call[c].serve = "service"
    /\ ~SessionFits(c) \/ call[c].ask.fails \in {"parse", "provider"} \/ ~BudgetLeft
    /\ call' = [call EXCEPT ![c] =
                  CASE ~SessionFits(c) -> Answered(@, "forbidden")
                    [] ~BudgetLeft -> Failure(@, "budget-exhausted")
                    [] OTHER -> [Failure(@, "invalid-input") EXCEPT !.spent = epoch]]
    /\ requests' = requests + IF SessionFits(c) /\ BudgetLeft THEN 1 ELSE 0
    /\ UNCHANGED epoch

\* handle, and the adapter before it counts the request: the session, the
\* request's form, the adapter's own limits, the budget.
Refuse(c) ==
    /\ call[c].serve = "service"
    /\ ~SessionFits(c) \/ call[c].ask.fails \in {"parse", "provider"} \/ ~BudgetLeft
    /\ call' = [call EXCEPT ![c] =
                  CASE ~SessionFits(c) -> Answered(@, "forbidden")
                    [] call[c].ask.fails = "parse" -> Failure(@, "invalid-request")
                    [] call[c].ask.fails = "provider" -> Failure(@, "invalid-input")
                    [] OTHER -> Failure(@, "budget-exhausted")]
    /\ UNCHANGED <<epoch, requests>>

\* Mutant: the call's signal is not passed on.
StartsAnyway(c) == call[c].ask.fails # "hints"

\* The keywords of a transcription are checked after the request is counted, and
\* a fetch whose signal is already aborted is not made.
Starts(c) == call[c].ask.fails # "hints" /\ ~call[c].cut

\* The request is counted and made.
Fetch(c) ==
    /\ call[c].serve = "service" /\ SessionFits(c)
    /\ call[c].ask.fails \in {"hints", "none"} /\ BudgetLeft
    /\ Reserve(c)
    /\ call' = [call EXCEPT ![c] =
                  IF Starts(c) THEN [@ EXCEPT !.spent = epoch, !.fetched = epoch, !.serve = "fetch"]
                  ELSE [Failure(@, "invalid-input") EXCEPT !.spent = epoch]]
    /\ UNCHANGED epoch

\* The provider answers with a head, or not at all.  A speech is reported as used
\* and then read; its declared length may be refused.
ProviderAnswers(c, how) ==
    /\ call[c].serve = "fetch" /\ (how = "malformed-response" => call[c].ask.kind = "speech")
    /\ call' = [call EXCEPT ![c] =
                  IF how # "ok" THEN Failure(@, how)
                  ELSE IF call[c].ask.kind = "speech"
                  THEN [@ EXCEPT !.usage = TRUE, !.serve = "buffer"]
                  ELSE [@ EXCEPT !.serve = "read"]]
    /\ UNCHANGED <<epoch, requests>>

\* Its body: a transcript or a decision, checked before and after it is reported.
\* An empty transcript counts as invalid input.
ProviderBody(c, how) ==
    /\ call[c].serve = "read"
    /\ how = "blank" => call[c].ask.kind = "transcribe"
    /\ how = "undecided" => call[c].ask.kind = "guide"
    /\ call' = [call EXCEPT ![c] =
                  CASE how = "ok" -> [Answered(@, "ok") EXCEPT !.usage = TRUE]
                    [] how = "undecided" ->
                         [Failure(@, "malformed-response") EXCEPT !.usage = TRUE]
                    [] how = "blank" -> Failure(@, "invalid-input")
                    [] OTHER -> Failure(@, "malformed-response")]
    /\ UNCHANGED <<epoch, requests>>

\* Mutant: a speech that breaks off leaves its response unwritten.
BufferSilent(c, how) ==
    /\ call[c].serve = "buffer"
    /\ call' = [call EXCEPT ![c] = Answered(@, IF how = "ok" THEN "ok" ELSE "none")]
    /\ UNCHANGED <<epoch, requests>>

\* writeWebResponse: the whole speech is read before any of it is sent.  An empty
\* or too long one is an internal error; one that breaks off is a TypeError of
\* fetch, which the server takes for an invalid request.
Buffer(c, how) ==
    /\ call[c].serve = "buffer"
    /\ call' = [call EXCEPT ![c] =
                  Answered(@, CASE how = "ok" -> "ok"
                                [] how = "malformed" -> "internal-error"
                                [] OTHER -> "invalid-request")]
    /\ UNCHANGED <<epoch, requests>>

\* The aborted signal ends the provider's request.
AbortFetch(c) ==
    /\ call[c].cut /\ call[c].serve \in {"fetch", "read", "buffer"}
    /\ call' = [call EXCEPT ![c] =
                  Answered(@, IF call[c].serve = "buffer" THEN "internal-error" ELSE "aborted")]
    /\ UNCHANGED <<epoch, requests>>

\* The server process ends with all it was serving, and another is started.
Restart ==
    /\ epoch < MaxEpoch
    /\ epoch' = epoch + 1 /\ requests' = 0
    /\ call' = [c \in Calls |->
                  IF call[c].serve \in {"none", "done"} THEN call[c]
                  ELSE [call[c] EXCEPT !.serve = "done", !.link = "closed"]]

-----------------------------------------------------------------------------
Heads == {"ok", "malformed-response", "provider-rejected", "transport-failed"}
Bodies == {"ok", "malformed", "blank", "undecided"}
Streams == {"ok", "malformed", "broken"}

Next ==
    \/ \E c \in Calls, r \in Requests, token \in 1 .. epoch : Ask(c, r, token)
    \/ \E c \in Calls : Stop(c) \/ Headers(c) \/ Settle(c) \/ Drop(c) \/ Lost(c)
    \/ \E c \in Calls : Receive(c) \/ Body(c) \/ NoticeClose(c) \/ Refuse(c) \/ Fetch(c)
                        \/ AbortFetch(c)
    \/ \E c \in Calls, how \in Heads : ProviderAnswers(c, how)
    \/ \E c \in Calls, how \in Bodies : ProviderBody(c, how)
    \/ \E c \in Calls, how \in Streams : Buffer(c, how)
    \/ Restart

\* The event loops of page and server go on, and a close is noticed.  Nothing is
\* assumed of the provider, which may stay silent, nor of the player.
Fairness ==
    \A c \in Calls :
      /\ WF_vars(Headers(c)) /\ WF_vars(Settle(c)) /\ WF_vars(Lost(c))
      /\ WF_vars(Body(c)) /\ WF_vars(Refuse(c)) /\ WF_vars(Fetch(c))
      /\ WF_vars(NoticeClose(c)) /\ WF_vars(AbortFetch(c))

Spec == Init /\ [][Next]_vars /\ Fairness

-----------------------------------------------------------------------------
(* Properties.                                                             *)

Outs == {"none", "ok", "stopped", "invalid-input", "session-expired", "capture-too-large",
         "budget-exhausted", "provider-rejected", "transport-failed", "malformed-response",
         "aborted", "broken"}

\* Every variable has its type, and a call that has settled has an outcome.
TypeOK ==
    /\ epoch \in 1 .. MaxEpoch /\ requests \in 0 .. MaxRequests
    /\ \A c \in Calls :
         /\ call[c].ask \in Requests \cup {NoRequest} /\ call[c].token \in 0 .. epoch
         /\ call[c].client \in {"idle", "waiting", "failing", "reading", "settled"}
         /\ call[c].out \in Outs /\ (call[c].out # "none" <=> call[c].client = "settled")
         /\ call[c].link \in {"none", "open", "closed"}
         /\ call[c].serve \in {"none", "body", "service", "fetch", "read", "buffer", "done"}
         /\ {call[c].cut, call[c].usage} \subseteq BOOLEAN
         /\ {call[c].spent, call[c].fetched} \subseteq 0 .. epoch

\* The budget is per process and counts what it should: no process makes more
\* than MaxRequests provider requests however its calls interleave, and its count
\* is exactly the calls that reserved one.
BudgetHolds ==
    /\ \A e \in 1 .. MaxEpoch : Cardinality({c \in Calls : call[c].fetched = e}) <= MaxRequests
    /\ requests = Cardinality({c \in Calls : call[c].spent = epoch})

\* The budget is spent on provider requests: a call that reserved one and made
\* none had too many keywords, or was cut before it was made.
SpentIsMade ==
    \A c \in Calls : call[c].spent # 0 /\ call[c].fetched = 0
                       => call[c].ask.fails = "hints" \/ call[c].cut

\* Only a page of the running process reaches the provider, and a call never does
\* in two processes.
FetchedInSession == \A c \in Calls : call[c].fetched # 0 => call[c].fetched = call[c].token

\* The state is well formed, and the budget is spent on the requests of the
\* running process's own pages, never more than there are.
BudgetOK == TypeOK /\ BudgetHolds /\ SpentIsMade /\ FetchedInSession

\* What a page is told is true: a result was fetched and its use reported, an
\* exhausted budget went to other calls of the process, an expired session is an
\* older one's, a decision's input is invalid only if it is, and no page hears of
\* an abort it did not ask for.
OutcomeIsTrue ==
    \A c \in Calls :
      LET k == call[c]
      IN  /\ k.out = "ok" => k.fetched # 0 /\ k.usage
          /\ k.out = "budget-exhausted" =>
               k.spent = 0 /\ Cardinality({d \in Calls : call[d].spent = k.token}) = MaxRequests
          /\ k.out = "session-expired" => k.token < epoch /\ k.spent = 0
          /\ k.out = "invalid-input" /\ k.ask.kind = "guide" => k.ask.fails # "none"
          /\ k.out # "aborted"

\* Once the server has noticed that a call's connection is closed, it starts no
\* provider request for it.
NoFetchAfterCut == [][\A c \in Calls : call[c].cut => call'[c].fetched = call[c].fetched]_vars

\* A Stop in the page, or a lost connection, ends the provider's request, whether
\* or not the provider ever answers, and starts none.
StopReachesProvider ==
  /\ NoFetchAfterCut
  /\ \A c \in Calls : call[c].link = "closed" /\ call[c].serve \in {"fetch", "read", "buffer"}
                       ~> call[c].serve = "done"

\* Whatever ends the server's work on a call, the page's call settles.
AnswerReachesPage == \A c \in Calls : call[c].serve = "done" ~> call[c].client = "settled"
=============================================================================
