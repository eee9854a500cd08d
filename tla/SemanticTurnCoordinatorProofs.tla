-------------------- MODULE SemanticTurnCoordinatorProofs --------------------
(***************************************************************************)
(* Proofs about SemanticTurnCoordinator, for any set of interactions and   *)
(* any store size: the log commits a turn once and truly, no turn of the   *)
(* story is lost, stored outcomes are true for good, and outputs have      *)
(* their source.                                                           *)
(***************************************************************************)
EXTENDS SemanticTurnCoordinator, FiniteSetTheorems, TLAPS

-----------------------------------------------------------------------------
(* The inductive invariant.                                                *)

EventTypes ==
  {"transcript.final", "system.error", "system.recovered", "guide.decision.proposed",
   "guide.decision.rejected", "guide.decision.accepted", "guide.cannot_comply",
   "guide.clarification", "guide.explanation", "narration.requested", "narration.ready",
   "narration.cancelled", "narration.failed", "engine.command.requested",
   "engine.command.rejected", "engine.command.committed", "engine.output",
   "save.checkpointed", "save.failed", "experience.role-introduction"}

Ids == Interactions \cup {Opening, Introduction}

Event == [type : EventTypes, id : Ids, cause : Nat,
          request : Request \cup {None}, revision : Nat]

Turn == [kind : {"absent", "pending", "settled", "complete", "uncertain"},
         outcome : Outcomes \cup {"none"}, request : Request \cup {None}, requested : Nat]

OpeningType == [kind : {"absent", "pending", "settled", "retryable", "complete"},
                source : Nat, outcome : {"none", "ready", "cancelled", "failed", "thrown"}]

FrameType ==
  [op : {"none", "turn", "recover", "opening", "introduction"}, id : Ids \cup {None},
   stage : {"none", "guide", "inspect", "execute", "snapshot", "narrate"}, cause : Nat,
   request : Request \cup {None}, requested : Nat, revision : Nat,
   outcome : Outcomes \cup {"none"}, intent : Nat \cup {None}, aborted : BOOLEAN]

Types ==
  /\ turns \in [Interactions -> Turn]
  /\ opening \in OpeningType
  /\ frame \in FrameType
  /\ intent \in Nat \cup {None}
  /\ nextRequest \in Nat
  /\ log \in Seq(Event)
  /\ story \in Seq(Request)
  /\ held \in Request \cup {None}
  /\ posted \in Request \cup {None}
  /\ engineBusy \in BOOLEAN /\ engineDead \in BOOLEAN

\* What an interaction may have stored, by how far it is, in a log of n events.
TurnOK(t, n) ==
  /\ t.kind \in {"absent", "pending"} => t.request = None /\ t.outcome = "none"
  /\ t.kind = "uncertain" => t.outcome = "uncertain"
  /\ t.kind = "complete" => t.outcome \notin {"uncertain", "none"}
  /\ t.kind = "settled" => t.outcome # "none"
  /\ t.outcome = "uncertain" => t.request # None
  /\ t.requested <= n
TurnInv == \A i \in Interactions : TurnOK(turns[i], Len(log))

\* The operation in progress has reported a commit and is not over.
Landed == frame.stage = "snapshot" \/ (frame.stage = "narrate" /\ frame.outcome = "committed")

\* The operation in progress is that of the active interaction; it has a request
\* from the time it made one.
FrameInv ==
  /\ activeId = frame.id
  /\ frame.cause <= Len(log) /\ frame.requested <= Len(log)
  /\ frame.op = "none" => frame = NoFrame
  /\ frame.stage # "narrate" => frame.outcome = "none"
  /\ frame.op = "turn" =>
       /\ frame.id \in Interactions /\ turns[frame.id].kind = "pending"
       /\ frame.stage # "none"
       /\ (frame.request # None) <=> (frame.stage = "execute" \/ Landed)
       /\ frame.stage = "narrate" => frame.outcome \notin {"none", "uncertain"}
  /\ frame.op = "recover" =>
       /\ frame.id \in Interactions /\ turns[frame.id].kind = "uncertain"
       /\ frame.request = turns[frame.id].request
       /\ frame.stage = "execute" \/ Landed
  /\ frame.op = "opening" =>
       /\ frame.id = Opening /\ frame.stage \in {"inspect", "narrate"}
       /\ frame.request = None /\ frame.outcome = "none"
       /\ frame.stage = "inspect" => opening.source = 0
  /\ frame.op = "introduction" =>
       /\ frame.id = Introduction /\ frame.stage = "narrate"
       /\ frame.request = None /\ frame.outcome = "none"

\* The request of an interaction, from the time it was made.
Asked(i) == IF frame.op = "turn" /\ frame.id = i THEN frame.request ELSE turns[i].request

\* Requests have identities of their own, in the order of the revisions they expect.
AskedInv ==
  /\ \A i \in Interactions : Asked(i) # None =>
       /\ Asked(i).requestId < nextRequest
       /\ Asked(i).expectedRevision <= Len(story)
  /\ \A i, j \in Interactions : Asked(i) # None /\ Asked(j) # None =>
       /\ Asked(i).requestId = Asked(j).requestId => i = j
       /\ Asked(i).expectedRevision < Asked(j).expectedRevision =>
            Asked(i).requestId < Asked(j).requestId

\* Each stored interaction has made one request at most.
Askers == {i \in Interactions : Asked(i) # None}
CountInv ==
  /\ IsFiniteSet(Stored) /\ Cardinality(Stored) <= MaxTurns
  /\ nextRequest = Cardinality(Askers) + 1

\* The story is made of requests, each at the revision it expected.
StoryInv ==
  \A n \in 1..Len(story) :
    /\ story[n].expectedRevision = n - 1
    /\ story[n].requestId >= n
    /\ \E i \in Interactions : story[n] = Asked(i)

Logged(r) == \E k \in Events("engine.command.committed") : log[k].request = r

\* Somebody can still learn what became of request r: the adapter holds it, or
\* its execute is in progress and admitted.
Pursued(r) == held = r \/ (frame.stage = "execute" /\ frame.request = r /\ Admits(r))

\* Interaction i does not know what became of its request.
Waiting(i) == turns[i].outcome = "uncertain" \/ (frame.id = i /\ frame.stage = "execute")

\* Of all requests one at most may run or have run without the log knowing it: the
\* engine's admission keeps every other one out until it is settled.
EngineInv ==
  /\ \A n \in 1..Len(story) :
       \/ Logged(story[n])
       \/ n = Len(story) /\ posted \in {None, story[n]} /\ Pursued(story[n])
  /\ posted # None => Pursued(posted)
  /\ held # None => \E i \in Interactions : Asked(i) = held /\ Waiting(i)
  /\ Landed =>
       /\ posted = None /\ held = None /\ Logged(frame.request)
       /\ frame.stage = "snapshot" =>
            /\ frame.cause # 0 /\ frame.revision = Len(story)
            /\ log[frame.cause].revision = Len(story)

\* What an interaction waits for is not in the log, and what it has stored is true.
TruthInv ==
  \A i \in Interactions :
    /\ Waiting(i) /\ ~(frame.id = i /\ Landed) => ~Logged(Asked(i))
    /\ (turns[i].kind \in {"settled", "complete"} /\ turns[i].outcome # "uncertain"
          /\ turns[i].request # None)
         => ((turns[i].outcome = "committed") <=> Applied(turns[i].request) # {})

\* Events have earlier causes; commits are true, outputs and checkpoints follow
\* what they belong to.
LogInv ==
  /\ \A k \in 1..Len(log) :
       /\ log[k].cause < k
       /\ log[k].type = "engine.command.committed" =>
            /\ log[k].revision \in 1..Len(story)
            /\ story[log[k].revision] = log[k].request
       /\ log[k].type = "engine.output" =>
            \/ log[k].id = Opening /\ log[k].cause = 0 /\ opening.source = k
            \/ /\ log[k].cause # 0 /\ log[k].cause = k - 1
               /\ log[k - 1].type = "engine.command.committed"
               /\ log[k - 1].request = log[k].request
       /\ log[k].type = "save.checkpointed" =>
            log[k].cause # 0 /\ log[k].revision = log[log[k].cause].revision
  /\ \A j, k \in Events("engine.command.committed") :
       log[j].request = log[k].request => j = k
  /\ opening.source <= Len(log)

\* A clarification, asked or pending, is later than every commit.
FreshIntent(n) ==
  n # None => n \in 1..Len(log) /\ \A k \in Events("engine.command.committed") : k < n
IntentInv == FreshIntent(intent) /\ (frame.outcome = "clarified" => FreshIntent(frame.intent))

IInv ==
  /\ Types /\ TurnInv /\ FrameInv /\ AskedInv /\ CountInv /\ StoryInv /\ EngineInv
  /\ TruthInv /\ LogInv /\ IntentInv

-----------------------------------------------------------------------------
(* The pieces records and sequences are made of.                           *)

\* undefined is no identity, request or number, and the three kinds of
\* interaction are apart.
LEMMA NoneDistinct ==
  /\ None \notin Interactions /\ None \notin Request /\ None \notin Nat
  /\ None # Opening /\ None # Introduction
  /\ Opening \notin Interactions /\ Introduction \notin Interactions /\ Opening # Introduction
BY CoordinatorConstants DEF CoordinatorConstants

\* The locals of an operation that begins.
LEMMA FrameFields ==
  ASSUME NEW op \in {"none", "turn", "recover", "opening", "introduction"},
         NEW id \in Ids \cup {None}, NEW cause \in Nat,
         NEW stage \in {"none", "guide", "inspect", "execute", "snapshot", "narrate"}
  PROVE  LET f == Frame(op, id, stage, cause) IN
         /\ f \in FrameType
         /\ f.op = op /\ f.id = id /\ f.stage = stage /\ f.cause = cause
         /\ f.request = None /\ f.requested = 0 /\ f.outcome = "none" /\ f.intent = None
BY DEF Frame, FrameType

\* An idle coordinator has no locals.
LEMMA NoFrameFields ==
  /\ NoFrame \in FrameType
  /\ NoFrame.op = "none" /\ NoFrame.id = None /\ NoFrame.stage = "none"
  /\ NoFrame.cause = 0 /\ NoFrame.request = None /\ NoFrame.requested = 0
  /\ NoFrame.outcome = "none"
BY FrameFields DEF NoFrame

\* The locals of a turn whose answer is to be narrated.
LEMMA NarrateFields ==
  ASSUME frame \in FrameType, NEW outcome \in Outcomes, NEW cause \in Nat,
         NEW n \in Nat \cup {None},
         frame' = [frame EXCEPT !.stage = "narrate", !.outcome = outcome, !.cause = cause,
                                !.intent = n]
  PROVE  /\ frame' \in FrameType
         /\ frame'.op = frame.op /\ frame'.id = frame.id /\ frame'.request = frame.request
         /\ frame'.requested = frame.requested /\ frame'.revision = frame.revision
         /\ frame'.stage = "narrate" /\ frame'.cause = cause
         /\ frame'.outcome = outcome /\ frame'.intent = n
BY DEF FrameType

\* The locals of an operation that goes on to stage.
LEMMA StageFields ==
  ASSUME frame \in FrameType, NEW cause \in Nat,
         NEW stage \in {"none", "guide", "inspect", "execute", "snapshot", "narrate"},
         frame' = [frame EXCEPT !.stage = stage, !.cause = cause]
  PROVE  /\ frame' \in FrameType
         /\ frame'.op = frame.op /\ frame'.id = frame.id /\ frame'.request = frame.request
         /\ frame'.requested = frame.requested /\ frame'.revision = frame.revision
         /\ frame'.stage = stage /\ frame'.cause = cause
         /\ frame'.outcome = frame.outcome /\ frame'.intent = frame.intent
BY DEF FrameType

\* The locals of a turn that has made request r.
LEMMA RequestFields ==
  ASSUME frame \in FrameType, NEW r \in Request, NEW cause \in Nat,
         frame' = [frame EXCEPT !.stage = "execute", !.cause = cause, !.request = r,
                                !.requested = cause]
  PROVE  /\ frame' \in FrameType
         /\ frame'.op = frame.op /\ frame'.id = frame.id /\ frame'.request = r
         /\ frame'.requested = cause /\ frame'.revision = frame.revision
         /\ frame'.stage = "execute" /\ frame'.cause = cause
         /\ frame'.outcome = frame.outcome /\ frame'.intent = frame.intent
BY DEF FrameType

\* The locals of an operation that has learnt of its commit.
LEMMA CommitFields ==
  ASSUME frame \in FrameType, NEW revision \in Nat, NEW cause \in Nat,
         frame' = [frame EXCEPT !.stage = "snapshot", !.cause = cause, !.revision = revision]
  PROVE  /\ frame' \in FrameType
         /\ frame'.op = frame.op /\ frame'.id = frame.id /\ frame'.request = frame.request
         /\ frame'.requested = frame.requested /\ frame'.revision = revision
         /\ frame'.stage = "snapshot" /\ frame'.cause = cause
         /\ frame'.outcome = frame.outcome /\ frame'.intent = frame.intent
BY DEF FrameType

\* Log l is the log with a chain of events appended, each caused by the one
\* before it.
Appended(l, id, cause, types, request, revision) ==
  /\ l \in Seq(Event) /\ Len(l) = Len(log) + Len(types)
  /\ \A k \in 1..Len(log) : l[k] = log[k]
  /\ \A k \in 1..Len(types) :
       l[Len(log) + k] = [type |-> types[k], id |-> id,
                          cause |-> IF k = 1 THEN cause ELSE Len(log) + k - 1,
                          request |-> request, revision |-> revision]

\* That is what Chain is for.
LEMMA ChainAppended ==
  ASSUME log \in Seq(Event), NEW id \in Ids, NEW cause \in Nat, cause <= Len(log),
         NEW types \in Seq(EventTypes), NEW request \in Request \cup {None},
         NEW revision \in Nat
  PROVE  Appended(log \o Chain(id, cause, types, request, revision),
                  id, cause, types, request, revision)
<1> DEFINE C == Chain(id, cause, types, request, revision)
<1> DEFINE l == log \o C
<1>1. \A k \in 1..Len(types) :
        [type |-> types[k], id |-> id, cause |-> IF k = 1 THEN cause ELSE Len(log) + k - 1,
         request |-> request, revision |-> revision] \in Event
  BY DEF Event
<1>2. C \in Seq(Event) /\ Len(C) = Len(types)
  BY <1>1 DEF Chain
<1>3. \A k \in 1..Len(types) :
        C[k] = [type |-> types[k], id |-> id,
                cause |-> IF k = 1 THEN cause ELSE Len(log) + k - 1,
                request |-> request, revision |-> revision]
  BY DEF Chain
<1> HIDE DEF C
<1>4. l \in Seq(Event) /\ Len(l) = Len(log) + Len(types)
  BY <1>2
<1>5. \A k \in 1..Len(log) : l[k] = log[k]
  BY <1>2
<1>6. \A k \in 1..Len(types) : l[Len(log) + k] = C[k]
  BY <1>2
<1> HIDE DEF l
<1>7. Appended(l, id, cause, types, request, revision)
  BY <1>3, <1>4, <1>5, <1>6 DEF Appended
<1> QED BY <1>7 DEF l, C

\* The event types the other parts of the invariant depend on.
Loud == {"engine.command.committed", "engine.output", "save.checkpointed"}

\* Something was appended to the log, and no commit.
Heard ==
  /\ log' \in Seq(Event) /\ Len(log') >= Len(log)
  /\ \A k \in 1..Len(log) : log'[k] = log[k]
  /\ \A k \in 1..Len(log') : k > Len(log) => log'[k].type # "engine.command.committed"
  /\ LogInv'

\* The commits in the log are those there were, and so is what is later than them.
LEMMA HeardCommits ==
  ASSUME Types, Heard
  PROVE  /\ Events("engine.command.committed")' = Events("engine.command.committed")
         /\ \A r : Logged(r)' <=> Logged(r)
         /\ \A n \in Nat \cup {None} : FreshIntent(n) => FreshIntent(n)'
<1>0. Len(log) \in Nat /\ Len(log') \in Nat
  BY DEF Types, Heard
<1>1. Events("engine.command.committed")' = Events("engine.command.committed")
  BY <1>0 DEF Heard, Events
<1>2. \A r : Logged(r)' <=> Logged(r)
  BY <1>0, <1>1 DEF Heard, Logged, Events
<1>3. \A n \in Nat \cup {None} : FreshIntent(n) => FreshIntent(n)'
  BY <1>0, <1>1 DEF Heard, FreshIntent
<1> QED BY <1>1, <1>2, <1>3

\* Without an event the log is as it was.
LEMMA Silence ==
  ASSUME IInv, log' = log, story' = story, opening'.source = opening.source
  PROVE  Heard
BY DEF IInv, Types, Heard, LogInv, Events

\* Events that are no commit and no output, among them checkpoints of the revision
\* of an earlier event.
LEMMA QuietLog ==
  ASSUME IInv, log' \in Seq(Event), Len(log') >= Len(log),
         \A k \in 1..Len(log) : log'[k] = log[k],
         \A k \in 1..Len(log') : k > Len(log) =>
           /\ log'[k].cause < k
           /\ log'[k].type \notin {"engine.command.committed", "engine.output"}
           /\ log'[k].type = "save.checkpointed" =>
                log'[k].cause \in 1..Len(log) /\ log'[k].revision = log[log'[k].cause].revision,
         story' = story, opening'.source = opening.source
  PROVE  Heard
<1>0. Len(log) \in Nat /\ Len(log') \in Nat /\ log \in Seq(Event) /\ opening.source \in Nat
  BY DEF IInv, Types, OpeningType
<1>1. \A k \in 1..Len(log') : k > Len(log) => log'[k].type # "engine.command.committed"
  OBVIOUS
<1>2. ASSUME NEW k \in 1..Len(log')
      PROVE  /\ log'[k].cause < k
             /\ log'[k].type = "engine.command.committed" =>
                  /\ log'[k].revision \in 1..Len(story)
                  /\ story[log'[k].revision] = log'[k].request
             /\ log'[k].type = "engine.output" =>
                  \/ log'[k].id = Opening /\ log'[k].cause = 0 /\ opening.source = k
                  \/ /\ log'[k].cause # 0 /\ log'[k].cause = k - 1
                     /\ log'[k - 1].type = "engine.command.committed"
                     /\ log'[k - 1].request = log'[k].request
             /\ log'[k].type = "save.checkpointed" =>
                  log'[k].cause # 0 /\ log'[k].revision = log'[log'[k].cause].revision
  <2>1. CASE k > Len(log)
    BY <1>0, <2>1
  <2>2. CASE k \in 1..Len(log)
    <3>0. log[k] \in Event
      BY <1>0, <2>2
    <3>1. log'[k] = log[k] /\ log[k].cause \in Nat /\ log[k].cause < k
      BY <2>2, <3>0 DEF IInv, LogInv, Event
    <3>2. log[k].cause # 0 => log'[log[k].cause] = log[log[k].cause]
      BY <1>0, <2>2, <3>1
    <3>3. k - 1 = log[k].cause /\ log[k].cause # 0 => log'[k - 1] = log[k - 1]
      BY <3>2
    <3> QED BY <2>2, <3>1, <3>2, <3>3 DEF IInv, LogInv
  <2> QED BY <1>0, <2>1, <2>2
<1>3. Events("engine.command.committed")' = Events("engine.command.committed")
  BY <1>0, <1>1 DEF Events
<1>4. \A j, k \in Events("engine.command.committed") : log'[j].request = log'[k].request => j = k
  BY <1>0 DEF Events, IInv, LogInv
<1>5. opening.source <= Len(log')
  BY <1>0 DEF IInv, LogInv
<1>6. LogInv'
  BY <1>2, <1>3, <1>4, <1>5 DEF LogInv
<1> QED BY <1>1, <1>6 DEF Heard

\* The same for a chain of such events.
LEMMA Tells ==
  ASSUME IInv, NEW id \in Ids, NEW cause \in Nat, cause <= Len(log),
         NEW types \in Seq(EventTypes \ Loud), NEW request \in Request \cup {None},
         NEW revision \in Nat, Emit(id, cause, types, request, revision),
         story' = story, opening'.source = opening.source
  PROVE  Heard /\ Len(log') = Len(log) + Len(types)
<1>0. log \in Seq(Event) /\ Len(log) \in Nat /\ types \in Seq(EventTypes) /\ Len(types) \in Nat
  BY DEF IInv, Types
<1>9. Appended(log', id, cause, types, request, revision)
  <2>1. log' = log \o Chain(id, cause, types, request, revision)
    BY DEF Emit
  <2>2. Appended(log \o Chain(id, cause, types, request, revision),
                 id, cause, types, request, revision)
    BY <1>0, ChainAppended
  <2> QED BY <2>1, <2>2
<1>1. /\ log' \in Seq(Event) /\ Len(log') = Len(log) + Len(types)
      /\ \A k \in 1..Len(log) : log'[k] = log[k]
  BY <1>9 DEF Appended
<1>2. ASSUME NEW k \in 1..Len(log'), k > Len(log)
      PROVE  log'[k].cause < k /\ log'[k].type \notin Loud
  <2>1. PICK m \in 1..Len(types) : k = Len(log) + m
    <3>1. k - Len(log) \in 1..Len(types) /\ k = Len(log) + (k - Len(log))
      BY <1>0, <1>1, <1>2
    <3> QED BY <3>1
  <2>2. types[m] \in EventTypes \ Loud
    BY <2>1
  <2>3. /\ log'[k].type = types[m]
        /\ log'[k].cause = IF m = 1 THEN cause ELSE Len(log) + m - 1
    <3> DEFINE x == IF m = 1 THEN cause ELSE Len(log) + m - 1
    <3>1. log'[k] = [type |-> types[m], id |-> id, cause |-> x,
                     request |-> request, revision |-> revision]
      BY <1>9, <2>1 DEF Appended
    <3> HIDE DEF x
    <3>2. log'[k].type = types[m] /\ log'[k].cause = x
      BY <3>1
    <3> QED BY <3>2 DEF x
  <2> QED BY <1>0, <1>1, <2>1, <2>2, <2>3
<1>3. Len(log') >= Len(log)
  BY <1>0, <1>1
<1> QED BY <1>1, <1>2, <1>3, QuietLog DEF Loud

\* The same on behalf of the operation in progress.
LEMMA SaysTells ==
  ASSUME IInv, frame.id \in Ids, NEW types \in Seq(EventTypes \ Loud), Says(types),
         story' = story, opening'.source = opening.source
  PROVE  Heard /\ Len(log') = Len(log) + Len(types)
<1>1. /\ frame.cause \in Nat /\ frame.cause <= Len(log) /\ frame.revision \in Nat
      /\ frame.request \in Request \cup {None}
  BY DEF IInv, Types, FrameInv, FrameType
<1> QED BY <1>1, Tells DEF Says

\* What is stored stays right as the log grows.
LEMMA OtherTurns ==
  ASSUME IInv, Heard
  PROVE  \A i \in Interactions : TurnOK(turns[i], Len(log'))
<1>1. Len(log) \in Nat /\ Len(log') \in Nat /\ Len(log') >= Len(log)
  BY DEF IInv, Types, Heard
<1>2. \A i \in Interactions : turns[i].requested \in Nat
  BY DEF IInv, Types, Turn
<1> QED BY <1>1, <1>2 DEF IInv, TurnInv, TurnOK

-----------------------------------------------------------------------------
(* What a step that asks for nothing new leaves alone.                     *)

\* Requests and story, when every interaction keeps its request.
LEMMA SameAsked ==
  ASSUME IInv, \A i \in Interactions : Asked(i)' = Asked(i),
         nextRequest' = nextRequest, story' = story
  PROVE  AskedInv' /\ StoryInv'
<1> HIDE DEF Asked
<1>1. AskedInv'
  BY DEF IInv, AskedInv
<1>2. StoryInv'
  BY DEF IInv, StoryInv
<1> QED BY <1>1, <1>2

\* The counts, when nothing is stored that was not.
LEMMA SameCount ==
  ASSUME IInv, \A i \in Interactions : Asked(i)' = Asked(i), nextRequest' = nextRequest,
         \A i \in Interactions : (turns'[i].kind # "absent") <=> (turns[i].kind # "absent")
  PROVE  CountInv'
<1>1. Askers' = Askers
  BY DEF Askers
<1>2. Stored' = Stored
  BY DEF Stored
<1> QED BY <1>1, <1>2 DEF IInv, CountInv

\* The counts, when one more interaction is stored and there was room.
LEMMA MoreCount ==
  ASSUME IInv, \A i \in Interactions : Asked(i)' = Asked(i), nextRequest' = nextRequest,
         NEW j \in Interactions, Cardinality(Stored) < MaxTurns,
         turns[j].kind = "absent", turns'[j].kind # "absent",
         \A i \in Interactions \ {j} : turns'[i].kind = turns[i].kind
  PROVE  CountInv'
<1>1. Askers' = Askers
  BY DEF Askers
<1>2. Stored' = Stored \cup {j} /\ j \notin Stored
  BY DEF Stored
<1>3. IsFiniteSet(Stored') /\ Cardinality(Stored') = Cardinality(Stored) + 1
  BY <1>2, FS_AddElement DEF IInv, CountInv
<1>4. Cardinality(Stored) \in Nat /\ MaxTurns \in Nat
  BY FS_CardinalityType, CoordinatorConstants DEF IInv, CountInv, CoordinatorConstants
<1>5. Cardinality(Stored') <= MaxTurns
  BY <1>3, <1>4
<1> QED BY <1>1, <1>3, <1>5 DEF IInv, CountInv

\* The operation in progress stays where it is.
SameFrame ==
  /\ frame'.op = frame.op /\ frame'.id = frame.id /\ frame'.stage = frame.stage
  /\ frame'.cause = frame.cause /\ frame'.request = frame.request
  /\ frame'.revision = frame.revision /\ frame'.outcome = frame.outcome

\* A step beside the operation in progress: outcomes stored stay, new ones have
\* no request.
LEMMA BesideFrame ==
  ASSUME IInv, Heard, SameFrame, UNCHANGED <<nextRequest, story, held, posted, engineBusy>>,
         \A i \in Interactions :
           /\ turns'[i].request = turns[i].request
           /\ turns'[i].outcome = "uncertain" <=> turns[i].outcome = "uncertain"
           /\ \/ turns'[i].request = None
              \/ /\ turns'[i].outcome = turns[i].outcome
                 /\ turns'[i].kind \in {"settled", "complete"} =>
                      turns[i].kind \in {"settled", "complete"}
  PROVE  AskedInv' /\ StoryInv' /\ EngineInv' /\ TruthInv'
<1>1. \A i \in Interactions : Asked(i)' = Asked(i) /\ (Waiting(i)' <=> Waiting(i))
  BY DEF Asked, Waiting, SameFrame
<1>2. \A r : (Logged(r)' <=> Logged(r)) /\ (Pursued(r)' <=> Pursued(r)) /\ Applied(r)' = Applied(r)
  <2>1. \A r : Logged(r)' <=> Logged(r)
    BY HeardCommits DEF IInv
  <2>2. \A r : (Pursued(r)' <=> Pursued(r)) /\ Applied(r)' = Applied(r)
    BY DEF Pursued, Admits, Applied, SameFrame
  <2> QED BY <2>1, <2>2
<1>3. Landed' <=> Landed
  BY DEF Landed, SameFrame
<1>4. AskedInv' /\ StoryInv'
  BY <1>1, SameAsked
<1>5. EngineInv'
  <2>1. frame.cause # 0 => log'[frame.cause] = log[frame.cause]
    BY DEF Heard, IInv, Types, FrameType, FrameInv
  <2>2. \A n \in 1..Len(story) :
          \/ Logged(story[n])'
          \/ n = Len(story) /\ posted \in {None, story[n]} /\ Pursued(story[n])'
    BY <1>2 DEF IInv, EngineInv
  <2>3. held # None => \E i \in Interactions : Asked(i)' = held /\ Waiting(i)'
    BY <1>1 DEF IInv, EngineInv
  <2>4. posted # None => Pursued(posted)'
    BY <1>2 DEF IInv, EngineInv
  <2>5. Landed => /\ posted = None /\ held = None /\ Logged(frame.request)'
                  /\ frame.stage = "snapshot" =>
                       /\ frame.cause # 0 /\ frame.revision = Len(story)
                       /\ log[frame.cause].revision = Len(story)
    BY <1>2 DEF IInv, EngineInv, SameFrame
  <2> QED BY <1>3, <2>1, <2>2, <2>3, <2>4, <2>5 DEF EngineInv, SameFrame
<1>6. TruthInv'
  BY <1>1, <1>2, <1>3 DEF IInv, TruthInv, SameFrame
<1> QED BY <1>4, <1>5, <1>6

\* A step outside engine.execute: nobody starts or stops waiting but with nothing
\* held, and the outcomes stored are true.
LEMMA CalmStep ==
  ASSUME IInv, Heard, UNCHANGED <<nextRequest, story, held, posted>>,
         frame.stage # "execute", frame'.stage # "execute", ~Landed',
         \A i \in Interactions :
           /\ Asked(i)' = Asked(i)
           /\ turns'[i].outcome = "uncertain" =>
                turns[i].outcome = "uncertain" /\ ~(frame.id = i /\ Landed)
           /\ turns[i].outcome = "uncertain" => turns'[i].outcome = "uncertain" \/ held = None
           /\ (turns'[i].kind \in {"settled", "complete"} /\ turns'[i].outcome # "uncertain"
                 /\ turns'[i].request # None)
                => ((turns'[i].outcome = "committed") <=> Applied(turns'[i].request) # {})
  PROVE  AskedInv' /\ StoryInv' /\ EngineInv' /\ TruthInv'
<1>1. AskedInv' /\ StoryInv'
  BY SameAsked
<1>2. \A r : (Logged(r)' <=> Logged(r)) /\ Applied(r)' = Applied(r)
  <2>1. \A r : Logged(r)' <=> Logged(r)
    BY HeardCommits DEF IInv
  <2>2. \A r : Applied(r)' = Applied(r)
    BY DEF Applied
  <2> QED BY <2>1, <2>2
<1>3. \A r : (Pursued(r)' <=> held = r) /\ (Pursued(r) <=> held = r)
  BY DEF Pursued
<1>4. EngineInv'
  <2>1. \A n \in 1..Len(story) :
          \/ Logged(story[n])'
          \/ n = Len(story) /\ posted \in {None, story[n]} /\ Pursued(story[n])'
    BY <1>2, <1>3 DEF IInv, EngineInv
  <2>2. posted # None => Pursued(posted)'
    BY <1>3 DEF IInv, EngineInv
  <2>3. held # None => \E i \in Interactions : Asked(i)' = held /\ Waiting(i)'
    BY DEF IInv, EngineInv, Waiting
  <2> QED BY <2>1, <2>2, <2>3 DEF EngineInv
<1>5. TruthInv'
  <2>1. ASSUME NEW i \in Interactions, Waiting(i)'
        PROVE  ~Logged(Asked(i))'
    <3>1. Waiting(i) /\ ~(frame.id = i /\ Landed) /\ Asked(i)' = Asked(i)
      BY <2>1 DEF Waiting
    <3>2. ~Logged(Asked(i))
      BY <3>1 DEF IInv, TruthInv
    <3>3. Logged(Asked(i))' <=> \E k \in Events("engine.command.committed")' :
                                   log'[k].request = Asked(i)
      BY <3>1 DEF Logged
    <3>4. Logged(Asked(i)) <=> \E k \in Events("engine.command.committed") :
                                 log[k].request = Asked(i)
      BY DEF Logged
    <3>5. Events("engine.command.committed")' = Events("engine.command.committed")
      BY HeardCommits DEF IInv
    <3>6. \A k \in Events("engine.command.committed") : log'[k] = log[k]
      BY DEF Events, Heard
    <3> QED BY <3>2, <3>3, <3>4, <3>5, <3>6
  <2> QED BY <1>2, <2>1 DEF TruthInv
<1> QED BY <1>1, <1>4, <1>5

\* A pending clarification stays later than every commit.
LEMMA IntentKept ==
  ASSUME IInv, Heard,
         intent' \in {intent, None} \/ (frame.outcome = "clarified" /\ intent' = frame.intent)
  PROVE  FreshIntent(intent)'
<1>1. CASE intent' = None
  BY <1>1 DEF FreshIntent
<1>2. CASE intent' # None
  <2>1. intent \in Nat \cup {None} /\ frame.intent \in Nat \cup {None}
    BY DEF IInv, Types, FrameType
  <2>2. FreshIntent(intent) /\ (frame.outcome = "clarified" => FreshIntent(frame.intent))
    BY DEF IInv, IntentInv
  <2>3. intent' \in Nat \cup {None} /\ FreshIntent(intent')
    BY <2>1, <2>2, <1>2
  <2>4. FreshIntent(intent)' <=> (intent' \in 1..Len(log') /\
          \A k \in Events("engine.command.committed")' : k < intent')
    BY <1>2 DEF FreshIntent
  <2> QED BY <1>2, <2>3, <2>4, HeardCommits DEF FreshIntent, IInv, Heard, Types
<1> QED BY <1>1, <1>2

\* So does one that is being narrated.
LEMMA FrameIntentKept ==
  ASSUME IInv, Heard, frame'.outcome = frame.outcome, frame'.intent = frame.intent
  PROVE  frame'.outcome = "clarified" => FreshIntent(frame.intent)'
<1>1. frame.intent \in Nat \cup {None}
  BY DEF IInv, Types, FrameType
<1>2. frame.outcome = "clarified" => FreshIntent(frame.intent)
  BY DEF IInv, IntentInv
<1>3. FreshIntent(frame.intent)' <=> (frame'.intent # None => frame'.intent \in 1..Len(log') /\
        \A k \in Events("engine.command.committed")' : k < frame'.intent)
  BY DEF FreshIntent
<1> QED BY <1>1, <1>2, <1>3, HeardCommits DEF FreshIntent, IInv, Heard, Types

\* Nothing is in progress while no interaction is active.
LEMMA IdleFrame ==
  ASSUME IInv, activeId = None
  PROVE  frame = NoFrame
BY NoneDistinct DEF IInv, Types, FrameInv, FrameType

\* A request that is in the log is in the story.
LEMMA LoggedApplied ==
  ASSUME IInv, NEW r, Logged(r)
  PROVE  Applied(r) # {}
<1>1. PICK k \in Events("engine.command.committed") : log[k].request = r
  BY DEF Logged
<1>2. k \in 1..Len(log) /\ log[k].type = "engine.command.committed"
  BY DEF Events
<1>3. log[k].revision \in 1..Len(story) /\ story[log[k].revision] = r
  BY <1>1, <1>2 DEF IInv, LogInv
<1> QED BY <1>3 DEF Applied

\* What the coordinator stores of a turn whose operation is over.
LEMMA Settled ==
  ASSUME IInv, frame.op = "turn", NEW outcome \in Outcomes, Settle(outcome)
  PROVE  /\ frame.id \in Interactions /\ turns' \in [Interactions -> Turn]
         /\ turns[frame.id].kind = "pending" /\ turns[frame.id].outcome = "none"
         /\ turns'[frame.id].kind = "settled" /\ turns'[frame.id].outcome = outcome
         /\ turns'[frame.id].request = frame.request
         /\ turns'[frame.id].requested = frame.requested
         /\ \A i \in Interactions \ {frame.id} : turns'[i] = turns[i]
         /\ frame' = NoFrame /\ activeId' = None
         /\ \A i \in Interactions : Asked(i)' = Asked(i)
         /\ \A i \in Interactions : (turns'[i].kind # "absent") <=> (turns[i].kind # "absent")
         /\ UNCHANGED <<opening, introduction, nextRequest, preludes>>
<1>1. /\ frame.id \in Interactions /\ turns \in [Interactions -> Turn]
      /\ turns[frame.id].kind = "pending" /\ turns[frame.id].outcome = "none"
  BY DEF IInv, Types, FrameInv, TurnInv, TurnOK
<1>2. [kind |-> "settled", outcome |-> outcome, request |-> frame.request,
       requested |-> frame.requested] \in Turn
  BY DEF IInv, Types, FrameType, Turn
<1>3. /\ turns' \in [Interactions -> Turn]
      /\ turns'[frame.id] = [kind |-> "settled", outcome |-> outcome,
                             request |-> frame.request, requested |-> frame.requested]
      /\ \A i \in Interactions \ {frame.id} : turns'[i] = turns[i]
  BY <1>1, <1>2 DEF Settle
<1>4. /\ frame' = NoFrame /\ activeId' = None
      /\ UNCHANGED <<opening, introduction, nextRequest, preludes>>
  BY DEF Settle
<1>5. \A i \in Interactions : Asked(i)' = Asked(i)
  BY <1>1, <1>3, <1>4, NoFrameFields DEF Asked
<1> QED BY <1>1, <1>3, <1>4, <1>5

\* A turn that is over stores its outcome; it is committed if it has landed.
LEMMA TurnEnds ==
  ASSUME IInv, Heard, frame.op = "turn", frame.stage # "execute",
         NEW outcome \in Outcomes, outcome # "uncertain", (outcome = "committed") <=> Landed,
         Settle(outcome), UNCHANGED engineVars,
         intent' \in {intent, None} \/ (frame.outcome = "clarified" /\ intent' = frame.intent)
  PROVE  IInv'
<1>1. /\ frame.id \in Interactions /\ turns' \in [Interactions -> Turn]
      /\ turns[frame.id].kind = "pending" /\ turns[frame.id].outcome = "none"
      /\ turns'[frame.id].kind = "settled" /\ turns'[frame.id].outcome = outcome
      /\ turns'[frame.id].request = frame.request
      /\ turns'[frame.id].requested = frame.requested
      /\ \A i \in Interactions \ {frame.id} : turns'[i] = turns[i]
      /\ frame' = NoFrame /\ activeId' = None
      /\ \A i \in Interactions : Asked(i)' = Asked(i)
      /\ \A i \in Interactions : (turns'[i].kind # "absent") <=> (turns[i].kind # "absent")
      /\ UNCHANGED <<opening, introduction, nextRequest, preludes>>
  BY Settled
<1>2. UNCHANGED <<story, held, posted, engineBusy, engineDead>>
  BY DEF engineVars
<1>3. Types'
  BY <1>1, <1>2, NoFrameFields DEF IInv, Types, FrameType, Heard
<1>4. TurnInv'
  <2>1. frame.requested <= Len(log')
    BY DEF IInv, Types, FrameInv, FrameType, Heard
  <2>2. TurnOK(turns'[frame.id], Len(log'))
    BY <1>1, <2>1 DEF TurnOK, Outcomes
  <2> QED BY <1>1, <2>2, OtherTurns DEF TurnInv
<1>5. FrameInv'
  BY <1>1, <1>3, NoFrameFields DEF FrameInv, Types
<1>6. CountInv'
  BY <1>1, SameCount
<1>7. frame'.stage # "execute" /\ ~Landed'
  BY <1>1, NoFrameFields DEF Landed
<1>8. frame.request # None => outcome = "committed" /\ Applied(frame.request) # {}
  BY LoggedApplied DEF IInv, FrameInv, EngineInv
<1>9. AskedInv' /\ StoryInv' /\ EngineInv' /\ TruthInv'
  <2>1. ASSUME NEW i \in Interactions
        PROVE  /\ turns'[i].outcome = "uncertain" =>
                    turns[i].outcome = "uncertain" /\ ~(frame.id = i /\ Landed)
               /\ turns[i].outcome = "uncertain" =>
                    turns'[i].outcome = "uncertain" \/ held = None
               /\ (turns'[i].kind \in {"settled", "complete"}
                     /\ turns'[i].outcome # "uncertain" /\ turns'[i].request # None)
                    => ((turns'[i].outcome = "committed") <=> Applied(turns'[i].request) # {})
    <3>1. CASE i = frame.id
      BY <1>1, <1>8, <3>1
    <3>2. CASE i # frame.id
      BY <1>1, <3>2 DEF IInv, TruthInv
    <3> QED BY <3>1, <3>2
  <2> QED BY <1>1, <1>2, <1>7, <2>1, CalmStep
<1>10. IntentInv'
  BY <1>1, IntentKept, NoFrameFields DEF IntentInv
<1> QED BY <1>3, <1>4, <1>5, <1>6, <1>9, <1>10 DEF IInv, Heard

\* A turn at the guide or about to be executed goes on without a request.
LEMMA TurnGoesOn ==
  ASSUME IInv, Heard, frame.op = "turn", frame.stage = "guide", frame' \in FrameType,
         frame'.op = "turn" /\ frame'.id = frame.id /\ frame'.request = frame.request,
         frame'.requested = frame.requested /\ frame'.cause <= Len(log'),
         \/ frame'.stage = "inspect" /\ frame'.outcome = "none"
         \/ frame'.stage = "narrate" /\ frame'.outcome \notin {"none", "uncertain", "committed"},
         frame'.outcome = "clarified" => FreshIntent(frame.intent)',
         UNCHANGED engineVars,
         UNCHANGED <<turns, activeId, opening, introduction, nextRequest, preludes>>,
         intent' \in {intent, None}
  PROVE  IInv'
<1>1. UNCHANGED <<story, held, posted, engineBusy, engineDead>>
  BY DEF engineVars
<1>2. Types'
  BY <1>1 DEF IInv, Types, Heard
<1>3. TurnInv'
  BY OtherTurns DEF TurnInv
<1>4. frame.id \in Interactions /\ frame.request = None
  BY DEF IInv, FrameInv, Landed
<1>5. frame'.stage # "execute" /\ ~Landed' /\ ~Landed
  BY DEF Landed
<1>6. FrameInv'
  <2>1. frame.requested <= Len(log')
    BY DEF IInv, Types, FrameInv, FrameType, Heard
  <2> QED BY <1>4, <1>5, <2>1 DEF IInv, FrameInv
<1>7. \A i \in Interactions : Asked(i)' = Asked(i)
  BY DEF Asked
<1>8. CountInv'
  BY <1>7, SameCount
<1>9. AskedInv' /\ StoryInv' /\ EngineInv' /\ TruthInv'
  <2>1. \A i \in Interactions :
          (turns[i].kind \in {"settled", "complete"} /\ turns[i].outcome # "uncertain"
             /\ turns[i].request # None)
            => ((turns[i].outcome = "committed") <=> Applied(turns[i].request) # {})
    BY DEF IInv, TruthInv
  <2> QED BY <1>1, <1>5, <1>7, <2>1, CalmStep
<1>10. IntentInv'
  BY IntentKept DEF IntentInv
<1> QED BY <1>2, <1>3, <1>6, <1>8, <1>9, <1>10 DEF IInv, Heard

-----------------------------------------------------------------------------
(* Each action preserves the invariant.  First, turns up to the engine.    *)

\* A new interaction is stored where there is room, with nothing else in progress.
LEMMA SubmitTurnPreserves ==
  ASSUME IInv, NEW i \in Interactions, SubmitTurn(i)
  PROVE  IInv'
<1> USE NoneDistinct
<1>1. /\ turns[i].kind = "absent" /\ frame = NoFrame /\ activeId' = i
      /\ frame' = Frame("turn", i, "guide", Len(log) + 1)
      /\ UNCHANGED <<opening, introduction, intent, nextRequest, preludes>>
      /\ UNCHANGED <<story, held, posted, engineBusy, engineDead>>
  BY IdleFrame DEF SubmitTurn, Idle, Place, engineVars
<1>2. Len(log) \in Nat
  BY DEF IInv, Types
<1>3. Heard /\ Len(log') = Len(log) + 1
  <2>1. /\ i \in Ids /\ 0 \in Nat /\ 0 <= Len(log) /\ None \in Request \cup {None}
        /\ <<"transcript.final">> \in Seq(EventTypes \ Loud) /\ Len(<<"transcript.final">>) = 1
    BY <1>2 DEF Ids, EventTypes, Loud
  <2> QED BY <1>1, <2>1, Tells DEF SubmitTurn
<1>4. /\ turns' \in [Interactions -> Turn] /\ turns'[i].kind = "pending"
      /\ turns'[i].request = None /\ turns'[i].outcome = "none"
      /\ turns'[i].requested = turns[i].requested /\ turns[i].request = None
      /\ turns[i].outcome = "none"
      /\ \A j \in Interactions \ {i} : turns'[j] = turns[j]
  BY <1>1 DEF SubmitTurn, IInv, Types, Turn, TurnInv, TurnOK
<1>5. /\ frame' \in FrameType /\ frame'.op = "turn" /\ frame'.id = i
      /\ frame'.stage = "guide" /\ frame'.cause = Len(log) + 1
      /\ frame'.request = None /\ frame'.requested = 0 /\ frame'.outcome = "none"
  <2>1. i \in Ids \cup {None} /\ Len(log) + 1 \in Nat
    BY <1>2 DEF Ids
  <2> QED BY <1>1, <2>1, FrameFields
<1>6. Types'
  BY <1>1, <1>3, <1>4, <1>5 DEF IInv, Types, Heard
<1>7. TurnInv'
  <2>1. TurnOK(turns'[i], Len(log'))
    BY <1>4, OtherTurns, <1>3 DEF TurnOK
  <2> QED BY <1>3, <1>4, <2>1, OtherTurns DEF TurnInv
<1>8. FrameInv'
  BY <1>1, <1>2, <1>3, <1>4, <1>5 DEF FrameInv, Landed
<1>9. \A j \in Interactions : Asked(j)' = Asked(j)
  BY <1>1, <1>4, <1>5, NoFrameFields DEF Asked
<1>10. CountInv'
  <2>1. Cardinality(Stored) < MaxTurns
    BY DEF SubmitTurn
  <2> QED BY <1>1, <1>4, <1>9, <2>1, MoreCount
<1>11. AskedInv' /\ StoryInv' /\ EngineInv' /\ TruthInv'
  <2>1. frame.stage # "execute" /\ frame'.stage # "execute" /\ ~Landed' /\ ~Landed
    BY <1>1, <1>5, NoFrameFields DEF Landed
  <2>2. \A j \in Interactions :
          /\ turns'[j].outcome = turns[j].outcome
          /\ (turns'[j].kind \in {"settled", "complete"} /\ turns'[j].outcome # "uncertain"
                /\ turns'[j].request # None)
               => ((turns'[j].outcome = "committed") <=> Applied(turns'[j].request) # {})
    BY <1>4 DEF IInv, TruthInv
  <2> QED BY <1>1, <1>3, <1>9, <2>1, <2>2, CalmStep
<1>12. IntentInv'
  BY <1>1, <1>3, <1>5, IntentKept DEF IntentInv
<1> QED BY <1>3, <1>6, <1>7, <1>8, <1>10, <1>11, <1>12 DEF IInv, Heard

\* The operation's identity is one that events may carry.
LEMMA FrameId ==
  ASSUME IInv, frame.op \in {"turn", "recover", "opening", "introduction"}
  PROVE  frame.id \in Ids
BY DEF IInv, FrameInv, Ids

\* The guide fails or the player has cancelled.
LEMMA GuideFailsPreserves ==
  ASSUME IInv, GuideFails
  PROVE  IInv'
<1>1. frame.op = "turn" /\ frame.stage = "guide" /\ ~Landed /\ UNCHANGED engineVars
  BY DEF GuideFails, At, Landed
<1>2. PICK outcome \in {"cancelled", "failed"} : Settle(outcome)
  BY DEF GuideFails
<1>3. Heard
  <2>1. <<"system.error">> \in Seq(EventTypes \ Loud)
    BY DEF EventTypes, Loud
  <2>2. opening' = opening /\ story' = story
    BY <1>1, <1>2 DEF Settle, engineVars
  <2> QED BY <1>1, <2>1, <2>2, FrameId, SaysTells DEF GuideFails
<1>4. intent' = intent
  BY DEF GuideFails
<1>5. outcome \in Outcomes /\ outcome \notin {"uncertain", "committed"}
  BY DEF Outcomes
<1> QED BY <1>1, <1>2, <1>3, <1>4, <1>5, TurnEnds

\* The narration of an answer of the guide, which has no request.
LEMMA NarratePreserves ==
  ASSUME IInv, At("turn", "guide"), NEW types \in Seq(EventTypes \ Loud),
         NEW outcome \in Outcomes, outcome \notin {"uncertain", "committed"},
         NEW nextIntent \in Nat \cup {None}, Narrate(types, outcome, nextIntent),
         outcome = "clarified" =>
           nextIntent = None \/ nextIntent \in (Len(log) + 1)..(Len(log) + Len(types)),
         intent' \in {intent, None}, UNCHANGED engineVars
  PROVE  IInv'
<1>1. /\ frame.op = "turn" /\ frame.stage = "guide"
      /\ UNCHANGED <<turns, activeId, opening, introduction, nextRequest, preludes>>
      /\ Says(Append(types, "narration.requested"))
      /\ frame' = [frame EXCEPT !.stage = "narrate", !.outcome = outcome,
                                !.cause = Len(log) + (Len(types) + 1), !.intent = nextIntent]
  BY DEF At, Narrate, Place
<1>2. Len(log) \in Nat /\ Len(types) \in Nat
  BY DEF IInv, Types
<1>3. Heard /\ Len(log') = Len(log) + (Len(types) + 1)
  <2>1. /\ Append(types, "narration.requested") \in Seq(EventTypes \ Loud)
        /\ Len(Append(types, "narration.requested")) = Len(types) + 1
    BY DEF EventTypes, Loud
  <2>2. story' = story
    BY DEF engineVars
  <2> QED BY <1>1, <2>1, <2>2, FrameId, SaysTells
<1>4. /\ frame' \in FrameType
      /\ frame'.op = "turn" /\ frame'.id = frame.id /\ frame'.request = frame.request
      /\ frame'.requested = frame.requested /\ frame'.cause = Len(log) + (Len(types) + 1)
      /\ frame'.stage = "narrate" /\ frame'.outcome = outcome /\ frame'.intent = nextIntent
  <2>1. frame \in FrameType /\ Len(log) + (Len(types) + 1) \in Nat
    BY <1>2 DEF IInv, Types
  <2>2. frame' = [frame EXCEPT !.stage = "narrate", !.outcome = outcome,
                               !.cause = Len(log) + (Len(types) + 1), !.intent = nextIntent]
    BY <1>1
  <2>3. /\ frame' \in FrameType
        /\ frame'.op = frame.op /\ frame'.id = frame.id /\ frame'.request = frame.request
        /\ frame'.requested = frame.requested /\ frame'.revision = frame.revision
        /\ frame'.stage = "narrate" /\ frame'.cause = Len(log) + (Len(types) + 1)
        /\ frame'.outcome = outcome /\ frame'.intent = nextIntent
    BY <2>1, <2>2, NarrateFields
  <2> QED BY <1>1, <2>3
<1>5. frame'.outcome = "clarified" => FreshIntent(frame.intent)'
  <2>1. Events("engine.command.committed")' = Events("engine.command.committed")
    BY <1>3, HeardCommits DEF IInv
  <2>2. \A k \in Events("engine.command.committed") : k \in 1..Len(log)
    BY DEF Events
  <2> QED BY <1>2, <1>3, <1>4, <2>1, <2>2 DEF FreshIntent
<1>6. frame'.outcome \notin {"none", "uncertain", "committed"}
  BY <1>4 DEF Outcomes
<1>7. frame'.cause <= Len(log')
  BY <1>2, <1>3, <1>4
<1> QED BY <1>1, <1>3, <1>4, <1>5, <1>6, <1>7, TurnGoesOn

\* A decision that is rejected is said to be.
LEMMA GuideRejectsPreserves ==
  ASSUME IInv, NEW outcome \in {"rejected", "failed"}, GuideRejects(outcome)
  PROVE  IInv'
<1> DEFINE types == <<"guide.decision.proposed", "guide.decision.rejected", "guide.cannot_comply">>
<1>1. types \in Seq(EventTypes \ Loud)
  BY DEF EventTypes, Loud
<1>2. outcome \in Outcomes /\ outcome \notin {"uncertain", "committed", "clarified"}
  BY DEF Outcomes
<1>3. intent \in Nat \cup {None}
  BY DEF IInv, Types
<1>4. At("turn", "guide") /\ Narrate(types, outcome, intent) /\ intent' = intent /\ UNCHANGED engineVars
  BY DEF GuideRejects
<1> HIDE DEF types
<1> QED BY <1>1, <1>2, <1>3, <1>4, NarratePreserves

\* A clarification is asked after every commit there is.
LEMMA GuideClarifiesPreserves ==
  ASSUME IInv, NEW remembers \in BOOLEAN, GuideClarifies(remembers)
  PROVE  IInv'
<1> DEFINE types == <<"guide.decision.proposed", "guide.decision.accepted", "guide.clarification">>
<1> DEFINE n == IF remembers THEN Len(log) + 3 ELSE None
<1>1. types \in Seq(EventTypes \ Loud) /\ Len(types) = 3
  BY DEF EventTypes, Loud
<1>2. "clarified" \in Outcomes
  BY DEF Outcomes
<1>3. n \in Nat \cup {None} /\ (n = None \/ n \in (Len(log) + 1)..(Len(log) + 3))
  BY DEF IInv, Types
<1>4. At("turn", "guide") /\ Narrate(types, "clarified", n) /\ intent' = intent /\ UNCHANGED engineVars
  BY DEF GuideClarifies, Place
<1> HIDE DEF types, n
<1> QED BY <1>1, <1>2, <1>3, <1>4, NarratePreserves

\* An explanation ends the pending clarification.
LEMMA GuideExplainsPreserves ==
  ASSUME IInv, GuideExplains
  PROVE  IInv'
<1> DEFINE types == <<"guide.decision.proposed", "guide.decision.accepted", "guide.explanation">>
<1>1. types \in Seq(EventTypes \ Loud)
  BY DEF EventTypes, Loud
<1>2. "explained" \in Outcomes
  BY DEF Outcomes
<1>3. At("turn", "guide") /\ Narrate(types, "explained", None) /\ intent' = None /\ UNCHANGED engineVars
  BY DEF GuideExplains
<1> HIDE DEF types
<1> QED BY <1>1, <1>2, <1>3, NarratePreserves

\* A command is on its way to the engine, or the player has cancelled it.
LEMMA GuideExecutesPreserves ==
  ASSUME IInv, GuideExecutes
  PROVE  IInv'
<1>1. /\ frame.op = "turn" /\ frame.stage = "guide" /\ ~Landed /\ UNCHANGED engineVars
      /\ intent' = intent /\ story' = story
  BY DEF GuideExecutes, At, Landed, engineVars
<1>2. CASE /\ Says(<<"guide.decision.proposed", "guide.decision.accepted", "system.error">>)
           /\ Settle("cancelled")
  <2>1. /\ <<"guide.decision.proposed", "guide.decision.accepted", "system.error">>
             \in Seq(EventTypes \ Loud)
        /\ "cancelled" \in Outcomes
    BY DEF EventTypes, Loud, Outcomes
  <2>2. opening' = opening
    BY <1>2 DEF Settle
  <2>3. Heard
    BY <1>1, <1>2, <2>1, <2>2, FrameId, SaysTells
  <2> QED BY <1>1, <1>2, <2>1, <2>3, TurnEnds
<1>3. CASE /\ Says(<<"guide.decision.proposed", "guide.decision.accepted">>)
           /\ frame' = [frame EXCEPT !.stage = "inspect", !.cause = Place(2)]
           /\ UNCHANGED <<turns, activeId, opening, introduction, nextRequest, preludes>>
  <2>1. /\ <<"guide.decision.proposed", "guide.decision.accepted">> \in Seq(EventTypes \ Loud)
        /\ Len(<<"guide.decision.proposed", "guide.decision.accepted">>) = 2
    BY DEF EventTypes, Loud
  <2>2. Heard /\ Len(log') = Len(log) + 2
    BY <1>1, <1>3, <2>1, FrameId, SaysTells
  <2>3. Len(log) \in Nat
    BY DEF IInv, Types
  <2>4. /\ frame' \in FrameType /\ frame'.stage = "inspect" /\ frame'.cause = Len(log) + 2
        /\ frame'.op = "turn" /\ frame'.id = frame.id /\ frame'.request = frame.request
        /\ frame'.requested = frame.requested
        /\ frame'.outcome = frame.outcome /\ frame'.intent = frame.intent
    <3>1. frame \in FrameType /\ Len(log) + 2 \in Nat
      BY <2>3 DEF IInv, Types
    <3>2. frame' = [frame EXCEPT !.stage = "inspect", !.cause = Len(log) + 2]
      BY <1>3 DEF Place
    <3>3. /\ frame' \in FrameType
          /\ frame'.op = frame.op /\ frame'.id = frame.id /\ frame'.request = frame.request
          /\ frame'.requested = frame.requested /\ frame'.revision = frame.revision
          /\ frame'.stage = "inspect" /\ frame'.cause = Len(log) + 2
          /\ frame'.outcome = frame.outcome /\ frame'.intent = frame.intent
      BY <3>1, <3>2, StageFields
    <3> QED BY <1>1, <3>3
  <2>5. frame'.outcome = "clarified" => FreshIntent(frame.intent)'
    BY <2>2, <2>4, FrameIntentKept
  <2>6. frame'.cause <= Len(log') /\ frame'.outcome = "none"
    BY <1>1, <2>2, <2>3, <2>4 DEF IInv, FrameInv
  <2> QED BY <1>1, <1>3, <2>2, <2>4, <2>5, <2>6, TurnGoesOn
<1> QED BY <1>2, <1>3 DEF GuideExecutes

\* A turn that ends at its inspection has no request.
LEMMA InspectEndsPreserves ==
  ASSUME IInv, At("turn", "inspect"), NEW outcome \in {"cancelled", "failed"},
         Says(<<"system.error">>), Settle(outcome), UNCHANGED intent, UNCHANGED engineVars
  PROVE  IInv'
<1>1. /\ frame.op = "turn" /\ frame.stage = "inspect" /\ ~Landed
      /\ outcome \in Outcomes /\ outcome \notin {"uncertain", "committed"}
  BY DEF At, Landed, Outcomes
<1>2. Heard
  <2>1. <<"system.error">> \in Seq(EventTypes \ Loud)
    BY DEF EventTypes, Loud
  <2>2. opening' = opening /\ story' = story
    BY DEF Settle, engineVars
  <2> QED BY <1>1, <2>1, <2>2, FrameId, SaysTells
<1> QED BY <1>1, <1>2, TurnEnds

-----------------------------------------------------------------------------
(* engine.execute and the engine.                                          *)

\* An interaction with a request is stored.
LEMMA AskersStored ==
  ASSUME IInv
  PROVE  Askers \subseteq Stored
BY DEF IInv, TurnInv, TurnOK, FrameInv, Askers, Asked, Stored, Types, Turn

\* There is an identity left for a turn that has made no request.
LEMMA RoomForRequest ==
  ASSUME IInv, NEW j \in Interactions, Asked(j) = None, turns[j].kind # "absent"
  PROVE  /\ nextRequest \in 1..MaxRequests /\ IsFiniteSet(Askers)
         /\ Cardinality(Askers) \in Nat /\ Len(story) \in 0..MaxRequests
<1>1. IsFiniteSet(Stored) /\ Cardinality(Stored) <= MaxTurns
      /\ nextRequest = Cardinality(Askers) + 1
  BY DEF IInv, CountInv
<1>2. j \in Stored /\ Askers \subseteq Stored \ {j}
  BY AskersStored DEF Stored, Askers
<1>3. IsFiniteSet(Stored \ {j}) /\ Cardinality(Stored \ {j}) = Cardinality(Stored) - 1
  BY <1>1, <1>2, FS_RemoveElement
<1>4. IsFiniteSet(Askers) /\ Cardinality(Askers) <= Cardinality(Stored \ {j})
  BY <1>2, <1>3, FS_Subset
<1>5. Cardinality(Askers) \in Nat /\ Cardinality(Stored) \in Nat
  BY <1>1, <1>4, FS_CardinalityType
<1>6. MaxTurns \in Nat /\ MaxRequests \in Nat /\ MaxTurns <= MaxRequests
  BY CoordinatorConstants DEF CoordinatorConstants
<1>7. nextRequest \in 1..MaxRequests
  BY <1>1, <1>3, <1>4, <1>5, <1>6
<1>8. Len(story) < nextRequest
  <2>1. story \in Seq(Request) /\ Len(story) \in Nat
    BY DEF IInv, Types
  <2>2. CASE Len(story) = 0
    BY <1>7, <2>2
  <2>3. CASE Len(story) # 0
    <3>1. Len(story) \in 1..Len(story) /\ story[Len(story)] \in Request
      BY <2>1, <2>3
    <3>2. PICK i \in Interactions : story[Len(story)] = Asked(i)
      BY <3>1 DEF IInv, StoryInv
    <3>3. story[Len(story)].requestId >= Len(story)
      BY <3>1 DEF IInv, StoryInv
    <3>4. Asked(i) # None
      BY <3>1, <3>2, NoneDistinct
    <3>5. Asked(i).requestId < nextRequest
      BY <3>4 DEF IInv, AskedInv
    <3>6. story[Len(story)].requestId \in Nat
      BY <3>1 DEF Request
    <3> QED BY <1>7, <2>1, <3>2, <3>3, <3>5, <3>6
  <2> QED BY <2>2, <2>3
<1>9. Len(story) \in Nat
  BY DEF IInv, Types
<1> QED BY <1>4, <1>5, <1>6, <1>7, <1>8, <1>9

\* What is asked is a request with a known identity.
LEMMA AskedKnown ==
  ASSUME IInv, NEW i \in Interactions, Asked(i) # None
  PROVE  /\ Asked(i) \in Request /\ Asked(i).requestId < nextRequest
         /\ Asked(i).requestId \in Nat /\ Asked(i).expectedRevision \in Nat
         /\ Asked(i).expectedRevision <= Len(story)
<1>1. Asked(i) \in Request
  BY DEF IInv, Types, Turn, FrameType, Asked
<1>2. Asked(i).requestId < nextRequest /\ Asked(i).expectedRevision <= Len(story)
  BY DEF IInv, AskedInv
<1>3. Asked(i).requestId \in Nat /\ Asked(i).expectedRevision \in Nat
  BY <1>1, CoordinatorConstants DEF Request, Revisions, CoordinatorConstants
<1> QED BY <1>1, <1>2, <1>3

\* Who executes: a turn or a recovery, with its own request, which is not logged.
LEMMA Executing ==
  ASSUME IInv, frame.stage = "execute"
  PROVE  /\ frame.op \in {"turn", "recover"} /\ frame.id \in Interactions
         /\ frame.request \in Request /\ Asked(frame.id) = frame.request
         /\ ~Landed /\ Waiting(frame.id) /\ ~Logged(frame.request)
         /\ frame.id \in Ids
<1>1. frame.op \in {"turn", "recover"} /\ frame.id \in Interactions
  BY NoFrameFields DEF IInv, Types, FrameType, FrameInv
<1>2. Asked(frame.id) = frame.request /\ frame.request # None
  BY <1>1 DEF IInv, FrameInv, Asked, TurnInv, TurnOK
<1>3. ~Landed /\ Waiting(frame.id)
  BY DEF Landed, Waiting
<1>4. ~Logged(Asked(frame.id))
  BY <1>1, <1>3 DEF IInv, TruthInv
<1> QED BY <1>1, <1>2, <1>3, <1>4 DEF IInv, Types, FrameType, Ids

\* The request is made at the revision the engine is at, with a new identity.
LEMMA RequestCommandPreserves ==
  ASSUME IInv, RequestCommand
  PROVE  IInv'
<1> USE NoneDistinct
<1> PICK r : r = [requestId |-> nextRequest, expectedRevision |-> Len(story)]
  OBVIOUS
<1> PICK j : j = frame.id
  OBVIOUS
<1>1. /\ frame.op = "turn" /\ frame.stage = "inspect" /\ ~engineBusy /\ posted = None
      /\ nextRequest' = nextRequest + 1
      /\ Emit(j, frame.cause, <<"engine.command.requested">>, r, Len(story))
      /\ frame' = [frame EXCEPT !.stage = "execute", !.cause = Len(log) + 1,
                                !.request = r, !.requested = Len(log) + 1]
      /\ posted' = IF Admits(r) /\ ~engineDead THEN r ELSE posted
      /\ UNCHANGED <<story, held, engineBusy, engineDead>>
      /\ UNCHANGED <<turns, activeId, opening, introduction, intent, preludes>>
  BY DEF RequestCommand, At, Inspectable, Place, Submits
<1>2. /\ j \in Interactions /\ turns[j].kind = "pending" /\ turns[j].outcome = "none"
      /\ turns[j].request = None /\ frame.request = None /\ Asked(j) = None /\ ~Landed
      /\ frame.outcome = "none"
  BY <1>1 DEF IInv, FrameInv, TurnInv, TurnOK, Landed, Asked
<1>3. /\ nextRequest \in 1..MaxRequests /\ IsFiniteSet(Askers) /\ Cardinality(Askers) \in Nat
      /\ Len(story) \in 0..MaxRequests
  BY <1>2, RoomForRequest
<1>4. /\ r \in Request /\ r # None /\ r.requestId = nextRequest
      /\ r.expectedRevision = Len(story)
  BY <1>3 DEF Request, Revisions
<1>5. Len(log) \in Nat /\ Len(story) \in Nat
  BY DEF IInv, Types
<1>6. Heard /\ Len(log') = Len(log) + 1
  <2>1. /\ <<"engine.command.requested">> \in Seq(EventTypes \ Loud)
        /\ Len(<<"engine.command.requested">>) = 1
    BY DEF EventTypes, Loud
  <2>2. j \in Ids /\ frame.cause \in Nat /\ frame.cause <= Len(log)
    BY <1>2 DEF IInv, Types, FrameType, FrameInv, Ids
  <2> QED BY <1>1, <1>4, <1>5, <2>1, <2>2, Tells
<1>7. /\ frame' \in FrameType /\ frame'.op = "turn" /\ frame'.id = j
      /\ frame'.stage = "execute" /\ frame'.cause = Len(log) + 1 /\ frame'.request = r
      /\ frame'.requested = Len(log) + 1 /\ frame'.outcome = "none"
  <2>1. frame \in FrameType /\ Len(log) + 1 \in Nat
    BY <1>5 DEF IInv, Types
  <2>2. frame' = [frame EXCEPT !.stage = "execute", !.cause = Len(log) + 1, !.request = r,
                               !.requested = Len(log) + 1]
    BY <1>1
  <2>3. /\ frame' \in FrameType
        /\ frame'.op = frame.op /\ frame'.id = frame.id /\ frame'.request = r
        /\ frame'.requested = Len(log) + 1 /\ frame'.revision = frame.revision
        /\ frame'.stage = "execute" /\ frame'.cause = Len(log) + 1
        /\ frame'.outcome = frame.outcome /\ frame'.intent = frame.intent
    BY <1>4, <2>1, <2>2, RequestFields
  <2> QED BY <1>1, <1>2, <2>3
<1>8. /\ Asked(j)' = r /\ \A i \in Interactions \ {j} : Asked(i)' = Asked(i)
  BY <1>1, <1>2, <1>7 DEF Asked
<1>9. Types'
  BY <1>1, <1>3, <1>4, <1>6, <1>7 DEF IInv, Types, Heard
<1>10. TurnInv'
  BY <1>1, <1>6, OtherTurns DEF TurnInv
<1>11. FrameInv' /\ ~Landed'
  <2>1. activeId' = j
    BY <1>1 DEF IInv, FrameInv
  <2> QED BY <1>1, <1>2, <1>4, <1>5, <1>6, <1>7, <2>1 DEF FrameInv, Landed
<1>12. AskedInv'
  <2>1. ASSUME NEW i \in Interactions, Asked(i)' # None
        PROVE  Asked(i)'.requestId < nextRequest + 1 /\ Asked(i)'.expectedRevision <= Len(story)
    <3>1. CASE i = j
      BY <1>3, <1>4, <1>5, <1>8, <3>1
    <3>2. CASE i # j
      <4>1. Asked(i) # None /\ Asked(i)' = Asked(i)
        BY <1>8, <2>1, <3>2
      <4> QED BY <1>3, <1>5, <4>1, AskedKnown
    <3> QED BY <3>1, <3>2
  <2>2. ASSUME NEW i \in Interactions, NEW k \in Interactions, Asked(i)' # None, Asked(k)' # None
        PROVE  /\ Asked(i)'.requestId = Asked(k)'.requestId => i = k
               /\ Asked(i)'.expectedRevision < Asked(k)'.expectedRevision =>
                    Asked(i)'.requestId < Asked(k)'.requestId
    <3>1. CASE i = j /\ k = j
      BY <1>4, <1>5, <1>8, <3>1
    <3>2. CASE i = j /\ k # j
      <4>1. Asked(k) # None /\ Asked(k)' = Asked(k)
        BY <1>8, <2>2, <3>2
      <4> QED BY <1>3, <1>4, <1>5, <1>8, <3>2, <4>1, AskedKnown
    <3>3. CASE i # j /\ k = j
      <4>1. Asked(i) # None /\ Asked(i)' = Asked(i)
        BY <1>8, <2>2, <3>3
      <4> QED BY <1>3, <1>4, <1>5, <1>8, <3>3, <4>1, AskedKnown
    <3>4. CASE i # j /\ k # j
      BY <1>8, <2>2, <3>4 DEF IInv, AskedInv
    <3> QED BY <3>1, <3>2, <3>3, <3>4
  <2> HIDE DEF Asked
  <2> QED BY <1>1, <2>1, <2>2 DEF AskedInv
<1>13. CountInv'
  <2>1. Askers' = Askers \cup {j} /\ j \notin Askers
    BY <1>2, <1>4, <1>8 DEF Askers
  <2>2. Cardinality(Askers') = Cardinality(Askers) + 1
    BY <1>3, <2>1, FS_AddElement
  <2>3. Stored' = Stored
    BY <1>1 DEF Stored
  <2> QED BY <1>1, <1>3, <2>2, <2>3 DEF IInv, CountInv
<1>14. StoryInv'
  <2>1. ASSUME NEW n \in 1..Len(story)
        PROVE  \E i \in Interactions : story[n] = Asked(i)'
    <3>1. PICK i \in Interactions : story[n] = Asked(i)
      BY <2>1 DEF IInv, StoryInv
    <3>2. story[n] \in Request
      BY DEF IInv, Types
    <3> QED BY <1>2, <1>8, <3>1, <3>2
  <2> QED BY <1>1, <2>1 DEF IInv, StoryInv
<1>15. \A x : (Logged(x)' <=> Logged(x)) /\ Applied(x)' = Applied(x)
  <2>1. \A x : Logged(x)' <=> Logged(x)
    BY <1>6, HeardCommits DEF IInv
  <2>2. \A x : Applied(x)' = Applied(x)
    BY <1>1 DEF Applied
  <2> QED BY <2>1, <2>2
<1>16. held # r /\ ~Logged(r)
  <2>1. \A i \in Interactions : Asked(i) # r
    BY <1>3, <1>4, AskedKnown
  <2>2. held # r
    BY <1>4, <2>1 DEF IInv, EngineInv
  <2>3. ~Logged(r)
    <3>1. SUFFICES ASSUME Logged(r) PROVE FALSE
      OBVIOUS
    <3>2. PICK n \in 1..Len(story) : story[n] = r
      BY <3>1, LoggedApplied DEF Applied
    <3> QED BY <2>1, <3>2 DEF IInv, StoryInv
  <2> QED BY <2>2, <2>3
<1>17. EngineInv'
  <2>1. \A x : held = x => Pursued(x)'
    BY <1>1 DEF Pursued
  <2>2. \A x : Pursued(x) => held = x
    BY <1>1 DEF Pursued
  <2>3. posted' = r => Pursued(r)'
    BY <1>1, <1>4, <1>7 DEF Pursued, Admits
  <2>4. posted' = IF held = None /\ ~engineDead THEN r ELSE None
    BY <1>1, <1>16 DEF Admits
  <2>5. \A n \in 1..Len(story) :
          \/ Logged(story[n])'
          \/ n = Len(story) /\ posted' = None /\ Pursued(story[n])'
    <3>1. ASSUME NEW n \in 1..Len(story), ~Logged(story[n])
          PROVE  n = Len(story) /\ posted' = None /\ Pursued(story[n])'
      <4>1. n = Len(story) /\ held = story[n]
        BY <2>2, <3>1 DEF IInv, EngineInv
      <4>2. held # None
        BY <4>1 DEF IInv, Types
      <4> QED BY <1>1, <2>1, <2>4, <4>1, <4>2
    <3> QED BY <1>1, <1>15, <3>1
  <2>6. posted' # None => Pursued(posted)'
    BY <1>1, <2>3, <2>4, <1>4, <1>7, <1>16 DEF Pursued, Admits
  <2>7. held # None => \E i \in Interactions : Asked(i)' = held /\ Waiting(i)'
    <3>1. SUFFICES ASSUME held # None PROVE \E i \in Interactions : Asked(i)' = held /\ Waiting(i)'
      OBVIOUS
    <3>2. PICK i \in Interactions : Asked(i) = held /\ Waiting(i)
      BY <3>1 DEF IInv, EngineInv
    <3>3. i # j /\ Waiting(i)'
      BY <1>1, <1>2, <3>1, <3>2 DEF Waiting
    <3> QED BY <1>8, <3>2, <3>3
  <2> QED BY <1>1, <1>11, <2>5, <2>6, <2>7 DEF EngineInv
<1>18. TruthInv'
  <2>1. ASSUME NEW i \in Interactions, Waiting(i)'
        PROVE  ~Logged(Asked(i))'
    <3>1. CASE i = j
      BY <1>8, <1>15, <1>16, <3>1
    <3>2. CASE i # j
      <4>1. Waiting(i) /\ Asked(i)' = Asked(i)
        BY <1>1, <1>7, <1>8, <2>1, <3>2 DEF Waiting
      <4>2. ~Logged(Asked(i))
        BY <1>2, <4>1 DEF IInv, TruthInv
      <4> QED BY <1>15, <4>1, <4>2
    <3> QED BY <3>1, <3>2
  <2> QED BY <1>1, <1>15, <2>1 DEF IInv, TruthInv
<1>19. IntentInv'
  BY <1>1, <1>6, <1>7, IntentKept DEF IntentInv
<1> QED BY <1>6, <1>9, <1>10, <1>11, <1>12, <1>13, <1>14, <1>17, <1>18, <1>19 DEF IInv, Heard

\* An execute that is given up: its request is held if it was admitted, and its
\* interaction is uncertain.
LEMMA ExecuteGivenUp ==
  ASSUME IInv, Heard, UNCHANGED <<nextRequest, story, posted, engineBusy>>,
         frame.stage = "execute", frame' = NoFrame,
         held' = IF Admits(frame.request) THEN frame.request ELSE held,
         \A i \in Interactions :
           /\ Asked(i)' = Asked(i)
           /\ turns'[i].outcome = IF i = frame.id THEN "uncertain" ELSE turns[i].outcome
           /\ i # frame.id => turns'[i] = turns[i]
  PROVE  AskedInv' /\ StoryInv' /\ EngineInv' /\ TruthInv'
<1>1. AskedInv' /\ StoryInv'
  BY SameAsked
<1>2. /\ frame.id \in Interactions /\ frame.request \in Request
      /\ Asked(frame.id) = frame.request /\ ~Landed /\ ~Logged(frame.request)
  BY Executing
<1>3. \A r : (Logged(r)' <=> Logged(r)) /\ Applied(r)' = Applied(r)
  <2>1. \A r : Logged(r)' <=> Logged(r)
    BY HeardCommits DEF IInv
  <2>2. \A r : Applied(r)' = Applied(r)
    BY DEF Applied
  <2> QED BY <2>1, <2>2
<1>4. ~Landed' /\ \A r : Pursued(r)' <=> held' = r
  BY NoFrameFields DEF Landed, Pursued
<1>5. \A i \in Interactions : Waiting(i)' <=> Waiting(i)
  <2>1. \A i \in Interactions : Waiting(i)' <=> turns'[i].outcome = "uncertain"
    BY NoFrameFields, NoneDistinct DEF Waiting
  <2> QED BY <2>1 DEF Waiting
<1>6. \A r \in Request : Pursued(r) => held' = r
  BY <1>2, NoneDistinct DEF Pursued, Admits
<1>7. EngineInv'
  <2>1. \A n \in 1..Len(story) : story[n] \in Request
    BY DEF IInv, Types
  <2>2. \A n \in 1..Len(story) :
          \/ Logged(story[n])'
          \/ n = Len(story) /\ posted \in {None, story[n]} /\ Pursued(story[n])'
    BY <1>3, <1>4, <1>6, <2>1 DEF IInv, EngineInv
  <2>3. posted # None => Pursued(posted)'
    BY <1>4, <1>6 DEF IInv, EngineInv, Types
  <2>4. held' # None => \E i \in Interactions : Asked(i)' = held' /\ Waiting(i)'
    <3>1. CASE held' = frame.request
      BY <1>2, <1>5, <3>1 DEF Waiting
    <3>2. CASE held' = held
      BY <1>5, <3>2 DEF IInv, EngineInv
    <3> QED BY <3>1, <3>2
  <2> QED BY <1>4, <2>2, <2>3, <2>4 DEF EngineInv
<1>8. TruthInv'
  <2>1. ASSUME NEW i \in Interactions, Waiting(i)'
        PROVE  ~Logged(Asked(i))'
    <3>1. ~Logged(Asked(i)) /\ Asked(i)' = Asked(i)
      BY <1>2, <1>5, <2>1 DEF IInv, TruthInv
    <3> QED BY <1>3, <3>1
  <2>2. ASSUME NEW i \in Interactions, turns'[i].outcome # "uncertain"
        PROVE  turns'[i] = turns[i]
    BY <2>2
  <2> QED BY <1>3, <2>1, <2>2 DEF IInv, TruthInv
<1> QED BY <1>1, <1>7, <1>8

\* A turn whose execute is lost is uncertain.
LEMMA ExecuteLostPreserves ==
  ASSUME IInv, ExecuteLost
  PROVE  IInv'
<1>1. /\ frame.op = "turn" /\ frame.stage = "execute" /\ Settle("uncertain")
      /\ UNCHANGED <<story, posted, engineBusy, engineDead>> /\ intent' = intent
      /\ held' = IF Admits(frame.request) THEN frame.request ELSE held
      /\ "uncertain" \in Outcomes
  BY DEF ExecuteLost, At, Outcomes
<1>2. /\ frame.id \in Interactions /\ turns' \in [Interactions -> Turn]
      /\ turns'[frame.id].kind = "settled" /\ turns'[frame.id].outcome = "uncertain"
      /\ turns'[frame.id].request = frame.request
      /\ turns'[frame.id].requested = frame.requested
      /\ \A i \in Interactions \ {frame.id} : turns'[i] = turns[i]
      /\ frame' = NoFrame /\ activeId' = None
      /\ \A i \in Interactions : Asked(i)' = Asked(i)
      /\ \A i \in Interactions : (turns'[i].kind # "absent") <=> (turns[i].kind # "absent")
      /\ UNCHANGED <<opening, introduction, nextRequest, preludes>>
  BY <1>1, Settled
<1>3. frame.request \in Request /\ frame.id \in Ids
  BY <1>1, Executing
<1>4. Heard
  <2>1. <<"system.error">> \in Seq(EventTypes \ Loud)
    BY DEF EventTypes, Loud
  <2> QED BY <1>1, <1>2, <1>3, <2>1, SaysTells DEF ExecuteLost
<1>5. Types'
  BY <1>1, <1>2, <1>3, <1>4, NoFrameFields DEF IInv, Types, Heard
<1>6. TurnInv'
  <2>1. frame.requested <= Len(log')
    BY <1>4 DEF IInv, Types, FrameInv, FrameType, Heard
  <2>2. TurnOK(turns'[frame.id], Len(log'))
    BY <1>2, <1>3, <2>1, NoneDistinct DEF TurnOK
  <2> QED BY <1>2, <1>4, <2>2, OtherTurns DEF TurnInv
<1>7. FrameInv'
  BY <1>2, <1>5, NoFrameFields DEF FrameInv, Types
<1>8. CountInv'
  BY <1>2, SameCount
<1>9. AskedInv' /\ StoryInv' /\ EngineInv' /\ TruthInv'
  BY <1>1, <1>2, <1>4, ExecuteGivenUp
<1>10. IntentInv'
  BY <1>1, <1>2, <1>4, IntentKept, NoFrameFields DEF IntentInv
<1> QED BY <1>4, <1>5, <1>6, <1>7, <1>8, <1>9, <1>10 DEF IInv, Heard

\* A recovery that is lost leaves its turn as it was.
LEMMA RecoveryLostPreserves ==
  ASSUME IInv, RecoveryLost
  PROVE  IInv'
<1>1. /\ frame.op = "recover" /\ frame.stage = "execute" /\ frame' = NoFrame
      /\ activeId' = None /\ UNCHANGED <<story, posted, engineBusy, engineDead>>
      /\ held' = IF Admits(frame.request) THEN frame.request ELSE held
      /\ UNCHANGED <<turns, opening, introduction, intent, nextRequest, preludes, log>>
  BY DEF RecoveryLost, At
<1>2. /\ frame.id \in Interactions /\ frame.request \in Request
      /\ turns[frame.id].outcome = "uncertain"
  BY <1>1, Executing DEF IInv, FrameInv, TurnInv, TurnOK
<1>3. Heard
  BY <1>1, Silence
<1>4. \A i \in Interactions : Asked(i)' = Asked(i)
  BY <1>1, NoFrameFields DEF Asked
<1>5. Types'
  BY <1>1, <1>2, <1>3, NoFrameFields DEF IInv, Types, Heard
<1>6. TurnInv'
  BY <1>1 DEF IInv, TurnInv
<1>7. FrameInv'
  BY <1>1, <1>5, NoFrameFields DEF FrameInv, Types
<1>8. CountInv'
  BY <1>1, <1>4, SameCount
<1>9. AskedInv' /\ StoryInv' /\ EngineInv' /\ TruthInv'
  BY <1>1, <1>2, <1>3, <1>4, ExecuteGivenUp
<1>10. IntentInv'
  BY <1>1, <1>3, IntentKept, NoFrameFields DEF IntentInv
<1> QED BY <1>3, <1>5, <1>6, <1>7, <1>8, <1>9, <1>10 DEF IInv, Heard

\* When the engine has answered, nothing but the request may be unknown to the log.
LEMMA AnsweredFacts ==
  ASSUME IInv, Answered
  PROVE  /\ posted = None
         /\ \A n \in 1..Len(story) :
              Logged(story[n]) \/ (n = Len(story) /\ story[n] = frame.request)
         /\ \A n \in Applied(frame.request) : n = Len(story)
<1>1. frame.stage = "execute" /\ Admits(frame.request) /\ posted = None
  BY DEF Answered
<1>2. ~Logged(frame.request)
  BY <1>1, Executing
<1>3. \A n \in 1..Len(story) : story[n] \in Request
  BY DEF IInv, Types
<1>4. \A n \in 1..Len(story) :
        Logged(story[n]) \/ (n = Len(story) /\ story[n] = frame.request)
  BY <1>1, <1>3, NoneDistinct DEF IInv, EngineInv, Pursued, Admits
<1>5. \A n \in Applied(frame.request) : n = Len(story)
  BY <1>2, <1>4 DEF Applied
<1> QED BY <1>1, <1>4, <1>5

\* A request that did not run ends its interaction, which has failed for good.
LEMMA EngineRejectedPreserves ==
  ASSUME IInv, EngineRejected
  PROVE  IInv'
<1>1. /\ frame.stage = "execute" /\ Answered /\ Applied(frame.request) = {} /\ held' = None
      /\ intent' = None /\ UNCHANGED <<story, posted, engineBusy, engineDead>>
      /\ Says(Recovered \o <<"engine.command.rejected">>)
  BY DEF EngineRejected, Answered
<1>2. /\ frame.op \in {"turn", "recover"} /\ frame.id \in Interactions
      /\ frame.request \in Request /\ Asked(frame.id) = frame.request
      /\ ~Landed /\ frame.id \in Ids
  BY <1>1, Executing
<1>3. posted = None /\ \A n \in 1..Len(story) : Logged(story[n])
  BY <1>1, AnsweredFacts DEF Applied
<1>4. /\ turns' \in [Interactions -> Turn] /\ frame' = NoFrame /\ activeId' = None
      /\ turns'[frame.id].kind \in {"settled", "complete"}
      /\ turns'[frame.id].outcome = "failed"
      /\ turns'[frame.id].request = frame.request
      /\ turns'[frame.id].requested \in {frame.requested, turns[frame.id].requested}
      /\ \A i \in Interactions \ {frame.id} : turns'[i] = turns[i]
      /\ \A i \in Interactions : Asked(i)' = Asked(i)
      /\ \A i \in Interactions : (turns'[i].kind # "absent") <=> (turns[i].kind # "absent")
      /\ UNCHANGED <<opening, introduction, nextRequest, preludes>>
  <2>1. CASE frame.op = "turn"
    <3>1. Settle("failed") /\ "failed" \in Outcomes
      BY <2>1 DEF EngineRejected, Outcomes
    <3> QED BY <2>1, <3>1, Settled
  <2>2. CASE frame.op = "recover"
    <3>1. /\ activeId' = None /\ frame' = NoFrame
          /\ turns' = [turns EXCEPT ![frame.id].kind = "complete", ![frame.id].outcome = "failed"]
          /\ UNCHANGED <<opening, introduction, nextRequest, preludes>>
      BY <2>2 DEF EngineRejected
    <3>2. turns[frame.id].request = frame.request /\ turns[frame.id].kind = "uncertain"
      BY <2>2 DEF IInv, FrameInv
    <3>3. turns \in [Interactions -> Turn]
      BY DEF IInv, Types
    <3>4. /\ turns' \in [Interactions -> Turn]
          /\ turns'[frame.id].kind = "complete" /\ turns'[frame.id].outcome = "failed"
          /\ turns'[frame.id].request = turns[frame.id].request
          /\ turns'[frame.id].requested = turns[frame.id].requested
          /\ \A i \in Interactions \ {frame.id} : turns'[i] = turns[i]
      BY <1>2, <3>1, <3>3 DEF Turn, Outcomes
    <3>5. \A i \in Interactions : Asked(i)' = Asked(i)
      BY <2>2, <3>1, <3>4, NoFrameFields DEF Asked
    <3> QED BY <3>1, <3>2, <3>4, <3>5
  <2> QED BY <1>2, <2>1, <2>2
<1>5. Heard
  <2>1. Recovered \o <<"engine.command.rejected">> \in Seq(EventTypes \ Loud)
    <3>1. Recovered \in Seq(EventTypes \ Loud)
      <4>1. <<"system.recovered">> \in Seq(EventTypes \ Loud)
        BY DEF EventTypes, Loud
      <4>2. << >> \in Seq(EventTypes \ Loud)
        OBVIOUS
      <4> QED BY <4>1, <4>2 DEF Recovered
    <3>2. <<"engine.command.rejected">> \in Seq(EventTypes \ Loud)
      BY DEF EventTypes, Loud
    <3> QED BY <3>1, <3>2
  <2> QED BY <1>1, <1>2, <1>4, <2>1, SaysTells
<1>6. Types'
  BY <1>1, <1>4, <1>5, NoFrameFields DEF IInv, Types, Heard
<1>7. TurnInv'
  <2>1. turns'[frame.id].requested <= Len(log')
    BY <1>2, <1>4, <1>5, OtherTurns DEF IInv, Types, FrameInv, FrameType, Heard, TurnOK
  <2>2. TurnOK(turns'[frame.id], Len(log'))
    BY <1>4, <2>1 DEF TurnOK
  <2> QED BY <1>4, <1>5, <2>2, OtherTurns DEF TurnInv
<1>8. FrameInv'
  BY <1>4, <1>6, NoFrameFields DEF FrameInv, Types
<1>9. CountInv'
  BY <1>4, SameCount
<1>10. AskedInv' /\ StoryInv'
  BY <1>1, <1>4, SameAsked
<1>11. \A r : (Logged(r)' <=> Logged(r)) /\ Applied(r)' = Applied(r)
  <2>1. \A r : Logged(r)' <=> Logged(r)
    BY <1>5, HeardCommits DEF IInv
  <2>2. \A r : Applied(r)' = Applied(r)
    BY <1>1 DEF Applied
  <2> QED BY <2>1, <2>2
<1>12. EngineInv'
  <2>1. ~Landed' /\ posted' = None
    BY <1>1, <1>3, <1>4, NoFrameFields DEF Landed
  <2>2. \A n \in 1..Len(story) : Logged(story[n])'
    BY <1>1, <1>3, <1>11
  <2> QED BY <1>1, <2>1, <2>2 DEF EngineInv
<1>13. TruthInv'
  <2>1. ASSUME NEW i \in Interactions, Waiting(i)'
        PROVE  ~Logged(Asked(i))'
    <3>1. i # frame.id /\ turns[i].outcome = "uncertain" /\ Asked(i)' = Asked(i)
      BY <1>4, <2>1, NoFrameFields, NoneDistinct DEF Waiting
    <3>2. ~Logged(Asked(i))
      BY <1>2, <3>1 DEF IInv, TruthInv, Waiting
    <3> QED BY <1>11, <3>1, <3>2
  <2>2. ASSUME NEW i \in Interactions, turns'[i].kind \in {"settled", "complete"},
               turns'[i].outcome # "uncertain", turns'[i].request # None
        PROVE  (turns'[i].outcome = "committed") <=> Applied(turns'[i].request) # {}
    <3>1. CASE i = frame.id
      BY <1>1, <1>4, <3>1
    <3>2. CASE i # frame.id
      BY <1>4, <2>2, <3>2 DEF IInv, TruthInv
    <3> QED BY <3>1, <3>2
  <2> QED BY <1>11, <2>1, <2>2 DEF TruthInv
<1>14. IntentInv'
  BY <1>1, <1>4, NoFrameFields DEF IntentInv, FreshIntent
<1> QED BY <1>5, <1>6, <1>7, <1>8, <1>9, <1>10, <1>12, <1>13, <1>14 DEF IInv, Heard

\* Event k of log l: what it is and where it comes from.
Is(l, k, type, cause, request, revision) ==
  /\ l[k].type = type /\ l[k].cause = cause
  /\ l[k].request = request /\ l[k].revision = revision

\* The events of a commit: after the recovery's, if it is one, the commit at K and
\* its output.
LEMMA CommitTold ==
  ASSUME IInv, frame.stage = "execute", NEW revision \in Nat,
         Emit(frame.id, frame.cause, Recovered \o <<"engine.command.committed", "engine.output">>,
              frame.request, revision)
  PROVE  LET K == Len(log) + Len(Recovered) + 1 IN
         /\ Len(Recovered) \in {0, 1}
         /\ log' \in Seq(Event) /\ Len(log') = K + 1
         /\ \A k \in 1..Len(log) : log'[k] = log[k]
         /\ K > Len(log) + 1 =>
              Is(log', Len(log) + 1, "system.recovered", frame.cause, frame.request, revision)
         /\ Is(log', K, "engine.command.committed",
               IF K = Len(log) + 1 THEN frame.cause ELSE K - 1, frame.request, revision)
         /\ Is(log', K + 1, "engine.output", K, frame.request, revision)
<1> DEFINE types == Recovered \o <<"engine.command.committed", "engine.output">>
<1> PICK c : c = Len(Recovered)
  OBVIOUS
<1>0. log \in Seq(Event) /\ Len(log) \in Nat
  BY DEF IInv, Types
<1>1. c \in {0, 1} /\ Recovered \in Seq(EventTypes) /\ (c = 1 => Recovered[1] = "system.recovered")
  BY DEF Recovered, EventTypes
<1>2. <<"engine.command.committed", "engine.output">> \in Seq(EventTypes)
  BY DEF EventTypes
<1>3. /\ types \in Seq(EventTypes) /\ Len(types) = c + 2
      /\ types[c + 1] = "engine.command.committed" /\ types[c + 2] = "engine.output"
      /\ c = 1 => types[1] = "system.recovered"
  <2>1. types \in Seq(EventTypes) /\ Len(types) = c + 2
    BY <1>1, <1>2
  <2>2. types[c + 1] = "engine.command.committed" /\ types[c + 2] = "engine.output"
    <3> PICK rest : rest = <<"engine.command.committed", "engine.output">>
      OBVIOUS
    <3>1. rest \in Seq(EventTypes) /\ Len(rest) = 2
      BY <1>2
    <3>2. types = Recovered \o rest
      OBVIOUS
    <3>3. types[c + 1] = rest[1] /\ types[c + 2] = rest[2]
      BY <1>1, <3>1, <3>2
    <3> QED BY <3>3
  <2>3. c = 1 => types[1] = "system.recovered"
    <3> PICK rest : rest = <<"engine.command.committed", "engine.output">>
      OBVIOUS
    <3>1. rest \in Seq(EventTypes) /\ types = Recovered \o rest
      BY <1>2
    <3>2. \A k \in 1..Len(Recovered) : types[k] = Recovered[k]
      BY <1>1, <3>1
    <3>3. c = 1 => 1 \in 1..Len(Recovered)
      OBVIOUS
    <3> QED BY <1>1, <3>2, <3>3
  <2> QED BY <2>1, <2>2, <2>3
<1>4. Appended(log', frame.id, frame.cause, types, frame.request, revision)
  <2>1. /\ frame.id \in Ids /\ frame.cause \in Nat /\ frame.cause <= Len(log)
        /\ frame.request \in Request \cup {None}
    BY Executing DEF IInv, Types, FrameType, FrameInv
  <2>2. log' = log \o Chain(frame.id, frame.cause, types, frame.request, revision)
    BY DEF Emit
  <2> HIDE DEF types
  <2>3. Appended(log \o Chain(frame.id, frame.cause, types, frame.request, revision),
                 frame.id, frame.cause, types, frame.request, revision)
    BY <1>0, <1>3, <2>1, ChainAppended
  <2> QED BY <2>2, <2>3
<1> HIDE DEF types
<1>5. ASSUME NEW k \in 1..(c + 2)
      PROVE  Is(log', Len(log) + k, types[k],
                IF k = 1 THEN frame.cause ELSE Len(log) + k - 1, frame.request, revision)
  <2> DEFINE x == IF k = 1 THEN frame.cause ELSE Len(log) + k - 1
  <2>1. log'[Len(log) + k] = [type |-> types[k], id |-> frame.id, cause |-> x,
                              request |-> frame.request, revision |-> revision]
    BY <1>3, <1>4 DEF Appended
  <2> HIDE DEF x
  <2>2. Is(log', Len(log) + k, types[k], x, frame.request, revision)
    BY <2>1 DEF Is
  <2> QED BY <2>2 DEF x
<1> DEFINE K == Len(log) + c + 1
<1>6. /\ log' \in Seq(Event) /\ Len(log') = K + 1
      /\ \A k \in 1..Len(log) : log'[k] = log[k]
  BY <1>0, <1>1, <1>3, <1>4 DEF Appended
<1>7. K > Len(log) + 1 =>
        Is(log', Len(log) + 1, "system.recovered", frame.cause, frame.request, revision)
  BY <1>0, <1>1, <1>3, <1>5
<1>8. Is(log', K, "engine.command.committed",
         IF K = Len(log) + 1 THEN frame.cause ELSE K - 1, frame.request, revision)
  <2>1. Is(log', Len(log) + (c + 1), types[c + 1],
           IF c + 1 = 1 THEN frame.cause ELSE Len(log) + (c + 1) - 1, frame.request, revision)
    BY <1>1, <1>5
  <2>2. /\ Len(log) + (c + 1) = K /\ (c + 1 = 1 <=> K = Len(log) + 1)
        /\ Len(log) + (c + 1) - 1 = K - 1
    BY <1>0, <1>1
  <2> HIDE DEF K
  <2> QED BY <1>3, <2>1, <2>2 DEF Is
<1>9. Is(log', K + 1, "engine.output", K, frame.request, revision)
  <2>1. Is(log', Len(log) + (c + 2), types[c + 2],
           IF c + 2 = 1 THEN frame.cause ELSE Len(log) + (c + 2) - 1, frame.request, revision)
    BY <1>1, <1>5
  <2>2. Len(log) + (c + 2) = K + 1 /\ c + 2 # 1 /\ Len(log) + (c + 2) - 1 = K
    BY <1>0, <1>1
  <2> HIDE DEF K
  <2> QED BY <1>3, <2>1, <2>2 DEF Is
<1> QED BY <1>1, <1>6, <1>7, <1>8, <1>9

\* A request that ran is told as committed, once, with its place in the story.
LEMMA EngineCommittedPreserves ==
  ASSUME IInv, EngineCommitted
  PROVE  IInv'
<1> USE NoneDistinct
<1> PICK N : N = Len(story)
  OBVIOUS
<1> PICK j : j = frame.id
  OBVIOUS
<1> PICK r : r = frame.request
  OBVIOUS
<1> PICK K : K = Len(log) + Len(Recovered) + 1
  OBVIOUS
<1>1. /\ frame.stage = "execute" /\ Answered /\ Applied(r) # {} /\ held' = None /\ intent' = None
      /\ UNCHANGED <<turns, activeId, opening, introduction, nextRequest, preludes>>
      /\ UNCHANGED <<story, posted, engineBusy, engineDead>>
  BY DEF EngineCommitted, Answered
<1>2. /\ frame.op \in {"turn", "recover"} /\ j \in Interactions /\ r \in Request
      /\ Asked(j) = r /\ ~Landed /\ ~Logged(r)
  BY <1>1, Executing
<1>3. /\ posted = None /\ \A n \in Applied(r) : n = N
      /\ \A n \in 1..N : Logged(story[n]) \/ (n = N /\ story[n] = r)
  BY <1>1, AnsweredFacts
<1>4. N \in Nat /\ N \in 1..N /\ story[N] = r /\ (CHOOSE i \in Applied(r) : TRUE) = N
  <2>1. PICK n \in Applied(r) : TRUE
    BY <1>1
  <2>2. n = N /\ n \in 1..N /\ story[n] = r
    BY <1>3 DEF Applied
  <2>3. (CHOOSE i \in Applied(r) : TRUE) \in Applied(r)
    BY <2>1
  <2>4. N \in Nat
    BY DEF IInv, Types
  <2> QED BY <1>3, <2>2, <2>3, <2>4
<1>5. /\ Emit(frame.id, frame.cause,
              Recovered \o <<"engine.command.committed", "engine.output">>, frame.request, N)
      /\ frame' = [frame EXCEPT !.stage = "snapshot", !.cause = Place(Len(Recovered) + 2),
                                !.revision = N]
  BY <1>4 DEF EngineCommitted
<1>6. Len(log) \in Nat
  BY DEF IInv, Types
<1>7. /\ Len(Recovered) \in {0, 1} /\ K \in Nat /\ K \in {Len(log) + 1, Len(log) + 2}
      /\ log' \in Seq(Event) /\ Len(log') = K + 1
      /\ \A k \in 1..Len(log) : log'[k] = log[k]
      /\ K > Len(log) + 1 => Is(log', Len(log) + 1, "system.recovered", frame.cause, r, N)
      /\ Is(log', K, "engine.command.committed",
            IF K = Len(log) + 1 THEN frame.cause ELSE K - 1, r, N)
      /\ Is(log', K + 1, "engine.output", K, r, N)
  <2>1. /\ Len(Recovered) \in {0, 1}
        /\ log' \in Seq(Event) /\ Len(log') = K + 1
        /\ \A k \in 1..Len(log) : log'[k] = log[k]
        /\ K > Len(log) + 1 => Is(log', Len(log) + 1, "system.recovered", frame.cause, r, N)
        /\ Is(log', K, "engine.command.committed",
              IF K = Len(log) + 1 THEN frame.cause ELSE K - 1, r, N)
        /\ Is(log', K + 1, "engine.output", K, r, N)
    BY <1>1, <1>4, <1>5, CommitTold
  <2>2. K \in Nat /\ K \in {Len(log) + 1, Len(log) + 2}
    <3>1. Len(Recovered) = 0 \/ Len(Recovered) = 1
      BY <2>1
    <3>2. CASE Len(Recovered) = 0
      BY <1>6, <3>2
    <3>3. CASE Len(Recovered) = 1
      BY <1>6, <3>3
    <3> QED BY <3>1, <3>2, <3>3
  <2> QED BY <2>1, <2>2
<1>8. /\ frame' \in FrameType /\ frame'.op = frame.op /\ frame'.id = j /\ frame'.request = r
      /\ frame'.requested = frame.requested /\ frame'.revision = N
      /\ frame'.stage = "snapshot" /\ frame'.cause = K + 1 /\ frame'.outcome = "none"
  <2>1. frame \in FrameType /\ K + 1 \in Nat /\ Place(Len(Recovered) + 2) = K + 1
    BY <1>6, <1>7 DEF IInv, Types, Place
  <2>2. frame' = [frame EXCEPT !.stage = "snapshot", !.cause = K + 1, !.revision = N]
    BY <1>5, <2>1
  <2>3. /\ frame' \in FrameType
        /\ frame'.op = frame.op /\ frame'.id = frame.id /\ frame'.request = frame.request
        /\ frame'.requested = frame.requested /\ frame'.revision = N
        /\ frame'.stage = "snapshot" /\ frame'.cause = K + 1
        /\ frame'.outcome = frame.outcome /\ frame'.intent = frame.intent
    BY <1>4, <2>1, <2>2, CommitFields
  <2>4. frame.outcome = "none"
    BY <1>1 DEF IInv, FrameInv
  <2> QED BY <2>3, <2>4
<1>9. /\ Landed' /\ \A i \in Interactions : Asked(i)' = Asked(i)
  BY <1>1, <1>8 DEF Asked, Landed
<1>10. Types'
  BY <1>1, <1>7, <1>8 DEF IInv, Types
<1>11. TurnInv'
  <2>1. \A i \in Interactions : turns[i].requested \in Nat
    BY DEF IInv, Types, Turn
  <2> QED BY <1>1, <1>6, <1>7, <2>1 DEF IInv, TurnInv, TurnOK
<1>12. FrameInv'
  <2>1. /\ activeId' = j /\ frame.requested \in Nat /\ frame.requested <= Len(log)
        /\ frame.op = "turn" => turns[j].kind = "pending"
        /\ frame.op = "recover" => turns[j].kind = "uncertain" /\ turns[j].request = r
    BY <1>1 DEF IInv, Types, FrameType, FrameInv
  <2> QED BY <1>1, <1>2, <1>6, <1>7, <1>8, <1>9, <2>1 DEF FrameInv
<1>13. AskedInv' /\ StoryInv' /\ CountInv'
  BY <1>1, <1>9, SameAsked, SameCount
<1>14. /\ \A k \in 1..Len(log') :
            \/ k \in 1..Len(log) /\ log'[k] = log[k]
            \/ k = Len(log) + 1 /\ K > k /\ log'[k].type = "system.recovered"
                 /\ log'[k].cause = frame.cause
            \/ k \in {K, K + 1} /\ k \notin 1..Len(log)
       /\ Events("engine.command.committed")' = Events("engine.command.committed") \cup {K}
       /\ K \notin Events("engine.command.committed")
  <2>1. \A k \in 1..Len(log') :
            \/ k \in 1..Len(log) /\ log'[k] = log[k]
            \/ k = Len(log) + 1 /\ K > k /\ log'[k].type = "system.recovered"
                 /\ log'[k].cause = frame.cause
            \/ k \in {K, K + 1} /\ k \notin 1..Len(log)
    BY <1>6, <1>7 DEF Is
  <2>2. log'[K].type = "engine.command.committed" /\ log'[K + 1].type = "engine.output"
    BY <1>7 DEF Is
  <2>3. K \in 1..Len(log') /\ K \notin 1..Len(log) /\ 1..Len(log) \subseteq 1..Len(log')
    BY <1>6, <1>7
  <2> QED BY <2>1, <2>2, <2>3 DEF Events
<1>15. \A x : Logged(x)' <=> Logged(x) \/ x = r
  <2>1. log'[K].request = r
    BY <1>7 DEF Is
  <2>2. \A k \in Events("engine.command.committed") : log'[k] = log[k]
    BY <1>7 DEF Events
  <2> QED BY <1>14, <2>1, <2>2 DEF Logged
<1>16. EngineInv'
  <2>1. \A n \in 1..Len(story) : Logged(story[n])'
    BY <1>1, <1>3, <1>15
  <2>2. log'[K + 1].revision = N
    BY <1>7 DEF Is
  <2>3. Logged(frame.request)'
    BY <1>8, <1>15
  <2> QED BY <1>1, <1>3, <1>7, <1>8, <2>1, <2>2, <2>3 DEF EngineInv
<1>17. TruthInv'
  <2>1. ASSUME NEW i \in Interactions, Waiting(i)', ~(frame'.id = i /\ Landed')
        PROVE  ~Logged(Asked(i))'
    <3>1. i # j /\ turns[i].outcome = "uncertain" /\ Asked(i)' = Asked(i)
      BY <1>1, <1>8, <1>9, <2>1 DEF Waiting
    <3>2. ~Logged(Asked(i))
      BY <1>2, <3>1 DEF IInv, TruthInv, Waiting
    <3>3. Asked(i) # r
      BY <1>2, <3>1 DEF IInv, AskedInv
    <3> QED BY <1>15, <3>1, <3>2, <3>3
  <2>2. \A x : Applied(x)' = Applied(x)
    BY <1>1 DEF Applied
  <2> QED BY <1>1, <2>1, <2>2 DEF IInv, TruthInv
<1>18. LogInv'
  <2>1. ASSUME NEW k \in 1..Len(log')
        PROVE  /\ log'[k].cause < k
               /\ log'[k].type = "engine.command.committed" =>
                    log'[k].revision \in 1..N /\ story[log'[k].revision] = log'[k].request
               /\ log'[k].type = "engine.output" =>
                    \/ log'[k].id = Opening /\ log'[k].cause = 0 /\ opening.source = k
                    \/ /\ log'[k].cause # 0 /\ log'[k].cause = k - 1
                       /\ log'[k - 1].type = "engine.command.committed"
                       /\ log'[k - 1].request = log'[k].request
               /\ log'[k].type = "save.checkpointed" =>
                    log'[k].cause # 0 /\ log'[k].revision = log'[log'[k].cause].revision
    <3>0. frame.cause \in Nat /\ frame.cause <= Len(log)
      BY DEF IInv, Types, FrameType, FrameInv
    <3>1. CASE k \in 1..Len(log)
      <4>0. log[k] \in Event
        BY <3>1 DEF IInv, Types
      <4>1. log'[k] = log[k] /\ log[k].cause \in Nat /\ log[k].cause < k
        BY <1>7, <3>1, <4>0 DEF IInv, LogInv, Event
      <4>2. log[k].cause # 0 => log'[log[k].cause] = log[log[k].cause]
        BY <1>6, <1>7, <3>1, <4>1
      <4>3. k - 1 = log[k].cause /\ log[k].cause # 0 => log'[k - 1] = log[k - 1]
        BY <4>2
      <4> QED BY <3>1, <4>1, <4>2, <4>3 DEF IInv, LogInv
    <3>2. CASE k = Len(log) + 1 /\ K > k
      BY <1>6, <1>14, <3>0, <3>2
    <3>3. CASE k = K
      <4>1. /\ log'[k].type = "engine.command.committed" /\ log'[k].request = r
            /\ log'[k].revision = N
            /\ log'[k].cause = IF K = Len(log) + 1 THEN frame.cause ELSE K - 1
        BY <1>7, <3>3 DEF Is
      <4> QED BY <1>4, <1>6, <1>7, <3>0, <3>3, <4>1
    <3>4. CASE k = K + 1
      <4>1. /\ log'[k].type = "engine.output" /\ log'[k].request = r /\ log'[k].cause = K
            /\ log'[K].type = "engine.command.committed" /\ log'[K].request = r
        BY <1>7, <3>4 DEF Is
      <4>2. K # 0 /\ k - 1 = K /\ K < k
        BY <1>6, <1>7, <3>4
      <4> QED BY <4>1, <4>2
    <3> QED BY <1>6, <1>14, <3>1, <3>2, <3>3, <3>4
  <2>2. ASSUME NEW a \in Events("engine.command.committed")', NEW b \in Events("engine.command.committed")',
               log'[a].request = log'[b].request
        PROVE  a = b
    <3>1. log'[K].request = r
      BY <1>7 DEF Is
    <3>2. \A k \in Events("engine.command.committed") : log'[k] = log[k] /\ log[k].request # r
      BY <1>2, <1>7 DEF Events, Logged
    <3> QED BY <1>14, <2>2, <3>1, <3>2 DEF IInv, LogInv
  <2>3. opening.source <= Len(log')
    BY <1>6, <1>7 DEF IInv, LogInv, Types, OpeningType
  <2> QED BY <1>1, <2>1, <2>2, <2>3 DEF LogInv
<1>19. IntentInv'
  BY <1>1, <1>8 DEF IntentInv, FreshIntent
<1> QED BY <1>10, <1>11, <1>12, <1>13, <1>16, <1>17, <1>18, <1>19 DEF IInv

\* The story is of requests that were made.
LEMMA StoryAsked ==
  ASSUME IInv, NEW n \in 1..Len(story)
  PROVE  \E i \in Interactions : Asked(i) = story[n] /\ Asked(i) # None
<1>1. story[n] \in Request
  BY DEF IInv, Types
<1>2. \E i \in Interactions : story[n] = Asked(i)
  BY DEF IInv, StoryInv
<1> QED BY <1>1, <1>2, NoneDistinct

\* What the worker was posted is some waiting interaction's request.
LEMMA PostedWaits ==
  ASSUME IInv, posted # None
  PROVE  \E i \in Interactions : Asked(i) = posted /\ Waiting(i) /\ ~Logged(posted) /\ ~Landed
<1>1. posted \in Request /\ Pursued(posted) /\ ~Landed
  BY DEF IInv, Types, EngineInv
<1>2. CASE held = posted
  <2>1. PICK i \in Interactions : Asked(i) = posted /\ Waiting(i)
    BY <1>1, <1>2, NoneDistinct DEF IInv, EngineInv
  <2>2. ~Logged(posted)
    BY <1>1, <2>1 DEF IInv, TruthInv
  <2> QED BY <1>1, <2>1, <2>2
<1>3. CASE frame.stage = "execute" /\ frame.request = posted
  <2>1. frame.id \in Interactions /\ Asked(frame.id) = posted /\ Waiting(frame.id) /\ ~Logged(posted)
    BY <1>3, Executing
  <2> QED BY <1>1, <2>1
<1> QED BY <1>1, <1>2, <1>3 DEF Pursued

\* A waiting interaction has no outcome stored for good.
LEMMA WaitingNotFinal ==
  ASSUME IInv, NEW i \in Interactions, Waiting(i), turns[i].outcome # "uncertain"
  PROVE  turns[i].kind = "pending"
<1>1. frame.id = i /\ frame.stage = "execute"
  BY DEF Waiting
<1>2. frame.op \in {"turn", "recover"}
  BY <1>1, Executing
<1> QED BY <1>1, <1>2 DEF IInv, FrameInv, TurnInv, TurnOK

\* A step of the engine alone, on its requests.
LEMMA EngineAlone ==
  ASSUME IInv, UNCHANGED coordinatorVars, story' \in Seq(Request), posted' \in Request \cup {None},
         engineBusy' \in BOOLEAN, engineDead' \in BOOLEAN, held' = held,
         AskedInv', StoryInv', EngineInv', TruthInv', LogInv'
  PROVE  IInv'
<1>1. UNCHANGED <<turns, activeId, opening, introduction, intent, frame, nextRequest, preludes, log>>
  BY DEF coordinatorVars
<1>2. Types'
  BY <1>1 DEF IInv, Types
<1>3. TurnInv' /\ FrameInv'
  BY <1>1 DEF IInv, TurnInv, FrameInv, Landed
<1>4. CountInv'
  BY <1>1 DEF IInv, CountInv, Askers, Asked, Stored
<1>5. IntentInv'
  BY <1>1 DEF IInv, IntentInv, FreshIntent, Events
<1> QED BY <1>2, <1>3, <1>4, <1>5 DEF IInv

\* The engine runs what it was posted, at the revision it expected.
LEMMA RunTurnPreserves ==
  ASSUME IInv, RunTurn
  PROVE  IInv'
<1> USE NoneDistinct
<1> PICK r : r = posted
  OBVIOUS
<1> PICK N : N = Len(story)
  OBVIOUS
<1>1. /\ r # None /\ Runnable(r) /\ story' = Append(story, r) /\ posted' = None
      /\ UNCHANGED <<held, engineBusy, engineDead>> /\ UNCHANGED coordinatorVars
      /\ UNCHANGED <<turns, activeId, opening, introduction, intent, frame, nextRequest, preludes, log>>
  BY DEF RunTurn, coordinatorVars
<1>2. r \in Request /\ story \in Seq(Request) /\ N \in Nat
  BY <1>1 DEF IInv, Types
<1>3. /\ story' \in Seq(Request) /\ Len(story') = N + 1 /\ story'[N + 1] = r
      /\ \A n \in 1..N : story'[n] = story[n]
  BY <1>1, <1>2
<1>4. PICK w \in Interactions : Asked(w) = r /\ Waiting(w) /\ ~Logged(r) /\ ~Landed
  BY <1>1, PostedWaits
<1>5. /\ \A i \in Interactions : Asked(i)' = Asked(i) /\ (Waiting(i)' <=> Waiting(i))
      /\ (Landed' <=> Landed) /\ \A x : (Logged(x)' <=> Logged(x)) /\ (Pursued(x)' <=> Pursued(x))
  <2>1. \A i \in Interactions : Asked(i)' = Asked(i) /\ (Waiting(i)' <=> Waiting(i))
    BY <1>1 DEF Asked, Waiting
  <2>2. Landed' <=> Landed
    BY <1>1 DEF Landed
  <2>3. \A x : (Logged(x)' <=> Logged(x)) /\ (Pursued(x)' <=> Pursued(x))
    BY <1>1 DEF Logged, Events, Pursued, Admits
  <2> QED BY <2>1, <2>2, <2>3
<1>6. r.expectedRevision = N /\ \A n \in 1..N : story[n].requestId # r.requestId
  BY <1>1 DEF Runnable
<1>7. \A n \in 1..N : Logged(story[n])
  <2>1. \A n \in 1..N : story[n] # r
    BY <1>6
  <2>2. Pursued(r)
    BY <1>1 DEF IInv, EngineInv
  <2>3. ASSUME NEW n \in 1..N, ~Logged(story[n])
        PROVE  FALSE
    <3>1. r \in {None, story[n]}
      BY <2>3 DEF IInv, EngineInv
    <3> QED BY <1>1, <2>1, <3>1
  <2> QED BY <2>3
<1>8. AskedInv'
  <2>1. \A i \in Interactions : Asked(i) # None => Asked(i).expectedRevision <= N + 1
    BY <1>2, AskedKnown
  <2> HIDE DEF Asked
  <2> QED BY <1>1, <1>3, <1>5, <2>1 DEF IInv, AskedInv
<1>9. r.requestId >= N + 1
  <2>1. CASE N = 0
    BY <1>2, <2>1 DEF Request
  <2>2. CASE N # 0
    <3>1. N \in 1..N /\ N - 1 < N
      BY <1>2, <2>2
    <3>2. story[N].expectedRevision = N - 1 /\ story[N].requestId >= N
      BY <3>1 DEF IInv, StoryInv
    <3>3. PICK i \in Interactions : Asked(i) = story[N] /\ Asked(i) # None
      BY <3>1, StoryAsked
    <3>4. Asked(i).requestId < Asked(w).requestId
      BY <1>1, <1>4, <1>6, <3>1, <3>2, <3>3 DEF IInv, AskedInv
    <3>5. r.requestId \in Nat /\ story[N].requestId \in Nat
      <4>1. story[N] \in Request
        BY <1>2, <3>1
      <4> QED BY <1>2, <4>1 DEF Request
    <3> QED BY <1>2, <1>4, <3>2, <3>3, <3>4, <3>5
  <2> QED BY <2>1, <2>2
<1>10. StoryInv'
  <2>1. ASSUME NEW n \in 1..(N + 1)
        PROVE  /\ story'[n].expectedRevision = n - 1 /\ story'[n].requestId >= n
               /\ \E i \in Interactions : story'[n] = Asked(i)'
    <3>1. CASE n \in 1..N
      BY <1>3, <1>5, <3>1 DEF IInv, StoryInv
    <3>2. CASE n = N + 1
      <4>1. n - 1 = N
        BY <1>2, <3>2
      <4> QED BY <1>3, <1>4, <1>5, <1>6, <1>9, <3>2, <4>1
    <3> QED BY <1>2, <3>1, <3>2
  <2> HIDE DEF Asked
  <2> QED BY <1>3, <2>1 DEF StoryInv
<1>11. EngineInv'
  <2>1. Pursued(r)'
    BY <1>1, <1>5 DEF IInv, EngineInv
  <2>2. ASSUME NEW n \in 1..(N + 1)
        PROVE  \/ Logged(story[n])'
               \/ n = N + 1 /\ Pursued(story[n])'
    <3>1. CASE n \in 1..N
      <4>1. Logged(story[n]) /\ story'[n] = story[n]
        BY <1>3, <1>7, <3>1
      <4> QED BY <1>5, <4>1
    <3>2. CASE n = N + 1
      BY <1>3, <2>1, <3>2
    <3> QED BY <1>2, <3>1, <3>2
  <2>3. held' # None => \E i \in Interactions : Asked(i)' = held' /\ Waiting(i)'
    BY <1>1, <1>5 DEF IInv, EngineInv
  <2> QED BY <1>1, <1>3, <1>4, <1>5, <2>2, <2>3 DEF EngineInv
<1>12. TruthInv'
  <2>1. ASSUME NEW i \in Interactions, Waiting(i)', ~(frame'.id = i /\ Landed')
        PROVE  ~Logged(Asked(i))'
    <3>1. ~Logged(Asked(i)) /\ Asked(i)' = Asked(i)
      BY <1>1, <1>5, <2>1 DEF IInv, TruthInv
    <3> QED BY <1>5, <3>1
  <2>2. ASSUME NEW i \in Interactions, turns[i].kind \in {"settled", "complete"},
               turns[i].outcome # "uncertain", turns[i].request # None
        PROVE  (turns[i].outcome = "committed") <=> Applied(turns[i].request)' # {}
    <3>1. turns[i].request = Asked(i)
      BY <2>2 DEF IInv, FrameInv, Asked
    <3>2. i # w
      BY <1>4, <2>2, WaitingNotFinal
    <3>3. turns[i].request # r
      BY <1>1, <1>4, <2>2, <3>1, <3>2 DEF IInv, AskedInv
    <3>4. Applied(turns[i].request)' = {n \in 1..(N + 1) : story'[n] = turns[i].request}
      BY <1>1, <1>3 DEF Applied
    <3>5. {n \in 1..(N + 1) : story'[n] = turns[i].request} = Applied(turns[i].request)
      BY <1>2, <1>3, <3>3 DEF Applied
    <3> QED BY <2>2, <3>4, <3>5 DEF IInv, TruthInv
  <2> QED BY <1>1, <2>1, <2>2 DEF TruthInv
<1>13. LogInv'
  <2>1. \A n \in 1..N : n \in 1..(N + 1)
    BY <1>2
  <2>2. \A k \in 1..Len(log) : log[k].type = "engine.command.committed" =>
          log[k].revision \in 1..(N + 1) /\ story'[log[k].revision] = log[k].request
    BY <1>3, <2>1 DEF IInv, LogInv
  <2>3. Events("engine.command.committed")' = Events("engine.command.committed")
    BY <1>1 DEF Events
  <2> QED BY <1>1, <1>3, <2>2, <2>3 DEF IInv, LogInv
<1> QED BY <1>1, <1>2, <1>3, <1>8, <1>10, <1>11, <1>12, <1>13, EngineAlone DEF IInv, Types

\* The engine drops what it was posted, or is less occupied.
LEMMA EngineCalmer ==
  ASSUME IInv, UNCHANGED coordinatorVars, UNCHANGED <<story, held>>, posted' \in {posted, None},
         engineBusy' \in {engineBusy, FALSE}, engineDead' \in BOOLEAN
  PROVE  IInv'
<1>1. UNCHANGED <<turns, activeId, opening, introduction, intent, frame, nextRequest, preludes, log>>
  BY DEF coordinatorVars
<1>2. /\ \A i \in Interactions : Asked(i)' = Asked(i) /\ (Waiting(i)' <=> Waiting(i))
      /\ (Landed' <=> Landed) /\ \A x : (Logged(x)' <=> Logged(x)) /\ Applied(x)' = Applied(x)
  <2>1. \A i \in Interactions : Asked(i)' = Asked(i) /\ (Waiting(i)' <=> Waiting(i))
    BY <1>1 DEF Asked, Waiting
  <2>2. Landed' <=> Landed
    BY <1>1 DEF Landed
  <2>3. \A x : (Logged(x)' <=> Logged(x)) /\ Applied(x)' = Applied(x)
    BY <1>1 DEF Logged, Events, Applied
  <2> QED BY <2>1, <2>2, <2>3
<1>3. \A x : Pursued(x) => Pursued(x)'
  BY <1>1 DEF Pursued, Admits
<1>4. AskedInv' /\ StoryInv'
  BY <1>1, <1>2, SameAsked
<1>5. EngineInv'
  <2>1. \A n \in 1..Len(story) :
          \/ Logged(story[n])'
          \/ n = Len(story) /\ posted' \in {None, story[n]} /\ Pursued(story[n])'
    BY <1>2, <1>3 DEF IInv, EngineInv
  <2>2. posted' # None => Pursued(posted)'
    <3>1. SUFFICES ASSUME posted' # None PROVE Pursued(posted)'
      OBVIOUS
    <3>2. posted' = posted /\ Pursued(posted)
      BY <3>1 DEF IInv, EngineInv
    <3> QED BY <1>3, <3>2
  <2>3. held # None => \E i \in Interactions : Asked(i)' = held /\ Waiting(i)'
    BY <1>2 DEF IInv, EngineInv
  <2>4. Landed => Logged(frame.request)' /\ posted' = None
    BY <1>1, <1>2 DEF IInv, EngineInv
  <2> QED BY <1>1, <1>2, <2>1, <2>2, <2>3, <2>4 DEF IInv, EngineInv
<1>6. TruthInv'
  BY <1>1, <1>2 DEF IInv, TruthInv
<1>7. LogInv'
  BY <1>1 DEF IInv, LogInv, Events
<1>8. story' \in Seq(Request) /\ posted' \in Request \cup {None} /\ engineBusy' \in BOOLEAN
  BY DEF IInv, Types
<1> QED BY <1>4, <1>5, <1>6, <1>7, <1>8, EngineAlone

\* The locals of a recovery of request r.
LEMMA RecoverFields ==
  ASSUME NEW i \in Interactions, NEW cause \in Nat, NEW r \in Request,
         frame' = [Frame("recover", i, "execute", cause) EXCEPT !.request = r]
  PROVE  /\ frame' \in FrameType /\ frame'.op = "recover" /\ frame'.id = i
         /\ frame'.stage = "execute" /\ frame'.cause = cause /\ frame'.request = r
         /\ frame'.requested = 0 /\ frame'.outcome = "none"
BY DEF Frame, FrameType, Ids

\* A recovery submits the request its interaction waits for.
LEMMA RecoverPreserves ==
  ASSUME IInv, NEW i \in Interactions, Recover(i)
  PROVE  IInv'
<1> USE NoneDistinct
<1> PICK r : r = turns[i].request
  OBVIOUS
<1>1. /\ turns[i].kind = "uncertain" /\ frame = NoFrame /\ activeId' = i
      /\ frame' = [Frame("recover", i, "execute", turns[i].requested) EXCEPT !.request = r]
      /\ posted' = IF Admits(r) /\ ~engineDead THEN r ELSE posted
      /\ UNCHANGED <<story, held, engineBusy, engineDead>>
      /\ UNCHANGED <<turns, opening, introduction, intent, nextRequest, preludes, log>>
  BY IdleFrame DEF Recover, Idle, Submits
<1>2. /\ r \in Request /\ turns[i].outcome = "uncertain" /\ turns[i].requested \in Nat
      /\ turns[i].requested <= Len(log)
  BY <1>1 DEF IInv, Types, Turn, TurnInv, TurnOK
<1>3. /\ frame' \in FrameType /\ frame'.op = "recover" /\ frame'.id = i
      /\ frame'.stage = "execute" /\ frame'.cause = turns[i].requested /\ frame'.request = r
      /\ frame'.requested = 0 /\ frame'.outcome = "none"
  <2>1. frame' = [Frame("recover", i, "execute", turns[i].requested) EXCEPT !.request = r]
    BY <1>1
  <2> QED BY <1>2, <2>1, RecoverFields
<1>4. Heard
  BY <1>1, Silence
<1>5. /\ \A k \in Interactions : Asked(k)' = Asked(k) /\ (Waiting(k)' <=> Waiting(k))
      /\ ~Landed' /\ ~Landed /\ frame.stage # "execute"
  BY <1>1, <1>2, <1>3, NoFrameFields DEF Asked, Waiting, Landed
<1>6. Types'
  BY <1>1, <1>2, <1>3 DEF IInv, Types
<1>7. TurnInv'
  BY <1>1 DEF IInv, TurnInv
<1>8. FrameInv'
  <2>1. Len(log) \in Nat
    BY DEF IInv, Types
  <2> QED BY <1>1, <1>2, <1>3, <2>1 DEF FrameInv
<1>9. AskedInv' /\ StoryInv' /\ CountInv'
  BY <1>1, <1>5, SameAsked, SameCount
<1>10. \A x : (Logged(x)' <=> Logged(x)) /\ Applied(x)' = Applied(x)
  BY <1>1 DEF Logged, Events, Applied
<1>11. EngineInv'
  <2>1. \A x : (held = x => Pursued(x)') /\ (Pursued(x) => held = x)
    BY <1>1, <1>5 DEF Pursued
  <2>2. Admits(r) => Pursued(r)'
    BY <1>1, <1>3 DEF Pursued, Admits
  <2>3. \A n \in 1..Len(story) :
          \/ Logged(story[n])'
          \/ n = Len(story) /\ posted' \in {None, story[n]} /\ Pursued(story[n])'
    <3>1. ASSUME NEW n \in 1..Len(story), ~Logged(story[n])
          PROVE  n = Len(story) /\ posted' \in {None, story[n]} /\ Pursued(story[n])'
      <4>1. n = Len(story) /\ posted \in {None, story[n]} /\ held = story[n]
        BY <2>1, <3>1 DEF IInv, EngineInv
      <4>2. held # None
        BY <4>1 DEF IInv, Types
      <4>3. Admits(r) => r = story[n]
        BY <4>1, <4>2 DEF Admits
      <4> QED BY <1>1, <2>1, <4>1, <4>3
    <3> QED BY <1>1, <1>10, <3>1
  <2>4. posted' # None => Pursued(posted)'
    <3>1. CASE posted' = r /\ Admits(r)
      BY <2>2, <3>1
    <3>2. CASE posted' = posted
      <4>1. posted # None => held = posted
        BY <2>1 DEF IInv, EngineInv
      <4> QED BY <2>1, <3>2, <4>1
    <3> QED BY <1>1, <3>1, <3>2
  <2>5. held # None => \E k \in Interactions : Asked(k)' = held /\ Waiting(k)'
    BY <1>5 DEF IInv, EngineInv
  <2> QED BY <1>1, <1>5, <2>3, <2>4, <2>5 DEF EngineInv
<1>12. TruthInv'
  <2>1. ASSUME NEW k \in Interactions, Waiting(k)'
        PROVE  ~Logged(Asked(k))'
    <3>1. ~Logged(Asked(k)) /\ Asked(k)' = Asked(k)
      BY <1>5, <2>1 DEF IInv, TruthInv
    <3> QED BY <1>10, <3>1
  <2> QED BY <1>1, <1>10, <2>1 DEF IInv, TruthInv
<1>13. IntentInv'
  BY <1>1, <1>3, <1>4, IntentKept DEF IntentInv
<1> QED BY <1>4, <1>6, <1>7, <1>8, <1>9, <1>11, <1>12, <1>13 DEF IInv, Heard

-----------------------------------------------------------------------------
(* Steps beside the operation in progress.                                 *)

\* The caller's signal changes nothing but what the operation does next.
LEMMA AbortPreserves ==
  ASSUME IInv, Abort
  PROVE  IInv'
<1>1. /\ frame # NoFrame /\ UNCHANGED <<turns, activeId, opening, introduction, intent>>
      /\ UNCHANGED <<nextRequest, preludes, log, story, held, posted, engineBusy, engineDead>>
      /\ frame' = [frame EXCEPT !.aborted = TRUE]
  BY DEF Abort, engineVars
<1>2. /\ frame' \in FrameType /\ SameFrame
      /\ frame'.requested = frame.requested /\ frame'.intent = frame.intent
  BY <1>1 DEF IInv, Types, FrameType, SameFrame
<1>3. Heard
  BY <1>1, Silence
<1>4. Types' /\ TurnInv'
  BY <1>1, <1>2 DEF IInv, Types, TurnInv
<1>5. FrameInv'
  <2>1. frame'.op # "none"
    BY <1>1, <1>2 DEF IInv, FrameInv, SameFrame
  <2> QED BY <1>1, <1>2, <2>1 DEF IInv, FrameInv, Landed, SameFrame
<1>6. \A i \in Interactions : Asked(i)' = Asked(i)
  BY <1>1, <1>2 DEF Asked, SameFrame
<1>7. CountInv'
  BY <1>1, <1>6, SameCount
<1>8. AskedInv' /\ StoryInv' /\ EngineInv' /\ TruthInv'
  BY <1>1, <1>2, <1>3, BesideFrame
<1>9. IntentInv'
  BY <1>1, <1>2, <1>3, IntentKept, FrameIntentKept DEF IntentInv, SameFrame
<1> QED BY <1>3, <1>4, <1>5, <1>7, <1>8, <1>9 DEF IInv, Heard

\* A step that stores what it has of interactions the frame is not about.
LEMMA StoresBeside ==
  ASSUME IInv, Heard, UNCHANGED <<activeId, frame, nextRequest, story, held, posted>>,
         UNCHANGED <<engineBusy, engineDead, intent>>, turns' \in [Interactions -> Turn],
         opening' \in OpeningType, opening'.source = opening.source, TurnInv', CountInv',
         \A i \in Interactions :
           /\ turns[i].kind \in {"pending", "uncertain"} => turns'[i] = turns[i]
           /\ turns'[i].request = turns[i].request
           /\ turns'[i].outcome = "uncertain" <=> turns[i].outcome = "uncertain"
           /\ \/ turns'[i].request = None
              \/ /\ turns'[i].outcome = turns[i].outcome
                 /\ turns'[i].kind \in {"settled", "complete"} =>
                      turns[i].kind \in {"settled", "complete"}
  PROVE  IInv'
<1>1. Types'
  BY DEF IInv, Types, Heard
<1>2. SameFrame
  BY DEF SameFrame
<1>3. FrameInv'
  <2>1. /\ frame.cause <= Len(log') /\ frame.requested <= Len(log')
    BY DEF IInv, Types, FrameType, FrameInv, Heard
  <2>2. /\ frame.op = "turn" => turns'[frame.id] = turns[frame.id]
        /\ frame.op = "recover" => turns'[frame.id] = turns[frame.id]
    BY DEF IInv, FrameInv
  <2> QED BY <2>1, <2>2 DEF IInv, FrameInv, Landed
<1>4. AskedInv' /\ StoryInv' /\ EngineInv' /\ TruthInv'
  BY <1>2, BesideFrame
<1>5. IntentInv'
  BY IntentKept, FrameIntentKept DEF IntentInv
<1> QED BY <1>1, <1>3, <1>4, <1>5 DEF IInv, Heard

\* submitTurn stores the result of the turn that was settled.
LEMMA StorePreserves ==
  ASSUME IInv, NEW j \in Interactions, Store(j)
  PROVE  IInv'
<1> DEFINE kind == IF turns[j].outcome = "uncertain" THEN "uncertain" ELSE "complete"
<1>1. /\ turns[j].kind = "settled" /\ turns' = [turns EXCEPT ![j].kind = kind]
      /\ UNCHANGED <<activeId, opening, introduction, intent, frame, nextRequest, preludes, log>>
      /\ UNCHANGED <<story, held, posted, engineBusy, engineDead>>
  BY DEF Store, engineVars
<1>2. /\ turns' \in [Interactions -> Turn] /\ turns'[j].kind = kind
      /\ turns'[j].outcome = turns[j].outcome /\ turns'[j].request = turns[j].request
      /\ turns'[j].requested = turns[j].requested
      /\ \A i \in Interactions \ {j} : turns'[i] = turns[i]
  BY <1>1 DEF IInv, Types, Turn
<1>3. Heard
  BY <1>1, Silence
<1>4. TurnInv'
  <2>1. TurnOK(turns'[j], Len(log))
    BY <1>1, <1>2 DEF IInv, TurnInv, TurnOK
  <2> QED BY <1>1, <1>2, <2>1 DEF IInv, TurnInv
<1>5. CountInv'
  <2>1. \A i \in Interactions : Asked(i)' = Asked(i)
    BY <1>1, <1>2 DEF Asked
  <2>2. \A i \in Interactions : (turns'[i].kind # "absent") <=> (turns[i].kind # "absent")
    BY <1>1, <1>2
  <2> QED BY <1>1, <2>1, <2>2, SameCount
<1>6. opening' \in OpeningType /\ opening'.source = opening.source
  BY <1>1 DEF IInv, Types
<1>7. \A i \in Interactions :
           /\ turns[i].kind \in {"pending", "uncertain"} => turns'[i] = turns[i]
           /\ turns'[i].request = turns[i].request
           /\ turns'[i].outcome = "uncertain" <=> turns[i].outcome = "uncertain"
           /\ \/ turns'[i].request = None
              \/ /\ turns'[i].outcome = turns[i].outcome
                 /\ turns'[i].kind \in {"settled", "complete"} =>
                      turns[i].kind \in {"settled", "complete"}
  BY <1>1, <1>2
<1> QED BY <1>1, <1>2, <1>3, <1>4, <1>5, <1>6, <1>7, StoresBeside

\* A failure is recorded beside whatever is in progress.
LEMMA RecordFailurePreserves ==
  ASSUME IInv, NEW j \in Interactions, RecordFailure(j)
  PROVE  IInv'
<1>1. /\ turns[j].kind = "absent" /\ Cardinality(Stored) < MaxTurns
      /\ turns' = [turns EXCEPT ![j] = [kind |-> "complete", outcome |-> "failed",
                                        request |-> None, requested |-> 0]]
      /\ UNCHANGED <<activeId, opening, introduction, intent, frame, nextRequest, preludes>>
      /\ UNCHANGED <<story, held, posted, engineBusy, engineDead>>
  BY DEF RecordFailure, engineVars
<1>2. /\ turns' \in [Interactions -> Turn] /\ turns'[j].kind = "complete"
      /\ turns'[j].outcome = "failed" /\ turns'[j].request = None /\ turns'[j].requested = 0
      /\ turns[j].request = None /\ turns[j].outcome = "none"
      /\ \A i \in Interactions \ {j} : turns'[i] = turns[i]
  <2>1. [kind |-> "complete", outcome |-> "failed", request |-> None, requested |-> 0] \in Turn
    BY DEF Turn, Outcomes
  <2> QED BY <1>1, <2>1 DEF IInv, Types, TurnInv, TurnOK
<1>3. Heard
  <2>1. /\ j \in Ids /\ 0 \in Nat /\ 0 <= Len(log) /\ None \in Request \cup {None}
        /\ <<"system.error">> \in Seq(EventTypes \ Loud)
    BY DEF Ids, EventTypes, Loud, IInv, Types
  <2> QED BY <1>1, <2>1, Tells DEF RecordFailure
<1>4. TurnInv'
  <2>1. 0 <= Len(log')
    BY <1>3 DEF Heard
  <2>2. TurnOK(turns'[j], Len(log'))
    BY <1>2, <2>1 DEF TurnOK
  <2> QED BY <1>2, <1>3, <2>2, OtherTurns DEF TurnInv
<1>5. CountInv'
  <2>1. \A i \in Interactions : Asked(i)' = Asked(i)
    BY <1>1, <1>2 DEF Asked
  <2>2. turns'[j].kind # "absent" /\ \A i \in Interactions \ {j} : turns'[i].kind = turns[i].kind
    BY <1>2
  <2> QED BY <1>1, <2>1, <2>2, MoreCount
<1>6. opening' \in OpeningType /\ opening'.source = opening.source
  BY <1>1 DEF IInv, Types
<1>7. \A i \in Interactions :
           /\ turns[i].kind \in {"pending", "uncertain"} => turns'[i] = turns[i]
           /\ turns'[i].request = turns[i].request
           /\ turns'[i].outcome = "uncertain" <=> turns[i].outcome = "uncertain"
           /\ \/ turns'[i].request = None
              \/ /\ turns'[i].outcome = turns[i].outcome
                 /\ turns'[i].kind \in {"settled", "complete"} =>
                      turns[i].kind \in {"settled", "complete"}
  BY <1>1, <1>2
<1> QED BY <1>1, <1>2, <1>3, <1>4, <1>5, <1>6, <1>7, StoresBeside

\* prepareOpening stores what became of the opening.
LEMMA StoreOpeningPreserves ==
  ASSUME IInv, StoreOpening
  PROVE  IInv'
<1>1. /\ opening' = IF opening.outcome = "ready" THEN [opening EXCEPT !.kind = "complete"]
                    ELSE IF opening.source # 0 THEN [opening EXCEPT !.kind = "retryable"]
                    ELSE NoOpening
      /\ UNCHANGED <<turns, activeId, introduction, intent, frame, nextRequest, preludes, log>>
      /\ UNCHANGED <<story, held, posted, engineBusy, engineDead>>
  BY DEF StoreOpening, engineVars
<1>2. opening' \in OpeningType /\ opening'.source = opening.source
  <2>1. opening \in OpeningType
    BY DEF IInv, Types
  <2> QED BY <1>1, <2>1 DEF OpeningType, NoOpening
<1>3. Heard
  BY <1>1, <1>2, Silence
<1>4. TurnInv'
  BY <1>1 DEF IInv, TurnInv
<1>5. CountInv'
  <2>1. \A i \in Interactions : Asked(i)' = Asked(i)
    BY <1>1 DEF Asked
  <2> QED BY <1>1, <2>1, SameCount
<1>6. turns' \in [Interactions -> Turn]
  BY <1>1 DEF IInv, Types
<1> QED BY <1>1, <1>2, <1>3, <1>4, <1>5, <1>6, StoresBeside

-----------------------------------------------------------------------------
(* After the commit: the checkpoint and the narration.                     *)

\* Before its checkpoint is told, a commit is the story's last turn, and known.
LEMMA LandedFacts ==
  ASSUME IInv, Landed
  PROVE  /\ frame.op \in {"turn", "recover"} /\ frame.id \in Interactions /\ frame.id \in Ids
         /\ frame.request # None /\ Asked(frame.id) = frame.request
         /\ Logged(frame.request) /\ Applied(frame.request) # {}
         /\ posted = None /\ held = None /\ frame.stage # "execute"
<1>1. frame.op \in {"turn", "recover"} /\ frame.id \in Interactions
  BY NoFrameFields DEF IInv, Types, FrameType, FrameInv, Landed
<1>2. frame.request # None /\ Asked(frame.id) = frame.request
  BY <1>1 DEF IInv, FrameInv, Asked, TurnInv, TurnOK
<1>3. Logged(frame.request) /\ posted = None /\ held = None /\ frame.stage # "execute"
  BY DEF IInv, EngineInv, Landed
<1> QED BY <1>1, <1>2, <1>3, LoggedApplied DEF Ids

\* A recovery that is over stores the commit it found.
LEMMA RecoverEnds ==
  ASSUME IInv, Heard, Landed, frame.op = "recover", activeId' = None, frame' = NoFrame,
         turns' = [turns EXCEPT ![frame.id].kind = "complete", ![frame.id].outcome = "committed"],
         UNCHANGED <<opening, introduction, nextRequest, preludes>>, UNCHANGED engineVars,
         intent' = intent
  PROVE  IInv'
<1>1. /\ frame.id \in Interactions /\ Applied(frame.request) # {} /\ held = None
      /\ frame.stage # "execute"
  BY LandedFacts
<1>2. turns[frame.id].request = frame.request /\ turns[frame.id].kind = "uncertain"
  BY DEF IInv, FrameInv
<1>3. turns \in [Interactions -> Turn]
  BY DEF IInv, Types
<1>4. /\ turns' \in [Interactions -> Turn]
      /\ turns'[frame.id].kind = "complete" /\ turns'[frame.id].outcome = "committed"
      /\ turns'[frame.id].request = turns[frame.id].request
      /\ turns'[frame.id].requested = turns[frame.id].requested
      /\ \A i \in Interactions \ {frame.id} : turns'[i] = turns[i]
  BY <1>1, <1>3 DEF Turn, Outcomes
<1>5. /\ \A i \in Interactions : Asked(i)' = Asked(i)
      /\ \A i \in Interactions : (turns'[i].kind # "absent") <=> (turns[i].kind # "absent")
  BY <1>2, <1>4, NoFrameFields DEF Asked
<1>6. UNCHANGED <<story, held, posted, engineBusy, engineDead>>
  BY DEF engineVars
<1>7. Types'
  BY <1>4, <1>6, NoFrameFields DEF IInv, Types, Heard
<1>8. TurnInv'
  <2>1. TurnOK(turns'[frame.id], Len(log'))
    BY <1>1, <1>4, OtherTurns DEF TurnOK
  <2> QED BY <1>4, <2>1, OtherTurns DEF TurnInv
<1>9. FrameInv'
  BY <1>7, NoFrameFields DEF FrameInv, Types
<1>10. CountInv'
  BY <1>5, SameCount
<1>11. AskedInv' /\ StoryInv' /\ EngineInv' /\ TruthInv'
  <2>1. ASSUME NEW i \in Interactions
        PROVE  /\ turns'[i].outcome = "uncertain" =>
                    turns[i].outcome = "uncertain" /\ ~(frame.id = i /\ Landed)
               /\ turns[i].outcome = "uncertain" =>
                    turns'[i].outcome = "uncertain" \/ held = None
               /\ (turns'[i].kind \in {"settled", "complete"}
                     /\ turns'[i].outcome # "uncertain" /\ turns'[i].request # None)
                    => ((turns'[i].outcome = "committed") <=> Applied(turns'[i].request) # {})
    <3>1. CASE i = frame.id
      BY <1>1, <1>2, <1>4, <3>1
    <3>2. CASE i # frame.id
      BY <1>4, <3>2 DEF IInv, TruthInv
    <3> QED BY <3>1, <3>2
  <2>2. frame'.stage # "execute" /\ ~Landed'
    BY NoFrameFields DEF Landed
  <2> QED BY <1>1, <1>5, <1>6, <2>1, <2>2, CalmStep
<1>12. IntentInv'
  BY IntentKept, NoFrameFields DEF IntentInv
<1> QED BY <1>7, <1>8, <1>9, <1>10, <1>11, <1>12 DEF IInv, Heard

\* An operation that is over with a commit.
LEMMA ConcludePreserves ==
  ASSUME IInv, Heard, Landed, Conclude, UNCHANGED engineVars, intent' = intent
  PROVE  IInv'
<1>1. frame.op \in {"turn", "recover"} /\ frame.stage # "execute"
  BY LandedFacts
<1>2. CASE frame.op = "turn"
  <2>1. Settle("committed") /\ "committed" \in Outcomes
    BY <1>2 DEF Conclude, Outcomes
  <2> QED BY <1>1, <1>2, <2>1, TurnEnds
<1>3. CASE frame.op = "recover"
  <2>1. /\ activeId' = None /\ frame' = NoFrame
        /\ turns' = [turns EXCEPT ![frame.id].kind = "complete",
                                  ![frame.id].outcome = "committed"]
        /\ UNCHANGED <<opening, introduction, nextRequest, preludes>>
    BY <1>3 DEF Conclude
  <2> QED BY <1>3, <2>1, RecoverEnds
<1> QED BY <1>1, <1>2, <1>3

\* What is told after a commit: a checkpoint of its revision or the failure to take
\* one, and what becomes of its narration.
LEMMA CheckpointTold ==
  ASSUME IInv, frame.stage = "snapshot",
         NEW types \in {<<"save.checkpointed">>, <<"save.failed", "system.error">>}, NEW told,
         told = log \o Chain(frame.id, frame.cause, types, frame.request, Len(story)),
         \/ log' = told
         \/ \E type \in {"narration.cancelled", "narration.requested"} :
              log' = Append(told, [type |-> type, id |-> frame.id, cause |-> frame.cause,
                                   request |-> frame.request, revision |-> frame.revision]),
         story' = story, opening' = opening
  PROVE  Heard /\ told \in Seq(Event) /\ Len(told) \in Nat
<1>0. /\ frame.id \in Ids /\ frame.cause \in Nat /\ frame.cause <= Len(log)
      /\ frame.cause # 0 /\ frame.request \in Request \cup {None}
      /\ frame.revision \in Nat /\ log[frame.cause].revision = Len(story)
      /\ log \in Seq(Event) /\ Len(log) \in Nat /\ Len(story) \in Nat
  <2>1. Landed
    BY DEF Landed
  <2> QED BY <2>1, LandedFacts DEF IInv, Types, FrameType, FrameInv, EngineInv
<1>1. /\ types \in Seq(EventTypes) /\ Len(types) \in {1, 2}
      /\ types[1] \in {"save.checkpointed", "save.failed"}
      /\ Len(types) = 2 => types[2] = "system.error"
  <2>1. CASE types = <<"save.checkpointed">>
    BY <2>1 DEF EventTypes
  <2>2. CASE types = <<"save.failed", "system.error">>
    BY <2>2 DEF EventTypes
  <2> QED BY <2>1, <2>2
<1>2. Appended(told, frame.id, frame.cause, types, frame.request, Len(story))
  BY <1>0, <1>1, ChainAppended
<1>3. /\ told \in Seq(Event) /\ Len(told) = Len(log) + Len(types)
      /\ \A k \in 1..Len(log) : told[k] = log[k]
  BY <1>2 DEF Appended
<1>4. ASSUME NEW k \in 1..Len(types)
      PROVE  /\ told[Len(log) + k].type = types[k]
             /\ told[Len(log) + k].cause = IF k = 1 THEN frame.cause ELSE Len(log) + k - 1
             /\ told[Len(log) + k].revision = Len(story)
  <2> DEFINE x == IF k = 1 THEN frame.cause ELSE Len(log) + k - 1
  <2>1. told[Len(log) + k] = [type |-> types[k], id |-> frame.id, cause |-> x,
                              request |-> frame.request, revision |-> Len(story)]
    BY <1>2 DEF Appended
  <2> HIDE DEF x
  <2>2. /\ told[Len(log) + k].type = types[k] /\ told[Len(log) + k].cause = x
        /\ told[Len(log) + k].revision = Len(story)
    BY <2>1
  <2> QED BY <2>2 DEF x
<1>5. /\ told[Len(log) + 1].type \in {"save.checkpointed", "save.failed"}
      /\ told[Len(log) + 1].cause = frame.cause /\ told[Len(log) + 1].revision = Len(story)
      /\ Len(types) = 2 => told[Len(log) + 2].type = "system.error"
                             /\ told[Len(log) + 2].cause = Len(log) + 1
  <2>1. 1 \in 1..Len(types)
    BY <1>1
  <2>2. /\ told[Len(log) + 1].type = types[1] /\ told[Len(log) + 1].cause = frame.cause
        /\ told[Len(log) + 1].revision = Len(story)
    BY <1>4, <2>1
  <2>3. ASSUME Len(types) = 2
        PROVE  told[Len(log) + 2].type = "system.error" /\ told[Len(log) + 2].cause = Len(log) + 1
    <3>1. 2 \in 1..Len(types)
      BY <2>3
    <3> PICK two : two = 2
      OBVIOUS
    <3>2. /\ told[Len(log) + two].type = types[two]
          /\ told[Len(log) + two].cause = IF two = 1 THEN frame.cause ELSE Len(log) + two - 1
      BY <1>4, <3>1
    <3> QED BY <1>0, <1>1, <2>3, <3>2
  <2> QED BY <1>1, <2>2, <2>3
<1>6. ASSUME NEW k \in 1..Len(told), k > Len(log)
      PROVE  /\ told[k].cause < k
             /\ told[k].type \notin {"engine.command.committed", "engine.output"}
             /\ told[k].type = "save.checkpointed" =>
                  told[k].cause \in 1..Len(log) /\ told[k].revision = log[told[k].cause].revision
  <2>1. CASE k = Len(log) + 1
    BY <1>0, <1>5, <2>1
  <2>2. CASE k = Len(log) + 2 /\ Len(types) = 2
    BY <1>0, <1>5, <2>2
  <2>3. k = Len(log) + 1 \/ (k = Len(log) + 2 /\ Len(types) = 2)
    <3>1. CASE Len(types) = 1
      BY <1>0, <1>3, <1>6, <3>1
    <3>2. CASE Len(types) = 2
      <4>1. k \in 1..(Len(log) + 2)
        BY <1>3, <3>2
      <4> QED BY <1>0, <1>6, <3>2, <4>1
    <3> QED BY <1>1, <3>1, <3>2
  <2> QED BY <2>1, <2>2, <2>3
<1>7. Len(told) \in Nat /\ Len(told) > Len(log)
  BY <1>0, <1>1, <1>3
<1>8. CASE log' = told
  <2>1. Len(log') >= Len(log) /\ Len(log') = Len(told)
    BY <1>0, <1>7, <1>8
  <2> QED BY <1>3, <1>6, <1>7, <1>8, <2>1, QuietLog
<1>9. ASSUME NEW type \in {"narration.cancelled", "narration.requested"},
             log' = Append(told, [type |-> type, id |-> frame.id, cause |-> frame.cause,
                                  request |-> frame.request, revision |-> frame.revision])
      PROVE  Heard
  <2>1. PICK e : e = [type |-> type, id |-> frame.id, cause |-> frame.cause,
                      request |-> frame.request, revision |-> frame.revision]
    OBVIOUS
  <2>2. e \in Event /\ e.type = type /\ e.cause = frame.cause
    BY <1>0, <2>1 DEF Event, EventTypes
  <2>3. log' = Append(told, e)
    BY <1>9, <2>1
  <2>4. /\ log' \in Seq(Event) /\ Len(log') = Len(told) + 1 /\ log'[Len(told) + 1] = e
        /\ \A k \in 1..Len(told) : log'[k] = told[k]
    BY <1>3, <2>2, <2>3
  <2>5. Len(log') >= Len(log) /\ \A k \in 1..Len(log) : log'[k] = log[k]
    BY <1>0, <1>3, <1>7, <2>4
  <2>6. ASSUME NEW k \in 1..Len(log'), k > Len(log)
        PROVE  /\ log'[k].cause < k
               /\ log'[k].type \notin {"engine.command.committed", "engine.output"}
               /\ log'[k].type = "save.checkpointed" =>
                    log'[k].cause \in 1..Len(log) /\ log'[k].revision = log[log'[k].cause].revision
    <3>1. CASE k \in 1..Len(told)
      BY <1>6, <2>4, <2>6, <3>1
    <3>2. CASE k = Len(told) + 1
      BY <1>0, <1>7, <2>2, <2>4, <3>2
    <3>3. k \in 1..Len(told) \/ k = Len(told) + 1
      <4>1. k \in 1..(Len(told) + 1)
        BY <2>4, <2>6
      <4> QED BY <1>7, <4>1
    <3> QED BY <3>1, <3>2, <3>3
  <2>7. Heard
    BY <2>4, <2>5, <2>6, QuietLog
  <2> QED BY <2>7
<1> QED BY <1>3, <1>7, <1>8, <1>9

\* The locals of a commit that is narrated.
LEMMA CommitNarrateFields ==
  ASSUME frame \in FrameType, NEW cause \in Nat,
         frame' = [frame EXCEPT !.stage = "narrate", !.outcome = "committed", !.cause = cause]
  PROVE  /\ frame' \in FrameType
         /\ frame'.op = frame.op /\ frame'.id = frame.id /\ frame'.request = frame.request
         /\ frame'.requested = frame.requested
         /\ frame'.stage = "narrate" /\ frame'.cause = cause /\ frame'.outcome = "committed"
BY DEF FrameType, Outcomes

\* The narration of a commit begins; the commit stays what it was.
LEMMA CommitNarratePreserves ==
  ASSUME IInv, Heard, frame.stage = "snapshot", frame' \in FrameType,
         frame'.op = frame.op /\ frame'.id = frame.id /\ frame'.request = frame.request,
         frame'.requested = frame.requested /\ frame'.cause <= Len(log'),
         frame'.stage = "narrate" /\ frame'.outcome = "committed",
         UNCHANGED <<turns, activeId, opening, introduction, nextRequest, preludes>>,
         intent' = intent, UNCHANGED engineVars
  PROVE  IInv'
<1>1. UNCHANGED <<story, held, posted, engineBusy, engineDead>>
  BY DEF engineVars
<1>2. Landed /\ Landed'
  BY DEF Landed
<1>3. /\ frame.op \in {"turn", "recover"} /\ frame.id \in Interactions /\ frame.request # None
      /\ Logged(frame.request) /\ posted = None /\ held = None
  BY <1>2, LandedFacts
<1>4. Types'
  BY <1>1 DEF IInv, Types, Heard
<1>5. TurnInv'
  BY OtherTurns DEF TurnInv
<1>6. FrameInv'
  <2>1. frame.requested <= Len(log') /\ activeId = frame.id
    BY DEF IInv, Types, FrameInv, FrameType, Heard
  <2>2. /\ frame.op = "turn" => turns[frame.id].kind = "pending"
        /\ frame.op = "recover" =>
             turns[frame.id].kind = "uncertain" /\ turns[frame.id].request = frame.request
    BY DEF IInv, FrameInv
  <2> QED BY <1>2, <1>3, <2>1, <2>2 DEF FrameInv
<1>7. /\ \A i \in Interactions : Asked(i)' = Asked(i)
      /\ \A i \in Interactions : Waiting(i)' <=> Waiting(i)
  BY DEF Asked, Waiting
<1>8. AskedInv' /\ StoryInv' /\ CountInv'
  BY <1>1, <1>7, SameAsked, SameCount
<1>9. \A r : (Logged(r)' <=> Logged(r)) /\ Applied(r)' = Applied(r)
  <2>1. \A r : Logged(r)' <=> Logged(r)
    BY HeardCommits DEF IInv
  <2>2. \A r : Applied(r)' = Applied(r)
    BY <1>1 DEF Applied
  <2> QED BY <2>1, <2>2
<1>10. EngineInv'
  <2>1. \A n \in 1..Len(story) : Logged(story[n])
    <3>1. \A n \in 1..Len(story) : story[n] # None
      BY NoneDistinct DEF IInv, Types
    <3> QED BY <1>3, <3>1 DEF IInv, EngineInv, Pursued
  <2>2. \A n \in 1..Len(story) : Logged(story[n])'
    BY <1>1, <1>9, <2>1
  <2>3. Logged(frame.request)'
    BY <1>3, <1>9
  <2> QED BY <1>1, <1>3, <2>2, <2>3 DEF EngineInv
<1>11. TruthInv'
  <2>1. ASSUME NEW i \in Interactions, Waiting(i)', ~(frame'.id = i /\ Landed')
        PROVE  ~Logged(Asked(i))'
    <3>1. ~Logged(Asked(i)) /\ Asked(i)' = Asked(i)
      BY <1>2, <1>7, <2>1 DEF IInv, TruthInv
    <3> QED BY <1>9, <3>1
  <2> QED BY <1>1, <1>9, <2>1 DEF IInv, TruthInv
<1>12. IntentInv'
  BY IntentKept DEF IntentInv
<1> QED BY <1>4, <1>5, <1>6, <1>8, <1>10, <1>11, <1>12 DEF IInv, Heard

\* The checkpoint is told, and the narration begins or the operation is over.
LEMMA CheckpointPreserves ==
  ASSUME IInv, Checkpoint
  PROVE  IInv'
<1>1. frame.stage = "snapshot" /\ intent' = intent /\ UNCHANGED engineVars /\ story' = story
  BY DEF Checkpoint, engineVars
<1>2. Landed /\ frame.revision = Len(story)
  BY <1>1 DEF IInv, EngineInv, Landed
<1>3. PICK saved \in BOOLEAN, blank \in BOOLEAN :
        LET told == log \o Chain(frame.id, frame.cause,
                           IF saved THEN <<"save.checkpointed">>
                                    ELSE <<"save.failed", "system.error">>,
                           frame.request, IF saved THEN Len(story) ELSE frame.revision)
            Then(type) == Append(told, [type |-> type, id |-> frame.id, cause |-> frame.cause,
                                        request |-> frame.request, revision |-> frame.revision])
        IN
          \/ log' = Then("narration.cancelled") /\ Conclude
          \/ log' = told /\ Conclude
          \/ /\ log' = Then("narration.requested")
             /\ frame' = [frame EXCEPT !.stage = "narrate", !.outcome = "committed",
                                       !.cause = Len(told) + 1]
             /\ UNCHANGED <<turns, activeId, opening, introduction, nextRequest, preludes>>
  BY DEF Checkpoint
<1> PICK types : types = IF saved THEN <<"save.checkpointed">>
                         ELSE <<"save.failed", "system.error">>
  OBVIOUS
<1> PICK told : told = log \o Chain(frame.id, frame.cause, types, frame.request, Len(story))
  OBVIOUS
<1>4. types \in {<<"save.checkpointed">>, <<"save.failed", "system.error">>}
  OBVIOUS
<1>5. \/ /\ log' = Append(told, [type |-> "narration.cancelled", id |-> frame.id,
                                 cause |-> frame.cause, request |-> frame.request,
                                 revision |-> frame.revision])
         /\ Conclude
      \/ log' = told /\ Conclude
      \/ /\ log' = Append(told, [type |-> "narration.requested", id |-> frame.id,
                                 cause |-> frame.cause, request |-> frame.request,
                                 revision |-> frame.revision])
         /\ frame' = [frame EXCEPT !.stage = "narrate", !.outcome = "committed",
                                   !.cause = Len(told) + 1]
         /\ UNCHANGED <<turns, activeId, opening, introduction, nextRequest, preludes>>
  BY <1>2, <1>3
<1>6. opening' = opening
  BY <1>5 DEF Conclude, Settle
<1>7. Heard /\ told \in Seq(Event) /\ Len(told) \in Nat
  BY <1>1, <1>4, <1>5, <1>6, CheckpointTold
<1>8. CASE Conclude
  BY <1>1, <1>2, <1>7, <1>8, ConcludePreserves
<1>9. CASE /\ log' = Append(told, [type |-> "narration.requested", id |-> frame.id,
                                   cause |-> frame.cause, request |-> frame.request,
                                   revision |-> frame.revision])
           /\ frame' = [frame EXCEPT !.stage = "narrate", !.outcome = "committed",
                                     !.cause = Len(told) + 1]
           /\ UNCHANGED <<turns, activeId, opening, introduction, nextRequest, preludes>>
  <2>1. frame \in FrameType /\ Len(told) + 1 \in Nat
    BY <1>7 DEF IInv, Types
  <2>2. frame' = [frame EXCEPT !.stage = "narrate", !.outcome = "committed",
                               !.cause = Len(told) + 1]
    BY <1>9
  <2>3. /\ frame' \in FrameType
        /\ frame'.op = frame.op /\ frame'.id = frame.id /\ frame'.request = frame.request
        /\ frame'.requested = frame.requested /\ frame'.stage = "narrate"
        /\ frame'.cause = Len(told) + 1 /\ frame'.outcome = "committed"
    BY <2>1, <2>2, CommitNarrateFields
  <2>4. Len(log') = Len(told) + 1
    BY <1>7, <1>9
  <2>5. frame'.cause <= Len(log')
    BY <1>7, <2>3, <2>4
  <2> QED BY <1>1, <1>7, <1>9, <2>3, <2>5, CommitNarratePreserves
<1> QED BY <1>5, <1>8, <1>9

\* The events of a narration that is over.
LEMMA NarrationTold ==
  ASSUME IInv, frame.id \in Ids, NEW outcome \in NarrationOutcomes, Narration(outcome),
         story' = story, opening'.source = opening.source
  PROVE  Heard
<1>1. NarrationEvents(outcome) \in Seq(EventTypes \ Loud)
  <2>1. /\ <<"narration.ready">> \in Seq(EventTypes \ Loud)
        /\ <<"narration.cancelled">> \in Seq(EventTypes \ Loud)
        /\ <<"narration.failed", "system.error">> \in Seq(EventTypes \ Loud)
    BY DEF EventTypes, Loud
  <2>2. CASE outcome = "ready"
    BY <2>1, <2>2 DEF NarrationEvents
  <2>3. CASE outcome = "cancelled"
    BY <2>1, <2>3 DEF NarrationEvents
  <2>4. CASE outcome = "failed"
    BY <2>1, <2>4 DEF NarrationEvents
  <2> QED BY <2>2, <2>3, <2>4 DEF NarrationOutcomes
<1>2. Says(NarrationEvents(outcome))
  BY DEF Narration
<1> QED BY <1>1, <1>2, SaysTells

\* A narrated turn has the outcome it was narrated for.
LEMMA NarratedPreserves ==
  ASSUME IInv, Narrated
  PROVE  IInv'
<1>1. /\ frame.op \in {"turn", "recover"} /\ frame.stage = "narrate" /\ UNCHANGED engineVars
      /\ story' = story
  BY DEF Narrated, engineVars
<1>2. opening' = opening
  BY DEF Narrated, Conclude, Settle
<1>3. Heard
  <2>1. PICK outcome \in NarrationOutcomes : Narration(outcome)
    BY DEF Narrated
  <2> QED BY <1>1, <1>2, <2>1, FrameId, NarrationTold
<1>4. CASE frame.outcome = "committed"
  <2>1. Landed /\ Conclude /\ intent' = intent
    BY <1>1, <1>4 DEF Narrated, Landed
  <2> QED BY <1>1, <1>3, <2>1, ConcludePreserves
<1>5. CASE frame.outcome # "committed"
  <2>1. ~Landed /\ frame.op = "turn" /\ frame.outcome \in Outcomes
        /\ frame.outcome # "uncertain"
    BY <1>1, <1>5 DEF Landed, IInv, Types, FrameType, FrameInv
  <2>2. /\ Settle(frame.outcome)
        /\ intent' = IF frame.outcome = "clarified" THEN frame.intent ELSE intent
    BY <1>5 DEF Narrated
  <2>3. PICK outcome \in Outcomes : outcome = frame.outcome
    BY <2>1
  <2>4. Settle(outcome) /\ outcome # "uncertain" /\ ((outcome = "committed") <=> Landed)
    BY <1>5, <2>1, <2>2, <2>3
  <2>5. intent' \in {intent, None} \/ (frame.outcome = "clarified" /\ intent' = frame.intent)
    BY <2>2
  <2> QED BY <1>1, <1>3, <2>1, <2>4, <2>5, TurnEnds
<1> QED BY <1>4, <1>5

-----------------------------------------------------------------------------
(* The opening gate and the role introduction.                             *)

\* A step of the opening or the introduction, which have no request.
LEMMA PreludeStep ==
  ASSUME IInv, Heard, frame.op \notin {"turn", "recover"}, frame'.op \notin {"turn", "recover"},
         UNCHANGED <<turns, nextRequest, intent, story, held, posted, engineDead>>,
         engineBusy' \in BOOLEAN, opening' \in OpeningType, frame' \in FrameType, FrameInv'
  PROVE  IInv'
<1>1. /\ frame.stage # "execute" /\ frame.outcome = "none" /\ ~Landed
      /\ frame'.stage # "execute" /\ frame'.outcome = "none" /\ ~Landed'
  <2>1. frame.stage \notin {"execute", "snapshot"} /\ frame.outcome = "none"
    BY NoFrameFields DEF IInv, Types, FrameType, FrameInv
  <2>2. frame'.stage \notin {"execute", "snapshot"} /\ frame'.outcome = "none"
    BY NoFrameFields DEF FrameType, FrameInv
  <2> QED BY <2>1, <2>2 DEF Landed
<1>2. Types'
  BY DEF IInv, Types, Heard
<1>3. TurnInv'
  BY OtherTurns DEF TurnInv
<1>4. \A i \in Interactions : Asked(i)' = Asked(i)
  BY DEF Asked
<1>5. CountInv'
  BY <1>4, SameCount
<1>6. AskedInv' /\ StoryInv' /\ EngineInv' /\ TruthInv'
  <2>1. \A i \in Interactions :
          (turns[i].kind \in {"settled", "complete"} /\ turns[i].outcome # "uncertain"
             /\ turns[i].request # None)
            => ((turns[i].outcome = "committed") <=> Applied(turns[i].request) # {})
    BY DEF IInv, TruthInv
  <2> QED BY <1>1, <1>4, <2>1, CalmStep
<1>7. IntentInv'
  BY <1>1, IntentKept DEF IntentInv
<1> QED BY <1>2, <1>3, <1>5, <1>6, <1>7 DEF IInv, Heard

\* A prelude that is over.
LEMMA PreludeEnds ==
  ASSUME IInv, Heard, frame.op \notin {"turn", "recover"}, frame' = NoFrame, activeId' = None,
         UNCHANGED <<turns, nextRequest, intent, story, held, posted, engineDead>>,
         engineBusy' \in BOOLEAN, opening' \in OpeningType
  PROVE  IInv'
<1>1. frame' \in FrameType /\ frame'.op \notin {"turn", "recover"}
  BY NoFrameFields
<1>2. FrameInv'
  BY NoFrameFields DEF FrameInv, Heard
<1> QED BY <1>1, <1>2, PreludeStep

\* The opening begins, or its narration does again.
LEMMA PrepareOpeningPreserves ==
  ASSUME IInv, PrepareOpening
  PROVE  IInv'
<1> USE NoneDistinct
<1>1. /\ frame = NoFrame /\ activeId' = Opening /\ opening' = [opening EXCEPT !.kind = "pending"]
      /\ UNCHANGED <<turns, introduction, intent, nextRequest>>
      /\ UNCHANGED <<story, held, posted, engineBusy, engineDead>>
  BY IdleFrame DEF PrepareOpening, engineVars
<1>2. opening' \in OpeningType /\ opening'.source = opening.source
  BY <1>1 DEF IInv, Types, OpeningType
<1>3. Len(log) \in Nat /\ engineBusy' \in BOOLEAN /\ frame.op = "none"
  BY <1>1, NoFrameFields DEF IInv, Types
<1>4. CASE opening.source = 0 /\ frame' = Frame("opening", Opening, "inspect", 0) /\ log' = log
  <2>1. /\ frame' \in FrameType /\ frame'.op = "opening" /\ frame'.id = Opening
        /\ frame'.stage = "inspect" /\ frame'.cause = 0 /\ frame'.request = None
        /\ frame'.requested = 0 /\ frame'.outcome = "none"
    BY <1>4, FrameFields DEF Ids
  <2>2. Heard
    BY <1>1, <1>2, <1>4, Silence
  <2>3. FrameInv'
    BY <1>1, <1>2, <1>3, <1>4, <2>1 DEF FrameInv
  <2> QED BY <1>1, <1>2, <1>3, <2>1, <2>2, <2>3, PreludeStep
<1>5. CASE /\ Emit(Opening, opening.source, <<"narration.requested">>, None, 0)
           /\ frame' = Frame("opening", Opening, "narrate", Place(1))
  <2>1. /\ frame' \in FrameType /\ frame'.op = "opening" /\ frame'.id = Opening
        /\ frame'.stage = "narrate" /\ frame'.cause = Len(log) + 1 /\ frame'.request = None
        /\ frame'.requested = 0 /\ frame'.outcome = "none"
    BY <1>3, <1>5, FrameFields DEF Ids, Place
  <2>2. Heard /\ Len(log') = Len(log) + 1
    <3>1. /\ Opening \in Ids /\ opening.source \in Nat /\ opening.source <= Len(log)
          /\ None \in Request \cup {None} /\ 0 \in Nat
          /\ <<"narration.requested">> \in Seq(EventTypes \ Loud)
          /\ Len(<<"narration.requested">>) = 1
      BY DEF Ids, EventTypes, Loud, IInv, Types, OpeningType, LogInv
    <3> QED BY <1>1, <1>2, <1>5, <3>1, Tells
  <2>3. FrameInv'
    BY <1>1, <1>2, <1>3, <2>1, <2>2 DEF FrameInv
  <2> QED BY <1>1, <1>2, <1>3, <2>1, <2>2, <2>3, PreludeStep
<1> QED BY <1>4, <1>5 DEF PrepareOpening

\* The opening is over.
LEMMA OpeningSettled ==
  ASSUME IInv, Heard, frame.op = "opening",
         NEW outcome \in {"ready", "cancelled", "failed", "thrown"}, SettleOpening(outcome),
         UNCHANGED <<turns, nextRequest, intent, story, held, posted, engineDead>>,
         engineBusy' \in BOOLEAN
  PROVE  IInv'
<1>1. /\ activeId' = None /\ frame' = NoFrame
      /\ opening' = [opening EXCEPT !.kind = "settled", !.outcome = outcome]
  BY DEF SettleOpening
<1>2. opening' \in OpeningType
  BY <1>1 DEF IInv, Types, OpeningType
<1> QED BY <1>1, <1>2, PreludeEnds

\* The opening ends without its output.
LEMMA OpeningFailsPreserves ==
  ASSUME IInv, OpeningFails
  PROVE  IInv'
<1>1. /\ frame.op = "opening" /\ SettleOpening("thrown")
      /\ UNCHANGED <<turns, introduction, intent, nextRequest, preludes, log>>
      /\ UNCHANGED <<story, held, posted, engineDead>>
      /\ opening' = [opening EXCEPT !.kind = "settled", !.outcome = "thrown"]
  BY DEF OpeningFails, At, SettleOpening
<1>2. engineBusy' \in BOOLEAN /\ opening'.source = opening.source
  BY <1>1 DEF OpeningFails, IInv, Types, OpeningType
<1>3. Heard
  BY <1>1, <1>2, Silence
<1> QED BY <1>1, <1>2, <1>3, OpeningSettled

\* The opening's output is the first of its kind.
LEMMA OpeningPublishedPreserves ==
  ASSUME IInv, OpeningPublished
  PROVE  IInv'
<1> USE NoneDistinct
<1> PICK P : P = Len(log) + 1
  OBVIOUS
<1>1. /\ frame.op = "opening" /\ frame.stage = "inspect"
      /\ Emit(Opening, 0, <<"engine.output", "narration.requested">>, None, 0)
      /\ opening' = [opening EXCEPT !.source = Place(1)]
      /\ frame' = [frame EXCEPT !.stage = "narrate", !.cause = Place(2)]
      /\ UNCHANGED <<turns, activeId, introduction, intent, nextRequest, preludes>>
      /\ UNCHANGED <<story, held, posted, engineBusy, engineDead>>
  BY DEF OpeningPublished, At, engineVars
<1>2. /\ Len(log) \in Nat /\ P \in Nat /\ P # 0 /\ opening.source = 0 /\ log \in Seq(Event)
      /\ engineBusy' \in BOOLEAN
  BY <1>1 DEF IInv, Types, FrameInv
<1>3. opening' \in OpeningType /\ opening'.source = P
  BY <1>1, <1>2 DEF IInv, Types, OpeningType, Place
<1>4. /\ log' \in Seq(Event) /\ Len(log') = P + 1
      /\ \A k \in 1..Len(log) : log'[k] = log[k]
      /\ log'[P].type = "engine.output" /\ log'[P].id = Opening /\ log'[P].cause = 0
      /\ log'[P + 1].type = "narration.requested" /\ log'[P + 1].cause = P
  <2> PICK types : types = <<"engine.output", "narration.requested">>
    OBVIOUS
  <2>1. /\ types \in Seq(EventTypes) /\ Len(types) = 2 /\ 1 \in 1..2 /\ 2 \in 1..2
        /\ types[1] = "engine.output" /\ types[2] = "narration.requested"
    BY DEF EventTypes
  <2>2. Appended(log', Opening, 0, types, None, 0)
    <3>1. log' = log \o Chain(Opening, 0, types, None, 0)
      BY <1>1 DEF Emit
    <3>2. Opening \in Ids /\ 0 <= Len(log) /\ None \in Request \cup {None} /\ 0 \in Nat
      BY <1>2 DEF Ids
    <3> QED BY <1>2, <2>1, <3>1, <3>2, ChainAppended
  <2>3. log'[Len(log) + 1] = [type |-> types[1], id |-> Opening, cause |-> 0,
                              request |-> None, revision |-> 0]
    BY <2>1, <2>2 DEF Appended
  <2>4. log'[Len(log) + 2] = [type |-> types[2], id |-> Opening, cause |-> Len(log) + 2 - 1,
                              request |-> None, revision |-> 0]
    BY <2>1, <2>2 DEF Appended
  <2>5. log'[P].type = "engine.output" /\ log'[P].id = Opening /\ log'[P].cause = 0
    BY <2>1, <2>3
  <2>6. log'[P + 1].type = "narration.requested" /\ log'[P + 1].cause = P
    <3>1. P + 1 = Len(log) + 2 /\ Len(log) + 2 - 1 = P
      BY <1>2
    <3> QED BY <2>1, <2>4, <3>1
  <2>7. /\ log' \in Seq(Event) /\ Len(log') = Len(log) + 2
        /\ \A k \in 1..Len(log) : log'[k] = log[k]
    BY <2>1, <2>2 DEF Appended
  <2>8. Len(log) + 2 = P + 1
    BY <1>2
  <2> QED BY <2>5, <2>6, <2>7, <2>8
<1>5. \A k \in 1..Len(log') : k \in 1..Len(log) \/ k = P \/ k = P + 1
  BY <1>2, <1>4
<1>6. Heard
  <2>1. Len(log') >= Len(log) /\
        \A k \in 1..Len(log') : k > Len(log) => log'[k].type # "engine.command.committed"
    BY <1>2, <1>4, <1>5
  <2>2. ASSUME NEW k \in 1..Len(log')
        PROVE  /\ log'[k].cause < k
               /\ log'[k].type = "engine.command.committed" =>
                    /\ log'[k].revision \in 1..Len(story)
                    /\ story[log'[k].revision] = log'[k].request
               /\ log'[k].type = "engine.output" =>
                    \/ log'[k].id = Opening /\ log'[k].cause = 0 /\ P = k
                    \/ /\ log'[k].cause # 0 /\ log'[k].cause = k - 1
                       /\ log'[k - 1].type = "engine.command.committed"
                       /\ log'[k - 1].request = log'[k].request
               /\ log'[k].type = "save.checkpointed" =>
                    log'[k].cause # 0 /\ log'[k].revision = log'[log'[k].cause].revision
    <3>1. CASE k = P
      BY <1>2, <1>4, <3>1
    <3>2. CASE k = P + 1
      BY <1>2, <1>4, <3>2
    <3>3. CASE k \in 1..Len(log)
      <4>0. log[k] \in Event
        BY <1>2, <3>3
      <4>1. log'[k] = log[k] /\ log[k].cause \in Nat /\ log[k].cause < k
        BY <1>4, <3>3, <4>0 DEF IInv, LogInv, Event
      <4>2. log[k].cause # 0 => log'[log[k].cause] = log[log[k].cause]
        BY <1>2, <1>4, <3>3, <4>1
      <4>3. k - 1 = log[k].cause /\ log[k].cause # 0 => log'[k - 1] = log[k - 1]
        BY <4>2
      <4>4. k # 0
        BY <3>3
      <4> QED BY <1>2, <3>3, <4>1, <4>2, <4>3, <4>4 DEF IInv, LogInv
    <3> QED BY <1>5, <3>1, <3>2, <3>3
  <2>3. Events("engine.command.committed")' = Events("engine.command.committed")
    BY <1>2, <1>4, <1>5 DEF Events
  <2>4. \A j, k \in Events("engine.command.committed") : log'[j].request = log'[k].request => j = k
    BY <1>4 DEF Events, IInv, LogInv
  <2>5. P <= Len(log')
    BY <1>2, <1>4
  <2>6. LogInv'
    BY <1>1, <1>3, <2>2, <2>3, <2>4, <2>5 DEF LogInv
  <2> QED BY <1>4, <2>1, <2>6 DEF Heard
<1>7. /\ frame' \in FrameType /\ frame'.op = "opening" /\ frame'.id = frame.id
      /\ frame'.stage = "narrate" /\ frame'.cause = P + 1 /\ frame'.request = frame.request
      /\ frame'.requested = frame.requested /\ frame'.outcome = frame.outcome
  <2>1. frame \in FrameType /\ P + 1 \in Nat /\ Place(2) = P + 1
    BY <1>2 DEF IInv, Types, Place
  <2>2. frame' = [frame EXCEPT !.stage = "narrate", !.cause = P + 1]
    BY <1>1, <2>1
  <2>3. /\ frame' \in FrameType
        /\ frame'.op = frame.op /\ frame'.id = frame.id /\ frame'.request = frame.request
        /\ frame'.requested = frame.requested /\ frame'.revision = frame.revision
        /\ frame'.stage = "narrate" /\ frame'.cause = P + 1
        /\ frame'.outcome = frame.outcome /\ frame'.intent = frame.intent
    BY <2>1, <2>2, StageFields
  <2> QED BY <1>1, <2>3
<1>8. FrameInv'
  <2>1. /\ frame.id = Opening /\ frame.request = None /\ frame.outcome = "none"
        /\ activeId = frame.id /\ frame.requested \in Nat /\ frame.requested <= Len(log)
    BY <1>1 DEF IInv, Types, FrameType, FrameInv
  <2> QED BY <1>1, <1>2, <1>4, <1>7, <2>1 DEF FrameInv
<1> QED BY <1>1, <1>2, <1>3, <1>6, <1>7, <1>8, PreludeStep

\* The opening has been narrated, or has not.
LEMMA OpeningNarratedPreserves ==
  ASSUME IInv, OpeningNarrated
  PROVE  IInv'
<1>1. /\ frame.op = "opening" /\ UNCHANGED <<turns, introduction, intent, nextRequest, preludes>>
      /\ UNCHANGED <<story, held, posted, engineBusy, engineDead>>
  BY DEF OpeningNarrated, At, engineVars
<1>2. PICK outcome \in NarrationOutcomes : Narration(outcome) /\ SettleOpening(outcome)
  BY DEF OpeningNarrated
<1>3. opening'.source = opening.source /\ engineBusy' \in BOOLEAN
  BY <1>1, <1>2 DEF SettleOpening, IInv, Types, OpeningType
<1>4. Heard
  BY <1>1, <1>2, <1>3, FrameId, NarrationTold
<1>5. outcome \in {"ready", "cancelled", "failed", "thrown"}
  BY DEF NarrationOutcomes
<1> QED BY <1>1, <1>2, <1>3, <1>4, <1>5, OpeningSettled

\* The introduction begins.
LEMMA PrepareRoleIntroductionPreserves ==
  ASSUME IInv, PrepareRoleIntroduction
  PROVE  IInv'
<1> USE NoneDistinct
<1>1. /\ frame = NoFrame /\ activeId' = Introduction
      /\ Emit(Introduction, 0, <<"experience.role-introduction", "narration.requested">>, None, 0)
      /\ frame' = Frame("introduction", Introduction, "narrate", Place(2))
      /\ UNCHANGED <<turns, opening, intent, nextRequest>>
      /\ UNCHANGED <<story, held, posted, engineBusy, engineDead>>
  BY IdleFrame DEF PrepareRoleIntroduction, engineVars
<1>2. /\ Len(log) \in Nat /\ engineBusy' \in BOOLEAN /\ opening' \in OpeningType
      /\ frame.op = "none"
  BY <1>1, NoFrameFields DEF IInv, Types
<1>3. /\ frame' \in FrameType /\ frame'.op = "introduction" /\ frame'.id = Introduction
      /\ frame'.stage = "narrate" /\ frame'.cause = Len(log) + 2 /\ frame'.request = None
      /\ frame'.requested = 0 /\ frame'.outcome = "none"
  <2>1. Introduction \in Ids \cup {None} /\ Place(2) = Len(log) + 2 /\ Len(log) + 2 \in Nat
    BY <1>2 DEF Ids, Place
  <2> QED BY <1>1, <2>1, FrameFields
<1>4. Heard /\ Len(log') = Len(log) + 2
  <2>1. /\ Introduction \in Ids /\ 0 <= Len(log) /\ None \in Request \cup {None} /\ 0 \in Nat
        /\ <<"experience.role-introduction", "narration.requested">> \in Seq(EventTypes \ Loud)
        /\ Len(<<"experience.role-introduction", "narration.requested">>) = 2
    BY <1>2 DEF Ids, EventTypes, Loud
  <2> QED BY <1>1, <2>1, Tells
<1>5. FrameInv'
  BY <1>1, <1>2, <1>3, <1>4 DEF FrameInv
<1> QED BY <1>1, <1>2, <1>3, <1>4, <1>5, PreludeStep

\* The introduction is over.
LEMMA IntroductionNarratedPreserves ==
  ASSUME IInv, IntroductionNarrated
  PROVE  IInv'
<1>1. /\ frame.op = "introduction" /\ activeId' = None /\ frame' = NoFrame
      /\ UNCHANGED <<turns, opening, intent, nextRequest, preludes>>
      /\ UNCHANGED <<story, held, posted, engineBusy, engineDead>>
  BY DEF IntroductionNarrated, At, engineVars
<1>2. opening' \in OpeningType /\ engineBusy' \in BOOLEAN
  BY <1>1 DEF IInv, Types
<1>3. PICK outcome \in NarrationOutcomes : Narration(outcome)
  BY DEF IntroductionNarrated
<1>4. Heard
  BY <1>1, <1>3, FrameId, NarrationTold
<1> QED BY <1>1, <1>2, <1>4, PreludeEnds

-----------------------------------------------------------------------------
(* The invariant and what it implies.                                      *)

\* A coordinator that is made has done nothing.
LEMMA InitIInv ==
  ASSUME Init
  PROVE  IInv
<1> USE NoneDistinct
<1>1. /\ turns = [i \in Interactions |-> Absent] /\ activeId = None /\ opening = NoOpening
      /\ intent = None /\ frame = NoFrame /\ nextRequest = 1 /\ log = <<>> /\ story = <<>>
      /\ held = None /\ posted = None /\ engineBusy = FALSE /\ engineDead = FALSE
  BY DEF Init
<1>2. /\ Absent \in Turn /\ Absent.kind = "absent" /\ Absent.outcome = "none"
      /\ Absent.request = None /\ Absent.requested = 0
  BY DEF Absent, Turn
<1>3. /\ log \in Seq(Event) /\ story \in Seq(Request) /\ Len(log) = 0 /\ Len(story) = 0
      /\ 1..0 = {}
  BY <1>1
<1>4. opening \in OpeningType /\ opening.source = 0
  BY <1>1 DEF NoOpening, OpeningType
<1>5. Types
  BY <1>1, <1>2, <1>3, <1>4, NoFrameFields DEF Types
<1>6. TurnInv
  BY <1>1, <1>2, <1>3 DEF TurnInv, TurnOK
<1>7. FrameInv
  BY <1>1, <1>3, NoFrameFields DEF FrameInv
<1>8. \A i \in Interactions : Asked(i) = None /\ turns[i].kind = "absent" /\ ~Waiting(i)
  BY <1>1, <1>2, NoFrameFields DEF Asked, Waiting
<1>9. AskedInv
  BY <1>8 DEF AskedInv
<1>10. CountInv
  <2>1. Stored = {} /\ Askers = {}
    BY <1>8 DEF Stored, Askers
  <2>2. MaxTurns \in Nat
    BY CoordinatorConstants DEF CoordinatorConstants
  <2> QED BY <1>1, <2>1, <2>2, FS_EmptySet DEF CountInv
<1>11. StoryInv
  BY <1>3 DEF StoryInv
<1>12. EngineInv
  BY <1>1, <1>3, NoFrameFields DEF EngineInv, Landed
<1>13. TruthInv
  BY <1>8 DEF TruthInv
<1>14. Events("engine.command.committed") = {}
  BY <1>3 DEF Events
<1>15. LogInv
  BY <1>3, <1>4, <1>14 DEF LogInv
<1>16. IntentInv
  BY <1>1, NoFrameFields DEF IntentInv, FreshIntent
<1> QED BY <1>5, <1>6, <1>7, <1>9, <1>10, <1>11, <1>12, <1>13, <1>15, <1>16 DEF IInv

\* The invariant is about the variables only.
LEMMA StutterIInv ==
  ASSUME IInv, UNCHANGED vars
  PROVE  IInv'
<1>1. UNCHANGED coordinatorVars /\ UNCHANGED <<story, held>> /\ posted' = posted
      /\ engineBusy' = engineBusy /\ engineDead' = engineDead
  BY DEF vars, coordinatorVars
<1>2. engineDead' \in BOOLEAN
  BY <1>1 DEF IInv, Types
<1> QED BY <1>1, <1>2, EngineCalmer

\* Every step keeps it.
LEMMA StepIInv ==
  ASSUME IInv, [Next]_vars
  PROVE  IInv'
<1>1. CASE Progress
  <2>1. ASSUME NEW i \in Interactions, Store(i) PROVE IInv'
    BY <2>1, StorePreserves
  <2>2. CASE GuideFails
    BY <2>2, GuideFailsPreserves
  <2>3. ASSUME NEW outcome \in {"rejected", "failed"}, GuideRejects(outcome) PROVE IInv'
    BY <2>3, GuideRejectsPreserves
  <2>4. ASSUME NEW remembers \in BOOLEAN, GuideClarifies(remembers) PROVE IInv'
    BY <2>4, GuideClarifiesPreserves
  <2>5. CASE GuideExplains
    BY <2>5, GuideExplainsPreserves
  <2>6. CASE GuideExecutes
    BY <2>6, GuideExecutesPreserves
  <2>7. CASE InspectFails
    BY <2>7, InspectEndsPreserves DEF InspectFails
  <2>8. CASE CancelAfterInspect
    BY <2>8, InspectEndsPreserves DEF CancelAfterInspect
  <2>9. CASE RequestCommand
    BY <2>9, RequestCommandPreserves
  <2>10. CASE ExecuteLost
    BY <2>10, ExecuteLostPreserves
  <2>11. CASE EngineRejected
    BY <2>11, EngineRejectedPreserves
  <2>12. CASE EngineCommitted
    BY <2>12, EngineCommittedPreserves
  <2>13. CASE Checkpoint
    BY <2>13, CheckpointPreserves
  <2>14. CASE Narrated
    BY <2>14, NarratedPreserves
  <2>15. CASE RecoveryLost
    BY <2>15, RecoveryLostPreserves
  <2>16. CASE OpeningFails
    BY <2>16, OpeningFailsPreserves
  <2>17. CASE OpeningPublished
    BY <2>17, OpeningPublishedPreserves
  <2>18. CASE OpeningNarrated
    BY <2>18, OpeningNarratedPreserves
  <2>19. CASE StoreOpening
    BY <2>19, StoreOpeningPreserves
  <2>20. CASE IntroductionNarrated
    BY <2>20, IntroductionNarratedPreserves
  <2> QED BY <1>1, <2>1, <2>2, <2>3, <2>4, <2>5, <2>6, <2>7, <2>8, <2>9, <2>10, <2>11, <2>12,
             <2>13, <2>14, <2>15, <2>16, <2>17, <2>18, <2>19, <2>20 DEF Progress
<1>2. ASSUME NEW i \in Interactions, SubmitTurn(i) PROVE IInv'
  BY <1>2, SubmitTurnPreserves
<1>3. ASSUME NEW i \in Interactions, Recover(i) PROVE IInv'
  BY <1>3, RecoverPreserves
<1>4. ASSUME NEW i \in Interactions, RecordFailure(i) PROVE IInv'
  BY <1>4, RecordFailurePreserves
<1>5. CASE Abort
  BY <1>5, AbortPreserves
<1>6. CASE PrepareOpening
  BY <1>6, PrepareOpeningPreserves
<1>7. CASE PrepareRoleIntroduction
  BY <1>7, PrepareRoleIntroductionPreserves
<1>8. CASE RunTurn
  BY <1>8, RunTurnPreserves
<1>9. CASE RefuseTurn \/ EngineDies \/ EngineFree
  <2>1. /\ UNCHANGED coordinatorVars /\ UNCHANGED <<story, held>> /\ posted' \in {posted, None}
        /\ engineBusy' \in {engineBusy, FALSE} /\ engineDead' \in BOOLEAN
    BY <1>9 DEF RefuseTurn, EngineDies, EngineFree, IInv, Types
  <2> QED BY <2>1, EngineCalmer
<1>10. CASE UNCHANGED vars
  BY <1>10, StutterIInv
<1> QED BY <1>1, <1>2, <1>3, <1>4, <1>5, <1>6, <1>7, <1>8, <1>9, <1>10 DEF Next

\* The invariant holds in every state the coordinator, its callers, its providers
\* and the engine can reach.
THEOREM Inductive == Spec => []IInv
<1>1. Init => IInv
  BY InitIInv
<1>2. IInv /\ [Next]_vars => IInv'
  BY StepIInv
<1> QED BY <1>1, <1>2, PTL DEF Spec

\* Request identities are enough for the turns there is room for.
LEMMA RequestsBounded ==
  ASSUME IInv
  PROVE  nextRequest \in 1..(MaxRequests + 1)
<1>1. IsFiniteSet(Stored) /\ Cardinality(Stored) <= MaxTurns
      /\ nextRequest = Cardinality(Askers) + 1
  BY DEF IInv, CountInv
<1>2. IsFiniteSet(Askers) /\ Cardinality(Askers) <= Cardinality(Stored)
  BY <1>1, AskersStored, FS_Subset
<1>3. Cardinality(Askers) \in Nat /\ Cardinality(Stored) \in Nat
  BY <1>1, <1>2, FS_CardinalityType
<1>4. MaxTurns \in Nat /\ MaxRequests \in Nat /\ MaxTurns <= MaxRequests
  BY CoordinatorConstants DEF CoordinatorConstants
<1> QED BY <1>1, <1>2, <1>3, <1>4

\* TurnsRecorded, of every coordinator: the log commits a turn of the story once
\* and at its place, its checkpoints are of the turns they are reported for, and
\* no clarification is older than the last commit (#finishEngineResult,
\* #pendingOpeningObjectIntent).
THEOREM TurnsAreRecorded == Spec => []TurnsRecorded
<1>1. IInv => TurnsRecorded
  <2>1. SUFFICES ASSUME IInv PROVE TurnsRecorded
    OBVIOUS
  <2>2. TypeOK
    <3>1. \A i \in Interactions :
            /\ turns[i].kind \in {"absent", "pending", "settled", "complete", "uncertain"}
            /\ turns[i].outcome \in Outcomes \cup {"none"}
            /\ turns[i].request \in Request \cup {None}
      BY <2>1 DEF IInv, Types, Turn
    <3>2. Cardinality(Stored) <= MaxTurns /\ story \in Seq(Request)
      BY <2>1 DEF IInv, Types, CountInv
    <3>3. activeId \in Interactions \cup {Opening, Introduction, None}
      BY <2>1 DEF IInv, Types, FrameType, FrameInv, Ids
    <3>4. intent \in 1..Len(log) \cup {None}
      BY <2>1 DEF IInv, IntentInv, FreshIntent
    <3>5. \A k \in 1..Len(log) : log[k].cause < k
      BY <2>1 DEF IInv, LogInv
    <3>6. nextRequest \in 1..(MaxRequests + 1)
      BY <2>1, RequestsBounded
    <3> QED BY <3>1, <3>2, <3>3, <3>4, <3>5, <3>6 DEF TypeOK
  <2>3. CommittedOnce
    BY <2>1 DEF IInv, LogInv, CommittedOnce, Events
  <2>4. CheckpointIsOfTurn
    BY <2>1 DEF IInv, LogInv, CheckpointIsOfTurn, Events
  <2>5. IntentIsFresh
    BY <2>1 DEF IInv, IntentInv, FreshIntent, IntentIsFresh
  <2> QED BY <2>2, <2>3, <2>4, <2>5 DEF TurnsRecorded
<1> QED BY <1>1, Inductive, PTL

\* NoLostTurn, of every coordinator: a turn of the story the log does not have is
\* that of the operation in progress or of an uncertain interaction (#recover).
THEOREM NoTurnIsLost == Spec => []NoLostTurn
<1>1. IInv => NoLostTurn
  <2>1. SUFFICES ASSUME IInv, NEW n \in 1..Len(story), ~Logged(story[n])
                 PROVE  \/ frame # NoFrame /\ frame.request = story[n]
                        \/ \E i \in Interactions :
                             turns[i].request = story[n] /\ turns[i].outcome = "uncertain"
    BY DEF NoLostTurn, Logged
  <2>2. Pursued(story[n]) /\ story[n] # None
    BY <2>1, NoneDistinct DEF IInv, EngineInv, Types
  <2>3. CASE frame.stage = "execute" /\ frame.request = story[n]
    BY <2>3, NoFrameFields
  <2>4. CASE held = story[n]
    <3>1. PICK i \in Interactions : Asked(i) = story[n] /\ Waiting(i)
      BY <2>1, <2>2, <2>4 DEF IInv, EngineInv
    <3>2. CASE frame.id = i /\ frame.stage = "execute"
      <4>1. frame.request = story[n]
        BY <2>1, <3>1, <3>2, Executing
      <4> QED BY <3>2, <4>1, NoFrameFields
    <3>3. CASE turns[i].outcome = "uncertain"
      <4>1. ~(frame.op = "turn" /\ frame.id = i)
        BY <2>1, <3>3 DEF IInv, FrameInv, TurnInv, TurnOK
      <4> QED BY <3>1, <3>3, <4>1 DEF Asked
    <3> QED BY <3>1, <3>2, <3>3 DEF Waiting
  <2> QED BY <2>2, <2>3, <2>4 DEF Pursued
<1> QED BY <1>1, Inductive, PTL

\* OutcomeIsTrue, of every coordinator: an interaction is stored as committed if
\* and only if its command is in the story, and none that is not can still run
\* (submitTurn, #recover, against an engine that answers late or never).
THEOREM OutcomesAreTrue == Spec => []OutcomeIsTrue
<1>1. IInv => OutcomeIsTrue
  <2>1. SUFFICES ASSUME IInv, NEW i \in Interactions, turns[i].kind \in {"settled", "complete"},
                        turns[i].outcome # "uncertain", turns[i].request # None
                 PROVE  /\ (turns[i].outcome = "committed") <=> Applied(turns[i].request) # {}
                        /\ posted # turns[i].request
    BY DEF OutcomeIsTrue
  <2>2. (turns[i].outcome = "committed") <=> Applied(turns[i].request) # {}
    BY <2>1 DEF IInv, TruthInv
  <2>3. ASSUME posted = turns[i].request
        PROVE  FALSE
    <3>1. PICK w \in Interactions : Asked(w) = posted /\ Waiting(w)
      BY <2>1, <2>3, PostedWaits
    <3>2. Asked(i) = turns[i].request
      BY <2>1 DEF IInv, FrameInv, Asked
    <3>3. w = i
      BY <2>1, <2>3, <3>1, <3>2 DEF IInv, AskedInv
    <3> QED BY <2>1, <3>1, <3>3, WaitingNotFinal
  <2> QED BY <2>2, <2>3
<1> QED BY <1>1, Inductive, PTL

\* OutputHasSource, of every coordinator: every output in the log is the boot's,
\* published once whatever is retried, or that of the one commit before it
\* (#runOpening, #finishEngineResult).
THEOREM OutputsHaveSource == Spec => []OutputHasSource
<1>1. IInv => OutputHasSource
  <2>1. SUFFICES ASSUME IInv PROVE OutputHasSource
    OBVIOUS
  <2>2. ASSUME NEW k \in Events("engine.output")
        PROVE  /\ log[k].cause \in Nat /\ k \in Nat
               /\ \/ log[k].id = Opening /\ log[k].cause = 0 /\ opening.source = k
                  \/ /\ log[k].cause # 0 /\ log[k].cause = k - 1
                     /\ log[k - 1].type = "engine.command.committed"
                     /\ log[k - 1].request = log[k].request
    <3>1. k \in 1..Len(log) /\ log[k].type = "engine.output"
      BY DEF Events
    <3>2. log[k] \in Event
      BY <2>1, <3>1 DEF IInv, Types
    <3>3. \/ log[k].id = Opening /\ log[k].cause = 0 /\ opening.source = k
          \/ /\ log[k].cause # 0 /\ log[k].cause = k - 1
             /\ log[k - 1].type = "engine.command.committed"
             /\ log[k - 1].request = log[k].request
      BY <2>1, <3>1 DEF IInv, LogInv
    <3> QED BY <3>1, <3>2, <3>3 DEF Event
  <2>3. ASSUME NEW k \in Events("engine.output")
        PROVE  \/ log[k].id = Opening /\ log[k].cause = 0
               \/ /\ log[log[k].cause].type = "engine.command.committed"
                  /\ log[log[k].cause].request = log[k].request
    BY <2>2
  <2>4. ASSUME NEW j \in Events("engine.output"), NEW k \in Events("engine.output"),
               log[j].cause = log[k].cause
        PROVE  j = k
    BY <2>2, <2>4
  <2> QED BY <2>3, <2>4 DEF OutputHasSource
<1> QED BY <1>1, Inductive, PTL
=============================================================================
