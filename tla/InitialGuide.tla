---------------------------- MODULE InitialGuide ----------------------------
(***************************************************************************)
(* A turn of the guide: decideInitialGuideTurn of packages/guide-core/src/ *)
(* initial-guide.ts with the part of the turn coordinator that feeds it    *)
(* (packages/session/src/semantic-turn-coordinator.ts): the projections,   *)
(* the pending intent, and what becomes of each outcome.                   *)
(*                                                                         *)
(* The guide model may answer anything.  The game is a room with a mailbox *)
(* and a leaflet in it, and another room; its answers are true.  A turn    *)
(* whose outcome stays unknown leaves the game changed without an event,   *)
(* until a recovery, which may come after other turns.                     *)
(***************************************************************************)
EXTENDS ObservedScene

CONSTANTS
    Utterances,  \* what the player may say
    MaxTurns     \* bound: turns

ASSUME GuideConstants ==
    /\ \A u \in Utterances :
         /\ u.form \in Forms /\ u.verbs \subseteq Verbs /\ u.objs \subseteq Objects
         /\ u.act \in Verbs \cup {"none"} /\ u.arg \in Objects \cup {"it", "none"}
    /\ MaxTurns \in Nat

VARIABLES
    world,    \* #observedWorld
    scene,    \* #openingScene
    pending,  \* #pendingOpeningObjectIntent
    stage,    \* boot, idle, guide or engine
    turn,     \* the utterance, its confidence and the pending intent at its start
    command,  \* the command of the turn
    turns,    \* turns so far
    game,     \* the engine's revision and world
    owed,     \* turns whose outcome is unknown
    said,     \* the last explanation: what it claims and the outputs it cites
    past,     \* history: the game's world after each revision
    asked     \* history: how the turns since the pending intent was left ended

vars == <<world, scene, pending, stage, turn, command, turns, game, owed, said, past, asked>>
memory == <<world, scene>>

NoTurn == [u |-> [form |-> "other", act |-> "none", arg |-> "none", verbs |-> {}, objs |-> {}],
           sure |-> TRUE, pending |-> NoPending]
NoClaim == [claim |-> "none", sources |-> {}]

Init ==
    /\ world = createObservedWorld /\ scene = createOpeningScene
    /\ pending = NoPending /\ stage = "boot" /\ turn = NoTurn /\ command = NoCommand
    /\ turns = 0 /\ owed = {} /\ said = NoClaim /\ asked = {}
    /\ game = [rev |-> 0, place |-> "west", open |-> FALSE, leaflet |-> "inside"]
    /\ past = <<game>>

-----------------------------------------------------------------------------
(* The context of a turn.                                                  *)

\* The page passes its own copy of the world's current objects, so the observed
\* objects are these.
Observed == world.current

\* sceneForGuide: the scene is used only while it agrees with the world.
SceneFits ==
    (scene.current # {} \/ Observed = {}) /\ scene.current \subseteq Observed

\* #emit of a committed command and of its output: both projections take each in.
Emit(committed, output) ==
    /\ world' = projectObservedWorld(projectObservedWorld(world, committed), output)
    /\ scene' = projectOpeningScene(projectOpeningScene(scene, committed), output)

\* prepareOpening: fresh projections, then the output of revision zero.
Boot ==
    /\ stage = "boot"
    /\ stage' = "idle"
    /\ world' = projectObservedWorld(createObservedWorld, Output(0, "boot", 0))
    /\ scene' = projectOpeningScene(createOpeningScene, Output(0, "boot", 0))
    /\ UNCHANGED <<pending, turn, command, turns, game, owed, said, past, asked>>

-----------------------------------------------------------------------------
(* decideInitialGuideTurn up to the model.                                 *)

Result(kind, cmd, left, claim) ==
    [kind |-> kind, command |-> cmd, pending |-> left, said |-> claim]
Execute(cmd) == Result("execute", cmd, NoPending, NoClaim)
Clarify(left) == Result("clarify", NoCommand, left, NoClaim)
Explain(claim) == Result("explain", NoCommand, NoPending, claim)
Rejected == Result("rejected", NoCommand, NoPending, NoClaim)
Failed == Result("failed", NoCommand, NoPending, NoClaim)
AskModel == Result("model", NoCommand, NoPending, NoClaim)

\* Mutant: a choice is left even when the scene suggests nothing.
ClarifyObjectAnyway(object) == Clarify(PendingChoice(object, suggestion(scene, object)))

\* contextualActionChoiceClarification, contextualContentClarification
ClarifyObject(object) ==
    Clarify(IF SceneFits /\ suggestion(scene, object) # {}
            THEN PendingChoice(object, suggestion(scene, object)) ELSE NoPending)

\* A choice that the scene no longer offers.
StaleChoice(p) == p.kind = "choice" /\ ~(SceneFits /\ choiceHolds(scene, p))

\* A question about the two suggested verbs, with no other object in mind.
AboutChoice(p, u, sources) ==
    p.kind = "choice" /\ sources = p.pair /\ matchesFocus(p.object, u, Observed)

\* Mutant: "it" is whatever the player last acted on, there or not.
recentReferenceAnywhere(u) ==
    IF u.form # "do" \/ u.arg # "it" \/ world.focus = NoFocus THEN Refused("not-grounded")
    ELSE groundOpeningCommand(Command(u.act, world.focus),
                              [u EXCEPT !.arg = world.focus, !.objs = @ \cup {world.focus}],
                              world.entities)

\* groundRecentObservedObjectReference: "it" is the object of the last command
\* while it is current.
recentReference(u) ==
    LET recent == recentEntity(world)
    IN  IF u.form # "do" \/ u.arg # "it" \/ recent = NoFocus THEN Refused("not-grounded")
        ELSE groundOpeningCommand(Command(u.act, recent),
                                  [u EXCEPT !.arg = recent, !.objs = @ \cup {recent}], Observed)

\* objectScopedActionHelpTarget
asksUses(u) == u.form = "help" /\ Cardinality(mentioned(u, Observed)) = 1

\* The world without the scene: the player's own words are tried as a command;
\* words of several sentences are no canonical command and the turn fails.
worldOnly(u) ==
    LET own == IF u.form = "do" THEN groundOpeningCommand(Command(u.act, u.arg), u, Observed)
               ELSE Refused("unsupported-grammar")
        ref == recentReference(u)
    IN  IF ~canonical(u) THEN Failed
        ELSE IF own.ok THEN Execute(own.command)
        ELSE IF ref.ok THEN Execute(ref.command)
        ELSE IF asksUses(u) THEN Explain(NoClaim)
        ELSE AskModel

\* Mutant: "it" is the object of the last command, not of the choice.
pendingReplyFocus(p, u) ==
    LET choice == groundChoiceReply([p EXCEPT !.object = scene.focus], u, Observed)
    IN  IF p.kind = "action" /\ namesObserved(u, Observed) THEN Execute(Command(p.action, u.arg))
        ELSE IF p.kind = "content" /\ namesObserved(u, Observed) THEN ClarifyObject(u.arg)
        ELSE IF p.kind = "choice" /\ choice.ok THEN Execute(choice.command)
        ELSE AskModel

\* A reply to what the last clarification left.
pendingReply(p, u) ==
    LET choice == groundChoiceReply(p, u, Observed)
    IN  IF p.kind = "action" /\ namesObserved(u, Observed) THEN Execute(Command(p.action, u.arg))
        ELSE IF p.kind = "content" /\ namesObserved(u, Observed) THEN ClarifyObject(u.arg)
        ELSE IF p.kind = "choice" /\ choice.ok THEN Execute(choice.command)
        ELSE IF \/ p.kind = "choice" /\ choice.code = "unobserved"
                \/ p.kind = "choice" /\ choice.code = "not-direct" /\ actionMentioned(u)
        THEN Clarify(NoPending)
        ELSE IF inferPending(u) = PendingContent THEN Clarify(PendingContent)
        ELSE AskModel

\* The answers that need no reply: the object in focus, the content of an
\* object, the options of the pending choice, and what the scene says.
sceneReply(p, u) ==
    LET content == contentRequest(u, Observed)
        guidance == IF SceneFits THEN sceneGuidance(u, scene) ELSE NoGuidance
    IN  IF SceneFits /\ focusedObservation(u, scene) THEN Execute(Command("examine", scene.focus))
        ELSE IF content # {} THEN ClarifyObject(CHOOSE o \in content : TRUE)
        ELSE IF p.kind = "choice" /\ scopedOptionsRequested(u) THEN Clarify(p)
        ELSE IF guidance.found
        THEN Explain([claim |-> guidance.claim, sources |-> guidance.sources])
        ELSE pendingReply(p, u)

\* The context is checked before anything is decided.
contextFits == knowledgeFits(Observed) /\ isObservedWorld(world) /\ (SceneFits => isOpeningScene(scene))

\* The gates before any of these, in the order of the code.
localDecision(u, sure, p) ==
    LET content == contentRequest(u, Observed)
        own == worldOnly(u)
    IN  IF ~contextFits THEN Rejected
        ELSE IF StaleChoice(p) THEN Clarify(NoPending)
        ELSE IF ~sure THEN Clarify(p)
        ELSE IF comparison(u, Observed) = "resolved"
        THEN IF AboutChoice(p, u, u.verbs) THEN Clarify(p) ELSE Explain(NoClaim)
        ELSE IF comparison(u, Observed) = "invalid" THEN Clarify(NoPending)
        ELSE IF appearsMultiStep(u) /\ content = {} THEN Clarify(NoPending)
        ELSE IF u.form = "negated" THEN Clarify(NoPending)
        ELSE IF Observed # {} /\ ~SceneFits /\ own # AskModel THEN own
        ELSE sceneReply(p, u)

-----------------------------------------------------------------------------
(* decideInitialGuideTurn after the model.                                 *)

Decision(kind, cmd, sources) ==
    [kind |-> kind, command |-> cmd, sources |-> sources, sure |-> TRUE, more |-> FALSE]

\* validateGuideDecision: what it refuses, the kinds the guide does not support,
\* clarifications with their choices, explanations with their sources, and a
\* command in words, perhaps unsure of it or with a goal that remains.
WordDecisions ==
    {Decision(k, NoCommand, {}) : k \in {"malformed", "unsupported"}}
    \cup {Decision("clarify", Command("read", o), {}) : o \in Objects \cup {"none"}}
    \cup {Decision("explain", NoCommand, s) : s \in {{}, {"examine", "read"}, {"examine", "open"}}}
    \cup {Decision("words", c, {}) : c \in Commands \cup {NoCommand}}
    \cup {[Decision("words", Command("look", "none"), {}) EXCEPT !.sure = sure, !.more = ~sure] :
            sure \in BOOLEAN}
    \cup {[Decision("words", Command("look", "none"), {}) EXCEPT !.more = TRUE]}

\* validateInitialGuideModelDecision: an affordance with its slot.
Decisions == WordDecisions \cup {Decision("affordance", c, {}) : c \in Commands \cup {NoCommand}}

\* An affordance without the player's own verb: LOOK and INVENTORY, or EXAMINE
\* of an object whose appearance is asked for.
fallback(cmd, u) ==
    LET code == groundOpeningCommand(cmd, u, Observed).code
    IN  /\ FallbackAllowed(cmd.verb)
        /\ \/ Risk(cmd.verb) = 1 /\ code = "not-grounded"
           \/ /\ cmd.verb = "examine" /\ code \in {"not-grounded", "not-direct"}
              /\ observationRequested(cmd.object, u, Observed)

\* The last part: words are grounded, an affordance is resolved and grounded.
groundProposal(d, u) ==
    LET lexical == groundOpeningCommand(d.command, u, Observed)
        ambiguous == readExamineAmbiguity(d.command, u, Observed)
    IN  IF d.kind = "affordance" /\ ~intentResolves(d.command, Observed) THEN Rejected
        ELSE IF lexical.ok THEN Execute(d.command)
        ELSE IF ambiguous # {} THEN ClarifyObject(CHOOSE o \in ambiguous : TRUE)
        ELSE IF d.kind = "affordance" /\ fallback(d.command, u) THEN Execute(d.command)
        ELSE Rejected

\* The model's clarification keeps nothing of the model's: its choices count
\* only if they are EXAMINE and READ of the object the player mentions.
modelClarifies(d, u) ==
    LET object == contentRequest(u, Observed)
                    \cup readExamineChoice({Command("examine", d.command.object), d.command},
                                           u, Observed)
    IN  IF object # {} THEN ClarifyObject(CHOOSE o \in object : TRUE)
        ELSE Clarify(inferPending(u))

\* The model's explanation only selects rules; about the pending choice it
\* becomes the choice again, or a question that drops it.
modelExplains(d, p, u) ==
    IF d.sources = {} THEN Rejected
    ELSE IF AboutChoice(p, u, d.sources) THEN Clarify(p)
    ELSE IF p.kind = "choice" /\ matchesFocus(p.object, u, Observed) THEN Clarify(NoPending)
    ELSE Explain(NoClaim)

modelDecision(d, p, u) ==
    CASE d.kind \in {"malformed", "unsupported"} -> Rejected
      [] d.kind = "clarify" -> modelClarifies(d, u)
      [] d.kind = "explain" -> modelExplains(d, p, u)
      [] OTHER -> IF ~d.sure THEN Clarify(p)
                  ELSE IF d.more THEN Clarify(inferPending(u))
                  ELSE groundProposal(d, u)

-----------------------------------------------------------------------------
(* The coordinator's turn.                                                 *)

\* What a decision leaves: only a clarification writes the pending intent and
\* only an explanation clears it.
Apply(r, how) ==
    /\ stage' = IF r.kind = "execute" THEN "engine" ELSE "idle"
    /\ command' = r.command
    /\ said' = r.said
    /\ pending' = CASE r.kind = "clarify" -> r.pending
                    [] r.kind = "explain" -> NoPending
                    [] OTHER              -> pending
    /\ asked' = IF r.kind = "clarify" /\ r.pending # turn'.pending THEN {}
                ELSE IF pending' = NoPending THEN {} ELSE asked \cup {how}

\* #runNew, until the guide has answered or the model is asked.
Say(u, sure) ==
    /\ stage = "idle" /\ turns < MaxTurns
    /\ turns' = turns + 1
    /\ turn' = [u |-> u, sure |-> sure, pending |-> pending]
    /\ LET r == localDecision(u, sure, pending)
       IN  IF r = AskModel
           THEN stage' = "guide" /\ said' = NoClaim /\ UNCHANGED <<command, pending, asked>>
           ELSE Apply(r, IF sure THEN r.kind ELSE "unsure")
    /\ UNCHANGED <<memory, game, owed, past>>

ModelAnswers(d) ==
    /\ stage = "guide"
    /\ UNCHANGED turn
    /\ LET r == modelDecision(d, turn.pending, turn.u)
       IN  Apply(r, r.kind)
    /\ UNCHANGED <<memory, turns, game, owed, past>>

\* provider-failure, or the player stops the turn.
ModelFails(how) ==
    /\ stage = "guide"
    /\ UNCHANGED turn
    /\ Apply(Failed, how)
    /\ UNCHANGED <<memory, turns, game, owed, past>>

-----------------------------------------------------------------------------
(* The game.                                                               *)

Room(g) ==
    IF g.place = "away" THEN {"elsewhere"}
    ELSE IF g.open /\ g.leaflet = "inside" THEN {"roomOpen"} ELSE {"room"}
LeafletAtHand(g) == g.leaflet = "held" \/ (g.place = "west" /\ g.open)

\* The texts a command can be answered with; a room is described in brief when
\* it is entered again, and there may be no way.
Answer(c, g, text, next) ==
    CASE c.verb = "look" -> next = g /\ text \in Room(g)
      [] c.verb \in Directions ->
           \/ next = g /\ text = "plain"
           \/ /\ next = [g EXCEPT !.place = IF g.place = "west" THEN "away" ELSE "west"]
              /\ text \in Room(next) \cup (IF next.place = "west" THEN {"brief"} ELSE {})
      [] c = Command("open", "mailbox") /\ g.place = "west" /\ ~g.open ->
           next = [g EXCEPT !.open = TRUE] /\ text = "reveal"
      [] c = Command("read", "mailbox") /\ g.place = "west" -> next = g /\ text = "refusal"
      [] c.verb \in {"read", "take"} /\ c.object = "leaflet" /\ LeafletAtHand(g) ->
           next = [g EXCEPT !.leaflet = "held"] /\ text = "plain"
      [] OTHER -> next = g /\ text = "plain"

Worlds == [rev : {game.rev}, place : {"west", "away"}, open : BOOLEAN,
           leaflet : {"inside", "held"}]

Plays(text, next) ==
    /\ Answer(command, game, text, next)
    /\ game' = [next EXCEPT !.rev = game.rev + 1]
    /\ past' = Append(past, game')

EmitAnswer(c, rev, text, corr) == Emit(Committed(c, rev - 1, rev, corr), Output(rev, text, corr))

\* #finishEngineResult of a committed command.
EngineCommits(text, next) ==
    /\ stage = "engine"
    /\ Plays(text, next)
    /\ stage' = "idle" /\ pending' = NoPending /\ asked' = {}
    /\ EmitAnswer(command, game'.rev, text, turns)
    /\ UNCHANGED <<turn, command, turns, owed, said>>

\* #finishEngineResult of a rejected command.
EngineRejects ==
    /\ stage = "engine"
    /\ stage' = "idle" /\ pending' = NoPending /\ asked' = {}
    /\ UNCHANGED <<memory, turn, command, turns, game, owed, said, past>>

\* The outcome stays unknown: the game has changed and no event says so.
EngineLost(text, next) ==
    /\ stage = "engine"
    /\ Plays(text, next)
    /\ stage' = "idle"
    /\ owed' = owed \cup {[command |-> command, rev |-> game'.rev, text |-> text, corr |-> turns]}
    /\ UNCHANGED <<memory, pending, turn, command, turns, said, asked>>

\* recover: the events of a turn of earlier, in front of what followed it.
Recover(o) ==
    /\ stage = "idle" /\ o \in owed
    /\ owed' = owed \ {o}
    /\ EmitAnswer(o.command, o.rev, o.text, o.corr)
    /\ pending' = NoPending /\ asked' = {}
    /\ UNCHANGED <<stage, turn, command, turns, game, said, past>>

Texts == {"room", "roomOpen", "brief", "reveal", "refusal", "elsewhere", "plain"}

Next ==
    \/ Boot
    \/ \E u \in Utterances, sure \in BOOLEAN : Say(u, sure)
    \/ \E d \in Decisions : ModelAnswers(d)
    \/ \E how \in {"unavailable", "stopped"} : ModelFails(how)
    \/ \E text \in Texts, next \in Worlds : EngineCommits(text, next)
    \/ EngineRejects
    \/ \E text \in Texts, next \in Worlds : EngineLost(text, next)
    \/ \E o \in owed : Recover(o)

Spec == Init /\ [][Next]_vars

-----------------------------------------------------------------------------
(* Properties.                                                             *)

GuideTypeOK ==
    /\ stage \in {"boot", "idle", "guide", "engine"}
    /\ pending = NoPending \/ isPending(pending)
    /\ command = NoCommand \/ command \in Commands
    /\ scene.current \subseteq Things /\ scene.relations \subseteq Relations
    /\ world.entities \subseteq Objects
    /\ said.claim \in Relations \cup {"none"}

\* Whatever the guide model answers, a command that can change the game is one
\* the player asked for: the verb in so many words, of that object or of "it";
\* or the object's name alone after that very verb was left pending.  No
\* question, quotation, condition, refusal, comparison, list of steps or
\* uncertain transcript ever gets there.
Authorized ==
    stage = "engine" /\ Risk(command.verb) = 3 =>
        /\ turn.sure
        /\ \/ turn.u.form \in {"do", "polite"} /\ turn.u.act = command.verb
              /\ turn.u.arg \in {command.object, "it", "none"}
           \/ turn.u.form = "bare" /\ turn.u.arg = command.object
              /\ turn.pending = PendingAction(command.verb)

\* The object of a command is one that the game has shown and not taken away
\* since, except that the object of the last command may be examined again.
ObservedTarget ==
    stage = "engine" /\ command.object # "none" =>
        \/ command.object \in Observed
        \/ command.verb = "examine" /\ turn.u.form = "back" /\ command.object = scene.focus

\* A command is the player's own, of an object that is there.
CommandIsAuthorized == Authorized /\ ObservedTarget

\* "It", or a verb alone, means the object of the pending choice only while the
\* scene offers exactly that choice, whatever happened in between.
PendingIsCurrent ==
    /\ stage = "engine" /\ turn.pending.kind = "choice"
    /\ ObjectRequired(command.verb)
    /\ turn.u.form \in {"do", "polite"} /\ turn.u.arg \in {"it", "none"}
    => /\ command.object = turn.pending.object
       /\ suggestion(scene, command.object) = turn.pending.pair

Holds(r, g) ==
    CASE r \in {"west-of", "east-of", "mailbox-here"} -> g.place = "west"
      [] r = "leaflet-here" -> g.leaflet = "held" \/ g.place = "west"
      [] r = "mailbox-open" -> g.open
      [] OTHER              -> TRUE

\* While the scene is of the game's own revision, every fact in it is true, also
\* after turns whose events never came or came late.
SceneIsTrue == scene.rev = game.rev => \A r \in scene.relations : Holds(r, game)

\* What the guide states held when each of the outputs it cites was printed.
SaidIsSourced ==
    said.claim # "none" =>
        /\ said.sources # {}
        /\ \A rev \in said.sources : Holds(said.claim, past[rev + 1])

\* The reducers only make projections that the guide accepts: no sequence of
\* turns ends in a context that every later turn would have to reject.
MemoryIsValid == isOpeningScene(scene) /\ isObservedWorld(world)

\* What the guide remembers is well formed and true.
MemoryIsTrue == GuideTypeOK /\ MemoryIsValid /\ SceneIsTrue

\* docs/guide-agent.md: "The slot is offered to the next new interaction only,
\* except that a low-confidence transcript or provider failure may leave it
\* available for a safe retry."
OfferedOnce ==
    pending.kind = "action" => asked \subseteq {"unsure", "clarify", "unavailable"}

=============================================================================
