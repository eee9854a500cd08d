-------------------------- MODULE CommandKnowledge --------------------------
(***************************************************************************)
(* What the player's words let the guide do: the rules and the grounding   *)
(* functions of packages/command-knowledge/src/opening-area.ts.            *)
(*                                                                         *)
(* An utterance is reduced to what the normalised words and the patterns   *)
(* tell apart:                                                             *)
(*   form   the shape of the sentence, see Forms                           *)
(*   act    the verb whose alias begins the body of the request, or none   *)
(*   arg    the whole argument of that verb, or the whole utterance when   *)
(*          it is only a name: an object, "it", or none                    *)
(*   verbs  the rules one of whose aliases occurs in the words             *)
(*   objs   the object names that occur in them                            *)
(***************************************************************************)
EXTENDS Integers, FiniteSets

CONSTANTS
    Objects,        \* names of things
    Directions,     \* verbs of movement
    KnowledgeLimit  \* MAX_OBSERVED_OBJECTS

ASSUME Vocabulary ==
    /\ {"none", "it"} \cap Objects = {} /\ KnowledgeLimit \in Nat
    /\ {"look", "inventory", "examine", "open", "read", "take", "none"} \cap Directions = {}

ObjectActions == {"examine", "open", "read", "take"}
Verbs == {"look", "inventory"} \cup Directions \cup ObjectActions

\* RULES: which verbs take an object, the risk tier, and the tiers whose command
\* a guide model may choose without the player's own verb.
ObjectRequired(verb) == verb \in ObjectActions
Risk(verb) ==
    IF verb \in {"look", "inventory"} THEN 1 ELSE IF verb = "examine" THEN 2 ELSE 3
FallbackAllowed(verb) == Risk(verb) < 3

\* do          the whole utterance is exactly a verb and its argument
\* polite      so is the body of a request ("could you", "please", "let's")
\* untaken     the same with EXAMINE and "without taking it"
\* muse        a body that is not exactly a request
\* ask         a question: no body
\* quote cond  quoted words, conditions and excluded targets: no body
\* negated multi            not to be done; several steps
\* compare compareBad       questions about verbs, or what cannot be parsed as one
\* content contentOr contentDo   "what does O say", "what is in or on O", and a
\*             body about content that begins with a verb
\* observe     one of the fixed frames that ask what an object looks like
\* options optionsHere      what can I do, what can I do here
\* back where navigate help look back at it, where is it, go to it, uses of it
\* bare        only a name
\* sentence    a request of several sentences: not a canonical command
\* other       none of these
Forms == {"do", "polite", "untaken", "muse", "ask", "quote", "cond", "negated", "multi", "compare",
          "compareBad", "content", "contentOr", "contentDo", "observe", "options",
          "optionsHere", "back", "where", "navigate", "help", "bare", "sentence", "other"}

Command(verb, object) == [verb |-> verb, object |-> object]
NoCommand == Command("none", "none")
Commands == [verb : Verbs, object : Objects \cup {"none"}]

Found(command) == [ok |-> TRUE, command |-> command, code |-> "none"]
Refused(code) == [ok |-> FALSE, command |-> NoCommand, code |-> code]

-----------------------------------------------------------------------------
(* Patterns.                                                               *)

\* canonicalizeCommand refuses more than one sentence.
canonical(u) == u.form # "sentence"

\* appearsMultiStep
appearsMultiStep(u) == u.form \in {"multi", "contentOr"}

\* containsQuotedDiscussion, containsConditionalOrExcludedTarget
excluded(u) == u.form \in {"quote", "cond", "untaken"}

\* directOpeningActionBody: whether there is a body at all.
HasBody(u) ==
    u.form \in {"do", "polite", "muse", "contentDo", "observe", "bare", "sentence",
                "navigate", "multi", "other"}

\* Mutant: a request inside quotation marks or under a condition is direct.
directlyRequestsQuoted(u, verb, object) ==
    /\ u.form \in {"do", "polite", "quote", "cond"} \cup (IF verb = "examine" THEN {"untaken"} ELSE {})
    /\ u.act = verb /\ u.arg = object

\* matchesDirectRuleRequest: the body is the verb and exactly this object.
matchesRule(u, verb, object) == u.act = verb /\ u.arg = object

\* directlyRequestsOpeningAction: "without taking it" is cut off an EXAMINE.
directlyRequests(u, verb, object) ==
    /\ u.form \in {"do", "polite"} \cup (IF verb = "examine" THEN {"untaken"} ELSE {})
    /\ matchesRule(u, verb, object)

\* hasVisibleContentCue
hasContentCue(u) == u.form \in {"content", "contentOr", "contentDo"}

\* isSingleObjectContentLocationAlternative: "in or on" is one question.
contentAlternative(u) == u.form = "contentOr"

\* openingActionOptionsRequested, openingScopedActionOptionsRequested
optionsRequested(u) == u.form \in {"options", "optionsHere"}
scopedOptionsRequested(u) == u.form = "options"

\* openingActionsMentioned
actionMentioned(u) == u.verbs \cap ObjectActions # {}

\* mentionedOpeningObjects
mentioned(u, known) == u.objs \cap known

\* openingObjectSelectionUniquelyMentioned, openingUtteranceMatchesObjectFocus
uniquelyMentioned(object, u, known) == mentioned(u, known) = {object}
matchesFocus(object, u, known) == mentioned(u, known) \subseteq {object}

-----------------------------------------------------------------------------
(* Grounding: `known' are the observed objects of the turn.                *)

\* createOpeningCommandKnowledge throws beyond its limit.
knowledgeFits(known) == Cardinality(known) <= KnowledgeLimit

\* findRule
parsesRule(c) == c.verb \in Verbs /\ (ObjectRequired(c.verb) <=> c.object # "none")

\* compileParsedOpeningCommand
compile(c, known) ==
    IF ObjectRequired(c.verb) /\ c.object \notin known THEN Refused("unobserved") ELSE Found(c)

\* groundOpeningCommand: the words must name the verb, a risky verb or EXAMINE
\* must be requested directly, and the object must be observed and named.
groundOpeningCommand(c, u, known) ==
    IF ~parsesRule(c) THEN Refused("unsupported-grammar")
    ELSE IF c.verb \notin u.verbs THEN Refused("not-grounded")
    ELSE IF (Risk(c.verb) = 3 \/ c.verb = "examine") /\ ~directlyRequests(u, c.verb, c.object)
    THEN Refused("not-direct")
    ELSE IF ObjectRequired(c.verb) /\ c.object \in known \ u.objs THEN Refused("not-grounded")
    ELSE compile(c, known)

\* resolveOpeningCommandIntent: an affordance and its slot, as the guide model
\* selects them.
intentResolves(c, known) ==
    /\ c.verb \in Verbs
    /\ IF ObjectRequired(c.verb) THEN c.object \in known ELSE c.object = "none"

\* hasExplicitOpeningCommand
hasExplicitCommand(u) == HasBody(u) /\ u.act # "none"

\* identifyNonlexicalOpeningContentRequest: the one object whose content is asked
\* for, without a command of the player's own.
contentRequest(u, known) ==
    {o \in Objects : /\ hasContentCue(u)
                     /\ uniquelyMentioned(o, u, known)
                     /\ appearsMultiStep(u) => contentAlternative(u)
                     /\ ~hasExplicitCommand(u)}

\* identifyNonlexicalOpeningReadExamineAmbiguity of a proposal that resolves to
\* READ or EXAMINE of one object.
readExamineAmbiguity(c, u, known) ==
    {o \in {c.object} \cap known :
        /\ c.verb \in {"read", "examine"}
        /\ groundOpeningCommand(c, u, known).code = "not-grounded"
        /\ uniquelyMentioned(o, u, known)
        /\ c.verb = "examine" => hasContentCue(u)}

\* identifyOpeningReadExamineClarificationChoice: the model's two choices are
\* EXAMINE and READ of the one object the player mentions.
readExamineChoice(choices, u, known) ==
    {o \in known : /\ choices = {Command("examine", o), Command("read", o)}
                   /\ uniquelyMentioned(o, u, known)}

\* openingObjectObservationDirectlyRequested
observationRequested(object, u, known) ==
    /\ uniquelyMentioned(object, u, known)
    /\ ~excluded(u) /\ ~appearsMultiStep(u)
    /\ IF HasBody(u) /\ u.act = "examine" THEN directlyRequests(u, "examine", object)
       ELSE u.form = "observe"

\* parseOpeningCommandMetaQuestion: a question about one or two verbs.
metaQuestion(u) == u.form = "compare"

\* validMetaQuestionTarget
validTarget(u, known) == u.arg \in {"none", "it"} \cup known

\* resolveOpeningCommandComparisonQuestion
comparison(u, known) ==
    IF u.form \notin {"compare", "compareBad"} THEN "not-comparison"
    ELSE IF metaQuestion(u) /\ validTarget(u, known) THEN "resolved"
    ELSE "invalid"

-----------------------------------------------------------------------------
(* Pending intents: what a clarification leaves for the next reply.        *)

NoPending == [kind |-> "none", action |-> "none", object |-> "none", pair |-> {}]
PendingAction(action) == [NoPending EXCEPT !.kind = "action", !.action = action]
PendingContent == [NoPending EXCEPT !.kind = "content"]
PendingChoice(object, pair) ==
    [NoPending EXCEPT !.kind = "choice", !.object = object, !.pair = pair]

\* isPendingOpeningObjectIntent.  The read-examine-choice of the type is created
\* by no code of the live game.
isPending(p) ==
    \/ p = PendingContent
    \/ p \in {PendingAction(a) : a \in ObjectActions}
    \/ /\ p.object \in Objects /\ p = PendingChoice(p.object, p.pair)
       /\ p.pair \subseteq ObjectActions /\ Cardinality(p.pair) = 2

\* inferPendingOpeningObjectIntent: a single object action that is requested of
\* "it" waits for the object's name; a content question waits for it too.
inferPending(u) ==
    LET actions == u.verbs \cap ObjectActions
    IN  IF appearsMultiStep(u) THEN NoPending
        ELSE IF u.form = "content" THEN PendingContent
        ELSE IF \E a \in actions : actions = {a} /\ directlyRequests(u, a, "it")
        THEN PendingAction(CHOOSE a \in actions : TRUE)
        ELSE NoPending

\* groundPendingOpeningObjectReply, resolvePendingOpeningContentObjectReply: the
\* reply is only the name of an observed object.
namesObserved(u, known) == u.form = "bare" /\ u.arg \in known

\* resolvePendingOpeningContextualObjectActionChoiceObject
choiceObjectKnown(p, known) == p.kind = "choice" /\ p.object \in known

\* groundPendingOpeningContextualObjectActionChoiceReply: one of the four
\* actions, alone, of "it" or of the object, whichever two were suggested.
groundChoiceReply(p, u, known) ==
    LET matching == {a \in ObjectActions :
                       \E ref \in {"none", "it", p.object} : directlyRequests(u, a, ref)}
    IN  IF appearsMultiStep(u) THEN Refused("not-grounded")
        ELSE IF ~choiceObjectKnown(p, known) THEN Refused("unobserved")
        ELSE IF Cardinality(matching) = 1
        THEN Found(Command(CHOOSE a \in matching : TRUE, p.object))
        ELSE Refused(IF HasBody(u) THEN "not-grounded" ELSE "not-direct")

=============================================================================
