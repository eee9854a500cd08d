---------------------------- MODULE ObservedScene ----------------------------
(***************************************************************************)
(* What the guide remembers of the game's own words: the two reducers of   *)
(* committed commands and engine outputs in packages/command-knowledge/src *)
(* (opening-scene.ts and opening-observed-objects.ts).                     *)
(*                                                                         *)
(* The scene holds reviewed facts and only believes exact texts; the world *)
(* holds every noun the game presented and states nothing about it.  An    *)
(* output is one of a few texts, of which the reducers tell apart:         *)
(*   boot room   the exact texts of the first room, at start and later     *)
(*   roomOpen    that room with something in the open mailbox              *)
(*   reveal      the exact text of the mailbox being opened                *)
(*   refusal     the exact refusal to read the mailbox                     *)
(*   brief       the name of the first room and the mailbox                *)
(*   elsewhere   another room                                              *)
(*   plain       anything else                                             *)
(* Records' first and last revision, the bounds of the world's lists and   *)
(* the session and sequence of events are left out: events come once and   *)
(* in order from one session.                                              *)
(***************************************************************************)
EXTENDS CommandKnowledge, Sequences, SequencesExt

CONSTANTS
    SceneSources  \* MAX_OPENING_SCENE_SOURCES

Things == {"house", "door", "mailbox", "leaflet"}

ASSUME SceneConstants == SceneSources \in Nat \ {0} /\ Things \subseteq Objects

NoRev == -1
NoFocus == "none"
NoWait == [command |-> NoCommand, rev |-> NoRev, corr |-> 0]

\* engine.command.committed and engine.output; corr identifies the turn.
Committed(command, previous, rev, corr) ==
    [type |-> "committed", command |-> command, previous |-> previous, rev |-> rev,
     corr |-> corr, text |-> "none"]
Output(rev, text, corr) ==
    [type |-> "output", command |-> NoCommand, previous |-> NoRev, rev |-> rev,
     corr |-> corr, text |-> text]

\* The pending command that an output answers.
Answers(wait, e) == wait # NoWait /\ wait.rev = e.rev /\ wait.corr = e.corr

-----------------------------------------------------------------------------
(* The observed world.                                                     *)

createObservedWorld ==
    [entities |-> {}, current |-> {}, rev |-> NoRev, pending |-> NoWait, focus |-> NoFocus]

\* observedEntityLabelsFromEngineOutput, of each text.
labels(text) ==
    CASE text \in {"boot", "room", "roomOpen"} -> {"house", "door", "mailbox"}
      [] text = "reveal"    -> {"mailbox", "leaflet"}
      [] text = "brief"     -> {"mailbox"}
      [] text = "elsewhere" -> Objects \ Things
      [] OTHER              -> {}

\* projectOutput: the noun heads become referents; `replaces' forgets which of
\* the older ones are at hand.
projectOutput(w, e, replaces, focus) ==
    IF labels(e.text) = {} /\ ~replaces /\ w.pending = NoWait THEN w
    ELSE [w EXCEPT !.entities = @ \cup labels(e.text),
                   !.current = (IF replaces THEN {} ELSE @) \cup labels(e.text),
                   !.rev = e.rev, !.pending = NoWait, !.focus = focus]

\* projectObservedWorldFromEvent
projectObservedWorld(w, e) ==
    IF e.type = "committed"
    THEN [w EXCEPT !.pending = [command |-> e.command, rev |-> e.rev, corr |-> e.corr]]
    ELSE LET answers == Answers(w.pending, e)
             command == w.pending.command
         IN  projectOutput(w, e,
               \/ e.rev = 0
               \/ ~answers /\ w.pending # NoWait
               \/ answers /\ command.verb \in Directions \cup {"look"},
               IF answers /\ command.object \in w.entities THEN command.object ELSE NoFocus)

\* observedWorldRecentEntity, observedWorldCurrentEntity: the object of the last
\* command while it is at hand.
recentEntity(w) == IF w.focus \in w.current THEN w.focus ELSE NoFocus

\* assertProjection, isObservedWorldProjection
isObservedWorld(w) == w.current \subseteq w.entities /\ w.focus \in w.entities \cup {NoFocus}

-----------------------------------------------------------------------------
(* The opening scene.                                                      *)

\* RELATION_SHAPES, with the things a relation is about.
About ==
    [r \in {"west-of", "east-of", "boarded", "mailbox-here", "leaflet-here", "mailbox-open"} |->
        CASE r \in {"west-of", "east-of"}           -> "house"
          [] r = "boarded"                          -> "door"
          [] r \in {"mailbox-here", "mailbox-open"} -> "mailbox"
          [] r = "leaflet-here"                     -> "leaflet"]
Relations == DOMAIN About
Location == "west-of-house"

\* createOpeningSceneProjection; sources are the outputs that disclosed an
\* entity, the location or a relation.
createOpeningScene ==
    [rev |-> NoRev, sources |-> [x \in Things \cup Relations \cup {Location} |-> <<>>],
     current |-> {}, relations |-> {}, here |-> FALSE, pending |-> NoWait, focus |-> NoFocus]

Known(s) == {x \in Things : s.sources[x] # <<>>}

\* The facts of the three reviewed texts.
Facts(things, relations, here) == [things |-> things, relations |-> relations, here |-> here]
RoomFacts == Facts({"house", "door", "mailbox"},
                   {"west-of", "east-of", "boarded", "mailbox-here"}, TRUE)
RevealFacts == Facts({"mailbox", "leaflet"},
                     {"mailbox-here", "leaflet-here", "mailbox-open"}, FALSE)
RefusalFacts == Facts({"mailbox"}, {"mailbox-here"}, FALSE)

\* What an exact text discloses as the answer of a command (none at boot).
disclosed(command, e) ==
    CASE \/ e.rev = 0 /\ command = NoCommand /\ e.text = "boot"
         \/ command.verb \in Directions \cup {"look"} /\ e.text = "room" -> RoomFacts
      [] command = Command("open", "mailbox") /\ e.text = "reveal" -> RevealFacts
      [] command = Command("read", "mailbox") /\ e.text = "refusal" -> RefusalFacts
      [] OTHER -> Facts({}, {}, FALSE)

\* Mutant: an output becomes a source of everything known.
upsertAll(sources, facts, rev) ==
    [x \in DOMAIN sources |->
        IF (x \in facts \/ sources[x] # <<>>) /\ Len(sources[x]) < SceneSources
        THEN Append(sources[x], rev) ELSE sources[x]]

\* upsertEntity, upsertLocation, upsertRelation, addSource, frozenSources: the
\* oldest sources are kept.
upsert(sources, facts, rev) ==
    [x \in DOMAIN sources |->
        IF x \in facts /\ Len(sources[x]) < SceneSources THEN Append(sources[x], rev)
        ELSE sources[x]]

\* placementChangingCommandObjectId: READ may take its object, unless the game
\* refused to read the mailbox.
invalidated(command, e) ==
    IF command.verb \in {"read", "take"} /\ disclosed(command, e).things = {}
    THEN {command.object} ELSE {}

\* Mutant: a committed command waits for its output whatever the scene missed.
acceptsAny(s, e) == s.rev # NoRev

\* A committed command is believed only if the scene has seen its predecessor.
accepts(s, e) == s.rev # NoRev /\ e.previous = s.rev /\ e.rev = s.rev + 1

\* An output of no known command, or of a movement, clears the scene.
clearsWholeScene(s, e) ==
    \/ e.rev > 0 /\ ~Answers(s.pending, e)
    \/ Answers(s.pending, e) /\ s.pending.command.verb \in Directions

\* Mutant: a taken object goes and what was said of it stays.
survivingAll(s, e, gone) == IF clearsWholeScene(s, e) THEN {} ELSE s.relations

\* The relations that outlive an output which made `gone' uncertain.
surviving(s, e, gone) ==
    IF clearsWholeScene(s, e) THEN {} ELSE {r \in s.relations : About[r] \notin gone}

\* projectOpeningSceneFromEvent
projectOpeningScene(s, e) ==
    IF e.type = "committed"
    THEN IF accepts(s, e)
         THEN [s EXCEPT !.pending = [command |-> e.command, rev |-> e.rev, corr |-> e.corr]]
         ELSE s
    ELSE IF s.rev # NoRev /\ e.rev <= s.rev THEN s
    ELSE LET command == IF Answers(s.pending, e) THEN s.pending.command ELSE NoCommand
             clears  == clearsWholeScene(s, e)
             gone    == invalidated(command, e)
             facts   == disclosed(command, e)
             sources == upsert(s.sources, facts.things \cup facts.relations
                                 \cup (IF facts.here THEN {Location} ELSE {}), e.rev)
         IN  [rev |-> e.rev, sources |-> sources,
              current |-> (IF clears THEN {} ELSE s.current \ gone) \cup facts.things,
              relations |-> surviving(s, e, gone) \cup facts.relations,
              here |-> facts.here \/ (~clears /\ s.here),
              pending |-> IF s.pending # NoWait /\ e.rev >= s.pending.rev THEN NoWait ELSE s.pending,
              focus |-> IF ~clears /\ command.object \in Things /\ sources[command.object] # <<>>
                        THEN command.object ELSE NoFocus]

\* validSceneRecord: sources are of revisions the scene has seen.
soundSources(s) ==
    \A x \in DOMAIN s.sources : \A k \in DOMAIN s.sources[x] : s.sources[x][k] \in 0..s.rev

\* Current relations are sourced, about current things, and spatial ones are of
\* the current location; the inferred one has its premise's sources.
soundRelations(s) ==
    /\ \A r \in s.relations : s.sources[r] # <<>> /\ About[r] \in s.current
    /\ s.relations \cap {"west-of", "east-of"} # {} => s.here
    /\ s.sources["east-of"] # <<>> => s.sources["east-of"] = s.sources["west-of"]
    /\ "east-of" \in s.relations => "west-of" \in s.relations

\* isOpeningSceneProjection
isOpeningScene(s) ==
    /\ soundSources(s) /\ soundRelations(s)
    /\ s.current \subseteq Known(s)
    /\ s.focus \in Known(s) \cup {NoFocus}
    /\ s.here => s.sources[Location] # <<>>
    /\ s.pending # NoWait => s.pending.rev > s.rev

-----------------------------------------------------------------------------
(* Answers from the scene.                                                 *)

\* buildAffordances: what is suggested for a current thing.
affordances(s, object) ==
    CASE object \notin s.current -> {}
      [] object = "leaflet" -> {"examine", "read"}
      [] object = "mailbox" ->
           {"examine"} \cup (IF "mailbox-open" \in s.relations THEN {} ELSE {"open"})
      [] OTHER -> {"examine"}

\* resolveOpeningSceneObjectActionSuggestion: exactly two, or none.
suggestion(s, object) ==
    IF Cardinality(affordances(s, object)) = 2 THEN affordances(s, object) ELSE {}

\* resolvePendingOpeningContextualObjectActionChoiceForScene
choiceHolds(s, p) ==
    choiceObjectKnown(p, s.current) /\ suggestion(s, p.object) = p.pair

\* resolveOpeningSceneFocusedObservationRequest
focusedObservation(u, s) == u.form = "back" /\ s.focus # NoFocus

NoGuidance == [found |-> FALSE, claim |-> "none", sources |-> {}]
Guidance(claim, s) ==
    [found |-> TRUE, claim |-> claim,
     sources |-> IF claim = "none" THEN {} ELSE ToSet(s.sources[claim])]

\* navigationTarget: go to a current thing.
navigates(u, s) == u.form = "navigate" /\ u.arg \in s.current

\* directionQuestionTarget: where is, or was, a known thing.
asksDirection(u, s) == u.form = "where" /\ u.arg \in Known(s)

\* resolveOpeningSceneGuidance: the relation the guide states, with the outputs
\* it cites.
sceneGuidance(u, s) ==
    LET here == {r \in s.relations \cap {"mailbox-here", "leaflet-here"} : About[r] = u.arg}
    IN  IF navigates(u, s) /\ here # {} THEN Guidance(CHOOSE r \in here : TRUE, s)
        ELSE IF optionsRequested(u) THEN Guidance("none", s)
        ELSE IF asksDirection(u, s)
        THEN Guidance(IF u.arg = "house" /\ "east-of" \in s.relations THEN "east-of" ELSE "none", s)
        ELSE NoGuidance

=============================================================================
