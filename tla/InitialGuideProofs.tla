-------------------------- MODULE InitialGuideProofs --------------------------
(***************************************************************************)
(* Proofs about InitialGuide, for any vocabulary, any utterances, any      *)
(* number of turns and whatever the guide model answers: a command is the  *)
(* player's own and of something observed, a choice is answered only while *)
(* the scene offers it, and what the guide remembers and says is true.     *)
(***************************************************************************)
EXTENDS InitialGuide, FiniteSetTheorems, TLAPS

-----------------------------------------------------------------------------
(* The inductive invariant.                                                *)

Waits == [command : Commands \cup {NoCommand}, rev : Int, corr : Int]

World == [entities : SUBSET Objects, current : SUBSET Objects, rev : Int, pending : Waits,
          focus : Objects \cup {NoFocus}]

Sourced == Things \cup Relations \cup {Location}

Scene == [rev : Int, sources : [Sourced -> Seq(Nat)], current : SUBSET Things,
          relations : SUBSET Relations, here : BOOLEAN, pending : Waits,
          focus : Things \cup {NoFocus}]

GameState == [rev : Nat, place : {"west", "away"}, open : BOOLEAN, leaflet : {"inside", "held"}]

\* What an output says of the game it was printed by is true, and only a movement
\* makes a fact of the game before it false.
Told(c, rev, text, corr, history) ==
    /\ c.verb \notin Directions =>
         \A r \in Relations : Holds(r, history[rev]) => Holds(r, history[rev + 1])
    /\ \A r \in disclosed(c, Output(rev, text, corr)).relations : Holds(r, history[rev + 1])

\* The history ends with the game, and a turn whose outcome is unknown is one of
\* its steps.
GameInv ==
    /\ game \in GameState /\ turns \in Nat
    /\ past \in Seq(GameState) /\ Len(past) = game.rev + 1 /\ past[game.rev + 1] = game
    /\ \A o \in owed :
         /\ o.rev \in 1..game.rev /\ o.command \in Commands /\ o.text \in Texts /\ o.corr \in Nat
         /\ Told(o.command, o.rev, o.text, o.corr, past)

\* The world is well formed, and between two turns waits for nothing.
WorldInv(w) == w \in World /\ w.pending = NoWait /\ isObservedWorld(w)

\* So is the scene; its facts were true of the game at its revision, and every
\* source of a fact is an output that the fact was true of.
SceneShape(s) ==
    /\ s \in Scene /\ s.pending = NoWait /\ s.rev \in Nat \cup {NoRev} /\ isOpeningScene(s)
    /\ s.sources["east-of"] = s.sources["west-of"]

SceneTrue(s, history) ==
    /\ \A r \in s.relations : Holds(r, history[s.rev + 1])
    /\ \A r \in Relations : \A k \in DOMAIN s.sources[r] : Holds(r, history[s.sources[r][k] + 1])

SceneInv ==
    /\ SceneShape(scene) /\ SceneTrue(scene, past) /\ scene.rev <= game.rev
    /\ stage = "boot" => scene = createOpeningScene /\ game.rev = 0 /\ game.place = "west"
    /\ stage # "boot" => scene.rev # NoRev

LeftOpen(p) == p = NoPending \/ isPending(p)

\* What is executed for an utterance, with the intent that was pending.
Permits(c, u, p) ==
    /\ c \in Commands
    /\ Risk(c.verb) = 3 =>
         \/ u.form \in {"do", "polite"} /\ u.act = c.verb /\ u.arg \in {c.object, "it", "none"}
         \/ u.form = "bare" /\ u.arg = c.object /\ p = PendingAction(c.verb)
    /\ c.object # "none" =>
         \/ c.object \in Observed
         \/ c.verb = "examine" /\ u.form = "back" /\ c.object = scene.focus
    /\ /\ p.kind = "choice" /\ ObjectRequired(c.verb)
       /\ u.form \in {"do", "polite"} /\ u.arg \in {"it", "none"}
       => c.object = p.object /\ suggestion(scene, c.object) = p.pair

\* A choice that was stale when the turn began is not asked about, and the model
\* is asked about what was heard well.
TurnInv ==
    /\ stage \in {"boot", "idle", "guide", "engine"}
    /\ LeftOpen(pending)
    /\ command = NoCommand \/ command \in Commands
    /\ stage = "guide" =>
         /\ turn.sure /\ turn.u \in Utterances
         /\ LeftOpen(turn.pending) /\ ~StaleChoice(turn.pending)
    /\ stage = "engine" => turn.sure /\ Permits(command, turn.u, turn.pending)

\* What the guide stated, and where it has it from.
ClaimTrue(claim) ==
    /\ claim.claim \in Relations \cup {"none"}
    /\ claim.claim # "none" =>
         /\ claim.sources # {} /\ claim.sources \subseteq 0..game.rev
         /\ \A rev \in claim.sources : Holds(claim.claim, past[rev + 1])

IInv == GameInv /\ WorldInv(world) /\ SceneInv /\ TurnInv /\ ClaimTrue(said)

-----------------------------------------------------------------------------
(* The projections: an answer is taken in by both.                         *)

FactSets == {RoomFacts, RevealFacts, RefusalFacts, Facts({}, {}, FALSE)}

\* The relations by name.
LEMMA RelationNames ==
  /\ Relations = {"west-of", "east-of", "boarded", "mailbox-here", "leaflet-here", "mailbox-open"}
  /\ About["west-of"] = "house" /\ About["east-of"] = "house" /\ About["boarded"] = "door"
  /\ About["mailbox-here"] = "mailbox" /\ About["mailbox-open"] = "mailbox"
  /\ About["leaflet-here"] = "leaflet"
BY DEF Relations, About

\* An output discloses what one of the reviewed texts says, or nothing.
LEMMA DisclosedFacts ==
  ASSUME NEW c, NEW e
  PROVE  disclosed(c, e) \in FactSets
BY DEF disclosed, FactSets

\* Reviewed facts are about the things that come with them, and those about the
\* house come with the place.
LEMMA FactFields ==
  ASSUME NEW f \in FactSets
  PROVE  /\ f.things \subseteq Things /\ f.relations \subseteq Relations /\ f.here \in BOOLEAN
         /\ \A r \in f.relations : About[r] \in f.things
         /\ "west-of" \in f.relations <=> f.here
         /\ "east-of" \in f.relations <=> f.here
<1>1. CASE f = RoomFacts
  BY <1>1, RelationNames DEF RoomFacts, Facts, Things
<1>2. CASE f = RevealFacts
  BY <1>2, RelationNames DEF RevealFacts, Facts, Things
<1>3. CASE f = RefusalFacts
  BY <1>3, RelationNames DEF RefusalFacts, Facts, Things
<1>4. CASE f = Facts({}, {}, FALSE)
  BY <1>4 DEF Facts
<1> QED BY <1>1, <1>2, <1>3, <1>4 DEF FactSets

\* Sources after an output: it is added to those of the facts that it discloses,
\* and nothing is lost.
Grown(old, new, facts, rev) ==
    /\ new \in [Sourced -> Seq(Nat)]
    /\ \A x \in Sourced :
         /\ old[x] # <<>> => new[x] # <<>>
         /\ x \in facts => new[x] # <<>>
         /\ \A k \in DOMAIN new[x] :
              \/ k \in DOMAIN old[x] /\ new[x][k] = old[x][k]
              \/ x \in facts /\ new[x][k] = rev

\* An output becomes a source.
LEMMA UpsertSources ==
  ASSUME NEW sources \in [Sourced -> Seq(Nat)], NEW facts, NEW rev \in Nat
  PROVE  Grown(sources, upsert(sources, facts, rev), facts, rev)
<1> DEFINE new == upsert(sources, facts, rev)
<1>1. ASSUME NEW x \in Sourced
      PROVE  new[x] = IF x \in facts /\ Len(sources[x]) < SceneSources
                      THEN Append(sources[x], rev) ELSE sources[x]
  BY DEF upsert
<1>2. ASSUME NEW x \in Sourced
      PROVE  /\ new[x] \in Seq(Nat)
             /\ sources[x] # <<>> => new[x] # <<>>
             /\ x \in facts => new[x] # <<>>
             /\ \A k \in DOMAIN new[x] :
                  \/ k \in DOMAIN sources[x] /\ new[x][k] = sources[x][k]
                  \/ x \in facts /\ new[x][k] = rev
  <2>0. sources[x] \in Seq(Nat)
    OBVIOUS
  <2>1. CASE x \in facts /\ Len(sources[x]) < SceneSources
    <3>1. new[x] = Append(sources[x], rev)
      BY <1>1, <2>1
    <3> HIDE DEF new
    <3> QED BY <2>0, <2>1, <3>1
  <2>2. CASE ~(x \in facts /\ Len(sources[x]) < SceneSources)
    <3>1. new[x] = sources[x]
      BY <1>1, <2>2
    <3>2. x \in facts => sources[x] # <<>>
      BY <2>0, <2>2, SceneConstants DEF SceneConstants
    <3> HIDE DEF new
    <3> QED BY <2>0, <3>1, <3>2
  <2> QED BY <2>1, <2>2
<1>3. new = [x \in Sourced |-> new[x]]
  BY DEF upsert
<1> HIDE DEF new
<1>4. new \in [Sourced -> Seq(Nat)]
  BY <1>2, <1>3
<1> QED BY <1>2, <1>4 DEF Grown, new

\* What becomes of the scene with an output.
Updated(s, rev, clears, gone, facts, focus) ==
    [rev |-> rev,
     sources |-> upsert(s.sources, facts.things \cup facts.relations
                          \cup (IF facts.here THEN {Location} ELSE {}), rev),
     current |-> (IF clears THEN {} ELSE s.current \ gone) \cup facts.things,
     relations |-> (IF clears THEN {} ELSE {r \in s.relations : About[r] \notin gone})
                     \cup facts.relations,
     here |-> facts.here \/ (~clears /\ s.here),
     pending |-> NoWait,
     focus |-> focus]

\* An updated scene is one that the guide accepts.
LEMMA UpdatedShape ==
  ASSUME NEW s, SceneShape(s), NEW rev \in Nat, rev > s.rev, NEW clears \in BOOLEAN, NEW gone,
         NEW facts \in FactSets, NEW focus \in Things \cup {NoFocus},
         focus # NoFocus =>
           upsert(s.sources, facts.things \cup facts.relations
                    \cup (IF facts.here THEN {Location} ELSE {}), rev)[focus] # <<>>
  PROVE  SceneShape(Updated(s, rev, clears, gone, facts, focus))
<1> DEFINE t == Updated(s, rev, clears, gone, facts, focus)
           added == facts.things \cup facts.relations \cup (IF facts.here THEN {Location} ELSE {})
           sources == upsert(s.sources, added, rev)
<1>1. /\ facts.things \subseteq Things /\ facts.relations \subseteq Relations
      /\ facts.here \in BOOLEAN
      /\ \A r \in facts.relations : About[r] \in facts.things
      /\ "west-of" \in facts.relations <=> facts.here
      /\ "east-of" \in facts.relations <=> facts.here
  BY FactFields
<1>2. /\ s.sources \in [Sourced -> Seq(Nat)] /\ s.current \subseteq Things
      /\ s.relations \subseteq Relations /\ s.here \in BOOLEAN /\ s.rev \in Nat \cup {NoRev}
      /\ s.sources["east-of"] = s.sources["west-of"]
  BY DEF SceneShape, Scene
<1>3. /\ sources \in [Sourced -> Seq(Nat)]
      /\ \A x \in Sourced :
           /\ s.sources[x] # <<>> => sources[x] # <<>>
           /\ x \in added => sources[x] # <<>>
           /\ \A k \in DOMAIN sources[x] :
                \/ k \in DOMAIN s.sources[x] /\ sources[x][k] = s.sources[x][k]
                \/ x \in added /\ sources[x][k] = rev
  <2>1. Grown(s.sources, sources, added, rev)
    <3> HIDE DEF added
    <3> QED BY <1>2, UpsertSources
  <2> HIDE DEF added, sources
  <2> QED BY <2>1 DEF Grown
<1>4. /\ t.rev = rev /\ t.sources = sources /\ t.pending = NoWait /\ t.focus = focus
      /\ t.current = (IF clears THEN {} ELSE s.current \ gone) \cup facts.things
      /\ t.relations = (IF clears THEN {} ELSE {r \in s.relations : About[r] \notin gone})
                         \cup facts.relations
      /\ t.here = (facts.here \/ (~clears /\ s.here))
  BY DEF Updated
<1>5. t \in Scene
  <2>1. NoWait \in Waits
    BY DEF NoWait, Waits, NoRev
  <2>2. t.current \subseteq Things /\ t.relations \subseteq Relations /\ t.here \in BOOLEAN
    BY <1>1, <1>2, <1>4
  <2>3. t = [rev |-> rev, sources |-> sources, current |-> t.current,
             relations |-> t.relations, here |-> t.here, pending |-> NoWait, focus |-> focus]
    BY DEF Updated
  <2> HIDE DEF t, sources
  <2> QED BY <1>3, <2>1, <2>2, <2>3 DEF Scene
<1>6. soundSources(t)
  <2> SUFFICES ASSUME NEW x \in Sourced, NEW k \in DOMAIN sources[x]
               PROVE  sources[x][k] \in 0..rev
    BY <1>3, <1>4 DEF soundSources
  <2>1. CASE k \in DOMAIN s.sources[x] /\ sources[x][k] = s.sources[x][k]
    <3>1. s.sources[x][k] \in 0..s.rev
      BY <1>2, <2>1 DEF SceneShape, isOpeningScene, soundSources
    <3> QED BY <1>2, <2>1, <3>1 DEF NoRev
  <2>2. CASE x \in added /\ sources[x][k] = rev
    BY <2>2
  <2> HIDE DEF sources, added
  <2> QED BY <1>3, <2>1, <2>2
<1>7. ASSUME NEW x \in Known(s) PROVE x \in Known(t)
  BY <1>3, <1>4, <1>7 DEF Known, Sourced
<1>8. ASSUME NEW x \in facts.things PROVE x \in Known(t)
  BY <1>1, <1>3, <1>4 DEF Known, Sourced
<1>9. t.current \subseteq Known(t)
  BY <1>4, <1>7, <1>8 DEF SceneShape, isOpeningScene
<1>10. t.focus \in Known(t) \cup {NoFocus}
  BY <1>4 DEF Known
<1>11. t.here => t.sources[Location] # <<>>
  <2>1. Location \in Sourced
    BY DEF Sourced
  <2> QED BY <1>3, <1>4, <2>1 DEF SceneShape, isOpeningScene
<1>12. t.sources["east-of"] = t.sources["west-of"]
  <2>1. "east-of" \in added <=> "west-of" \in added
    BY <1>1 DEF Things, Location
  <2>2. "east-of" \in Sourced /\ "west-of" \in Sourced
    BY RelationNames DEF Sourced
  <2> QED BY <1>2, <1>4, <2>1, <2>2 DEF upsert
<1>13. soundRelations(t)
  <2>1. ASSUME NEW r \in t.relations PROVE t.sources[r] # <<>> /\ About[r] \in t.current
    <3>1. r \in Sourced
      BY <1>1, <1>2, <1>4 DEF Sourced
    <3>2. CASE r \in facts.relations
      BY <1>1, <1>3, <1>4, <3>1, <3>2
    <3>3. CASE ~clears /\ r \in s.relations /\ About[r] \notin gone
      BY <1>3, <1>4, <3>1, <3>3 DEF SceneShape, isOpeningScene, soundRelations
    <3> QED BY <1>4, <2>1, <3>2, <3>3
  <2>2. t.relations \cap {"west-of", "east-of"} # {} => t.here
    BY <1>1, <1>4 DEF SceneShape, isOpeningScene, soundRelations
  <2>3. "east-of" \in t.relations => "west-of" \in t.relations
    BY <1>1, <1>4, RelationNames DEF SceneShape, isOpeningScene, soundRelations
  <2> QED BY <1>12, <2>1, <2>2, <2>3 DEF soundRelations
<1> QED BY <1>4, <1>5, <1>6, <1>9, <1>10, <1>11, <1>12, <1>13 DEF SceneShape, isOpeningScene

\* An updated scene is true of the history when what it keeps and what is new to
\* it are true of the game at its revision.
LEMMA UpdatedTrue ==
  ASSUME NEW s, SceneShape(s), NEW history, SceneTrue(s, history), NEW rev \in Nat,
         NEW clears \in BOOLEAN, NEW gone, NEW facts \in FactSets, NEW focus,
         ~clears => \A r \in s.relations : Holds(r, history[rev + 1]),
         \A r \in facts.relations : Holds(r, history[rev + 1])
  PROVE  SceneTrue(Updated(s, rev, clears, gone, facts, focus), history)
<1> DEFINE t == Updated(s, rev, clears, gone, facts, focus)
           added == facts.things \cup facts.relations \cup (IF facts.here THEN {Location} ELSE {})
           sources == upsert(s.sources, added, rev)
<1>1. s.sources \in [Sourced -> Seq(Nat)]
  BY DEF SceneShape, Scene
<1>2. \A x \in Sourced : \A k \in DOMAIN sources[x] :
        \/ k \in DOMAIN s.sources[x] /\ sources[x][k] = s.sources[x][k]
        \/ x \in added /\ sources[x][k] = rev
  <2>1. Grown(s.sources, sources, added, rev)
    <3> HIDE DEF added
    <3> QED BY <1>1, UpsertSources
  <2> HIDE DEF added, sources
  <2> QED BY <2>1 DEF Grown
<1>3. t.rev = rev /\ t.sources = sources
  BY DEF Updated
<1>4. \A r \in t.relations : Holds(r, history[rev + 1])
  BY DEF Updated
<1>5. ASSUME NEW r \in Relations, NEW k \in DOMAIN sources[r]
      PROVE  Holds(r, history[sources[r][k] + 1])
  <2>1. CASE k \in DOMAIN s.sources[r] /\ sources[r][k] = s.sources[r][k]
    BY <2>1 DEF SceneTrue
  <2>2. CASE r \in added /\ sources[r][k] = rev
    <3>1. r \in facts.relations
      BY <2>2, FactFields, RelationNames DEF Things, Location
    <3> QED BY <2>2, <3>1
  <2> QED BY <1>2, <2>1, <2>2 DEF Sourced
<1> QED BY <1>3, <1>4, <1>5 DEF SceneTrue

\* The command that waits for its output is not the absence of one.
LEMMA Waiting ==
  ASSUME NEW c \in Commands, NEW rev \in Nat, NEW text, NEW corr \in Nat
  PROVE  LET wait == [command |-> c, rev |-> rev, corr |-> corr]
             e == Output(rev, text, corr)
         IN  /\ wait \in Waits /\ wait # NoWait /\ Answers(wait, e)
             /\ e.type = "output" /\ e.rev = rev /\ e.text = text
<1> DEFINE wait == [command |-> c, rev |-> rev, corr |-> corr]
<1>1. wait.rev # NoWait.rev
  BY DEF NoWait, NoRev
<1>2. wait # NoWait
  BY <1>1
<1>3. wait \in Waits
  BY DEF Waits
<1> QED BY <1>2, <1>3 DEF Answers, Output

\* The nouns of a text are names of things.
LEMMA LabelsAreObjects ==
  ASSUME NEW text
  PROVE  labels(text) \subseteq Objects
BY SceneConstants DEF labels, Things, SceneConstants

\* An output leaves the world well formed, waiting for nothing.
LEMMA WorldOutput ==
  ASSUME NEW w \in World, isObservedWorld(w), NEW e, e.rev \in Int, NEW replaces \in BOOLEAN,
         NEW focus \in Objects \cup {NoFocus}, focus # NoFocus => focus \in w.entities
  PROVE  WorldInv(projectOutput(w, e, replaces, focus))
<1> DEFINE t == projectOutput(w, e, replaces, focus)
           f == [entities |-> w.entities \cup labels(e.text),
                 current |-> (IF replaces THEN {} ELSE w.current) \cup labels(e.text),
                 rev |-> e.rev, pending |-> NoWait, focus |-> focus]
<1>1. NoWait \in Waits
  BY DEF NoWait, Waits, NoRev
<1>2. CASE t = w /\ w.pending = NoWait
  BY <1>2 DEF WorldInv
<1>3. CASE t = f
  <2>1. f \in World
    BY <1>1, LabelsAreObjects DEF World
  <2>2. isObservedWorld(f)
    BY DEF isObservedWorld
  <2>3. f.pending = NoWait
    OBVIOUS
  <2> HIDE DEF f
  <2> QED BY <1>3, <2>1, <2>2, <2>3 DEF WorldInv
<1>4. t = f \/ (t = w /\ w.pending = NoWait)
  BY DEF projectOutput, World
<1> QED BY <1>2, <1>3, <1>4

\* The world takes an answer in.
LEMMA WorldStep ==
  ASSUME NEW w, WorldInv(w), NEW c \in Commands, NEW rev \in Nat, NEW text, NEW corr \in Nat
  PROVE  WorldInv(projectObservedWorld(
                    projectObservedWorld(w, Committed(c, rev - 1, rev, corr)),
                    Output(rev, text, corr)))
<1> DEFINE wait == [command |-> c, rev |-> rev, corr |-> corr]
           w1 == [w EXCEPT !.pending = wait]
           e == Output(rev, text, corr)
           replaces == \/ e.rev = 0
                       \/ ~Answers(w1.pending, e) /\ w1.pending # NoWait
                       \/ /\ Answers(w1.pending, e)
                          /\ w1.pending.command.verb \in Directions \cup {"look"}
           focus == IF Answers(w1.pending, e) /\ w1.pending.command.object \in w1.entities
                    THEN w1.pending.command.object ELSE NoFocus
<1>1. projectObservedWorld(w, Committed(c, rev - 1, rev, corr)) = w1
  BY DEF projectObservedWorld, Committed
<1>2. wait \in Waits /\ e.type = "output" /\ e.rev = rev
  BY Waiting
<1>3. w \in World /\ isObservedWorld(w)
  BY DEF WorldInv
<1>4. w1 \in World /\ isObservedWorld(w1) /\ w1.entities = w.entities
  BY <1>2, <1>3 DEF World, isObservedWorld
<1>5. focus \in Objects \cup {NoFocus} /\ (focus # NoFocus => focus \in w1.entities)
  BY <1>4 DEF World
<1>6. projectObservedWorld(w1, e) = projectOutput(w1, e, replaces, focus)
  BY <1>2 DEF projectObservedWorld
<1>7. WorldInv(projectOutput(w1, e, replaces, focus))
  <2>1. e.rev \in Int /\ replaces \in BOOLEAN
    BY <1>2
  <2> HIDE DEF w1, e, replaces, focus
  <2> QED BY <1>4, <1>5, <2>1, WorldOutput
<1> QED BY <1>1, <1>6, <1>7

\* The scene after the answer that follows its own revision.
Followed(s, c, rev, e) ==
    LET facts == disclosed(c, e)
        sources == upsert(s.sources, facts.things \cup facts.relations
                            \cup (IF facts.here THEN {Location} ELSE {}), rev)
    IN  Updated(s, rev, c.verb \in Directions, invalidated(c, e), facts,
                IF c.verb \notin Directions /\ c.object \in Things /\ sources[c.object] # <<>>
                THEN c.object ELSE NoFocus)

\* The scene takes the answer in that follows its own revision.
LEMMA SceneAnswered ==
  ASSUME NEW s, SceneShape(s), NEW c \in Commands, NEW text, NEW corr \in Nat, s.rev # NoRev,
         NEW rev, rev = s.rev + 1
  PROVE  projectOpeningScene(projectOpeningScene(s, Committed(c, rev - 1, rev, corr)),
                             Output(rev, text, corr))
           = Followed(s, c, rev, Output(rev, text, corr))
<1> DEFINE e == Output(rev, text, corr)
           wait == [command |-> c, rev |-> rev, corr |-> corr]
           s1 == [s EXCEPT !.pending = wait]
           facts == disclosed(c, e)
           sources == upsert(s.sources, facts.things \cup facts.relations
                               \cup (IF facts.here THEN {Location} ELSE {}), rev)
           focus == IF c.verb \notin Directions /\ c.object \in Things /\ sources[c.object] # <<>>
                    THEN c.object ELSE NoFocus
<1>1. s \in Scene /\ s.rev \in Nat /\ rev \in Nat
  BY DEF SceneShape
<1>2. projectOpeningScene(s, Committed(c, rev - 1, rev, corr)) = s1
  BY <1>1 DEF projectOpeningScene, accepts, Committed
<1>3. /\ s1.rev = s.rev /\ s1.sources = s.sources /\ s1.current = s.current
      /\ s1.relations = s.relations /\ s1.here = s.here /\ s1.pending = wait /\ wait.command = c
      /\ wait.rev = rev
  BY <1>1 DEF Scene
<1>4. wait # NoWait /\ Answers(wait, e) /\ e.type = "output" /\ e.rev = rev
  BY <1>1, Waiting
<1> HIDE DEF e, s1, wait
<1>5. clearsWholeScene(s1, e) <=> c.verb \in Directions
  BY <1>3, <1>4 DEF clearsWholeScene
<1>6. surviving(s1, e, invalidated(c, e)) =
        IF c.verb \in Directions THEN {}
        ELSE {r \in s.relations : About[r] \notin invalidated(c, e)}
  BY <1>3, <1>5 DEF surviving
<1>7. e.type # "committed" /\ ~(s1.rev # NoRev /\ e.rev <= s1.rev)
  BY <1>1, <1>3, <1>4
<1>8. (IF Answers(s1.pending, e) THEN s1.pending.command ELSE NoCommand) = c
  BY <1>3, <1>4
<1>9. (IF s1.pending # NoWait /\ e.rev >= s1.pending.rev THEN NoWait ELSE s1.pending) = NoWait
  BY <1>1, <1>3, <1>4
<1>10. projectOpeningScene(s1, e) =
         [rev |-> e.rev, sources |-> sources,
          current |-> (IF clearsWholeScene(s1, e) THEN {} ELSE s1.current \ invalidated(c, e))
                        \cup facts.things,
          relations |-> surviving(s1, e, invalidated(c, e)) \cup facts.relations,
          here |-> facts.here \/ (~clearsWholeScene(s1, e) /\ s1.here),
          pending |-> NoWait,
          focus |-> IF ~clearsWholeScene(s1, e) /\ c.object \in Things /\ sources[c.object] # <<>>
                    THEN c.object ELSE NoFocus]
  BY <1>3, <1>4, <1>7, <1>8, <1>9 DEF projectOpeningScene
<1>11. projectOpeningScene(s1, e)
         = Updated(s, rev, c.verb \in Directions, invalidated(c, e), facts, focus)
  <2>1. (IF clearsWholeScene(s1, e) THEN {} ELSE s1.current \ invalidated(c, e))
          = (IF c.verb \in Directions THEN {} ELSE s.current \ invalidated(c, e))
    BY <1>3, <1>5
  <2>2. (facts.here \/ (~clearsWholeScene(s1, e) /\ s1.here))
          = (facts.here \/ (c.verb \notin Directions /\ s.here))
    BY <1>3, <1>5
  <2>3. (IF ~clearsWholeScene(s1, e) /\ c.object \in Things /\ sources[c.object] # <<>>
         THEN c.object ELSE NoFocus) = focus
    BY <1>5
  <2> HIDE DEF facts, focus
  <2> QED BY <1>4, <1>6, <1>10, <2>1, <2>2, <2>3 DEF Updated
<1> QED BY <1>2, <1>11 DEF e, Followed

\* The scene after an answer that it cannot place.
Cleared(s, rev) == Updated(s, rev, TRUE, {}, Facts({}, {}, FALSE), NoFocus)

\* An answer that the scene has missed a predecessor of clears it.
LEMMA SceneMissed ==
  ASSUME NEW s, SceneShape(s), NEW c \in Commands, NEW text, NEW corr \in Nat, NEW rev \in Nat,
         s.rev # NoRev, rev > s.rev + 1
  PROVE  projectOpeningScene(projectOpeningScene(s, Committed(c, rev - 1, rev, corr)),
                             Output(rev, text, corr))
           = Cleared(s, rev)
<1> DEFINE e == Output(rev, text, corr)
<1>1. s \in Scene /\ s.rev \in Nat /\ s.pending = NoWait
  BY DEF SceneShape
<1>2. projectOpeningScene(s, Committed(c, rev - 1, rev, corr)) = s
  BY <1>1 DEF projectOpeningScene, accepts, Committed
<1>3. ~Answers(s.pending, e) /\ e.type = "output" /\ e.rev = rev
  BY <1>1 DEF Answers, Output
<1>4. clearsWholeScene(s, e)
  BY <1>1, <1>3 DEF clearsWholeScene
<1>5. disclosed(NoCommand, e) = Facts({}, {}, FALSE)
  <2>1. /\ NoCommand.verb = "none" /\ NoCommand.verb \notin Directions \cup {"look"}
        /\ NoCommand # Command("open", "mailbox") /\ NoCommand # Command("read", "mailbox")
    BY Vocabulary DEF NoCommand, Command, Vocabulary
  <2>2. e.rev # 0
    BY <1>1, <1>3
  <2> HIDE DEF e
  <2> QED BY <2>1, <2>2 DEF disclosed
<1>6. invalidated(NoCommand, e) = {}
  BY DEF invalidated, NoCommand, Command
<1>7. surviving(s, e, {}) = {}
  BY <1>4 DEF surviving
<1> DEFINE none == Facts({}, {}, FALSE)
<1> HIDE DEF e
<1>8. e.type # "committed" /\ ~(s.rev # NoRev /\ e.rev <= s.rev)
  BY <1>1, <1>3
<1>9. (IF Answers(s.pending, e) THEN s.pending.command ELSE NoCommand) = NoCommand
  BY <1>3
<1>10. projectOpeningScene(s, e) =
         [rev |-> rev,
          sources |-> upsert(s.sources, none.things \cup none.relations
                               \cup (IF none.here THEN {Location} ELSE {}), rev),
          current |-> {} \cup none.things, relations |-> {} \cup none.relations,
          here |-> none.here, pending |-> NoWait, focus |-> NoFocus]
  <2>1. none.here = FALSE
    BY DEF Facts
  <2> HIDE DEF none
  <2> QED BY <1>1, <1>3, <1>4, <1>5, <1>6, <1>7, <1>8, <1>9, <2>1 DEF projectOpeningScene, none
<1>11. projectOpeningScene(s, e) = Updated(s, rev, TRUE, {}, none, NoFocus)
  <2>1. none.here = FALSE
    BY DEF Facts
  <2> HIDE DEF none
  <2> QED BY <1>10, <2>1 DEF Updated
<1> QED BY <1>2, <1>11 DEF e, Cleared

\* An answer of an older revision changes nothing.
LEMMA SceneLate ==
  ASSUME NEW s, SceneShape(s), NEW c \in Commands, NEW text, NEW corr \in Nat, NEW rev \in Nat,
         s.rev # NoRev, rev <= s.rev
  PROVE  projectOpeningScene(projectOpeningScene(s, Committed(c, rev - 1, rev, corr)),
                             Output(rev, text, corr)) = s
<1>1. s.rev \in Nat
  BY DEF SceneShape
<1>2. projectOpeningScene(s, Committed(c, rev - 1, rev, corr)) = s
  BY <1>1 DEF projectOpeningScene, accepts, Committed
<1>3. /\ Output(rev, text, corr).type # "committed" /\ Output(rev, text, corr).rev = rev
  BY DEF Output
<1>4. projectOpeningScene(s, Output(rev, text, corr)) = s
  BY <1>1, <1>3 DEF projectOpeningScene
<1> QED BY <1>2, <1>4

\* The scene takes an answer in: it stays acceptable, and true of a history in
\* which the answer is true.
LEMMA SceneStep ==
  ASSUME NEW s, SceneShape(s), s.rev # NoRev, NEW history, SceneTrue(s, history),
         NEW c \in Commands, NEW rev \in Nat \ {0}, NEW text, NEW corr \in Nat,
         Told(c, rev, text, corr, history)
  PROVE  LET t == projectOpeningScene(
                    projectOpeningScene(s, Committed(c, rev - 1, rev, corr)),
                    Output(rev, text, corr))
         IN  SceneShape(t) /\ SceneTrue(t, history) /\ t.rev \in {s.rev, rev}
<1> DEFINE e == Output(rev, text, corr)
           t == projectOpeningScene(projectOpeningScene(s, Committed(c, rev - 1, rev, corr)), e)
<1>1. s.rev \in Nat
  BY DEF SceneShape
<1>2. CASE rev <= s.rev
  <2>1. t = s
    BY <1>2, SceneLate
  <2> QED BY <2>1
<1>3. CASE rev = s.rev + 1
  <2> DEFINE facts == disclosed(c, e)
             sources == upsert(s.sources, facts.things \cup facts.relations
                                 \cup (IF facts.here THEN {Location} ELSE {}), rev)
             clears == c.verb \in Directions
             focus == IF c.verb \notin Directions /\ c.object \in Things
                         /\ sources[c.object] # <<>>
                      THEN c.object ELSE NoFocus
  <2>1. t = Updated(s, rev, clears, invalidated(c, e), facts, focus)
    <3>1. t = Followed(s, c, rev, e)
      <4> HIDE DEF e
      <4>1. e = Output(rev, text, corr)
        BY DEF e
      <4> QED BY <1>3, <4>1, SceneAnswered
    <3>2. Followed(s, c, rev, e) = Updated(s, rev, clears, invalidated(c, e), facts, focus)
      BY DEF Followed
    <3> QED BY <3>1, <3>2
  <2>2. facts \in FactSets /\ clears \in BOOLEAN
    BY DisclosedFacts
  <2>3. focus \in Things \cup {NoFocus} /\ (focus # NoFocus => sources[focus] # <<>>)
    OBVIOUS
  <2>4. ~clears => \A r \in s.relations : Holds(r, history[rev + 1])
    <3>1. ASSUME NEW r \in s.relations PROVE Holds(r, history[rev])
      BY <1>3, <3>1 DEF SceneTrue
    <3>2. s.relations \subseteq Relations
      BY DEF SceneShape, Scene
    <3> QED BY <3>1, <3>2 DEF Told
  <2>5. \A r \in facts.relations : Holds(r, history[rev + 1])
    BY DEF Told
  <2>6. rev \in Nat /\ rev > s.rev
    BY <1>1, <1>3
  <2>7. t.rev = rev
    BY <2>1 DEF Updated
  <2> HIDE DEF t, facts, clears, focus
  <2>8. SceneTrue(t, history)
    BY <2>1, <2>2, <2>4, <2>5, <2>6, UpdatedTrue
  <2>9. SceneShape(t)
    BY <2>1, <2>2, <2>3, <2>6, UpdatedShape
  <2> QED BY <2>7, <2>8, <2>9 DEF t
<1>4. CASE rev > s.rev + 1
  <2> DEFINE none == Facts({}, {}, FALSE)
  <2>1. t = Updated(s, rev, TRUE, {}, none, NoFocus)
    <3>1. rev \in Nat /\ rev > s.rev + 1
      BY <1>4
    <3>2. projectOpeningScene(projectOpeningScene(s, Committed(c, rev - 1, rev, corr)),
                              Output(rev, text, corr))
            = Cleared(s, rev)
      BY <3>1, SceneMissed
    <3> QED BY <3>2 DEF Cleared
  <2>2. none \in FactSets /\ none.relations = {}
    BY DEF FactSets, Facts
  <2>3. rev \in Nat /\ rev > s.rev /\ NoFocus \in Things \cup {NoFocus}
    BY <1>1, <1>4
  <2>4. t.rev = rev
    BY <2>1 DEF Updated
  <2> HIDE DEF t, none
  <2>5. SceneTrue(t, history)
    BY <2>1, <2>2, <2>3, UpdatedTrue
  <2>6. SceneShape(t)
    BY <2>1, <2>2, <2>3, UpdatedShape
  <2> QED BY <2>4, <2>5, <2>6 DEF t
<1> QED BY <1>1, <1>2, <1>3, <1>4

-----------------------------------------------------------------------------
(* The game.                                                               *)

\* Only a movement takes the player elsewhere; nothing is closed or put back.
LEMMA AnswerKeeps ==
  ASSUME NEW c, NEW g \in GameState, NEW next \in GameState, NEW text,
         Answer(c, g, text, next), c.verb \notin Directions
  PROVE  /\ next.place = g.place /\ (g.open => next.open)
         /\ g.leaflet = "held" => next.leaflet = "held"
<1>1. CASE c = Command("open", "mailbox") /\ g.place = "west" /\ ~g.open
  <2>1. next = [g EXCEPT !.open = TRUE]
    BY <1>1 DEF Answer, Command
  <2> QED BY <2>1 DEF GameState
<1>2. CASE c.verb \in {"read", "take"} /\ c.object = "leaflet" /\ LeafletAtHand(g)
  <2>1. next = [g EXCEPT !.leaflet = "held"]
    BY <1>2 DEF Answer, Command
  <2> QED BY <2>1 DEF GameState
<1>3. CASE /\ ~(c = Command("open", "mailbox") /\ g.place = "west" /\ ~g.open)
           /\ ~(c.verb \in {"read", "take"} /\ c.object = "leaflet" /\ LeafletAtHand(g))
  <2>1. next = g
    BY <1>3 DEF Answer
  <2> QED BY <2>1
<1> QED BY <1>1, <1>2, <1>3

\* The reviewed texts are printed where what they say holds.
LEMMA AnswerTells ==
  ASSUME NEW c \in Commands, NEW g \in GameState, NEW next \in GameState, NEW text,
         Answer(c, g, text, next), NEW e, e.rev # 0, e.text = text,
         NEW r \in disclosed(c, e).relations
  PROVE  Holds(r, next)
<1>1. "look" \notin Directions /\ "open" \notin Directions /\ "read" \notin Directions
  BY Vocabulary DEF Vocabulary
<1>2. CASE c.verb \in Directions \cup {"look"} /\ text = "room"
  <2>1. next.place = "west"
    <3>1. CASE c.verb = "look"
      BY <1>1, <1>2, <3>1 DEF Answer, Room, GameState
    <3>2. CASE c.verb \in Directions
      <4>1. text \in Room(next) \cup (IF next.place = "west" THEN {"brief"} ELSE {})
        BY <1>1, <1>2, <3>2 DEF Answer
      <4> QED BY <1>2, <4>1 DEF Room, GameState
    <3> QED BY <1>2, <3>1, <3>2
  <2>2. disclosed(c, e) = RoomFacts
    BY <1>2 DEF disclosed
  <2> QED BY <2>1, <2>2 DEF RoomFacts, Facts, Holds
<1>3. CASE c = Command("open", "mailbox") /\ text = "reveal"
  <2>1. c.verb = "open" /\ c.object = "mailbox"
    BY <1>3 DEF Command
  <2>2. g.place = "west" /\ ~g.open /\ next = [g EXCEPT !.open = TRUE]
    BY <1>1, <1>3, <2>1 DEF Answer
  <2>3. next.place = "west" /\ next.open
    BY <2>2 DEF GameState
  <2>4. disclosed(c, e) = RevealFacts
    BY <1>1, <1>3, <2>1 DEF disclosed
  <2> QED BY <2>3, <2>4 DEF RevealFacts, Facts, Holds
<1>4. CASE c = Command("read", "mailbox") /\ text = "refusal"
  <2>1. c.verb = "read" /\ c.object = "mailbox" /\ c # Command("open", "mailbox")
    BY <1>4 DEF Command
  <2>2. g.place = "west" /\ next = g
    BY <1>1, <1>4, <2>1 DEF Answer
  <2>3. disclosed(c, e) = RefusalFacts
    BY <1>1, <1>4, <2>1 DEF disclosed
  <2> QED BY <2>2, <2>3 DEF RefusalFacts, Facts, Holds
<1>5. CASE ~( \/ c.verb \in Directions \cup {"look"} /\ text = "room"
              \/ c = Command("open", "mailbox") /\ text = "reveal"
              \/ c = Command("read", "mailbox") /\ text = "refusal")
  <2>1. disclosed(c, e) = Facts({}, {}, FALSE)
    BY <1>5 DEF disclosed
  <2> QED BY <2>1 DEF Facts
<1> QED BY <1>2, <1>3, <1>4, <1>5

\* A fact is about where the player is, the mailbox and the leaflet.
LEMMA HoldsSame ==
  ASSUME NEW r, NEW g, NEW h, g.place = h.place, g.open = h.open, g.leaflet = h.leaflet
  PROVE  Holds(r, g) <=> Holds(r, h)
BY DEF Holds

\* A fact survives a command that is no movement.
LEMMA HoldsKept ==
  ASSUME NEW r, NEW g, NEW h, g.place = h.place, g.open => h.open,
         g.leaflet = "held" => h.leaflet = "held", Holds(r, g)
  PROVE  Holds(r, h)
BY DEF Holds


\* A turn of the game adds to the history a game that its answer is true of.
LEMMA Played ==
  ASSUME GameInv, command \in Commands, NEW text, NEW next \in Worlds, Plays(text, next)
  PROVE  /\ game' \in GameState /\ game'.rev = game.rev + 1
         /\ past' \in Seq(GameState) /\ Len(past') = game'.rev + 1 /\ past'[game'.rev + 1] = game'
         /\ \A i \in 1..(game.rev + 1) : past'[i] = past[i]
         /\ Told(command, game'.rev, text, turns, past')
<1>1. /\ game \in GameState /\ past \in Seq(GameState) /\ Len(past) = game.rev + 1
      /\ past[game.rev + 1] = game /\ game.rev \in Nat /\ turns \in Nat
  BY DEF GameInv, GameState
<1>2. next \in GameState
  BY <1>1 DEF Worlds, GameState
<1>3. game' = [next EXCEPT !.rev = game.rev + 1] /\ past' = Append(past, game')
  BY DEF Plays
<1>4. /\ game' \in GameState /\ game'.rev = game.rev + 1 /\ game'.place = next.place
      /\ game'.open = next.open /\ game'.leaflet = next.leaflet
  BY <1>1, <1>2, <1>3 DEF GameState
<1>5. /\ past' \in Seq(GameState) /\ Len(past') = game'.rev + 1 /\ past'[game'.rev + 1] = game'
      /\ \A i \in 1..(game.rev + 1) : past'[i] = past[i]
  BY <1>1, <1>3, <1>4
<1>6. past'[game'.rev] = game
  BY <1>1, <1>4, <1>5
<1>7. Answer(command, game, text, next)
  BY DEF Plays
<1>8. ASSUME command.verb \notin Directions, NEW r \in Relations, Holds(r, game)
      PROVE  Holds(r, game')
  <2>1. /\ next.place = game.place /\ (game.open => next.open)
        /\ game.leaflet = "held" => next.leaflet = "held"
    BY <1>1, <1>2, <1>7, <1>8, AnswerKeeps
  <2> QED BY <1>4, <1>8, <2>1, HoldsKept
<1>9. ASSUME NEW r \in disclosed(command, Output(game'.rev, text, turns)).relations
      PROVE  Holds(r, game')
  <2> DEFINE e == Output(game'.rev, text, turns)
  <2>1. e.rev # 0 /\ e.text = text
    BY <1>1, <1>4 DEF Output
  <2> HIDE DEF e
  <2>2. Holds(r, next)
    BY <1>1, <1>2, <1>7, <1>9, <2>1, AnswerTells DEF e
  <2> QED BY <1>4, <2>2, HoldsSame
<1>10. Told(command, game'.rev, text, turns, past')
  BY <1>5, <1>6, <1>8, <1>9 DEF Told
<1> QED BY <1>4, <1>5, <1>10

\* What was true of the history is true of one that goes on.
LEMMA HistoryKept ==
  ASSUME GameInv, NEW history, \A i \in 1..(game.rev + 1) : history[i] = past[i]
  PROVE  /\ \A o \in owed : Told(o.command, o.rev, o.text, o.corr, history)
         /\ SceneInv /\ scene.rev # NoRev => SceneTrue(scene, history)
         /\ \A rev \in 0..game.rev : history[rev + 1] = past[rev + 1]
<1>1. game.rev \in Nat
  BY DEF GameInv, GameState
<1>2. \A rev \in 0..game.rev : history[rev + 1] = past[rev + 1]
  BY <1>1
<1>3. ASSUME NEW o \in owed PROVE Told(o.command, o.rev, o.text, o.corr, history)
  <2>1. o.rev \in 1..game.rev /\ Told(o.command, o.rev, o.text, o.corr, past)
    BY DEF GameInv
  <2>2. history[o.rev] = past[o.rev] /\ history[o.rev + 1] = past[o.rev + 1]
    BY <1>1, <2>1
  <2> QED BY <2>1, <2>2 DEF Told
<1>4. ASSUME SceneInv, scene.rev # NoRev PROVE SceneTrue(scene, history)
  <2>1. /\ SceneTrue(scene, past) /\ scene.rev \in 0..game.rev
        /\ scene.sources \in [Sourced -> Seq(Nat)] /\ soundSources(scene)
    BY <1>1, <1>4 DEF SceneInv, SceneShape, Scene, isOpeningScene
  <2>2. ASSUME NEW r \in scene.relations PROVE Holds(r, history[scene.rev + 1])
    BY <1>2, <2>1 DEF SceneTrue
  <2>3. ASSUME NEW r \in Relations, NEW k \in DOMAIN scene.sources[r]
        PROVE  Holds(r, history[scene.sources[r][k] + 1])
    <3>1. r \in DOMAIN scene.sources
      BY <2>1 DEF Sourced
    <3>2. scene.sources[r][k] \in 0..scene.rev
      BY <2>1, <3>1 DEF soundSources
    <3>3. scene.sources[r][k] \in 0..game.rev
      BY <1>1, <2>1, <3>2
    <3> QED BY <1>2, <2>1, <3>3 DEF SceneTrue
  <2> QED BY <2>2, <2>3 DEF SceneTrue
<1> QED BY <1>2, <1>3, <1>4

-----------------------------------------------------------------------------
(* The guide's decisions.                                                  *)

\* What a decision about an utterance may be, with the intent that was pending.
Good(r, u, p) ==
    /\ r.kind = "execute" => Permits(r.command, u, p)
    /\ r.kind # "execute" => r.command = NoCommand
    /\ r.kind = "clarify" => LeftOpen(r.pending)
    /\ ClaimTrue(r.said)

\* A choice, when one is pending, is the one the scene offers.
Fresh(p) == LeftOpen(p) /\ ~StaleChoice(p)

\* The kinds of results.
LEMMA Results ==
  /\ \A left, u, p : LeftOpen(left) => Good(Clarify(left), u, p) /\ Clarify(left).kind = "clarify"
  /\ \A c, u, p : Permits(c, u, p) => Good(Execute(c), u, p)
  /\ \A claim, u, p :
       ClaimTrue(claim) => Good(Explain(claim), u, p) /\ Explain(claim).kind = "explain"
  /\ \A u, p : /\ Good(Rejected, u, p) /\ Good(Failed, u, p) /\ Good(AskModel, u, p)
               /\ Good(Explain(NoClaim), u, p) /\ Good(Clarify(NoPending), u, p)
  /\ Rejected.kind = "rejected" /\ Failed.kind = "failed" /\ AskModel.kind = "model"
<1>1. ClaimTrue(NoClaim)
  BY DEF ClaimTrue, NoClaim
<1>2. ASSUME NEW left, LeftOpen(left), NEW u, NEW p
      PROVE  Good(Clarify(left), u, p) /\ Clarify(left).kind = "clarify"
  BY <1>1, <1>2 DEF Good, Clarify, Result
<1>3. ASSUME NEW c, NEW u, NEW p, Permits(c, u, p) PROVE Good(Execute(c), u, p)
  BY <1>1, <1>3 DEF Good, Execute, Result
<1>4. ASSUME NEW claim, ClaimTrue(claim), NEW u, NEW p
      PROVE  Good(Explain(claim), u, p) /\ Explain(claim).kind = "explain"
  BY <1>4 DEF Good, Explain, Result
<1>5. ASSUME NEW u, NEW p
      PROVE  Good(Rejected, u, p) /\ Good(Failed, u, p) /\ Good(AskModel, u, p)
  BY <1>1 DEF Good, Rejected, Failed, AskModel, Result
<1>6. LeftOpen(NoPending)
  BY DEF LeftOpen
<1>7. Rejected.kind = "rejected" /\ Failed.kind = "failed" /\ AskModel.kind = "model"
  BY DEF Rejected, Failed, AskModel, Result
<1> QED BY <1>1, <1>2, <1>3, <1>4, <1>5, <1>6, <1>7

\* The fields of the pending intents.
LEMMA PendingFields ==
  /\ NoPending.kind = "none" /\ PendingContent.kind = "content"
  /\ \A a : PendingAction(a).kind = "action" /\ PendingAction(a).action = a
  /\ \A o, pair : /\ PendingChoice(o, pair).kind = "choice" /\ PendingChoice(o, pair).object = o
                  /\ PendingChoice(o, pair).pair = pair
BY DEF NoPending, PendingContent, PendingAction, PendingChoice

\* What is left open of a kind.
LEMMA OpenKinds ==
  ASSUME NEW p, LeftOpen(p)
  PROVE  /\ p.kind = "action" => p.action \in ObjectActions /\ p = PendingAction(p.action)
         /\ p.kind = "choice" => p.object \in Objects
BY PendingFields DEF LeftOpen, isPending

\* The verbs of the rules, and their risk.
LEMMA Rules ==
  /\ ObjectActions \subseteq Verbs
  /\ \A v \in ObjectActions : v = "examine" \/ Risk(v) = 3
  /\ Risk("examine") = 2 /\ "examine" \in ObjectActions
  /\ \A v : Risk(v) = 1 => v \notin ObjectActions
  /\ \A o \in Objects : o \notin {"it", "none"}
BY Vocabulary DEF ObjectActions, Verbs, Risk, Vocabulary

\* The objects in mind are objects.
LEMMA ObservedObjects ==
  ASSUME WorldInv(world)
  PROVE  Observed \subseteq Objects /\ Observed = world.current
BY DEF WorldInv, World, Observed

\* A question about an object leaves a choice only while the scene has one.
LEMMA ObjectClarified ==
  ASSUME WorldInv(world), NEW object \in Objects, NEW u, NEW p
  PROVE  Good(ClarifyObject(object), u, p) /\ ClarifyObject(object).kind = "clarify"
<1> DEFINE pair == suggestion(scene, object)
           left == IF SceneFits /\ pair # {} THEN PendingChoice(object, pair) ELSE NoPending
<1>1. ASSUME pair # {} PROVE pair \subseteq ObjectActions /\ Cardinality(pair) = 2
  BY <1>1 DEF suggestion, affordances, ObjectActions
<1>2. LeftOpen(left)
  <2>1. CASE SceneFits /\ pair # {}
    <3> HIDE DEF pair
    <3> QED BY <1>1, <2>1, PendingFields DEF LeftOpen, isPending
  <2>2. CASE ~(SceneFits /\ pair # {})
    BY <2>2 DEF LeftOpen
  <2> QED BY <2>1, <2>2
<1>3. ClarifyObject(object) = Clarify(left)
  BY DEF ClarifyObject
<1> HIDE DEF left
<1> QED BY <1>2, <1>3, Results

\* A command that the player's words ground.
LEMMA Grounded ==
  ASSUME NEW c, NEW u, NEW known, groundOpeningCommand(c, u, known).ok
  PROVE  /\ groundOpeningCommand(c, u, known).command = c
         /\ c.verb \in Verbs /\ (ObjectRequired(c.verb) <=> c.object # "none")
         /\ Risk(c.verb) = 3 \/ c.verb = "examine" => directlyRequests(u, c.verb, c.object)
         /\ ObjectRequired(c.verb) => c.object \in known
BY DEF groundOpeningCommand, Refused, Found, compile, parsesRule

\* A command of the player's own words may be executed.
LEMMA GroundedPermits ==
  ASSUME WorldInv(world), NEW c \in [verb : Verbs, object : Objects \cup {"none", "it"}], NEW u,
         NEW p, groundOpeningCommand(c, u, Observed).ok
  PROVE  Permits(c, u, p)
<1>1. /\ c.verb \in Verbs /\ (ObjectRequired(c.verb) <=> c.object # "none")
      /\ Risk(c.verb) = 3 \/ c.verb = "examine" => directlyRequests(u, c.verb, c.object)
      /\ ObjectRequired(c.verb) => c.object \in Observed
  BY Grounded
<1>2. c.object # "none" => c.object \in Observed /\ c.object \in Objects
  BY <1>1, ObservedObjects
<1>3. c \in Commands
  BY <1>2 DEF Commands
<1>4. ASSUME Risk(c.verb) = 3
      PROVE  u.form \in {"do", "polite"} /\ u.act = c.verb /\ u.arg \in {c.object, "it", "none"}
  BY <1>1, <1>4, Rules DEF directlyRequests, matchesRule
<1>5. ASSUME ObjectRequired(c.verb), u.form \in {"do", "polite"}, u.arg \in {"it", "none"}
      PROVE  FALSE
  <2>1. directlyRequests(u, c.verb, c.object)
    BY <1>1, <1>5, Rules DEF ObjectRequired
  <2>2. u.arg = c.object
    BY <2>1 DEF directlyRequests, matchesRule
  <2> QED BY <1>1, <1>2, <1>5, <2>2, Rules
<1> QED BY <1>2, <1>3, <1>4, <1>5 DEF Permits

\* "It" is the object of the last command while it is there.
LEMMA ReferencePermits ==
  ASSUME WorldInv(world), NEW u \in Utterances, NEW p, p.kind # "choice", recentReference(u).ok
  PROVE  Permits(recentReference(u).command, u, p)
<1> DEFINE recent == recentEntity(world)
           c == Command(u.act, recent)
           v == [u EXCEPT !.arg = recent, !.objs = @ \cup {recent}]
<1>1. u.form = "do" /\ u.arg = "it" /\ recent # NoFocus
  BY DEF recentReference, Refused
<1>2. recentReference(u) = groundOpeningCommand(c, v, Observed)
  BY <1>1 DEF recentReference
<1>3. recent \in Observed /\ recent \in Objects
  BY <1>1, ObservedObjects DEF recentEntity
<1>4. c.verb = u.act /\ c.object = recent
  BY DEF Command
<1> HIDE DEF v
<1>5. /\ recentReference(u).command = c /\ c.verb \in Verbs
  BY <1>2, Grounded
<1>6. c \in Commands
  BY <1>3, <1>4, <1>5 DEF Commands, Command
<1> QED BY <1>1, <1>3, <1>4, <1>5, <1>6 DEF Permits

\* The world without the scene: no choice is pending then.
LEMMA WorldOnlyGood ==
  ASSUME WorldInv(world), NEW u \in Utterances, NEW p, p.kind # "choice"
  PROVE  Good(worldOnly(u), u, p)
<1> DEFINE own == IF u.form = "do" THEN groundOpeningCommand(Command(u.act, u.arg), u, Observed)
                  ELSE Refused("unsupported-grammar")
           ref == recentReference(u)
<1>1. ASSUME own.ok PROVE Good(Execute(own.command), u, p)
  <2> DEFINE c == Command(u.act, u.arg)
  <2>1. own = groundOpeningCommand(c, u, Observed) /\ groundOpeningCommand(c, u, Observed).ok
    BY <1>1 DEF Refused
  <2>2. own.command = c /\ c.verb \in Verbs
    BY <2>1, Grounded
  <2>3. c \in [verb : Verbs, object : Objects \cup {"none", "it"}]
    BY <2>2, GuideConstants DEF Command, GuideConstants
  <2> HIDE DEF c
  <2>4. Permits(c, u, p)
    BY <2>1, <2>3, GroundedPermits
  <2> QED BY <2>2, <2>4, Results
<1>2. ASSUME ref.ok PROVE Good(Execute(ref.command), u, p)
  BY <1>2, ReferencePermits, Results
<1>3. Good(Failed, u, p) /\ Good(Explain(NoClaim), u, p) /\ Good(AskModel, u, p)
  BY Results
<1>4. worldOnly(u) = IF ~canonical(u) THEN Failed
                     ELSE IF own.ok THEN Execute(own.command)
                     ELSE IF ref.ok THEN Execute(ref.command)
                     ELSE IF asksUses(u) THEN Explain(NoClaim)
                     ELSE AskModel
  BY DEF worldOnly
<1> HIDE DEF own, ref
<1> QED BY <1>1, <1>2, <1>3, <1>4

\* A reply that grounds is one of the four actions, of the object of the choice.
LEMMA ChoiceReply ==
  ASSUME NEW p, NEW u, NEW known, groundChoiceReply(p, u, known).ok
  PROVE  \E a \in ObjectActions :
           /\ groundChoiceReply(p, u, known).command = Command(a, p.object)
           /\ choiceObjectKnown(p, known)
           /\ \E ref \in {"none", "it", p.object} : directlyRequests(u, a, ref)
<1> DEFINE matching == {a \in ObjectActions :
                          \E ref \in {"none", "it", p.object} : directlyRequests(u, a, ref)}
           a == CHOOSE x \in matching : TRUE
<1>1. /\ choiceObjectKnown(p, known) /\ Cardinality(matching) = 1
      /\ groundChoiceReply(p, u, known) = Found(Command(a, p.object))
  BY DEF groundChoiceReply, Refused
<1>2. matching # {}
  BY <1>1, FS_EmptySet
<1>3. a \in matching
  BY <1>2
<1>4. groundChoiceReply(p, u, known).command = Command(a, p.object)
  BY <1>1 DEF Found
<1> HIDE DEF a
<1> QED BY <1>1, <1>3, <1>4

\* The reply to a choice that the scene still offers may be executed.
LEMMA ChoicePermits ==
  ASSUME WorldInv(world), NEW u, NEW p, Fresh(p), p.kind = "choice",
         groundChoiceReply(p, u, Observed).ok
  PROVE  Permits(groundChoiceReply(p, u, Observed).command, u, p)
<1>1. PICK a \in ObjectActions :
        /\ groundChoiceReply(p, u, Observed).command = Command(a, p.object)
        /\ choiceObjectKnown(p, Observed)
        /\ \E ref \in {"none", "it", p.object} : directlyRequests(u, a, ref)
  BY ChoiceReply
<1> DEFINE c == Command(a, p.object)
<1>2. c.verb = a /\ c.object = p.object
  BY DEF Command
<1>3. p.object \in Observed /\ p.object \in Objects
  BY <1>1, OpenKinds DEF choiceObjectKnown, Fresh
<1>4. suggestion(scene, p.object) = p.pair
  BY DEF Fresh, StaleChoice, choiceHolds
<1>5. c \in Commands
  BY <1>3, Rules DEF Commands, Command
<1>6. ASSUME Risk(a) = 3
      PROVE  u.form \in {"do", "polite"} /\ u.act = a /\ u.arg \in {p.object, "it", "none"}
  BY <1>1, <1>6, Rules DEF directlyRequests, matchesRule
<1> HIDE DEF c
<1>7. Permits(c, u, p)
  BY <1>2, <1>3, <1>4, <1>5, <1>6 DEF Permits
<1> QED BY <1>1, <1>7 DEF c

\* The name of an observed object, after a verb was left open, may be acted on.
LEMMA NamePermits ==
  ASSUME WorldInv(world), NEW u, NEW p, LeftOpen(p), p.kind = "action", namesObserved(u, Observed)
  PROVE  Permits(Command(p.action, u.arg), u, p)
<1> DEFINE c == Command(p.action, u.arg)
<1>1. c.verb = p.action /\ c.object = u.arg
  BY DEF Command
<1>2. p.action \in ObjectActions /\ p = PendingAction(p.action)
  BY OpenKinds
<1>3. u.form = "bare" /\ u.arg \in Observed /\ u.arg \in Objects
  BY ObservedObjects DEF namesObserved
<1>4. c \in Commands
  BY <1>2, <1>3, Rules DEF Commands, Command
<1> HIDE DEF c
<1>5. Permits(c, u, p)
  BY <1>1, <1>2, <1>3, <1>4 DEF Permits
<1> QED BY <1>5 DEF c

\* The object in focus may be looked at again.
LEMMA FocusPermits ==
  ASSUME SceneShape(scene), NEW u, NEW p, focusedObservation(u, scene)
  PROVE  Permits(Command("examine", scene.focus), u, p)
<1> DEFINE c == Command("examine", scene.focus)
<1>1. c.verb = "examine" /\ c.object = scene.focus
  BY DEF Command
<1>2. u.form = "back" /\ scene.focus \in Objects
  BY SceneConstants DEF focusedObservation, SceneShape, Scene, SceneConstants
<1>3. c \in Commands
  BY <1>2, Rules DEF Commands, Command
<1> HIDE DEF c
<1>4. Permits(c, u, p)
  BY <1>1, <1>2, <1>3, Rules DEF Permits
<1> QED BY <1>4 DEF c

\* What an utterance leaves open.
LEMMA InferredOpen ==
  ASSUME NEW u
  PROVE  LeftOpen(inferPending(u)) /\ LeftOpen(PendingContent)
<1> DEFINE actions == u.verbs \cap ObjectActions
           a == CHOOSE x \in actions : TRUE
<1>1. CASE \E x \in actions : actions = {x} /\ directlyRequests(u, x, "it")
  <2>1. a \in ObjectActions
    BY <1>1
  <2>2. inferPending(u) \in {NoPending, PendingContent, PendingAction(a)}
    BY DEF inferPending
  <2> HIDE DEF a
  <2> QED BY <2>1, <2>2 DEF LeftOpen, isPending
<1>2. CASE ~(\E x \in actions : actions = {x} /\ directlyRequests(u, x, "it"))
  <2>1. inferPending(u) \in {NoPending, PendingContent}
    BY <1>2 DEF inferPending
  <2> QED BY <2>1 DEF LeftOpen, isPending
<1> QED BY <1>1, <1>2

\* A reply to what was left open.
LEMMA PendingReplyGood ==
  ASSUME WorldInv(world), NEW u, NEW p, Fresh(p)
  PROVE  Good(pendingReply(p, u), u, p)
<1> DEFINE choice == groundChoiceReply(p, u, Observed)
<1>0. LeftOpen(p)
  BY DEF Fresh
<1>1. CASE p.kind = "action" /\ namesObserved(u, Observed)
  <2>1. Permits(Command(p.action, u.arg), u, p)
    BY <1>0, <1>1, NamePermits
  <2>2. pendingReply(p, u) = Execute(Command(p.action, u.arg))
    BY <1>1 DEF pendingReply
  <2> QED BY <2>1, <2>2, Results
<1>2. CASE p.kind = "content" /\ namesObserved(u, Observed)
  <2>1. u.arg \in Objects
    BY <1>2, ObservedObjects DEF namesObserved
  <2>2. pendingReply(p, u) = ClarifyObject(u.arg)
    BY <1>2 DEF pendingReply
  <2> QED BY <2>1, <2>2, ObjectClarified
<1>3. CASE p.kind = "choice" /\ choice.ok
  <2>1. Permits(choice.command, u, p)
    BY <1>3, ChoicePermits
  <2>2. pendingReply(p, u) = Execute(choice.command)
    BY <1>3 DEF pendingReply
  <2> QED BY <2>1, <2>2, Results
<1>4. CASE /\ ~(p.kind = "action" /\ namesObserved(u, Observed))
           /\ ~(p.kind = "content" /\ namesObserved(u, Observed))
           /\ ~(p.kind = "choice" /\ choice.ok)
  <2>1. pendingReply(p, u) \in {Clarify(NoPending), Clarify(PendingContent), AskModel}
    BY <1>4 DEF pendingReply
  <2> QED BY <2>1, Results, InferredOpen
<1> QED BY <1>1, <1>2, <1>3, <1>4

\* What the scene says has a source, and held where it was disclosed.
LEMMA GuidanceTrue ==
  ASSUME GameInv, SceneInv, NEW u
  PROVE  ClaimTrue([claim |-> sceneGuidance(u, scene).claim,
                    sources |-> sceneGuidance(u, scene).sources])
<1>1. /\ scene.sources \in [Sourced -> Seq(Nat)] /\ scene.relations \subseteq Relations
      /\ soundSources(scene) /\ soundRelations(scene) /\ scene.rev \in Int
      /\ SceneTrue(scene, past) /\ scene.rev <= game.rev /\ game.rev \in Nat
  BY DEF SceneInv, SceneShape, Scene, isOpeningScene, GameInv, GameState
<1>2. ASSUME NEW r \in scene.relations
      PROVE  ClaimTrue([claim |-> r, sources |-> ToSet(scene.sources[r])])
  <2> DEFINE seq == scene.sources[r]
  <2>1. r \in Relations /\ r \in DOMAIN scene.sources
    BY <1>1 DEF Sourced
  <2>2. seq \in Seq(Nat) /\ seq # <<>>
    BY <1>1, <2>1 DEF soundRelations
  <2>3. 1 \in DOMAIN seq
    BY <2>2
  <2>4. ToSet(seq) = {seq[k] : k \in DOMAIN seq}
    BY DEF ToSet
  <2>5. ASSUME NEW k \in DOMAIN seq PROVE seq[k] \in 0..game.rev
    <3>1. seq[k] \in 0..scene.rev
      BY <1>1, <2>1 DEF soundSources
    <3> QED BY <1>1, <3>1
  <2>6. ASSUME NEW k \in DOMAIN seq PROVE Holds(r, past[seq[k] + 1])
    BY <1>1, <2>1 DEF SceneTrue
  <2> HIDE DEF seq
  <2> QED BY <2>1, <2>3, <2>4, <2>5, <2>6 DEF ClaimTrue, seq
<1> DEFINE here == {r \in scene.relations \cap {"mailbox-here", "leaflet-here"} : About[r] = u.arg}
           first == CHOOSE r \in here : TRUE
           g == sceneGuidance(u, scene)
<1>3. \/ g.claim = "none" /\ g.sources = {}
      \/ g.claim \in scene.relations /\ g.sources = ToSet(scene.sources[g.claim])
  <2>1. CASE navigates(u, scene) /\ here # {}
    <3>1. first \in scene.relations
      BY <2>1
    <3>2. g = Guidance(first, scene)
      BY <2>1 DEF sceneGuidance
    <3>3. first # "none"
      BY <2>1, <3>1
    <3> HIDE DEF first, g
    <3> QED BY <3>1, <3>2, <3>3 DEF Guidance
  <2>2. CASE ~(navigates(u, scene) /\ here # {})
    <3>1. \/ g \in {NoGuidance, Guidance("none", scene)}
          \/ "east-of" \in scene.relations /\ g = Guidance("east-of", scene)
      BY <2>2 DEF sceneGuidance
    <3> HIDE DEF g
    <3> QED BY <3>1 DEF NoGuidance, Guidance
  <2> QED BY <2>1, <2>2
<1>4. CASE g.claim = "none" /\ g.sources = {}
  BY <1>4 DEF ClaimTrue
<1>5. CASE g.claim \in scene.relations /\ g.sources = ToSet(scene.sources[g.claim])
  BY <1>2, <1>5
<1> QED BY <1>3, <1>4, <1>5

\* The object that a content question or an ambiguity is about.
LEMMA ContentObjects ==
  ASSUME NEW u, NEW known
  PROVE  /\ contentRequest(u, known) \subseteq Objects
         /\ contentRequest(u, known) # {} =>
              (CHOOSE o \in contentRequest(u, known) : TRUE) \in Objects
<1>1. contentRequest(u, known) \subseteq Objects
  BY DEF contentRequest
<1> QED BY <1>1

\* The answers of the scene and the replies.
LEMMA SceneReplyGood ==
  ASSUME GameInv, WorldInv(world), SceneInv, NEW u, NEW p, Fresh(p)
  PROVE  Good(sceneReply(p, u), u, p)
<1> DEFINE content == contentRequest(u, Observed)
           guidance == IF SceneFits THEN sceneGuidance(u, scene) ELSE NoGuidance
           claim == [claim |-> guidance.claim, sources |-> guidance.sources]
           first == CHOOSE o \in content : TRUE
<1>1. ASSUME focusedObservation(u, scene)
      PROVE  Good(Execute(Command("examine", scene.focus)), u, p)
  BY <1>1, FocusPermits, Results DEF SceneInv
<1>2. ASSUME content # {} PROVE Good(ClarifyObject(first), u, p)
  <2>1. first \in Objects
    BY <1>2, ContentObjects
  <2> HIDE DEF first
  <2> QED BY <2>1, ObjectClarified
<1>3. Good(Clarify(p), u, p)
  BY Results DEF Fresh
<1>4. ASSUME guidance.found PROVE Good(Explain(claim), u, p)
  <2>1. guidance = sceneGuidance(u, scene)
    BY <1>4 DEF NoGuidance
  <2>2. ClaimTrue(claim)
    BY <2>1, GuidanceTrue
  <2> HIDE DEF claim
  <2> QED BY <2>2, Results
<1>5. Good(pendingReply(p, u), u, p)
  BY PendingReplyGood
<1>6. sceneReply(p, u) =
        IF SceneFits /\ focusedObservation(u, scene) THEN Execute(Command("examine", scene.focus))
        ELSE IF content # {} THEN ClarifyObject(first)
        ELSE IF p.kind = "choice" /\ scopedOptionsRequested(u) THEN Clarify(p)
        ELSE IF guidance.found THEN Explain(claim) ELSE pendingReply(p, u)
  BY DEF sceneReply
<1> HIDE DEF content, guidance, claim, first
<1> QED BY <1>1, <1>2, <1>3, <1>4, <1>5, <1>6

\* Before the model: a command, or a question to the model, is of what was heard
\* well and of no stale choice.
LEMMA LocalGood ==
  ASSUME GameInv, WorldInv(world), SceneInv, NEW u \in Utterances, NEW sure \in BOOLEAN, NEW p,
         LeftOpen(p)
  PROVE  /\ Good(localDecision(u, sure, p), u, p)
         /\ localDecision(u, sure, p).kind \in {"execute", "model"} => sure /\ ~StaleChoice(p)
<1> DEFINE own == worldOnly(u)
           about == IF AboutChoice(p, u, u.verbs) THEN Clarify(p) ELSE Explain(NoClaim)
           stop == {Rejected, Clarify(NoPending), Clarify(p), Explain(NoClaim)}
           r == localDecision(u, sure, p)
<1>1. \/ r \in stop
      \/ sure /\ ~StaleChoice(p) /\ (r = sceneReply(p, u) \/ (~SceneFits /\ r = own))
  BY DEF localDecision
<1>2. ASSUME NEW x \in stop PROVE Good(x, u, p) /\ x.kind \notin {"execute", "model"}
  <2>1. Good(Rejected, u, p) /\ Rejected.kind = "rejected"
    BY Results
  <2>2. Good(Clarify(p), u, p) /\ Clarify(p).kind = "clarify"
    BY Results
  <2>3. Good(Clarify(NoPending), u, p) /\ Clarify(NoPending).kind = "clarify"
    BY Results DEF LeftOpen
  <2>4. Good(Explain(NoClaim), u, p) /\ Explain(NoClaim).kind = "explain"
    BY Results DEF Explain, Result
  <2> QED BY <2>1, <2>2, <2>3, <2>4
<1>3. ASSUME ~StaleChoice(p) PROVE Good(sceneReply(p, u), u, p)
  BY <1>3, SceneReplyGood DEF Fresh
<1>4. ASSUME ~StaleChoice(p), ~SceneFits PROVE Good(own, u, p)
  <2>1. p.kind # "choice"
    BY <1>4 DEF StaleChoice
  <2> QED BY <2>1, WorldOnlyGood
<1> HIDE DEF r, own, stop
<1>5. Good(r, u, p) /\ (r.kind \in {"execute", "model"} => sure /\ ~StaleChoice(p))
  BY <1>1, <1>2, <1>3, <1>4
<1> QED BY <1>5 DEF r

\* The kinds of a model's decisions, and the command of one in words or of an
\* affordance.
LEMMA Decided ==
  ASSUME NEW d \in Decisions
  PROVE  \/ d.kind \in {"malformed", "unsupported", "clarify", "explain"}
         \/ d.kind \in {"words", "affordance"} /\ d.command \in Commands \cup {NoCommand}
<1> DEFINE look == Decision("words", Command("look", "none"), {})
<1>1. \A k, c, s : Decision(k, c, s).kind = k /\ Decision(k, c, s).command = c
  BY DEF Decision
<1>2. Command("look", "none") \in Commands
  BY DEF Command, Commands, Verbs
<1>3. LET e == [look EXCEPT !.more = TRUE]
      IN  e.kind = "words" /\ e.command = Command("look", "none")
  BY DEF Decision
<1>4. CASE d \in {Decision(k, NoCommand, {}) : k \in {"malformed", "unsupported"}}
  BY <1>1, <1>4
<1>5. CASE d \in {Decision("clarify", Command("read", o), {}) : o \in Objects \cup {"none"}}
  BY <1>1, <1>5
<1>6. CASE d \in {Decision("explain", NoCommand, s) :
                    s \in {{}, {"examine", "read"}, {"examine", "open"}}}
  BY <1>1, <1>6
<1>7. CASE d \in {Decision("words", c, {}) : c \in Commands \cup {NoCommand}}
  BY <1>1, <1>7
<1>8. CASE d \in {[look EXCEPT !.sure = sure, !.more = ~sure] : sure \in BOOLEAN}
  <2>1. PICK sure \in BOOLEAN : d = [look EXCEPT !.sure = sure, !.more = ~sure]
    BY <1>8
  <2>2. d.kind = "words" /\ d.command = Command("look", "none")
    BY <2>1 DEF Decision
  <2> QED BY <1>2, <2>2
<1>9. CASE d = [look EXCEPT !.more = TRUE]
  BY <1>2, <1>3, <1>9
<1>10. CASE d \in {Decision("affordance", c, {}) : c \in Commands \cup {NoCommand}}
  BY <1>1, <1>10
<1> QED BY <1>4, <1>5, <1>6, <1>7, <1>8, <1>9, <1>10 DEF Decisions, WordDecisions

\* An affordance that needs no verb of the player's own changes nothing.
LEMMA FallbackPermits ==
  ASSUME WorldInv(world), NEW c \in Commands, NEW u, NEW p, intentResolves(c, Observed),
         fallback(c, u)
  PROVE  Permits(c, u, p)
<1>1. CASE Risk(c.verb) = 1
  <2>1. c.object = "none" /\ ~ObjectRequired(c.verb)
    BY <1>1, Rules DEF intentResolves, ObjectRequired
  <2> QED BY <1>1, <2>1 DEF Permits
<1>2. CASE c.verb = "examine" /\ observationRequested(c.object, u, Observed)
  <2>1. c.object \in Observed /\ c.object \in Objects
    BY <1>2, Rules, ObservedObjects DEF intentResolves, ObjectRequired
  <2>2. ASSUME u.form \in {"do", "polite"}, u.arg \in {"it", "none"} PROVE FALSE
    <3>1. HasBody(u) /\ u.form # "observe"
      BY <2>2 DEF HasBody
    <3>2. directlyRequests(u, "examine", c.object)
      BY <1>2, <3>1 DEF observationRequested
    <3>3. u.arg = c.object
      BY <3>2 DEF directlyRequests, matchesRule
    <3> QED BY <2>1, <2>2, <3>3, Rules
  <2> QED BY <1>2, <2>1, <2>2, Rules DEF Permits
<1> QED BY <1>1, <1>2 DEF fallback

\* The model's proposal is grounded in the player's words.
LEMMA ProposalGood ==
  ASSUME WorldInv(world), NEW d \in Decisions, d.kind \in {"words", "affordance"}, NEW u, NEW p
  PROVE  Good(groundProposal(d, u), u, p)
<1> DEFINE c == d.command
           lexical == groundOpeningCommand(c, u, Observed)
           ambiguous == readExamineAmbiguity(c, u, Observed)
           first == CHOOSE o \in ambiguous : TRUE
<1>1. c \in Commands \cup {NoCommand}
  BY Decided
<1>2. ASSUME c.verb \in Verbs PROVE c \in Commands
  <2>1. NoCommand.verb \notin Verbs
    BY Vocabulary DEF NoCommand, Command, Verbs, ObjectActions, Vocabulary
  <2> QED BY <1>1, <1>2, <2>1
<1>3. ASSUME lexical.ok PROVE Good(Execute(c), u, p)
  <2>1. c \in Commands
    BY <1>2, <1>3, Grounded
  <2>2. c \in [verb : Verbs, object : Objects \cup {"none", "it"}]
    BY <2>1 DEF Commands
  <2> HIDE DEF c
  <2>3. Permits(c, u, p)
    BY <1>3, <2>2, GroundedPermits
  <2> QED BY <2>3, Results
<1>4. ASSUME ambiguous # {} PROVE Good(ClarifyObject(first), u, p)
  <2>1. ambiguous \subseteq Objects
    BY ObservedObjects DEF readExamineAmbiguity
  <2>2. first \in Objects
    BY <1>4, <2>1
  <2> HIDE DEF first
  <2> QED BY <2>2, ObjectClarified
<1>5. ASSUME intentResolves(c, Observed), fallback(c, u) PROVE Good(Execute(c), u, p)
  <2>1. c \in Commands
    BY <1>2, <1>5 DEF intentResolves
  <2> HIDE DEF c
  <2>2. Permits(c, u, p)
    BY <1>5, <2>1, FallbackPermits
  <2> QED BY <2>2, Results
<1>6. Good(Rejected, u, p)
  BY Results
<1>7. groundProposal(d, u) =
        IF d.kind = "affordance" /\ ~intentResolves(c, Observed) THEN Rejected
        ELSE IF lexical.ok THEN Execute(c)
        ELSE IF ambiguous # {} THEN ClarifyObject(first)
        ELSE IF d.kind = "affordance" /\ fallback(c, u) THEN Execute(c)
        ELSE Rejected
  BY DEF groundProposal
<1> HIDE DEF c, lexical, ambiguous, first
<1> QED BY <1>3, <1>4, <1>5, <1>6, <1>7

\* Whatever the model answers.
LEMMA ModelGood ==
  ASSUME WorldInv(world), NEW d \in Decisions, NEW u, NEW p, LeftOpen(p)
  PROVE  Good(modelDecision(d, p, u), u, p)
<1>1. Good(modelClarifies(d, u), u, p)
  <2> DEFINE object == contentRequest(u, Observed)
                         \cup readExamineChoice({Command("examine", d.command.object), d.command},
                                                u, Observed)
             first == CHOOSE o \in object : TRUE
  <2>1. object \subseteq Objects
    BY ContentObjects, ObservedObjects DEF readExamineChoice
  <2>2. CASE object # {}
    <3>1. first \in Objects
      BY <2>1, <2>2
    <3>2. modelClarifies(d, u) = ClarifyObject(first)
      BY <2>2 DEF modelClarifies
    <3> HIDE DEF first
    <3> QED BY <3>1, <3>2, ObjectClarified
  <2>3. CASE object = {}
    <3>1. modelClarifies(d, u) = Clarify(inferPending(u))
      BY <2>3 DEF modelClarifies
    <3> QED BY <3>1, InferredOpen, Results
  <2> QED BY <2>2, <2>3
<1>2. Good(modelExplains(d, p, u), u, p)
  <2>1. modelExplains(d, p, u) \in {Rejected, Clarify(p), Clarify(NoPending), Explain(NoClaim)}
    BY DEF modelExplains
  <2> QED BY <2>1, Results
<1>3. Good(Rejected, u, p) /\ Good(Clarify(p), u, p) /\ Good(Clarify(inferPending(u)), u, p)
  BY Results, InferredOpen
<1>4. CASE d.kind \in {"malformed", "unsupported", "clarify", "explain"}
  <2>1. modelDecision(d, p, u) \in {Rejected, modelClarifies(d, u), modelExplains(d, p, u)}
    BY <1>4 DEF modelDecision
  <2> QED BY <1>1, <1>2, <1>3, <2>1
<1>5. CASE d.kind \in {"words", "affordance"}
  <2>1. modelDecision(d, p, u) \in {Clarify(p), Clarify(inferPending(u)), groundProposal(d, u)}
    BY <1>5 DEF modelDecision
  <2>2. Good(groundProposal(d, u), u, p)
    BY <1>5, ProposalGood
  <2> QED BY <1>3, <2>1, <2>2
<1> QED BY <1>4, <1>5, Decided

-----------------------------------------------------------------------------
(* The inductive invariant holds.                                          *)

\* The scene before the opening is one that the guide accepts.
LEMMA EmptyScene ==
  /\ SceneShape(createOpeningScene) /\ createOpeningScene.rev = -1
  /\ \A history : SceneTrue(createOpeningScene, history)
<1> DEFINE s == createOpeningScene
<1>1. /\ s.rev = -1 /\ s.current = {} /\ s.relations = {} /\ s.here = FALSE /\ s.pending = NoWait
      /\ s.focus = NoFocus /\ s.sources = [x \in Sourced |-> <<>>]
  BY DEF createOpeningScene, NoRev, Sourced
<1>2. NoWait \in Waits
  BY DEF NoWait, Waits, NoRev
<1>3. s \in Scene
  BY <1>2 DEF createOpeningScene, Scene, NoRev, Sourced
<1>4. \A x \in Sourced : s.sources[x] = <<>> /\ DOMAIN s.sources[x] = {}
  BY <1>1
<1>5. "east-of" \in Sourced /\ "west-of" \in Sourced /\ Relations \subseteq Sourced
  BY RelationNames DEF Sourced
<1> HIDE DEF s
<1>6. soundSources(s)
  BY <1>1, <1>4 DEF soundSources
<1>7. soundRelations(s)
  BY <1>1, <1>4, <1>5 DEF soundRelations
<1>8. isOpeningScene(s)
  BY <1>1, <1>6, <1>7 DEF isOpeningScene
<1>9. SceneShape(s)
  BY <1>1, <1>3, <1>4, <1>5, <1>8 DEF SceneShape, NoRev
<1>10. \A history : SceneTrue(s, history)
  BY <1>1, <1>4, <1>5 DEF SceneTrue
<1> QED BY <1>1, <1>9, <1>10 DEF s

\* The opening discloses the first room.
LEMMA OpeningScene ==
  projectOpeningScene(createOpeningScene, Output(0, "boot", 0))
    = Updated(createOpeningScene, 0, FALSE, {}, RoomFacts, NoFocus)
<1> DEFINE s == createOpeningScene
           e == Output(0, "boot", 0)
<1>1. /\ s.rev = NoRev /\ s.pending = NoWait /\ s.relations = {} /\ s.current = {} /\ s.here = FALSE
      /\ e.type = "output" /\ e.rev = 0 /\ e.text = "boot"
  BY DEF createOpeningScene, Output
<1>2. ~Answers(s.pending, e) /\ NoCommand.object = "none" /\ NoCommand.verb = "none"
  BY <1>1 DEF Answers, NoCommand, Command
<1> HIDE DEF s, e
<1>3. ~clearsWholeScene(s, e)
  BY <1>1, <1>2 DEF clearsWholeScene
<1>4. disclosed(NoCommand, e) = RoomFacts
  BY <1>1 DEF disclosed
<1>5. invalidated(NoCommand, e) = {}
  BY <1>2 DEF invalidated
<1>6. surviving(s, e, {}) = {r \in s.relations : About[r] \notin {}}
  BY <1>3 DEF surviving
<1>7. (IF Answers(s.pending, e) THEN s.pending.command ELSE NoCommand) = NoCommand
  BY <1>2
<1>8. "none" \notin Things
  BY DEF Things
<1>9. projectOpeningScene(s, e) =
         [rev |-> 0,
          sources |-> upsert(s.sources, RoomFacts.things \cup RoomFacts.relations
                               \cup (IF RoomFacts.here THEN {Location} ELSE {}), 0),
          current |-> (s.current \ {}) \cup RoomFacts.things,
          relations |-> {r \in s.relations : About[r] \notin {}} \cup RoomFacts.relations,
          here |-> RoomFacts.here \/ s.here, pending |-> NoWait, focus |-> NoFocus]
  BY <1>1, <1>2, <1>3, <1>4, <1>5, <1>6, <1>7, <1>8 DEF projectOpeningScene
<1>10. projectOpeningScene(s, e) = Updated(s, 0, FALSE, {}, RoomFacts, NoFocus)
  BY <1>9 DEF Updated
<1> QED BY <1>10 DEF s, e

\* So does the world.
LEMMA OpeningWorld ==
  /\ WorldInv(createObservedWorld)
  /\ WorldInv(projectObservedWorld(createObservedWorld, Output(0, "boot", 0)))
<1> DEFINE w == createObservedWorld
           e == Output(0, "boot", 0)
<1>1. NoWait \in Waits
  BY DEF NoWait, Waits, NoRev
<1>2. WorldInv(w)
  BY <1>1 DEF createObservedWorld, WorldInv, World, isObservedWorld, NoRev
<1>3. e.rev = 0 /\ e.type = "output" /\ w.pending = NoWait
  BY DEF createObservedWorld, Output
<1> HIDE DEF w, e
<1>4. projectObservedWorld(w, e) = projectOutput(w, e, TRUE, NoFocus)
  BY <1>3 DEF projectObservedWorld, Answers
<1>5. WorldInv(projectOutput(w, e, TRUE, NoFocus))
  <2>1. w \in World /\ isObservedWorld(w) /\ e.rev \in Int /\ TRUE \in BOOLEAN
    BY <1>2, <1>3 DEF WorldInv
  <2> QED BY <2>1, WorldOutput, Zenon
<1> QED BY <1>2, <1>4, <1>5 DEF w, e

\* The start.
LEMMA IInvInit ==
  ASSUME Init
  PROVE  IInv
<1>1. GameInv
  <2>1. game \in GameState /\ game.rev = 0
    BY DEF Init, GameState
  <2>2. past \in Seq(GameState) /\ Len(past) = 1 /\ past[1] = game
    BY <2>1 DEF Init
  <2>3. turns = 0 /\ owed = {}
    BY DEF Init
  <2> QED BY <2>1, <2>2, <2>3 DEF GameInv
<1>2. WorldInv(world)
  BY OpeningWorld DEF Init
<1>3. SceneInv
  <2>1. game.rev = 0 /\ game.place = "west" /\ scene = createOpeningScene /\ stage = "boot"
    BY DEF Init
  <2> QED BY <2>1, EmptyScene DEF SceneInv
<1>4. TurnInv
  BY DEF TurnInv, Init, LeftOpen
<1>5. ClaimTrue(said)
  BY DEF ClaimTrue, Init, NoClaim
<1> QED BY <1>1, <1>2, <1>3, <1>4, <1>5 DEF IInv

\* The text of the first room opens the projections.
LEMMA IInvBoot ==
  ASSUME IInv, Boot
  PROVE  IInv'
<1> DEFINE t == projectOpeningScene(createOpeningScene, Output(0, "boot", 0))
<1>1. /\ stage = "boot" /\ game.rev = 0 /\ game.place = "west" /\ scene' = t /\ stage' = "idle"
      /\ UNCHANGED <<pending, turn, command, turns, game, owed, said, past>>
  BY DEF Boot, IInv, SceneInv
<1>2. GameInv'
  BY <1>1 DEF IInv, GameInv
<1>3. WorldInv(world)'
  <2>1. WorldInv(world')
    BY OpeningWorld DEF Boot
  <2> QED BY <2>1 DEF WorldInv
<1>4. t = Updated(createOpeningScene, 0, FALSE, {}, RoomFacts, NoFocus)
  BY OpeningScene
<1>5. RoomFacts \in FactSets /\ NoFocus \in Things \cup {NoFocus} /\ 0 > createOpeningScene.rev
  BY EmptyScene DEF FactSets
<1>6. SceneShape(t)
  <2> HIDE DEF t
  <2> QED BY <1>4, <1>5, EmptyScene, UpdatedShape
<1>7. SceneTrue(t, past)
  <2>1. past[0 + 1].place = "west"
    BY <1>1 DEF IInv, GameInv
  <2>2. \A r \in RoomFacts.relations : Holds(r, past[0 + 1])
    BY <2>1 DEF RoomFacts, Facts, Holds
  <2>3. createOpeningScene.relations = {}
    BY DEF createOpeningScene
  <2> HIDE DEF t
  <2> QED BY <1>4, <1>5, <2>2, <2>3, EmptyScene, UpdatedTrue
<1>8. t.rev = 0
  BY <1>4 DEF Updated
<1>9. SceneInv'
  <2> HIDE DEF t
  <2>1. SceneShape(scene') /\ SceneTrue(scene', past')
    BY <1>1, <1>6, <1>7
  <2> QED BY <1>1, <1>8, <2>1 DEF SceneInv, NoRev
<1>10. TurnInv'
  BY <1>1 DEF IInv, TurnInv
<1>11. ClaimTrue(said)'
  BY <1>1 DEF IInv, ClaimTrue
<1> QED BY <1>2, <1>3, <1>9, <1>10, <1>11 DEF IInv

\* What a decision leaves of the turn and of what was said.
LEMMA Applied ==
  ASSUME IInv, NEW r, NEW how, Apply(r, how), Good(r, turn'.u, turn'.pending),
         r.kind = "execute" => turn'.sure, UNCHANGED <<memory, game, past>>
  PROVE  TurnInv' /\ ClaimTrue(said)'
<1>1. /\ stage' = (IF r.kind = "execute" THEN "engine" ELSE "idle")
      /\ command' = r.command /\ said' = r.said
      /\ r.kind # "clarify" => pending' \in {NoPending, pending}
      /\ r.kind = "clarify" => pending' = r.pending
  BY DEF Apply
<1>2. LeftOpen(pending')
  BY <1>1 DEF IInv, TurnInv, Good, LeftOpen
<1>3. ClaimTrue(said)'
  <2>1. ClaimTrue(r.said)
    BY DEF Good
  <2> QED BY <1>1, <2>1 DEF ClaimTrue
<1>4. CASE r.kind = "execute"
  <2>1. Permits(r.command, turn'.u, turn'.pending)
    BY <1>4 DEF Good
  <2>2. Permits(command, turn.u, turn.pending)'
    BY <1>1, <2>1 DEF Permits, Observed, memory
  <2>3. command' \in Commands
    BY <1>1, <2>1 DEF Permits
  <2> QED BY <1>1, <1>2, <1>3, <1>4, <2>2, <2>3 DEF TurnInv
<1>5. CASE r.kind # "execute"
  <2>1. command' = NoCommand
    BY <1>1, <1>5 DEF Good
  <2> QED BY <1>1, <1>2, <1>3, <1>5, <2>1 DEF TurnInv
<1> QED BY <1>4, <1>5

\* A turn changes neither the game nor what is remembered of it.
LEMMA Kept ==
  ASSUME IInv, UNCHANGED <<memory, game, owed, past>>, stage # "boot", stage' # "boot",
         turns' \in Nat
  PROVE  GameInv' /\ WorldInv(world)' /\ SceneInv'
<1>1. GameInv'
  BY DEF IInv, GameInv
<1>2. WorldInv(world)'
  BY DEF IInv, WorldInv, memory
<1>3. SceneInv'
  <2>1. scene' = scene /\ past' = past /\ game' = game
    BY DEF memory
  <2> QED BY <2>1 DEF IInv, SceneInv
<1> QED BY <1>1, <1>2, <1>3

\* The player says something.
LEMMA IInvSay ==
  ASSUME IInv, NEW u \in Utterances, NEW sure \in BOOLEAN, Say(u, sure)
  PROVE  IInv'
<1> DEFINE r == localDecision(u, sure, pending)
           how == IF sure THEN r.kind ELSE "unsure"
<1>1. /\ stage = "idle" /\ turns' = turns + 1 /\ turns \in Nat
      /\ turn' = [u |-> u, sure |-> sure, pending |-> pending]
      /\ UNCHANGED <<memory, game, owed, past>>
      /\ IF r = AskModel THEN stage' = "guide" /\ said' = NoClaim /\ UNCHANGED <<command, pending>>
         ELSE Apply(r, how)
  BY DEF Say, IInv, GameInv
<1>2. turn'.u = u /\ turn'.sure = sure /\ turn'.pending = pending
  BY <1>1
<1>3. /\ Good(r, u, pending)
      /\ r.kind \in {"execute", "model"} => sure /\ ~StaleChoice(pending)
  BY LocalGood DEF IInv, TurnInv
<1> HIDE DEF r, how
<1>4. CASE r = AskModel
  <2>1. sure /\ ~StaleChoice(pending)
    BY <1>3, <1>4, Results
  <2>2. (~StaleChoice(turn.pending))'
    BY <1>1, <1>2, <2>1 DEF StaleChoice, SceneFits, Observed, memory
  <2>3. TurnInv'
    BY <1>1, <1>2, <1>4, <2>1, <2>2 DEF IInv, TurnInv
  <2>4. ClaimTrue(said)'
    BY <1>1, <1>4 DEF ClaimTrue, NoClaim
  <2>5. GameInv' /\ WorldInv(world)' /\ SceneInv'
    BY <1>1, <1>4, Kept
  <2> QED BY <2>3, <2>4, <2>5 DEF IInv
<1>5. CASE r # AskModel
  <2>1. Apply(r, how) /\ stage' # "boot"
    BY <1>1, <1>5 DEF Apply
  <2>2. Good(r, turn'.u, turn'.pending) /\ (r.kind = "execute" => turn'.sure)
    BY <1>2, <1>3
  <2>3. TurnInv' /\ ClaimTrue(said)'
    BY <1>1, <2>1, <2>2, Applied
  <2>4. GameInv' /\ WorldInv(world)' /\ SceneInv'
    BY <1>1, <2>1, Kept
  <2> QED BY <2>3, <2>4 DEF IInv
<1> QED BY <1>4, <1>5

\* The model answers, or fails.
LEMMA IInvModel ==
  ASSUME IInv,
         \/ \E d \in Decisions : ModelAnswers(d)
         \/ \E how \in {"unavailable", "stopped"} : ModelFails(how)
  PROVE  IInv'
<1>1. /\ stage = "guide" /\ UNCHANGED <<turn, memory, turns, game, owed, past>>
      /\ turn.sure /\ LeftOpen(turn.pending) /\ turns \in Nat
  BY DEF ModelAnswers, ModelFails, IInv, TurnInv, GameInv
<1>2. \E r, how : Apply(r, how) /\ Good(r, turn.u, turn.pending)
  <2>1. ASSUME NEW d \in Decisions, ModelAnswers(d)
        PROVE  \E r, how : Apply(r, how) /\ Good(r, turn.u, turn.pending)
    <3> DEFINE r == modelDecision(d, turn.pending, turn.u)
    <3>1. Good(r, turn.u, turn.pending)
      BY <1>1, ModelGood DEF IInv
    <3>2. Apply(r, r.kind)
      BY <2>1 DEF ModelAnswers
    <3> HIDE DEF r
    <3> QED BY <3>1, <3>2
  <2>2. ASSUME NEW how, ModelFails(how)
        PROVE  Apply(Failed, how) /\ Good(Failed, turn.u, turn.pending)
    BY <2>2, Results DEF ModelFails
  <2> QED BY <2>1, <2>2
<1>3. PICK r, how : Apply(r, how) /\ Good(r, turn.u, turn.pending)
  BY <1>2
<1>4. TurnInv' /\ ClaimTrue(said)'
  BY <1>1, <1>3, Applied
<1>5. GameInv' /\ WorldInv(world)' /\ SceneInv'
  <2>1. stage' # "boot"
    BY <1>3 DEF Apply
  <2> QED BY <1>1, <2>1, Kept
<1> QED BY <1>4, <1>5 DEF IInv

\* Both projections take an answer in that is true of the history.
LEMMA Emitted ==
  ASSUME WorldInv(world), SceneShape(scene), scene.rev # NoRev, NEW history,
         SceneTrue(scene, history), NEW c \in Commands, NEW rev \in Nat \ {0}, NEW text,
         NEW corr \in Nat, Told(c, rev, text, corr, history), EmitAnswer(c, rev, text, corr)
  PROVE  /\ WorldInv(world') /\ SceneShape(scene') /\ SceneTrue(scene', history)
         /\ scene'.rev \in {scene.rev, rev}
<1>1. /\ world' = projectObservedWorld(
                    projectObservedWorld(world, Committed(c, rev - 1, rev, corr)),
                    Output(rev, text, corr))
      /\ scene' = projectOpeningScene(
                    projectOpeningScene(scene, Committed(c, rev - 1, rev, corr)),
                    Output(rev, text, corr))
  BY DEF EmitAnswer, Emit
<1>2. WorldInv(world')
  BY <1>1, WorldStep
<1>3. SceneShape(scene') /\ SceneTrue(scene', history) /\ scene'.rev \in {scene.rev, rev}
  BY <1>1, SceneStep
<1> QED BY <1>2, <1>3

\* A claim stays true while the history goes on.
LEMMA ClaimKept ==
  ASSUME IInv, said' = said, game'.rev \in Nat, game'.rev >= game.rev,
         \A i \in 1..(game.rev + 1) : past'[i] = past[i]
  PROVE  ClaimTrue(said)'
<1>1. game.rev \in Nat /\ ClaimTrue(said)
  BY DEF IInv, GameInv, GameState
<1>2. \A rev \in 0..game.rev : past'[rev + 1] = past[rev + 1]
  BY <1>1
<1>3. said.claim # "none" => said.sources \subseteq 0..game'.rev
  BY <1>1 DEF ClaimTrue
<1>4. ASSUME said.claim # "none", NEW rev \in said.sources
      PROVE  Holds(said.claim, past'[rev + 1])
  BY <1>1, <1>2, <1>4 DEF ClaimTrue
<1> QED BY <1>1, <1>3, <1>4 DEF ClaimTrue

\* The turn is over.
LEMMA TurnOver ==
  ASSUME IInv, stage' = "idle", pending' \in {NoPending, pending}, UNCHANGED command
  PROVE  TurnInv'
BY DEF IInv, TurnInv, LeftOpen

\* The engine plays a turn and its answer comes.
LEMMA IInvCommits ==
  ASSUME IInv, NEW text \in Texts, NEW next \in Worlds, EngineCommits(text, next)
  PROVE  IInv'
<1>1. /\ stage = "engine" /\ Plays(text, next) /\ stage' = "idle" /\ pending' = NoPending
      /\ EmitAnswer(command, game'.rev, text, turns)
      /\ UNCHANGED <<command, turns, owed, said>>
  BY DEF EngineCommits
<1>2. /\ GameInv /\ SceneInv /\ WorldInv(world) /\ command \in Commands
      /\ SceneShape(scene) /\ scene.rev # NoRev /\ scene.rev <= game.rev
      /\ game.rev \in Nat /\ turns \in Nat
  BY <1>1 DEF IInv, SceneInv, TurnInv, Permits, GameInv, GameState
<1>3. /\ game' \in GameState /\ game'.rev = game.rev + 1
      /\ past' \in Seq(GameState) /\ Len(past') = game'.rev + 1 /\ past'[game'.rev + 1] = game'
      /\ \A i \in 1..(game.rev + 1) : past'[i] = past[i]
      /\ Told(command, game'.rev, text, turns, past')
  BY <1>1, <1>2, Played
<1>4. /\ \A o \in owed : Told(o.command, o.rev, o.text, o.corr, past')
      /\ SceneTrue(scene, past')
  BY <1>2, <1>3, HistoryKept
<1>5. GameInv'
  <2>1. ASSUME NEW o \in owed
        PROVE  /\ o.rev \in 1..game'.rev /\ o.command \in Commands /\ o.text \in Texts
               /\ o.corr \in Nat /\ Told(o.command, o.rev, o.text, o.corr, past')
    BY <1>2, <1>3, <1>4 DEF GameInv
  <2> QED BY <1>1, <1>2, <1>3, <2>1 DEF GameInv
<1>6. /\ WorldInv(world') /\ SceneShape(scene') /\ SceneTrue(scene', past')
      /\ scene'.rev \in {scene.rev, game'.rev}
  <2>1. game'.rev \in Nat \ {0}
    BY <1>2, <1>3
  <2> QED BY <1>1, <1>2, <1>3, <1>4, <2>1, Emitted
<1>7. SceneInv'
  <2>1. scene'.rev <= game'.rev /\ scene'.rev # NoRev
    BY <1>2, <1>3, <1>6 DEF SceneShape, NoRev
  <2> QED BY <1>1, <1>6, <2>1 DEF SceneInv
<1>8. TurnInv'
  BY <1>1, TurnOver
<1>9. ClaimTrue(said)'
  BY <1>1, <1>2, <1>3, ClaimKept
<1>10. WorldInv(world)'
  BY <1>6 DEF WorldInv
<1> QED BY <1>5, <1>7, <1>8, <1>9, <1>10 DEF IInv

\* The engine refuses the command.
LEMMA IInvRejects ==
  ASSUME IInv, EngineRejects
  PROVE  IInv'
<1>1. /\ stage = "engine" /\ stage' = "idle" /\ pending' = NoPending
      /\ UNCHANGED <<memory, command, turns, game, owed, said, past>> /\ turns \in Nat
  BY DEF EngineRejects, IInv, GameInv
<1>2. GameInv' /\ WorldInv(world)' /\ SceneInv'
  BY <1>1, Kept
<1>3. TurnInv'
  BY <1>1, TurnOver
<1>4. ClaimTrue(said)'
  BY <1>1 DEF IInv, ClaimTrue
<1> QED BY <1>2, <1>3, <1>4 DEF IInv

\* The engine plays a turn that nothing is heard of.
LEMMA IInvLost ==
  ASSUME IInv, NEW text \in Texts, NEW next \in Worlds, EngineLost(text, next)
  PROVE  IInv'
<1> DEFINE lost == [command |-> command, rev |-> game'.rev, text |-> text, corr |-> turns]
<1>1. /\ stage = "engine" /\ Plays(text, next) /\ stage' = "idle" /\ owed' = owed \cup {lost}
      /\ UNCHANGED <<memory, pending, command, turns, said>>
  BY DEF EngineLost
<1>2. /\ GameInv /\ SceneInv /\ command \in Commands /\ scene.rev # NoRev
      /\ game.rev \in Nat /\ turns \in Nat
  BY <1>1 DEF IInv, SceneInv, TurnInv, Permits, GameInv, GameState
<1>3. /\ game' \in GameState /\ game'.rev = game.rev + 1
      /\ past' \in Seq(GameState) /\ Len(past') = game'.rev + 1 /\ past'[game'.rev + 1] = game'
      /\ \A i \in 1..(game.rev + 1) : past'[i] = past[i]
      /\ Told(command, game'.rev, text, turns, past')
  BY <1>1, <1>2, Played
<1>4. /\ \A o \in owed : Told(o.command, o.rev, o.text, o.corr, past')
      /\ SceneTrue(scene, past')
  BY <1>2, <1>3, HistoryKept
<1>5. GameInv'
  <2>1. ASSUME NEW o \in owed
        PROVE  /\ o.rev \in 1..game'.rev /\ o.command \in Commands /\ o.text \in Texts
               /\ o.corr \in Nat /\ Told(o.command, o.rev, o.text, o.corr, past')
    BY <1>2, <1>3, <1>4 DEF GameInv
  <2>2. /\ lost.rev \in 1..game'.rev /\ lost.command \in Commands /\ lost.text \in Texts
        /\ lost.corr \in Nat /\ Told(lost.command, lost.rev, lost.text, lost.corr, past')
    BY <1>2, <1>3
  <2> HIDE DEF lost
  <2> QED BY <1>1, <1>2, <1>3, <2>1, <2>2 DEF GameInv
<1>6. WorldInv(world)'
  BY <1>1 DEF IInv, WorldInv, memory
<1>7. SceneInv'
  <2>1. scene' = scene /\ scene.rev <= game'.rev /\ SceneShape(scene)
    BY <1>1, <1>2, <1>3 DEF memory, SceneInv, SceneShape, NoRev
  <2> QED BY <1>1, <1>2, <1>4, <2>1 DEF SceneInv
<1>8. TurnInv'
  BY <1>1, TurnOver
<1>9. ClaimTrue(said)'
  BY <1>1, <1>2, <1>3, ClaimKept
<1> QED BY <1>5, <1>6, <1>7, <1>8, <1>9 DEF IInv

\* The events of an earlier turn come.
LEMMA IInvRecover ==
  ASSUME IInv, NEW o \in owed, Recover(o)
  PROVE  IInv'
<1>1. /\ stage = "idle" /\ owed' = owed \ {o} /\ EmitAnswer(o.command, o.rev, o.text, o.corr)
      /\ pending' = NoPending /\ UNCHANGED <<stage, command, turns, game, said, past>>
  BY DEF Recover
<1>2. /\ SceneInv /\ WorldInv(world) /\ SceneShape(scene) /\ SceneTrue(scene, past)
      /\ scene.rev # NoRev /\ scene.rev <= game.rev /\ game.rev \in Nat
      /\ o.rev \in 1..game.rev /\ o.command \in Commands /\ o.corr \in Nat
      /\ Told(o.command, o.rev, o.text, o.corr, past)
  BY <1>1 DEF IInv, SceneInv, GameInv, GameState
<1>3. GameInv'
  BY <1>1 DEF IInv, GameInv
<1>4. /\ WorldInv(world') /\ SceneShape(scene') /\ SceneTrue(scene', past)
      /\ scene'.rev \in {scene.rev, o.rev}
  <2>1. o.rev \in Nat \ {0}
    BY <1>2
  <2> QED BY <1>1, <1>2, <2>1, Emitted
<1>5. SceneInv'
  <2>1. scene'.rev <= game.rev /\ scene'.rev # NoRev
    BY <1>2, <1>4 DEF NoRev
  <2> QED BY <1>1, <1>4, <2>1 DEF SceneInv
<1>6. TurnInv'
  BY <1>1, TurnOver
<1>7. ClaimTrue(said)'
  BY <1>1 DEF IInv, ClaimTrue
<1>8. WorldInv(world)'
  BY <1>4 DEF WorldInv
<1> QED BY <1>3, <1>5, <1>6, <1>7, <1>8 DEF IInv

\* Every step keeps the invariant.
LEMMA IInvNext ==
  ASSUME IInv, [Next]_vars
  PROVE  IInv'
<1>1. CASE Boot
  BY <1>1, IInvBoot
<1>2. ASSUME NEW u \in Utterances, NEW sure \in BOOLEAN, Say(u, sure) PROVE IInv'
  BY <1>2, IInvSay
<1>3. CASE \/ \E d \in Decisions : ModelAnswers(d)
           \/ \E how \in {"unavailable", "stopped"} : ModelFails(how)
  BY <1>3, IInvModel
<1>4. ASSUME NEW text \in Texts, NEW next \in Worlds, EngineCommits(text, next) PROVE IInv'
  BY <1>4, IInvCommits
<1>5. CASE EngineRejects
  BY <1>5, IInvRejects
<1>6. ASSUME NEW text \in Texts, NEW next \in Worlds, EngineLost(text, next) PROVE IInv'
  BY <1>6, IInvLost
<1>7. ASSUME NEW o \in owed, Recover(o) PROVE IInv'
  BY <1>7, IInvRecover
<1>8. CASE UNCHANGED vars
  BY <1>8 DEF vars, IInv, GameInv, WorldInv, SceneInv, TurnInv, ClaimTrue, Permits, StaleChoice,
     SceneFits, Observed
<1> QED BY <1>1, <1>2, <1>3, <1>4, <1>5, <1>6, <1>7, <1>8 DEF Next

-----------------------------------------------------------------------------
(* The theorems.                                                           *)

\* The inductive invariant, for any vocabulary, utterances and number of turns.
THEOREM InductiveInvariant == Spec => []IInv
<1>1. Init => IInv
  BY IInvInit
<1>2. IInv /\ [Next]_vars => IInv'
  BY IInvNext
<1> QED BY <1>1, <1>2, PTL DEF Spec

\* Whatever the guide model answers, the command that reaches the engine is one
\* the player asked for, heard well, and its object is one the game has shown
\* (decideInitialGuideTurn and the grounding functions of opening-area.ts).
THEOREM Authorization == Spec => []CommandIsAuthorized
<1>1. IInv => CommandIsAuthorized
  BY DEF IInv, TurnInv, Permits, CommandIsAuthorized, Authorized, ObservedTarget
<1> QED BY <1>1, InductiveInvariant, PTL

\* "It", or a verb alone, means the object of the pending choice, and only while
\* the scene offers exactly that choice
\* (resolvePendingOpeningContextualObjectActionChoiceForScene).
THEOREM CurrentChoice == Spec => []PendingIsCurrent
<1>1. IInv => PendingIsCurrent
  BY DEF IInv, TurnInv, Permits, PendingIsCurrent
<1> QED BY <1>1, InductiveInvariant, PTL

\* However turns are lost and recovered, the projections stay ones that the guide
\* accepts, and a scene of the game's own revision states only what is true of
\* the game (projectOpeningSceneFromEvent, projectObservedWorldFromEvent).
THEOREM TrueMemory == Spec => []MemoryIsTrue
<1>1. ASSUME IInv PROVE GuideTypeOK
  BY <1>1 DEF IInv, TurnInv, LeftOpen, SceneInv, SceneShape, Scene, WorldInv, World, ClaimTrue,
     GuideTypeOK
<1>2. ASSUME IInv PROVE MemoryIsValid
  BY <1>2 DEF IInv, SceneInv, SceneShape, WorldInv, MemoryIsValid
<1>3. ASSUME IInv PROVE SceneIsTrue
  BY <1>3 DEF IInv, SceneInv, SceneTrue, GameInv, SceneIsTrue
<1>4. IInv => MemoryIsTrue
  BY <1>1, <1>2, <1>3 DEF MemoryIsTrue
<1> QED BY <1>4, InductiveInvariant, PTL

\* What the guide states of the scene cites at least one output, and held in the
\* game when each output it cites was printed (resolveOpeningSceneGuidance,
\* addSource).
THEOREM SourcedClaims == Spec => []SaidIsSourced
<1>1. IInv => SaidIsSourced
  BY DEF IInv, ClaimTrue, SaidIsSourced
<1> QED BY <1>1, InductiveInvariant, PTL

=============================================================================
