------------------------- MODULE SpeechPlaybackProofs -------------------------
(***************************************************************************)
(* Proofs about SpeechPlayback, for any number of phrases, playbacks and   *)
(* gestures and any limit of the cache: a playback is contained.           *)
(***************************************************************************)
EXTENDS SpeechPlayback, SequenceTheorems, TLAPS

-----------------------------------------------------------------------------
(* The inductive invariant.                                                *)

PlayStage == {"unused", "fetching", "media", "over"}
PlayRecord == [stage : PlayStage, key : Keys \union {Undefined}, hit : BOOLEAN, listening : BOOLEAN,
               started : BOOLEAN, complete : BOOLEAN]
AttemptStage == {"unused", "open", "authorized", "denied", "over"}
Sources == ActivationUrls \union {OfPlay(p) : p \in Plays}
Element == [src : Sources \union {Undefined}, media : {"idle", "waiting", "playing", "paused"},
            pending : Sources \union {Undefined}]

\* The cache holds phrases, each once, up to its limit.
CacheOK(c) ==
  /\ c \in Seq(Keys) /\ Len(c) <= CacheLimit
  /\ \A i, j \in DOMAIN c : c[i] = c[j] => i = j

Types ==
  /\ activation \in {"idle", "pending", "authorized", "denied"}
  /\ attempt \in Gestures \union {Undefined}
  /\ attempts \in [Gestures -> AttemptStage]
  /\ activationUrl \in Gestures \union {Undefined}
  /\ activePlay \in Plays \union {Undefined}
  /\ plays \in [Plays -> PlayRecord]
  /\ prepares \in [Prepares -> Keys \union {Undefined, "over"}]
  /\ CacheOK(cached)
  /\ urls \subseteq Sources
  /\ element \in Element

\* The active playback is the one that is pending, and until it has a source it
\* neither listens nor has started.
PlayInv ==
  \A p \in Plays :
    /\ activePlay = p <=> Pending(p)
    /\ plays[p].stage \in {"unused", "fetching"} => ~plays[p].listening /\ ~plays[p].started
    /\ Pending(p) => plays[p].key \in Keys

\* Once it has one, the element has it too, its URL is alive and the
\* activation's clip is gone.
SourceInv ==
  \A p \in Plays : plays[p].stage = "media" =>
    element.src = OfPlay(p) /\ OfPlay(p) \in urls /\ urls \intersect ActivationUrls = {}

\* What the element plays or is about to play is the source of a playback that
\* has it, and a play() of an attempt is pending only for its own clip.
ElementInv ==
  /\ \A p \in Plays : element.src = OfPlay(p) /\ element.media \in {"waiting", "playing"} =>
       plays[p].stage = "media"
  /\ \A g \in Gestures : element.pending = OfGesture(g) => element.src = OfGesture(g)

PendingInv == activation = "pending" => attempt \in Gestures

IInv ==
  /\ Types /\ PlayInv /\ SourceInv /\ ElementInv /\ PendingInv
  /\ UrlsOwned /\ StartedIsAuthorized

-----------------------------------------------------------------------------
(* The element, the attempts and the cache.                                *)

\* The source of a playback is no other's and no attempt's.
LEMMA SourcesDiffer ==
  /\ \A g, p : OfGesture(g) # OfPlay(p)
  /\ \A g, h : OfGesture(g) = OfGesture(h) => g = h
  /\ \A p, q : OfPlay(p) = OfPlay(q) => p = q
  /\ \A g : OfGesture(g)[2] = g
  /\ \A g \in Gestures : OfGesture(g) # Undefined /\ OfGesture(g) \in ActivationUrls
  /\ \A p \in Plays : OfPlay(p) # Undefined /\ OfPlay(p) \notin ActivationUrls
  /\ Undefined \notin Plays /\ Undefined \notin Gestures
<1>1. \A g, p : OfGesture(g) # OfPlay(p)
  BY DEF OfGesture, OfPlay
<1>2. /\ \A g, h : OfGesture(g) = OfGesture(h) => g = h
      /\ \A p, q : OfPlay(p) = OfPlay(q) => p = q
      /\ \A g : OfGesture(g)[2] = g
  BY DEF OfGesture, OfPlay
<1>3. \A g \in Gestures : OfGesture(g) # Undefined /\ OfGesture(g) \in ActivationUrls
  BY PlaybackConstants DEF ActivationUrls
<1>4. \A p \in Plays : OfPlay(p) # Undefined /\ OfPlay(p) \notin ActivationUrls
  BY <1>1, PlaybackConstants DEF ActivationUrls
<1> QED BY <1>1, <1>2, <1>3, <1>4, PlaybackConstants

\* pause() silences the element and leaves its source.
LEMMA PausedElement ==
  ASSUME NEW e \in Element
  PROVE  /\ Paused(e) \in Element /\ Paused(e).src = e.src /\ Paused(e).pending = Undefined
         /\ Paused(e).media \in {"idle", "paused"}
BY DEF Paused, Element

\* An attempt is denied.
LEMMA DeniedAttempts ==
  ASSUME attempts \in [Gestures -> AttemptStage], NEW g
  PROVE  Denied(g) \in [Gestures -> AttemptStage]
BY DEF Denied, AttemptStage

\* The attempts after the element's pending play() is rejected.
LEMMA RejectedAttempts ==
  ASSUME attempts \in [Gestures -> AttemptStage]
  PROVE  Rejected \in [Gestures -> AttemptStage]
BY DeniedAttempts DEF Rejected

\* A phrase that is remembered is in the cache once, which keeps its limit.
LEMMA Remembered ==
  ASSUME CacheOK(cached), NEW k \in Keys
  PROVE  CacheOK(Remember(k))
<1> DEFINE at == CHOOSE i \in DOMAIN cached : cached[i] = k
           others == IF Hit(k) THEN RemoveAt(cached, at) ELSE cached
           all == Append(others, k)
           first == IF Len(all) > CacheLimit THEN Len(all) - CacheLimit + 1 ELSE 1
<1>1. /\ cached \in Seq(Keys) /\ CacheLimit \in Nat \ {0}
      /\ \A i, j \in DOMAIN cached : cached[i] = cached[j] => i = j
  BY PlaybackConstants DEF CacheOK
<1>2. /\ others \in Seq(Keys)
      /\ \A i \in DOMAIN others : others[i] # k
      /\ \A i, j \in DOMAIN others : others[i] = others[j] => i = j
  <2>1. CASE Hit(k)
    <3>1. at \in DOMAIN cached /\ cached[at] = k
      BY <2>1 DEF Hit
    <3>2. at \in 1..Len(cached)
      BY <1>1, <3>1
    <3> HIDE DEF at
    <3> DEFINE front == SubSeq(cached, 1, at - 1)
               back == SubSeq(cached, at + 1, Len(cached))
    <3>3. /\ front \in Seq(Keys) /\ Len(front) = at - 1
          /\ \A i \in 1..(at - 1) : front[i] = cached[i]
      BY <1>1, <3>2
    <3>4. /\ back \in Seq(Keys) /\ Len(back) = Len(cached) - at
          /\ \A i \in 1..(Len(cached) - at) : back[i] = cached[at + i]
      BY <1>1, <3>2
    <3>5. others = front \o back
      BY <2>1 DEF RemoveAt
    <3> HIDE DEF front, back, others
    <3>6. /\ others \in Seq(Keys) /\ Len(others) = Len(cached) - 1
          /\ \A i \in 1..(Len(cached) - 1) :
               others[i] = IF i < at THEN cached[i] ELSE cached[i + 1]
      <4>1. others \in Seq(Keys) /\ Len(others) = Len(front) + Len(back)
        BY <3>3, <3>4, <3>5, ConcatProperties
      <4>2. Len(others) = Len(cached) - 1
        BY <1>1, <3>2, <3>3, <3>4, <4>1
      <4>3. ASSUME NEW i \in 1..(Len(cached) - 1), i < at PROVE others[i] = cached[i]
        <5>1. i \in 1..(at - 1) /\ i \in 1..Len(front)
          BY <1>1, <3>2, <3>3, <4>3
        <5>2. others[i] = front[i]
          BY <3>3, <3>4, <3>5, <5>1
        <5> QED BY <3>3, <5>1, <5>2
      <4>4. ASSUME NEW i \in 1..(Len(cached) - 1), ~(i < at) PROVE others[i] = cached[i + 1]
        <5>1. /\ i - (at - 1) \in 1..(Len(cached) - at) /\ at + (i - (at - 1)) = i + 1
              /\ i \in (Len(front) + 1)..(Len(front) + Len(back))
          BY <1>1, <3>2, <3>3, <3>4, <4>4
        <5>2. others[i] = back[i - Len(front)]
          BY <3>3, <3>4, <3>5, <5>1
        <5> QED BY <3>3, <3>4, <5>1, <5>2
      <4> QED BY <4>1, <4>2, <4>3, <4>4
    <3>7. \A i \in DOMAIN others : others[i] # k
      BY <1>1, <3>1, <3>2, <3>6
    <3>8. \A i, j \in DOMAIN others : others[i] = others[j] => i = j
      <4> DEFINE old(i) == IF i < at THEN i ELSE i + 1
      <4>1. ASSUME NEW i \in DOMAIN others
            PROVE  i \in Int /\ old(i) \in DOMAIN cached /\ others[i] = cached[old(i)]
        BY <1>1, <3>2, <3>6
      <4>2. ASSUME NEW i \in Int, NEW j \in Int, old(i) = old(j) PROVE i = j
        BY <3>2, <4>2
      <4> HIDE DEF old
      <4> QED BY <1>1, <4>1, <4>2
    <3> QED BY <3>6, <3>7, <3>8
  <2>2. CASE ~Hit(k)
    BY <1>1, <2>2 DEF Hit
  <2> QED BY <2>1, <2>2
<1> HIDE DEF others
<1>3. /\ all \in Seq(Keys) /\ Len(all) = Len(others) + 1
      /\ \A i, j \in DOMAIN all : all[i] = all[j] => i = j
  <2>1. /\ all \in Seq(Keys) /\ Len(all) = Len(others) + 1 /\ all[Len(others) + 1] = k
        /\ \A i \in 1..Len(others) : all[i] = others[i]
    BY <1>2
  <2> HIDE DEF all
  <2> QED BY <1>2, <2>1
<1>4. first \in 1..Len(all) /\ Len(all) - first + 1 <= CacheLimit
  BY <1>1, <1>2, <1>3
<1>5. Remember(k) = SubSeq(all, first, Len(all))
  BY DEF Remember, others
<1> HIDE DEF all, first
<1>6. /\ SubSeq(all, first, Len(all)) \in Seq(Keys)
      /\ Len(SubSeq(all, first, Len(all))) = Len(all) - first + 1
      /\ \A i \in 1..(Len(all) - first + 1) : SubSeq(all, first, Len(all))[i] = all[first + i - 1]
  BY <1>3, <1>4
<1> DEFINE kept == SubSeq(all, first, Len(all))
<1>7. DOMAIN kept = 1..(Len(all) - first + 1) /\ DOMAIN all = 1..Len(all)
  BY <1>3, <1>6
<1> HIDE DEF kept
<1>8. \A i, j \in DOMAIN kept : kept[i] = kept[j] => i = j
  BY <1>3, <1>4, <1>6, <1>7 DEF kept
<1> QED BY <1>4, <1>5, <1>6, <1>8 DEF CacheOK, kept

-----------------------------------------------------------------------------
(* The inductive invariant holds.                                          *)

\* The facts that a step starts from.
LEMMA Facts ==
  ASSUME IInv
  PROVE  /\ \A p \in Plays : plays[p] \in PlayRecord
         /\ \A p \in Plays : plays[p].stage \in PlayStage
         /\ activePlay = Undefined => \A p \in Plays : ~Pending(p)
         /\ activation \in {"idle", "denied"} /\ activePlay = Undefined => urls = {}
         /\ \A p \in Plays : Pending(p) =>
              activePlay = p /\ activePlay # Undefined /\ (\A q \in Plays \ {p} : ~Pending(q))
<1>1. \A p \in Plays : plays[p] \in PlayRecord /\ plays[p].stage \in PlayStage
  BY DEF IInv, Types, PlayRecord
<1>2. \A p \in Plays : activePlay = p <=> Pending(p)
  BY DEF IInv, PlayInv
<1>3. activation \in {"idle", "denied"} /\ activePlay = Undefined => urls = {}
  BY DEF IInv, UrlsOwned
<1> QED BY <1>1, <1>2, <1>3, SourcesDiffer

\* The start.
LEMMA IInvInit ==
  ASSUME PlaybackInit
  PROVE  IInv
<1>1. Types
  <2>1. NoPlay \in PlayRecord
    BY DEF NoPlay, PlayRecord, PlayStage
  <2>2. CacheOK(cached)
    BY PlaybackConstants DEF PlaybackInit, CacheOK
  <2>3. element \in Element
    BY DEF PlaybackInit, Element
  <2> QED BY <2>1, <2>2, <2>3 DEF PlaybackInit, Types, AttemptStage
<1>2. \A p \in Plays : plays[p] = NoPlay /\ ~Pending(p)
  BY DEF PlaybackInit, NoPlay, Pending
<1>3. PlayInv
  BY <1>2, SourcesDiffer DEF PlaybackInit, PlayInv, NoPlay
<1>4. SourceInv /\ UrlsOwned
  BY <1>2 DEF PlaybackInit, SourceInv, UrlsOwned, NoPlay
<1>5. ElementInv
  BY SourcesDiffer DEF PlaybackInit, ElementInv
<1>6. PendingInv /\ StartedIsAuthorized
  BY DEF PlaybackInit, PendingInv, StartedIsAuthorized
<1> QED BY <1>1, <1>3, <1>4, <1>5, <1>6 DEF IInv

\* A gesture primes the element.
LEMMA IInvGesture ==
  ASSUME IInv, NEW g \in Gestures, Gesture(g)
  PROVE  IInv'
<1>1. /\ activePlay = Undefined /\ urls = {} /\ \A p \in Plays : ~Pending(p)
      /\ UNCHANGED <<activePlay, plays, prepares, cached>>
      /\ \A p \in Plays : plays[p].stage # "media"
  BY Facts DEF Gesture, Pending
<1>2. /\ element' \in Element
      /\ element'.src = OfGesture(g) /\ element'.pending \in {OfGesture(g), Undefined}
      /\ activation' \in {"pending", "denied"} /\ attempt' \in Gestures \union {Undefined}
      /\ activation' = "pending" => attempt' = g
      /\ activationUrl' \in Gestures \union {Undefined}
      /\ urls' = {} \/ (urls' = {OfGesture(g)} /\ activation' = "pending")
  <2>1. OfGesture(g) \in Sources
    BY SourcesDiffer DEF Sources
  <2> QED BY <1>1, <2>1 DEF Gesture, Element
<1>3. attempts' \in [Gestures -> AttemptStage]
  <2>1. Rejected \in [Gestures -> AttemptStage]
    BY RejectedAttempts DEF IInv, Types
  <2>2. \E x \in AttemptStage : attempts' = [Rejected EXCEPT ![g] = x]
    BY DEF Gesture, AttemptStage
  <2> QED BY <2>1, <2>2
<1>4. Types'
  <2>1. urls' \subseteq Sources
    BY <1>2, SourcesDiffer DEF Sources
  <2> QED BY <1>1, <1>2, <1>3, <2>1 DEF IInv, Types, Sources, Element, CacheOK
<1>5. PlayInv'
  BY <1>1 DEF IInv, PlayInv, Pending
<1>6. SourceInv'
  BY <1>1 DEF SourceInv
<1>7. ElementInv'
  BY <1>2, SourcesDiffer DEF ElementInv
<1>8. UrlsOwned' /\ PendingInv' /\ StartedIsAuthorized'
  BY <1>1, <1>2, SourcesDiffer DEF UrlsOwned, PendingInv, StartedIsAuthorized
<1> QED BY <1>4, <1>5, <1>6, <1>7, <1>8 DEF IInv

\* The play() of an attempt settles, or its timeout passes.
LEMMA IInvAttemptSettles ==
  ASSUME IInv, NEW g \in Gestures, AttemptSettles(g)
  PROVE  IInv'
<1>1. UNCHANGED <<activation, attempt, activationUrl, activePlay, plays, prepares, cached, urls>>
  BY DEF AttemptSettles
<1>2. attempts' \in [Gestures -> AttemptStage]
  <2>1. attempts \in [Gestures -> AttemptStage]
    BY DEF IInv, Types
  <2>2. attempts' = Denied(g) \/ attempts' = [attempts EXCEPT ![g] = "authorized"]
    BY DEF AttemptSettles
  <2> QED BY <2>1, <2>2, DeniedAttempts DEF AttemptStage
<1>3. \/ element' = element
      \/ /\ element' \in Element /\ element'.src = OfGesture(g) /\ element'.pending = Undefined
         /\ element'.src = element.src
  <2>1. element \in Element /\ (element.pending = OfGesture(g) => element.src = OfGesture(g))
    BY DEF IInv, Types, ElementInv
  <2> QED BY <2>1 DEF AttemptSettles, Element
<1>4. Types'
  BY <1>1, <1>2, <1>3 DEF IInv, Types, Sources, Element, CacheOK
<1>5. PlayInv' /\ UrlsOwned' /\ PendingInv' /\ StartedIsAuthorized'
  BY <1>1 DEF IInv, PlayInv, Pending, UrlsOwned, PendingInv, StartedIsAuthorized
<1>6. SourceInv'
  BY <1>1, <1>3 DEF IInv, SourceInv
<1>7. ElementInv'
  BY <1>1, <1>3, SourcesDiffer DEF IInv, ElementInv
<1> QED BY <1>4, <1>5, <1>6, <1>7 DEF IInv

\* The continuation of an attempt.
LEMMA IInvAttemptReturns ==
  ASSUME IInv, NEW g \in Gestures, AttemptReturns(g)
  PROVE  IInv'
<1>1. UNCHANGED <<activePlay, plays, prepares, cached>> /\ element \in Element
  BY DEF AttemptReturns, IInv, Types
<1>2. attempts' \in [Gestures -> AttemptStage]
  <2>1. attempts \in [Gestures -> AttemptStage] /\ Rejected \in [Gestures -> AttemptStage]
    BY RejectedAttempts DEF IInv, Types
  <2>2. \/ attempts' = [attempts EXCEPT ![g] = "over"]
        \/ attempts' = [Rejected EXCEPT ![g] = "over"]
    BY DEF AttemptReturns
  <2> QED BY <2>1, <2>2 DEF AttemptStage
<1>3. CASE activation = "pending" /\ attempt = g
  <2>1. /\ activation' \in {"authorized", "denied"}
        /\ attempt' = Undefined /\ activationUrl' = Undefined
        /\ urls' = urls \ ActivationUrls
        /\ element' = element \/ element' = Paused(element)
    BY <1>3 DEF AttemptReturns, DiscardActivation
  <2>2. /\ element' \in Element /\ element'.src = element.src
        /\ \/ element' = element
           \/ element'.pending = Undefined /\ element'.media \in {"idle", "paused"}
    BY <1>1, <2>1, PausedElement
  <2>3. Types'
    BY <1>1, <1>2, <2>1, <2>2 DEF IInv, Types, Sources, Element, CacheOK
  <2>4. PlayInv' /\ PendingInv'
    BY <1>1, <2>1 DEF IInv, PlayInv, Pending, PendingInv
  <2>5. SourceInv'
    BY <1>1, <2>1, <2>2, SourcesDiffer DEF IInv, SourceInv
  <2>6. ElementInv'
    BY <1>1, <2>2, SourcesDiffer DEF IInv, ElementInv
  <2>7. UrlsOwned'
    BY <1>1, <1>3, <2>1, SourcesDiffer DEF IInv, UrlsOwned
  <2>8. StartedIsAuthorized'
    BY <1>1, <1>3 DEF IInv, StartedIsAuthorized
  <2> QED BY <2>3, <2>4, <2>5, <2>6, <2>7, <2>8 DEF IInv
<1>4. CASE ~(activation = "pending" /\ attempt = g)
  <2>1. UNCHANGED <<activation, attempt, activationUrl, urls, element>>
    BY <1>4 DEF AttemptReturns
  <2> QED BY <1>1, <1>2, <2>1 DEF IInv, Types, Sources, Element, CacheOK, PlayInv, Pending,
       SourceInv, ElementInv, PendingInv, UrlsOwned, StartedIsAuthorized
<1> QED BY <1>3, <1>4

\* A playback takes the element.
LEMMA Attached ==
  ASSUME IInv, NEW p \in Plays, NEW play \in PlayRecord,
         activePlay \in {Undefined, p}, activePlay' = p, play.key \in Keys, ~play.started,
         Attach(p, play), UNCHANGED <<activation, attempt, prepares, cached>>
  PROVE  IInv'
<1>1. \A q \in Plays \ {p} : ~Pending(q)
  BY Facts, SourcesDiffer DEF IInv, PlayInv
<1>2. /\ plays' \in [Plays -> PlayRecord]
      /\ \A q \in Plays \ {p} : plays'[q] = plays[q]
      /\ plays'[p].stage = "media" /\ plays'[p].key \in Keys /\ ~plays'[p].started
  <2>1. [play EXCEPT !.stage = "media", !.listening = TRUE] \in PlayRecord
    BY DEF PlayRecord, PlayStage
  <2>2. /\ [play EXCEPT !.stage = "media", !.listening = TRUE].stage = "media"
        /\ [play EXCEPT !.stage = "media", !.listening = TRUE].key = play.key
        /\ [play EXCEPT !.stage = "media", !.listening = TRUE].started = play.started
    BY DEF PlayRecord
  <2>3. plays \in [Plays -> PlayRecord]
    BY DEF IInv, Types
  <2> DEFINE new == [play EXCEPT !.stage = "media", !.listening = TRUE]
  <2>4. plays' = [plays EXCEPT ![p] = new]
    BY DEF Attach
  <2> HIDE DEF new
  <2>5. plays' \in [Plays -> PlayRecord] /\ plays'[p] = new
        /\ \A q \in Plays \ {p} : plays'[q] = plays[q]
    BY <2>1, <2>3, <2>4 DEF new
  <2> QED BY <2>2, <2>5 DEF new
<1>3. /\ element' \in Element /\ element'.src = OfPlay(p) /\ element'.pending = OfPlay(p)
      /\ activationUrl' = Undefined /\ urls' = (urls \ ActivationUrls) \union {OfPlay(p)}
  BY DEF Attach, Element, Sources
<1>4. attempts' \in [Gestures -> AttemptStage]
  BY RejectedAttempts DEF IInv, Types, Attach
<1>5. Types'
  <2>1. urls' \subseteq Sources
    BY <1>3 DEF IInv, Types, Sources
  <2> QED BY <1>2, <1>3, <1>4, <2>1 DEF IInv, Types, Sources, Element, CacheOK
<1>6. PlayInv'
  BY <1>1, <1>2 DEF IInv, PlayInv, Pending
<1>7. SourceInv'
  BY <1>1, <1>2, <1>3, SourcesDiffer DEF SourceInv, Pending
<1>8. ElementInv'
  BY <1>2, <1>3, SourcesDiffer DEF ElementInv
<1>9. UrlsOwned'
  <2>1. \A u \in urls : u \notin ActivationUrls => u = OfPlay(p)
    BY SourcesDiffer DEF IInv, UrlsOwned, PendingInv
  <2> QED BY <1>3, <2>1, SourcesDiffer DEF UrlsOwned
<1>10. PendingInv' /\ StartedIsAuthorized'
  BY <1>2 DEF IInv, PendingInv, StartedIsAuthorized
<1> QED BY <1>5, <1>6, <1>7, <1>8, <1>9, <1>10 DEF IInv

\* The active playback ends, whatever the way: nothing is left of it.
LEMMA Released ==
  ASSUME IInv, NEW p \in Plays, Pending(p), activePlay' = Undefined,
         plays' \in [Plays -> PlayRecord], plays'[p].stage = "over",
         \A q \in Plays \ {p} : /\ plays'[q].stage = plays[q].stage
                                /\ plays'[q].started = plays[q].started
                                /\ plays'[q].listening => plays[q].listening,
         urls' = urls \ {OfPlay(p)},
         \/ element' = Paused(element)
         \/ element' = element /\ OfPlay(p) \notin urls,
         \/ UNCHANGED <<activation, attempt>>
         \/ activation' = "idle" /\ attempt' = Undefined /\ urls \intersect ActivationUrls = {},
         CacheOK(cached'), UNCHANGED <<attempts, activationUrl, prepares>>
  PROVE  IInv'
<1>1. /\ activePlay = p /\ \A q \in Plays \ {p} : ~Pending(q)
      /\ \A q \in Plays : ~Pending(q)'
  <2>1. activePlay = p /\ \A q \in Plays \ {p} : ~Pending(q)
    BY Facts
  <2> QED BY <2>1 DEF Pending
<1>2. /\ element' \in Element /\ element'.src = element.src
      /\ \/ element'.pending = Undefined /\ element'.media \in {"idle", "paused"}
         \/ element' = element /\ OfPlay(p) \notin urls
  BY PausedElement DEF IInv, Types
<1>3. Types'
  <2>1. urls' \subseteq Sources
    BY DEF IInv, Types
  <2> QED BY <1>2, <2>1 DEF IInv, Types, Sources, Element, CacheOK
<1>4. PlayInv'
  BY <1>1, SourcesDiffer DEF IInv, PlayInv
<1>5. SourceInv'
  BY <1>1 DEF SourceInv, Pending
<1>6. ElementInv'
  <2>1. CASE element'.pending = Undefined /\ element'.media \in {"idle", "paused"}
    BY <2>1, SourcesDiffer DEF ElementInv
  <2>2. CASE element' = element /\ OfPlay(p) \notin urls
    <3>1. plays[p].stage # "media"
      BY <2>2 DEF IInv, SourceInv
    <3> QED BY <1>1, <2>2, <3>1 DEF IInv, ElementInv, Pending
  <2> QED BY <1>2, <2>1, <2>2
<1>7. UrlsOwned'
  <2>1. \A u \in urls' : u \in urls /\ u # OfPlay(p)
    OBVIOUS
  <2>2. \A u \in urls' : activation = "pending" /\ u = OfGesture(attempt) /\ u \in ActivationUrls
    BY <1>1, <2>1, SourcesDiffer DEF IInv, UrlsOwned, PendingInv
  <2> QED BY <2>1, <2>2 DEF UrlsOwned
<1>8. PendingInv' /\ StartedIsAuthorized'
  BY DEF IInv, PendingInv, StartedIsAuthorized
<1> QED BY <1>3, <1>4, <1>5, <1>6, <1>7, <1>8 DEF IInv

\* play is called: it throws, has its audio, or fetches it.
LEMMA IInvPlay ==
  ASSUME IInv, NEW p \in Plays, NEW k \in Keys, Play(p, k)
  PROVE  IInv'
<1> DEFINE play == [NoPlay EXCEPT !.key = k, !.hit = Hit(k), !.complete = Hit(k)]
<1>1. /\ plays[p].stage = "unused" /\ activePlay = Undefined /\ \A q \in Plays : ~Pending(q)
      /\ UNCHANGED <<activation, attempt, prepares, cached>>
      /\ plays \in [Plays -> PlayRecord]
  BY Facts DEF Play, IInv, Types
<1>2. play \in PlayRecord /\ play.key = k /\ ~play.started /\ ~play.listening
  BY DEF NoPlay, PlayRecord, PlayStage, Hit
<1>3. CASE /\ plays' = [plays EXCEPT ![p].stage = "over"]
           /\ UNCHANGED <<activePlay, element, attempts, activationUrl, urls>>
  <2>1. /\ plays' \in [Plays -> PlayRecord] /\ plays'[p].stage = "over"
        /\ \A q \in Plays \ {p} : plays'[q] = plays[q]
    BY <1>1, <1>3 DEF PlayRecord, PlayStage
  <2>2. \A q \in Plays : ~Pending(q)'
    BY <1>1, <2>1 DEF Pending
  <2>3. Types'
    BY <1>1, <1>3, <2>1 DEF IInv, Types, Sources, Element, CacheOK
  <2>4. PlayInv'
    BY <1>1, <1>3, <2>1, <2>2, SourcesDiffer DEF IInv, PlayInv
  <2>5. SourceInv'
    BY <2>2 DEF SourceInv, Pending
  <2>6. ElementInv'
    BY <1>1, <1>3, <2>1 DEF IInv, ElementInv
  <2>7. UrlsOwned' /\ PendingInv' /\ StartedIsAuthorized'
    BY <1>1, <1>3 DEF IInv, UrlsOwned, PendingInv, StartedIsAuthorized
  <2> QED BY <2>3, <2>4, <2>5, <2>6, <2>7 DEF IInv
<1>4. CASE activePlay' = p /\ Attach(p, play)
  <2> HIDE DEF play
  <2> QED BY <1>1, <1>2, <1>4, Attached
<1>5. CASE /\ activePlay' = p /\ activation \notin {"idle", "denied"}
           /\ plays' = [plays EXCEPT ![p] = [play EXCEPT !.stage = "fetching"]]
           /\ UNCHANGED <<element, attempts, activationUrl, urls>>
  <2>1. /\ [play EXCEPT !.stage = "fetching"] \in PlayRecord
        /\ [play EXCEPT !.stage = "fetching"].stage = "fetching"
        /\ [play EXCEPT !.stage = "fetching"].key = k
        /\ ~[play EXCEPT !.stage = "fetching"].started
        /\ ~[play EXCEPT !.stage = "fetching"].listening
    <3> HIDE DEF play
    <3> QED BY <1>2 DEF PlayRecord, PlayStage
  <2> DEFINE new == [play EXCEPT !.stage = "fetching"]
  <2> HIDE DEF new
  <2>2. plays' = [plays EXCEPT ![p] = new] /\ new \in PlayRecord /\ new.stage = "fetching"
        /\ new.key = k /\ ~new.started /\ ~new.listening
    BY <1>5, <2>1 DEF new
  <2>3. /\ plays' \in [Plays -> PlayRecord] /\ plays'[p] = new
        /\ \A q \in Plays \ {p} : plays'[q] = plays[q]
    BY <1>1, <2>2
  <2>4. Types'
    BY <1>1, <1>5, <2>3 DEF IInv, Types, Sources, Element, CacheOK
  <2>5. PlayInv'
    BY <1>1, <1>5, <2>2, <2>3 DEF IInv, PlayInv, Pending
  <2>6. SourceInv'
    BY <1>1, <2>2, <2>3 DEF SourceInv, Pending
  <2>7. ElementInv'
    BY <1>1, <1>5, <2>3 DEF IInv, ElementInv
  <2>8. UrlsOwned' /\ PendingInv' /\ StartedIsAuthorized'
    BY <1>1, <1>5, <2>2, <2>3 DEF IInv, UrlsOwned, PendingInv, StartedIsAuthorized
  <2> QED BY <2>4, <2>5, <2>6, <2>7, <2>8 DEF IInv
<1> QED BY <1>3, <1>4, <1>5 DEF Play

\* The audio of the active playback has come.
LEMMA IInvFetched ==
  ASSUME IInv, NEW p \in Plays, Fetched(p)
  PROVE  IInv'
<1>1. /\ activePlay = p /\ plays[p].key \in Keys /\ ~plays[p].started /\ plays[p] \in PlayRecord
      /\ activePlay' = p /\ UNCHANGED <<activation, attempt, prepares, cached>>
  BY Facts DEF Fetched, IInv, PlayInv, Pending
<1>2. PICK whole \in BOOLEAN : Attach(p, [plays[p] EXCEPT !.complete = whole])
  BY DEF Fetched
<1> DEFINE play == [plays[p] EXCEPT !.complete = whole]
<1>3. play \in PlayRecord /\ play.key \in Keys /\ ~play.started
  BY <1>1 DEF PlayRecord
<1>4. Attach(p, play)
  BY <1>2
<1> HIDE DEF play
<1> QED BY <1>1, <1>3, <1>4, Attached

\* play's finally after a failure.
LEMMA IInvRelease ==
  ASSUME IInv, NEW p \in Plays, Pending(p), Release(p),
         UNCHANGED <<activation, attempt, attempts, activationUrl, prepares, cached>>
  PROVE  IInv'
<1>1. plays \in [Plays -> PlayRecord] /\ CacheOK(cached)
  BY DEF IInv, Types
<1>2. /\ plays' \in [Plays -> PlayRecord] /\ plays'[p].stage = "over"
      /\ \A q \in Plays \ {p} : plays'[q] = plays[q]
  <2>1. plays[p] \in PlayRecord
    BY <1>1
  <2>2. /\ DOMAIN plays' = Plays /\ \A q \in Plays \ {p} : plays'[q] = plays[q]
        /\ plays' = [q \in Plays |-> plays'[q]]
    BY <1>1 DEF Release
  <2>3. plays'[p] \in PlayRecord /\ plays'[p].stage = "over"
    BY <1>1, <2>1 DEF Release, PlayRecord, PlayStage
  <2> QED BY <1>1, <2>2, <2>3
<1>3. CacheOK(cached')
  BY <1>1 DEF CacheOK
<1> QED BY <1>1, <1>2, <1>3, Released DEF Release

\* A fetch or a stream fails.
LEMMA IInvFetchFails ==
  ASSUME IInv, NEW p \in Plays, FetchFails(p) \/ StreamFails(p)
  PROVE  IInv'
BY IInvRelease DEF FetchFails, StreamFails, Pending

\* The rest of a stream has come.
LEMMA IInvStreamCompletes ==
  ASSUME IInv, NEW p \in Plays, StreamCompletes(p)
  PROVE  IInv'
<1>1. /\ UNCHANGED <<activation, attempt, attempts, activationUrl, activePlay, prepares, cached,
                     urls, element>>
      /\ plays' = [plays EXCEPT ![p].complete = TRUE] /\ plays \in [Plays -> PlayRecord]
  BY DEF StreamCompletes, IInv, Types
<1>2. /\ plays' \in [Plays -> PlayRecord]
      /\ \A q \in Plays : /\ plays'[q].stage = plays[q].stage
                          /\ plays'[q].started = plays[q].started
                          /\ plays'[q].listening = plays[q].listening
                          /\ plays'[q].key = plays[q].key
  BY <1>1 DEF PlayRecord
<1>3. Types'
  BY <1>1, <1>2 DEF IInv, Types, Sources, Element, CacheOK
<1>4. PlayInv' /\ SourceInv' /\ ElementInv'
  BY <1>1, <1>2 DEF IInv, PlayInv, Pending, SourceInv, ElementInv
<1>5. UrlsOwned' /\ PendingInv'
  BY <1>1 DEF IInv, UrlsOwned, PendingInv
<1>6. StartedIsAuthorized'
  BY <1>1, <1>2 DEF IInv, Types, StartedIsAuthorized
<1> QED BY <1>3, <1>4, <1>5, <1>6 DEF IInv

\* The element plays the active playback.
LEMMA IInvPlaying ==
  ASSUME IInv, NEW p \in Plays, Playing(p)
  PROVE  IInv'
<1>1. /\ plays[p].stage = "media" /\ activePlay = p /\ activePlay' = p /\ activePlay # Undefined
      /\ \A q \in Plays \ {p} : ~Pending(q)
      /\ plays \in [Plays -> PlayRecord] /\ UNCHANGED <<prepares, cached>>
  <2>1. plays[p].stage = "media"
    BY DEF Playing, IInv, ElementInv
  <2> QED BY <2>1, Facts DEF Pending, Playing, IInv, Types
<1>2. /\ plays' \in [Plays -> PlayRecord]
      /\ \A q \in Plays : /\ plays'[q].stage = plays[q].stage
                          /\ plays'[q].listening = plays[q].listening
                          /\ plays'[q].key = plays[q].key
                          /\ plays'[q].started <=> plays[q].started \/ plays[q].listening
  <2> DEFINE new(q) == [plays[q] EXCEPT !.started = @ \/ plays[q].listening]
  <2>1. ASSUME NEW q \in Plays
        PROVE  /\ new(q) \in PlayRecord /\ new(q).stage = plays[q].stage
               /\ new(q).listening = plays[q].listening /\ new(q).key = plays[q].key
               /\ new(q).started <=> plays[q].started \/ plays[q].listening
    BY <1>1 DEF PlayRecord
  <2>2. plays' = [q \in Plays |-> new(q)]
    BY DEF Playing
  <2> HIDE DEF new
  <2> QED BY <2>1, <2>2
<1>3. /\ element' \in Element /\ element'.src = element.src /\ element.src = OfPlay(p)
      /\ element'.pending = Undefined
      /\ activation' = "authorized" /\ attempt' = Undefined /\ activationUrl' = Undefined
      /\ urls' = urls \ ActivationUrls
  BY DEF Playing, IInv, Types, Element
<1>4. attempts' \in [Gestures -> AttemptStage]
  BY DeniedAttempts DEF Playing, IInv, Types
<1>5. Types'
  <2>1. urls' \subseteq Sources
    BY <1>3 DEF IInv, Types
  <2> QED BY <1>1, <1>2, <1>3, <1>4, <2>1 DEF IInv, Types, Sources, Element, CacheOK
<1>6. PlayInv'
  BY <1>1, <1>2 DEF IInv, PlayInv, Pending
<1>7. SourceInv'
  BY <1>1, <1>2, <1>3, SourcesDiffer DEF IInv, SourceInv
<1>8. ElementInv'
  BY <1>1, <1>2, <1>3, SourcesDiffer DEF ElementInv
<1>9. UrlsOwned'
  <2>1. \A u \in urls : u \notin ActivationUrls => u = OfPlay(p)
    BY <1>1, SourcesDiffer DEF IInv, UrlsOwned, PendingInv
  <2> QED BY <1>1, <1>3, <2>1 DEF UrlsOwned
<1>10. PendingInv' /\ StartedIsAuthorized'
  BY <1>3 DEF PendingInv, StartedIsAuthorized
<1> QED BY <1>5, <1>6, <1>7, <1>8, <1>9, <1>10 DEF IInv

\* Every listener hears that the element has ended or failed.
LEMMA AllHear ==
  ASSUME IInv, NEW p \in Plays,
         plays' = [q \in Plays |-> [plays[q] EXCEPT !.listening = FALSE,
                                                    !.stage = IF q = p THEN "over" ELSE @]]
  PROVE  /\ plays' \in [Plays -> PlayRecord] /\ plays'[p].stage = "over"
         /\ \A q \in Plays \ {p} : plays'[q].stage = plays[q].stage
                                   /\ plays'[q].started = plays[q].started /\ ~plays'[q].listening
<1> DEFINE new(q) == [plays[q] EXCEPT !.listening = FALSE, !.stage = IF q = p THEN "over" ELSE @]
<1>1. ASSUME NEW q \in Plays
      PROVE  /\ new(q) \in PlayRecord /\ new(q).started = plays[q].started /\ ~new(q).listening
             /\ new(q).stage = IF q = p THEN "over" ELSE plays[q].stage
  BY DEF IInv, Types, PlayRecord, PlayStage
<1>2. plays' = [q \in Plays |-> new(q)]
  OBVIOUS
<1> HIDE DEF new
<1>3. DOMAIN plays' = Plays /\ \A q \in Plays : plays'[q] = new(q)
  BY <1>2
<1>4. plays' \in [Plays -> PlayRecord]
  BY <1>1, <1>2
<1> QED BY <1>1, <1>3, <1>4

\* The active playback is heard to its end.
LEMMA IInvEnded ==
  ASSUME IInv, NEW p \in Plays, Ended(p)
  PROVE  IInv'
<1>1. Pending(p) /\ plays[p].key \in Keys /\ CacheOK(cached)
  BY DEF Ended, IInv, PlayInv, Types
<1>2. CacheOK(cached')
  <2>1. cached' = cached \/ cached' = Remember(plays[p].key)
    BY DEF Ended
  <2>2. CacheOK(Remember(plays[p].key))
    BY <1>1, Remembered
  <2> QED BY <1>1, <2>1, <2>2 DEF CacheOK
<1>3. /\ plays' = [q \in Plays |-> [plays[q] EXCEPT !.listening = FALSE,
                                                    !.stage = IF q = p THEN "over" ELSE @]]
      /\ activePlay' = Undefined /\ urls' = urls \ {OfPlay(p)} /\ element' = Paused(element)
      /\ UNCHANGED <<activation, attempt, attempts, activationUrl, prepares>>
  BY DEF Ended
<1> QED BY <1>1, <1>2, <1>3, AllHear, Released

\* The element fails.
LEMMA IInvMediaError ==
  ASSUME IInv, NEW p \in Plays, MediaError(p)
  PROVE  IInv'
<1>1. Pending(p) /\ CacheOK(cached')
  BY DEF MediaError, IInv, Types, Pending, CacheOK
<1>2. /\ plays' = [q \in Plays |-> [plays[q] EXCEPT !.listening = FALSE,
                                                    !.stage = IF q = p THEN "over" ELSE @]]
      /\ activePlay' = Undefined /\ urls' = urls \ {OfPlay(p)} /\ element' = Paused(element)
      /\ UNCHANGED <<activation, attempt, attempts, activationUrl, prepares>>
  BY DEF MediaError
<1> QED BY <1>1, <1>2, AllHear, Released

\* A playback does not start.
LEMMA IInvStartFails ==
  ASSUME IInv, NEW p \in Plays, StartFails(p)
  PROVE  IInv'
<1>1. /\ Pending(p) /\ plays[p].stage = "media" /\ CacheOK(cached')
      /\ urls \intersect ActivationUrls = {} /\ plays \in [Plays -> PlayRecord]
  <2>1. Pending(p) /\ plays[p].stage = "media"
    BY DEF StartFails, IInv, PlayInv, Pending
  <2> QED BY <2>1 DEF StartFails, IInv, Types, SourceInv, CacheOK
<1>2. /\ plays' \in [Plays -> PlayRecord] /\ plays'[p].stage = "over"
      /\ \A q \in Plays \ {p} : plays'[q] = plays[q]
  <2>1. plays[p] \in PlayRecord
    BY <1>1
  <2>2. /\ DOMAIN plays' = Plays /\ \A q \in Plays \ {p} : plays'[q] = plays[q]
        /\ plays' = [q \in Plays |-> plays'[q]]
    BY <1>1 DEF StartFails
  <2>3. plays'[p] \in PlayRecord /\ plays'[p].stage = "over"
    BY <1>1, <2>1 DEF StartFails, PlayRecord, PlayStage
  <2> QED BY <1>1, <2>2, <2>3
<1>3. /\ activePlay' = Undefined /\ urls' = urls \ {OfPlay(p)} /\ element' = Paused(element)
      /\ UNCHANGED <<activation, attempt>> \/ (activation' = "idle" /\ attempt' = Undefined)
      /\ UNCHANGED <<attempts, activationUrl, prepares>>
  BY DEF StartFails
<1> QED BY <1>1, <1>2, <1>3, Released

\* A phrase is prepared.
LEMMA IInvPrepare ==
  ASSUME IInv,
         UNCHANGED <<activation, attempt, attempts, activationUrl, activePlay, plays, urls, element>>,
         prepares' \in [Prepares -> Keys \union {Undefined, "over"}], CacheOK(cached')
  PROVE  IInv'
<1>1. Types'
  BY DEF IInv, Types, Sources, Element, CacheOK
<1>2. PlayInv' /\ SourceInv' /\ ElementInv' /\ PendingInv' /\ UrlsOwned' /\ StartedIsAuthorized'
  BY DEF IInv, PlayInv, Pending, SourceInv, ElementInv, PendingInv, UrlsOwned, StartedIsAuthorized
<1> QED BY <1>1, <1>2 DEF IInv

\* prepare asks for a phrase, and its answer comes.
LEMMA IInvPrepares ==
  ASSUME IInv, NEW r \in Prepares,
         (\E k \in Keys : Prepare(r, k)) \/ PrepareSettles(r)
  PROVE  IInv'
<1>1. prepares \in [Prepares -> Keys \union {Undefined, "over"}] /\ CacheOK(cached)
  BY DEF IInv, Types
<1>2. CASE \E k \in Keys : Prepare(r, k)
  <2>1. prepares' \in [Prepares -> Keys \union {Undefined, "over"}] /\ CacheOK(cached')
    BY <1>1, <1>2 DEF Prepare, CacheOK
  <2>2. UNCHANGED <<activation, attempt, attempts, activationUrl, activePlay, plays, urls, element>>
    BY <1>2 DEF Prepare
  <2> QED BY <2>1, <2>2, IInvPrepare
<1>3. CASE PrepareSettles(r)
  <2>1. prepares' \in [Prepares -> Keys \union {Undefined, "over"}] /\ prepares[r] \in Keys
    BY <1>1, <1>3 DEF PrepareSettles
  <2>2. CacheOK(Remember(prepares[r]))
    BY <1>1, <2>1, Remembered
  <2>3. cached' = cached \/ cached' = Remember(prepares[r])
    BY <1>3 DEF PrepareSettles
  <2>4. CacheOK(cached')
    BY <1>1, <2>2, <2>3 DEF CacheOK
  <2>5. UNCHANGED <<activation, attempt, attempts, activationUrl, activePlay, plays, urls, element>>
    BY <1>3 DEF PrepareSettles
  <2> QED BY <2>1, <2>4, <2>5, IInvPrepare
<1> QED BY <1>2, <1>3

\* Everything is stopped.
LEMMA IInvStop ==
  ASSUME IInv, StopPlayback
  PROVE  IInv'
<1>1. /\ activation' \in {"idle", "authorized", "denied"} /\ attempt' = Undefined
      /\ activationUrl' = Undefined /\ activePlay' = Undefined /\ urls' = {}
      /\ UNCHANGED <<prepares, cached>> /\ plays \in [Plays -> PlayRecord]
  BY DEF StopPlayback, IInv, Types
<1>2. attempts' \in [Gestures -> AttemptStage]
  BY DeniedAttempts DEF StopPlayback, IInv, Types
<1>3. /\ plays' \in [Plays -> PlayRecord]
      /\ \A q \in Plays : IF activePlay = q THEN plays'[q].stage = "over" ELSE plays'[q] = plays[q]
  <2> DEFINE new(q) ==
               IF activePlay = q THEN [plays[q] EXCEPT !.stage = "over", !.listening = FALSE]
               ELSE plays[q]
  <2>1. ASSUME NEW q \in Plays
        PROVE  /\ new(q) \in PlayRecord
               /\ IF activePlay = q THEN new(q).stage = "over" ELSE new(q) = plays[q]
    BY <1>1 DEF PlayRecord, PlayStage
  <2>2. plays' = [q \in Plays |-> new(q)]
    BY DEF StopPlayback
  <2> HIDE DEF new
  <2> QED BY <2>1, <2>2
<1>4. \A q \in Plays : ~Pending(q)'
  BY <1>3 DEF IInv, PlayInv, Pending
<1>5. /\ element' \in Element /\ element'.src = element.src
      /\ \/ element'.pending = Undefined /\ element'.media \in {"idle", "paused"}
         \/ element' = element /\ urls = {}
  BY PausedElement DEF StopPlayback, IInv, Types
<1>6. Types'
  BY <1>1, <1>2, <1>3, <1>5 DEF IInv, Types, Sources, Element, CacheOK
<1>7. PlayInv'
  BY <1>1, <1>3, <1>4, SourcesDiffer DEF IInv, PlayInv
<1>8. SourceInv'
  BY <1>4 DEF SourceInv, Pending
<1>9. ElementInv'
  <2>1. CASE element'.pending = Undefined /\ element'.media \in {"idle", "paused"}
    BY <2>1, SourcesDiffer DEF ElementInv
  <2>2. CASE element' = element /\ urls = {}
    <3>1. \A q \in Plays : plays[q].stage # "media"
      BY <2>2 DEF IInv, SourceInv
    <3> QED BY <2>2, <3>1 DEF IInv, ElementInv
  <2> QED BY <1>5, <2>1, <2>2
<1>10. UrlsOwned' /\ PendingInv' /\ StartedIsAuthorized'
  BY <1>1 DEF UrlsOwned, PendingInv, StartedIsAuthorized
<1> QED BY <1>6, <1>7, <1>8, <1>9, <1>10 DEF IInv

\* A playback that has started is paused and resumed.
LEMMA IInvPause ==
  ASSUME IInv, Pause \/ Resume
  PROVE  IInv'
<1>1. /\ UNCHANGED <<activation, attempt, attempts, activationUrl, activePlay, plays, prepares,
                     cached, urls>>
      /\ element \in Element /\ activePlay \in Plays /\ plays[activePlay].started
  BY DEF Pause, Resume, IInv, Types
<1>2. plays[activePlay].stage = "media" /\ element.src = OfPlay(activePlay)
  BY <1>1 DEF IInv, PlayInv, Pending, SourceInv
<1>3. /\ element' \in Element /\ element'.src = element.src
      /\ element'.pending \in {Undefined, element.pending}
  BY <1>1, PausedElement DEF Pause, Resume, Element
<1>4. Types'
  BY <1>1, <1>3 DEF IInv, Types, Sources, Element, CacheOK
<1>5. PlayInv' /\ SourceInv'
  BY <1>1, <1>3 DEF IInv, PlayInv, Pending, SourceInv
<1>6. ElementInv'
  BY <1>1, <1>2, <1>3, SourcesDiffer DEF IInv, ElementInv
<1>7. UrlsOwned' /\ PendingInv' /\ StartedIsAuthorized'
  BY <1>1 DEF IInv, UrlsOwned, PendingInv, StartedIsAuthorized
<1> QED BY <1>4, <1>5, <1>6, <1>7 DEF IInv

\* Every step preserves the inductive invariant.
LEMMA IInvNext ==
  ASSUME IInv, [PlaybackNext]_playbackVars
  PROVE  IInv'
<1>1. CASE UNCHANGED playbackVars
  BY <1>1 DEF playbackVars, IInv, Types, Sources, Element, CacheOK, PlayInv, Pending, SourceInv,
       ElementInv, PendingInv, UrlsOwned, StartedIsAuthorized
<1>2. ASSUME NEW g \in Gestures, Gesture(g) \/ AttemptSettles(g) \/ AttemptReturns(g) PROVE IInv'
  BY <1>2, IInvGesture, IInvAttemptSettles, IInvAttemptReturns
<1>3. ASSUME NEW p \in Plays, NEW k \in Keys, Play(p, k) PROVE IInv'
  BY <1>3, IInvPlay
<1>4. ASSUME NEW p \in Plays,
             Fetched(p) \/ FetchFails(p) \/ StreamCompletes(p) \/ StreamFails(p)
      PROVE  IInv'
  BY <1>4, IInvFetched, IInvFetchFails, IInvStreamCompletes
<1>5. ASSUME NEW p \in Plays, Playing(p) \/ Ended(p) \/ MediaError(p) \/ StartFails(p)
      PROVE  IInv'
  BY <1>5, IInvPlaying, IInvEnded, IInvMediaError, IInvStartFails
<1>6. ASSUME NEW r \in Prepares, (\E k \in Keys : Prepare(r, k)) \/ PrepareSettles(r) PROVE IInv'
  BY <1>6, IInvPrepares
<1>7. CASE StopPlayback \/ Pause \/ Resume
  BY <1>7, IInvStop, IInvPause
<1> QED BY <1>1, <1>2, <1>3, <1>4, <1>5, <1>6, <1>7 DEF PlaybackNext

\* The inductive invariant gives what the run checks.
LEMMA Contained ==
  ASSUME IInv
  PROVE  PlaybackContained
<1>1. PlaybackTypeOK
  BY DEF IInv, Types, PlaybackTypeOK, PlayRecord, PlayStage, AttemptStage, Sources, Element, CacheOK
<1>2. HeardIsActive
  BY DEF IInv, ElementInv, PlayInv, Pending, HeardIsActive
<1> QED BY <1>1, <1>2 DEF IInv, PlaybackContained

-----------------------------------------------------------------------------
(* The theorems.                                                           *)

\* The inductive invariant: the active playback is the one call of play that is
\* pending, the element has its source once there is one, and no other sounds.
THEOREM InductiveInvariant == PlaybackSpec => []IInv
<1>1. PlaybackInit => IInv
  BY IInvInit
<1>2. IInv /\ [PlaybackNext]_playbackVars => IInv'
  BY IInvNext
<1> QED BY <1>1, <1>2, PTL DEF PlaybackSpec

\* A playback is contained: the cache keeps its limit and holds a phrase once,
\* every object URL is the pending attempt's or the active playback's, only the
\* active playback sounds, and one that has started was authorized.
THEOREM Containment == PlaybackSpec => []PlaybackContained
<1>1. IInv => PlaybackContained
  BY Contained
<1> QED BY <1>1, InductiveInvariant, PTL

=============================================================================
