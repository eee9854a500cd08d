--------------------------- MODULE SpeechPlayback ---------------------------
(***************************************************************************)
(* OpenAiLivePlaybackPort (apps/web/src/openai-live-audio.ts): one media   *)
(* element, primed by a player gesture and used for every narration; the   *)
(* speech cache; streamed and whole sources; stop, pause and resume.       *)
(* The element is the browser's: pause() and a new source reject the       *)
(* promise of a play() that has not begun, and its events reach every      *)
(* listener still attached.  What one task settles is settled in the same  *)
(* step, except the continuation of an activation attempt, which has a     *)
(* step of its own that comes before the next task (PlaybackQuiet).        *)
(***************************************************************************)
EXTENDS Naturals, Sequences, SequencesExt

CONSTANTS
  Keys,          \* role, text, voice and speed of a request
  MaxPlays,      \* bound: calls of play
  MaxPrepares,   \* bound: calls of prepare that synthesize
  MaxGestures,   \* bound: activation attempts
  CacheLimit,    \* the 8 of #rememberCache
  Undefined      \* undefined

Plays == 1..MaxPlays
Prepares == 1..MaxPrepares
Gestures == 1..MaxGestures

\* What an object URL or the element's source is of.
OfGesture(g) == <<"gesture", g>>
OfPlay(p) == <<"play", p>>

\* There is room for a phrase, and undefined is no play, gesture or source.
ASSUME PlaybackConstants ==
  /\ CacheLimit \in Nat \ {0}
  /\ Undefined \notin Plays \union Gestures
  /\ Undefined \notin {OfGesture(g) : g \in Gestures} \union {OfPlay(p) : p \in Plays}

VARIABLES
  activation,   \* #activation.phase, or its result once settled
  attempt,      \* the gesture whose attempt #activation holds while pending
  attempts,     \* the attempts: open, settled but not continued, or over
  activationUrl,\* #activationObjectUrl: its gesture
  activePlay,   \* #active: its play
  plays,        \* the calls of play
  prepares,     \* the calls of prepare: the key while one is pending
  cached,       \* #cached: the keys, oldest first
  urls,         \* the object URLs created and not revoked
  element       \* the media element: source, media, whose play() is pending

playbackVars == <<activation, attempt, attempts, activationUrl, activePlay, plays, prepares,
          cached, urls, element>>

(* stage       "fetching" awaits the response or all of its body, "media"  *)
(*             awaits playUntilEnded and the source's completion.          *)
(* listening   playUntilEnded has its listeners on the element.            *)
(* started     onStarted was called.                                       *)
(* complete    the source's completion has resolved.                       *)
NoPlay == [stage |-> "unused", key |-> Undefined, hit |-> FALSE, listening |-> FALSE,
           started |-> FALSE, complete |-> FALSE]

PlaybackInit ==
  /\ activation = "idle"
  /\ attempt = Undefined
  /\ attempts = [g \in Gestures |-> "unused"]
  /\ activationUrl = Undefined
  /\ activePlay = Undefined
  /\ plays = [p \in Plays |-> NoPlay]
  /\ prepares = [r \in Prepares |-> Undefined]
  /\ cached = <<>>
  /\ urls = {}
  /\ element = [src |-> Undefined, media |-> "idle", pending |-> Undefined]

PlaybackQuiet == \A g \in Gestures : attempts[g] \in {"unused", "open", "over"}

-----------------------------------------------------------------------------
(* The element, the cache, and what is released with them.                 *)

\* The element after pause().
Paused(e) == [e EXCEPT !.media = IF @ = "idle" THEN "idle" ELSE "paused", !.pending = Undefined]

\* finish("denied") for the attempt g, unless it has settled.
Denied(g) == [attempts EXCEPT ![g] = IF @ = "open" THEN "denied" ELSE @]

\* The attempts once the element's pending play() is rejected.
Rejected ==
  IF \E g \in Gestures : element.pending = OfGesture(g)
    THEN Denied(element.pending[2]) ELSE attempts

\* Mutant: an older copy stays.
RememberAgain(k) ==
  LET all == Append(cached, k)
  IN SubSeq(all, IF Len(all) > CacheLimit THEN Len(all) - CacheLimit + 1 ELSE 1, Len(all))

\* #matchingCache.
Hit(k) == \E i \in DOMAIN cached : cached[i] = k

\* #rememberCache: an older copy, of which there is at most one, gives way, and
\* the newest phrases are kept.
Remember(k) ==
  LET others == IF Hit(k) THEN RemoveAt(cached, CHOOSE i \in DOMAIN cached : cached[i] = k)
                ELSE cached
      all == Append(others, k)
  IN SubSeq(all, IF Len(all) > CacheLimit THEN Len(all) - CacheLimit + 1 ELSE 1, Len(all))

ActivationUrls == {OfGesture(g) : g \in Gestures}

-----------------------------------------------------------------------------
(* activateFromUserGesture.                                                *)

Gesture(g) ==
  /\ PlaybackQuiet
  /\ attempts[g] = "unused"
  /\ \A h \in 1..(g - 1) : attempts[h] # "unused"
  /\ activePlay = Undefined
  /\ activation \in {"idle", "denied"}
  /\ \/ \* play() is pending
        /\ element' = [src |-> OfGesture(g), media |-> "waiting", pending |-> OfGesture(g)]
        /\ activation' = "pending"
        /\ attempt' = g
        /\ activationUrl' = g
        /\ attempts' = [Rejected EXCEPT ![g] = "open"]
        /\ urls' = (urls \ ActivationUrls) \union {OfGesture(g)}
     \/ \* play() throws
        /\ element' = [src |-> OfGesture(g), media |-> "idle", pending |-> Undefined]
        /\ activation' = "denied"
        /\ attempt' = Undefined
        /\ activationUrl' = Undefined
        /\ attempts' = [Rejected EXCEPT ![g] = "over"]
        /\ urls' = urls \ ActivationUrls
  /\ UNCHANGED <<activePlay, plays, prepares, cached>>

\* The attempt's play() begins, is refused, or the timeout comes first.
AttemptSettles(g) ==
  /\ PlaybackQuiet
  /\ attempts[g] = "open"
  /\ \/ /\ element.pending = OfGesture(g)
        /\ attempts' = [attempts EXCEPT ![g] = "authorized"]
        /\ element' = [element EXCEPT !.media = "playing", !.pending = Undefined]
     \/ /\ element.pending = OfGesture(g)
        /\ attempts' = Denied(g)
        /\ element' = [element EXCEPT !.media = "idle", !.pending = Undefined]
     \/ /\ attempts' = Denied(g)
        /\ UNCHANGED element
  /\ UNCHANGED <<activation, attempt, activationUrl, activePlay, plays, prepares, cached, urls>>

\* #discardActivationObjectUrl, where nothing else happens to the element.
DiscardActivation ==
  /\ activationUrl' = Undefined
  /\ urls' = urls \ ActivationUrls
  /\ element' = IF activationUrl # Undefined /\ element.src = OfGesture(activationUrl)
                  THEN Paused(element) ELSE element

\* Mutant: the clip's URL is kept.
AttemptReturnsOnly(g) ==
  /\ attempts[g] \in {"authorized", "denied"}
  /\ attempts' = [attempts EXCEPT ![g] = "over"]
  /\ \/ /\ activation = "pending" /\ attempt = g
        /\ activation' = attempts[g]
        /\ attempt' = Undefined
     \/ /\ ~(activation = "pending" /\ attempt = g)
        /\ UNCHANGED <<activation, attempt>>
  /\ UNCHANGED <<activationUrl, urls, element, activePlay, plays, prepares, cached>>

\* The continuation of the attempt: it counts only if it is still #activation's.
AttemptReturns(g) ==
  /\ attempts[g] \in {"authorized", "denied"}
  /\ \/ /\ activation = "pending" /\ attempt = g
        /\ attempts' = [(IF activationUrl = g /\ element.src = OfGesture(g)
                           THEN Rejected ELSE attempts) EXCEPT ![g] = "over"]
        /\ activation' = attempts[g]
        /\ attempt' = Undefined
        /\ DiscardActivation
     \/ /\ ~(activation = "pending" /\ attempt = g)
        /\ attempts' = [attempts EXCEPT ![g] = "over"]
        /\ UNCHANGED <<activation, attempt, activationUrl, urls, element>>
  /\ UNCHANGED <<activePlay, plays, prepares, cached>>

-----------------------------------------------------------------------------
(* play.                                                                   *)

Pending(p) == plays[p].stage \in {"fetching", "media"}

\* The source is the element's, the activation's clip is dropped, and
\* playUntilEnded has attached its listeners and called play().
Attach(p, play) ==
  /\ plays' = [plays EXCEPT ![p] = [play EXCEPT !.stage = "media", !.listening = TRUE]]
  /\ element' = [src |-> OfPlay(p), media |-> "waiting", pending |-> OfPlay(p)]
  /\ attempts' = Rejected
  /\ activationUrl' = Undefined
  /\ urls' = (urls \ ActivationUrls) \union {OfPlay(p)}

\* play, up to its first await.  It throws where another one is active and
\* where no gesture has been made.
Play(p, k) ==
  /\ PlaybackQuiet
  /\ plays[p].stage = "unused"
  /\ \A q \in 1..(p - 1) : plays[q].stage # "unused"
  /\ activePlay = Undefined
  /\ LET play == [NoPlay EXCEPT !.key = k, !.hit = Hit(k), !.complete = Hit(k)]
     IN \/ /\ activation \in {"idle", "denied"}
           /\ plays' = [plays EXCEPT ![p].stage = "over"]
           /\ UNCHANGED <<activePlay, element, attempts, activationUrl, urls>>
        \/ /\ activation \notin {"idle", "denied"}
           /\ Hit(k)
           /\ activePlay' = p
           /\ Attach(p, play)
        \/ /\ activation \notin {"idle", "denied"}
           /\ ~Hit(k)
           /\ activePlay' = p
           /\ plays' = [plays EXCEPT ![p] = [play EXCEPT !.stage = "fetching"]]
           /\ UNCHANGED <<element, attempts, activationUrl, urls>>
  /\ UNCHANGED <<activation, attempt, prepares, cached>>

\* The response is audio: a whole body that has been read, or a stream.
Fetched(p) ==
  /\ PlaybackQuiet
  /\ plays[p].stage = "fetching"
  /\ \E whole \in BOOLEAN : Attach(p, [plays[p] EXCEPT !.complete = whole])
  /\ UNCHANGED <<activation, attempt, activePlay, prepares, cached>>

\* Mutant: the element is left as it is.
ReleaseUnpaused(p) ==
  /\ plays' = [plays EXCEPT ![p].stage = "over"]
  /\ activePlay' = Undefined
  /\ urls' = urls \ {OfPlay(p)}
  /\ UNCHANGED element

\* play's finally: #disposePlayback pauses the element if there was a source,
\* which fails a playUntilEnded that still awaits its play().
Release(p) ==
  /\ plays' = [plays EXCEPT ![p].stage = "over",
                            ![p].listening = @ /\ element.pending # OfPlay(p)]
  /\ activePlay' = Undefined
  /\ urls' = urls \ {OfPlay(p)}
  /\ element' = IF OfPlay(p) \in urls THEN Paused(element) ELSE element

\* The fetch fails, is refused, or brings something other than audio.
FetchFails(p) ==
  /\ PlaybackQuiet
  /\ plays[p].stage = "fetching"
  /\ Release(p)
  /\ UNCHANGED <<activation, attempt, attempts, activationUrl, prepares, cached>>

\* The rest of a stream arrives.
StreamCompletes(p) ==
  /\ PlaybackQuiet
  /\ plays[p].stage = "media"
  /\ ~plays[p].complete
  /\ plays' = [plays EXCEPT ![p].complete = TRUE]
  /\ UNCHANGED <<activation, attempt, attempts, activationUrl, activePlay, prepares, cached,
                 urls, element>>

\* The stream breaks, is too long or empty, or cannot be appended: play rejects
\* although playUntilEnded has not settled.
StreamFails(p) ==
  /\ PlaybackQuiet
  /\ plays[p].stage = "media"
  /\ ~plays[p].complete
  /\ Release(p)
  /\ UNCHANGED <<activation, attempt, attempts, activationUrl, prepares, cached>>

-----------------------------------------------------------------------------
(* The element's events, for the source p.                                 *)

\* Mutant: onStarted does not mark playback authorized.
PlayingUnmarked(p) ==
  /\ PlaybackQuiet
  /\ element.src = OfPlay(p)
  /\ element.media = "waiting"
  /\ element' = [element EXCEPT !.media = "playing", !.pending = Undefined]
  /\ plays' = [q \in Plays |-> [plays[q] EXCEPT !.started = @ \/ plays[q].listening]]
  /\ UNCHANGED <<activation, attempt, attempts, activationUrl, urls, activePlay, prepares, cached>>

\* "playing": each listener calls its onStarted once, which marks playback
\* authorized and settles a pending attempt.
Playing(p) ==
  /\ PlaybackQuiet
  /\ element.src = OfPlay(p)
  /\ element.media = "waiting"
  /\ element' = [element EXCEPT !.media = "playing", !.pending = Undefined]
  /\ plays' = [q \in Plays |-> [plays[q] EXCEPT !.started = @ \/ plays[q].listening]]
  /\ activation' = "authorized"
  /\ attempt' = Undefined
  /\ attempts' = IF activation = "pending" THEN Denied(attempt) ELSE attempts
  /\ activationUrl' = Undefined
  /\ urls' = urls \ ActivationUrls
  /\ UNCHANGED <<activePlay, prepares, cached>>

\* "ended": every playUntilEnded still listening settles; play returns and its
\* audio is remembered.
Ended(p) ==
  /\ PlaybackQuiet
  /\ activePlay = p
  /\ element.src = OfPlay(p)
  /\ element.media = "playing"
  /\ plays[p].complete
  /\ plays' = [q \in Plays |-> [plays[q] EXCEPT !.listening = FALSE,
                                                !.stage = IF q = p THEN "over" ELSE @]]
  /\ cached' = IF plays[p].hit THEN cached ELSE Remember(plays[p].key)
  /\ activePlay' = Undefined
  /\ urls' = urls \ {OfPlay(p)}
  /\ element' = Paused(element)
  /\ UNCHANGED <<activation, attempt, attempts, activationUrl, prepares>>

\* "error": every listener's playUntilEnded fails.
MediaError(p) ==
  /\ PlaybackQuiet
  /\ activePlay = p
  /\ plays[p].stage = "media"
  /\ plays' = [q \in Plays |-> [plays[q] EXCEPT !.listening = FALSE,
                                                !.stage = IF q = p THEN "over" ELSE @]]
  /\ activePlay' = Undefined
  /\ urls' = urls \ {OfPlay(p)}
  /\ element' = Paused(element)
  /\ UNCHANGED <<activation, attempt, attempts, activationUrl, prepares, cached>>

\* Mutant: the deadline looks for a playback that has started.
StartFailsStarted(p) ==
  /\ PlaybackQuiet
  /\ activePlay = p
  /\ plays[p].listening /\ plays[p].started
  /\ plays' = [plays EXCEPT ![p].stage = "over", ![p].listening = FALSE]
  /\ activePlay' = Undefined
  /\ urls' = urls \ {OfPlay(p)}
  /\ element' = Paused(element)
  /\ UNCHANGED <<activation, attempt, attempts, activationUrl, prepares, cached>>

\* play() is rejected, or the start deadline passes: what means that a gesture
\* is missing gives up the activation.
StartFails(p) ==
  /\ PlaybackQuiet
  /\ activePlay = p
  /\ plays[p].listening /\ ~plays[p].started
  /\ plays' = [plays EXCEPT ![p].stage = "over", ![p].listening = FALSE]
  /\ activePlay' = Undefined
  /\ urls' = urls \ {OfPlay(p)}
  /\ element' = Paused(element)
  /\ \/ UNCHANGED <<activation, attempt>>
     \/ activation' = "idle" /\ attempt' = Undefined
  /\ UNCHANGED <<attempts, activationUrl, prepares, cached>>

-----------------------------------------------------------------------------
(* prepare, stop, pause and resume.                                        *)

Prepare(r, k) ==
  /\ PlaybackQuiet
  /\ prepares[r] = Undefined
  /\ \A s \in 1..(r - 1) : prepares[s] # Undefined
  /\ ~Hit(k)
  /\ prepares' = [prepares EXCEPT ![r] = k]
  /\ UNCHANGED <<activation, attempt, attempts, activationUrl, activePlay, plays, cached,
                 urls, element>>

PrepareSettles(r) ==
  /\ PlaybackQuiet
  /\ prepares[r] \in Keys
  /\ \/ cached' = Remember(prepares[r])
     \/ UNCHANGED cached
  /\ prepares' = [prepares EXCEPT ![r] = "over"]
  /\ UNCHANGED <<activation, attempt, attempts, activationUrl, activePlay, plays, urls, element>>

\* stop, and the abort of the caller's signal that goes with it: a fetch and a
\* playUntilEnded reject at once.
StopPlayback ==
  /\ PlaybackQuiet
  /\ activation = "pending" \/ activePlay # Undefined
  /\ activation' = IF activation = "pending" THEN "idle" ELSE activation
  /\ attempt' = Undefined
  /\ attempts' = IF activation = "pending" THEN Denied(attempt) ELSE attempts
  /\ activationUrl' = Undefined
  /\ activePlay' = Undefined
  /\ plays' = [p \in Plays |->
                IF activePlay = p THEN [plays[p] EXCEPT !.stage = "over", !.listening = FALSE]
                ELSE plays[p]]
  /\ urls' = {}
  /\ element' = IF urls # {} THEN Paused(element) ELSE element
  /\ UNCHANGED <<prepares, cached>>

\* pause: the controller calls it while a playback it heard start is active.
Pause ==
  /\ PlaybackQuiet
  /\ activePlay # Undefined
  /\ plays[activePlay].started
  /\ element' = Paused(element)
  /\ UNCHANGED <<activation, attempt, attempts, activationUrl, activePlay, plays, prepares,
                 cached, urls>>

\* resume: play() is called again and goes on, unless it is refused.
Resume ==
  /\ PlaybackQuiet
  /\ activePlay # Undefined
  /\ plays[activePlay].started
  /\ element.media = "paused"
  /\ element' = [element EXCEPT !.media = "playing"]
  /\ UNCHANGED <<activation, attempt, attempts, activationUrl, activePlay, plays, prepares,
                 cached, urls>>

-----------------------------------------------------------------------------
PlaybackNext ==
  \/ \E g \in Gestures : Gesture(g) \/ AttemptSettles(g) \/ AttemptReturns(g)
  \/ \E p \in Plays, k \in Keys : Play(p, k)
  \/ \E p \in Plays :
       \/ Fetched(p) \/ FetchFails(p) \/ StreamCompletes(p) \/ StreamFails(p)
       \/ Playing(p) \/ Ended(p) \/ MediaError(p) \/ StartFails(p)
  \/ \E r \in Prepares, k \in Keys : Prepare(r, k)
  \/ \E r \in Prepares : PrepareSettles(r)
  \/ StopPlayback \/ Pause \/ Resume

PlaybackSpec == PlaybackInit /\ [][PlaybackNext]_playbackVars

\* The timers fire, requests and streams end, and media that plays ends.
PlaybackFairness ==
  /\ \A g \in Gestures : WF_playbackVars(AttemptSettles(g)) /\ WF_playbackVars(AttemptReturns(g))
  /\ \A p \in Plays :
       /\ WF_playbackVars(Fetched(p) \/ FetchFails(p))
       /\ WF_playbackVars(StreamCompletes(p) \/ StreamFails(p))
       /\ WF_playbackVars(StartFails(p))
       /\ SF_playbackVars(Ended(p))

PlaybackFairSpec == PlaybackSpec /\ PlaybackFairness

-----------------------------------------------------------------------------
\* The port's state is well formed; the cache holds a phrase once and no more
\* phrases than its limit.
PlaybackTypeOK ==
  /\ activation \in {"idle", "pending", "authorized", "denied"}
  /\ attempt \in Gestures \union {Undefined}
  /\ attempts \in [Gestures -> {"unused", "open", "authorized", "denied", "over"}]
  /\ activationUrl \in Gestures \union {Undefined}
  /\ activePlay \in Plays \union {Undefined}
  /\ plays \in [Plays -> [stage : {"unused", "fetching", "media", "over"},
                          key : Keys \union {Undefined}, hit : BOOLEAN, listening : BOOLEAN,
                          started : BOOLEAN, complete : BOOLEAN]]
  /\ prepares \in [Prepares -> Keys \union {Undefined, "over"}]
  /\ cached \in Seq(Keys)
  /\ Len(cached) <= CacheLimit
  /\ \A i, j \in DOMAIN cached : cached[i] = cached[j] => i = j
  /\ urls \subseteq ActivationUrls \union {OfPlay(p) : p \in Plays}
  /\ element.media \in {"idle", "waiting", "playing", "paused"}

\* Every object URL belongs to the pending attempt or to the active playback,
\* so none is leaked, whatever fails or is stopped.
UrlsOwned ==
  \A u \in urls :
    \/ activation = "pending" /\ u = OfGesture(attempt)
    \/ activePlay # Undefined /\ u = OfPlay(activePlay)

\* Only the active playback sounds: what was stopped or has failed is silent.
HeardIsActive ==
  \A p \in Plays : element.media = "playing" /\ element.src = OfPlay(p) => activePlay = p

\* A playback that has started shows that the player's gesture counted, although
\* taking the element denied the attempt it overtook: the next narration needs
\* no other gesture.
StartedIsAuthorized ==
  activePlay # Undefined /\ plays[activePlay].started => activation = "authorized"

\* A playback is contained: the cache keeps its limit, the object URLs and the
\* sound are the active playback's, and one that started was authorized.
PlaybackContained == PlaybackTypeOK /\ UrlsOwned /\ HeardIsActive /\ StartedIsAuthorized

\* A playback settles unless it is paused, and so does an activation attempt.
PlaySettles ==
  /\ \A p \in Plays : Pending(p) ~> (plays[p].stage = "over" \/ element.media = "paused")
  /\ activation = "pending" ~> activation # "pending"

=============================================================================
