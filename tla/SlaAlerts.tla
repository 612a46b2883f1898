------------------------------- MODULE SlaAlerts -------------------------------
(* The SLA alert poller of one connection (utils/sla-poller.ts), fed either by *)
(* resources/subscribe or by the listen streams (utils/listen-feed.ts), over   *)
(* the scope cache that its checks read through (utils/scope-cache.ts).        *)
(*                                                                             *)
(* The alert sets of a resource are numbered as they follow each other, and    *)
(* the number stands for the fingerprint.  The checks that wait for a load are *)
(* resumed by its end, in one chain of microtasks: that is one step.           *)
EXTENDS Naturals, FiniteSets

CONSTANTS Uris,          \* the resources a client may name
          AlertUris,     \* those that are alert resources
          Streams,       \* the listen streams it may open
          Launches,      \* bound: the checks made at a subscription under way
          MaxChanges,    \* bound: how often each alert set changes
          MaxFailures,   \* bound: failed loads and notifications
          None, Undefined, Asked  \* no value, the value undefined, a load under way

Sets == Nat

Refresh == [uri : Uris, at : {"starting", "loading"}]
           \cup [uri : Uris, at : {"notifying"}, next : Sets]

ASSUME SlaAlertsAssumption ==
    /\ AlertUris \subseteq Uris /\ "round" \notin Launches
    /\ MaxChanges \in [Uris -> Nat] /\ MaxFailures \in Nat
    /\ IsFiniteSet(Streams)
    /\ \A v \in {None, Undefined, Asked} : v \notin Sets
    /\ None # Undefined /\ Asked \notin {None, Undefined}
    /\ None \notin Refresh /\ \A us \in SUBSET Uris : us # None

VARIABLES
    era,            \* whether the client subscribes or listens
    streams,        \* the open listen streams: the resources each asks for
    listeners,      \* how many of them ask for a resource
    attached,       \* the poller is a sink of the feed, its server lives
    fingerprints,   \* per resource: absent, undefined or the set last recorded
    timer,          \* the interval is set
    round,          \* what the round under way has yet to refresh, or no round
    refresh,        \* the refresh each worker, the round or a launch, is at
    load,           \* per resource: the load in flight
    entry,          \* per resource: the cache entry not expired
    alerts,         \* at Zendesk: the alert set of each resource
    failures,       \* bound counter
    known           \* history: the alert set the client has seen

feed == <<era, streams, listeners, attached>>
cache == <<load, entry>>
world == <<alerts, failures>>
vars == <<feed, fingerprints, timer, round, refresh, cache, world, known>>

Workers == Launches \cup {"round"}

Subscribed == {u \in Uris : fingerprints[u] # None}
At(w, stage) == refresh[w] # None /\ refresh[w].at = stage
Starting(u) == [uri |-> u, at |-> "starting"]

-----------------------------------------------------------------------------
(* Subscriptions.                                                           *)

\* Only an alert resource is subscribed to, and not twice.
MaySubscribe(u) == u \in AlertUris /\ fingerprints[u] = None

\* subscribe: no fingerprint yet, a refresh at once, and the timer.
Subscribe(u) ==
    \/ ~MaySubscribe(u) /\ UNCHANGED <<fingerprints, timer, refresh>>
    \/ /\ MaySubscribe(u)
       /\ fingerprints' = [fingerprints EXCEPT ![u] = Undefined]
       /\ \E w \in Launches :
            refresh[w] = None /\ refresh' = [refresh EXCEPT ![w] = Starting(u)]
       /\ timer' = TRUE

\* The last subscription takes the timer with it.  Refreshes under way go on.
DropSubscriptions(us) ==
    /\ fingerprints' = [u \in Uris |-> IF u \in us THEN None ELSE fingerprints[u]]
    /\ timer' = (timer /\ \E u \in Uris : fingerprints'[u] # None)

\* The resource requests of a 2025 client.
ClientSubscribes(u) ==
    /\ era = "subscribe" /\ attached
    /\ Subscribe(u)
    /\ UNCHANGED <<feed, round, cache, world, known>>

ClientUnsubscribes(u) ==
    /\ era = "subscribe" /\ attached /\ fingerprints[u] # None
    /\ DropSubscriptions({u})
    /\ UNCHANGED <<feed, round, refresh, cache, world, known>>

\* A listen stream opens: the first to ask for a resource subscribes it.  (A
\* stream asks for one resource here: several are told one after the other.)
OpenStream(s, u) ==
    /\ era = "listen" /\ s \notin DOMAIN streams
    /\ streams' = [t \in DOMAIN streams \cup {s} |-> IF t = s THEN {u} ELSE streams[t]]
    /\ listeners' = [listeners EXCEPT ![u] = @ + 1]
    /\ IF listeners[u] = 0 /\ attached
       THEN Subscribe(u) ELSE UNCHANGED <<fingerprints, timer, refresh>>
    /\ UNCHANGED <<era, attached, round, cache, world, known>>

\* The resources nobody listens to once the stream has ended.
LastAskedOf(s) == {u \in streams[s] : listeners[u] = 1}

CountOut(s) == [u \in Uris |-> IF u \in streams[s] THEN listeners[u] - 1 ELSE listeners[u]]

CloseStream(s) ==
    /\ s \in DOMAIN streams
    /\ streams' = [t \in DOMAIN streams \ {s} |-> streams[t]]
    /\ listeners' = CountOut(s)
    /\ IF attached THEN DropSubscriptions(LastAskedOf(s)) ELSE UNCHANGED <<fingerprints, timer>>
    /\ UNCHANGED <<era, attached, round, refresh, cache, world, known>>

\* A mutant that stays a sink of the feed:
Detach == attached' = attached

\* The server closes, its poller stops: the feed may go on for another server.
DetachSink == attached' = FALSE

Stop ==
    /\ attached
    /\ DetachSink
    /\ fingerprints' = [u \in Uris |-> None] /\ timer' = FALSE
    /\ UNCHANGED <<era, streams, listeners, round, refresh, cache, world, known>>

-----------------------------------------------------------------------------
(* Refreshes.                                                               *)

\* A tick with no round under way starts one over the subscriptions of now.
Tick ==
    /\ timer /\ round = None
    /\ \E u \in Subscribed :
         /\ refresh' = [refresh EXCEPT !["round"] = Starting(u)]
         /\ round' = Subscribed \ {u}
    /\ UNCHANGED <<feed, fingerprints, timer, cache, world, known>>

\* Refreshes are over; a round that ends one goes on to its next resource,
\* whether or not that one is still subscribed to.
EndRefreshes(ws) ==
    LET over == [w \in Workers |-> IF w \in ws THEN None ELSE refresh[w]] IN
    IF "round" \notin ws THEN refresh' = over /\ UNCHANGED round
    ELSE IF round = {} THEN refresh' = over /\ round' = None
    ELSE \E u \in round : /\ refresh' = [over EXCEPT !["round"] = Starting(u)]
                          /\ round' = round \ {u}

\* Recorded only while subscribed.
Recorded(u, v) == IF fingerprints[u] = None THEN fingerprints
                  ELSE [fingerprints EXCEPT ![u] = v]

\* A mutant that records what it is about to announce:
RecordFirst(u, v) == Recorded(u, v)

\* Nothing is recorded before it is announced, so that a failed notification is
\* made again.
BeforeNotifying(u, v) == fingerprints

\* The checks of u are back with v.  A set that differs from the one recorded is
\* announced; the first one is the baseline.
Compare(ws, u, v) ==
    IF fingerprints[u] \in Sets /\ fingerprints[u] # v
    THEN /\ refresh' = [w \in Workers |->
              IF w \in ws THEN [uri |-> u, at |-> "notifying", next |-> v] ELSE refresh[w]]
         /\ fingerprints' = BeforeNotifying(u, v)
         /\ UNCHANGED <<round, known>>
    ELSE /\ fingerprints' = Recorded(u, v)
         /\ known' = IF fingerprints[u] = Undefined THEN [known EXCEPT ![u] = v] ELSE known
         /\ EndRefreshes(ws)

\* The token, the view, the thresholds are read; then the scope, through the
\* cache: its entry, the load in flight, or a load of one's own.
ReadScope(w) ==
    LET u == refresh[w].uri IN
    /\ At(w, "starting")
    /\ IF load[u] = None /\ entry[u] # None
       THEN Compare({w}, u, entry[u]) /\ UNCHANGED load
       ELSE /\ refresh' = [refresh EXCEPT ![w].at = "loading"]
            /\ load' = [load EXCEPT ![u] = IF @ = None THEN Asked ELSE @]
            /\ UNCHANGED <<fingerprints, round, known>>
    /\ UNCHANGED <<feed, timer, entry, world>>

\* Something fails before the scope is read: no sign-in, an outage.
CheckFails(w) ==
    /\ At(w, "starting")
    /\ failures < MaxFailures /\ failures' = failures + 1
    /\ EndRefreshes({w})
    /\ UNCHANGED <<feed, fingerprints, timer, cache, alerts, known>>

\* Zendesk answers a load with the alert set of now.
LoadAnswered(u) ==
    /\ load[u] = Asked
    /\ load' = [load EXCEPT ![u] = alerts[u]]
    /\ UNCHANGED <<feed, fingerprints, timer, round, refresh, entry, world, known>>

Waiting(u) == {w \in Workers : At(w, "loading") /\ refresh[w].uri = u}

\* The load ends, its value saved or not: whoever waits for it is resumed.
LoadEnds(u) ==
    /\ load[u] \in Sets
    /\ load' = [load EXCEPT ![u] = None]
    /\ \E saved \in BOOLEAN : entry' = [entry EXCEPT ![u] = IF saved THEN load[u] ELSE @]
    /\ Compare(Waiting(u), u, load[u])
    /\ UNCHANGED <<feed, timer, world>>

\* A mutant that keeps the failed load for the checks to come:
KeepFailed(u) == load' = [load EXCEPT ![u] = Undefined]

\* The failed load is forgotten.
ForgetLoad(u) == load' = [load EXCEPT ![u] = None]

\* A load fails for all who wait for it.
LoadFails(u) ==
    /\ load[u] = Asked
    /\ failures < MaxFailures /\ failures' = failures + 1
    /\ ForgetLoad(u)
    /\ EndRefreshes(Waiting(u))
    /\ UNCHANGED <<feed, fingerprints, timer, entry, alerts, known>>

\* The notification is sent, and the client reads the resource again, through
\* the same cache.
Notified(w) ==
    LET u == refresh[w].uri IN
    /\ At(w, "notifying")
    /\ fingerprints' = Recorded(u, refresh[w].next)
    /\ known' = [known EXCEPT ![u] = IF entry[u] # None THEN entry[u] ELSE alerts[u]]
    /\ EndRefreshes({w})
    /\ UNCHANGED <<feed, timer, cache, world>>

NotifyFails(w) ==
    /\ At(w, "notifying")
    /\ failures < MaxFailures /\ failures' = failures + 1
    /\ EndRefreshes({w})
    /\ UNCHANGED <<feed, fingerprints, timer, cache, alerts, known>>

-----------------------------------------------------------------------------
(* Zendesk and time.                                                        *)

AlertsChange(u) ==
    /\ u \in AlertUris /\ alerts[u] < MaxChanges[u] /\ alerts' = [alerts EXCEPT ![u] = @ + 1]
    /\ UNCHANGED <<feed, fingerprints, timer, round, refresh, cache, failures, known>>

Expire(u) ==
    /\ entry[u] # None /\ entry' = [entry EXCEPT ![u] = None]
    /\ UNCHANGED <<feed, fingerprints, timer, round, refresh, load, world, known>>

-----------------------------------------------------------------------------

Init ==
    /\ era \in {"subscribe", "listen"}
    /\ streams = [s \in {} |-> {}] /\ listeners = [u \in Uris |-> 0] /\ attached = TRUE
    /\ fingerprints = [u \in Uris |-> None] /\ timer = FALSE
    /\ round = None /\ refresh = [w \in Workers |-> None]
    /\ load = [u \in Uris |-> None] /\ entry = [u \in Uris |-> None]
    /\ alerts = [u \in Uris |-> 0] /\ failures = 0
    /\ known = [u \in Uris |-> 0]

Client == \/ \E u \in Uris : ClientSubscribes(u) \/ ClientUnsubscribes(u)
          \/ \E s \in Streams, u \in Uris : OpenStream(s, u)
          \/ \E s \in Streams : CloseStream(s)
          \/ Stop

Answers(u) == LoadAnswered(u) \/ LoadFails(u)
Sent(w) == Notified(w) \/ NotifyFails(w)
Checks(w) == ReadScope(w) \/ CheckFails(w)

Next ==
    \/ Client \/ Tick
    \/ \E w \in Workers : Checks(w) \/ Sent(w)
    \/ \E u \in Uris : Answers(u) \/ LoadEnds(u) \/ AlertsChange(u) \/ Expire(u)

Spec == Init /\ [][Next]_vars

\* The timer fires, cache entries expire, and every request and notification
\* ends, if only by its deadline.
FairSpec ==
    /\ Spec /\ WF_vars(Tick)
    /\ \A w \in Workers : WF_vars(Checks(w)) /\ WF_vars(Sent(w))
    /\ \A u \in Uris : WF_vars(Answers(u)) /\ WF_vars(LoadEnds(u)) /\ WF_vars(Expire(u))

-----------------------------------------------------------------------------
(* Properties.                                                              *)

\* Every variable keeps its type, and a round is at one of its resources.
TypeOK ==
    /\ era \in {"subscribe", "listen"} /\ attached \in BOOLEAN /\ timer \in BOOLEAN
    /\ DOMAIN streams \subseteq Streams /\ streams \in [DOMAIN streams -> SUBSET Uris]
    /\ listeners \in [Uris -> Nat]
    /\ fingerprints \in [Uris -> Sets \cup {None, Undefined}]
    /\ round \in {None} \cup SUBSET Uris
    /\ refresh \in [Workers -> Refresh \cup {None}]
    /\ load \in [Uris -> Sets \cup {None, Asked}]
    /\ entry \in [Uris -> Sets \cup {None}]
    /\ round # None <=> refresh["round"] # None
    /\ alerts \in [Uris -> Sets] /\ known \in [Uris -> Sets] /\ failures \in 0 .. MaxFailures

Listened(u) == {s \in DOMAIN streams : u \in streams[s]}

\* The poller polls what is listened to: each resource is counted once per open
\* stream that asks for it, subscribed to while there is one, and the timer
\* runs as long as anything is, and never after the server has closed.
PollsWhatIsListened ==
    /\ \A u \in Uris : listeners[u] = Cardinality(Listened(u))
    /\ era = "listen" /\ attached => Subscribed = {u \in AlertUris : Listened(u) # {}}
    /\ Subscribed \subseteq AlertUris
    /\ timer <=> Subscribed # {}
    /\ ~attached => ~timer

\* What is recorded as announced, the client has seen, or something newer
\* ("recorded once announced, so a failed notification is retried"): whichever
\* refreshes of the resource overlapped, and however it was subscribed to.
RecordedIsSeen == \A u \in Uris : fingerprints[u] \in Sets => known[u] >= fingerprints[u]

\* A client that stays subscribed ends up having seen the last alert set, once
\* failures end.
ChangesAreSeen ==
    \A u \in AlertUris :
        <>[](u \in Subscribed) => <>[](known[u] = alerts[u])
================================================================================
