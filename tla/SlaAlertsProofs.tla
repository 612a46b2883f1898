---------------------------- MODULE SlaAlertsProofs ----------------------------
(* Proofs about SlaAlerts.  A set is recorded as announced only once the client *)
(* has read it or a later one, because what a refresh is about to announce is    *)
(* never later than what the client would be answered: the entry of the cache,  *)
(* the load in flight, or the alerts of now.                                    *)
EXTENDS SlaAlerts, FiniteSetTheorems, TLAPS

\* The subscriptions: what PollsWhatIsListened relates, typed.
FeedInv ==
    /\ era \in {"subscribe", "listen"} /\ attached \in BOOLEAN /\ timer \in BOOLEAN
    /\ DOMAIN streams \subseteq Streams /\ streams \in [DOMAIN streams -> SUBSET Uris]
    /\ listeners \in [Uris -> Nat]
    /\ PollsWhatIsListened

WorkInv ==
    /\ round \in {None} \cup SUBSET Uris
    /\ refresh \in [Workers -> Refresh \cup {None}]
    /\ round # None <=> refresh["round"] # None

DataTyped ==
    /\ fingerprints \in [Uris -> Sets \cup {None, Undefined}]
    /\ load \in [Uris -> Sets \cup {None, Asked}]
    /\ entry \in [Uris -> Sets \cup {None}]
    /\ alerts \in [Uris -> Sets] /\ known \in [Uris -> Sets] /\ failures \in 0 .. MaxFailures

\* There is a load only without an entry, and neither is of a set to come.
Fresh ==
    \A u \in Uris :
        /\ load[u] # None => entry[u] = None
        /\ load[u] \in Sets => load[u] <= alerts[u]
        /\ entry[u] # None => entry[u] <= alerts[u]

\* A client that reads u now is answered v or a later set.
Covered(u, v) ==
    /\ v <= alerts[u]
    /\ entry[u] # None => v <= entry[u]
    /\ load[u] \in Sets => v <= load[u]

NextCovered ==
    \A w \in Workers : At(w, "notifying") => Covered(refresh[w].uri, refresh[w].next)

DataInv == DataTyped /\ Fresh /\ NextCovered /\ RecordedIsSeen

SlaInv == FeedInv /\ WorkInv /\ DataInv

LEMMA Values ==
  /\ None \notin Sets /\ Undefined \notin Sets /\ Asked \notin Sets
  /\ None # Undefined /\ Asked # None /\ Asked # Undefined
  /\ None \notin Refresh /\ None \notin SUBSET Uris /\ "round" \notin Launches
  /\ AlertUris \subseteq Uris /\ IsFiniteSet(Streams) /\ MaxFailures \in Nat
  /\ MaxChanges \in [Uris -> Nat]
BY SlaAlertsAssumption

LEMMA StartingIsRefresh ==
  ASSUME NEW u \in Uris
  PROVE  Starting(u) \in Refresh /\ Starting(u) # None /\ Starting(u).at = "starting"
BY Values DEF Starting, Refresh

LEMMA AtIs ==
  ASSUME WorkInv, NEW w \in Workers, refresh[w] # None
  PROVE  /\ refresh[w] \in Refresh /\ refresh[w].uri \in Uris
         /\ refresh[w].at = "notifying" => refresh[w].next \in Sets
BY DEF WorkInv, Refresh

LEMMA ListenedFinite ==
  ASSUME FeedInv, NEW u \in Uris
  PROVE  /\ IsFiniteSet(Listened(u)) /\ Cardinality(Listened(u)) \in Nat
         /\ Cardinality(Listened(u)) = 0 <=> Listened(u) = {}
<1>1. Listened(u) \in SUBSET Streams BY DEF FeedInv, Listened
<1>2. IsFiniteSet(Listened(u)) BY <1>1, Values, FS_Subset
<1> QED BY <1>2, FS_CardinalityType, FS_EmptySet

\* The subscriptions change only with what is subscribed to.
LEMMA FeedSame ==
  ASSUME FeedInv, UNCHANGED feed, timer' = timer, Subscribed' = Subscribed
  PROVE  FeedInv'
<1>1. era' = era /\ streams' = streams /\ listeners' = listeners /\ attached' = attached
      BY DEF feed
<1>2. \A u \in Uris : Listened(u)' = Listened(u) BY <1>1 DEF Listened
<1>3. {u \in AlertUris : Listened(u) # {}}' = {u \in AlertUris : Listened(u) # {}}
      BY <1>2, Values
<1>4. PollsWhatIsListened' BY <1>1, <1>2, <1>3 DEF FeedInv, PollsWhatIsListened
<1> QED BY <1>1, <1>4 DEF FeedInv

\* Refreshes end: the round's next one, if any, starts, and no other.
LEMMA EndsKeep ==
  ASSUME WorkInv, NEW ws \in SUBSET Workers, EndRefreshes(ws),
         "round" \in ws => refresh["round"] # None
  PROVE  /\ WorkInv'
         /\ \A w \in Workers : At(w, "notifying")' => w \notin ws /\ refresh'[w] = refresh[w]
<1> DEFINE over == [w \in Workers |-> IF w \in ws THEN None ELSE refresh[w]]
<1>0. "round" \in Workers BY DEF Workers
<1>1. over \in [Workers -> Refresh \cup {None}] BY DEF WorkInv
<1>2. \A w \in Workers : over[w] = IF w \in ws THEN None ELSE refresh[w]
      OBVIOUS
<1>3. CASE "round" \notin ws
  <2>1. refresh' = over /\ round' = round BY <1>3 DEF EndRefreshes
  <2>2. WorkInv' BY <1>0, <1>1, <1>2, <1>3, <2>1 DEF WorkInv
  <2> QED BY <1>2, <2>1, <2>2 DEF At
<1>4. CASE "round" \in ws /\ round = {}
  <2>1. refresh' = over /\ round' = None BY <1>4 DEF EndRefreshes
  <2>2. WorkInv' BY <1>0, <1>1, <1>2, <1>4, <2>1 DEF WorkInv
  <2> QED BY <1>2, <2>1, <2>2 DEF At
<1>5. CASE "round" \in ws /\ round # {}
  <2>1. PICK u \in round : /\ refresh' = [over EXCEPT !["round"] = Starting(u)]
                           /\ round' = round \ {u}
        BY <1>5 DEF EndRefreshes
  <2>2. round \in SUBSET Uris /\ u \in Uris BY <1>5, <2>1 DEF WorkInv
  <2> HIDE DEF over
  <2>3. refresh' \in [Workers -> Refresh \cup {None}]
        BY <1>1, <2>1, <2>2, StartingIsRefresh
  <2>4. refresh'["round"] = Starting(u) /\ \A w \in Workers \ {"round"} : refresh'[w] = over[w]
        BY <1>0, <1>1, <2>1
  <2>5. round' \in SUBSET Uris BY <2>1, <2>2
  <2>6. WorkInv' BY <2>2, <2>3, <2>4, <2>5, StartingIsRefresh, Values DEF WorkInv
  <2>7. ASSUME NEW w \in Workers, At(w, "notifying")' PROVE w \notin ws /\ refresh'[w] = refresh[w]
    <3>1. w # "round" BY <2>2, <2>4, <2>7, StartingIsRefresh DEF At
    <3> QED BY <1>2, <2>4, <2>7, <3>1 DEF At
  <2> QED BY <2>6, <2>7
<1> QED BY <1>3, <1>4, <1>5

-----------------------------------------------------------------------------
(* The data.                                                                 *)

\* Nothing new is about to be announced, nothing new recorded.
LEMMA DataSame ==
  ASSUME DataInv, UNCHANGED <<load, entry, alerts, known>>, failures' \in 0 .. MaxFailures,
         fingerprints' \in [Uris -> Sets \cup {None, Undefined}],
         \A u \in Uris : fingerprints'[u] \in Sets => fingerprints'[u] = fingerprints[u],
         \A w \in Workers : At(w, "notifying")' => refresh'[w] = refresh[w]
  PROVE  DataInv'
<1>1. DataTyped' /\ Fresh' BY DEF DataInv, DataTyped, Fresh
<1>2. NextCovered' BY DEF DataInv, NextCovered, Covered, At
<1>3. RecordedIsSeen' BY DEF DataInv, RecordedIsSeen
<1> QED BY <1>1, <1>2, <1>3 DEF DataInv

\* What was covered stays so, and what is newly about to be announced is covered.
LEMMA NextKeeps ==
  ASSUME DataInv, WorkInv,
         \A u \in Uris, v \in Sets : Covered(u, v) => Covered(u, v)',
         NEW u \in Uris, NEW v \in Sets, Covered(u, v)',
         \A w \in Workers : At(w, "notifying")' =>
             \/ At(w, "notifying") /\ refresh'[w] = refresh[w]
             \/ refresh'[w].uri = u /\ refresh'[w].next = v
  PROVE  NextCovered'
<1> SUFFICES ASSUME NEW w \in Workers, At(w, "notifying")'
             PROVE  Covered(refresh[w].uri, refresh[w].next)'
    BY DEF NextCovered
<1>1. CASE At(w, "notifying") /\ refresh'[w] = refresh[w]
  <2>1. PICK q \in Uris, x \in Sets : refresh[w].uri = q /\ refresh[w].next = x
        BY <1>1, AtIs DEF At
  <2>2. Covered(q, x) BY <1>1, <2>1 DEF DataInv, NextCovered
  <2>3. Covered(q, x)' BY <2>2
  <2> QED BY <1>1, <2>1, <2>3
<1>2. CASE refresh'[w].uri = u /\ refresh'[w].next = v
      BY <1>2
<1> QED BY <1>1, <1>2

\* The checks of u are back: recorded is what was announced, or what the client
\* has read; announced is what is back.
LEMMA CompareKeeps ==
  ASSUME WorkInv, DataInv, NEW u \in Uris, NEW v \in Sets, NEW ws \in SUBSET Workers,
         \A w \in ws : refresh[w] # None, Compare(ws, u, v)
  PROVE  /\ WorkInv' /\ Subscribed' = Subscribed /\ RecordedIsSeen'
         /\ fingerprints' \in [Uris -> Sets \cup {None, Undefined}]
         /\ known' \in [Uris -> Sets]
         /\ \A w \in Workers : At(w, "notifying")' =>
               \/ At(w, "notifying") /\ refresh'[w] = refresh[w]
               \/ refresh'[w].uri = u /\ refresh'[w].next = v
<1> DEFINE R == [uri |-> u, at |-> "notifying", next |-> v]
<1>1. R \in Refresh /\ R # None /\ R.uri = u /\ R.next = v BY Values DEF Refresh
<1>2. /\ fingerprints \in [Uris -> Sets \cup {None, Undefined}] /\ known \in [Uris -> Sets]
      /\ RecordedIsSeen
      BY DEF DataInv, DataTyped
<1>3. CASE fingerprints[u] \in Sets /\ fingerprints[u] # v
  <2>1. /\ refresh' = [w \in Workers |-> IF w \in ws THEN R ELSE refresh[w]]
        /\ fingerprints' = fingerprints /\ round' = round /\ known' = known
        BY <1>3 DEF Compare, BeforeNotifying
  <2> HIDE DEF R
  <2>2. refresh' \in [Workers -> Refresh \cup {None}] BY <1>1, <2>1 DEF WorkInv
  <2>3. \A w \in Workers : refresh'[w] = IF w \in ws THEN R ELSE refresh[w] BY <2>1
  <2>4. WorkInv' BY <1>1, <2>1, <2>2, <2>3 DEF WorkInv, Workers
  <2>5. RecordedIsSeen' /\ Subscribed' = Subscribed BY <1>2, <2>1 DEF RecordedIsSeen, Subscribed
  <2>6. ASSUME NEW w \in Workers, At(w, "notifying")'
        PROVE  \/ At(w, "notifying") /\ refresh'[w] = refresh[w]
               \/ refresh'[w].uri = u /\ refresh'[w].next = v
        BY <1>1, <2>3, <2>6 DEF At
  <2> QED BY <1>2, <2>1, <2>4, <2>5, <2>6
<1>4. CASE ~(fingerprints[u] \in Sets /\ fingerprints[u] # v)
  <2>1. /\ fingerprints' = Recorded(u, v) /\ EndRefreshes(ws)
        /\ known' = IF fingerprints[u] = Undefined THEN [known EXCEPT ![u] = v] ELSE known
        BY <1>4 DEF Compare
  <2>2. /\ WorkInv'
        /\ \A w \in Workers : At(w, "notifying")' => w \notin ws /\ refresh'[w] = refresh[w]
        BY <2>1, EndsKeep
  <2>3. \A w \in Workers : At(w, "notifying")' => At(w, "notifying") /\ refresh'[w] = refresh[w]
        BY <2>2 DEF At
  <2>4. /\ fingerprints' \in [Uris -> Sets \cup {None, Undefined}]
        /\ \A q \in Uris \ {u} : fingerprints'[q] = fingerprints[q]
        /\ fingerprints'[u] = IF fingerprints[u] = None THEN None ELSE v
        BY <1>2, <2>1 DEF Recorded
  <2>5. /\ known' \in [Uris -> Sets] /\ \A q \in Uris \ {u} : known'[q] = known[q]
        /\ known'[u] = IF fingerprints[u] = Undefined THEN v ELSE known[u]
        BY <1>2, <2>1
  <2>6. Subscribed' = Subscribed BY <2>4, Values DEF Subscribed
  <2>7. RecordedIsSeen' BY <1>2, <1>4, <2>4, <2>5, Values DEF RecordedIsSeen, Sets
  <2> QED BY <2>2, <2>3, <2>4, <2>5, <2>6, <2>7
<1> QED BY <1>3, <1>4

-----------------------------------------------------------------------------
(* The subscriptions.                                                        *)

LEMMA SubscribeKeeps ==
  ASSUME SlaInv, NEW u \in Uris, Subscribe(u), round' = round
  PROVE  /\ WorkInv' /\ timer' \in BOOLEAN /\ (timer' <=> Subscribed' # {})
         /\ Subscribed' = Subscribed \cup ({u} \cap AlertUris)
         /\ fingerprints' \in [Uris -> Sets \cup {None, Undefined}]
         /\ \A q \in Uris : fingerprints'[q] \in Sets => fingerprints'[q] = fingerprints[q]
         /\ \A w \in Workers : At(w, "notifying")' => refresh'[w] = refresh[w]
<1>1. /\ fingerprints \in [Uris -> Sets \cup {None, Undefined}]
      /\ timer \in BOOLEAN /\ (timer <=> Subscribed # {}) /\ WorkInv
      BY DEF SlaInv, FeedInv, DataInv, DataTyped, PollsWhatIsListened
<1>2. CASE ~MaySubscribe(u)
  <2>1. fingerprints' = fingerprints /\ timer' = timer /\ refresh' = refresh
        BY <1>2 DEF Subscribe
  <2>2. Subscribed' = Subscribed BY <2>1 DEF Subscribed
  <2>3. {u} \cap AlertUris \subseteq Subscribed BY <1>2 DEF MaySubscribe, Subscribed
  <2>4. WorkInv' BY <1>1, <2>1 DEF WorkInv
  <2> QED BY <1>1, <2>1, <2>2, <2>3, <2>4
<1>3. CASE MaySubscribe(u)
  <2>1. /\ fingerprints' = [fingerprints EXCEPT ![u] = Undefined] /\ timer' = TRUE
        /\ u \in AlertUris
        BY <1>3 DEF Subscribe, MaySubscribe
  <2>2. PICK w \in Launches : refresh[w] = None /\ refresh' = [refresh EXCEPT ![w] = Starting(u)]
        BY <1>3 DEF Subscribe
  <2>3. /\ fingerprints' \in [Uris -> Sets \cup {None, Undefined}]
        /\ fingerprints'[u] = Undefined
        /\ \A q \in Uris \ {u} : fingerprints'[q] = fingerprints[q]
        BY <1>1, <2>1
  <2>4. Subscribed' = Subscribed \cup {u} BY <2>3, Values DEF Subscribed
  <2>5. /\ refresh' \in [Workers -> Refresh \cup {None}] /\ refresh'[w] = Starting(u)
        /\ \A x \in Workers \ {w} : refresh'[x] = refresh[x]
        /\ "round" \in Workers \ {w}
        BY <1>1, <2>2, StartingIsRefresh, Values DEF WorkInv, Workers
  <2>6. WorkInv' BY <1>1, <2>5 DEF WorkInv
  <2>7. \A x \in Workers : At(x, "notifying")' => refresh'[x] = refresh[x]
        BY <2>5, StartingIsRefresh DEF At
  <2> QED BY <2>1, <2>3, <2>4, <2>6, <2>7, Values
<1> QED BY <1>2, <1>3

LEMMA DropKeeps ==
  ASSUME SlaInv, NEW us \in SUBSET Uris, DropSubscriptions(us)
  PROVE  /\ timer' \in BOOLEAN /\ (timer' <=> Subscribed' # {})
         /\ Subscribed' = Subscribed \ us
         /\ fingerprints' \in [Uris -> Sets \cup {None, Undefined}]
         /\ \A q \in Uris : fingerprints'[q] \in Sets => fingerprints'[q] = fingerprints[q]
<1>1. /\ fingerprints \in [Uris -> Sets \cup {None, Undefined}]
      /\ timer \in BOOLEAN /\ (timer <=> Subscribed # {})
      BY DEF SlaInv, FeedInv, DataInv, DataTyped, PollsWhatIsListened
<1>2. /\ fingerprints' = [u \in Uris |-> IF u \in us THEN None ELSE fingerprints[u]]
      /\ timer' = (timer /\ \E u \in Uris : fingerprints'[u] # None)
      BY DEF DropSubscriptions
<1>3. Subscribed' = Subscribed \ us BY <1>2 DEF Subscribed
<1>4. (\E u \in Uris : fingerprints'[u] # None) <=> Subscribed' # {} BY DEF Subscribed
<1>5. timer' \in BOOLEAN /\ (timer' <=> Subscribed' # {})
  <2>1. Subscribed' # {} => Subscribed # {} BY <1>3
  <2> QED BY <1>1, <1>2, <1>4, <2>1, Zenon
<1> QED BY <1>1, <1>2, <1>3, <1>5, Values

\* A client subscribes or unsubscribes: streams have no part in it.
LEMMA ClientKeeps ==
  ASSUME SlaInv, NEW u \in Uris, ClientSubscribes(u) \/ ClientUnsubscribes(u)
  PROVE  SlaInv'
<1>1. /\ era = "subscribe" /\ attached /\ UNCHANGED <<era, streams, listeners, attached>>
      /\ round' = round /\ UNCHANGED <<load, entry, alerts, known>> /\ failures' = failures
      BY DEF ClientSubscribes, ClientUnsubscribes, feed, cache, world
<1>2. /\ timer' \in BOOLEAN /\ (timer' <=> Subscribed' # {}) /\ WorkInv'
      /\ Subscribed' \subseteq Subscribed \cup AlertUris
      /\ fingerprints' \in [Uris -> Sets \cup {None, Undefined}]
      /\ \A q \in Uris : fingerprints'[q] \in Sets => fingerprints'[q] = fingerprints[q]
      /\ \A w \in Workers : At(w, "notifying")' => refresh'[w] = refresh[w]
  <2>1. CASE ClientSubscribes(u)
    <3>1. Subscribe(u) BY <2>1 DEF ClientSubscribes
    <3> QED BY <1>1, <3>1, SubscribeKeeps
  <2>2. CASE ClientUnsubscribes(u)
    <3>1. DropSubscriptions({u}) /\ refresh' = refresh BY <2>2 DEF ClientUnsubscribes
    <3>2. WorkInv' BY <1>1, <3>1 DEF SlaInv, WorkInv
    <3> QED BY <3>1, <3>2, DropKeeps
  <2> QED BY <2>1, <2>2
<1>3. FeedInv'
  <2>1. \A q \in Uris : Listened(q)' = Listened(q) BY <1>1 DEF Listened
  <2>2. PollsWhatIsListened'
        BY <1>1, <1>2, <2>1 DEF SlaInv, FeedInv, PollsWhatIsListened
  <2> QED BY <1>1, <1>2, <2>2 DEF SlaInv, FeedInv
<1>4. DataInv' BY <1>1, <1>2, DataSame DEF SlaInv, DataInv, DataTyped
<1> QED BY <1>2, <1>3, <1>4 DEF SlaInv

\* A stream opens: it is one more that asks for u.
LEMMA OpenKeeps ==
  ASSUME SlaInv, NEW s \in Streams, NEW u \in Uris, OpenStream(s, u)
  PROVE  SlaInv'
<1>1. /\ s \notin DOMAIN streams /\ era = "listen"
      /\ streams' = [t \in DOMAIN streams \cup {s} |-> IF t = s THEN {u} ELSE streams[t]]
      /\ listeners' = [listeners EXCEPT ![u] = @ + 1]
      /\ era' = era /\ attached' = attached
      /\ round' = round /\ UNCHANGED <<load, entry, alerts, known>> /\ failures' = failures
      BY DEF OpenStream, cache, world
<1>2. /\ timer' \in BOOLEAN /\ (timer' <=> Subscribed' # {}) /\ WorkInv'
      /\ Subscribed' = IF listeners[u] = 0 /\ attached THEN Subscribed \cup ({u} \cap AlertUris)
                       ELSE Subscribed
      /\ ~attached => timer' = timer
      /\ fingerprints' \in [Uris -> Sets \cup {None, Undefined}]
      /\ \A q \in Uris : fingerprints'[q] \in Sets => fingerprints'[q] = fingerprints[q]
      /\ \A w \in Workers : At(w, "notifying")' => refresh'[w] = refresh[w]
  <2>1. CASE listeners[u] = 0 /\ attached
    <3>1. Subscribe(u) BY <2>1 DEF OpenStream
    <3> QED BY <1>1, <2>1, <3>1, SubscribeKeeps
  <2>2. CASE ~(listeners[u] = 0 /\ attached)
    <3>1. fingerprints' = fingerprints /\ timer' = timer /\ refresh' = refresh
          BY <2>2 DEF OpenStream
    <3>2. Subscribed' = Subscribed BY <3>1 DEF Subscribed
    <3>3. WorkInv' BY <1>1, <3>1 DEF SlaInv, WorkInv
    <3> QED BY <2>2, <3>1, <3>2, <3>3
            DEF SlaInv, FeedInv, DataInv, DataTyped, PollsWhatIsListened
  <2> QED BY <2>1, <2>2
<1>3. /\ DOMAIN streams' = DOMAIN streams \cup {s}
      /\ streams' \in [DOMAIN streams' -> SUBSET Uris]
      /\ DOMAIN streams' \subseteq Streams
      BY <1>1 DEF SlaInv, FeedInv
<1>4. /\ s \notin Listened(u) /\ Listened(u)' = Listened(u) \cup {s}
      /\ \A q \in Uris \ {u} : Listened(q)' = Listened(q)
      BY <1>1, <1>3 DEF Listened
<1>5. /\ listeners' \in [Uris -> Nat] /\ listeners'[u] = listeners[u] + 1
      /\ \A q \in Uris \ {u} : listeners'[q] = listeners[q]
      BY <1>1 DEF SlaInv, FeedInv
<1>6. \A q \in Uris : listeners'[q] = Cardinality(Listened(q)')
  <2>1. \A q \in Uris : listeners[q] = Cardinality(Listened(q))
        BY DEF SlaInv, FeedInv, PollsWhatIsListened
  <2>2. Cardinality(Listened(u) \cup {s}) = Cardinality(Listened(u)) + 1
        BY <1>4, ListenedFinite, FS_AddElement DEF SlaInv
  <2> QED BY <1>4, <1>5, <2>1, <2>2
<1>7. attached => Subscribed' = {q \in AlertUris : Listened(q)' # {}}
  <2> SUFFICES ASSUME attached PROVE Subscribed' = {q \in AlertUris : Listened(q)' # {}}
      OBVIOUS
  <2>1. Subscribed = {q \in AlertUris : Listened(q) # {}}
        BY <1>1 DEF SlaInv, FeedInv, PollsWhatIsListened
  <2>2. listeners[u] # 0 => Listened(u) # {}
        BY ListenedFinite DEF SlaInv, FeedInv, PollsWhatIsListened
  <2>3. Listened(u)' # {} BY <1>4
  <2> QED BY <1>2, <1>4, <2>1, <2>2, <2>3, Values
<1>8. Subscribed' \subseteq AlertUris
      BY <1>2 DEF SlaInv, FeedInv, PollsWhatIsListened
<1>9. ~attached => ~timer' BY <1>2 DEF SlaInv, FeedInv, PollsWhatIsListened
<1>10. FeedInv'
       BY <1>1, <1>2, <1>3, <1>5, <1>6, <1>7, <1>8, <1>9
       DEF SlaInv, FeedInv, PollsWhatIsListened
<1>11. DataInv' BY <1>1, <1>2, DataSame DEF SlaInv, DataInv, DataTyped
<1> QED BY <1>2, <1>10, <1>11 DEF SlaInv

\* A stream closes: what it was the last to ask for is dropped.
LEMMA CloseKeeps ==
  ASSUME SlaInv, NEW s \in Streams, CloseStream(s)
  PROVE  SlaInv'
<1>1. /\ s \in DOMAIN streams
      /\ streams' = [t \in DOMAIN streams \ {s} |-> streams[t]]
      /\ listeners' = [u \in Uris |-> IF u \in streams[s] THEN listeners[u] - 1
                                      ELSE listeners[u]]
      /\ era' = era /\ attached' = attached /\ round' = round /\ refresh' = refresh
      /\ UNCHANGED <<load, entry, alerts, known>> /\ failures' = failures
      BY DEF CloseStream, CountOut, cache, world
<1>2. \A q \in Uris : listeners[q] = Cardinality(Listened(q))
      BY DEF SlaInv, FeedInv, PollsWhatIsListened
<1>3. /\ timer' \in BOOLEAN /\ (timer' <=> Subscribed' # {}) /\ WorkInv'
      /\ Subscribed' = IF attached THEN Subscribed \ LastAskedOf(s) ELSE Subscribed
      /\ ~attached => timer' = timer
      /\ fingerprints' \in [Uris -> Sets \cup {None, Undefined}]
      /\ \A q \in Uris : fingerprints'[q] \in Sets => fingerprints'[q] = fingerprints[q]
      /\ \A w \in Workers : At(w, "notifying")' => refresh'[w] = refresh[w]
  <2>1. WorkInv' /\ \A w \in Workers : At(w, "notifying")' => refresh'[w] = refresh[w]
        BY <1>1 DEF SlaInv, WorkInv
  <2>2. CASE attached
    <3>1. DropSubscriptions(LastAskedOf(s)) BY <2>2 DEF CloseStream
    <3>2. LastAskedOf(s) \in SUBSET Uris BY <1>1 DEF LastAskedOf, SlaInv, FeedInv
    <3> QED BY <2>1, <2>2, <3>1, <3>2, DropKeeps
  <2>3. CASE ~attached
    <3>1. fingerprints' = fingerprints /\ timer' = timer BY <2>3 DEF CloseStream
    <3>2. Subscribed' = Subscribed BY <3>1 DEF Subscribed
    <3> QED BY <2>1, <2>3, <3>1, <3>2
            DEF SlaInv, FeedInv, DataInv, DataTyped, PollsWhatIsListened
  <2> QED BY <2>2, <2>3
<1>4. /\ DOMAIN streams' = DOMAIN streams \ {s}
      /\ streams' \in [DOMAIN streams' -> SUBSET Uris]
      /\ DOMAIN streams' \subseteq Streams
      BY <1>1 DEF SlaInv, FeedInv
<1>5. \A q \in Uris : Listened(q)' = Listened(q) \ {s} /\ (s \in Listened(q) <=> q \in streams[s])
      BY <1>1, <1>4 DEF Listened
<1>6. \A q \in Uris :
        /\ IsFiniteSet(Listened(q)) /\ Cardinality(Listened(q)) \in Nat
        /\ IsFiniteSet(Listened(q)') /\ Cardinality(Listened(q)') \in Nat
        /\ Cardinality(Listened(q)') = 0 <=> Listened(q)' = {}
        /\ Cardinality(Listened(q)') = IF q \in streams[s] THEN Cardinality(Listened(q)) - 1
                                       ELSE Cardinality(Listened(q))
  <2> SUFFICES ASSUME NEW q \in Uris
               PROVE  /\ IsFiniteSet(Listened(q)) /\ Cardinality(Listened(q)) \in Nat
                      /\ IsFiniteSet(Listened(q)') /\ Cardinality(Listened(q)') \in Nat
                      /\ Cardinality(Listened(q)') = 0 <=> Listened(q)' = {}
                      /\ Cardinality(Listened(q)') =
                           IF q \in streams[s] THEN Cardinality(Listened(q)) - 1
                           ELSE Cardinality(Listened(q))
      OBVIOUS
  <2>1. IsFiniteSet(Listened(q)) /\ Cardinality(Listened(q)) \in Nat
        BY ListenedFinite DEF SlaInv
  <2>2. /\ IsFiniteSet(Listened(q) \ {s})
        /\ Cardinality(Listened(q) \ {s}) = IF s \in Listened(q) THEN Cardinality(Listened(q)) - 1
                                            ELSE Cardinality(Listened(q))
        BY <2>1, FS_RemoveElement
  <2>3. Listened(q)' = Listened(q) \ {s} BY <1>5
  <2>4. IsFiniteSet(Listened(q)') BY <2>2, <2>3
  <2>5. Cardinality(Listened(q)') \in Nat /\ (Cardinality(Listened(q)') = 0 <=> Listened(q)' = {})
        BY <2>4, FS_CardinalityType, FS_EmptySet
  <2> QED BY <1>5, <2>1, <2>2, <2>3, <2>4, <2>5
<1>7. /\ \A q \in Uris : listeners'[q] = Cardinality(Listened(q)')
      /\ listeners' \in [Uris -> Nat]
      BY <1>1, <1>2, <1>6
<1>8. era' = "listen" /\ attached' => Subscribed' = {q \in AlertUris : Listened(q)' # {}}
  <2> SUFFICES ASSUME era = "listen", attached
               PROVE  Subscribed' = {q \in AlertUris : Listened(q)' # {}}
      BY <1>1
  <2>1. Subscribed = {q \in AlertUris : Listened(q) # {}}
        BY DEF SlaInv, FeedInv, PollsWhatIsListened
  <2>2. Subscribed' = Subscribed \ LastAskedOf(s) BY <1>3
  <2>3. \A q \in Uris : q \in LastAskedOf(s) => Listened(q)' = {}
        BY <1>2, <1>6 DEF LastAskedOf
  <2>4. \A q \in Uris : Listened(q) # {} /\ Listened(q)' = {} => q \in LastAskedOf(s)
    <3> SUFFICES ASSUME NEW q \in Uris, Listened(q) # {}, Listened(q)' = {}
                 PROVE  q \in LastAskedOf(s)
        OBVIOUS
    <3>1. q \in streams[s] BY <1>5
    <3>2. listeners[q] = 1 BY <1>2, <1>6, <3>1
    <3> QED BY <3>1, <3>2 DEF LastAskedOf
  <2>5. \A q \in Uris : Listened(q)' # {} => Listened(q) # {} BY <1>5
  <2>6. \A q \in AlertUris : q \in Subscribed' <=> Listened(q)' # {}
        BY <2>1, <2>2, <2>3, <2>4, <2>5, Values
  <2>7. Subscribed' \subseteq AlertUris BY <2>1, <2>2
  <2> QED BY <2>6, <2>7
<1>9. Subscribed' \subseteq AlertUris
      BY <1>3 DEF SlaInv, FeedInv, PollsWhatIsListened
<1>10. ~attached => ~timer' BY <1>3 DEF SlaInv, FeedInv, PollsWhatIsListened
<1>11. FeedInv'
       BY <1>1, <1>3, <1>4, <1>7, <1>8, <1>9, <1>10
       DEF SlaInv, FeedInv, PollsWhatIsListened
<1>12. DataInv' BY <1>1, <1>3, DataSame DEF SlaInv, DataInv, DataTyped
<1> QED BY <1>3, <1>11, <1>12 DEF SlaInv

\* The server closes: nothing is polled any more.
LEMMA StopKeeps == SlaInv /\ Stop => SlaInv'
<1> SUFFICES ASSUME SlaInv, Stop PROVE SlaInv'
    OBVIOUS
<1>1. /\ attached' = FALSE /\ timer' = FALSE /\ fingerprints' = [u \in Uris |-> None]
      /\ era' = era /\ streams' = streams /\ listeners' = listeners
      /\ round' = round /\ refresh' = refresh
      /\ UNCHANGED <<load, entry, alerts, known>> /\ failures' = failures
      BY DEF Stop, DetachSink, cache, world
<1>2. Subscribed' = {} BY <1>1 DEF Subscribed
<1>3. \A q \in Uris : Listened(q)' = Listened(q) BY <1>1 DEF Listened
<1>4. FeedInv' BY <1>1, <1>2, <1>3 DEF SlaInv, FeedInv, PollsWhatIsListened
<1>5. WorkInv' BY <1>1 DEF SlaInv, WorkInv
<1>6. DataInv' BY <1>1, Values, DataSame DEF SlaInv, DataInv, DataTyped
<1> QED BY <1>4, <1>5, <1>6 DEF SlaInv

-----------------------------------------------------------------------------
(* The refreshes.                                                            *)

LEMMA TickKeeps == SlaInv /\ Tick => SlaInv'
<1> SUFFICES ASSUME SlaInv, Tick PROVE SlaInv'
    OBVIOUS
<1>1. PICK u \in Subscribed : /\ refresh' = [refresh EXCEPT !["round"] = Starting(u)]
                              /\ round' = Subscribed \ {u}
      BY DEF Tick
<1>2. /\ UNCHANGED feed /\ timer' = timer /\ fingerprints' = fingerprints
      /\ UNCHANGED <<load, entry, alerts, known>> /\ failures' = failures
      BY DEF Tick, cache, world
<1>3. u \in Uris /\ round' \in SUBSET Uris BY <1>1 DEF Subscribed
<1>4. /\ refresh' \in [Workers -> Refresh \cup {None}] /\ refresh'["round"] = Starting(u)
      /\ \A w \in Workers \ {"round"} : refresh'[w] = refresh[w]
      BY <1>1, <1>3, StartingIsRefresh DEF SlaInv, WorkInv, Workers
<1>5. WorkInv' BY <1>3, <1>4, StartingIsRefresh, Values DEF WorkInv
<1>6. \A w \in Workers : At(w, "notifying")' => refresh'[w] = refresh[w]
      BY <1>3, <1>4, StartingIsRefresh DEF At
<1>7. Subscribed' = Subscribed BY <1>2 DEF Subscribed
<1>8. FeedInv' BY <1>2, <1>7, FeedSame DEF SlaInv
<1>9. DataInv' BY <1>2, <1>6, DataSame DEF SlaInv, DataInv, DataTyped
<1> QED BY <1>5, <1>8, <1>9 DEF SlaInv

\* A refresh that fails ends: what it was about is forgotten.
LEMMA FailKeeps ==
  ASSUME SlaInv, NEW w \in Workers, CheckFails(w) \/ NotifyFails(w)
  PROVE  SlaInv'
<1>1. /\ UNCHANGED feed /\ timer' = timer /\ fingerprints' = fingerprints
      /\ UNCHANGED <<load, entry, alerts, known>>
      /\ failures < MaxFailures /\ failures' = failures + 1
      /\ EndRefreshes({w}) /\ refresh[w] # None
      BY DEF CheckFails, NotifyFails, cache, At
<1>2. WorkInv' /\ \A x \in Workers : At(x, "notifying")' => refresh'[x] = refresh[x]
      BY <1>1, EndsKeep DEF SlaInv
<1>3. Subscribed' = Subscribed BY <1>1 DEF Subscribed
<1>4. FeedInv' BY <1>1, <1>3, FeedSame DEF SlaInv
<1>5. failures' \in 0 .. MaxFailures BY <1>1, Values DEF SlaInv, DataInv, DataTyped
<1>6. DataInv' BY <1>1, <1>2, <1>5, DataSame DEF SlaInv, DataInv, DataTyped
<1> QED BY <1>2, <1>4, <1>6 DEF SlaInv

LEMMA ReadScopeKeeps == ASSUME SlaInv, NEW w \in Workers, ReadScope(w) PROVE SlaInv'
<1>0. /\ At(w, "starting") /\ refresh[w] # None
      /\ UNCHANGED feed /\ timer' = timer /\ entry' = entry /\ alerts' = alerts
      /\ failures' = failures /\ WorkInv /\ DataInv
      BY DEF ReadScope, At, world, SlaInv
<1>1. PICK u \in Uris : u = refresh[w].uri BY <1>0, AtIs
<1>2. CASE load[u] = None /\ entry[u] # None
  <2>1. Compare({w}, u, entry[u]) /\ load' = load BY <1>1, <1>2 DEF ReadScope
  <2>2. entry[u] \in Sets BY <1>2 DEF SlaInv, DataInv, DataTyped
  <2>3. /\ WorkInv' /\ Subscribed' = Subscribed /\ RecordedIsSeen'
        /\ fingerprints' \in [Uris -> Sets \cup {None, Undefined}]
        /\ known' \in [Uris -> Sets]
        /\ \A x \in Workers : At(x, "notifying")' =>
              \/ At(x, "notifying") /\ refresh'[x] = refresh[x]
              \/ refresh'[x].uri = u /\ refresh'[x].next = entry[u]
        BY <1>0, <2>1, <2>2, CompareKeeps
  <2>4. FeedInv' BY <1>0, <2>3, FeedSame DEF SlaInv
  <2>5. DataTyped' /\ Fresh' BY <1>0, <2>1, <2>3 DEF DataInv, DataTyped, Fresh
  <2>6. \A q \in Uris, v \in Sets : Covered(q, v) => Covered(q, v)'
        BY <1>0, <2>1 DEF Covered
  <2>7. Covered(u, entry[u])' BY <1>0, <1>2, <2>1, <2>2, Values DEF DataInv, Fresh, Covered, Sets
  <2>8. NextCovered' BY <1>0, <2>2, <2>3, <2>6, <2>7, NextKeeps
  <2> QED BY <2>3, <2>4, <2>5, <2>8 DEF SlaInv, DataInv
<1>3. CASE ~(load[u] = None /\ entry[u] # None)
  <2>1. /\ refresh' = [refresh EXCEPT ![w].at = "loading"]
        /\ load' = [load EXCEPT ![u] = IF @ = None THEN Asked ELSE @]
        /\ fingerprints' = fingerprints /\ round' = round /\ known' = known
        BY <1>1, <1>3 DEF ReadScope
  <2>2. refresh[w] \in [uri : Uris, at : {"starting", "loading"}]
        BY <1>0, AtIs DEF At, Refresh
  <2>3. /\ refresh' \in [Workers -> Refresh \cup {None}]
        /\ refresh'[w] \in Refresh /\ refresh'[w].at = "loading"
        /\ \A x \in Workers \ {w} : refresh'[x] = refresh[x]
        BY <1>0, <2>1, <2>2 DEF WorkInv, Refresh
  <2>4. WorkInv' BY <1>0, <2>1, <2>3, Values DEF WorkInv, Workers
  <2>5. Subscribed' = Subscribed BY <2>1 DEF Subscribed
  <2>6. FeedInv' BY <1>0, <2>5, FeedSame DEF SlaInv
  <2>7. /\ load' \in [Uris -> Sets \cup {None, Asked}]
        /\ load[u] = None => load'[u] = Asked /\ entry[u] = None
        /\ \A q \in Uris : q # u \/ load[u] # None => load'[q] = load[q]
        BY <1>0, <1>3, <2>1 DEF DataInv, DataTyped
  <2>8. DataTyped' BY <1>0, <2>1, <2>7 DEF DataInv, DataTyped
  <2>9. Fresh' BY <1>0, <2>7, Values DEF DataInv, Fresh
  <2>10. \A q \in Uris, v \in Sets : Covered(q, v) => Covered(q, v)'
         BY <1>0, <2>7, Values DEF Covered
  <2>11. NextCovered'
    <3> SUFFICES ASSUME NEW x \in Workers, At(x, "notifying")'
                 PROVE  Covered(refresh[x].uri, refresh[x].next)'
        BY DEF NextCovered
    <3>1. At(x, "notifying") /\ refresh'[x] = refresh[x] BY <2>3 DEF At
    <3>2. refresh[x].uri \in Uris /\ refresh[x].next \in Sets BY <1>0, <3>1, AtIs DEF At
    <3>3. Covered(refresh[x].uri, refresh[x].next) BY <1>0, <3>1 DEF DataInv, NextCovered
    <3>4. PICK q \in Uris, v \in Sets : q = refresh[x].uri /\ v = refresh[x].next BY <3>2
    <3>5. Covered(q, v)' BY <2>10, <3>3, <3>4
    <3> QED BY <3>1, <3>4, <3>5
  <2>12. RecordedIsSeen' BY <1>0, <2>1 DEF DataInv, RecordedIsSeen
  <2> QED BY <2>4, <2>6, <2>8, <2>9, <2>11, <2>12 DEF SlaInv, DataInv
<1> QED BY <1>2, <1>3

\* Only the caches or the alerts change, and nothing covered is uncovered.
LEMMA CoverKeeps ==
  ASSUME SlaInv, UNCHANGED feed, timer' = timer, fingerprints' = fingerprints,
         known' = known, failures' \in 0 .. MaxFailures, WorkInv', Fresh',
         load' \in [Uris -> Sets \cup {None, Asked}],
         entry' \in [Uris -> Sets \cup {None}], alerts' \in [Uris -> Sets],
         \A w \in Workers : At(w, "notifying")' => refresh'[w] = refresh[w],
         \A u \in Uris, v \in Sets : Covered(u, v) => Covered(u, v)'
  PROVE  SlaInv'
<1>1. Subscribed' = Subscribed BY DEF Subscribed
<1>2. FeedInv' BY <1>1, FeedSame DEF SlaInv
<1>3. DataTyped' /\ RecordedIsSeen' BY DEF SlaInv, DataInv, DataTyped, RecordedIsSeen
<1>4. NextCovered'
  <2> SUFFICES ASSUME NEW x \in Workers, At(x, "notifying")'
               PROVE  Covered(refresh[x].uri, refresh[x].next)'
      BY DEF NextCovered
  <2>1. At(x, "notifying") /\ refresh'[x] = refresh[x] BY DEF At
  <2>2. refresh[x].uri \in Uris /\ refresh[x].next \in Sets BY <2>1, AtIs DEF At, SlaInv
  <2>3. Covered(refresh[x].uri, refresh[x].next) BY <2>1 DEF SlaInv, DataInv, NextCovered
  <2>4. PICK q \in Uris, v \in Sets : q = refresh[x].uri /\ v = refresh[x].next BY <2>2
  <2>5. Covered(q, v)' BY <2>3, <2>4
  <2> QED BY <2>1, <2>4, <2>5
<1> QED BY <1>2, <1>3, <1>4 DEF SlaInv, DataInv

\* Zendesk answers with the alerts of now, which no set to announce is later than.
LEMMA AnsweredKeeps == ASSUME SlaInv, NEW u \in Uris, LoadAnswered(u) PROVE SlaInv'
<1>1. /\ load[u] = Asked /\ load' = [load EXCEPT ![u] = alerts[u]]
      /\ UNCHANGED feed /\ timer' = timer /\ fingerprints' = fingerprints
      /\ round' = round /\ refresh' = refresh /\ entry' = entry
      /\ alerts' = alerts /\ failures' = failures /\ known' = known
      BY DEF LoadAnswered, world
<1>2. DataTyped /\ Fresh /\ WorkInv BY DEF SlaInv, DataInv
<1>3. /\ load' \in [Uris -> Sets \cup {None, Asked}] /\ load'[u] = alerts[u]
      /\ \A q \in Uris \ {u} : load'[q] = load[q]
      BY <1>1, <1>2 DEF DataTyped
<1>4. WorkInv' BY <1>1, <1>2 DEF WorkInv
<1>5. Fresh' BY <1>1, <1>2, <1>3, Values DEF Fresh, DataTyped, Sets
<1>6. \A q \in Uris, v \in Sets : Covered(q, v) => Covered(q, v)'
      BY <1>1, <1>3 DEF Covered
<1> QED BY <1>1, <1>2, <1>3, <1>4, <1>5, <1>6, CoverKeeps DEF DataTyped

LEMMA LoadFailsKeeps == ASSUME SlaInv, NEW u \in Uris, LoadFails(u) PROVE SlaInv'
<1>1. /\ load[u] = Asked /\ load' = [load EXCEPT ![u] = None]
      /\ EndRefreshes(Waiting(u)) /\ failures < MaxFailures /\ failures' = failures + 1
      /\ UNCHANGED feed /\ timer' = timer /\ fingerprints' = fingerprints
      /\ entry' = entry /\ alerts' = alerts /\ known' = known
      BY DEF LoadFails, ForgetLoad
<1>2. DataTyped /\ Fresh /\ WorkInv BY DEF SlaInv, DataInv
<1>3. /\ load' \in [Uris -> Sets \cup {None, Asked}] /\ load'[u] = None
      /\ \A q \in Uris \ {u} : load'[q] = load[q]
      BY <1>1, <1>2 DEF DataTyped
<1>4. /\ WorkInv'
      /\ \A w \in Workers : At(w, "notifying")' => refresh'[w] = refresh[w]
  <2>1. Waiting(u) \in SUBSET Workers /\ \A w \in Waiting(u) : refresh[w] # None
        BY DEF Waiting, At
  <2> QED BY <1>1, <1>2, <2>1, EndsKeep
<1>5. Fresh' BY <1>1, <1>2, <1>3, Values DEF Fresh
<1>6. \A q \in Uris, v \in Sets : Covered(q, v) => Covered(q, v)'
      BY <1>1, <1>3, Values DEF Covered
<1>7. failures' \in 0 .. MaxFailures BY <1>1, <1>2, Values DEF DataTyped
<1> QED BY <1>1, <1>2, <1>3, <1>4, <1>5, <1>6, <1>7, CoverKeeps DEF DataTyped

LEMMA WorldKeeps == ASSUME SlaInv, NEW u \in Uris, AlertsChange(u) \/ Expire(u) PROVE SlaInv'
<1>1. /\ UNCHANGED feed /\ timer' = timer /\ fingerprints' = fingerprints
      /\ round' = round /\ refresh' = refresh /\ load' = load
      /\ failures' = failures /\ known' = known
      /\ \/ entry' = entry /\ alerts' = [alerts EXCEPT ![u] = @ + 1]
         \/ alerts' = alerts /\ entry' = [entry EXCEPT ![u] = None]
      BY DEF AlertsChange, Expire, cache, world
<1>2. DataTyped /\ Fresh /\ WorkInv BY DEF SlaInv, DataInv
<1>3. WorkInv' BY <1>1, <1>2 DEF WorkInv
<1>4. /\ alerts' \in [Uris -> Sets] /\ entry' \in [Uris -> Sets \cup {None}]
      /\ \A q \in Uris : alerts[q] <= alerts'[q] /\ (entry'[q] = entry[q] \/ entry'[q] = None)
      BY <1>1, <1>2 DEF DataTyped, Sets
<1>5. Fresh' BY <1>1, <1>2, <1>4 DEF Fresh, DataTyped, Sets
<1>6. \A q \in Uris, v \in Sets : Covered(q, v) => Covered(q, v)'
      BY <1>1, <1>2, <1>4 DEF Covered, DataTyped, Sets
<1> QED BY <1>1, <1>2, <1>3, <1>4, <1>5, <1>6, CoverKeeps DEF DataTyped

\* A load was begun without an entry, so that what it brings is the latest.
LEMMA LoadEndsKeeps == ASSUME SlaInv, NEW u \in Uris, LoadEnds(u) PROVE SlaInv'
<1>0. DataTyped /\ Fresh /\ WorkInv /\ DataInv BY DEF SlaInv, DataInv
<1>a. PICK v \in Sets : v = load[u] BY DEF LoadEnds
<1>1. /\ load' = [load EXCEPT ![u] = None] /\ Compare(Waiting(u), u, v)
      /\ UNCHANGED feed /\ timer' = timer /\ alerts' = alerts /\ failures' = failures
      BY <1>a DEF LoadEnds, world
<1>2. /\ entry' \in [Uris -> Sets \cup {None}]
      /\ entry'[u] = v \/ entry'[u] = entry[u]
      /\ \A q \in Uris \ {u} : entry'[q] = entry[q]
  <2>1. PICK saved \in BOOLEAN : entry' = [entry EXCEPT ![u] = IF saved THEN load[u] ELSE @]
        BY DEF LoadEnds
  <2> QED BY <1>0, <1>a, <2>1 DEF DataTyped
<1>3. /\ load' \in [Uris -> Sets \cup {None, Asked}] /\ load'[u] = None
      /\ \A q \in Uris \ {u} : load'[q] = load[q]
      BY <1>0, <1>1 DEF DataTyped
<1>4. entry[u] = None /\ v <= alerts[u] BY <1>0, <1>a, Values DEF Fresh
<1>5. /\ WorkInv' /\ Subscribed' = Subscribed /\ RecordedIsSeen'
      /\ fingerprints' \in [Uris -> Sets \cup {None, Undefined}]
      /\ known' \in [Uris -> Sets]
      /\ \A x \in Workers : At(x, "notifying")' =>
            \/ At(x, "notifying") /\ refresh'[x] = refresh[x]
            \/ refresh'[x].uri = u /\ refresh'[x].next = v
  <2>1. Waiting(u) \in SUBSET Workers /\ \A w \in Waiting(u) : refresh[w] # None
        BY DEF Waiting, At
  <2> QED BY <1>0, <1>1, <2>1, CompareKeeps
<1>6. FeedInv' BY <1>1, <1>5, FeedSame DEF SlaInv
<1>7. DataTyped' BY <1>0, <1>1, <1>2, <1>3, <1>5 DEF DataTyped
<1>8. Fresh' BY <1>0, <1>a, <1>1, <1>2, <1>3, <1>4, Values DEF Fresh
<1>9. \A q \in Uris, x \in Sets : Covered(q, x) => Covered(q, x)'
      BY <1>1, <1>a, <1>2, <1>3, <1>4, Values DEF Covered
<1>10. Covered(u, v)' BY <1>1, <1>2, <1>3, <1>4, Values DEF Covered, Sets
<1>11. NextCovered' BY <1>0, <1>1, <1>5, <1>9, <1>10, NextKeeps
<1> QED BY <1>5, <1>6, <1>7, <1>8, <1>11 DEF SlaInv, DataInv

\* The client is told, and reads what covers the set it is told of.
LEMMA NotifiedKeeps == ASSUME SlaInv, NEW w \in Workers, Notified(w) PROVE SlaInv'
<1>0. /\ DataTyped /\ Fresh /\ WorkInv /\ DataInv /\ At(w, "notifying") /\ refresh[w] # None
      BY DEF SlaInv, DataInv, Notified, At
<1>1. PICK u \in Uris, v \in Sets : u = refresh[w].uri /\ v = refresh[w].next
      BY <1>0, AtIs DEF At
<1>2. /\ fingerprints' = Recorded(u, v)
      /\ known' = [known EXCEPT ![u] = IF entry[u] # None THEN entry[u] ELSE alerts[u]]
      /\ EndRefreshes({w})
      /\ UNCHANGED feed /\ timer' = timer /\ load' = load /\ entry' = entry
      /\ alerts' = alerts /\ failures' = failures
      BY <1>1 DEF Notified, cache, world
<1>3. /\ WorkInv'
      /\ \A x \in Workers : At(x, "notifying")' => x # w /\ refresh'[x] = refresh[x]
      BY <1>0, <1>2, EndsKeep
<1>4. /\ fingerprints' \in [Uris -> Sets \cup {None, Undefined}]
      /\ \A q \in Uris \ {u} : fingerprints'[q] = fingerprints[q]
      /\ fingerprints'[u] = IF fingerprints[u] = None THEN None ELSE v
      BY <1>0, <1>2 DEF Recorded, DataTyped
<1>5. /\ known' \in [Uris -> Sets] /\ \A q \in Uris \ {u} : known'[q] = known[q]
      /\ known'[u] = IF entry[u] # None THEN entry[u] ELSE alerts[u]
      BY <1>0, <1>2 DEF DataTyped
<1>6. Covered(u, v) BY <1>0, <1>1 DEF DataInv, NextCovered
<1>7. known'[u] >= v BY <1>0, <1>5, <1>6 DEF Covered, DataTyped, Sets
<1>8. RecordedIsSeen'
      BY <1>0, <1>4, <1>5, <1>7, Values DEF DataInv, RecordedIsSeen
<1>9. Subscribed' = Subscribed BY <1>4, Values DEF Subscribed
<1>10. FeedInv' BY <1>2, <1>9, FeedSame DEF SlaInv
<1>11. DataTyped' /\ Fresh' BY <1>0, <1>2, <1>4, <1>5 DEF DataTyped, Fresh
<1>12. \A q \in Uris, x \in Sets : Covered(q, x) => Covered(q, x)' BY <1>2 DEF Covered
<1>13. Covered(u, v)' BY <1>6, <1>12
<1>14. NextCovered'
  <2>1. \A x \in Workers : At(x, "notifying")' => At(x, "notifying") /\ refresh'[x] = refresh[x]
        BY <1>3 DEF At
  <2> QED BY <1>0, <1>12, <1>13, <2>1, NextKeeps
<1> QED BY <1>3, <1>8, <1>10, <1>11, <1>14 DEF SlaInv, DataInv

LEMMA SlaInit == Init => SlaInv
<1> SUFFICES ASSUME Init PROVE SlaInv
    OBVIOUS
<1>1. /\ era \in {"subscribe", "listen"} /\ attached = TRUE /\ timer = FALSE
      /\ streams = [s \in {} |-> {}] /\ listeners = [u \in Uris |-> 0]
      /\ fingerprints = [u \in Uris |-> None]
      /\ round = None /\ refresh = [w \in Workers |-> None]
      /\ load = [u \in Uris |-> None] /\ entry = [u \in Uris |-> None]
      /\ alerts = [u \in Uris |-> 0] /\ failures = 0 /\ known = [u \in Uris |-> 0]
      BY DEF Init
<1>2. Subscribed = {} BY <1>1 DEF Subscribed
<1>3. DOMAIN streams = {} BY <1>1
<1>4. \A u \in Uris : Listened(u) = {} BY <1>3 DEF Listened
<1>5. PollsWhatIsListened
      BY <1>1, <1>2, <1>4, FS_EmptySet, Values DEF PollsWhatIsListened
<1>6. streams \in [DOMAIN streams -> SUBSET Uris] BY <1>1, <1>3
<1>7. FeedInv BY <1>1, <1>3, <1>5, <1>6 DEF FeedInv
<1>8. WorkInv BY <1>1 DEF WorkInv, Workers
<1>9. DataInv
      BY <1>1, Values DEF DataInv, DataTyped, Fresh, NextCovered, At, RecordedIsSeen, Sets
<1> QED BY <1>7, <1>8, <1>9 DEF SlaInv

LEMMA SlaStep == SlaInv /\ [Next]_vars => SlaInv'
<1> SUFFICES ASSUME SlaInv, [Next]_vars PROVE SlaInv'
    OBVIOUS
<1>1. CASE UNCHANGED vars
  <2>1. /\ UNCHANGED feed /\ timer' = timer /\ fingerprints' = fingerprints
        /\ round' = round /\ refresh' = refresh /\ failures' = failures
        /\ UNCHANGED <<load, entry, alerts, known>>
        BY <1>1 DEF vars, cache, world
  <2>2. Subscribed' = Subscribed BY <2>1 DEF Subscribed
  <2>3. FeedInv' BY <2>1, <2>2, FeedSame DEF SlaInv
  <2>4. WorkInv' BY <2>1 DEF SlaInv, WorkInv
  <2>5. DataInv' BY <2>1, DataSame DEF SlaInv, DataInv, DataTyped
  <2> QED BY <2>3, <2>4, <2>5 DEF SlaInv
<1>2. CASE Client BY <1>2, ClientKeeps, OpenKeeps, CloseKeeps, StopKeeps DEF Client
<1>3. ASSUME NEW w \in Workers, Checks(w) \/ Sent(w) PROVE SlaInv'
      BY <1>3, ReadScopeKeeps, FailKeeps, NotifiedKeeps DEF Checks, Sent
<1>4. ASSUME NEW u \in Uris, Answers(u) \/ LoadEnds(u) \/ AlertsChange(u) \/ Expire(u)
      PROVE  SlaInv'
      BY <1>4, AnsweredKeeps, LoadFailsKeeps, LoadEndsKeeps, WorldKeeps DEF Answers
<1> QED BY <1>1, <1>2, <1>3, <1>4, TickKeeps DEF Next

\* The poller polls what the open streams ask for, however many open and close,
\* and nothing once its server has closed.
THEOREM PollingFollowsListeners == Spec => [](TypeOK /\ PollsWhatIsListened)
<1>1. SlaInv => TypeOK /\ PollsWhatIsListened
      BY DEF SlaInv, FeedInv, WorkInv, DataInv, DataTyped, TypeOK
<1> QED BY <1>1, SlaInit, SlaStep, PTL DEF Spec

\* What is recorded as announced, the client has seen, whatever refreshes overlap.
THEOREM AnnouncedIsSeen == Spec => []RecordedIsSeen
<1>1. SlaInv => RecordedIsSeen BY DEF SlaInv, DataInv
<1> QED BY <1>1, SlaInit, SlaStep, PTL DEF Spec
================================================================================
