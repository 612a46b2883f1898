------------------------- MODULE HttpTransportProofs -------------------------
(***************************************************************************)
(* Theorems about HttpTransport, for any number of grants, requests,       *)
(* sessions and entries.                                                   *)
(*                                                                         *)
(* The argument.  A request that runs in an entry keeps it alive, closed or *)
(* not (RequestsServed), so the end of a request finds the entry it was    *)
(* counted in; and an open entry is the one its grant's slot holds         *)
(* (EntriesAccounted), so the entry a request of the grant acquires has    *)
(* its own count.  The count is a cardinality: one request joins or leaves *)
(* the set at a time.                                                      *)
(***************************************************************************)
EXTENDS HttpTransport, FiniteSetTheorems, TLAPS

Listens(e) == {r \in Reqs : req[r].at = "listen" /\ req[r].on = e}

\* The counts of the entries, apart from what the slots hold.
Counted ==
    \A e \in Entries : entry[e] # None =>
        /\ entry[e].inFlight = Cardinality(Calls(e))
        /\ entry[e].streams = IF entry[e].open THEN Listens(e) ELSE {}

\* The slots hold exactly the open entries.
Registered ==
    /\ \A g \in Grants : slot[g] # None =>
         entry[slot[g]] # None /\ entry[slot[g]].open /\ entry[slot[g]].grant = g
    /\ \A e \in Entries : entry[e] # None /\ entry[e].open => slot[entry[e].grant] = e

LEMMA Accounted == EntriesAccounted <=> Registered /\ Counted
BY DEF EntriesAccounted, Registered, Counted, Listens

\* What the invariant says of the names.
LEMMA NoneIsNothing ==
    /\ \A x \in Entry \cup Session \cup Grants \cup Entries \cup Sessions : x # None
    /\ Sessions \cap Entries = {}
    /\ IsFiniteSet(Reqs)
    /\ \A g \in Grants : Owner[g] \in Users
BY ConstantsAssumption DEF ConstantsAssumption, Users

\* Sets of requests are finite, and counting one more or one less does what it says.
LEMMA Counting ==
    ASSUME NEW R \in SUBSET Reqs, NEW r \in Reqs
    PROVE  /\ IsFiniteSet(R)
           /\ Cardinality(R) \in Nat
           /\ r \notin R => Cardinality(R \cup {r}) = Cardinality(R) + 1
           /\ r \in R => Cardinality(R \ {r}) = Cardinality(R) - 1
           /\ r \notin R => R \ {r} = R
           /\ Cardinality(R) = 0 <=> R = {}
<1>1. IsFiniteSet(R)
    BY NoneIsNothing, FS_Subset
<1>2. Cardinality(R) \in Nat
    BY <1>1, FS_CardinalityType
<1>3. r \notin R => Cardinality(R \cup {r}) = Cardinality(R) + 1
    BY <1>1, FS_AddElement
<1>4. r \in R => Cardinality(R \ {r}) = Cardinality(R) - 1
    BY <1>1, FS_RemoveElement
<1>5. Cardinality(R) = 0 <=> R = {}
    BY <1>1, FS_EmptySet
<1> QED BY <1>1, <1>2, <1>3, <1>4, <1>5

\* createGrantEntry makes an open entry of the grant.
LEMMA FreshTyped ==
    ASSUME NEW g \in Grants
    PROVE  /\ FreshEntry(g) \in Entry
           /\ FreshEntry(g).open
           /\ FreshEntry(g).grant = g
           /\ FreshEntry(g).inFlight = 0
           /\ FreshEntry(g).streams = {}
BY DEF Entry, FreshEntry

-----------------------------------------------------------------------------
(* Steps that leave the entries and the requests in them alone.            *)

\* The requests served by entries are the same ones after the step.
Elsewhere ==
    \A r \in Reqs : \/ req'[r] = req[r]
                    \/ /\ req[r].at \notin {"call", "listen"}
                       /\ req'[r].at \notin {"call", "listen"}

LEMMA EntriesUntouched ==
    ASSUME Elsewhere, UNCHANGED <<entry, slot>>, EntriesAccounted
    PROVE  EntriesAccounted'
<1>1. \A e : Calls(e)' = Calls(e) /\ Listens(e)' = Listens(e)
    BY DEF Elsewhere, Calls, Listens
<1> QED BY <1>1 DEF EntriesAccounted, Listens

-----------------------------------------------------------------------------
(* A request joins an entry, or leaves it.                                 *)

\* The entry a request acquires is its grant's, open, and rightly counted.
LEMMA AcquiredIs ==
    ASSUME IInv, NEW g \in Grants, NEW e \in Entries, Acquire(g, e)
    PROVE  /\ Acquired(g, e) \in Entry
           /\ Acquired(g, e).open
           /\ Acquired(g, e).grant = g
           /\ Acquired(g, e).inFlight = Cardinality(Calls(e))
           /\ Acquired(g, e).streams = Listens(e)
           /\ entry[e] # None => slot[g] = e /\ entry[e].grant = g
           /\ \A h \in Grants : h # g => slot[h] # e
           /\ \A d \in Entries : d # e /\ entry[d] # None /\ entry[d].open => entry[d].grant # g
<1> DEFINE x == Acquired(g, e)
<1>0. /\ \A y \in Entries : y # None
      /\ TypeOK /\ RequestsServed /\ Registered /\ Counted
    BY NoneIsNothing, Accounted DEF IInv
<1>1. \/ slot[g] = e /\ entry[e] # None /\ entry[e].open /\ entry[e].grant = g /\ x = entry[e]
      \/ slot[g] = None /\ entry[e] = None /\ x = FreshEntry(g)
    BY <1>0 DEF Acquire, Acquired, Registered
<1>2. CASE slot[g] = e /\ entry[e] # None /\ entry[e].open /\ entry[e].grant = g /\ x = entry[e]
  <2>1. x \in Entry
      BY <1>0, <1>2 DEF TypeOK
  <2>2. x.inFlight = Cardinality(Calls(e)) /\ x.streams = Listens(e)
      BY <1>0, <1>2 DEF Counted
  <2> QED BY <1>0, <1>2, <2>1, <2>2 DEF Registered
<1>3. CASE slot[g] = None /\ entry[e] = None /\ x = FreshEntry(g)
  <2>1. Calls(e) = {} /\ Listens(e) = {}
      BY <1>0, <1>3 DEF RequestsServed, Served, Calls, Listens
  <2> QED BY <1>0, <1>3, <2>1, FS_EmptySet, FreshTyped DEF Registered
<1> QED BY <1>1, <1>2, <1>3

\* A request of g is served by e, whose entry becomes x.
LEMMA RequestJoins ==
    ASSUME IInv, NEW r \in Reqs, NEW e \in Entries, NEW k \in {"call", "listen"}, NEW x \in Entry,
           req[r].at = "verified", Acquire(req[r].grant, e),
           x.open, x.grant = req[r].grant,
           x.inFlight = Cardinality(Calls(e)'), x.streams = Listens(e)',
           slot' = [slot EXCEPT ![req[r].grant] = e],
           entry' = [entry EXCEPT ![e] = x],
           req' = [req EXCEPT ![r].at = k, ![r].on = e],
           idle' = idle \ {e}, UNCHANGED <<session, denied>>
    PROVE  IInv'
<1> DEFINE g == req[r].grant
<1>n. x # None /\ Sessions \cap Entries = {} /\ \A y \in Entries : y # None
    BY NoneIsNothing
<1>0. /\ TypeOK /\ RequestsServed /\ Registered /\ Counted /\ SessionsOfOneUser
      /\ g \in Grants /\ req[r] \in Request /\ req[r].on = None
    BY Accounted DEF IInv, TypeOK, RequestsServed, Served
<1>1. /\ entry[e] # None => slot[g] = e /\ entry[e].grant = g
      /\ \A h \in Grants : h # g => slot[h] # e
      /\ \A d \in Entries : d # e /\ entry[d] # None /\ entry[d].open => entry[d].grant # g
    BY <1>0, AcquiredIs
<1>2. /\ req'[r] = [req[r] EXCEPT !.at = k, !.on = e]
      /\ req'[r].at = k /\ req'[r].on = e /\ req'[r].grant = g /\ req'[r].sent = req[r].sent
      /\ \A q \in Reqs : q # r => req'[q] = req[q]
    BY <1>0 DEF TypeOK, Request
<1>3. entry'[e] = x /\ \A d \in Entries : d # e => entry'[d] = entry[d]
    BY <1>0 DEF TypeOK
<1>4. TypeOK'
  <2>1. req' \in [Reqs -> Request]
      BY <1>0 DEF TypeOK, Request
  <2>2. entry' \in [Entries -> Entry \cup {None}]
      BY <1>0 DEF TypeOK
  <2> QED BY <1>0, <2>1, <2>2 DEF TypeOK
<1>5. Counted'
  <2>1. ASSUME NEW d \in Entries, d # e
        PROVE  Calls(d)' = Calls(d) /\ Listens(d)' = Listens(d)
    <3>1. \A q \in Reqs : req'[q].on = d => q # r
        BY <1>2, <2>1
    <3>2. Calls(d)' = Calls(d)
        BY <1>2, <3>1 DEF Calls
    <3>3. Listens(d)' = Listens(d)
        BY <1>2, <3>1 DEF Listens
    <3> QED BY <3>2, <3>3
  <2>2. ASSUME NEW d \in Entries, d # e, entry'[d] # None
        PROVE  /\ entry'[d].inFlight = Cardinality(Calls(d)')
               /\ entry'[d].streams = IF entry'[d].open THEN Listens(d)' ELSE {}
      BY <1>0, <1>3, <2>1, <2>2 DEF Counted
  <2> QED BY <1>3, <2>2 DEF Counted
<1>6. Registered'
  <2>1. \A h \in Grants : h # g => slot'[h] = slot[h]
      BY <1>0 DEF TypeOK
  <2>2. slot'[g] = e
      BY <1>0 DEF TypeOK
  <2>3. \A h \in Grants : slot[h] # None => slot[h] \in Entries
      BY <1>0 DEF TypeOK
  <2>4. \A d \in Entries : entry[d] # None => entry[d].grant \in Grants
      BY <1>0 DEF TypeOK, Entry
  <2> QED BY <1>n, <1>0, <1>1, <1>3, <2>1, <2>2, <2>3, <2>4 DEF Registered
<1>7. RequestsServed'
  <2>1. Served(r)'
    <3>1. req[r].sent = None
        BY <1>0 DEF RequestsServed, Served
    <3> QED BY <1>n, <1>0, <1>2, <1>3, <3>1 DEF Served
  <2>2. ASSUME NEW q \in Reqs, q # r PROVE Served(q)'
    <3>1. Served(q) /\ req'[q] = req[q] /\ session' = session
        BY <1>0, <1>2, <2>2 DEF RequestsServed
    <3>2. CASE req[q].at \in {"call", "listen"} /\ req[q].on = e
      <4>1. entry[e] # None /\ req[q].grant = g
          BY <1>1, <3>1, <3>2 DEF Served
      <4> QED BY <1>n, <1>3, <3>1, <3>2, <4>1 DEF Served
    <3>3. CASE ~(req[q].at \in {"call", "listen"} /\ req[q].on = e)
        BY <1>3, <3>1, <3>3, ZenonT(40) DEF Served
    <3> QED BY <3>2, <3>3
  <2> QED BY <2>1, <2>2 DEF RequestsServed
<1>8. SessionsOfOneUser'
  <2>1. \A q \in Reqs : req'[q].at = "session" => q # r
      BY <1>2
  <2> QED BY <1>0, <1>2, <2>1, ZenonT(40) DEF SessionsOfOneUser
<1> QED BY <1>4, <1>5, <1>6, <1>7, <1>8, Accounted, PTL DEF IInv

\* serveModern, up to its await.
LEMMA ServeStep ==
    ASSUME IInv, NEW r \in Reqs, NEW e \in Entries, Serve(r, e)
    PROVE  IInv'
<1> DEFINE g == req[r].grant
           x == Acquired(g, e)
<1>0. TypeOK /\ g \in Grants /\ req[r] \in Request /\ req[r].at = "verified"
    BY DEF Serve, IInv, TypeOK, RequestsServed, Served
<1>1. x \in Entry /\ x.open /\ x.grant = g /\ x.inFlight = Cardinality(Calls(e)) /\ x.streams = Listens(e)
    BY <1>0, AcquiredIs DEF Serve
<1>2. Calls(e) \in SUBSET Reqs /\ r \notin Calls(e)
    BY <1>0 DEF Calls
<1>3. CASE /\ entry' = [entry EXCEPT ![e] = [x EXCEPT !.inFlight = @ + 1]]
           /\ req' = [req EXCEPT ![r].at = "call", ![r].on = e]
  <2> DEFINE y == [x EXCEPT !.inFlight = @ + 1]
  <2>1. y \in Entry /\ y.open /\ y.grant = g /\ y.inFlight = x.inFlight + 1 /\ y.streams = x.streams
      BY <1>1 DEF Entry
  <2>2. Calls(e)' = Calls(e) \cup {r} /\ Listens(e)' = Listens(e)
      BY <1>0, <1>3 DEF Calls, Listens, TypeOK, Request
  <2>3. Cardinality(Calls(e)') = Cardinality(Calls(e)) + 1
      BY <1>2, <2>2, Counting
  <2> HIDE DEF y
  <2>4. entry' = [entry EXCEPT ![e] = y]
      BY <1>3 DEF y
  <2> QED BY <1>0, <1>1, <1>3, <2>1, <2>2, <2>3, <2>4, RequestJoins, ZenonT(40) DEF Serve
<1>4. CASE /\ entry' = [entry EXCEPT ![e] = [x EXCEPT !.streams = @ \cup {r}]]
           /\ req' = [req EXCEPT ![r].at = "listen", ![r].on = e]
  <2> DEFINE y == [x EXCEPT !.streams = @ \cup {r}]
  <2>1. y \in Entry /\ y.open /\ y.grant = g /\ y.inFlight = x.inFlight /\ y.streams = x.streams \cup {r}
      BY <1>1 DEF Entry
  <2>2. Calls(e)' = Calls(e) /\ Listens(e)' = Listens(e) \cup {r}
      BY <1>0, <1>4 DEF Calls, Listens, TypeOK, Request
  <2> HIDE DEF y
  <2>3. entry' = [entry EXCEPT ![e] = y]
      BY <1>4 DEF y
  <2> QED BY <1>0, <1>1, <1>4, <2>1, <2>2, <2>3, RequestJoins DEF Serve
<1> QED BY <1>3, <1>4 DEF Serve

\* Entry e becomes y, or goes, as some of its requests end: its slot is emptied
\* exactly when it was open and is no longer.
LEMMA EntryChanges ==
    ASSUME IInv, NEW e \in Entries, entry[e] # None, NEW y \in Entry \cup {None},
           entry' = [entry EXCEPT ![e] = y],
           y = None => \A q \in Reqs : req'[q].at \in {"call", "listen"} => req'[q].on # e,
           y # None => /\ y.grant = entry[e].grant
                       /\ y.inFlight = Cardinality(Calls(e)')
                       /\ y.streams = IF y.open THEN Listens(e)' ELSE {},
           y # None /\ y.open => entry[e].open,
           slot' = IF entry[e].open /\ (y = None \/ ~y.open)
                     THEN [slot EXCEPT ![entry[e].grant] = None] ELSE slot,
           req' \in [Reqs -> Request],
           \A q \in Reqs : req'[q] = req[q] \/ (req'[q] = NoRequest /\ req[q].on = e),
           idle' \subseteq idle, denied' \subseteq Grants, session' = session
    PROVE  IInv'
<1>n. \A z \in Entries : z # None
    BY NoneIsNothing
<1>0. TypeOK /\ RequestsServed /\ Registered /\ Counted /\ SessionsOfOneUser
    BY Accounted DEF IInv
<1>1. entry'[e] = y /\ \A d \in Entries : d # e => entry'[d] = entry[d]
    BY <1>0 DEF TypeOK
<1>2. entry[e] \in Entry /\ entry[e].grant \in Grants
    BY <1>0 DEF TypeOK, Entry
<1>3. TypeOK'
  <2>1. entry' \in [Entries -> Entry \cup {None}]
      BY <1>0 DEF TypeOK
  <2>2. slot' \in [Grants -> Entries \cup {None}]
      BY <1>0, <1>2 DEF TypeOK
  <2> QED BY <1>0, <2>1, <2>2 DEF TypeOK
<1>4. Counted'
  <2>1. ASSUME NEW d \in Entries, d # e
        PROVE  Calls(d)' = Calls(d) /\ Listens(d)' = Listens(d)
    <3>1. \A q \in Reqs : req'[q] = req[q] \/ (req'[q].at = "idle" /\ req[q].on # d)
        BY <2>1 DEF NoRequest
    <3>2. Calls(d)' = Calls(d)
        BY <3>1 DEF Calls
    <3>3. Listens(d)' = Listens(d)
        BY <3>1 DEF Listens
    <3> QED BY <3>2, <3>3
  <2>2. ASSUME NEW d \in Entries, d # e, entry'[d] # None
        PROVE  /\ entry'[d].inFlight = Cardinality(Calls(d)')
               /\ entry'[d].streams = IF entry'[d].open THEN Listens(d)' ELSE {}
      BY <1>0, <1>1, <2>1, <2>2 DEF Counted
  <2> QED BY <1>1, <2>2 DEF Counted
<1>5. Registered'
  <2>0. \A h \in Grants : slot[h] # None => slot[h] \in Entries
      BY <1>0 DEF TypeOK
  <2>1. CASE y # None /\ y.open
    <3>1. slot' = slot
        BY <2>1
    <3> QED BY <1>0, <1>1, <2>0, <2>1, <3>1 DEF Registered
  <2>2. CASE (y = None \/ ~y.open) /\ entry[e].open
    <3>1. slot' = [slot EXCEPT ![entry[e].grant] = None] /\ slot[entry[e].grant] = e
        BY <1>0, <2>2 DEF Registered
    <3>2. slot'[entry[e].grant] = None /\ \A h \in Grants : h # entry[e].grant => slot'[h] = slot[h]
        BY <1>0, <1>2, <3>1 DEF TypeOK
    <3>3. \A h \in Grants : h # entry[e].grant => slot[h] # e
        BY <1>n, <1>0 DEF Registered
    <3>4. \A d \in Entries : d # e /\ entry[d] # None /\ entry[d].open => entry[d].grant # entry[e].grant
        BY <1>0, <3>1 DEF Registered
    <3>5. \A d \in Entries : entry[d] # None => entry[d].grant \in Grants
        BY <1>0 DEF TypeOK, Entry
    <3> QED BY <1>0, <1>1, <2>0, <2>2, <3>2, <3>3, <3>4, <3>5 DEF Registered
  <2>3. CASE (y = None \/ ~y.open) /\ ~entry[e].open
    <3>1. slot' = slot /\ \A h \in Grants : slot[h] # e
        BY <1>n, <1>0, <2>3 DEF Registered
    <3> QED BY <1>0, <1>1, <2>0, <2>3, <3>1 DEF Registered
  <2> QED BY <2>1, <2>2, <2>3
<1>6. RequestsServed'
  <2> SUFFICES ASSUME NEW q \in Reqs PROVE Served(q)'
      BY DEF RequestsServed
  <2>1. CASE req'[q] = NoRequest
      BY <2>1 DEF Served, NoRequest
  <2>2. CASE req'[q] = req[q]
    <3>1. Served(q)
        BY <1>0 DEF RequestsServed
    <3>2. req[q].at \in {"call", "listen"} /\ req[q].on = e => y # None /\ y.grant = entry[e].grant
        BY <2>2
    <3> QED BY <1>1, <2>2, <3>1, <3>2 DEF Served
  <2> QED BY <2>1, <2>2
<1>7. SessionsOfOneUser'
  <2>1. \A q \in Reqs : req'[q].at = "session" => req'[q] = req[q]
      BY DEF NoRequest
  <2> QED BY <1>0, <2>1 DEF SessionsOfOneUser
<1> QED BY <1>3, <1>4, <1>5, <1>6, <1>7, Accounted, PTL DEF IInv

\* What a request of entry e, or a check of it, leaves of it.
LEMMA KeptIs ==
    ASSUME NEW x \in Entry, NEW used \in BOOLEAN
    PROVE  /\ Kept(x, used) \in {x, None}
           /\ Kept(x, used) = None => ~used /\ ~x.open /\ ~x.checking
BY NoneIsNothing DEF Kept, Entry

LEMMA ClosedIs ==
    ASSUME NEW x \in Entry
    PROVE  /\ Closed(x) \in Entry /\ ~Closed(x).open
           /\ Closed(x).grant = x.grant /\ Closed(x).inFlight = x.inFlight
           /\ Closed(x).streams = {}
BY DEF Closed, Entry

\* closing a grant's entry, given the one a request has just left as x.
LEMMA CloseStep ==
    ASSUME IInv, NEW r \in Reqs, req[r].at \in {"call", "listen"},
           NEW e \in Entries, req[r].on = e, NEW x \in Entry,
           req' = [req EXCEPT ![r] = NoRequest],
           x.grant = entry[e].grant, x.open = entry[e].open,
           x.inFlight = Cardinality(Calls(e)'),
           x.streams = IF x.open THEN Listens(e)' ELSE {},
           CloseIfRevoked(r, x), session' = session, denied' = denied
    PROVE  IInv'
<1>n. x # None /\ \A z \in Entries : z # None
    BY NoneIsNothing
<1>0. /\ TypeOK /\ RequestsServed /\ Registered
      /\ entry[e] # None /\ entry[e] \in Entry /\ entry[e].grant = req[r].grant
      /\ x.grant \in Grants
    BY Accounted DEF IInv, RequestsServed, Served, TypeOK, Entry
<1>1. InUse(e, Reqs \ {r}) \in BOOLEAN
    BY DEF InUse
<1>2. Closed(x) \in Entry /\ Closed(x) # None /\ ~Closed(x).open
      /\ Closed(x).grant = x.grant /\ Closed(x).inFlight = x.inFlight /\ Closed(x).streams = {}
    BY ClosedIs, NoneIsNothing
<1>3. \A z \in Entry : Kept(z, InUse(e, Reqs \ {r})) = None =>
         \A q \in Reqs : req'[q].at \in {"call", "listen"} => req'[q].on # e
  <2> SUFFICES ASSUME ~InUse(e, Reqs \ {r}), NEW q \in Reqs, req'[q].at \in {"call", "listen"}
               PROVE  req'[q].on # e
      BY <1>1, KeptIs
  <2>1. q # r
      BY <1>0 DEF TypeOK, NoRequest
  <2>2. req'[q] = req[q]
      BY <1>0, <2>1 DEF TypeOK
  <2> QED BY <2>1, <2>2 DEF InUse
<1>4. req' \in [Reqs -> Request] /\ \A q \in Reqs : req'[q] = req[q] \/ (req'[q] = NoRequest /\ req[q].on = e)
  <2>1. NoRequest \in Request
      BY DEF NoRequest, Request
  <2> QED BY <1>0, <2>1 DEF TypeOK
<1>5. CASE x.revoked /\ x.inFlight = 0 /\ slot[x.grant] = e
  <2> DEFINE z == Kept(Closed(x), InUse(e, Reqs \ {r}))
  <2>1. entry[e].open
      BY <1>n, <1>0, <1>5 DEF Registered
  <2>2. /\ entry' = [entry EXCEPT ![e] = z]
        /\ slot' = [slot EXCEPT ![x.grant] = None]
        /\ idle' = idle \ {e}
      BY <1>5 DEF CloseIfRevoked
  <2>3. z \in {Closed(x), None} /\ z \in Entry \cup {None}
      BY <1>1, <1>2, KeptIs
  <2>4. z = None => \A q \in Reqs : req'[q].at \in {"call", "listen"} => req'[q].on # e
      BY <1>2, <1>3
  <2> HIDE DEF z
  <2>5. denied \subseteq Grants
      BY <1>0 DEF TypeOK
  <2>6. z # None => /\ ~z.open /\ z.grant = entry[e].grant
                     /\ z.inFlight = Cardinality(Calls(e)') /\ z.streams = {}
      BY <1>2, <2>3
  <2>7. slot' = [slot EXCEPT ![entry[e].grant] = None] /\ (z = None \/ ~z.open)
      BY <2>2, <2>6
  <2>8. idle' \subseteq idle /\ denied' \subseteq Grants
      BY <2>2, <2>5
  <2> QED BY <1>0, <1>4, <2>1, <2>2, <2>3, <2>4, <2>6, <2>7, <2>8, EntryChanges
<1>6. CASE ~(x.revoked /\ x.inFlight = 0 /\ slot[x.grant] = e)
  <2> DEFINE z == Kept(x, InUse(e, Reqs \ {r}))
  <2>1. /\ entry' = [entry EXCEPT ![e] = z]
        /\ slot' = slot /\ idle' = idle
      BY <1>6 DEF CloseIfRevoked
  <2>2. z \in {x, None} /\ z \in Entry \cup {None} /\ (z = None => ~x.open)
      BY <1>1, KeptIs
  <2>3. z = None => \A q \in Reqs : req'[q].at \in {"call", "listen"} => req'[q].on # e
      BY <1>3
  <2> HIDE DEF z
  <2>4. denied \subseteq Grants
      BY <1>0 DEF TypeOK
  <2>5. z # None => /\ z = x /\ z.grant = entry[e].grant
                     /\ z.inFlight = Cardinality(Calls(e)')
                     /\ z.streams = IF z.open THEN Listens(e)' ELSE {}
      BY <2>2
  <2>6. slot' = IF entry[e].open /\ (z = None \/ ~z.open)
                 THEN [slot EXCEPT ![entry[e].grant] = None] ELSE slot
      BY <1>n, <2>1, <2>2, <2>5
  <2>7. z # None /\ z.open => entry[e].open
      BY <2>2
  <2>8. idle' \subseteq idle /\ denied' \subseteq Grants
      BY <2>1, <2>4
  <2> QED BY <1>0, <1>4, <2>1, <2>2, <2>3, <2>5, <2>6, <2>7, <2>8, EntryChanges
<1> QED BY <1>5, <1>6

\* A call or a stream leaves its entry.
LEMMA EndsStep ==
    ASSUME IInv, NEW r \in Reqs, CallEnds(r) \/ ListenEnds(r)
    PROVE  IInv'
<1>0. /\ TypeOK /\ RequestsServed /\ Counted /\ req[r].at \in {"call", "listen"}
      /\ req' = [req EXCEPT ![r] = NoRequest] /\ session' = session /\ denied' = denied
    BY Accounted DEF IInv, CallEnds, ListenEnds
<1>1. PICK e \in Entries : req[r].on = e
    BY <1>0 DEF RequestsServed, Served
<1>2. entry[e] # None /\ entry[e] \in Entry
    BY <1>0, <1>1 DEF RequestsServed, Served, TypeOK
<1>3. req'[r] = NoRequest /\ \A q \in Reqs : q # r => req'[q] = req[q]
    BY <1>0 DEF TypeOK
<1>4. Calls(e)' = Calls(e) \ {r} /\ Listens(e)' = Listens(e) \ {r}
    BY <1>3 DEF Calls, Listens, NoRequest
<1>5. Calls(e) \in SUBSET Reqs
    BY DEF Calls
<1>6. CASE CallEnds(r)
  <2> DEFINE x == [entry[e] EXCEPT !.inFlight = @ - 1]
  <2>1. r \in Calls(e) /\ r \notin Listens(e)
      BY <1>1, <1>6 DEF CallEnds, Calls, Listens
  <2>2. /\ entry[e].inFlight = Cardinality(Calls(e)) /\ entry[e].inFlight \in Nat
        /\ Cardinality(Calls(e)') = Cardinality(Calls(e)) - 1
        /\ Cardinality(Calls(e)') \in Nat
    <3>1. Calls(e)' \in SUBSET Reqs
        BY <1>4, <1>5
    <3> QED BY <1>0, <1>2, <1>4, <1>5, <2>1, <3>1, Counting DEF Counted, Entry
  <2>3. /\ x \in Entry /\ x.grant = entry[e].grant /\ x.open = entry[e].open
        /\ x.inFlight = Cardinality(Calls(e)') /\ x.streams = entry[e].streams
      BY <1>2, <2>2 DEF Entry
  <2>4. entry[e].streams = IF entry[e].open THEN Listens(e)' ELSE {}
      BY <1>0, <1>2, <1>4, <2>1 DEF Counted
  <2>5. CloseIfRevoked(r, x)
      BY <1>1, <1>6 DEF CallEnds
  <2> HIDE DEF x
  <2> QED BY <1>0, <1>1, <2>3, <2>4, <2>5, CloseStep
<1>7. CASE ListenEnds(r)
  <2> DEFINE x == [entry[e] EXCEPT !.streams = @ \ {r}]
  <2>1. r \notin Calls(e)
      BY <1>7 DEF ListenEnds, Calls
  <2>2. entry[e].inFlight = Cardinality(Calls(e)')
      BY <1>0, <1>2, <1>4, <2>1 DEF Counted
  <2>3. /\ x \in Entry /\ x.grant = entry[e].grant /\ x.open = entry[e].open
        /\ x.inFlight = Cardinality(Calls(e)') /\ x.streams = entry[e].streams \ {r}
      BY <1>2, <2>2 DEF Entry
  <2>4. entry[e].streams \ {r} = IF entry[e].open THEN Listens(e)' ELSE {}
      BY <1>0, <1>2, <1>4 DEF Counted
  <2>5. CloseIfRevoked(r, x)
      BY <1>1, <1>7 DEF ListenEnds
  <2> HIDE DEF x
  <2> QED BY <1>0, <1>1, <2>3, <2>4, <2>5, CloseStep
<1> QED BY <1>6, <1>7

-----------------------------------------------------------------------------
(* An entry changes on its own: a check, a refusal, the sweep.             *)

\* Entry e becomes y with no request ending.
LEMMA EntryAlone ==
    ASSUME IInv, NEW e \in Entries, entry[e] # None, NEW y \in Entry \cup {None},
           entry' = [entry EXCEPT ![e] = y],
           y = None => ~InUse(e, Reqs),
           y # None => /\ y.grant = entry[e].grant
                       /\ y.inFlight = entry[e].inFlight
                       /\ y.streams = IF y.open THEN entry[e].streams ELSE {},
           y # None /\ y.open => entry[e].open,
           slot' = IF entry[e].open /\ (y = None \/ ~y.open)
                     THEN [slot EXCEPT ![entry[e].grant] = None] ELSE slot,
           req' = req, idle' \subseteq idle, denied' \subseteq Grants, session' = session
    PROVE  IInv'
<1>0. TypeOK /\ Counted
    BY Accounted DEF IInv
<1>1. Calls(e)' = Calls(e) /\ Listens(e)' = Listens(e)
    BY DEF Calls, Listens
<1>2. y # None => /\ y.inFlight = Cardinality(Calls(e)')
                  /\ y.streams = IF y.open THEN Listens(e)' ELSE {}
    BY <1>0, <1>1 DEF Counted
<1>3. y = None => \A q \in Reqs : req'[q].at \in {"call", "listen"} => req'[q].on # e
    BY DEF InUse
<1>4. req' \in [Reqs -> Request] /\ \A q \in Reqs : req'[q] = req[q]
    BY <1>0 DEF TypeOK
<1> QED BY <1>2, <1>3, <1>4, EntryChanges

LEMMA CheckStep ==
    ASSUME IInv, NEW e \in Entries, Check(e)
    PROVE  IInv'
<1> DEFINE y == [entry[e] EXCEPT !.checking = TRUE]
<1>0. TypeOK /\ entry[e] # None /\ entry[e] \in Entry /\ denied \subseteq Grants /\ Counted
    BY Accounted DEF IInv, TypeOK, Check
<1>1. /\ y \in Entry /\ y.grant = entry[e].grant /\ y.inFlight = entry[e].inFlight
      /\ y.streams = entry[e].streams /\ y.open = entry[e].open
    BY <1>0 DEF Entry
<1>2. y # None /\ (~entry[e].open => entry[e].streams = {})
    BY <1>0, <1>1, NoneIsNothing DEF Counted
<1>3. entry' = [entry EXCEPT ![e] = y] /\ UNCHANGED <<req, slot, session, idle, denied>>
    BY DEF Check
<1> HIDE DEF y
<1> QED BY <1>0, <1>1, <1>2, <1>3, EntryAlone

LEMMA CheckEndsStep ==
    ASSUME IInv, NEW e \in Entries, CheckEnds(e)
    PROVE  IInv'
<1> DEFINE x == [entry[e] EXCEPT !.checking = FALSE]
<1>0. TypeOK /\ entry[e] # None /\ entry[e] \in Entry /\ denied \subseteq Grants /\ Counted
    BY Accounted DEF IInv, TypeOK, CheckEnds
<1>1. PICK b \in BOOLEAN : /\ entry' = [entry EXCEPT ![e] = Kept([x EXCEPT !.revoked = b], InUse(e, Reqs))]
                           /\ denied' \subseteq Grants
  <2>1. x \in Entry /\ x.grant \in Grants
      BY <1>0 DEF Entry
  <2>2. [x EXCEPT !.revoked = x.revoked] = x /\ x.revoked \in BOOLEAN
      BY <2>1 DEF Entry
  <2>3. CASE entry' = [entry EXCEPT ![e] = Kept(x, InUse(e, Reqs))] /\ UNCHANGED denied
      BY <1>0, <2>2, <2>3
  <2>4. CASE /\ entry' = [entry EXCEPT ![e] = Kept([x EXCEPT !.revoked = TRUE], InUse(e, Reqs))]
             /\ denied' = denied \cup {x.grant}
      BY <1>0, <2>1, <2>4
  <2> QED BY <2>3, <2>4 DEF CheckEnds
<1> DEFINE z == [x EXCEPT !.revoked = b]
           y == Kept(z, InUse(e, Reqs))
<1>2. /\ z \in Entry /\ z.grant = entry[e].grant /\ z.inFlight = entry[e].inFlight
      /\ z.streams = entry[e].streams /\ z.open = entry[e].open
    BY <1>0 DEF Entry
<1>3. ~entry[e].open => entry[e].streams = {}
    BY <1>0 DEF Counted
<1>4. y \in {z, None} /\ (y = None => ~InUse(e, Reqs) /\ ~z.open)
  <2>1. InUse(e, Reqs) \in BOOLEAN
      BY DEF InUse
  <2> QED BY <1>2, <2>1, KeptIs
<1>5. entry' = [entry EXCEPT ![e] = y] /\ UNCHANGED <<req, slot, session, idle>>
    BY <1>1 DEF CheckEnds
<1>6. z # None
    BY <1>2, NoneIsNothing
<1> HIDE DEF y, z
<1>7. slot' = IF entry[e].open /\ (y = None \/ ~y.open)
               THEN [slot EXCEPT ![entry[e].grant] = None] ELSE slot
    BY <1>2, <1>4, <1>5, <1>6
<1>8. y # None => /\ y.grant = entry[e].grant
                  /\ y.inFlight = entry[e].inFlight
                  /\ y.streams = IF y.open THEN entry[e].streams ELSE {}
    BY <1>2, <1>3, <1>4
<1> QED BY <1>0, <1>1, <1>2, <1>4, <1>5, <1>7, <1>8, EntryAlone

LEMMA EntryUnauthorizedStep ==
    ASSUME IInv, NEW r \in Reqs, EntryUnauthorized(r)
    PROVE  IInv'
<1>0. TypeOK /\ Counted /\ denied \subseteq Grants
    BY Accounted DEF IInv, TypeOK
<1>1. PICK e \in Entries : req[r].on = e /\ entry[e] # None /\ entry[e] \in Entry
    BY <1>0 DEF EntryUnauthorized, IInv, RequestsServed, Served, TypeOK
<1> DEFINE y == [entry[e] EXCEPT !.revoked = TRUE]
<1>2. /\ y \in Entry /\ y.grant = entry[e].grant /\ y.inFlight = entry[e].inFlight
      /\ y.streams = entry[e].streams /\ y.open = entry[e].open
    BY <1>1 DEF Entry
<1>3. y # None /\ (~entry[e].open => entry[e].streams = {})
    BY <1>0, <1>1, <1>2, NoneIsNothing DEF Counted
<1>4. entry' = [entry EXCEPT ![e] = y] /\ UNCHANGED <<req, slot, session, idle>>
    BY <1>1 DEF EntryUnauthorized
<1>5. denied' \subseteq Grants
    BY <1>0, <1>1 DEF EntryUnauthorized, Entry
<1> HIDE DEF y
<1> QED BY <1>1, <1>2, <1>3, <1>4, <1>5, EntryAlone

LEMMA SweepEntryStep ==
    ASSUME IInv, NEW g \in Grants, SweepEntry(g)
    PROVE  IInv'
<1>0. TypeOK /\ Registered /\ denied \subseteq Grants
    BY Accounted DEF IInv, TypeOK
<1>1. PICK e \in Entries : slot[g] = e
    BY <1>0 DEF SweepEntry, TypeOK
<1>2. slot[g] # None /\ entry[e] # None /\ entry[e].open /\ entry[e].grant = g /\ entry[e] \in Entry
    BY <1>0, <1>1 DEF SweepEntry, Registered, TypeOK
<1> DEFINE y == Kept(Closed(entry[e]), InUse(e, Reqs))
<1>3. InUse(e, Reqs) \in BOOLEAN
    BY DEF InUse
<1>4. /\ Closed(entry[e]) \in Entry /\ ~Closed(entry[e]).open
      /\ Closed(entry[e]).grant = g /\ Closed(entry[e]).inFlight = entry[e].inFlight
      /\ Closed(entry[e]).streams = {}
    BY <1>2, ClosedIs
<1>5. y \in {Closed(entry[e]), None} /\ (y = None => ~InUse(e, Reqs))
    BY <1>3, <1>4, KeptIs
<1>6. /\ entry' = [entry EXCEPT ![e] = y]
      /\ slot' = [slot EXCEPT ![g] = None]
      /\ idle' = idle \ {e} /\ UNCHANGED <<req, session, denied>>
    BY <1>1 DEF SweepEntry
<1> HIDE DEF y
<1>7. y # None => y.grant = entry[e].grant /\ y.inFlight = entry[e].inFlight /\ y.streams = {} /\ ~y.open
    BY <1>2, <1>4, <1>5
<1>8. y \in Entry \cup {None} /\ idle' \subseteq idle /\ denied' \subseteq Grants
    BY <1>0, <1>4, <1>5, <1>6
<1>9. slot' = [slot EXCEPT ![entry[e].grant] = None] /\ (y = None \/ ~y.open)
    BY <1>2, <1>6, <1>7
<1> QED BY <1>2, <1>5, <1>6, <1>7, <1>8, <1>9, EntryAlone

-----------------------------------------------------------------------------
(* Steps that touch no entry.                                              *)

LEMMA Aside ==
    ASSUME IInv, UNCHANGED <<entry, slot>>,
           req' \in [Reqs -> Request], session' \in [Sessions -> Session \cup {None}],
           idle' \subseteq Entries \cup Sessions, denied' \subseteq Grants,
           \A s \in Sessions : session'[s] # None =>
              /\ Owner[session'[s].grant] = session'[s].owner
              /\ session'[s].writes => session'[s].grant \in Writers,
           \A q \in Reqs : req[q].at = "session" /\ req'[q] = req[q] =>
              session'[req[q].on] # None /\ session'[req[q].on].owner = session[req[q].on].owner,
           \A q \in Reqs : req'[q] = req[q] \/
              /\ req[q].at \notin {"call", "listen"} /\ req'[q].at \notin {"call", "listen"}
              /\ Served(q)'
              /\ req'[q].at = "session" => Owner[req'[q].grant] = session'[req'[q].on].owner
    PROVE  IInv'
<1>0. TypeOK /\ RequestsServed /\ EntriesAccounted /\ SessionsOfOneUser
    BY DEF IInv
<1>1. TypeOK'
    BY <1>0 DEF TypeOK
<1>2. EntriesAccounted'
  <2>1. Elsewhere
      BY DEF Elsewhere
  <2> QED BY <1>0, <2>1, EntriesUntouched
<1>3. RequestsServed'
  <2> SUFFICES ASSUME NEW q \in Reqs, req'[q] = req[q] PROVE Served(q)'
      BY DEF RequestsServed
  <2>1. Served(q)
      BY <1>0 DEF RequestsServed
  <2> QED BY <2>1 DEF Served
<1>4. SessionsOfOneUser'
    BY <1>0 DEF SessionsOfOneUser
<1> QED BY <1>1, <1>2, <1>3, <1>4 DEF IInv

\* The same when the sessions stay too.
LEMMA RequestAside ==
    ASSUME IInv, UNCHANGED <<entry, slot, session>>,
           NEW r \in Reqs, NEW v \in Request, req' = [req EXCEPT ![r] = v],
           req[r].at \notin {"call", "listen"}, v.at \notin {"call", "listen"},
           v.at = "idle" => v = NoRequest,
           v.at = "verified" => v.grant \in Grants /\ v.on = None /\ v.sent = None,
           v.at = "session" => req[r].at = "session" /\ v.on = req[r].on /\ v.grant = req[r].grant,
           idle' \subseteq Entries \cup Sessions, denied' \subseteq Grants
    PROVE  IInv'
<1>0. TypeOK /\ RequestsServed /\ SessionsOfOneUser
    BY DEF IInv
<1>1. req' \in [Reqs -> Request] /\ req'[r] = v /\ \A q \in Reqs : q # r => req'[q] = req[q]
    BY <1>0 DEF TypeOK
<1>2. v.at \in {"idle", "verified", "session"}
    BY DEF Request
<1>3. Served(r)' /\ (v.at = "session" => Owner[v.grant] = session'[v.on].owner)
  <2>1. CASE v.at = "idle"
      BY <1>1, <2>1 DEF Served, NoRequest
  <2>2. CASE v.at = "verified"
      BY <1>1, <2>2 DEF Served
  <2>3. CASE v.at = "session"
    <3>1. /\ req[r].on \in Sessions /\ session[req[r].on] # None /\ req[r].grant \in Grants
          /\ Owner[req[r].grant] = session[req[r].on].owner
        BY <1>0, <2>3 DEF RequestsServed, Served, SessionsOfOneUser
    <3> QED BY <1>1, <2>3, <3>1 DEF Served
  <2> QED BY <1>2, <2>1, <2>2, <2>3
<1>4. /\ session' \in [Sessions -> Session \cup {None}]
      /\ \A s \in Sessions : session'[s] # None =>
              /\ Owner[session'[s].grant] = session'[s].owner
              /\ session'[s].writes => session'[s].grant \in Writers
    BY <1>0 DEF TypeOK, SessionsOfOneUser
<1>5. \A q \in Reqs : req[q].at = "session" /\ req'[q] = req[q] =>
          session'[req[q].on] # None /\ session'[req[q].on].owner = session[req[q].on].owner
    BY <1>0 DEF RequestsServed, Served
<1> QED BY <1>1, <1>3, <1>4, <1>5, Aside

\* Arrivals, refusals of the body, and what passes between a session and Zendesk.
LEMMA RequestStep ==
    ASSUME IInv, NEW r \in Reqs,
           \/ \E g \in Grants : Verify(r, g)
           \/ Reject(r) \/ Send(r) \/ Answered(r) \/ SessionUnauthorized(r)
    PROVE  IInv'
<1>0. /\ TypeOK /\ RequestsServed /\ req[r] \in Request /\ Served(r)
      /\ idle \subseteq Entries \cup Sessions /\ denied \subseteq Grants
      /\ NoRequest \in Request
    BY DEF IInv, TypeOK, RequestsServed, NoRequest, Request
<1>1. CASE \E g \in Grants : Verify(r, g)
  <2> PICK g \in Grants : Verify(r, g)
      BY <1>1
  <2> DEFINE v == [NoRequest EXCEPT !.at = "verified", !.grant = g]
  <2>1. v \in Request /\ v.at = "verified" /\ v.grant = g /\ v.on = None /\ v.sent = None
      BY DEF NoRequest, Request
  <2>2. req[r].at = "idle" /\ req' = [req EXCEPT ![r] = v] /\ UNCHANGED <<entry, slot, session, idle, denied>>
      BY DEF Verify
  <2> HIDE DEF v
  <2> QED BY <1>0, <2>1, <2>2, RequestAside
<1>2. CASE Reject(r)
  <2>1. NoRequest.at = "idle"
      BY DEF NoRequest
  <2>2. /\ req[r].at = "verified" /\ req' = [req EXCEPT ![r] = NoRequest]
        /\ UNCHANGED <<entry, slot, session, idle, denied>>
      BY <1>2 DEF Reject
  <2> QED BY <1>0, <2>1, <2>2, RequestAside
<1>3. CASE Send(r)
  <2> DEFINE s == req[r].on
             v == [req[r] EXCEPT !.sent = session[s].grant]
  <2>1. req[r].at = "session" /\ s \in Sessions /\ session[s] # None
      BY <1>0, <1>3 DEF Send, Served
  <2>2. session[s].grant \in Grants
      BY <1>0, <2>1 DEF TypeOK, Session
  <2>3. v \in Request /\ v.at = "session" /\ v.on = s /\ v.grant = req[r].grant
      BY <1>0, <2>1, <2>2 DEF Request
  <2>4. req' = [req EXCEPT ![r] = v] /\ UNCHANGED <<entry, slot, session, idle, denied>>
      BY <1>3 DEF Send
  <2> HIDE DEF v
  <2> QED BY <1>0, <2>1, <2>3, <2>4, RequestAside
<1>4. CASE Answered(r) \/ SessionUnauthorized(r)
  <2> DEFINE s == req[r].on
             v == [req[r] EXCEPT !.sent = None]
  <2>1. req[r].at = "session" /\ s \in Sessions /\ session[s] # None
      BY <1>0, <1>4 DEF Answered, SessionUnauthorized, Served
  <2>2. session[s].grant \in Grants
      BY <1>0, <2>1 DEF TypeOK, Session
  <2>3. v \in Request /\ v.at = "session" /\ v.on = s /\ v.grant = req[r].grant
      BY <1>0, <2>1 DEF Request
  <2>4. /\ req' = [req EXCEPT ![r] = v] /\ UNCHANGED <<entry, slot, session, idle>>
        /\ denied' \subseteq Grants
      BY <1>0, <1>4, <2>2 DEF Answered, SessionUnauthorized
  <2> HIDE DEF v
  <2> QED BY <1>0, <2>1, <2>3, <2>4, RequestAside
<1> QED BY <1>1, <1>2, <1>3, <1>4

\* A request enters a session, which takes its token, or begins one.
LEMMA SessionServes ==
    ASSUME IInv, NEW r \in Reqs, NEW s \in Sessions, Dispatch(r, s) \/ Open(r, s)
    PROVE  IInv'
<1> DEFINE g == req[r].grant
<1>0. /\ TypeOK /\ RequestsServed /\ SessionsOfOneUser /\ Served(r) /\ req[r] \in Request
      /\ req[r].at = "verified" /\ g \in Grants /\ req[r].sent = None
    BY DEF IInv, TypeOK, RequestsServed, Served, Dispatch, Open
<1>1. Owner[g] \in Users /\ \A z \in Session : z # None
    BY <1>0, NoneIsNothing
<1>2. req' = [req EXCEPT ![r].at = "session", ![r].on = s]
    BY DEF Dispatch, Open
<1>3. /\ req' \in [Reqs -> Request]
      /\ req'[r].at = "session" /\ req'[r].on = s /\ req'[r].grant = g /\ req'[r].sent = None
      /\ \A q \in Reqs : q # r => req'[q] = req[q]
    BY <1>0, <1>2 DEF TypeOK, Request
<1>4. PICK z \in Session : /\ session' = [session EXCEPT ![s] = z]
                           /\ z.owner = Owner[g] /\ z.grant = g
                           /\ z.writes => g \in Writers
                           /\ session[s] # None => z.owner = session[s].owner
  <2>1. CASE Dispatch(r, s)
    <3> DEFINE z == [session[s] EXCEPT !.grant = g]
    <3>1. session[s] # None /\ session[s].owner = Owner[g] /\ (session[s].writes => g \in Writers)
        BY <2>1 DEF Dispatch, MayDrive
    <3>2. session[s] \in Session
        BY <1>0, <3>1 DEF TypeOK
    <3>3. z \in Session /\ z.owner = Owner[g] /\ z.grant = g /\ z.writes = session[s].writes
        BY <1>0, <3>1, <3>2 DEF Session
    <3>4. session' = [session EXCEPT ![s] = z]
        BY <2>1 DEF Dispatch
    <3> HIDE DEF z
    <3> QED BY <3>1, <3>3, <3>4
  <2>2. CASE Open(r, s)
    <3> DEFINE z == [open |-> TRUE, owner |-> Owner[g], grant |-> g, writes |-> g \in Writers]
    <3>1. (g \in Writers) \in BOOLEAN
        OBVIOUS
    <3>2. z \in Session
        BY <1>0, <1>1, <3>1 DEF Session
    <3>3. z.owner = Owner[g] /\ z.grant = g /\ z.writes = (g \in Writers)
        OBVIOUS
    <3>4. session[s] = None /\ session' = [session EXCEPT ![s] = z]
        BY <2>2 DEF Open
    <3> HIDE DEF z
    <3> QED BY <3>2, <3>3, <3>4
  <2> QED BY <2>1, <2>2
<1>5. session'[s] = z /\ \A t \in Sessions : t # s => session'[t] = session[t]
    BY <1>0, <1>4 DEF TypeOK
<1>6. /\ UNCHANGED <<entry, slot>> /\ idle' \subseteq Entries \cup Sessions /\ denied' \subseteq Grants
      /\ session' \in [Sessions -> Session \cup {None}]
    BY <1>0, <1>4 DEF TypeOK, Dispatch, Open
<1>7. \A t \in Sessions : session'[t] # None =>
          /\ Owner[session'[t].grant] = session'[t].owner
          /\ session'[t].writes => session'[t].grant \in Writers
    BY <1>0, <1>4, <1>5 DEF SessionsOfOneUser
<1>8. \A q \in Reqs : req[q].at = "session" /\ req'[q] = req[q] =>
          session'[req[q].on] # None /\ session'[req[q].on].owner = session[req[q].on].owner
    BY <1>0, <1>1, <1>4, <1>5 DEF RequestsServed, Served
<1>9. Served(r)' /\ Owner[req'[r].grant] = session'[req'[r].on].owner
    BY <1>0, <1>1, <1>3, <1>4, <1>5 DEF Served
<1> QED BY <1>0, <1>3, <1>6, <1>7, <1>8, <1>9, Aside

\* A session closed is kept while a call runs in it.
LEMMA RetiredIs ==
    ASSUME TypeOK, NEW s \in Sessions, session[s] # None, NEW R \in SUBSET Reqs
    PROVE  \/ Retired(s, R) = None /\ \A q \in R : req[q].on # s
           \/ /\ Retired(s, R) \in Session
              /\ Retired(s, R).owner = session[s].owner
              /\ Retired(s, R).grant = session[s].grant
              /\ Retired(s, R).writes = session[s].writes
<1>1. session[s] \in Session
    BY DEF TypeOK
<1> QED BY <1>1 DEF Retired, InUse, Session

\* A call of a session ends, or the sweep closes one.
LEMMA SessionEnds ==
    ASSUME IInv, NEW s \in Sessions, session[s] # None, NEW R \in SUBSET Reqs,
           session' = session \/ session' = [session EXCEPT ![s] = Retired(s, R)],
           req' \in [Reqs -> Request],
           \A q \in Reqs : IF q \in R THEN req'[q] = req[q]
                           ELSE req[q].at = "session" /\ req'[q] = NoRequest,
           idle' \subseteq idle, UNCHANGED <<entry, slot, denied>>
    PROVE  IInv'
<1>0. TypeOK /\ RequestsServed /\ SessionsOfOneUser
    BY DEF IInv
<1>n. \A z \in Session : z # None
    BY NoneIsNothing
<1>1. \A t \in Sessions : t # s => session'[t] = session[t]
    BY <1>0 DEF TypeOK
<1>2. \/ session'[s] = None /\ \A q \in R : req[q].on # s
      \/ /\ session'[s] \in Session
         /\ session'[s].owner = session[s].owner
         /\ session'[s].grant = session[s].grant
         /\ session'[s].writes = session[s].writes
  <2>1. CASE session' = session
      BY <1>0, <2>1 DEF TypeOK
  <2>2. CASE session' = [session EXCEPT ![s] = Retired(s, R)]
    <3>1. session'[s] = Retired(s, R)
        BY <1>0, <2>2 DEF TypeOK
    <3> QED BY <1>0, <3>1, RetiredIs
  <2> QED BY <2>1, <2>2
<1>3. session' \in [Sessions -> Session \cup {None}]
  <2>1. session'[s] \in Session \cup {None}
      BY <1>2
  <2> QED BY <1>0, <2>1 DEF TypeOK
<1>4. \A t \in Sessions : session'[t] # None =>
          /\ Owner[session'[t].grant] = session'[t].owner
          /\ session'[t].writes => session'[t].grant \in Writers
    BY <1>0, <1>1, <1>2 DEF SessionsOfOneUser
<1>5. ASSUME NEW q \in Reqs, req[q].at = "session", req'[q] = req[q]
      PROVE  session'[req[q].on] # None /\ session'[req[q].on].owner = session[req[q].on].owner
  <2>1. q \in R
      BY <1>5 DEF NoRequest
  <2>2. req[q].on \in Sessions /\ session[req[q].on] # None
      BY <1>0, <1>5 DEF RequestsServed, Served
  <2> QED BY <1>n, <1>1, <1>2, <2>1, <2>2
<1>6. ASSUME NEW q \in Reqs
      PROVE  req'[q] = req[q] \/
              /\ req[q].at \notin {"call", "listen"} /\ req'[q].at \notin {"call", "listen"}
              /\ Served(q)'
              /\ req'[q].at = "session" => Owner[req'[q].grant] = session'[req'[q].on].owner
    BY DEF Served, NoRequest
<1>7. idle' \subseteq Entries \cup Sessions /\ denied' \subseteq Grants
    BY <1>0 DEF TypeOK
<1> QED BY <1>3, <1>4, <1>5, <1>6, <1>7, Aside

LEMMA SessionCallEndsStep ==
    ASSUME IInv, NEW r \in Reqs, SessionCallEnds(r)
    PROVE  IInv'
<1> DEFINE s == req[r].on
           R == Reqs \ {r}
<1>0. /\ TypeOK /\ req[r].at = "session" /\ s \in Sessions /\ session[s] # None
      /\ NoRequest \in Request
    BY DEF SessionCallEnds, IInv, RequestsServed, Served, NoRequest, Request
<1>1. /\ req' = [req EXCEPT ![r] = NoRequest] /\ UNCHANGED <<entry, slot, denied>>
      /\ idle' \subseteq idle
    BY DEF SessionCallEnds
<1>2. /\ req' \in [Reqs -> Request]
      /\ \A q \in Reqs : IF q \in R THEN req'[q] = req[q]
                         ELSE req[q].at = "session" /\ req'[q] = NoRequest
    BY <1>0, <1>1 DEF TypeOK
<1>3. session' = session \/ session' = [session EXCEPT ![s] = Retired(s, R)]
  <2>1. session = [session EXCEPT ![s] = session[s]]
      BY <1>0 DEF TypeOK
  <2> QED BY <2>1 DEF SessionCallEnds
<1> QED BY <1>0, <1>1, <1>2, <1>3, SessionEnds

\* Time, the sweep of a session, and the ends the transport is not told of.
LEMMA QuietStep ==
    ASSUME IInv, \/ \E s \in Sessions : SweepSession(s)
                 \/ \E g \in Grants : ProviderEnds(g)
                 \/ \E x \in Entries \cup Sessions : Elapse(x)
    PROVE  IInv'
<1>0. TypeOK /\ req \in [Reqs -> Request] /\ \A q \in Reqs : req'[q] = req[q]
    BY DEF IInv, TypeOK, SweepSession, ProviderEnds, Elapse
<1>1. CASE \E s \in Sessions : SweepSession(s)
  <2> PICK s \in Sessions : SweepSession(s)
      BY <1>1
  <2>1. /\ session[s] # None /\ session' = [session EXCEPT ![s] = Retired(s, Reqs)]
        /\ idle' \subseteq idle /\ UNCHANGED <<req, entry, slot, denied>>
      BY DEF SweepSession
  <2> QED BY <1>0, <2>1, SessionEnds
<1>2. CASE (\E g \in Grants : ProviderEnds(g)) \/ \E x \in Entries \cup Sessions : Elapse(x)
  <2>1. /\ UNCHANGED <<req, entry, slot, session>>
        /\ idle' \subseteq Entries \cup Sessions /\ denied' \subseteq Grants
      BY <1>0, <1>2 DEF ProviderEnds, Elapse, TypeOK
  <2>2. /\ session' \in [Sessions -> Session \cup {None}]
        /\ \A s \in Sessions : session'[s] # None =>
              /\ Owner[session'[s].grant] = session'[s].owner
              /\ session'[s].writes => session'[s].grant \in Writers
        /\ \A q \in Reqs : req[q].at = "session" => session'[req[q].on] # None
      BY <1>0, <2>1 DEF IInv, TypeOK, SessionsOfOneUser, RequestsServed, Served
  <2> QED BY <1>0, <2>1, <2>2, Aside
<1> QED BY <1>1, <1>2

-----------------------------------------------------------------------------
(* The theorems.                                                           *)

LEMMA InitIInv == Init => IInv
<1> SUFFICES ASSUME Init PROVE IInv
    OBVIOUS
<1>1. TypeOK
  <2>1. NoRequest \in Request
      BY DEF NoRequest, Request
  <2> QED BY <2>1 DEF Init, TypeOK
<1>2. RequestsServed
    BY DEF Init, RequestsServed, Served, NoRequest
<1>3. EntriesAccounted
    BY DEF Init, EntriesAccounted
<1>4. SessionsOfOneUser
    BY DEF Init, SessionsOfOneUser, NoRequest
<1> QED BY <1>1, <1>2, <1>3, <1>4 DEF IInv

LEMMA StepIInv == IInv /\ [Next]_vars => IInv'
<1> SUFFICES ASSUME IInv, [Next]_vars PROVE IInv'
    OBVIOUS
<1>1. ASSUME NEW r \in Reqs, \/ \E g \in Grants : Verify(r, g)
                             \/ Reject(r) \/ Send(r) \/ Answered(r) \/ SessionUnauthorized(r)
      PROVE  IInv'
    BY <1>1, RequestStep
<1>2. ASSUME NEW r \in Reqs, Ends(r) \/ EntryUnauthorized(r)
      PROVE  IInv'
    BY <1>2, EndsStep, SessionCallEndsStep, EntryUnauthorizedStep DEF Ends
<1>3. ASSUME NEW r \in Reqs, NEW e \in Entries, Serve(r, e)
      PROVE  IInv'
    BY <1>3, ServeStep
<1>4. ASSUME NEW r \in Reqs, NEW s \in Sessions, Dispatch(r, s) \/ Open(r, s)
      PROVE  IInv'
    BY <1>4, SessionServes
<1>5. ASSUME NEW e \in Entries, Check(e) \/ CheckEnds(e)
      PROVE  IInv'
    BY <1>5, CheckStep, CheckEndsStep
<1>6. ASSUME NEW g \in Grants, SweepEntry(g)
      PROVE  IInv'
    BY <1>6, SweepEntryStep
<1>7. CASE \/ \E s \in Sessions : SweepSession(s)
           \/ \E g \in Grants : ProviderEnds(g)
           \/ \E x \in Entries \cup Sessions : Elapse(x)
    BY <1>7, QuietStep
<1>8. CASE UNCHANGED vars
  <2>1. /\ UNCHANGED <<req, entry, slot, session, idle, denied>>
        /\ TypeOK /\ SessionsOfOneUser /\ RequestsServed
      BY <1>8 DEF vars, IInv
  <2>2. /\ req' \in [Reqs -> Request] /\ session' \in [Sessions -> Session \cup {None}]
        /\ idle' \subseteq Entries \cup Sessions /\ denied' \subseteq Grants
      BY <2>1 DEF TypeOK
  <2>3. /\ \A s \in Sessions : session'[s] # None =>
              /\ Owner[session'[s].grant] = session'[s].owner
              /\ session'[s].writes => session'[s].grant \in Writers
        /\ \A q \in Reqs : req[q].at = "session" => session'[req[q].on] # None
      BY <2>1 DEF SessionsOfOneUser, RequestsServed, Served
  <2> QED BY <2>1, <2>2, <2>3, Aside
<1> QED BY <1>1, <1>2, <1>3, <1>4, <1>5, <1>6, <1>7, <1>8 DEF Next

LEMMA Invariance == Spec => []IInv
BY InitIInv, StepIInv, PTL DEF Spec

\* Every variable of the transport keeps its type.
THEOREM TypeCorrect == Spec => []TypeOK
BY Invariance, PTL DEF IInv

\* grants.acquire, serveModern's counter and the listen feed: whatever order
\* requests begin and end in, the registry holds exactly the open entries and
\* each counts the requests it serves.
THEOREM Accounting == Spec => []EntriesAccounted
BY Invariance, PTL DEF IInv

\* dispatchToSession: a session acts for the user it was opened for, and never
\* offers write tools to a token without that scope.
THEOREM SessionsKeptApart == Spec => []SessionsOfOneUser
BY Invariance, PTL DEF IInv

\* The entry a request leaves is closed only if revoked, with no call left in it.
LEMMA ClosedByRequest ==
    ASSUME IInv, NEW r \in Reqs, CallEnds(r) \/ ListenEnds(r),
           NEW d \in Entries, entry[d] # None, entry[d].open, entry'[d] = None \/ ~entry'[d].open
    PROVE  entry[d].revoked /\ Calls(d)' = {}
<1>0. /\ TypeOK /\ RequestsServed /\ Counted /\ req[r].at \in {"call", "listen"}
      /\ req' = [req EXCEPT ![r] = NoRequest]
    BY Accounted DEF IInv, CallEnds, ListenEnds
<1>1. PICK e \in Entries : req[r].on = e
    BY <1>0 DEF RequestsServed, Served
<1>2. entry[e] # None /\ entry[e] \in Entry
    BY <1>0, <1>1 DEF RequestsServed, Served, TypeOK
<1>3. req'[r] = NoRequest /\ \A q \in Reqs : q # r => req'[q] = req[q]
    BY <1>0 DEF TypeOK
<1>4. Calls(e)' = Calls(e) \ {r} /\ Calls(e) \in SUBSET Reqs
    BY <1>3 DEF Calls, NoRequest
<1>5. Calls(e)' \in SUBSET Reqs
    BY <1>4
<1>6. PICK x \in Entry : /\ x.revoked = entry[e].revoked /\ x.open = entry[e].open
                         /\ x.inFlight = Cardinality(Calls(e)')
                         /\ CloseIfRevoked(r, x)
  <2>0. entry[e].inFlight = Cardinality(Calls(e)) /\ entry[e].inFlight \in Nat
      BY <1>0, <1>2 DEF Counted, Entry
  <2>1. CASE CallEnds(r)
    <3> DEFINE x == [entry[e] EXCEPT !.inFlight = @ - 1]
    <3>1. r \in Calls(e)
        BY <1>1, <2>1 DEF CallEnds, Calls
    <3>2. Cardinality(Calls(e)') = entry[e].inFlight - 1 /\ Cardinality(Calls(e)') \in Nat
        BY <1>4, <1>5, <2>0, <3>1, Counting
    <3>3. /\ x \in Entry /\ x.revoked = entry[e].revoked /\ x.open = entry[e].open
          /\ x.inFlight = Cardinality(Calls(e)')
        BY <1>2, <3>2 DEF Entry
    <3>4. CloseIfRevoked(r, x)
        BY <1>1, <2>1 DEF CallEnds
    <3> QED BY <3>3, <3>4
  <2>2. CASE ListenEnds(r)
    <3> DEFINE x == [entry[e] EXCEPT !.streams = @ \ {r}]
    <3>1. r \notin Calls(e)
        BY <2>2 DEF ListenEnds, Calls
    <3>2. Calls(e)' = Calls(e)
        BY <1>4, <3>1
    <3>3. /\ x \in Entry /\ x.revoked = entry[e].revoked /\ x.open = entry[e].open
          /\ x.inFlight = entry[e].inFlight
        BY <1>2 DEF Entry
    <3>4. CloseIfRevoked(r, x)
        BY <1>1, <2>2 DEF ListenEnds
    <3> QED BY <2>0, <3>2, <3>3, <3>4
  <2> QED BY <1>0, <2>1, <2>2
<1>7. d = e
  <2>1. d # e => entry'[d] = entry[d]
      BY <1>0, <1>1, <1>6 DEF CloseIfRevoked, TypeOK
  <2> QED BY <2>1
<1>8. CASE x.revoked /\ x.inFlight = 0
    BY <1>5, <1>6, <1>7, <1>8, Counting
<1>9. CASE ~(x.revoked /\ x.inFlight = 0)
  <2>1. entry'[e] = Kept(x, InUse(e, Reqs \ {r}))
      BY <1>0, <1>1, <1>6, <1>9 DEF CloseIfRevoked, TypeOK
  <2>2. entry'[e] = x
      BY <1>6, <1>7, <2>1 DEF Kept
  <2> QED BY <1>6, <1>7, <2>2, NoneIsNothing
<1> QED BY <1>8, <1>9

\* grants.close and sweep: an entry is closed for idleness, or for a revocation
\* once every request in flight on it has answered, and never in place of another.
THEOREM ClosedForCause == Spec => EntriesCloseForCause
<1>1. IInv /\ [Next]_vars => ClosesForCause
  <2> SUFFICES ASSUME IInv, [Next]_vars, NEW d \in Entries,
                      entry[d] # None, entry[d].open, entry'[d] = None \/ ~entry'[d].open
               PROVE  d \in idle \/ (entry[d].revoked /\ Calls(d)' = {})
      BY DEF ClosesForCause
  <2>0. /\ TypeOK /\ entry[d] \in Entry /\ \A z \in Entry : z # None
      BY NoneIsNothing DEF IInv, TypeOK
  <2>1. ASSUME entry' = entry PROVE FALSE
      BY <2>1
  <2>2. ASSUME NEW r \in Reqs, CallEnds(r) \/ ListenEnds(r)
        PROVE  entry[d].revoked /\ Calls(d)' = {}
      BY <2>2, ClosedByRequest
  <2>3. ASSUME NEW r \in Reqs, NEW e \in Entries, Serve(r, e) PROVE FALSE
    <3>1. req[r].grant \in Grants
        BY <2>3 DEF Serve, IInv, RequestsServed, Served
    <3>2. Acquired(req[r].grant, e) \in Entry /\ Acquired(req[r].grant, e).open
        BY <2>3, <3>1, AcquiredIs DEF Serve
    <3>3. entry'[d] = entry[d] \/ (entry'[d] \in Entry /\ entry'[d].open)
        BY <2>0, <2>3, <3>2 DEF Serve, TypeOK, Entry
    <3> QED BY <2>0, <3>3
  <2>4. ASSUME NEW e \in Entries, Check(e) PROVE FALSE
    <3>1. entry'[d] = entry[d] \/ (entry'[d] \in Entry /\ entry'[d].open)
        BY <2>0, <2>4 DEF Check, TypeOK, Entry
    <3> QED BY <2>0, <3>1
  <2>5. ASSUME NEW e \in Entries, CheckEnds(e) PROVE FALSE
    <3>1. \/ entry'[d] = entry[d]
          \/ \E b \in BOOLEAN : entry'[d] = [entry[d] EXCEPT !.checking = FALSE, !.revoked = b]
      <4>1. CASE e # d
          BY <2>0, <2>5, <4>1 DEF CheckEnds, TypeOK
      <4>2. CASE e = d
        <5> DEFINE x == [entry[d] EXCEPT !.checking = FALSE]
        <5>1. /\ x.open /\ [x EXCEPT !.revoked = TRUE].open
              /\ x = [entry[d] EXCEPT !.checking = FALSE, !.revoked = entry[d].revoked]
              /\ [x EXCEPT !.revoked = TRUE] = [entry[d] EXCEPT !.checking = FALSE, !.revoked = TRUE]
              /\ entry[d].revoked \in BOOLEAN
            BY <2>0 DEF Entry
        <5>2. entry'[d] = Kept(x, InUse(d, Reqs)) \/ entry'[d] = Kept([x EXCEPT !.revoked = TRUE], InUse(d, Reqs))
            BY <2>0, <2>5, <4>2 DEF CheckEnds, TypeOK
        <5>3. entry'[d] = x \/ entry'[d] = [x EXCEPT !.revoked = TRUE]
            BY <5>1, <5>2 DEF Kept
        <5> QED BY <5>1, <5>3
      <4> QED BY <4>1, <4>2
    <3>2. entry'[d] \in Entry /\ entry'[d].open
        BY <2>0, <3>1 DEF Entry
    <3> QED BY <2>0, <3>2
  <2>6. ASSUME NEW r \in Reqs, EntryUnauthorized(r) PROVE FALSE
    <3>1. entry'[d] = entry[d] \/ (entry'[d] \in Entry /\ entry'[d].open)
        BY <2>0, <2>6 DEF EntryUnauthorized, TypeOK, Entry
    <3> QED BY <2>0, <3>1
  <2>7. ASSUME NEW g \in Grants, SweepEntry(g) PROVE d \in idle
      BY <2>0, <2>7 DEF SweepEntry, TypeOK
  <2>8. ASSUME NEW r \in Reqs, \/ \E g \in Grants : Verify(r, g)
                               \/ Reject(r) \/ Send(r) \/ Answered(r)
                               \/ SessionCallEnds(r) \/ SessionUnauthorized(r)
                               \/ \E s \in Sessions : Dispatch(r, s) \/ Open(r, s)
        PROVE  FALSE
      BY <2>1, <2>8 DEF Verify, Reject, Send, Answered, SessionCallEnds,
                        SessionUnauthorized, Dispatch, Open
  <2>9. CASE \/ \E s \in Sessions : SweepSession(s)
             \/ \E g \in Grants : ProviderEnds(g)
             \/ \E x \in Entries \cup Sessions : Elapse(x)
             \/ UNCHANGED vars
      BY <2>1, <2>9 DEF SweepSession, ProviderEnds, Elapse, vars
  <2> QED BY <2>2, <2>3, <2>4, <2>5, <2>6, <2>7, <2>8, <2>9 DEF Next, Ends
<1> QED BY <1>1, Invariance, PTL DEF Spec, EntriesCloseForCause
=============================================================================
