---------------------------- MODULE HttpTransport ----------------------------
(***************************************************************************)
(* What the HTTP transport keeps between requests                          *)
(* (src/src/transports/http.ts, utils/grant-registry.ts): a session per    *)
(* client of the 2025 protocol, an entry per grant for the 2026 one, and   *)
(* what ends them: a Zendesk 401, a grant ended elsewhere, or no request   *)
(* for the idle timeout.                                                   *)
(*                                                                         *)
(* A request is verified, then its body is read, and only then is it       *)
(* served: anything may happen in between.  A grant here is one sign-in on *)
(* one surface, and its owner is a user on that surface: `/mcp` and        *)
(* `/mcp/admin` share nothing else in this code.                           *)
(*                                                                         *)
(* One action is what Node runs without returning to its event loop.       *)
(***************************************************************************)
EXTENDS Naturals, FiniteSets

CONSTANTS
    Grants,   \* what the clients sign in to get
    Owner,    \* the user (and surface) of each grant
    Writers,  \* the grants with the `write` scope
    Modern,   \* those whose clients may speak the 2026 protocol (a bound)
    Reqs,     \* names for requests under way
    Sessions, \* names for sessions and
    Entries,  \* for entries: as many objects as are alive at once
    None

Users == {Owner[g] : g \in Grants}

\* A request: `on` is the session or the entry that serves it, `sent` the grant
\* whose token is in the Zendesk request a call in a session awaits.
Request == [at: {"idle", "verified", "session", "call", "listen"},
            grant: Grants \cup {None},
            on: Sessions \cup Entries \cup {None},
            sent: Grants \cup {None}]

\* `checking`: the alert watch awaits Zendesk.
Entry == [grant: Grants, open: BOOLEAN, revoked: BOOLEAN, inFlight: Nat,
          streams: SUBSET Reqs, checking: BOOLEAN]

Session == [open: BOOLEAN, owner: Users, grant: Grants, writes: BOOLEAN]

ASSUME ConstantsAssumption ==
    /\ DOMAIN Owner = Grants
    /\ Writers \subseteq Grants /\ Modern \subseteq Grants
    /\ IsFiniteSet(Reqs)
    /\ None \notin Grants \cup Sessions \cup Entries \cup Entry \cup Session
    /\ Sessions \cap Entries = {}

VARIABLES
    req,     \* the requests
    entry,   \* the entries, and closed ones still in use
    slot,    \* the registry: the entry of each grant
    session, \* the sessions, and closed ones still in use
    idle,    \* open entries and sessions past the idle timeout
    denied   \* revokedGrants: bearers of these grants are refused

vars == <<req, entry, slot, session, idle, denied>>

NoRequest == [at |-> "idle", grant |-> None, on |-> None, sent |-> None]

\* Whether one of the requests R runs in x.
InUse(x, R) == \E r \in R : req[r].on = x

\* Requests counted in inFlight: those being answered, listen streams aside.
Calls(e) == {r \in Reqs : req[r].at = "call" /\ req[r].on = e}

-----------------------------------------------------------------------------
(* Arrival.                                                                *)

\* A mutant that forgets the denials:
VerifyAny(r, g) ==
    /\ req[r].at = "idle"
    /\ req' = [req EXCEPT ![r] = [NoRequest EXCEPT !.at = "verified", !.grant = g]]
    /\ UNCHANGED <<entry, slot, session, idle, denied>>

\* authenticate: the bearer of a denied grant is refused.
Verify(r, g) ==
    /\ req[r].at = "idle" /\ g \notin denied
    /\ req' = [req EXCEPT ![r] = [NoRequest EXCEPT !.at = "verified", !.grant = g]]
    /\ UNCHANGED <<entry, slot, session, idle, denied>>

\* The body cannot be read, or is not a request anything serves.
Reject(r) ==
    /\ req[r].at = "verified"
    /\ req' = [req EXCEPT ![r] = NoRequest]
    /\ UNCHANGED <<entry, slot, session, idle, denied>>

-----------------------------------------------------------------------------
(* 2026: an entry per grant.                                               *)

FreshEntry(g) == [grant |-> g, open |-> TRUE, revoked |-> FALSE, inFlight |-> 0,
                  streams |-> {}, checking |-> FALSE]

\* A mutant that makes an entry for every request:
AcquireNew(g, e) == entry[e] = None

\* grants.acquire finds e, or creates it when the grant has none.
Acquire(g, e) == IF slot[g] # None THEN e = slot[g] ELSE entry[e] = None

Acquired(g, e) == IF slot[g] = e THEN entry[e] ELSE FreshEntry(g)

\* serveModern, to the point where the handler runs.  A listen request opens a
\* stream on the entry, any other counts as in flight.
Serve(r, e) ==
    LET g == req[r].grant IN
    /\ req[r].at = "verified" /\ g \in Modern /\ Acquire(g, e)
    /\ slot' = [slot EXCEPT ![g] = e]
    /\ idle' = idle \ {e}
    /\ \/ /\ entry' = [entry EXCEPT ![e] = [Acquired(g, e) EXCEPT !.inFlight = @ + 1]]
          /\ req' = [req EXCEPT ![r].at = "call", ![r].on = e]
       \/ /\ entry' = [entry EXCEPT ![e] = [Acquired(g, e) EXCEPT !.streams = @ \cup {r}]]
          /\ req' = [req EXCEPT ![r].at = "listen", ![r].on = e]
    /\ UNCHANGED <<session, denied>>

\* What closing an entry does to it: its streams end and its watch stops.
Closed(x) == [x EXCEPT !.open = FALSE, !.streams = {}]

\* A closed entry is gone once nothing refers to it.
Kept(x, used) == IF x.open \/ x.checking \/ used THEN x ELSE None

\* A mutant that closes whatever entry the grant has:
CloseAny(r, x) ==
    LET e == req[r].on
        c == slot[x.grant] IN
    IF x.revoked /\ x.inFlight = 0 /\ c # None
    THEN /\ slot' = [slot EXCEPT ![x.grant] = None]
         /\ entry' = [entry EXCEPT ![e] = Kept(x, InUse(e, Reqs \ {r})),
              ![c] = Kept(Closed(IF c = e THEN x ELSE @), InUse(c, Reqs \ {r}))]
         /\ idle' = idle \ {c}
    ELSE /\ entry' = [entry EXCEPT ![e] = Kept(x, InUse(e, Reqs \ {r}))]
         /\ UNCHANGED <<slot, idle>>

\* Request r has ended and left its entry as x: a revoked entry with none in
\* flight is closed, unless a newer one has replaced it.
CloseIfRevoked(r, x) ==
    LET e == req[r].on IN
    IF x.revoked /\ x.inFlight = 0 /\ slot[x.grant] = e
    THEN /\ slot' = [slot EXCEPT ![x.grant] = None]
         /\ entry' = [entry EXCEPT ![e] = Kept(Closed(x), InUse(e, Reqs \ {r}))]
         /\ idle' = idle \ {e}
    ELSE /\ entry' = [entry EXCEPT ![e] = Kept(x, InUse(e, Reqs \ {r}))]
         /\ UNCHANGED <<slot, idle>>

\* A call is answered, or its handler throws.
CallEnds(r) ==
    /\ req[r].at = "call"
    /\ req' = [req EXCEPT ![r] = NoRequest]
    /\ CloseIfRevoked(r, [entry[req[r].on] EXCEPT !.inFlight = @ - 1])
    /\ UNCHANGED <<session, denied>>

\* The client ends its listen stream, or the entry has closed it.
ListenEnds(r) ==
    /\ req[r].at = "listen"
    /\ req' = [req EXCEPT ![r] = NoRequest]
    /\ CloseIfRevoked(r, [entry[req[r].on] EXCEPT !.streams = @ \ {r}])
    /\ UNCHANGED <<session, denied>>

\* The alert watch polls Zendesk while there is a stream.
Check(e) ==
    /\ entry[e] # None /\ entry[e].streams # {} /\ ~entry[e].checking
    /\ entry' = [entry EXCEPT ![e].checking = TRUE]
    /\ UNCHANGED <<req, slot, session, idle, denied>>

\* The poll ends, the entry closed meanwhile or not.
CheckEnds(e) ==
    LET x == [entry[e] EXCEPT !.checking = FALSE] IN
    /\ entry[e] # None /\ entry[e].checking
    /\ \/ /\ entry' = [entry EXCEPT ![e] = Kept(x, InUse(e, Reqs))]
          /\ UNCHANGED denied
       \/ /\ entry' = [entry EXCEPT ![e] = Kept([x EXCEPT !.revoked = TRUE], InUse(e, Reqs))]
          /\ denied' = denied \cup {x.grant}
    /\ UNCHANGED <<req, slot, session, idle>>

-----------------------------------------------------------------------------
(* 2025: sessions.                                                         *)

\* A mutant that lets any token drive any session:
MayDriveAny(g, s) == session[s] # None /\ session[s].open

\* dispatchToSession: the session is this user's, and no `write` session is
\* driven by a token without that scope.
MayDrive(g, s) ==
    /\ session[s] # None /\ session[s].open
    /\ session[s].owner = Owner[g]
    /\ session[s].writes => g \in Writers

\* The request is served by a session, which adopts its token.
Dispatch(r, s) ==
    /\ req[r].at = "verified" /\ MayDrive(req[r].grant, s)
    /\ session' = [session EXCEPT ![s].grant = req[r].grant]
    /\ idle' = idle \ {s}
    /\ req' = [req EXCEPT ![r].at = "session", ![r].on = s]
    /\ UNCHANGED <<entry, slot, denied>>

\* openSession: an initialize request.  Its server reads the session's token.
Open(r, s) ==
    LET g == req[r].grant IN
    /\ req[r].at = "verified"
    /\ session[s] = None
    /\ session' = [session EXCEPT ![s] =
         [open |-> TRUE, owner |-> Owner[g], grant |-> g, writes |-> g \in Writers]]
    /\ req' = [req EXCEPT ![r].at = "session", ![r].on = s]
    /\ UNCHANGED <<entry, slot, idle, denied>>

\* A closed session is gone once no call runs in it.
Retired(s, R) == IF InUse(s, R) THEN [session[s] EXCEPT !.open = FALSE] ELSE None

\* The request is answered; a DELETE also closes its session.
SessionCallEnds(r) ==
    LET s == req[r].on IN
    /\ req[r].at = "session"
    /\ req' = [req EXCEPT ![r] = NoRequest]
    /\ \/ /\ session' = [session EXCEPT ![s] = IF @.open THEN @ ELSE Retired(s, Reqs \ {r})]
          /\ UNCHANGED idle
       \/ /\ session' = [session EXCEPT ![s] = Retired(s, Reqs \ {r})]
          /\ idle' = idle \ {s}
    /\ UNCHANGED <<entry, slot, denied>>

-----------------------------------------------------------------------------
(* Zendesk, which may answer any request with a 401.                       *)

\* A tool reads the token its session holds now, and asks Zendesk.
Send(r) ==
    /\ req[r].at = "session" /\ req[r].sent = None
    /\ req' = [req EXCEPT ![r].sent = session[req[r].on].grant]
    /\ UNCHANGED <<entry, slot, session, idle, denied>>

Answered(r) ==
    /\ req[r].sent # None
    /\ req' = [req EXCEPT ![r].sent = None]
    /\ UNCHANGED <<entry, slot, session, idle, denied>>

\* onUnauthorized of an entry: it is marked, and its grant ended.
EntryUnauthorized(r) ==
    LET e == req[r].on IN
    /\ req[r].at = "call"
    /\ entry' = [entry EXCEPT ![e].revoked = TRUE]
    /\ denied' = denied \cup {entry[e].grant}
    /\ UNCHANGED <<req, slot, session, idle>>

\* onUnauthorized of a session ends the grant the session holds by then.
SessionUnauthorized(r) ==
    LET s == req[r].on IN
    /\ req[r].sent # None
    /\ req' = [req EXCEPT ![r].sent = None]
    /\ denied' = denied \cup {session[s].grant}
    /\ UNCHANGED <<entry, slot, session, idle>>

\* The authorization server ends a grant: the transport is not told.
ProviderEnds(g) ==
    /\ g \notin denied /\ denied' = denied \cup {g}
    /\ UNCHANGED <<req, entry, slot, session, idle>>

-----------------------------------------------------------------------------
(* The idle sweep.                                                         *)

OpenOnes == {e \in Entries : entry[e] # None /\ entry[e].open}
              \cup {s \in Sessions : session[s] # None /\ session[s].open}

\* Time passes with no request of x.
Elapse(x) ==
    /\ x \in OpenOnes \ idle /\ idle' = idle \cup {x}
    /\ UNCHANGED <<req, entry, slot, session, denied>>

\* The sweep comes to a session, or to an entry still in the registry.
SweepSession(s) ==
    /\ s \in idle /\ session[s] # None /\ session[s].open
    /\ session' = [session EXCEPT ![s] = Retired(s, Reqs)]
    /\ idle' = idle \ {s}
    /\ UNCHANGED <<req, entry, slot, denied>>

SweepEntry(g) ==
    LET e == slot[g] IN
    /\ e # None /\ e \in idle
    /\ slot' = [slot EXCEPT ![g] = None]
    /\ entry' = [entry EXCEPT ![e] = Kept(Closed(@), InUse(e, Reqs))]
    /\ idle' = idle \ {e}
    /\ UNCHANGED <<req, session, denied>>

-----------------------------------------------------------------------------

Init ==
    /\ req = [r \in Reqs |-> NoRequest]
    /\ entry = [e \in Entries |-> None]
    /\ slot = [g \in Grants |-> None]
    /\ session = [s \in Sessions |-> None]
    /\ idle = {} /\ denied = {}

Ends(r) == CallEnds(r) \/ ListenEnds(r) \/ SessionCallEnds(r)

Next ==
    \/ \E r \in Reqs, g \in Grants : Verify(r, g)
    \/ \E r \in Reqs : \/ Reject(r) \/ Send(r) \/ Answered(r) \/ Ends(r)
                       \/ EntryUnauthorized(r) \/ SessionUnauthorized(r)
    \/ \E r \in Reqs, e \in Entries : Serve(r, e)
    \/ \E r \in Reqs, s \in Sessions : Dispatch(r, s) \/ Open(r, s)
    \/ \E e \in Entries : Check(e) \/ CheckEnds(e)
    \/ \E g \in Grants : ProviderEnds(g) \/ SweepEntry(g)
    \/ \E s \in Sessions : SweepSession(s)
    \/ \E x \in Entries \cup Sessions : Elapse(x)

Spec == Init /\ [][Next]_vars

\* Time passes, the sweep runs, and a stream whose entry is closed ends.  Nothing
\* obliges a client to end its own, nor a call to end.
StreamCut(r) ==
    /\ req[r].at = "listen" /\ ~entry[req[r].on].open
    /\ ListenEnds(r)

FairSpec ==
    /\ Spec
    /\ \A e \in Entries : WF_vars(Elapse(e))
    /\ \A g \in Grants : WF_vars(SweepEntry(g))
    /\ \A r \in Reqs : WF_vars(StreamCut(r))

-----------------------------------------------------------------------------
(* Properties.                                                             *)

\* Every variable keeps its type.
TypeOK ==
    /\ req \in [Reqs -> Request]
    /\ entry \in [Entries -> Entry \cup {None}]
    /\ slot \in [Grants -> Entries \cup {None}]
    /\ session \in [Sessions -> Session \cup {None}]
    /\ idle \subseteq Entries \cup Sessions
    /\ denied \subseteq Grants

\* The registry holds exactly the open entries, and an entry's counter and feed
\* are the requests it really serves, whatever order they began and ended in.
EntriesAccounted ==
    /\ \A g \in Grants : slot[g] # None =>
         entry[slot[g]] # None /\ entry[slot[g]].open /\ entry[slot[g]].grant = g
    /\ \A e \in Entries : entry[e] # None =>
         /\ entry[e].open => slot[entry[e].grant] = e
         /\ entry[e].inFlight = Cardinality(Calls(e))
         /\ entry[e].streams = IF entry[e].open
              THEN {r \in Reqs : req[r].at = "listen" /\ req[r].on = e} ELSE {}

\* What a step may do to an open entry.
ClosesForCause ==
    \A e \in Entries : entry[e] # None /\ entry[e].open /\ (entry'[e] = None \/ ~entry'[e].open) =>
        e \in idle \/ (entry[e].revoked /\ Calls(e)' = {})

\* An entry is closed only when no request came for the idle timeout, or when it
\* is revoked and every request in flight on it has answered: a newer entry of
\* the grant is left open, and no answer is cut short by a revocation.
EntriesCloseForCause == [][ClosesForCause]_vars

\* A session acts for its own user whatever tokens it is handed while its
\* calls are in flight, and a session with write tools with a `write` token.
SessionsOfOneUser ==
    /\ \A s \in Sessions : session[s] # None =>
         /\ Owner[session[s].grant] = session[s].owner
         /\ session[s].writes => session[s].grant \in Writers
    /\ \A r \in Reqs : req[r].at = "session" =>
         Owner[req[r].grant] = session[req[r].on].owner

\* What keeps those true from step to step: a request runs in a session or an
\* entry that is still there, and an entry serves its own grant only.
Served(r) ==
    /\ req[r].at = "idle" => req[r] = NoRequest
    /\ req[r].at # "idle" => req[r].grant \in Grants
    /\ req[r].at \in {"idle", "verified"} => req[r].on = None
    /\ req[r].at = "session" => req[r].on \in Sessions /\ session[req[r].on] # None
    /\ req[r].at \in {"call", "listen"} =>
         /\ req[r].on \in Entries /\ entry[req[r].on] # None
         /\ entry[req[r].on].grant = req[r].grant
    /\ req[r].sent # None => req[r].at = "session"

RequestsServed == \A r \in Reqs : Served(r)

\* The inductive invariant.
IInv == TypeOK /\ RequestsServed /\ EntriesAccounted /\ SessionsOfOneUser

\* The listen streams of a grant that has ended, wherever it was ended, end too.
StreamsEndWithGrant ==
    \A r \in Reqs :
        req[r].at = "listen" /\ req[r].grant \in denied ~> req[r].at # "listen"
=============================================================================
