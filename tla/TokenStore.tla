----------------------------- MODULE TokenStore -----------------------------
(***************************************************************************)
(* The token store of the stdio transport: src/src/auth/token-store.ts     *)
(* over token-persistence.ts (the token file) and browser-oauth.ts (the    *)
(* sign-in flow and the refresh request).                                  *)
(*                                                                         *)
(* A process holds one token in memory and writes every change through to  *)
(* the token file; processes alike in subdomain, client and scope share    *)
(* that file.  Tool calls and the alert poller ask the store for a token   *)
(* concurrently; a refresh and a browser sign-in are network conversations *)
(* that other callbacks interleave with.                                   *)
(*                                                                         *)
(* Grain.  One action is what Node runs without returning to its event     *)
(* loop, except that a caller resumed by a settled promise continues in a  *)
(* step of its own; `Quiet` holds back the next event of that process      *)
(* until every resumed caller has run.                                     *)
(*                                                                         *)
(* Zendesk is external: every grant it mints is a number, an access token  *)
(* and a refresh token are named by the grant they came with, and a        *)
(* refresh token is single-use once it has been rotated.                   *)
(***************************************************************************)
EXTENDS Naturals

CONSTANTS
    Procs,       \* the server processes that share one token file
    Calls,       \* the concurrent callers of the stores
    Background,  \* those that call getTokenSilently (the alert poller)
    ProcOf,      \* the process each caller runs in
    Slots,       \* names for requests in flight (a bound on their number)
    MaxGrants,   \* a bound on the grants Zendesk mints
    Scopes,      \* what a grant covers: "full", or "narrow" (less than asked)
    DiskFaults,  \* whether a write to the token file may fail
    None

NoRefresh == 0   \* a token without a refresh token

Grants == 1 .. MaxGrants

\* PersistedToken: access and refresh token, what is known of the expiry, scope.
Token == [at: Grants, rt: Grants \cup {NoRefresh},
          exp: {"unknown", "dated", "zero"}, scope: Scopes]

\* What Zendesk answers to a refresh; `rt` = NoRefresh when it names no new one.
Answer == [at: Grants, rt: Grants \cup {NoRefresh},
           exp: {"unknown", "dated"}, scope: Scopes]

\* A refresh request: made for a caller (dropOnFailure) or by the timer.
Flight == [id: Slots, proc: Procs, base: Token, by: {"caller", "timer"},
           answer: Answer \cup {None}]

Exchange == [id: Slots, proc: Procs, live: BOOLEAN]

ASSUME ConstantsAssumption ==
    /\ MaxGrants \in Nat
    /\ Scopes \subseteq {"full", "narrow"} /\ "full" \in Scopes
    /\ Background \subseteq Calls
    /\ ProcOf \in [Calls -> Procs]
    /\ DiskFaults \in BOOLEAN
    /\ None \notin Token \cup Answer \cup Slots \cup Grants \cup Procs

VARIABLES
    token,       \* the token in memory, per process
    probed,      \* probedUnknownExpiry
    refreshing,  \* the flight every caller shares, or None
    starting,    \* the sign-in: "no", "opening" its port, "listening"
    flights,     \* refresh requests sent and not settled
    exchanges,   \* sign-in codes being exchanged; live: the flow still waits
    disk,        \* the token file, or None
    writer,      \* history: whose memory the file was written from, or None
    pc, held,    \* where each caller stands, and the access token it uses
    live,        \* refresh tokens Zendesk would accept
    aged,        \* grants whose access token is past its refresh margin
    revoked,     \* grants whose access token Zendesk refuses
    minted       \* the number of grants Zendesk has minted

store == <<token, probed, refreshing, starting, flights, exchanges>>
callers == <<pc, held>>
zendesk == <<live, aged, revoked, minted>>
file == <<disk, writer>>
vars == <<store, file, callers, zendesk>>

-----------------------------------------------------------------------------
(* The token file and the clock.                                           *)

Covers(t) == t.scope = "full"

\* saveToken and clearToken swallow their failures: the file stays as it was.
\* A mutant that forgets to delete the file:
PersistKeepsFile(p, t) ==
    /\ disk' = (IF t = None THEN disk ELSE t)
    /\ writer' = p

Persist(p, t) ==
    \/ disk' = t /\ writer' = p
    \/ /\ DiskFaults /\ UNCHANGED disk
       /\ writer' = IF writer = p THEN None ELSE writer

Loaded == IF disk # None /\ Covers(disk) THEN disk ELSE None

NeedsRefresh(p) ==
    LET t == token[p] IN
    CASE t.exp = "zero"  -> TRUE
      [] t.exp = "dated" -> t.at \in aged
      [] OTHER           -> t.rt # NoRefresh /\ ~probed[p]

\* The token `invalidate` leaves behind.
Invalidated(t) == IF t # None /\ t.rt # NoRefresh
                  THEN [t EXCEPT !.exp = "zero"] ELSE None

\* The token a successful refresh of `base` installs.
Rotated(base, a) ==
    [at |-> a.at, rt |-> IF a.rt = NoRefresh THEN base.rt ELSE a.rt,
     exp |-> a.exp, scope |-> a.scope]

-----------------------------------------------------------------------------
(* Callers.                                                                *)

Mine(p) == {c \in Calls : ProcOf[c] = p}

Resumed == {"woken", "refused"}

\* The microtask queue of p is empty: the event loop may take its next event.
Quiet(p) == \A c \in Mine(p) : pc[c] \notin Resumed

Usable(p) == token[p] # None /\ ~NeedsRefresh(p)
Refreshable(p) == token[p] # None /\ token[p].rt # NoRefresh

Launch(p, by) ==
    \E i \in Slots :
        /\ \A f \in flights : f.id # i
        /\ flights' = flights \cup
             {[id |-> i, proc |-> p, base |-> token[p], by |-> by,
               answer |-> None]}
        /\ refreshing' = [refreshing EXCEPT ![p] = i]

\* Mutants: a caller that never shares an attempt, and one whose failed attempt
\* leaves the token in place.
JoinNothing(c) ==
    /\ pc' = [pc EXCEPT ![c] = "shared"]
    /\ Launch(ProcOf[c], "caller")
    /\ UNCHANGED <<held, starting>>

JoinKeepingToken(c) ==
    /\ pc' = [pc EXCEPT ![c] = "shared"]
    /\ IF refreshing[ProcOf[c]] # None
       THEN UNCHANGED <<flights, refreshing>>
       ELSE Launch(ProcOf[c], "timer")
    /\ UNCHANGED <<held, starting>>

\* refreshIfPossible, for a token that has a refresh token: share the attempt
\* in flight, or start one.
JoinRefresh(c) ==
    LET p == ProcOf[c] IN
    /\ pc' = [pc EXCEPT ![c] = "shared"]
    /\ IF refreshing[p] # None
       THEN UNCHANGED <<flights, refreshing>>
       ELSE Launch(p, "caller")
    /\ UNCHANGED <<held, starting>>

\* getToken without a silent token: start one sign-in or point at the one under
\* way.  getTokenSilently never prompts.
Prompt(c) ==
    LET p == ProcOf[c] IN
    /\ \/ /\ c \in Background \/ starting[p] = "listening"
          /\ pc' = [pc EXCEPT ![c] = "idle"]
          /\ UNCHANGED starting
       \/ /\ c \notin Background /\ starting[p] # "listening"
          /\ pc' = [pc EXCEPT ![c] = "url"]
          /\ starting' = [starting EXCEPT ![p] = "opening"]
    /\ UNCHANGED <<held, flights, refreshing>>

Serve(c) ==
    /\ pc' = [pc EXCEPT ![c] = "using"]
    /\ held' = [held EXCEPT ![c] = token[ProcOf[c]].at]
    /\ UNCHANGED <<flights, refreshing, starting>>

\* tokenWithoutPrompt once no refresh was in flight, then getToken.
Continue(c) ==
    LET p == ProcOf[c] IN
    \/ Usable(p) /\ Serve(c)
    \/ ~Usable(p) /\ Refreshable(p) /\ JoinRefresh(c)
    \/ ~Usable(p) /\ ~Refreshable(p) /\ Prompt(c)

\* A mutant that serves the token about to be replaced:
RefreshIgnored(p) == FALSE

RefreshUnderWay(p) == refreshing[p] # None

\* A caller asks for a token: wait for a refresh under way, or go on.
Ask(c) ==
    LET p == ProcOf[c] IN
    /\ pc[c] = "idle" /\ Quiet(p)
    /\ \/ /\ RefreshUnderWay(p)
          /\ pc' = [pc EXCEPT ![c] = "waiting"]
          /\ UNCHANGED <<held, flights, refreshing, starting>>
       \/ ~RefreshUnderWay(p) /\ Continue(c)
    /\ UNCHANGED <<token, probed, exchanges, file, zendesk>>

\* The refresh it waited for has settled.
Wake(c) ==
    /\ pc[c] = "woken" /\ Continue(c)
    /\ UNCHANGED <<token, probed, exchanges, file, zendesk>>

\* The refresh it shared has failed.
Refused(c) ==
    /\ pc[c] = "refused" /\ Prompt(c)
    /\ UNCHANGED <<token, probed, exchanges, file, zendesk>>

\* Zendesk serves the request made with the held access token ...
Accepted(c) ==
    /\ pc[c] = "using" /\ held[c] \notin revoked /\ Quiet(ProcOf[c])
    /\ pc' = [pc EXCEPT ![c] = "idle"]
    /\ held' = [held EXCEPT ![c] = None]
    /\ UNCHANGED <<store, file, zendesk>>

\* ... or answers 401, and onUnauthorized invalidates the token in memory.
Rejected(c) ==
    LET p == ProcOf[c] IN
    /\ pc[c] = "using" /\ held[c] \in aged \cup revoked /\ Quiet(p)
    /\ pc' = [pc EXCEPT ![c] = "idle"]
    /\ held' = [held EXCEPT ![c] = None]
    /\ token' = [token EXCEPT ![p] = Invalidated(@)]
    /\ Persist(p, token'[p])
    /\ UNCHANGED <<probed, refreshing, starting, flights, exchanges, zendesk>>

-----------------------------------------------------------------------------
(* Refreshing.                                                             *)

\* The four-hourly timer.
Keepalive(p) ==
    /\ Quiet(p) /\ Refreshable(p) /\ refreshing[p] = None
    /\ Launch(p, "timer")
    /\ UNCHANGED <<token, probed, starting, exchanges, file, callers, zendesk>>

\* A mutant that resumes only the callers that shared the attempt:
WakeSharers(p, won) ==
    /\ pc' = [c \in Calls |->
         IF c \in Mine(p) /\ pc[c] = "shared"
         THEN (IF won THEN "using" ELSE "refused") ELSE pc[c]]
    /\ held' = [c \in Calls |->
         IF c \in Mine(p) /\ pc[c] = "shared" /\ won THEN token'[p].at ELSE held[c]]

\* What becomes of the callers awaiting the attempt: those that waited before
\* looking at the token look now, those that shared it take its result.
WakeCallers(p, won) ==
    /\ pc' = [c \in Calls |->
         IF c \notin Mine(p) THEN pc[c]
         ELSE CASE pc[c] = "waiting" -> "woken"
                [] pc[c] = "shared"  -> (IF won THEN "using" ELSE "refused")
                [] OTHER             -> pc[c]]
    /\ held' = [c \in Calls |->
         IF c \in Mine(p) /\ pc[c] = "shared" /\ won THEN token'[p].at ELSE held[c]]

\* tryRefresh resumes with Zendesk's answer.
RefreshSucceeds(f) ==
    /\ f.answer # None /\ Quiet(f.proc)
    /\ token' = [token EXCEPT ![f.proc] = Rotated(f.base, f.answer)]
    /\ probed' = [probed EXCEPT ![f.proc] = TRUE]
    /\ Persist(f.proc, token'[f.proc])
    /\ refreshing' = [refreshing EXCEPT ![f.proc] = None]
    /\ flights' = flights \ {f}
    /\ WakeCallers(f.proc, TRUE)
    /\ UNCHANGED <<starting, exchanges, zendesk>>

\* ... or with an error: refused, never sent, or its answer lost on the way.
RefreshFails(f) ==
    /\ Quiet(f.proc)
    /\ IF f.by = "caller"
       THEN token' = [token EXCEPT ![f.proc] = None] /\ Persist(f.proc, None)
       ELSE UNCHANGED <<token, file>>
    /\ refreshing' = [refreshing EXCEPT ![f.proc] = None]
    /\ flights' = flights \ {f}
    /\ WakeCallers(f.proc, FALSE)
    /\ UNCHANGED <<probed, starting, exchanges, zendesk>>

-----------------------------------------------------------------------------
(* Signing in.                                                             *)

EndFlow(p) ==
    starting' = [starting EXCEPT ![p] = "no"]

\* A mutant whose flow can settle twice:
OrphanNothing(p) == exchanges

\* Later outcomes of the flow's other code exchanges settle nothing any more.
Orphan(p) == {IF x.proc = p THEN [x EXCEPT !.live = FALSE] ELSE x : x \in exchanges}

AnswerUrl(p) ==
    pc' = [c \in Calls |-> IF c \in Mine(p) /\ pc[c] = "url" THEN "idle" ELSE pc[c]]

\* The callback server listens, on a port that may be each process's own:
\* everyone waiting is pointed at the URL.
Listening(p) ==
    /\ starting[p] = "opening" /\ Quiet(p)
    /\ starting' = [starting EXCEPT ![p] = "listening"]
    /\ AnswerUrl(p)
    /\ UNCHANGED <<token, probed, refreshing, flights, exchanges, file, held, zendesk>>

\* It cannot listen, as when another process has the port: everyone waiting gets the error.
ListenFails(p) ==
    /\ starting[p] = "opening" /\ Quiet(p)
    /\ EndFlow(p)
    /\ AnswerUrl(p)
    /\ UNCHANGED <<token, probed, refreshing, flights, exchanges, file, held, zendesk>>

\* The browser calls back with a code, which goes out to be exchanged.
Callback(p) ==
    /\ starting[p] = "listening" /\ Quiet(p)
    /\ \E i \in Slots :
         /\ \A x \in exchanges : x.id # i
         /\ exchanges' = exchanges \cup {[id |-> i, proc |-> p, live |-> TRUE]}
    /\ UNCHANGED <<token, probed, refreshing, starting, flights, file, callers, zendesk>>

\* The flow ends without a token: an error or no code in the
\* callback, five minutes gone, or an error of the server.
FlowRejected(p) ==
    /\ starting[p] = "listening" /\ Quiet(p)
    /\ EndFlow(p)
    /\ exchanges' = Orphan(p)
    /\ UNCHANGED <<token, probed, refreshing, flights, file, callers, zendesk>>

\* The token Zendesk mints for a code: grant n, covering s (or all that was
\* asked when the answer leaves the scope out).
Minted(n, refreshable, exp, s) ==
    [at |-> n, rt |-> IF refreshable THEN n ELSE NoRefresh, exp |-> exp,
     scope |-> IF s = "omitted" THEN "full" ELSE s]

ExchangeSucceeds(x) ==
    LET p == x.proc
        n == minted + 1 IN
    /\ Quiet(p) /\ n \in Grants
    /\ minted' = n
    /\ \E refreshable \in BOOLEAN, exp \in {"unknown", "dated"},
          s \in Scopes \cup {"omitted"} :
         /\ live' = IF refreshable THEN live \cup {n} ELSE live
         /\ IF x.live
            THEN /\ token' = [token EXCEPT ![p] = Minted(n, refreshable, exp, s)]
                 /\ probed' = [probed EXCEPT ![p] = TRUE]
                 /\ Persist(p, token'[p])
                 /\ EndFlow(p)
            ELSE UNCHANGED <<token, probed, file, starting>>
    /\ exchanges' = (IF x.live THEN Orphan(p) ELSE exchanges) \ {x, [x EXCEPT !.live = FALSE]}
    /\ UNCHANGED <<refreshing, flights, callers, aged, revoked>>

ExchangeFails(x) ==
    LET p == x.proc IN
    /\ Quiet(p)
    /\ IF x.live THEN EndFlow(p) ELSE UNCHANGED starting
    /\ exchanges' = (IF x.live THEN Orphan(p) ELSE exchanges) \ {x, [x EXCEPT !.live = FALSE]}
    /\ UNCHANGED <<token, probed, refreshing, flights, file, callers, zendesk>>

-----------------------------------------------------------------------------
(* The process and Zendesk.                                                *)

\* The process dies at any point and a new one reads the file.
Restart(p) ==
    /\ token' = [token EXCEPT ![p] = Loaded]
    /\ probed' = [probed EXCEPT ![p] = FALSE]
    /\ refreshing' = [refreshing EXCEPT ![p] = None]
    /\ starting' = [starting EXCEPT ![p] = "no"]
    /\ flights' = {f \in flights : f.proc # p}
    /\ exchanges' = {x \in exchanges : x.proc # p}
    /\ pc' = [c \in Calls |-> IF c \in Mine(p) THEN "idle" ELSE pc[c]]
    /\ held' = [c \in Calls |-> IF c \in Mine(p) THEN None ELSE held[c]]
    /\ writer' = (IF writer = p /\ Loaded # disk THEN None ELSE writer)
    /\ UNCHANGED <<disk, zendesk>>

\* Zendesk handles a refresh request with a live token.  It may rotate the
\* refresh token or leave it out of the answer, and may leave out the expiry
\* and the scope.
ZendeskRefreshes(f) ==
    LET n == minted + 1 IN
    /\ f.answer = None /\ f.base.rt \in live /\ n \in Grants
    /\ minted' = n
    /\ \E rotates \in BOOLEAN, exp \in {"unknown", "dated"},
          s \in Scopes \cup {"omitted"} :
         /\ live' = IF rotates THEN (live \ {f.base.rt}) \cup {n} ELSE live
         /\ flights' = (flights \ {f}) \cup
              {[f EXCEPT !.answer =
                  [at |-> n, rt |-> IF rotates THEN n ELSE NoRefresh, exp |-> exp,
                   scope |-> IF s = "omitted" THEN f.base.scope ELSE s]]}
    /\ UNCHANGED <<token, probed, refreshing, starting, exchanges, file,
                   callers, aged, revoked>>

\* An access token nears its end; its time comes, or someone revokes it.
Age(n) ==
    /\ n \in 1 .. minted /\ n \notin aged /\ aged' = aged \cup {n}
    /\ UNCHANGED <<store, file, callers, live, revoked, minted>>

\* A user or an administrator revokes the grant.
Revoke(n) ==
    /\ n \in 1 .. minted /\ n \notin revoked
    /\ revoked' = revoked \cup {n} /\ live' = live \ {n}
    /\ UNCHANGED <<store, file, callers, aged, minted>>

-----------------------------------------------------------------------------

\* The file may hold grant 1 from an earlier process; every process reads it.
Init ==
    /\ minted \in {0, 1} \cap (Grants \cup {0})
    /\ disk \in {None} \cup
         {t \in Token : t.at = minted /\ t.rt \in {NoRefresh, minted} /\ t.exp # "zero"}
    /\ live = IF disk # None /\ disk.rt # NoRefresh THEN {disk.rt} ELSE {}
    /\ writer = None
    /\ token = [p \in Procs |-> Loaded]
    /\ probed = [p \in Procs |-> FALSE]
    /\ refreshing = [p \in Procs |-> None]
    /\ starting = [p \in Procs |-> "no"]
    /\ flights = {} /\ exchanges = {}
    /\ pc = [c \in Calls |-> "idle"]
    /\ held = [c \in Calls |-> None]
    /\ aged = {} /\ revoked = {}

Caller(c) == Ask(c) \/ Wake(c) \/ Refused(c) \/ Accepted(c) \/ Rejected(c)

Process(p) == \/ Keepalive(p) \/ Listening(p) \/ ListenFails(p)
              \/ Callback(p) \/ FlowRejected(p) \/ Restart(p)

Next ==
    \/ \E c \in Calls : Caller(c)
    \/ \E p \in Procs : Process(p)
    \/ \E f \in flights : RefreshSucceeds(f) \/ RefreshFails(f) \/ ZendeskRefreshes(f)
    \/ \E x \in exchanges : ExchangeSucceeds(x) \/ ExchangeFails(x)
    \/ \E n \in Grants : Age(n) \/ Revoke(n)

Spec == Init /\ [][Next]_vars

\* What Node and the timers guarantee: resumed callers run, every request
\* settles, the port is bound or not, and an unanswered sign-in times out.
\* A response waits in the event queue whatever else the process does, hence
\* strong fairness for callers, whose step other events may hold back.
Fairness ==
    /\ \A c \in Calls : /\ WF_vars(Wake(c) \/ Refused(c))
                        /\ SF_vars(Accepted(c) \/ Rejected(c))
    /\ \A p \in Procs : /\ WF_vars(Listening(p) \/ ListenFails(p))
                        /\ WF_vars(FlowRejected(p))
    /\ \A i \in Slots :
         /\ WF_vars(\E f \in flights : f.id = i /\ (RefreshSucceeds(f) \/ RefreshFails(f)))
         /\ WF_vars(\E x \in exchanges : x.id = i /\ (ExchangeSucceeds(x) \/ ExchangeFails(x)))

FairSpec == Spec /\ Fairness

-----------------------------------------------------------------------------
(* Properties.                                                             *)

\* Every variable keeps its type (the state of createTokenStore).
TypeOK ==
    /\ token \in [Procs -> Token \cup {None}]
    /\ probed \in [Procs -> BOOLEAN]
    /\ refreshing \in [Procs -> Slots \cup {None}]
    /\ starting \in [Procs -> {"no", "opening", "listening"}]
    /\ flights \subseteq Flight
    /\ exchanges \subseteq Exchange
    /\ disk \in Token \cup {None}
    /\ writer \in Procs \cup {None}
    /\ pc \in [Calls -> {"idle", "waiting", "woken", "shared", "refused", "url", "using"}]
    /\ held \in [Calls -> Grants \cup {None}]
    /\ live \subseteq Grants /\ aged \subseteq Grants /\ revoked \subseteq Grants
    /\ minted \in Grants \cup {0}

\* `refreshing` names the one request in flight of its process, and nothing
\* else: two refreshes never compete for one rotating token, and no caller
\* waits for an attempt that has already settled.
SingleFlight ==
    /\ \A f \in flights : refreshing[f.proc] = f.id
    /\ \A f, g \in flights : f.id = g.id => f = g
    /\ \A p \in Procs : refreshing[p] # None => \E f \in flights : f.proc = p

\* While a refresh is in flight the token in memory is still the one it was
\* made from (at most marked as expired), so what its settling replaces or
\* drops is never a newer token: tryRefresh assigns without looking.
AttemptOwnsToken ==
    \A f \in flights : /\ token[f.proc] # None
                       /\ token[f.proc].at = f.base.at
                       /\ token[f.proc].rt = f.base.rt
                       /\ f.base.rt # NoRefresh

RefreshDiscipline == SingleFlight /\ AttemptOwnsToken

\* The user is asked to sign in only when there is nothing to refresh with,
\* and no refresh starts until the sign-in is over: getToken's silent path and
\* the browser flow never race for the token.
SignInExcludesRefresh ==
    \A p \in Procs : starting[p] # "no" =>
        /\ ~Refreshable(p)
        /\ \A f \in flights : f.proc # p

\* The process that last wrote the file finds in it, after a crash at any
\* point, exactly the token it had: no change of the token skips the file.
DurableToken == \A p \in Procs : writer = p => disk = token[p]

\* What keeps those true from step to step.  A caller shares only an attempt
\* that drops the token if it fails; once refused it finds no token; and if a
\* refresh is in flight again when a caller resumes, another resumed caller
\* started it because the token was not usable.
CallersConsistent ==
    \A c \in Calls :
        LET p == ProcOf[c]
            OnDemand == \A f \in flights : f.proc = p => f.by = "caller" IN
        /\ pc[c] = "shared" => refreshing[p] # None /\ OnDemand
        /\ pc[c] = "refused" => token[p] = None /\ refreshing[p] = None
        /\ pc[c] = "woken" /\ refreshing[p] # None => ~Usable(p) /\ OnDemand

\* Only an exchange of the sign-in under way can still install a token.
ExchangesConsistent ==
    \A x \in exchanges : x.live => starting[x.proc] = "listening"

\* Grants are numbered as they are minted; a refresh answers with a newer one.
GrantsOrdered ==
    /\ \A p \in Procs : token[p] # None => token[p].at <= minted
    /\ disk # None => disk.at <= minted
    /\ \A f \in flights : /\ f.base.at <= minted
                          /\ f.answer # None => f.base.at < f.answer.at /\ f.answer.at <= minted

\* The inductive invariant.
IInv == /\ TypeOK /\ RefreshDiscipline /\ SignInExcludesRefresh /\ DurableToken
        /\ CallersConsistent /\ ExchangesConsistent /\ GrantsOrdered

\* A caller is handed the token in memory at that moment, and never while a
\* refresh is about to replace it (token-store.ts, tokenWithoutPrompt).
NoReplacedTokenServed ==
    [][\A c \in Calls :
         pc[c] # "using" /\ pc'[c] = "using" =>
            /\ token'[ProcOf[c]] # None
            /\ held'[c] = token'[ProcOf[c]].at
            /\ refreshing'[ProcOf[c]] = None]_vars

\* A process never goes back to an older grant, except to the one it reads
\* from the file when it starts.
TokenNeverRegresses ==
    [][\A p \in Procs :
         token[p] # None /\ token'[p] # None /\ token'[p].at < token[p].at =>
            token'[p] = Loaded]_vars

\* Every caller gets a token, a URL to sign in at, or an error.
CallsReturn == \A c \in Calls : pc[c] # "idle" ~> pc[c] = "idle"

\* docs/troubleshooting.md: "Only an expired or invalid refresh token triggers
\* a new browser sign-in": a settling refresh drops the token only when
\* Zendesk no longer accepts the refresh token.
OnlyDeadRefreshTokenDropped ==
    [][\A f \in flights :
         f \notin flights' /\ token[f.proc] # None /\ token'[f.proc] = None =>
            f.base.rt \notin live]_vars

\* Each process keeps the user's credential as RotatingCredential promises,
\* beside others that write the same file.
AtOf(t) == IF t = None THEN 0 ELSE t.at

Credential(p) == INSTANCE RotatingCredential WITH
    Shared <- TRUE, held <- AtOf(token[p]), stored <- AtOf(disk),
    spending <- refreshing[p] # None

CredentialKept ==
    /\ \A p \in Procs : Credential(p)!Init
    /\ [][\A p \in Procs : Credential(p)!Step]_vars
=============================================================================
