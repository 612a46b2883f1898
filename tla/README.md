# A verification project for zendesk-mcp-server

TLA+ models of the server under `src/src`, TLC runs over small instances of
them, and TLAPS proofs of their most important properties for every size.
`PROJECT.json` lists the runs, the lines of code each definition stands for, the
mutants that show each property can fail, the hazards the properties are aimed
at and the theorems.

    tlc -workers 2 -config TokenStore.cfg MCTokenStore.tla     # a run
    tlapm TokenStoreProofs.tla                                 # a proof module

## The system

The server exposes a Zendesk account to MCP clients. It runs in one of two
ways: over stdio, one process per user, which signs its user in to Zendesk
through a browser and keeps the token; or over HTTP, one process for many
users, which is an OAuth authorization server of its own and keeps the Zendesk
tokens behind the grants it gives out. Everything runs in Node's single thread:
the steps that interleave are callbacks and continuations after `await`, and
other processes on the same machine meet it only through files.

| Component | State it keeps | Operations | What makes it correct | Modelled in |
| --- | --- | --- | --- | --- |
| Token store, stdio (`auth/token-store.ts`, `token-persistence.ts`) | the token, the refresh every caller shares, the sign-in under way, the token file | getToken, getTokenSilently, invalidate, the four-hourly refresh, restart | one refresh at a time spends the rotating token; no caller gets a token about to be replaced; the file follows the memory; every call returns | `TokenStore` |
| Browser sign-in (`auth/browser-oauth.ts`) | the callback port, the flow's timeout, codes being exchanged | start, callback, timeout, server error | it settles once and always, and never races a refresh | `TokenStore` |
| Zendesk grants, HTTP (`auth/server/zendesk-grant.ts`, `upstream.ts`) | one Zendesk token per grant, sealed in the record store; a lock per grant | save, accessToken, remove | one refresh per grant at a time; a removed grant stays removed; an outage loses nothing | `ZendeskGrants` |
| Record store (`auth/server/store.ts`, `file-store.ts`, `expiring-map.ts`) | sealed records with an expiry, grant and uid indices, one JSON file | upsert, find, consume, destroy, revokeByGrantId | a revocation reaches every record of its grant; a consumed token stays consumed | `RecordStore`, `ZendeskGrants` |
| Authorization server (`auth/server/authorization-server.ts`, `provider.ts`) | grants denied in memory | verifyAccessToken, revokeGrant, claims at each mint, the provider's own revocations | a revoked grant's tokens stop working at once, whatever the store does | `ZendeskGrants`, `HttpTransport`, partly |
| Sign-in interactions (`auth/server/interactions.ts`, `cimd-documents.ts`, `trusted-clients.ts`) | PKCE verifiers and upstream tokens, taken once; remembered consents; kept client documents | show, upstream callback, consent | a grant gets the tokens of its own user, for a client its user agreed to; an outage of a client's host ends | `SignIns`, `CimdDocuments` |
| HTTP transport (`transports/http.ts`, `utils/grant-registry.ts`) | 2025 sessions; per-grant entries with a count of requests in flight | initialize, dispatch, delete, idle sweep, revocation | an entry closes once, and not under a request; nothing outlives its grant | `HttpTransport`, partly |
| SLA alerts (`utils/sla-poller.ts`, `listen-feed.ts`, `sla-service.ts`, `scope-cache.ts`) | per-subscription content, the timer, cached scopes | subscribe, listen, tick, unsubscribe, close | what is listened to is polled; nothing is taken as announced that was not; a change is seen in the end | `SlaAlerts` |
| Stdio transport and shutdown (`transports/stdio.ts`, `utils/shutdown.ts`, `index.ts`) | where the start is, the cleanup, the watchdog | end of input, signals, watchdog | the process ends, and a clean end leaves nothing open | `Shutdown` |
| State files (`utils/state-store.ts`) | small JSON files shared by processes, a lock file | read, write, sweep | one sweeper at a time, no live file swept, no dead file kept | `StateFiles`, partly |
| Customizations (`customization/`) | the edit queue, the overlay in memory, its files | edit, apply, load, serve | edits are serial; what is served is what the files hold, even after a failed step | `Customizations`, partly |
| Zendesk client (`client/retry.ts`, `zendesk-api.ts`, `brands.ts`) | the attempts of one request; the brands' cached promise | fetchWithRetry, resolve | a write that may have been applied is not sent again, and its error says so | `ZendeskRequest`, `ToolCalls` |
| Tools (`tools/`) | none of their own; sequences of Zendesk calls | about 60 tools | a partial failure is reported as one; `--read-only` and `--brand-ids` hold | `ToolPlans`, `TicketTools`, `RequestTools`, `HelpCenterTools`, `ToolCalls` |
| Server assembly (`server.ts`, `routing/`, `dev/reload.ts`) | the registered tools of one MCP server | register, dispatch, reload | a generation is replaced as a whole or not at all, and no filter is passed by | `ServerAssembly` |
| Pure helpers (`utils/`, `config.ts`) | none | article order, durations, SLA urgency, pagination, validation, formatting | they compute what their name says | `ArticleOrder`, partly |
| Guidance (`guidance/`) | cached guidance texts | load, refresh | a failed load does not stick | not modelled |

How they interact: every tool call asks the token store (stdio) or the session
or grant entry (HTTP) for a Zendesk token and calls Zendesk through the client;
a 401 comes back as `onUnauthorized`, which is the token store's `invalidate`
over stdio and the authorization server's `revokeGrant` over HTTP. The
authorization server asks the Zendesk grants for a token at each mint and
removes them at each revocation; both keep what they know in the record store.
A sign-in ends in `approve`, which saves a Zendesk grant. The SLA poller asks
for a token without ever prompting. The customization service tells live
sessions to rebuild.

What is hard in it: continuations that act on state another one has changed
(every `await` in the token store, the grant lock, the record store, the poller
and the sessions); single-use refresh tokens, where a lost answer or a
duplicated request ends the sign-in; files shared by processes, whose writes may
fail; revocations that race what they revoke; sequences of writes that fail half
way; and shutdown racing everything.

## Modules

| Module | What it is |
| --- | --- |
| `RotatingCredential` | the abstract specification of a keeper of a single-use refresh token, implemented by the two modules below |
| `TokenStore` | the token store of a stdio process, over the token file and the browser sign-in |
| `ZendeskGrants` | the Zendesk tokens behind the HTTP server's grants, over the record store and its lock, with revocations |
| `RecordStore` | the adapter through which `oidc-provider` keeps the refresh tokens of a grant |
| `SignIns` | the login and consent steps of the authorization server |
| `CimdDocuments` | the copy of a client's metadata document, served while the client's host is down |
| `HttpTransport` | the sessions and per-grant entries of the HTTP transport, and what ends them |
| `SlaAlerts` | the alert poller of one connection, its subscriptions and the scope cache |
| `ZendeskRequest` | the attempts of one request to Zendesk |
| `ToolPlans`, `TicketTools`, `RequestTools`, `HelpCenterTools` | the tools as tables: each the sequence of its requests |
| `ToolCalls` | one call of any of these tools, request by request |
| `StateFiles` | processes that clean the directory they share |
| `Customizations` | the admins' edits, and what is served of them |
| `Shutdown` | how a process starts and ends |
| `ServerAssembly` | what a server registers under every mode and filter, and its reload |
| `ArticleOrder` | the reordering of a section's articles |
| `MC...` | their instances for TLC |
| `...Proofs` | their inductive invariants and theorems |

Zendesk, the clients and the `oidc-provider` library are external: they are
modelled by the answers and calls the code must be ready for. Operators called a
mutant in their comment are wrong on purpose and nothing uses them:
`PROJECT.json` pairs each with the definition it replaces and the property that
must then fail.

`MCAuthorizationParts` and `MCServerParts` put several small modules, which
share no state, into one run: a variable `part`, chosen at the start, says which
of them moves, so that TLC explores each as if alone. Their assumptions are
those of their parts, and their fairness that of each part.

### TokenStore

One action is what Node runs without returning to its event loop, except that a
caller resumed by a settled promise continues in an action of its own (`Wake`,
`Refused`), and no other event of its process happens before it has (`Quiet`):
that is the order of the microtask queue, without fixing the order of the
callers in it. State and code:

| In the model | In the code |
| --- | --- |
| `token`, `probed`, `refreshing`, `starting` | the variables of `createTokenStore`; `starting` is also `authorizeUrl`: "opening" before the port is bound, "listening" after |
| `flights`, `exchanges` | the requests `tryRefresh` and `exchangeCodeForToken` await; a flight remembers the token it was made from, as `current` does |
| `disk`, `writer` | the token file, and (history) the process it last was written by |
| `pc`, `held` | a caller: idle, waiting at `await refreshing`, sharing an attempt, waiting for the URL, using a token in a request |
| `live`, `aged`, `revoked`, `minted` | Zendesk: the refresh tokens it accepts, the access tokens near their end or revoked |

A token is a grant number for the access token, one for the refresh token,
what is known of its expiry (unknown, dated, or zero after `invalidate`) and
its scope. Zendesk may or may not rotate the refresh token, report an expiry or
narrow the scope. Any request may fail before it reaches Zendesk, at Zendesk,
or on the way back; any process may restart at any point; writes to the file
may fail when `DiskFaults` holds. `setToken` is called by tests only and is not
modelled, and neither are `dispose`, logging and the PKCE values.

What is worth proving right is that the refresh token is single-use and shared
by every caller: `RefreshDiscipline` (one refresh at a time, and what its
settling replaces is what it was made from), `SignInExcludesRefresh`,
`NoReplacedTokenServed` (a caller is never handed a token a refresh under way
is about to replace), `TokenNeverRegresses`, and `DurableToken` (whoever wrote
the file last finds its own token there, after a crash at any point).

### ZendeskGrants

| In the model | In the code |
| --- | --- |
| `mem`, `disk` | the map and the file of `createMemoryStore`; `zd` is a grant's record in `createZendeskGrants`, `own` our Grant and its refresh token, as what their seal says |
| `dirty`, `gone` | history: the last write threw; the removals that have run |
| `queue` | the promise chain of `createKeyLock`, per grant: its head holds the lock |
| `op` | the calls under way: a sign-in (`approve`), a token request (`mint`), a revocation after a 401 (`revoke`), one by the provider (`end`) |
| `denied` | `revokedGrants`, in memory only |
| `live`, `aged`, `minted` | Zendesk, as in `TokenStore` |

Every write changes the map and then rewrites the file, and may throw
(`StoreFaults`); the map keeps the change. A restart reads the file, possibly
under a new master secret, which makes every seal "old": a record with an old
seal is written again by the next read, and that write may throw too. The model
merges the read, the decryption and the re-seal of one record (`RecordStore` has
them apart), merges the destruction of a grant's records with the queueing of
the removal that follows, and has neither the 90-day expiry of records, nor the
hour after which a denial is forgotten, nor issued bearers. A grant is revoked
only once its client has completed the sign-in, since nobody holds a token of it
before.

### RecordStore

The same store seen from `oidc-provider`: the refresh tokens of one grant and
the index that names them. `find` and `consume` read a record, and write it back
after an `await` under no lock; `upsert` writes the record and then its name in
the index, under the lock of the grant; `revokeByGrantId` deletes what the index
names, then the index, under the same lock. `mem`, `disk` and `op` are as in
`ZendeskGrants`; `unnamed` and `revived` are histories of the two ways a token
escapes a revocation, which `RevocationReaches` shows are the only ones, and
`rotated` says that a re-seal is possible at all, without which `ConsumedForGood`
holds. Each token of another grant has an index of its own, so one grant is
enough.

### SignIns

| In the model | In the code |
| --- | --- |
| `verifiers` | `verifiers`, by the interaction they were made for |
| `asking` | callbacks that await Zendesk's token and identity |
| `tokens` | `upstreamTokens`, by user and client: `pendingKey` |
| `consents` | the records of `consentMemory` |
| `step`, `client`, `user`, `grant` | what `oidc-provider` knows of each authorization, and the tokens its grant was saved with |
| `agreed`, `disturbed` | history: what users have confirmed; sign-ins whose tokens expired, were lost to a failed write or met another sign-in |

The provider keeps the steps of one authorization in order and ends it once,
though a second answer may come while the first awaits the stores: it finds the
tokens taken and denies the sign-in, whose grant is then saved for no client
(`AnswerAgain`, `Overtake`). A sign-in that loses its tokens is told that it has expired; `LoneSignInKeepsTokens`
says when that may happen, and `GrantsJustified` that nothing worse does.

### CimdDocuments

One client, its host, the copy the server keeps and the cache of the provider,
in a time of ticks: how long a document may be cached, how long a kept copy may,
how long a copy is kept and how long a token request takes are constants.
`OutageEnds` bounds the age of the copy by the host's last answer: a token
issued during an outage must not renew what it was issued from, and one issued
just before may, by as much as the cache and one request allow.

### HttpTransport

| In the model | In the code |
| --- | --- |
| `req` | a request inside `handleMcpRequest`: verified and its body being read, then in a session, counted in an entry, or a listen stream; `sent` is the grant whose token its Zendesk request carries |
| `entry`, `slot` | `GrantEntry` objects, and the `slots` of the registry; a closed entry remains while a request or a poll refers to it |
| `session` | `Session` objects, kept likewise |
| `idle` | `lastActivityAt` further back than the idle timeout |
| `denied` | `revokedGrants` of the authorization server, as `authenticate` sees them |

Between the verification of a bearer and the acquisition of the entry the body
is read: the grant may end and its entry close in between, and the request then
makes a new entry for a dead grant. The tokens, URIs and messages are left out,
and so is the surface (`/mcp` or `/mcp/admin`): it is part of a grant's owner,
because neither a session nor an entry is shared by two surfaces. A denial lasts
for ever here, since every bearer of the grant expires before the denial does.
`acquire` refuses an entry to another subject; a grant has one owner, so that
branch cannot be reached and is not modelled. Left out too: `close()` at
shutdown, and the alert pollers of sessions (those of entries are `Check` and
`CheckEnds`). The sweep looks at each entry when it drops it; the code walks a
list taken before, and checks that the slot still holds what the list says.

### SlaAlerts

| In the model | In the code |
| --- | --- |
| `era` | whether the client uses `resources/subscribe` or listen streams |
| `streams`, `listeners`, `attached` | the streams of `createListenFeed`, its counts, and whether the poller is still its sink |
| `fingerprints`, `timer`, `round` | the variables of `createSlaPoller` |
| `refresh` | each call of `refresh` under way, of the round or of a subscription |
| `load`, `entry` | `createScopeCache`: the load in flight that all who ask share, and the entry |
| `alerts`, `known` | Zendesk's alert set, as a number that grows with each change, and the last one the client has read |

An alert set is read through the view, the thresholds and the scope, whose
requests are `fetchScope` in `TicketTools`; here they are one load that answers
with the set of that moment. Checks that wait for one load are resumed together.

### ZendeskRequest, the tool tables and ToolCalls

A request is sent, lost before or after it reached Zendesk, answered, refused
or parked by a `Retry-After`, its body read or cut, and tried again as
`retry.ts` decides by method and kind of failure. `applied` counts how often
Zendesk has done what it asks; `note` is what the error says of that.

Each tool is a record: the namespace, whether it addresses a brand, whether it
declares itself read-only, and the sequence of its steps. A step is a request
by method, which may be unnecessary (`Optional`), repeated (`Each`), the walk of
a listing (`Pages`), caught when it fails (`Soft`, or `PastNotFound` for what is
gone only) or rethrown in a way that hides a 401 (`HidesUnauthorized`; handlers
that reword a 403 alone are not among these); a place where the handler may
answer or refuse early; or a write of the server's own state. A call runs the
plan of its tool, after the token and, for Help Center tools, the brand. What
requests carry and how answers are laid out is left out: a step that "may be
unnecessary" is nondeterministic.

A page of a listing says whether there is a next one and by which cursor, which
may be the one it was asked by or be missing. A walk takes one page; follows any
cursor (`free`); refuses one that does not move (`guarded`); stops at a cap of
pages with what it has (`capped` by cursor, `counted` by page number), which
leaves the call with a part of the listing (`partial`); or fails at the cap
rather than take a part for the whole (`whole`).

The brand: a call names a brand in the words of an entry of `--brand-ids` or in
others (`verbatim`). One named in other words, where several are listed, has the
entries looked up as well (phase `allow`); that lookup may fail, which leaves the
entries that are a subdomain as they stand (`BySubdomain`). An entry, and a
brand named, may be of no brand of the account. The brands are cached or walked,
each time.

### StateFiles, Customizations, Shutdown, ServerAssembly, ArticleOrder

`StateFiles`: `scope` is one entry of the directory, `lock` the lock file with
what its content says of its age, `sweep` the sweep each process is in, by the
`await` it is at. A sweep judges by the time it began (`spared`: the entry had
not expired then). `evicted` and `overtaken` are histories: a sweeper whose lock
another process removed, an entry written again after it was judged. A process
may crash, or fail to write the lock it has created, which then stays empty.

`Customizations`: `disk` is the tree of one name (its prompt, the entry of its
skill, another file of it), each file by the edit that wrote it; `memory`,
`catalog` and `servers` are the three places it is served from; `queue` and
`work` the edits. Writes, the record of authors and the read after it may fail.

`Shutdown`: where the start is, whether what it opened is open, whether the
client has gone, what the cleanup waits for, the watchdog, and how the process
ended. What a cleanup waits for may never settle; the watchdog fires.

`ServerAssembly`: a generation of tools is a sequence in which an edit may have
repeated a name; `registered` is what the server exposes, by name, with the
operations a proxy dispatches to. `renderToolSurface` is what `--print-tools`
prints for the same generation.

`ArticleOrder`: positions at Zendesk, ties shown in any order, and the handler
around `computePositionWrites`: the order read, the writes one by one, the order
read again. `TicketTools` and the others have the same tool as a plan; this
module has its arithmetic.

### RotatingCredential

Three numbers: the credential in memory, whether a refresh is spending it, and
the one in the file. A sign-in never overtakes a refresh, only the refresh that
spends a credential replaces it, and memory and file differ only by writes that
failed. `CredentialKept`, in both modules, says that each process (with
`Shared`: others write its file) and each grant is an instance of it. A step of
the system must be a step of every instance or leave it as it is.

## Runs

Each run names its properties in `PROJECT.json`.

| Run | Instance | What it shows |
| --- | --- | --- |
| `token_store` | 1 process, 2 callers (one never prompts), 2 requests at once, 2 grants | refreshes and sign-ins exclude each other; every call returns |
| `token_store_rotation` | the same, 3 grants | with a token replaced twice, nobody is handed a stale one and none comes back |
| `token_store_shared` | 2 processes, 1 caller, narrowed scopes, failing disk | durability, and the refinement of `RotatingCredential` |
| `token_store_outage` | as `token_store` | violation: an outage drops a good refresh token |
| `zendesk_grants` | 1 grant, 3 operations, 2 tokens, failing store, new secrets | one refresh per grant, removals final, outages lose nothing, refinement; every operation settles, and a removal takes effect that is queued or whose lookup has nothing to write |
| `http_transport` | 3 grants of 2 users, 1 with `write`, 2 requests, 1 session, 2 entries of one of the grants | counts and registry agree, entries close for cause, sessions stay with their user and with a scope their tools need, the streams of a dead grant end |
| `authorization_parts` | `RecordStore`: 2 tokens, 2 operations, failing writes, restarts, new secrets; `SignIns`: 3 sign-ins, 2 users, 2 clients (1 trusted), failing writes; `CimdDocuments`: 2 token requests, 9 ticks | what escapes a revocation, and nothing else does; a consumed token stays consumed; a grant gets its own user's tokens; an outage ends a kept copy |
| `sla_alerts` | 2 alert resources, one of which changes once, 2 listen streams or a subscribing client, the round and 2 checks at subscription, 1 failure | what is listened to is polled; nothing unseen is recorded as announced; changes are seen |
| `tools` | every tool, `--read-only` on and off, every kind of `--brand-ids`, 3 brands of which 2 may be listed and 1 by its subdomain, 3 attempts per request, 2 requests of a repeated step, 2 pages that move on and any number that do not, caps at 3 pages, every failure of every request | limits hold, answers and notes are true, a write is applied once, a call ends unless its cursor stands still in one of the three walks without a guard |
| `tools_reworded_401` | as `tools` | violation: a 401 reworded by `reorder_article` keeps the refused token |
| `server_parts` | `StateFiles`: 3 processes, 1 crash or failed write of the lock; `Customizations`: 4 edits, 2 faults; `Shutdown`: every order of a start and its ends; `ServerAssembly`: every generation of 2 tools, every mode and filter; `ArticleOrder`: 3 articles, 1 failure | sweeps, edits, ends, surfaces and reorders, each as below |
| `article_order_rerun` | 3 articles, 1 failure, the call twice | violation: an identical call after a partial failure does not resume |

Why these bounds are enough. A race here is between two continuations, and the
third actor at most is what makes one of them late: two callers and the timer in
the token store; a refresh, a removal and a second request on one lock; a
request that ends, one that comes and the sweep on one entry; a round and two
checks on one resource; two sign-ins that share a key and one that does not; a
sweeper, the one that takes its lock and the one that finds the lock gone. Two
minted tokens tell the old from the new, three tell a token rotated twice from a
token put back. Two processes are enough for a token file in which each sees
only "mine" or "not mine". One grant is enough for `ZendeskGrants`, where a
grant's steps touch the records, the lock and the tokens of that grant only,
except that a write carries the whole map to the file: `CleanFileMatches` is
proved for any number of them. Two entries are a closed one still in use and its
replacement. Three grants give a session of one user a second grant with `write`
or without to adopt, and a third one of another user; only one of them also
speaks the 2026 protocol (`Modern`), for sessions and entries share nothing but
their grants. The times of `CimdDocuments` keep the order of
the real ones (a request is shorter than the cache, the cache than the life of
a copy), and nine ticks leave room for a copy to be renewed and to end. Three
articles are an article moved, one it is moved next to and one behind the tie;
in `server_parts` two failures are needed to keep a `Customizations` edit and
its reload from succeeding, and four edits to reach a state a third edit finds
half written. Two rounds of a repeated step tell the first item from the last.
Pages that move on are finitely many for a listing that is finite, and two tell
the first from the last; a page that does not move on is asked for again without
any bound, which is what makes `CallEnds` say something: `circling` states are
cycles of the graph. A cap of three pages is beyond that bound, so that a walk
both ends before its cap and reaches it. Three brands are one that `--brand-ids`
lists by subdomain, one it lists otherwise and one it does not list.
What a larger instance could add to the safety properties is covered by the
proofs, which have no bounds but `MaxGrants` and `MaxTokens` as any natural number.

Deadlock is checked except where the system really stops: the handful of grants
of `http_transport` may all have ended (the real system gives out new ones); a
server of `sla_alerts` has closed; a process of `server_parts` has ended, or its
calls have been answered; the last call of `article_order_rerun` has.

### Fairness

- `TokenStore`: a resumed continuation runs; a port opens or fails to; the
  five-minute timeout settles a sign-in; a refresh or exchange settles, by its
  deadline if by nothing else; and a caller that uses a token again and again is
  answered in the end (strong fairness: the answer is possible at each turn).
- `ZendeskGrants`: an operation that can take its next step takes it. Requests
  to Zendesk have a deadline (`REQUEST_TIMEOUT_MS`), the lock serves in order,
  and a restart drops every operation. Nothing is assumed of Zendesk's answers.
- `HttpTransport`: time passes, the sweep's timer fires, and a stream whose
  entry was closed ends. Nothing is assumed of clients or of calls: neither has
  to end for `StreamsEndWithGrant`.
- `SlaAlerts`: the timer fires, a resumed check continues, a load ends (its
  requests have deadlines), a sent notification settles, a cache entry expires.
  Failures are finitely many; clients may leave at any time.
- `ToolCalls`: a call takes its next step: it awaits only its own requests,
  each of which ends by its deadline and is tried a bounded number of times.
- `StateFiles`: every process sweeps again, a lock nobody renews grows old.
- `Customizations`: the disk answers, with or without an error.
- `Shutdown`: over stdio the start completes, the input ends, the watchdog's
  timer fires. Nothing is assumed of a port, a cleanup or a peer.

## What is proved

For any sets of processes, callers, grants, requests, sessions, entries, tools and
articles; the only assumptions are the ones named `...Assumption` in each module,
which say that names are distinct and parameters of the right kind (and that
requests and articles are finitely many, so that they can be counted). Those of
`ServerAssembly` say two things of the tools: one that writes nothing says so,
preferences excepted, as the tests of the annotations ask of every tool, and a
name belongs to one namespace. TLC evaluates them on every run.

- `TokenStoreProofs`: `IInv` is `TypeOK`, the properties above and three more
  conjuncts. `CallersConsistent` says what a caller at each `await` knows (a
  caller that shares an attempt shares one that drops the token if it fails, so
  that a refused caller finds none); `ExchangesConsistent` that only an exchange
  of the sign-in under way may install a token; `GrantsOrdered` that tokens are
  numbered as minted. Without the first, two callers resumed by one settled
  attempt could each start a refresh; without the last, a refresh could install
  an older token.
- `ZendeskGrantsProofs`: `IInv` adds `LockOrder` (a queue holds each waiting
  operation once, and only its head has begun), `OperationsConsistent` (the one
  write made outside the lock meets nobody, since a new grant's id is new) and
  `TokensOrdered`. From the queue alone follows that a refresh under way is alone
  on its grant, hence that a removal cannot be undone by one. `OnlyRefusalsEnd`
  needs one more invariant, `RefusalsMeant`: a refused token stays refused.
- `HttpTransportProofs`: `IInv` adds `RequestsServed`: a request keeps the object
  it runs in, and an entry serves one grant. An open entry is the one in its
  grant's slot, so the request of a grant is counted where it will be counted
  out; the counter is the cardinality of the requests in flight, which one
  request joins or leaves at a time. `ClosedForCause` follows: a close at the end
  of a request finds a count of zero, hence no call.
- `ToolCallsProofs`: for any table of tools, brands and number of attempts.
  `IInv` is the type invariant and what a request knows of itself (a write that
  may have been applied is not tried again, the note follows from what was
  seen); it gives `AppliedOnce` and `NotesAreTrue`. `BooksInv` keeps the books
  of the call over its steps (which writes were applied, whether one was given
  up, whether the answer may still be "nothing changed"), `PartInv` what a call
  has left to do once a cap has cut a listing of it (`PartsHold`), and they give
  `AnswersAreTrue` for every table whose writes are not tolerated to fail
  (`WritesAreHard`), whose early ends come before the first write
  (`EndsComeFirst`), and whose tools that may show a part of a listing only read
  and decide nothing after it (`PartsAreShown`): the tables of this project
  satisfy all three, by evaluation in the run. `FirstInv` and the assumption that a
  tool declared read-only sends GET alone give `ActsWithinItsLimits`.
- `AuthorizationPartsProofs` is about the behaviours of `MCAuthorizationParts`,
  whose steps are those of one part: each part's invariant is proved over them.
  The record store: `RecordsInv` says of memory and of the file alike that a
  record is named by the grant's index, but for the ones the history excuses; it
  adds that a revocation which holds the lock has deleted what the index names
  before it deletes the index (`IndexDeleted`), and that only a record read under
  a secret rotated since is written again (`SealsCurrent`), from which
  `ConsumedForGood` follows.
  The sign-ins: `SignInsInv` adds that tokens wait under the key of their own
  sign-in (`TokensOwn`), that a sign-in has a grant from its consent on and has
  none before, and that what it remembers was agreed to. Tokens are taken and
  granted in one step, so that no two grants ever have the same, the grants left
  over by a sign-in that was denied while its consent was handled included.
  The documents: `DocumentsInv` bounds, besides the copy, what renews it:
  unless the last resolution was the copy, the client the provider keeps
  (`CacheFresh`) and the one a token request goes by (`GrantFresh`) are from a
  time the host answered at most `CacheAge` before. A client resolved from the
  copy keeps its flag until the host answers or the process starts again, and a
  restart forgets that client too: neither leads to a renewal.
- `SlaAlertsProofs`: `SlaInv` adds `Fresh` (there is a load in flight only
  without a cache entry, and neither is newer than the alerts) and `NextCovered`
  (what a refresh is about to announce is no newer than what the client would be
  answered), so that the set recorded after a notification is one the client has
  read. Each resource's counter is the cardinality of the streams that ask for
  it, which one stream joins or leaves at a time.
- `ServerPartsProofs`, in the same way, for four parts of `MCServerParts`. The
  state files: a process that sweeps owns the lock file unless another removed it
  (`HoldersOwn`), and of two only one can. The customizations: what an edit under
  way is still to write clashes with nothing stored (`PlanSafe`), for it was
  planned on a memory equal to the disk; and what a reload is about to serve is
  the disk (`ReloadCurrent`). The process: nothing is open before the start has
  gone on (`OpenedByStart`). The assembly: what is registered is what the
  configuration makes of the current generation, and nothing else is
  (`AssemblyInv`); the lemmas say how each mode cuts any generation into entries
  (`EveryEntryCut`, `EveryToolCut`, `EntriesApart`), from which the filters, the
  hints and the printed surface follow.
- `ArticleOrderProofs`: the algorithm first, for a section of any size. The order
  wanted is an order again, with the moved article at its slot and the others in
  their places (`Arranged`); the positions derived from it put that article
  strictly between its neighbours and keep apart whatever the others' positions
  kept apart (`GoesFacts`: the cascade ends at an article that clears the last
  one bumped, so that all after it do). Hence `WritesFacts`: a tie can still be
  broken either way by Zendesk, but never one that involves the moved article.
  The invariant of the handler (`OrderInv`) then says that a call writes what
  follows from the order and positions it found, and claims success only when
  they are at Zendesk. `ReorderTyped` adds the sections ordered automatically,
  whose positions follow no order: their greatest exists by a least
  counterexample (`Greatest`), the one induction the prover can be led through.
- In the first two, `CredentialImplemented` is the refinement: initial states map
  to initial states, and each action to a step of `RotatingCredential` or none.

Only model-checked: the liveness properties (`CallsReturn`, `OperationsSettle`,
`RevocationCompletes`, `StreamsEndWithGrant`, `ChangesAreSeen`, `CallEnds`,
`ExpiredGoes`, `EditsHaveTheirTurn`, `ProcessEnds`), since fairness is out of the
prover's reach, and the violations. Every invariant and every action property of
a passing run is proved. The type invariants are in no configuration but are
proved as well.

## Where the code and what is said of it differ

Three, each a run whose trace shows it:

- `token_store_outage`, `token-store.ts:176`: any failure of a refresh made on
  demand drops the token and its file; the troubleshooting guide says only an
  expired or invalid refresh token does.
- `tools_reworded_401`, `help-center.ts:848`: a 401 to a position write is
  rethrown as a plain error, so that the refused token is kept and replayed;
  `server.ts:81` says it is dropped.
- `article_order_rerun`, `article-order.ts:107`: the error of a failed reorder
  says that the identical call resumes (`help-center.ts:849`); it finds what was
  written in place and stops there, and two articles stay tied.

Others, met on the way; the properties hold beside them, as their comments or
the models' histories say:

- `token-store.ts:291`: `invalidate` acts on the token in memory, not on the one
  that was rejected: a late 401 costs a refresh.
- `browser-oauth.ts:324`: a code that arrives at the last moment is exchanged,
  the page says it worked (241), and the token is thrown away, for the timeout or
  a second callback had settled the sign-in. `CallsReturn` says only that every
  caller hears of an outcome.
- `authorization-server.ts:248`: a revocation whose lookup throws removes
  nothing, behind a log line that says the grant is revoked in this process.
- `authorization-server.ts:246`: a token request past the denial check mints a
  bearer that outlives the denial (comment at 175-176).
- `http.ts:545`: a 401 to a session's call ends the grant the session holds by
  then, which need not be the one Zendesk refused (comment at 535-536).
- `http.ts:713`: only the end of a request closes a revoked entry; after a 401 to
  the alert watch nothing does until a stream ends or the idle sweep.
- `store.ts:98`: after a rotation of the secret, a read that re-seals a record
  overlapping a `consume` writes the unconsumed record back. `ConsumedForGood`
  therefore speaks of a store whose seals are current.
- `help-center.ts:849`: when the re-read that verifies a reorder fails, the error
  says nothing of the writes already made.
- `help-center.ts:2096`: "already positioned" is answered for a section that
  sorts itself, before the check at 2111 that would refuse it.
- `zendesk-api.ts:123`: a body that breaks off after a success is an error
  without the note of `retry.ts:114` that the write may have been applied.
- `tickets.ts:1702` (`manage_tags`) and `update_article_section` read a whole
  value and write it back: of two calls one is lost. `settleForm`
  (`sla-alerts.ts:65`) likewise.
- `print.ts:35`: in single mode the printed surface has one proxy with every
  operation, where the server gives the preferences their own; the comment at
  58-59 says they agree. `PrintedIsRegistered` excepts this mode.
- `state-store.ts:123`: a cleanup lock that exists but is not written yet, or
  whose write failed, reads as abandoned (comment at 116-118).
- `state-store.ts:148`: a sweep that has read an expired entry removes a fresh one
  renamed over it since. `LiveEntryKept` excepts it (`overtaken`).
- `customization/model.ts:304`: a skill deletion that fails half way cannot be
  tried again, and its left files come back with a new `SKILL.md`.
- `dev/reload.ts:195`: after a failed rollback no tool is left, though the answer
  says the previous ones are live; of two overlapping reloads the one whose load
  ends last wins, were it the older.
- `fetchSectionOrder` (`help-center.ts:784`), `resolveViewId` (`tickets.ts:445`)
  and `readGroupIds` (`sla-scope.ts:102`) follow a repeated cursor for ever;
  `CallEnds` says that nothing else keeps a call from ending. A page that has
  more but no cursor is the last one to them, and to the capped walks, where
  `fetchAllBrands` refuses it. Its own guard compares a cursor with the one just
  sent, so that two cursors in turn would get past it.

## Not modelled

- Guidance (`guidance/`): texts fetched once and kept; a failed load is not
  cached, and nothing else depends on the order of its steps.
- `close()` of the HTTP transport, the alert pollers of 2025 sessions, and the
  walk of the sweep over a list taken before: see HttpTransport.
- What `oidc-provider` does between the hooks the server gives it, bearers among
  it, and the expiry of its records.
- The temporary files of `state-store.ts`, and what its callers keep in the files.
- The admins' tools, the limits on edits and the reading of their texts; an edit
  is a set of files and its author.
- The other pure helpers (durations, urgency, formatting, validation, the command
  line): single functions of their arguments which unit tests reach; so the
  tools' texts. The tables have what a tool sends, not what it says.
