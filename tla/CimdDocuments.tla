----------------------------- MODULE CimdDocuments -----------------------------
(* The copy kept of one client's metadata document, served while the client's  *)
(* host fails: auth/server/cimd-documents.ts, and the requests of oidc-provider *)
(* (external) that use it.                                                     *)
(*                                                                             *)
(* The provider keeps the client it resolved for as long as the document may   *)
(* be cached.  A token issued to a client keeps its document, unless the last  *)
(* resolution was the kept copy: an outage must not renew the copy it uses.    *)
EXTENDS Naturals

CONSTANTS
    Requests,   \* names for token requests under way (a bound on their number)
    CacheAge,   \* how long a document may be cached
    STALE_MAX_AGE,  \* how long a kept copy may
    LAST_GOOD_TTL,  \* how long a copy is kept
    MaxLatency, \* how long a request takes at most
    MaxNow,     \* bound: where time stops
    None

\* What the constants are, assumed where they are declared for good.
CimdAssumption ==
    /\ {CacheAge, STALE_MAX_AGE, LAST_GOOD_TTL, MaxLatency, MaxNow} \subseteq Nat
    /\ STALE_MAX_AGE <= CacheAge
    /\ None \notin Nat

VARIABLES
    now,
    host,    \* what the client's host answers: "down" is a passing failure, or a
             \* page that is not the document
    copy,    \* when the kept copy was kept
    stale,   \* the last resolution was the copy
    cached,  \* until when the provider keeps the client it resolved
    request,
    lastUp   \* history: when the host last answered with the document

vars == <<now, host, copy, stale, cached, request, lastUp>>

Hosts == {"up", "down", "gone"}

-----------------------------------------------------------------------------

Goes(r, at, since) == request' = [request EXCEPT ![r] = [at |-> at, since |-> since]]
Ends(r) == request' = [request EXCEPT ![r] = None]
At(r, at) == request[r] # None /\ request[r].at = at
KeptUntil(at) == at + LAST_GOOD_TTL

\* A token request resolves its client: the cached one, or a fetch.
Begin(r) ==
    /\ request[r] = None
    /\ Goes(r, IF cached > now THEN "granting" ELSE "fetching", now)
    /\ UNCHANGED <<now, host, copy, stale, cached, lastUp>>

\* The host answers.  A document is used as it is; a passing failure falls back to
\* the copy; a host that says the document is gone ends the request.
Fetched(r) ==
    /\ At(r, "fetching")
    /\ \/ /\ host = "up"
          /\ stale' = FALSE /\ cached' = now + CacheAge /\ lastUp' = now
          /\ Goes(r, "granting", request[r].since)
       \/ /\ host = "down" /\ Goes(r, "falling", request[r].since)
          /\ UNCHANGED <<stale, cached, lastUp>>
       \/ host = "gone" /\ Ends(r) /\ UNCHANGED <<stale, cached, lastUp>>
    /\ UNCHANGED <<now, host, copy>>

\* The copy is read and served, if it is still kept.
FallBack(r) ==
    /\ At(r, "falling")
    /\ IF copy # None /\ KeptUntil(copy) > now
       THEN /\ stale' = TRUE /\ cached' = now + STALE_MAX_AGE
            /\ Goes(r, "granting", request[r].since)
       ELSE Ends(r) /\ UNCHANGED <<stale, cached>>
    /\ UNCHANGED <<now, host, copy, lastUp>>

\* The store cannot be read: as if no copy was kept.
ReadFails(r) ==
    /\ At(r, "falling")
    /\ Ends(r)
    /\ UNCHANGED <<now, host, copy, stale, cached, lastUp>>

\* A mutant that renews the copy whatever the client was resolved from:
Renews == TRUE

MayKeep == ~stale

\* The token is issued: the client's document is kept as of now, if it can be
\* written.
Granted(r) ==
    /\ At(r, "granting")
    /\ copy' \in IF MayKeep THEN {copy, now} ELSE {copy}
    /\ Ends(r)
    /\ UNCHANGED <<now, host, stale, cached, lastUp>>

Tick ==
    /\ now < MaxNow /\ now' = now + 1
    /\ \A r \in Requests : request[r] # None => now' <= request[r].since + MaxLatency
    /\ UNCHANGED <<host, copy, stale, cached, request, lastUp>>

HostChanges ==
    /\ host' \in Hosts \ {host}
    /\ UNCHANGED <<now, copy, stale, cached, request, lastUp>>

\* The process starts again: the copy is kept, the flag and the cache are not.
Restart ==
    /\ stale' = FALSE /\ cached' = 0
    /\ request' = [r \in Requests |-> None]
    /\ UNCHANGED <<now, host, copy, lastUp>>

Init ==
    /\ now = 0 /\ host = "up" /\ copy = None /\ stale = FALSE /\ cached = 0
    /\ request = [r \in Requests |-> None]
    /\ lastUp = 0

Next ==
    \/ \E r \in Requests :
          \/ Begin(r) \/ Fetched(r) \/ FallBack(r) \/ ReadFails(r) \/ Granted(r)
    \/ Tick \/ HostChanges \/ Restart

Spec == Init /\ [][Next]_vars

-----------------------------------------------------------------------------
(* Properties.                                                                *)

TypeOK ==
    /\ now \in 0 .. MaxNow /\ host \in Hosts /\ copy \in 0 .. now \cup {None}
    /\ stale \in BOOLEAN /\ cached \in 0 .. now + CacheAge /\ lastUp \in 0 .. now
    /\ request \in [Requests -> [at: {"fetching", "falling", "granting"},
                                 since: 0 .. now] \cup {None}]

\* An outage ends the sign-ins of its client once the copy's time is over: a copy
\* is kept as of a time the host had answered shortly before, so that nothing
\* done during the outage renews it (cimd-documents.ts:59-60, 164).
OutageEnds == copy # None => copy <= lastUp + CacheAge + MaxLatency
================================================================================
