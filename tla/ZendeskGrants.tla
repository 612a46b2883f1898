---------------------------- MODULE ZendeskGrants ----------------------------
(***************************************************************************)
(* The Zendesk tokens behind the grants of the HTTP server:                *)
(* src/src/auth/server/zendesk-grant.ts over the sealed record store       *)
(* (store.ts, file-store.ts), and the authorization server's revocations   *)
(* (authorization-server.ts).                                              *)
(*                                                                         *)
(* An operation on a grant's tokens takes the grant's lock, a queue of     *)
(* promises served in order.  The store is one map in memory and one file: *)
(* every write changes the map first and then rewrites the whole file,     *)
(* which may fail.  A record sealed under an older secret is rewritten     *)
(* when it is read.                                                        *)
(*                                                                         *)
(* One action is what Node runs without returning to its event loop.       *)
(* Zendesk is external, as in TokenStore.                                  *)
(***************************************************************************)
EXTENDS Naturals, Sequences

CONSTANTS
    Grants,      \* the ids of our grants
    Ops,         \* names for operations under way (a bound on their number)
    MaxTokens,   \* a bound on the tokens Zendesk mints
    StoreFaults, \* whether a write of the file may fail
    Refused,     \* Zendesk's refusal of a refresh token
    None

NoRefresh == 0
Minted == 1 .. MaxTokens

\* ZendeskTokenSet, and whether it is sealed under the newest secret.  Its refresh
\* token came with the access token, or with an earlier one.
Token == {t \in [at: Minted, rt: Minted \cup {NoRefresh}, dated: BOOLEAN, current: BOOLEAN] :
            t.rt <= t.at}

\* The store: `own` is our own record of the grant, as its seal has it.
Store == [zd: [Grants -> Token \cup {None}], own: [Grants -> {"absent", "old", "current"}]]

\* An operation: approve (a sign-in), mint (a token request), revoke (after a
\* 401 from Zendesk), end (the provider ended the grant).
Op == [kind: {"approve", "mint", "revoke", "end"}, grant: Grants,
       at: {"saving", "finding", "queued", "asking"},
       spends: Minted \cup {NoRefresh},   \* the refresh token it sent
       answer: Token \cup {None, Refused}]

ASSUME ConstantsAssumption ==
    /\ MaxTokens \in Nat
    /\ StoreFaults \in BOOLEAN
    /\ None \notin Token \cup Op \cup {Refused}
    /\ Refused \notin Token

VARIABLES
    mem,     \* the store in memory
    disk,    \* its file
    dirty,   \* history: the last write failed
    queue,   \* the lock of each grant: who holds it, then who waits
    op,      \* operations under way
    clients, \* grants whose client completed the sign-in
    denied,  \* revokedGrants
    gone,    \* history: grants whose removal has run in this process
    live,    \* refresh tokens Zendesk would accept
    aged,    \* tokens within the refresh margin of their expiry
    minted   \* the number of tokens Zendesk has minted

storage == <<mem, disk, dirty>>
lock == <<queue, op>>
zendesk == <<live, aged, minted>>
vars == <<storage, lock, clients, denied, gone, zendesk>>

-----------------------------------------------------------------------------
(* The store.                                                              *)

\* Records of g change: the map becomes m, and the file is rewritten whole or
\* the write throws.
Write(m, g, ok) ==
    /\ mem' = m
    /\ disk' = IF ok THEN m ELSE disk
    /\ dirty' = ~ok
    /\ ok \/ StoreFaults

WithTokens(g, t) == [mem EXCEPT !.zd[g] = t]
WithOwn(g, s) == [mem EXCEPT !.own[g] = s]

\* Deleting what is not there writes nothing.
DeleteTokens(g, ok) ==
    IF mem.zd[g] = None THEN ok /\ UNCHANGED storage
                        ELSE Write(WithTokens(g, None), g, ok)

\* A read of our own record rewrites it when its seal is old.
ReadOwn(g, ok) ==
    IF mem.own[g] = "old" THEN Write(WithOwn(g, "current"), g, ok)
                          ELSE ok /\ UNCHANGED storage

-----------------------------------------------------------------------------
(* The lock and the operations under way.                                  *)

Free(o) == op[o] = None

NewOp(kind, g, at) == [kind |-> kind, grant |-> g, at |-> at,
                         spends |-> NoRefresh, answer |-> None]

Begin(o, kind, g, at) == op' = [op EXCEPT ![o] = NewOp(kind, g, at)]

Enqueue(o, g) == queue' = [queue EXCEPT ![g] = Append(@, o)]

Holds(o) ==
    /\ op[o] # None /\ op[o].at \in {"queued", "asking"}
    /\ queue[op[o].grant] # <<>> /\ Head(queue[op[o].grant]) = o

\* A mutant of the lock: an operation need not wait for its turn.
NeedNotWait(o) == op[o] # None /\ op[o].at \in {"queued", "asking"}

MayRun(o) == Holds(o)

\* A mutant that keeps the lock:
SettleHolding(o) == op' = [op EXCEPT ![o] = None] /\ UNCHANGED queue

\* The operation settles and hands the lock on.
Settle(o) ==
    /\ op' = [op EXCEPT ![o] = None]
    /\ queue' = [queue EXCEPT ![op[o].grant] = Tail(@)]

-----------------------------------------------------------------------------
(* Signing in: approve saves the grant, then the tokens Zendesk has minted. *)

\* A grant's id is new: nothing has been stored under it.
New(g) ==
    /\ g \notin clients /\ mem.own[g] = "absent" /\ disk.own[g] = "absent"
    /\ \A o \in Ops : op[o] # None => op[o].grant # g

Approve(o, g) ==
    LET n == minted + 1 IN
    /\ Free(o) /\ New(g) /\ n \in Minted
    /\ minted' = n
    /\ \E refreshable, dated \in BOOLEAN :
         LET t == [at |-> n, rt |-> IF refreshable THEN n ELSE NoRefresh,
                   dated |-> dated, current |-> TRUE] IN
         /\ live' = IF refreshable THEN live \cup {n} ELSE live
         /\ \/ /\ Write(WithOwn(g, "current"), g, TRUE)
               /\ op' = [op EXCEPT ![o] = [NewOp("approve", g, "saving") EXCEPT !.answer = t]]
            \/ /\ Write(WithOwn(g, "current"), g, FALSE)
               /\ UNCHANGED op
    /\ UNCHANGED <<queue, clients, denied, gone, aged>>

\* ZendeskGrants.save, which takes no lock.  Only once it is done does the
\* client get its code.
SaveTokens(o) ==
    LET g == op[o].grant IN
    /\ op[o] # None /\ op[o].at = "saving"
    /\ \E ok \in BOOLEAN :
         /\ Write(WithTokens(g, op[o].answer), g, ok)
         /\ clients' = IF ok THEN clients \cup {g} ELSE clients
    /\ op' = [op EXCEPT ![o] = None]
    /\ UNCHANGED <<queue, denied, gone, zendesk>>
-----------------------------------------------------------------------------
(* A token request: extraTokenClaims asks for a Zendesk token at each mint. *)

Mint(o, g) ==
    /\ Free(o) /\ g \in clients /\ mem.own[g] # "absent"
    /\ \/ ReadOwn(g, TRUE) /\ Begin(o, "mint", g, "queued") /\ Enqueue(o, g)
       \/ ReadOwn(g, FALSE) /\ UNCHANGED lock
    /\ UNCHANGED <<clients, denied, gone, zendesk>>

Fresh(t) == ~t.dated \/ t.at \notin aged

\* accessToken, its turn come: it reads the record (rewriting one under an old
\* secret), and either settles or asks Zendesk for new tokens.
Read(o) ==
    LET g == op[o].grant
        t == mem.zd[g] IN
    /\ MayRun(o) /\ op[o].kind = "mint" /\ op[o].at = "queued"
    /\ \/ /\ t = None                              \* grant unavailable
          /\ Settle(o) /\ UNCHANGED storage
       \/ /\ t # None /\ ~t.current                \* the rewrite throws
          /\ Write(WithTokens(g, [t EXCEPT !.current = TRUE]), g, FALSE)
          /\ Settle(o)
       \/ /\ t # None
          /\ IF t.current THEN UNCHANGED storage
             ELSE Write(WithTokens(g, [t EXCEPT !.current = TRUE]), g, TRUE)
          /\ IF Fresh(t) \/ t.rt = NoRefresh       \* served, or unavailable
             THEN Settle(o)
             ELSE /\ op' = [op EXCEPT ![o].at = "asking", ![o].spends = t.rt]
                  /\ UNCHANGED queue
    /\ UNCHANGED <<clients, denied, gone, zendesk>>

Asking(o) == op[o] # None /\ op[o].at = "asking"

\* Zendesk rotates the token, or refuses one that is spent or revoked.
ZendeskAnswers(o) ==
    LET rt == op[o].spends
        n == minted + 1 IN
    /\ Asking(o) /\ op[o].answer = None
    /\ \/ /\ rt \in live /\ n \in Minted
          /\ minted' = n
          /\ \E rotates, dated \in BOOLEAN :
               /\ live' = IF rotates THEN (live \ {rt}) \cup {n} ELSE live
               /\ op' = [op EXCEPT ![o].answer =
                    [at |-> n, rt |-> IF rotates THEN n ELSE rt,
                     dated |-> dated, current |-> TRUE]]
       \/ /\ rt \notin live
          /\ op' = [op EXCEPT ![o].answer = Refused]
          /\ UNCHANGED <<live, minted>>
    /\ UNCHANGED <<storage, queue, clients, denied, gone, aged>>

\* The refreshed tokens are stored; the caller gets them once they are.
Refreshed(o) ==
    LET g == op[o].grant
        t == op[o].answer IN
    /\ Asking(o) /\ t \notin {None, Refused} /\ MayRun(o)
    /\ \E ok \in BOOLEAN : Write(WithTokens(g, t), g, ok)
    /\ Settle(o)
    /\ UNCHANGED <<clients, denied, gone, zendesk>>

\* isRefusal, and a mutant of it that takes an outage for a refusal.
RefusalOrOutage(a) == a \in {None, Refused}

Refusal(a) == a = Refused

\* Only a refusal ends the grant.  Any other failure (Zendesk out of reach, the
\* deadline, the answer lost) leaves the record as it is.
RefreshFails(o) ==
    LET a == op[o].answer IN
    /\ Asking(o) /\ MayRun(o)
    /\ \/ Refusal(a) /\ \E ok \in BOOLEAN : DeleteTokens(op[o].grant, ok)
       \/ ~Refusal(a) /\ UNCHANGED storage
    /\ Settle(o)
    /\ UNCHANGED <<clients, denied, gone, zendesk>>

-----------------------------------------------------------------------------
(* Revocations.                                                            *)

\* Zendesk answered 401 to a tool call: revokeGrant denies the grant in memory,
\* then looks its record up ...
Revoke(o, g) ==
    /\ Free(o) /\ g \in clients
    /\ denied' = denied \cup {g}
    /\ Begin(o, "revoke", g, "finding")
    /\ UNCHANGED <<storage, queue, clients, gone, zendesk>>

\* ... which may throw (a rewrite under the newest secret): it is logged and
\* nothing else is done.
FindThrows(o) ==
    /\ op[o] # None /\ op[o].at = "finding"
    /\ ReadOwn(op[o].grant, FALSE)
    /\ op' = [op EXCEPT ![o] = None]
    /\ UNCHANGED <<queue, clients, denied, gone, zendesk>>

\* Otherwise our records are destroyed and the removal of the tokens queued.
Find(o) ==
    LET g == op[o].grant IN
    /\ op[o] # None /\ op[o].at = "finding"
    /\ \/ mem.own[g] = "absent" /\ UNCHANGED storage
       \/ mem.own[g] # "absent" /\ \E ok \in BOOLEAN : Write(WithOwn(g, "absent"), g, ok)
    /\ op' = [op EXCEPT ![o].at = "queued"]
    /\ Enqueue(o, g)
    /\ UNCHANGED <<clients, denied, gone, zendesk>>

\* The provider ends a grant (a replayed refresh token, a revocation request),
\* destroys its records and says so: the tokens must go too.
ProviderEnds(o, g) ==
    /\ Free(o) /\ g \in clients /\ mem.own[g] # "absent"
    /\ Write(WithOwn(g, "absent"), g, TRUE)
    /\ denied' = denied \cup {g}
    /\ Begin(o, "end", g, "queued")
    /\ Enqueue(o, g)
    /\ UNCHANGED <<clients, gone, zendesk>>

\* A mutant that does not wait for the lock:
RemoveAtOnce(o) ==
    LET g == op[o].grant IN
    /\ op[o] # None /\ op[o].at = "queued" /\ op[o].kind \in {"revoke", "end"}
    /\ \E ok \in BOOLEAN : DeleteTokens(g, ok)
    /\ gone' = gone \cup {g}
    /\ op' = [op EXCEPT ![o] = None]
    /\ queue' = [queue EXCEPT ![g] = SelectSeq(@, LAMBDA p : p # o)]
    /\ UNCHANGED <<clients, denied, zendesk>>

\* remove, its turn come.  A write that throws is logged.
Remove(o) ==
    LET g == op[o].grant IN
    /\ MayRun(o) /\ op[o].kind \in {"revoke", "end"}
    /\ \E ok \in BOOLEAN : DeleteTokens(g, ok)
    /\ gone' = gone \cup {g}
    /\ Settle(o)
    /\ UNCHANGED <<clients, denied, zendesk>>

-----------------------------------------------------------------------------
(* The process and Zendesk.                                                *)

Age(n) ==
    /\ n \in 1 .. minted /\ n \notin aged /\ aged' = aged \cup {n}
    /\ UNCHANGED <<storage, lock, clients, denied, gone, live, minted>>

Expire(n) ==
    /\ n \in live /\ live' = live \ {n}
    /\ UNCHANGED <<storage, lock, clients, denied, gone, aged, minted>>

\* How the records read after a restart: a new secret makes every seal old.
Resealed(s, rotated) ==
    IF ~rotated THEN s
    ELSE [zd |-> [g \in Grants |-> IF s.zd[g] = None THEN None
                                   ELSE [s.zd[g] EXCEPT !.current = FALSE]],
          own |-> [g \in Grants |-> IF s.own[g] = "absent" THEN "absent" ELSE "old"]]

\* The process dies at any point and a new one reads the file, with the same
\* secret or with a new one before it.
Restart ==
    /\ \E rotated \in BOOLEAN : mem' = Resealed(disk, rotated) /\ disk' = mem'
    /\ dirty' = FALSE
    /\ queue' = [g \in Grants |-> <<>>]
    /\ op' = [o \in Ops |-> None]
    /\ denied' = {}
    /\ gone' = {g \in gone : disk.zd[g] = None}
    /\ UNCHANGED <<clients, zendesk>>

-----------------------------------------------------------------------------

Init ==
    /\ mem = [zd |-> [g \in Grants |-> None], own |-> [g \in Grants |-> "absent"]]
    /\ disk = mem /\ dirty = FALSE
    /\ queue = [g \in Grants |-> <<>>]
    /\ op = [o \in Ops |-> None]
    /\ clients = {} /\ denied = {} /\ gone = {}
    /\ live = {} /\ aged = {} /\ minted = 0

Step(o) == \/ SaveTokens(o) \/ Read(o) \/ Refreshed(o) \/ RefreshFails(o)
           \/ FindThrows(o) \/ Find(o) \/ Remove(o)

Next ==
    \/ \E o \in Ops, g \in Grants :
         Approve(o, g) \/ Mint(o, g) \/ Revoke(o, g) \/ ProviderEnds(o, g)
    \/ \E o \in Ops : Step(o) \/ ZendeskAnswers(o)
    \/ \E n \in Minted : Age(n) \/ Expire(n)
    \/ Restart

Spec == Init /\ [][Next]_vars

\* Continuations run and every request to Zendesk ends, if only by its deadline.
FairSpec == Spec /\ \A o \in Ops : WF_vars(Step(o))

-----------------------------------------------------------------------------
(* Properties.                                                             *)

\* Every variable keeps its type.
TypeOK ==
    /\ mem \in Store /\ disk \in Store /\ dirty \in BOOLEAN
    /\ queue \in [Grants -> Seq(Ops)]
    /\ op \in [Ops -> Op \cup {None}]
    /\ clients \subseteq Grants /\ denied \subseteq Grants /\ gone \subseteq Grants
    /\ live \subseteq Minted /\ aged \subseteq Minted
    /\ minted \in Minted \cup {0}

\* A queue holds the operations that wait for the grant's lock, each once, and
\* only its head has begun.
LockOrder ==
    /\ \A g \in Grants : \A i \in 1 .. Len(queue[g]) :
         LET o == queue[g][i] IN
         /\ op[o] # None /\ op[o].grant = g
         /\ op[o].at = "queued" \/ (i = 1 /\ op[o].at = "asking")
         /\ \A j \in 1 .. Len(queue[g]) : queue[g][j] = o => j = i
    /\ \A o \in Ops :
         op[o] # None /\ op[o].at \in {"queued", "asking"} =>
            \E i \in 1 .. Len(queue[op[o].grant]) : queue[op[o].grant][i] = o

\* A refresh is made from the tokens its grant holds until it settles, and no
\* other refresh of that grant is under way: two would spend one single-use
\* token (the comment above createZendeskGrants).
OneRefreshPerGrant ==
    \A o \in Ops : Asking(o) =>
        /\ mem.zd[op[o].grant] # None
        /\ mem.zd[op[o].grant].rt = op[o].spends
        /\ op[o].spends # NoRefresh
        /\ \A p \in Ops : Asking(p) /\ op[p].grant = op[o].grant => p = o

\* What keeps those true from step to step.  A step belongs to its kind of
\* operation, which works on a grant whose client has signed in, or on one that
\* is still being approved and has no tokens yet.
OperationsConsistent ==
    /\ \A o \in Ops : op[o] # None =>
         /\ op[o].at = "saving" =>
              /\ op[o].answer \in Token /\ op[o].grant \notin clients
              /\ mem.zd[op[o].grant] = None /\ mem.own[op[o].grant] # "absent"
              /\ \A p \in Ops : op[p] # None /\ op[p].grant = op[o].grant => p = o
         /\ op[o].at # "saving" => op[o].grant \in clients
         /\ op[o].at = "asking" => op[o].kind = "mint"
         /\ op[o].at \in {"finding", "queued"} => op[o].answer = None
    /\ gone \subseteq clients
    /\ \A g \in Grants \ clients :
         /\ mem.own[g] = "absent" => mem.zd[g] = None
         /\ disk.own[g] = "absent" => disk.zd[g] = None

\* Tokens are numbered as they are minted; a refresh answers with a newer one.
TokensOrdered ==
    /\ \A g \in Grants : /\ mem.zd[g] # None => mem.zd[g].at <= minted
                         /\ disk.zd[g] # None => disk.zd[g].at <= minted
    /\ \A o \in Ops : op[o] # None /\ op[o].answer \in Token =>
         /\ op[o].answer.at <= minted
         /\ op[o].at = "asking" => op[o].answer.at > mem.zd[op[o].grant].at

\* Once a grant's tokens are removed nothing brings them back, a refresh that
\* was running included (the comment on remove).
RemovedStaysRemoved == \A g \in gone : mem.zd[g] = None

\* A write that succeeds leaves the file as the memory is, whatever failed
\* before it: "its next successful write persists the removal".
CleanFileMatches == ~dirty => disk = mem

\* The inductive invariant.
IInv == /\ TypeOK /\ LockOrder /\ OneRefreshPerGrant /\ OperationsConsistent
        /\ TokensOrdered /\ RemovedStaysRemoved /\ CleanFileMatches

\* A refusal is final: Zendesk will not accept that refresh token again.
RefusalsMeant ==
    /\ \A n \in live : n <= minted
    /\ \A o \in Ops : Asking(o) /\ op[o].answer = Refused => op[o].spends \notin live

\* A grant loses its tokens only to a refusal of a refresh token that Zendesk
\* no longer accepts, to a removal, or to a restart after a write that failed.
OnlyRefusedDropped ==
    [][\A g \in Grants : mem.zd[g] # None /\ mem'.zd[g] = None =>
         \/ mem.zd[g].rt \notin live
         \/ g \in gone' \/ disk.zd[g] = None]_vars

\* Every operation settles.
OperationsSettle == \A o \in Ops : op[o] # None ~> op[o] = None

\* A revocation that can no longer stop half way: its removal is queued, or the
\* lookup before it has nothing to rewrite, which alone may throw.
Irrevocable(o, g) ==
    /\ op[o] # None /\ op[o].kind \in {"revoke", "end"} /\ op[o].grant = g
    /\ op[o].at = "queued" \/ (op[o].at = "finding" /\ mem.own[g] # "old")

\* Such a revocation takes a grant's tokens and our record from memory whatever
\* the store does, unless the process restarts.
RevocationCompletes ==
    \A o \in Ops, g \in Grants :
        Irrevocable(o, g) ~> g \notin denied \/ (mem.zd[g] = None /\ mem.own[g] = "absent")

\* Each grant's tokens are kept as RotatingCredential promises.
AtOf(t) == IF t = None THEN 0 ELSE t.at

Credential(g) == INSTANCE RotatingCredential WITH
    Shared <- FALSE, held <- AtOf(mem.zd[g]), stored <- AtOf(disk.zd[g]),
    spending <- \E o \in Ops : Asking(o) /\ op[o].grant = g

CredentialKept ==
    /\ \A g \in Grants : Credential(g)!Init
    /\ [][\A g \in Grants : Credential(g)!Step]_vars
=============================================================================
