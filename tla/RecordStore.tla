------------------------------ MODULE RecordStore ------------------------------
(* The adapter oidc-provider stores the refresh tokens of a grant through:     *)
(* auth/server/store.ts over file-store.ts.                                    *)
(*                                                                             *)
(* A record is read, decrypted, encrypted and written in steps of their own,   *)
(* and under no lock; the index of a grant, which names the tokens a           *)
(* revocation must reach, is changed under the lock of that grant.  A write    *)
(* changes the map in memory, then rewrites the whole file or throws.          *)
(*                                                                             *)
(* What another grant stores is independent, and a token that expires is as    *)
(* one destroyed: neither is modelled.                                         *)

CONSTANTS
    Tokens,      \* ids of refresh tokens
    Ops,         \* names for operations under way (a bound on their number)
    StoreFaults, \* whether a write of the file may fail
    None

Record == [consumed: BOOLEAN, current: BOOLEAN]

Op == [kind: {"upsert", "find", "consume"}, id: Tokens,
       at: {"naming", "resealing", "consuming"}, seen: Record \cup {None}]
      \cup [kind: {"revoke"}, at: {"unnaming"}]

\* What the constants are, assumed where they are declared for good.
RecordStoreAssumption == StoreFaults \in BOOLEAN /\ None \notin Record \cup Op

VARIABLES
    mem,      \* the map: each token's record, and the index of the grant, {} if none
    disk,     \* the file
    op,       \* operations under way, by the place each waits at
    issued,   \* tokens that exist or existed: the provider uses an id once
    unnamed,  \* history: tokens whose entry in the index was not written
    revived,  \* history: tokens written back after they had been removed
    rotated   \* history: the process started with a newer secret

store == <<mem, disk>>
history == <<issued, unnamed, revived, rotated>>
vars == <<store, op, history>>

-----------------------------------------------------------------------------
(* The store.                                                                 *)

\* The map becomes m; the file follows, or the write throws.
Write(m, ok) ==
    /\ mem' = m
    /\ disk' = IF ok THEN m ELSE disk
    /\ ok \/ StoreFaults

WithRecord(id, r) == [mem EXCEPT !.record[id] = r]

\* What an operation writes of a token, whatever has become of it since.
PutRecord(id, r, ok) ==
    /\ Write(WithRecord(id, r), ok)
    /\ revived' = IF mem.record[id] = None THEN revived \cup {id} ELSE revived

Goes(o, kind, id, at, seen) ==
    op' = [op EXCEPT ![o] = [kind |-> kind, id |-> id, at |-> at, seen |-> seen]]

Free(o) == op[o] = None
At(o, at) == op[o] # None /\ op[o].at = at
Ends(o) == op' = [op EXCEPT ![o] = None]

-----------------------------------------------------------------------------
(* upsert: the record, then its name in the index.                            *)

\* The record is written; if that throws, the index is not.
Upsert(o, id, ok) ==
    /\ Free(o) /\ id \notin issued /\ issued' = issued \cup {id}
    /\ Write(WithRecord(id, [consumed |-> FALSE, current |-> TRUE]), ok)
    /\ IF ok THEN Goes(o, "upsert", id, "naming", None) ELSE UNCHANGED op
    /\ unnamed' = IF ok THEN unnamed ELSE unnamed \cup {id}
    /\ UNCHANGED <<revived, rotated>>

\* A mutant that waits for no lock:
Unlocked == TRUE

\* The lock of the grant's index: a revocation keeps it across its two steps.
LockFree == \A o \in Ops : ~At(o, "unnaming")

\* Under the lock, the index is read and written with the new name.
NameToken(o, ok) ==
    /\ At(o, "naming") /\ LockFree
    /\ Write([mem EXCEPT !.index = @ \cup {op[o].id}], ok)
    /\ Ends(o)
    /\ unnamed' = IF ok THEN unnamed ELSE unnamed \cup {op[o].id}
    /\ UNCHANGED <<issued, revived, rotated>>

-----------------------------------------------------------------------------
(* find and consume: a record is read, and written back later.                *)

\* A mutant that re-seals whatever it reads:
Always(r) == TRUE

\* A record sealed under an older secret is written again under the newest.
MustReseal(r) == ~r.current

Read(o, kind, id) ==
    /\ Free(o) /\ mem.record[id] # None
    /\ LET r == mem.record[id] IN
       IF MustReseal(r) THEN Goes(o, kind, id, "resealing", r)
       ELSE kind = "consume" /\ Goes(o, kind, id, "consuming", None)
    /\ UNCHANGED <<store, history>>

\* What was read is written under the newest secret; a throw ends the operation.
Reseal(o, ok) ==
    /\ At(o, "resealing")
    /\ PutRecord(op[o].id, [op[o].seen EXCEPT !.current = TRUE], ok)
    /\ IF ok /\ op[o].kind = "consume"
       THEN Goes(o, "consume", op[o].id, "consuming", None) ELSE Ends(o)
    /\ UNCHANGED <<issued, unnamed, rotated>>

Consume(o, ok) ==
    /\ At(o, "consuming")
    /\ PutRecord(op[o].id, [consumed |-> TRUE, current |-> TRUE], ok)
    /\ Ends(o)
    /\ UNCHANGED <<issued, unnamed, rotated>>

\* One delete, which writes nothing when there is no such record.
Destroy(id, ok) ==
    /\ mem.record[id] # None
    /\ Write(WithRecord(id, None), ok)
    /\ UNCHANGED <<op, history>>

-----------------------------------------------------------------------------
(* revokeByGrantId: the tokens of the index, then the index.                  *)

Without(m, ids) == [m EXCEPT !.record = [id \in Tokens |-> IF id \in ids THEN None ELSE @[id]]]

\* Each named token is deleted, and each delete writes the file: when one throws,
\* the index stays, and the file lacks those deleted by the last that did not.
DeleteNamed(o, ok) ==
    /\ Free(o) /\ LockFree /\ mem.index # {}
    /\ mem' = Without(mem, mem.index)
    /\ IF ok THEN /\ disk' = IF mem' = mem THEN disk ELSE mem'
                  /\ op' = [op EXCEPT ![o] = [kind |-> "revoke", at |-> "unnaming"]]
             ELSE /\ StoreFaults /\ mem' # mem
                  /\ \/ UNCHANGED disk
                     \/ \E ids \in SUBSET mem.index : disk' = Without(mem, ids)
                  /\ UNCHANGED op
    /\ UNCHANGED history

DeleteIndex(o, ok) ==
    /\ At(o, "unnaming")
    /\ Write([mem EXCEPT !.index = {}], ok)
    /\ Ends(o)
    /\ UNCHANGED history

-----------------------------------------------------------------------------

\* The process stops, and starts from its file, under the same secret or a newer.
Restart(newer) ==
    /\ LET Old(r) == IF r # None /\ newer THEN [r EXCEPT !.current = FALSE] ELSE r IN
       mem' = [disk EXCEPT !.record = [id \in Tokens |-> Old(disk.record[id])]]
    /\ disk' = mem'
    /\ op' = [o \in Ops |-> None]
    /\ unnamed' = unnamed \cup {op[o].id : o \in {p \in Ops : At(p, "naming")}}
    /\ rotated' = (rotated \/ newer)
    /\ UNCHANGED <<issued, revived>>

Init ==
    /\ mem = [record |-> [id \in Tokens |-> None], index |-> {}] /\ disk = mem
    /\ op = [o \in Ops |-> None]
    /\ issued = {} /\ unnamed = {} /\ revived = {} /\ rotated = FALSE

Next ==
    \/ \E o \in Ops, id \in Tokens :
          \/ \E ok \in BOOLEAN : Upsert(o, id, ok)
          \/ \E kind \in {"find", "consume"} : Read(o, kind, id)
    \/ \E o \in Ops, ok \in BOOLEAN :
          \/ NameToken(o, ok) \/ Reseal(o, ok) \/ Consume(o, ok)
          \/ DeleteNamed(o, ok) \/ DeleteIndex(o, ok)
    \/ \E id \in Tokens, ok \in BOOLEAN : Destroy(id, ok)
    \/ \E newer \in BOOLEAN : Restart(newer)

Spec == Init /\ [][Next]_vars

-----------------------------------------------------------------------------
(* Properties.                                                                *)

TypeOK ==
    /\ {mem, disk} \subseteq [record: [Tokens -> Record \cup {None}],
                              index: SUBSET Tokens]
    /\ op \in [Ops -> Op \cup {None}]
    /\ issued \subseteq Tokens /\ unnamed \subseteq issued /\ revived \subseteq issued
    /\ rotated \in BOOLEAN

\* A revocation reaches every refresh token of its grant, those excepted whose
\* name the store failed to keep, or that a read begun before their removal wrote
\* back (upsert, store.ts:165; the re-seal, store.ts:98; consume, store.ts:178).
RevocationReaches ==
    \A id \in Tokens : mem.record[id] # None =>
        \/ id \in mem.index
        \/ id \in unnamed \cup revived
        \/ \E o \in Ops : At(o, "naming") /\ op[o].id = id

\* Until a secret is rotated, a token that was consumed is never seen unconsumed
\* again, so that its replay is noticed, unless the file was behind at a restart.
ConsumedForGood ==
    [][\A id \in Tokens :
          /\ ~rotated' /\ mem.record[id] # None /\ mem.record[id].consumed
          /\ mem'.record[id] # None /\ ~mem'.record[id].consumed
          => \E newer \in BOOLEAN : Restart(newer)]_vars
================================================================================
