------------------------- MODULE MCAuthorizationParts -------------------------
(* Three parts of the authorization server, which share no state: its records, *)
(* its sign-ins and the client documents it keeps.  Each behaviour is one of   *)
(* the three; `part` says which.                                               *)
EXTENDS TLC

CONSTANTS
    None,
    Tokens, Ops, StoreFaults,
    SignIns, Users, Clients, Trusted, WriteFaults,
    Requests, CacheAge, STALE_MAX_AGE, LAST_GOOD_TTL, MaxLatency, MaxNow

VARIABLES
    part,
    mem, disk, op, issued, unnamed, revived, rotated,
    client, user, step, verifiers, asking, tokens, consents, grant, agreed, disturbed,
    now, host, copy, stale, cached, request, lastUp

Records == INSTANCE RecordStore
SignIn == INSTANCE SignIns
Documents == INSTANCE CimdDocuments

\* What each part assumes of its constants.
ASSUME PartsAssumption ==
    /\ Records!RecordStoreAssumption
    /\ SignIn!SignInsAssumption
    /\ Documents!CimdAssumption

records == <<mem, disk, op, issued, unnamed, revived, rotated>>
signIns == <<client, user, step, verifiers, asking, tokens, consents, grant, agreed, disturbed>>
documents == <<now, host, copy, stale, cached, request, lastUp>>
vars == <<part, records, signIns, documents>>

Init ==
    /\ part \in {"records", "sign-ins", "documents"}
    /\ Records!Init /\ Documents!Init
    /\ SignIn!Init
    /\ part # "sign-ins" => client = [s \in SignIns |-> CHOOSE c \in Clients : TRUE]

RecordsNext ==
    /\ part = "records" /\ Records!Next
    /\ UNCHANGED <<part, signIns, documents>>

SignInNext ==
    /\ part = "sign-ins" /\ SignIn!Next
    /\ UNCHANGED <<part, records, documents>>

DocumentsNext ==
    /\ part = "documents" /\ Documents!Next
    /\ UNCHANGED <<part, records, signIns>>

Next == RecordsNext \/ SignInNext \/ DocumentsNext

Spec == Init /\ [][Next]_vars

Symmetry == Permutations(Tokens) \cup Permutations(Users)

\* The types of the three parts.
TypeOK == Records!TypeOK /\ SignIn!TypeOK /\ Documents!TypeOK

\* The properties of the parts, as their modules state them.
RevocationReaches == Records!RevocationReaches
ConsumedForGood == Records!ConsumedForGood
GrantsJustified == SignIn!GrantsJustified
LoneSignInKeepsTokens == SignIn!LoneSignInKeepsTokens
OutageEnds == Documents!OutageEnds
=============================================================================
