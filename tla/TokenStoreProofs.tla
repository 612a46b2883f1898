-------------------------- MODULE TokenStoreProofs --------------------------
(* Theorems about TokenStore, for any number of processes and callers.     *)
EXTENDS TokenStore, TLAPS

USE DEF NoRefresh

-----------------------------------------------------------------------------
(* Type correctness.                                                       *)

\* What the operators on tokens return.
LEMMA TokenTypes ==
    ASSUME TypeOK
    PROVE  /\ Loaded \in Token \cup {None}
           /\ \A t \in Token \cup {None} : Invalidated(t) \in Token \cup {None}
           /\ \A b \in Token, a \in Answer : Rotated(b, a) \in Token
           /\ \A n \in Grants, r \in BOOLEAN, e \in {"unknown", "dated"},
                 s \in Scopes \cup {"omitted"} : Minted(n, r, e, s) \in Token
  BY ConstantsAssumption
     DEF TypeOK, Loaded, Invalidated, Rotated, Minted, Token, Answer, Grants

LEMMA LaunchType ==
    ASSUME TypeOK, NEW p \in Procs, NEW by \in {"caller", "timer"}, token[p] # None,
           Launch(p, by)
    PROVE  /\ flights' \subseteq Flight
           /\ refreshing' \in [Procs -> Slots \cup {None}]
  BY ConstantsAssumption DEF TypeOK, Launch, Flight

LEMMA PersistType ==
    ASSUME TypeOK, NEW p \in Procs, NEW t \in Token \cup {None}, Persist(p, t)
    PROVE  disk' \in Token \cup {None} /\ writer' \in Procs \cup {None}
  BY DEF TypeOK, Persist

\* The part of the state that Continue and Prompt may change.
LEMMA ContinueType ==
    ASSUME TypeOK, NEW c \in Calls, Continue(c) \/ Prompt(c)
    PROVE  /\ flights' \subseteq Flight
           /\ refreshing' \in [Procs -> Slots \cup {None}]
           /\ starting' \in [Procs -> {"no", "opening", "listening"}]
           /\ pc' \in [Calls -> {"idle", "waiting", "woken", "shared", "refused", "url", "using"}]
           /\ held' \in [Calls -> Grants \cup {None}]
<1> DEFINE p == ProcOf[c]
<1>1. p \in Procs
  BY ConstantsAssumption
<1>2. CASE Usable(p) /\ Serve(c)
  BY <1>1, <1>2 DEF TypeOK, Serve, Usable, Token
<1>3. CASE Refreshable(p) /\ JoinRefresh(c)
  <2>1. flights' \subseteq Flight /\ refreshing' \in [Procs -> Slots \cup {None}]
    BY <1>1, <1>3, LaunchType DEF TypeOK, JoinRefresh, Refreshable
  <2>2. QED
    BY <1>3, <2>1 DEF TypeOK, JoinRefresh
<1>4. CASE Prompt(c)
  BY <1>1, <1>4 DEF TypeOK, Prompt
<1>5. QED
  BY <1>2, <1>3, <1>4 DEF Continue

LEMMA WakeCallersType ==
    ASSUME TypeOK, NEW p \in Procs, NEW won \in BOOLEAN, WakeCallers(p, won),
           won => token'[p] \in Token
    PROVE  /\ pc' \in [Calls -> {"idle", "waiting", "woken", "shared", "refused", "url", "using"}]
           /\ held' \in [Calls -> Grants \cup {None}]
<1>1. won => token'[p].at \in Grants
  BY DEF Token
<1>2. QED
  BY <1>1 DEF TypeOK, WakeCallers, Mine

LEMMA NextType == TypeOK /\ [Next]_vars => TypeOK'
<1> SUFFICES ASSUME TypeOK, [Next]_vars PROVE TypeOK'
  OBVIOUS
<1> USE ConstantsAssumption
<1>1. ASSUME NEW c \in Calls, Ask(c) \/ Wake(c) \/ Refused(c)
      PROVE  TypeOK'
  <2>1. CASE Continue(c) \/ Prompt(c)
    BY <1>1, <2>1, ContinueType DEF TypeOK, Ask, Wake, Refused, zendesk, file
  <2>2. CASE ~(Continue(c) \/ Prompt(c))
    BY <1>1, <2>2 DEF TypeOK, Ask, Wake, Refused, zendesk, file
  <2>3. QED
    BY <2>1, <2>2
<1>2. ASSUME NEW c \in Calls, Accepted(c)
      PROVE  TypeOK'
  BY <1>2 DEF TypeOK, Accepted, store, zendesk, file
<1>3. ASSUME NEW c \in Calls, Rejected(c)
      PROVE  TypeOK'
  <2>1. ProcOf[c] \in Procs
    OBVIOUS
  <2>2. Invalidated(token[ProcOf[c]]) \in Token \cup {None}
    BY <2>1, TokenTypes DEF TypeOK
  <2>3. token' \in [Procs -> Token \cup {None}]
    BY <1>3, <2>1, <2>2 DEF TypeOK, Rejected
  <2>4. disk' \in Token \cup {None} /\ writer' \in Procs \cup {None}
    BY <1>3, <2>1, <2>3, PersistType DEF Rejected
  <2>5. QED
    BY <1>3, <2>3, <2>4 DEF TypeOK, Rejected, zendesk
<1>4. ASSUME NEW p \in Procs, Keepalive(p)
      PROVE  TypeOK'
  <2>1. flights' \subseteq Flight /\ refreshing' \in [Procs -> Slots \cup {None}]
    BY <1>4, LaunchType DEF Keepalive, Refreshable
  <2>2. QED
    BY <1>4, <2>1 DEF TypeOK, Keepalive, callers, zendesk, file
<1>5. ASSUME NEW p \in Procs, Listening(p) \/ ListenFails(p)
      PROVE  TypeOK'
  BY <1>5 DEF TypeOK, Listening, ListenFails, AnswerUrl, EndFlow, zendesk, file
<1>6. ASSUME NEW p \in Procs, Callback(p)
      PROVE  TypeOK'
  <2>1. PICK i \in Slots :
          exchanges' = exchanges \cup {[id |-> i, proc |-> p, live |-> TRUE]}
    BY <1>6 DEF Callback
  <2>2. [id |-> i, proc |-> p, live |-> TRUE] \in Exchange
    BY DEF Exchange
  <2>3. exchanges' \subseteq Exchange
    BY <2>1, <2>2 DEF TypeOK
  <2>4. QED
    BY <1>6, <2>3 DEF TypeOK, Callback, callers, zendesk, file
<1>7. ASSUME NEW p \in Procs
      PROVE  Orphan(p) \subseteq Exchange
  <2>1. ASSUME NEW x \in exchanges
        PROVE  x \in Exchange /\ [x EXCEPT !.live = FALSE] \in Exchange
    BY ZenonT(40) DEF TypeOK, Exchange
  <2>2. QED
    BY <2>1 DEF Orphan
<1>8. ASSUME NEW p \in Procs, FlowRejected(p)
      PROVE  TypeOK'
  BY <1>7, <1>8 DEF TypeOK, FlowRejected, EndFlow, callers, zendesk, file
<1>9. ASSUME NEW p \in Procs, Restart(p)
      PROVE  TypeOK'
  BY <1>9, TokenTypes DEF TypeOK, Restart, zendesk
<1>10. ASSUME NEW f \in flights, RefreshSucceeds(f)
       PROVE  TypeOK'
  <2>1. /\ f.proc \in Procs /\ f.base \in Token /\ f.answer \in Answer
    BY <1>10 DEF TypeOK, Flight, RefreshSucceeds
  <2>2. Rotated(f.base, f.answer) \in Token
    BY <2>1, TokenTypes
  <2>3. token' \in [Procs -> Token \cup {None}] /\ token'[f.proc] \in Token
    BY <1>10, <2>1, <2>2 DEF TypeOK, RefreshSucceeds
  <2>4. disk' \in Token \cup {None} /\ writer' \in Procs \cup {None}
    BY <1>10, <2>1, <2>3, PersistType DEF RefreshSucceeds
  <2>5. /\ pc' \in [Calls -> {"idle", "waiting", "woken", "shared", "refused", "url", "using"}]
        /\ held' \in [Calls -> Grants \cup {None}]
    BY <1>10, <2>1, <2>3, WakeCallersType DEF RefreshSucceeds
  <2>6. QED
    BY <1>10, <2>1, <2>3, <2>4, <2>5 DEF TypeOK, RefreshSucceeds, zendesk
<1>11. ASSUME NEW f \in flights, RefreshFails(f)
       PROVE  TypeOK'
  <2>1. f.proc \in Procs
    BY DEF TypeOK, Flight
  <2>2. token' \in [Procs -> Token \cup {None}]
    BY <1>11, <2>1 DEF TypeOK, RefreshFails
  <2>3. disk' \in Token \cup {None} /\ writer' \in Procs \cup {None}
    BY <1>11, <2>1, PersistType DEF RefreshFails, TypeOK, file
  <2>4. /\ pc' \in [Calls -> {"idle", "waiting", "woken", "shared", "refused", "url", "using"}]
        /\ held' \in [Calls -> Grants \cup {None}]
    BY <1>11, <2>1, WakeCallersType DEF RefreshFails
  <2>5. QED
    BY <1>11, <2>1, <2>2, <2>3, <2>4 DEF TypeOK, RefreshFails, zendesk
<1>12. ASSUME NEW f \in flights, ZendeskRefreshes(f)
       PROVE  TypeOK'
  <2>1. /\ f \in Flight /\ f.base \in Token
    BY DEF TypeOK, Flight
  <2>2. PICK rotates \in BOOLEAN, exp \in {"unknown", "dated"},
             s \in Scopes \cup {"omitted"} :
         /\ live' = IF rotates THEN (live \ {f.base.rt}) \cup {minted + 1} ELSE live
         /\ flights' = (flights \ {f}) \cup
              {[f EXCEPT !.answer =
                  [at |-> minted + 1, rt |-> IF rotates THEN minted + 1 ELSE NoRefresh,
                   exp |-> exp, scope |-> IF s = "omitted" THEN f.base.scope ELSE s]]}
    BY <1>12 DEF ZendeskRefreshes
  <2>3. minted + 1 \in Grants /\ minted' = minted + 1
    BY <1>12 DEF ZendeskRefreshes
  <2>4. f.base.scope \in Scopes
    BY <2>1 DEF Token
  <2> DEFINE a == [at |-> minted + 1, rt |-> IF rotates THEN minted + 1 ELSE NoRefresh,
                   exp |-> exp, scope |-> IF s = "omitted" THEN f.base.scope ELSE s]
  <2>5. a \in Answer
    BY <2>3, <2>4 DEF Answer
  <2>6. [f EXCEPT !.answer = a] \in Flight
    BY <2>1, <2>5 DEF Flight
  <2>7. flights' \subseteq Flight
    BY <2>2, <2>6 DEF TypeOK
  <2>8. live' \subseteq Grants
    BY <2>2, <2>3 DEF TypeOK
  <2>9. QED
    BY <1>12, <2>3, <2>7, <2>8 DEF TypeOK, ZendeskRefreshes, callers, file
<1>13. ASSUME NEW x \in exchanges, ExchangeSucceeds(x)
       PROVE  TypeOK'
  <2>1. x.proc \in Procs
    BY DEF TypeOK, Exchange
  <2>2. PICK r \in BOOLEAN, e \in {"unknown", "dated"}, s \in Scopes \cup {"omitted"} :
         /\ live' = IF r THEN live \cup {minted + 1} ELSE live
         /\ IF x.live
            THEN /\ token' = [token EXCEPT ![x.proc] = Minted(minted + 1, r, e, s)]
                 /\ probed' = [probed EXCEPT ![x.proc] = TRUE]
                 /\ Persist(x.proc, token'[x.proc])
                 /\ EndFlow(x.proc)
            ELSE UNCHANGED <<token, probed, file, starting>>
    BY <1>13 DEF ExchangeSucceeds
  <2>3. minted + 1 \in Grants /\ minted' = minted + 1
    BY <1>13 DEF ExchangeSucceeds
  <2>4. /\ token' \in [Procs -> Token \cup {None}]
        /\ disk' \in Token \cup {None} /\ writer' \in Procs \cup {None}
    <3>1. CASE x.live
      <4>1. Minted(minted + 1, r, e, s) \in Token
        BY <2>3, TokenTypes
      <4>2. token' \in [Procs -> Token \cup {None}]
        BY <2>1, <2>2, <3>1, <4>1 DEF TypeOK
      <4>3. QED
        BY <2>1, <2>2, <3>1, <4>2, PersistType
    <3>2. CASE ~x.live
      BY <2>2, <3>2 DEF TypeOK, file
    <3>3. QED
      BY <3>1, <3>2
  <2>5. exchanges' \subseteq Exchange
    BY <1>7, <1>13, <2>1 DEF TypeOK, ExchangeSucceeds
  <2>6. live' \subseteq Grants
    BY <2>2, <2>3 DEF TypeOK
  <2>7. probed' \in [Procs -> BOOLEAN] /\ starting' \in [Procs -> {"no", "opening", "listening"}]
    BY <2>1, <2>2 DEF TypeOK, EndFlow
  <2>8. QED
    BY <1>13, <2>3, <2>4, <2>5, <2>6, <2>7 DEF TypeOK, ExchangeSucceeds, callers
<1>14. ASSUME NEW x \in exchanges, ExchangeFails(x)
       PROVE  TypeOK'
  <2>1. x.proc \in Procs
    BY DEF TypeOK, Exchange
  <2>2. exchanges' \subseteq Exchange
    BY <1>7, <1>14, <2>1 DEF TypeOK, ExchangeFails
  <2>3. QED
    BY <1>14, <2>1, <2>2 DEF TypeOK, ExchangeFails, EndFlow, callers, zendesk, file
<1>15. ASSUME NEW n \in Grants, Age(n) \/ Revoke(n)
       PROVE  TypeOK'
  BY <1>15 DEF TypeOK, Age, Revoke, store, callers, file
<1>16. CASE UNCHANGED vars
  BY <1>16 DEF TypeOK, vars, store, callers, zendesk, file
<1>17. QED
  BY <1>1, <1>2, <1>3, <1>4, <1>5, <1>6, <1>8, <1>9, <1>10, <1>11, <1>12, <1>13,
     <1>14, <1>15, <1>16 DEF Next, Caller, Process

LEMMA InitType == Init => TypeOK
  BY ConstantsAssumption DEF Init, TypeOK, Loaded, Token, Grants

\* Every variable of the store keeps its type, whatever the callers, the
\* timers, the callback server and Zendesk do.
THEOREM TypeCorrect == Spec => []TypeOK
  BY InitType, NextType, PTL DEF Spec

-----------------------------------------------------------------------------
(* The inductive invariant.                                                *)

\* All of IInv but TypeOK, which NextType preserves.
Rest == /\ RefreshDiscipline /\ SignInExcludesRefresh /\ DurableToken
        /\ CallersConsistent /\ ExchangesConsistent /\ GrantsOrdered

\* A process has one request in flight at most, made from a token it can
\* refresh; `refreshing` tells whether there is one.
LEMMA OneFlight ==
    ASSUME IInv
    PROVE  /\ \A f, g \in flights : f.proc = g.proc => f = g
           /\ \A f \in flights : f.proc \in Procs /\ f.base \in Token /\ Refreshable(f.proc)
           /\ \A p \in Procs : refreshing[p] = None <=> \A f \in flights : f.proc # p
  BY ConstantsAssumption
     DEF IInv, TypeOK, RefreshDiscipline, SingleFlight, AttemptOwnsToken, Flight, Refreshable

\* A write that goes through leaves the file as the memory it came from.
LEMMA PersistDurable ==
    ASSUME TypeOK, TypeOK', DurableToken, NEW p \in Procs, Persist(p, token'[p]),
           \A q \in Procs \ {p} : token'[q] = token[q]
    PROVE  DurableToken'
  BY ConstantsAssumption DEF TypeOK, DurableToken, Persist

\* A new attempt of a process that had none.
LEMMA LaunchDiscipline ==
    ASSUME IInv, TypeOK', NEW p \in Procs, NEW by \in {"caller", "timer"}, Launch(p, by),
           Refreshable(p), refreshing[p] = None, UNCHANGED token
    PROVE  /\ RefreshDiscipline'
           /\ \A f \in flights' \ flights :
                 f.proc = p /\ f.base = token[p] /\ f.by = by /\ f.answer = None
           /\ flights \subseteq flights'
           /\ refreshing'[p] # None
           /\ \A q \in Procs \ {p} : refreshing'[q] = refreshing[q]
<1>1. PICK i \in Slots :
        /\ \A f \in flights : f.id # i
        /\ flights' = flights \cup
             {[id |-> i, proc |-> p, base |-> token[p], by |-> by, answer |-> None]}
        /\ refreshing' = [refreshing EXCEPT ![p] = i]
  BY DEF Launch
<1> DEFINE new == [id |-> i, proc |-> p, base |-> token[p], by |-> by, answer |-> None]
<1>2. /\ new.id = i /\ new.proc = p /\ new.base = token[p] /\ new.by = by
      /\ new.answer = None /\ flights' = flights \cup {new}
  BY <1>1
<1> HIDE DEF new
<1>3. \A f \in flights : f.proc # p
  BY OneFlight
<1>4. i # None /\ refreshing'[p] = i
  BY <1>1, ConstantsAssumption DEF IInv, TypeOK
<1>5. SingleFlight'
  BY <1>1, <1>2, <1>3, <1>4, OneFlight
     DEF IInv, TypeOK, RefreshDiscipline, SingleFlight
<1>6. AttemptOwnsToken'
  BY <1>2, ConstantsAssumption DEF IInv, RefreshDiscipline, AttemptOwnsToken, Refreshable
<1>7. QED
  BY <1>1, <1>2, <1>4, <1>5, <1>6 DEF IInv, TypeOK, RefreshDiscipline

\* Accepted only lets go of the caller's token.
LEMMA AcceptedInv ==
    ASSUME IInv, TypeOK', NEW c \in Calls, Accepted(c)
    PROVE  Rest'
<1> USE ConstantsAssumption, OneFlight DEF IInv, TypeOK, Accepted, store, zendesk, file
<1>1. RefreshDiscipline'
  BY DEF RefreshDiscipline, SingleFlight, AttemptOwnsToken, Flight
<1>2. SignInExcludesRefresh'
  BY DEF SignInExcludesRefresh, Refreshable
<1>3. DurableToken'
  BY DEF DurableToken
<1>4. CallersConsistent'
  BY DEF CallersConsistent, SingleFlight, Usable, NeedsRefresh
<1>5. ExchangesConsistent'
  BY DEF ExchangesConsistent, Exchange
<1>6. GrantsOrdered'
  BY DEF GrantsOrdered
<1>7. QED
  BY <1>1, <1>2, <1>3, <1>4, <1>5, <1>6 DEF Rest

\* A rejected token is marked expired, or dropped when nothing can refresh it.
LEMMA RejectedInv ==
    ASSUME IInv, TypeOK', NEW c \in Calls, Rejected(c)
    PROVE  Rest'
<1> USE ConstantsAssumption, OneFlight DEF IInv, TypeOK, Rejected, zendesk
<1> DEFINE p == ProcOf[c]
<1>a. /\ p \in Procs
      /\ Refreshable(p) => /\ token'[p] # None /\ token'[p].at = token[p].at
                           /\ token'[p].rt = token[p].rt /\ Refreshable(p)'
      /\ ~Refreshable(p) => token'[p] = None /\ ~Refreshable(p)'
      /\ \A q \in Procs \ {p} : token'[q] = token[q]
  BY DEF Invalidated, Refreshable, Token
<1>b. \A d \in Calls : pc'[d] \in Resumed => pc[d] \in Resumed /\ ProcOf[d] # p
  BY DEF Quiet, Mine, Resumed
<1>c. token'[p] # None => token[p] # None /\ token'[p].at = token[p].at
  BY <1>a DEF Refreshable
<1>1. RefreshDiscipline'
  <2>1. SingleFlight'
    BY DEF RefreshDiscipline, SingleFlight
  <2>2. AttemptOwnsToken'
    BY <1>a DEF RefreshDiscipline, AttemptOwnsToken
  <2>3. QED
    BY <2>1, <2>2 DEF RefreshDiscipline
<1>2. SignInExcludesRefresh'
  BY <1>a DEF SignInExcludesRefresh, Refreshable
<1>3. DurableToken'
  BY <1>a, PersistDurable
<1>4. CallersConsistent'
  BY <1>a, <1>b DEF CallersConsistent, Usable, NeedsRefresh, Resumed
<1>5. ExchangesConsistent'
  BY DEF ExchangesConsistent, Exchange
<1>6. GrantsOrdered'
  BY <1>a, <1>c DEF GrantsOrdered, Persist
<1>7. QED
  BY <1>1, <1>2, <1>3, <1>4, <1>5, <1>6 DEF Rest

\* The keepalive's attempt starts when no caller is resumed or shares one.
LEMMA KeepaliveInv ==
    ASSUME IInv, TypeOK', NEW p \in Procs, Keepalive(p)
    PROVE  Rest'
<1> USE ConstantsAssumption, OneFlight DEF IInv, TypeOK, Keepalive, zendesk, callers, file
<1>a. /\ RefreshDiscipline'
      /\ \A f \in flights' \ flights : f.proc = p /\ f.base = token[p] /\ f.answer = None
      /\ flights \subseteq flights' /\ refreshing'[p] # None
      /\ \A q \in Procs \ {p} : refreshing'[q] = refreshing[q]
  BY LaunchDiscipline
<1>1. RefreshDiscipline'
  BY <1>a
<1>2. SignInExcludesRefresh'
  BY <1>a DEF SignInExcludesRefresh, Refreshable
<1>3. DurableToken'
  BY DEF DurableToken
<1>4. CallersConsistent'
  BY <1>a DEF CallersConsistent, Usable, NeedsRefresh, Quiet, Mine, Resumed
<1>5. ExchangesConsistent'
  BY DEF ExchangesConsistent, Exchange
<1>6. GrantsOrdered'
  BY <1>a DEF GrantsOrdered, Refreshable
<1>7. QED
  BY <1>1, <1>2, <1>3, <1>4, <1>5, <1>6 DEF Rest

\* The callback server listens or fails to.
LEMMA ListenInv ==
    ASSUME IInv, TypeOK', NEW p \in Procs, Listening(p) \/ ListenFails(p)
    PROVE  Rest'
<1> USE ConstantsAssumption, OneFlight DEF IInv, TypeOK, Listening, ListenFails, EndFlow, AnswerUrl, zendesk, file, Refreshable
<1>1. RefreshDiscipline'
  BY DEF RefreshDiscipline, SingleFlight, AttemptOwnsToken, Flight
<1>2. SignInExcludesRefresh'
  BY DEF SignInExcludesRefresh, Refreshable
<1>3. DurableToken'
  BY DEF DurableToken
<1>4. CallersConsistent'
  BY DEF CallersConsistent, SingleFlight, Usable, NeedsRefresh
<1>5. ExchangesConsistent'
  BY DEF ExchangesConsistent, Exchange
<1>6. GrantsOrdered'
  BY DEF GrantsOrdered
<1>7. QED
  BY <1>1, <1>2, <1>3, <1>4, <1>5, <1>6 DEF Rest

\* A code to exchange belongs to the flow under way.
LEMMA CallbackInv ==
    ASSUME IInv, TypeOK', NEW p \in Procs, Callback(p)
    PROVE  Rest'
<1> USE ConstantsAssumption, OneFlight DEF IInv, TypeOK, Callback, zendesk, file, callers, Refreshable
<1>1. RefreshDiscipline'
  BY DEF RefreshDiscipline, SingleFlight, AttemptOwnsToken, Flight
<1>2. SignInExcludesRefresh'
  BY DEF SignInExcludesRefresh, Refreshable
<1>3. DurableToken'
  BY DEF DurableToken
<1>4. CallersConsistent'
  BY DEF CallersConsistent, SingleFlight, Usable, NeedsRefresh
<1>5. ExchangesConsistent'
  BY DEF ExchangesConsistent, Exchange
<1>6. GrantsOrdered'
  BY DEF GrantsOrdered
<1>7. QED
  BY <1>1, <1>2, <1>3, <1>4, <1>5, <1>6 DEF Rest

\* A flow that ends orphans its exchanges.
LEMMA FlowRejectedInv ==
    ASSUME IInv, TypeOK', NEW p \in Procs, FlowRejected(p)
    PROVE  Rest'
<1> USE ConstantsAssumption, OneFlight DEF IInv, TypeOK, FlowRejected, EndFlow, Orphan, Exchange, zendesk, file, callers, Refreshable
<1>1. RefreshDiscipline'
  BY DEF RefreshDiscipline, SingleFlight, AttemptOwnsToken, Flight
<1>2. SignInExcludesRefresh'
  BY DEF SignInExcludesRefresh, Refreshable
<1>3. DurableToken'
  BY DEF DurableToken
<1>4. CallersConsistent'
  BY DEF CallersConsistent, SingleFlight, Usable, NeedsRefresh
<1>5. ExchangesConsistent'
  BY DEF ExchangesConsistent, Exchange
<1>6. GrantsOrdered'
  BY DEF GrantsOrdered
<1>7. QED
  BY <1>1, <1>2, <1>3, <1>4, <1>5, <1>6 DEF Rest

\* A new process knows the file and nothing else.
LEMMA RestartInv ==
    ASSUME IInv, TypeOK', NEW p \in Procs, Restart(p)
    PROVE  Rest'
<1> USE ConstantsAssumption, OneFlight DEF IInv, TypeOK, Restart, Loaded, Mine, zendesk, Refreshable
<1>1. RefreshDiscipline'
  BY DEF RefreshDiscipline, SingleFlight, AttemptOwnsToken, Flight
<1>2. SignInExcludesRefresh'
  BY DEF SignInExcludesRefresh, Refreshable
<1>3. DurableToken'
  <2>1. ASSUME NEW q \in Procs, writer' = q
        PROVE  disk' = token'[q]
    <3>1. writer = q /\ (q = p => Loaded = disk)
      BY <2>1
    <3>2. disk = token[q]
      BY <3>1 DEF DurableToken
    <3>3. QED
      BY <3>1, <3>2
  <2>2. QED
    BY <2>1 DEF DurableToken
<1>4. CallersConsistent'
  BY DEF CallersConsistent, SingleFlight, Usable, NeedsRefresh
<1>5. ExchangesConsistent'
  BY DEF ExchangesConsistent, Exchange
<1>6. GrantsOrdered'
  BY DEF GrantsOrdered
<1>7. QED
  BY <1>1, <1>2, <1>3, <1>4, <1>5, <1>6 DEF Rest

\* The answer installs a newer token over the one it was made from.
LEMMA RefreshSucceedsInv ==
    ASSUME IInv, TypeOK', NEW f \in flights, RefreshSucceeds(f)
    PROVE  Rest'
<1> USE ConstantsAssumption, OneFlight DEF IInv, TypeOK, RefreshSucceeds, Rotated, WakeCallers, Mine, Quiet, Resumed, zendesk, Refreshable
<1>1. RefreshDiscipline'
  BY SMTT(30) DEF RefreshDiscipline, SingleFlight, AttemptOwnsToken, Flight
<1>2. SignInExcludesRefresh'
  BY DEF SignInExcludesRefresh, Refreshable
<1>3. DurableToken'
  BY PersistDurable
<1>4. CallersConsistent'
  BY SMTT(30) DEF CallersConsistent, SingleFlight, Usable, NeedsRefresh
<1>5. ExchangesConsistent'
  BY DEF ExchangesConsistent, Exchange
<1>6. GrantsOrdered'
  BY DEF GrantsOrdered, Persist
<1>7. QED
  BY <1>1, <1>2, <1>3, <1>4, <1>5, <1>6 DEF Rest

\* A failure drops the token unless it was the keepalive's.
LEMMA RefreshFailsInv ==
    ASSUME IInv, TypeOK', NEW f \in flights, RefreshFails(f)
    PROVE  Rest'
<1> USE ConstantsAssumption, OneFlight DEF IInv, TypeOK, RefreshFails, WakeCallers, Mine, Quiet, Resumed, file, zendesk, Refreshable
<1>1. RefreshDiscipline'
  BY DEF RefreshDiscipline, SingleFlight, AttemptOwnsToken, Flight
<1>2. SignInExcludesRefresh'
  BY DEF SignInExcludesRefresh, Refreshable
<1>3. DurableToken'
  <2>1. CASE f.by = "caller"
    BY <2>1, PersistDurable
  <2>2. CASE f.by # "caller"
    BY <2>2 DEF DurableToken
  <2>3. QED
    BY <2>1, <2>2
<1>4. CallersConsistent'
  BY DEF CallersConsistent, SingleFlight, Usable, NeedsRefresh
<1>5. ExchangesConsistent'
  BY DEF ExchangesConsistent, Exchange
<1>6. GrantsOrdered'
  BY DEF GrantsOrdered, Persist
<1>7. QED
  BY <1>1, <1>2, <1>3, <1>4, <1>5, <1>6 DEF Rest

\* Zendesk's answer changes nothing but the request that carries it.
LEMMA ZendeskRefreshesInv ==
    ASSUME IInv, TypeOK', NEW f \in flights, ZendeskRefreshes(f)
    PROVE  Rest'
<1> USE ConstantsAssumption, OneFlight DEF IInv, TypeOK, ZendeskRefreshes, file, callers
<1>z. PICK rotates \in BOOLEAN, exp \in {"unknown", "dated"}, s \in Scopes \cup {"omitted"} :
        flights' = (flights \ {f}) \cup
          {[f EXCEPT !.answer =
              [at |-> minted + 1, rt |-> IF rotates THEN minted + 1 ELSE NoRefresh, exp |-> exp,
               scope |-> IF s = "omitted" THEN f.base.scope ELSE s]]}
  BY DEF ZendeskRefreshes
<1> DEFINE a == [at |-> minted + 1, rt |-> IF rotates THEN minted + 1 ELSE NoRefresh, exp |-> exp,
                 scope |-> IF s = "omitted" THEN f.base.scope ELSE s]
<1>y. a.at = minted + 1
  OBVIOUS
<1> HIDE DEF a
<1>a. /\ flights' = (flights \ {f}) \cup {[f EXCEPT !.answer = a]}
      /\ a.at = minted + 1
  BY <1>y, <1>z DEF a
<1> DEFINE g == [f EXCEPT !.answer = a]
<1>b. /\ g.id = f.id /\ g.proc = f.proc /\ g.base = f.base /\ g.by = f.by
      /\ g.answer = a /\ f \in Flight /\ flights' = (flights \ {f}) \cup {g}
  BY <1>a DEF Flight
<1> HIDE DEF g
<1>c. /\ UNCHANGED <<token, probed, refreshing, starting, exchanges, disk, writer, pc, held, aged>>
      /\ minted' = minted + 1 /\ minted \in Nat
  BY DEF Grants
<1> HIDE DEF ZendeskRefreshes
<1>1. RefreshDiscipline'
  <2>1. SingleFlight'
    BY <1>b, <1>c DEF RefreshDiscipline, SingleFlight
  <2>2. AttemptOwnsToken'
    BY <1>b, <1>c DEF RefreshDiscipline, AttemptOwnsToken
  <2>3. QED
    BY <2>1, <2>2 DEF RefreshDiscipline
<1>2. SignInExcludesRefresh'
  BY <1>b, <1>c DEF SignInExcludesRefresh, Refreshable
<1>3. DurableToken'
  BY <1>c DEF DurableToken
<1>4. CallersConsistent'
  BY <1>b, <1>c DEF CallersConsistent, Usable, NeedsRefresh
<1>5. ExchangesConsistent'
  BY <1>c DEF ExchangesConsistent
<1>6. GrantsOrdered'
  <2>1. f.base.at <= minted /\ f.base.at \in Nat
    BY DEF GrantsOrdered, Token, Grants
  <2>2. \A n \in Nat : n <= minted => n <= minted + 1
    BY <1>c
  <2>3. /\ \A q \in Procs : token[q] # None => token[q].at \in Nat
        /\ disk # None => disk.at \in Nat
        /\ \A h \in flights : h.base.at \in Nat /\ (h.answer # None => h.answer.at \in Nat)
    BY DEF Token, Answer, Grants, Flight
  <2>4. QED
    BY <1>a, <1>b, <1>c, <2>1, <2>2, <2>3 DEF GrantsOrdered
<1>7. QED
  BY <1>1, <1>2, <1>3, <1>4, <1>5, <1>6 DEF Rest

\* A code's token is installed only if its flow is still under way.
LEMMA ExchangeSucceedsInv ==
    ASSUME IInv, TypeOK', NEW x \in exchanges, ExchangeSucceeds(x)
    PROVE  Rest'
<1> USE ConstantsAssumption, OneFlight DEF IInv, TypeOK, ExchangeSucceeds, Minted, EndFlow, Orphan, Exchange, Mine, Quiet, Resumed, file, callers, Refreshable
<1> DEFINE p == x.proc
<1>a. /\ p \in Procs /\ minted \in Nat /\ minted' = minted + 1
      /\ x.live => /\ \A h \in flights : h.proc # p
                   /\ token'[p] # None /\ token'[p].at = minted + 1
                   /\ Persist(p, token'[p])
      /\ ~x.live => UNCHANGED <<token, file>>
      /\ \A q \in Procs \ {p} : token'[q] = token[q]
      /\ UNCHANGED <<refreshing, flights>>
  <2>1. p \in Procs /\ minted \in Nat /\ minted' = minted + 1
    BY DEF Grants
  <2>2. UNCHANGED <<refreshing, flights>> /\ (~x.live => UNCHANGED <<token, file>>)
    OBVIOUS
  <2>3. ASSUME x.live
        PROVE  /\ \A h \in flights : h.proc # p
               /\ token'[p] # None /\ token'[p].at = minted + 1
               /\ Persist(p, token'[p])
               /\ \A q \in Procs \ {p} : token'[q] = token[q]
    <3>1. PICK r \in BOOLEAN, e \in {"unknown", "dated"}, s \in Scopes \cup {"omitted"} :
            token' = [token EXCEPT ![p] = Minted(minted + 1, r, e, s)]
      BY <2>3
    <3>2. Minted(minted + 1, r, e, s).at = minted + 1
      OBVIOUS
    <3>3. minted + 1 \in Grants
      OBVIOUS
    <3>4. Minted(minted + 1, r, e, s) \in Token
      BY <3>3, TokenTypes
    <3>5. /\ token'[p] = Minted(minted + 1, r, e, s)
          /\ \A q \in Procs \ {p} : token'[q] = token[q]
      BY <2>1, <3>1
    <3>6. Persist(p, token'[p])
      BY <2>3
    <3>7. \A h \in flights : h.proc # p
      BY <2>3 DEF ExchangesConsistent, SignInExcludesRefresh
    <3>8. QED
      BY <3>2, <3>4, <3>5, <3>6, <3>7
  <2>4. QED
    BY <2>1, <2>2, <2>3
<1>1. RefreshDiscipline'
  <2>1. SingleFlight'
    BY <1>a DEF RefreshDiscipline, SingleFlight
  <2>2. AttemptOwnsToken'
    BY <1>a DEF RefreshDiscipline, AttemptOwnsToken, Flight
  <2>3. QED
    BY <2>1, <2>2 DEF RefreshDiscipline
<1>2. SignInExcludesRefresh'
  BY DEF SignInExcludesRefresh, Refreshable
<1>3. DurableToken'
  <2>1. CASE x.live
    BY <1>a, <2>1, PersistDurable
  <2>2. CASE ~x.live
    BY <1>a, <2>2 DEF DurableToken
  <2>3. QED
    BY <2>1, <2>2
<1>4. CallersConsistent'
  BY DEF CallersConsistent, SingleFlight, Usable, NeedsRefresh
<1>5. ExchangesConsistent'
  BY DEF ExchangesConsistent, Exchange
<1>6. GrantsOrdered'
  <2>1. \A n \in Nat : n <= minted => n <= minted + 1
    BY <1>a
  <2>2. /\ \A q \in Procs : token[q] # None => token[q].at \in Nat
        /\ disk # None => disk.at \in Nat
        /\ \A h \in flights : h.base.at \in Nat /\ (h.answer # None => h.answer.at \in Nat)
    BY DEF Token, Answer, Grants, Flight
  <2>3. CASE x.live
    BY <1>a, <2>1, <2>2, <2>3 DEF GrantsOrdered, Persist
  <2>4. CASE ~x.live
    BY <1>a, <2>1, <2>2, <2>4 DEF GrantsOrdered
  <2>5. QED
    BY <2>3, <2>4
<1>7. QED
  BY <1>1, <1>2, <1>3, <1>4, <1>5, <1>6 DEF Rest

\* A failed exchange ends its flow.
LEMMA ExchangeFailsInv ==
    ASSUME IInv, TypeOK', NEW x \in exchanges, ExchangeFails(x)
    PROVE  Rest'
<1> USE ConstantsAssumption, OneFlight DEF IInv, TypeOK, ExchangeFails, EndFlow, Orphan, Exchange, file, callers, zendesk, Refreshable
<1>1. RefreshDiscipline'
  BY DEF RefreshDiscipline, SingleFlight, AttemptOwnsToken, Flight
<1>2. SignInExcludesRefresh'
  BY DEF SignInExcludesRefresh, Refreshable
<1>3. DurableToken'
  BY DEF DurableToken
<1>4. CallersConsistent'
  BY DEF CallersConsistent, SingleFlight, Usable, NeedsRefresh
<1>5. ExchangesConsistent'
  BY DEF ExchangesConsistent, Exchange
<1>6. GrantsOrdered'
  BY DEF GrantsOrdered
<1>7. QED
  BY <1>1, <1>2, <1>3, <1>4, <1>5, <1>6 DEF Rest

\* Time passes, or a grant is revoked.
LEMMA ZendeskInv ==
    ASSUME IInv, TypeOK', NEW n \in Grants, Age(n) \/ Revoke(n)
    PROVE  Rest'
<1> USE ConstantsAssumption, OneFlight DEF IInv, TypeOK, Age, Revoke, store, callers, file, Refreshable
<1>1. RefreshDiscipline'
  BY DEF RefreshDiscipline, SingleFlight, AttemptOwnsToken, Flight
<1>2. SignInExcludesRefresh'
  BY DEF SignInExcludesRefresh, Refreshable
<1>3. DurableToken'
  BY DEF DurableToken
<1>4. CallersConsistent'
  BY DEF CallersConsistent, SingleFlight, Usable, NeedsRefresh
<1>5. ExchangesConsistent'
  BY DEF ExchangesConsistent, Exchange
<1>6. GrantsOrdered'
  BY DEF GrantsOrdered
<1>7. QED
  BY <1>1, <1>2, <1>3, <1>4, <1>5, <1>6 DEF Rest

\* A caller handed a token.
LEMMA ServeInv ==
    ASSUME IInv, TypeOK', NEW c \in Calls, Serve(c),
           UNCHANGED <<token, probed, exchanges, disk, writer, live, aged, revoked, minted>>
    PROVE  Rest'
<1> USE ConstantsAssumption, OneFlight DEF IInv, TypeOK, Serve, Refreshable
<1>1. RefreshDiscipline'
  BY DEF RefreshDiscipline, SingleFlight, AttemptOwnsToken, Flight
<1>2. SignInExcludesRefresh'
  BY DEF SignInExcludesRefresh, Refreshable
<1>3. DurableToken'
  BY DEF DurableToken
<1>4. CallersConsistent'
  BY DEF CallersConsistent, SingleFlight, Usable, NeedsRefresh
<1>5. ExchangesConsistent'
  BY DEF ExchangesConsistent, Exchange
<1>6. GrantsOrdered'
  BY DEF GrantsOrdered
<1>7. QED
  BY <1>1, <1>2, <1>3, <1>4, <1>5, <1>6 DEF Rest

\* A caller that waits.
LEMMA WaitInv ==
    ASSUME IInv, TypeOK', NEW c \in Calls, pc' = [pc EXCEPT ![c] = "waiting"],
           UNCHANGED <<flights, refreshing, starting>>,
           UNCHANGED <<token, probed, exchanges, disk, writer, live, aged, revoked, minted>>
    PROVE  Rest'
<1> USE ConstantsAssumption, OneFlight DEF IInv, TypeOK, Refreshable
<1>1. RefreshDiscipline'
  BY DEF RefreshDiscipline, SingleFlight, AttemptOwnsToken, Flight
<1>2. SignInExcludesRefresh'
  BY DEF SignInExcludesRefresh, Refreshable
<1>3. DurableToken'
  BY DEF DurableToken
<1>4. CallersConsistent'
  BY DEF CallersConsistent, SingleFlight, Usable, NeedsRefresh
<1>5. ExchangesConsistent'
  BY DEF ExchangesConsistent, Exchange
<1>6. GrantsOrdered'
  BY DEF GrantsOrdered
<1>7. QED
  BY <1>1, <1>2, <1>3, <1>4, <1>5, <1>6 DEF Rest

\* A caller that shares an attempt, or starts one when its process has none.
LEMMA JoinInv ==
    ASSUME IInv, TypeOK', NEW c \in Calls, ~Usable(ProcOf[c]), Refreshable(ProcOf[c]),
           refreshing[ProcOf[c]] = None \/ pc[c] = "woken", JoinRefresh(c),
           UNCHANGED <<token, probed, exchanges, disk, writer, live, aged, revoked, minted>>
    PROVE  Rest'
<1> USE ConstantsAssumption, OneFlight DEF IInv, TypeOK, JoinRefresh
<1> DEFINE p == ProcOf[c]
<1>a. /\ p \in Procs /\ RefreshDiscipline'
      /\ \A f \in flights' \ flights : f.proc = p /\ f.base = token[p] /\ f.by = "caller" /\ f.answer = None
      /\ flights \subseteq flights' /\ refreshing'[p] # None
      /\ \A q \in Procs \ {p} : refreshing'[q] = refreshing[q]
      /\ refreshing[p] = None \/ UNCHANGED <<flights, refreshing>>
  <2>1. p \in Procs /\ UNCHANGED token
    OBVIOUS
  <2>2. CASE refreshing[p] = None
    <3>1. Launch(p, "caller")
      BY <2>2
    <3>2. QED
      BY <2>1, <2>2, <3>1, LaunchDiscipline
  <2>3. CASE refreshing[p] # None
    <3>1. UNCHANGED <<flights, refreshing>>
      BY <2>3
    <3>2. RefreshDiscipline'
      BY <2>1, <3>1 DEF RefreshDiscipline, SingleFlight, AttemptOwnsToken
    <3>3. QED
      BY <2>1, <2>3, <3>1, <3>2
  <2>4. QED
    BY <2>2, <2>3
<1>1. RefreshDiscipline'
  BY <1>a
<1>2. SignInExcludesRefresh'
  BY <1>a DEF SignInExcludesRefresh, Refreshable
<1>3. DurableToken'
  BY DEF DurableToken
<1>4. CallersConsistent'
  <2>1. \A f \in flights' : f.proc = p => f.by = "caller"
    BY <1>a DEF CallersConsistent
  <2>2. \A q \in Procs \ {p} : \A f \in flights' : f.proc = q => f \in flights
    BY <1>a
  <2>3. UNCHANGED token /\ ~Usable(p)' /\ \A q \in Procs : Usable(q)' <=> Usable(q)
    BY DEF Usable, NeedsRefresh
  <2>4. /\ pc'[c] = "shared" /\ token[p] # None /\ \A d \in Calls \ {c} : pc'[d] = pc[d]
    BY DEF Refreshable
  <2>5. ASSUME NEW d \in Calls, ProcOf[d] = p
        PROVE  CallersConsistent!(d)'
    BY <1>a, <2>1, <2>3, <2>4, <2>5 DEF CallersConsistent
  <2>6. ASSUME NEW d \in Calls, ProcOf[d] # p
        PROVE  CallersConsistent!(d)'
    <3>1. /\ ProcOf[d] \in Procs /\ pc'[d] = pc[d] /\ refreshing'[ProcOf[d]] = refreshing[ProcOf[d]]
          /\ (Usable(ProcOf[d])' <=> Usable(ProcOf[d])) /\ token' = token
          /\ \A f \in flights' : f.proc = ProcOf[d] => f \in flights
      BY <1>a, <2>2, <2>3, <2>4, <2>6, ZenonT(40)
    <3>2. CallersConsistent!(d)
      BY DEF CallersConsistent
    <3>3. QED
      BY <3>1, <3>2
  <2>7. QED
    BY <2>5, <2>6 DEF CallersConsistent
<1>5. ExchangesConsistent'
  BY DEF ExchangesConsistent, Exchange
<1>6. GrantsOrdered'
  BY <1>a DEF GrantsOrdered, Refreshable
<1>7. QED
  BY <1>1, <1>2, <1>3, <1>4, <1>5, <1>6 DEF Rest

\* A caller told to sign in, when there is nothing to refresh with.
LEMMA PromptInv ==
    ASSUME IInv, TypeOK', NEW c \in Calls, ~Refreshable(ProcOf[c]), Prompt(c),
           UNCHANGED <<token, probed, exchanges, disk, writer, live, aged, revoked, minted>>
    PROVE  Rest'
<1> USE ConstantsAssumption, OneFlight DEF IInv, TypeOK, Prompt, Refreshable
<1>1. RefreshDiscipline'
  BY DEF RefreshDiscipline, SingleFlight, AttemptOwnsToken, Flight
<1>2. SignInExcludesRefresh'
  BY DEF SignInExcludesRefresh, Refreshable
<1>3. DurableToken'
  BY DEF DurableToken
<1>4. CallersConsistent'
  BY DEF CallersConsistent, SingleFlight, Usable, NeedsRefresh
<1>5. ExchangesConsistent'
  BY DEF ExchangesConsistent, Exchange
<1>6. GrantsOrdered'
  BY DEF GrantsOrdered
<1>7. QED
  BY <1>1, <1>2, <1>3, <1>4, <1>5, <1>6 DEF Rest

\* A step of a caller is one of the four above.
LEMMA CallerInv ==
    ASSUME IInv, TypeOK', NEW c \in Calls, Ask(c) \/ Wake(c) \/ Refused(c)
    PROVE  Rest'
<1> DEFINE p == ProcOf[c]
<1>1. UNCHANGED <<token, probed, exchanges, disk, writer, live, aged, revoked, minted>>
  BY DEF Ask, Wake, Refused, file, zendesk
<1>2. CASE Serve(c)
  BY <1>1, <1>2, ServeInv
<1>3. CASE Ask(c) /\ RefreshUnderWay(p)
  BY <1>1, <1>3, WaitInv DEF Ask
<1>4. CASE ~Usable(p) /\ Refreshable(p) /\ JoinRefresh(c)
           /\ (refreshing[p] = None \/ pc[c] = "woken")
  BY <1>1, <1>4, JoinInv
<1>5. CASE ~Refreshable(p) /\ Prompt(c)
  BY <1>1, <1>5, PromptInv
<1>6. CASE Refused(c)
  <2>1. ~Refreshable(p)
    BY <1>6 DEF Refused, IInv, CallersConsistent, Refreshable
  <2>2. QED
    BY <1>5, <1>6, <2>1 DEF Refused
<1>7. QED
  BY <1>2, <1>3, <1>4, <1>5, <1>6 DEF Ask, Wake, Continue, RefreshUnderWay

LEMMA InitInv == Init => IInv
<1> SUFFICES ASSUME Init PROVE IInv
  OBVIOUS
<1>1. TypeOK
  BY InitType
<1>2. disk # None => disk.at <= minted
  BY <1>1, ConstantsAssumption DEF Init, TypeOK, Token, Grants
<1>3. \A p \in Procs : token[p] # None => token[p] = disk
  BY DEF Init, Loaded
<1>4. QED
  BY <1>1, <1>2, <1>3, ConstantsAssumption
     DEF Init, IInv, RefreshDiscipline, SingleFlight, AttemptOwnsToken,
         SignInExcludesRefresh, DurableToken, CallersConsistent,
         ExchangesConsistent, GrantsOrdered

LEMMA StutterInv == IInv /\ UNCHANGED vars => IInv'
  BY DEF vars, store, file, callers, zendesk, IInv, TypeOK, RefreshDiscipline,
         SingleFlight, AttemptOwnsToken, SignInExcludesRefresh, Refreshable,
         DurableToken, CallersConsistent, Usable, NeedsRefresh,
         ExchangesConsistent, GrantsOrdered

LEMMA NextInv == IInv /\ [Next]_vars => IInv'
<1> SUFFICES ASSUME IInv, [Next]_vars PROVE IInv'
  OBVIOUS
<1>1. TypeOK'
  BY NextType DEF IInv
<1>2. CASE UNCHANGED vars
  BY <1>2, StutterInv
<1>3. ASSUME Next PROVE Rest'
  <2>1. CASE \E c \in Calls : Caller(c)
    BY <1>1, <2>1, CallerInv, AcceptedInv, RejectedInv DEF Caller
  <2>2. CASE \E p \in Procs : Process(p)
    BY <1>1, <2>2, KeepaliveInv, ListenInv, CallbackInv, FlowRejectedInv, RestartInv
       DEF Process
  <2>3. CASE \E f \in flights : RefreshSucceeds(f) \/ RefreshFails(f) \/ ZendeskRefreshes(f)
    BY <1>1, <2>3, RefreshSucceedsInv, RefreshFailsInv, ZendeskRefreshesInv
  <2>4. CASE \E x \in exchanges : ExchangeSucceeds(x) \/ ExchangeFails(x)
    BY <1>1, <2>4, ExchangeSucceedsInv, ExchangeFailsInv
  <2>5. CASE \E n \in Grants : Age(n) \/ Revoke(n)
    BY <1>1, <2>5, ZendeskInv
  <2>6. QED
    BY <1>3, <2>1, <2>2, <2>3, <2>4, <2>5 DEF Next
<1>4. QED
  BY <1>1, <1>2, <1>3 DEF IInv, Rest

LEMMA Inductive == Spec => []IInv
  BY InitInv, NextInv, PTL DEF Spec

-----------------------------------------------------------------------------
(* The theorems.                                                           *)

\* Two refreshes of one process never compete, and a refresh that settles
\* replaces or drops only the token it was made from.
THEOREM RefreshesDisciplined == Spec => []RefreshDiscipline
  BY Inductive, PTL DEF IInv

\* A browser sign-in and a refresh of one process never overlap.
THEOREM SignInAlone == Spec => []SignInExcludesRefresh
  BY Inductive, PTL DEF IInv

\* What a process wrote last is what it holds, whatever fails or restarts.
THEOREM TokenDurable == Spec => []DurableToken
  BY Inductive, PTL DEF IInv

\* No caller is handed a token that a refresh in flight is about to replace.
THEOREM NoneServedReplacedToken == Spec => NoReplacedTokenServed
<1> DEFINE A == \A c \in Calls :
         pc[c] # "using" /\ pc'[c] = "using" =>
            /\ token'[ProcOf[c]] # None
            /\ held'[c] = token'[ProcOf[c]].at
            /\ refreshing'[ProcOf[c]] = None
<1>1. IInv /\ [Next]_vars => A
  <2> SUFFICES ASSUME IInv, [Next]_vars, NEW c \in Calls,
                      pc[c] # "using", pc'[c] = "using"
               PROVE  /\ token'[ProcOf[c]] # None
                      /\ held'[c] = token'[ProcOf[c]].at
                      /\ refreshing'[ProcOf[c]] = None
    OBVIOUS
  <2> USE ConstantsAssumption DEF IInv, TypeOK
  <2>1. CASE Ask(c) \/ Wake(c) \/ Refused(c)
    <3>1. Serve(c) /\ Usable(ProcOf[c])
      BY <2>1 DEF Ask, Wake, Refused, Continue, JoinRefresh, Prompt
    <3>2. refreshing[ProcOf[c]] = None
      BY <2>1, <3>1 DEF Ask, Wake, Refused, RefreshUnderWay, Prompt, Serve,
                        CallersConsistent
    <3>3. QED
      BY <2>1, <3>1, <3>2 DEF Ask, Wake, Refused, Serve, Usable
  <2>2. CASE \E f \in flights : RefreshSucceeds(f)
    <3>1. PICK f \in flights : RefreshSucceeds(f)
      BY <2>2
    <3>2. f.proc \in Procs /\ f.base \in Token /\ f.answer \in Answer
      BY <3>1 DEF Flight, RefreshSucceeds
    <3>3. ProcOf[c] = f.proc /\ held'[c] = token'[f.proc].at
      BY <3>1 DEF RefreshSucceeds, WakeCallers, Mine
    <3>4. token'[f.proc] \in Token
      BY <3>1, <3>2, TokenTypes DEF RefreshSucceeds
    <3>5. QED
      BY <3>1, <3>2, <3>3, <3>4 DEF RefreshSucceeds
  <2>3. ASSUME NEW d \in Calls, Caller(d), d # c
        PROVE  pc'[c] = pc[c]
    BY <2>3 DEF Caller, Ask, Wake, Refused, Continue, Serve, JoinRefresh, Prompt,
                Accepted, Rejected
  <2>4. QED
    BY <2>1, <2>2, <2>3
       DEF Next, Caller, Process, Accepted, Rejected, Keepalive, Listening, ListenFails,
           AnswerUrl, Callback, FlowRejected, Restart, RefreshFails, WakeCallers,
           ZendeskRefreshes, ExchangeSucceeds, ExchangeFails, Age, Revoke, callers, vars
<1>2. QED
  BY <1>1, Inductive, PTL DEF Spec, NoReplacedTokenServed

\* A process only moves on to newer grants, until it starts again from the file.
THEOREM NeverRegresses == Spec => TokenNeverRegresses
<1> DEFINE A == \A p \in Procs :
         token[p] # None /\ token'[p] # None /\ token'[p].at < token[p].at =>
            token'[p] = Loaded
<1>1. IInv /\ [Next]_vars => A
  <2> SUFFICES ASSUME IInv, [Next]_vars, NEW p \in Procs,
                      token[p] # None, token'[p] # None, token'[p] # token[p],
                      token'[p].at < token[p].at
               PROVE  token'[p] = Loaded
    <3>1. ASSUME NEW t \in Token PROVE ~(t.at < t.at)
      BY DEF Token, Grants
    <3>2. QED
      BY <3>1 DEF IInv, TypeOK
  <2> USE ConstantsAssumption DEF IInv, TypeOK
  <2>1. token[p] \in Token /\ token[p].at \in Nat /\ minted \in Nat
    BY DEF Token, Grants
  <2>2. CASE \E c \in Calls : Rejected(c)
    BY <2>1, <2>2 DEF Rejected, Invalidated, Token
  <2>3. CASE \E f \in flights : RefreshSucceeds(f)
    <3>1. PICK f \in flights : RefreshSucceeds(f)
      BY <2>3
    <3>2. /\ f.proc \in Procs /\ f.base \in Token /\ f.answer \in Answer
          /\ f.answer.at \in Nat
      BY <3>1 DEF Flight, RefreshSucceeds, Answer, Grants
    <3>3. p = f.proc
      BY <3>1, <3>2 DEF RefreshSucceeds
    <3>4. token'[p].at = f.answer.at
      BY <3>1, <3>2, <3>3 DEF RefreshSucceeds, Rotated
    <3>5. token[p].at = f.base.at /\ f.base.at < f.answer.at
      BY <3>1, <3>2, <3>3
         DEF RefreshSucceeds, RefreshDiscipline, AttemptOwnsToken, GrantsOrdered
    <3>6. QED
      BY <2>1, <3>2, <3>4, <3>5
  <2>4. CASE \E x \in exchanges : ExchangeSucceeds(x)
    <3>1. PICK x \in exchanges : ExchangeSucceeds(x)
      BY <2>4
    <3>2. x.proc \in Procs
      BY DEF Exchange
    <3>3. PICK r \in BOOLEAN, e \in {"unknown", "dated"}, s \in Scopes \cup {"omitted"} :
            token' \in {token, [token EXCEPT ![x.proc] = Minted(minted + 1, r, e, s)]}
      BY <3>1 DEF ExchangeSucceeds
    <3>4. token'[p] = Minted(minted + 1, r, e, s)
      BY <3>2, <3>3
    <3>5. token'[p].at = minted + 1
      BY <3>4 DEF Minted
    <3>6. token[p].at <= minted
      BY DEF GrantsOrdered
    <3>7. QED
      BY <2>1, <3>5, <3>6
  <2>5. CASE \E q \in Procs : Restart(q)
    BY <2>5 DEF Restart
  <2>6. CASE \E f \in flights : RefreshFails(f)
    BY <2>6 DEF RefreshFails, Flight
  <2>7. QED
    BY <2>2, <2>3, <2>4, <2>5, <2>6
       DEF Next, Caller, Process, Ask, Wake, Refused, Accepted, Keepalive, Listening,
           ListenFails, Callback, FlowRejected, ZendeskRefreshes, ExchangeFails, Age,
           Revoke, store, vars
<1>2. QED
  BY <1>1, Inductive, PTL DEF Spec, TokenNeverRegresses

-----------------------------------------------------------------------------
(* The store implements RotatingCredential.                                *)

\* Whatever happens to the file, a process whose credential stays as it was
\* sees at most another process write.
LEMMA CredentialSame ==
    ASSUME NEW p \in Procs, AtOf(token'[p]) = AtOf(token[p]), disk' \in Token \cup {None},
           (refreshing'[p] # None) <=> (refreshing[p] # None)
    PROVE  Credential(p)!Step
<1>1. AtOf(disk') \in Nat
    BY DEF AtOf, Token, Grants
<1>2. Credential(p)!Foreign
    BY <1>1 DEF Credential!Foreign, AtOf
<1> QED BY <1>2 DEF Credential!Step, Credential!Next

LEMMA CredentialSpent ==
    ASSUME NEW p \in Procs, token[p] \in Token, token' = token, disk' = disk, token[p] # None,
           refreshing[p] = None, refreshing'[p] # None
    PROVE  Credential(p)!Step
<1>1. AtOf(token[p]) # 0
    BY DEF AtOf, Token, Grants
<1>2. Credential(p)!Spend
    BY <1>1 DEF Credential!Spend, Credential!Write, Credential!Absent, AtOf
<1> QED BY <1>2 DEF Credential!Step, Credential!Next

LEMMA CredentialUnspent ==
    ASSUME NEW p \in Procs, token' = token, disk' = disk,
           refreshing[p] # None, refreshing'[p] = None
    PROVE  Credential(p)!Step
<1>1. Credential(p)!Keep
    BY DEF Credential!Keep, AtOf
<1> QED BY <1>1 DEF Credential!Step, Credential!Next

LEMMA CredentialNewer ==
    ASSUME NEW p \in Procs, AtOf(token'[p]) \in Nat, AtOf(token'[p]) > AtOf(token[p]),
           disk' \in {disk, token'[p]}, refreshing'[p] = None
    PROVE  Credential(p)!Step
<1>1. CASE refreshing[p] # None
  <2>1. Credential(p)!Renew
      BY <1>1 DEF Credential!Renew, Credential!Write, AtOf
  <2> QED BY <2>1 DEF Credential!Step, Credential!Next
<1>2. CASE refreshing[p] = None
  <2>1. Credential(p)!Obtain
      BY <1>2 DEF Credential!Obtain, Credential!Write, AtOf
  <2> QED BY <2>1 DEF Credential!Step, Credential!Next
<1> QED BY <1>1, <1>2

LEMMA CredentialDropped ==
    ASSUME NEW p \in Procs, token'[p] = None, disk' \in {disk, None}, refreshing'[p] = None
    PROVE  Credential(p)!Step
<1>1. Credential(p)!Drop
    BY DEF Credential!Drop, Credential!Write, Credential!Absent, AtOf
<1> QED BY <1>1 DEF Credential!Step, Credential!Next

LEMMA CredentialRecovered ==
    ASSUME NEW p \in Procs, token'[p] = Loaded, disk' = disk, refreshing'[p] = None
    PROVE  Credential(p)!Step
<1>1. Credential(p)!Recover
    BY DEF Credential!Recover, Credential!Absent, AtOf, Loaded
<1> QED BY <1>1 DEF Credential!Step, Credential!Next

LEMMA CredentialStep ==
    ASSUME IInv, [Next]_vars, NEW p \in Procs
    PROVE  Credential(p)!Step
<1> USE DEF IInv, TypeOK
<1>0. TypeOK'
    BY NextType
<1>d. disk' \in Token \cup {None}
    BY <1>0
<1>f. refreshing[p] # None <=> \E f \in flights : f.proc = p
    BY ConstantsAssumption DEF RefreshDiscipline, SingleFlight, Flight, ConstantsAssumption
<1>same. ASSUME token' = token, refreshing' = refreshing PROVE Credential(p)!Step
    BY <1>d, <1>same, CredentialSame
<1>1. ASSUME token' = token, disk' = disk, NEW q \in Procs, token[q] # None,
             \/ refreshing' = refreshing
             \/ refreshing[q] = None /\ \E i \in Slots : refreshing' = [refreshing EXCEPT ![q] = i]
      PROVE  Credential(p)!Step
  <2>1. CASE refreshing' = refreshing
      BY <1>1, <1>same, <2>1
  <2>2. CASE refreshing' # refreshing /\ p = q
    <3>1. refreshing[p] = None /\ refreshing'[p] # None /\ token[p] \in Token
        BY <1>1, <2>2, ConstantsAssumption DEF ConstantsAssumption
    <3> QED BY <1>1, <2>2, <3>1, CredentialSpent
  <2>3. CASE refreshing' # refreshing /\ p # q
    <3>1. refreshing'[p] = refreshing[p]
        BY <1>1, <2>3
    <3> QED BY <1>1, <1>d, <3>1, CredentialSame
  <2> QED BY <2>1, <2>2, <2>3
<1>2. ASSUME NEW c \in Calls, Ask(c) \/ Wake(c) \/ Refused(c)
      PROVE  Credential(p)!Step
  <2>0. ProcOf[c] \in Procs
      BY ConstantsAssumption DEF ConstantsAssumption
  <2>1. token' = token /\ disk' = disk
      BY <1>2 DEF Ask, Wake, Refused, file
  <2>2. \/ refreshing' = refreshing
        \/ /\ token[ProcOf[c]] # None /\ refreshing[ProcOf[c]] = None
           /\ \E i \in Slots : refreshing' = [refreshing EXCEPT ![ProcOf[c]] = i]
      BY <1>2 DEF Ask, Wake, Refused, Continue, Serve, JoinRefresh, Launch, Prompt, Refreshable
  <2> QED BY <1>1, <1>same, <2>0, <2>1, <2>2
<1>3. ASSUME NEW q \in Procs, Keepalive(q)
      PROVE  Credential(p)!Step
  <2>1. token' = token /\ disk' = disk /\ token[q] # None /\ refreshing[q] = None
        /\ \E i \in Slots : refreshing' = [refreshing EXCEPT ![q] = i]
      BY <1>3 DEF Keepalive, Launch, Refreshable, file
  <2> QED BY <1>1, <2>1
<1>4. ASSUME NEW c \in Calls, Rejected(c)
      PROVE  Credential(p)!Step
  <2>1. /\ token' = [token EXCEPT ![ProcOf[c]] = Invalidated(@)]
        /\ refreshing' = refreshing /\ Persist(ProcOf[c], token'[ProcOf[c]])
      BY <1>4 DEF Rejected
  <2>2. CASE AtOf(token'[p]) = AtOf(token[p])
      BY <1>d, <2>1, <2>2, CredentialSame
  <2>3. CASE AtOf(token'[p]) # AtOf(token[p])
    <3>1. p = ProcOf[c] /\ token'[p] = Invalidated(token[p])
        BY <2>1, <2>3
    <3>2. token[p] # None => token[p] \in Token
        OBVIOUS
    <3>3. \A t \in Token : t.rt # NoRefresh =>
             [t EXCEPT !.exp = "zero"].at = t.at /\ [t EXCEPT !.exp = "zero"] \in Token
        BY DEF Token
    <3>4. token[p] # None /\ token[p].rt = NoRefresh /\ token'[p] = None
        BY <2>3, <3>1, <3>2, <3>3, ConstantsAssumption
        DEF Invalidated, AtOf, ConstantsAssumption
    <3>5. refreshing[p] = None
        BY <1>f, <3>4 DEF RefreshDiscipline, AttemptOwnsToken
    <3>6. disk' \in {disk, None}
        BY <2>1, <3>1, <3>4 DEF Persist
    <3> QED BY <2>1, <3>4, <3>5, <3>6, CredentialDropped
  <2> QED BY <2>2, <2>3
<1>5. ASSUME NEW f \in flights, RefreshSucceeds(f)
      PROVE  Credential(p)!Step
  <2>1. /\ f.proc \in Procs /\ f.base \in Token /\ f.answer \in Answer
        /\ f.answer.at \in Nat /\ f.answer.at > 0
      BY <1>5 DEF Flight, RefreshSucceeds, Answer, Grants
  <2>2. /\ token' = [token EXCEPT ![f.proc] = Rotated(f.base, f.answer)]
        /\ refreshing' = [refreshing EXCEPT ![f.proc] = None]
        /\ disk' \in {disk, token'[f.proc]}
      BY <1>5 DEF RefreshSucceeds, Persist
  <2>3. CASE p # f.proc
    <3>1. token'[p] = token[p] /\ refreshing'[p] = refreshing[p]
        BY <2>2, <2>3
    <3> QED BY <1>d, <3>1, CredentialSame
  <2>4. CASE p = f.proc
    <3>1. token'[p] = Rotated(f.base, f.answer) /\ refreshing'[p] = None
        BY <2>2, <2>4
    <3>2. token'[p].at = f.answer.at /\ token'[p] \in Token
        BY <2>1, <3>1, TokenTypes DEF Rotated
    <3>3. token[p] # None /\ token[p].at = f.base.at /\ f.base.at < f.answer.at
        BY <1>5, <2>4 DEF RefreshSucceeds, RefreshDiscipline, AttemptOwnsToken, GrantsOrdered
    <3>4. AtOf(token'[p]) \in Nat /\ AtOf(token'[p]) > AtOf(token[p])
        BY <2>1, <3>2, <3>3, ConstantsAssumption DEF AtOf, ConstantsAssumption
    <3> QED BY <2>2, <2>4, <3>1, <3>4, CredentialNewer
  <2> QED BY <2>3, <2>4
<1>6. ASSUME NEW f \in flights, RefreshFails(f)
      PROVE  Credential(p)!Step
  <2>1. f.proc \in Procs /\ refreshing[f.proc] # None
      BY ConstantsAssumption
      DEF Flight, RefreshDiscipline, SingleFlight, ConstantsAssumption
  <2>2. /\ refreshing' = [refreshing EXCEPT ![f.proc] = None]
        /\ \/ token' = [token EXCEPT ![f.proc] = None] /\ disk' \in {disk, None}
           \/ token' = token /\ disk' = disk
      BY <1>6 DEF RefreshFails, Persist, file
  <2>3. CASE p # f.proc
    <3>1. token'[p] = token[p] /\ refreshing'[p] = refreshing[p]
        BY <2>2, <2>3
    <3> QED BY <1>d, <3>1, CredentialSame
  <2>4. CASE p = f.proc
    <3>1. refreshing'[p] = None /\ refreshing[p] # None
        BY <2>1, <2>2, <2>4
    <3>2. \/ token'[p] = None /\ disk' \in {disk, None}
          \/ token' = token /\ disk' = disk
        BY <2>2, <2>4
    <3> QED BY <3>1, <3>2, CredentialUnspent, CredentialDropped
  <2> QED BY <2>3, <2>4
<1>7. ASSUME NEW x \in exchanges, ExchangeSucceeds(x)
      PROVE  Credential(p)!Step
  <2>1. x.proc \in Procs /\ refreshing' = refreshing /\ minted \in Nat
      BY <1>7 DEF Exchange, ExchangeSucceeds, Grants
  <2>2. CASE token'[p] = token[p]
      BY <1>d, <2>1, <2>2, CredentialSame
  <2>3. CASE token'[p] # token[p]
    <3>1. PICK r \in BOOLEAN, e \in {"unknown", "dated"}, s \in Scopes \cup {"omitted"} :
             /\ x.live
             /\ token' = [token EXCEPT ![x.proc] = Minted(minted + 1, r, e, s)]
             /\ Persist(x.proc, token'[x.proc])
        BY <1>7, <2>3 DEF ExchangeSucceeds
    <3>2. p = x.proc /\ token'[p] = Minted(minted + 1, r, e, s) /\ disk' \in {disk, token'[p]}
        BY <2>1, <2>3, <3>1 DEF Persist
    <3>3. token'[p].at = minted + 1 /\ token'[p] # None
      <4>1. token'[p].at = minted + 1
          BY <3>2 DEF Minted
      <4>2. token'[p] \in Token \cup {None}
          BY <1>0
      <4>3. x.live /\ minted + 1 \in Grants
          BY <1>7, <3>1 DEF ExchangeSucceeds
      <4>4. Minted(minted + 1, r, e, s) \in Token
          BY <4>3, TokenTypes
      <4> QED BY <3>2, <4>1, <4>4, ConstantsAssumption DEF ConstantsAssumption
    <3>4. refreshing'[p] = None
        BY <1>f, <2>1, <3>1, <3>2 DEF ExchangesConsistent, SignInExcludesRefresh
    <3>5. token[p] # None => token[p].at <= minted
        BY DEF GrantsOrdered
    <3>6. token[p] # None => token[p].at \in Nat
        BY DEF Token, Grants
    <3>7. AtOf(token'[p]) \in Nat /\ AtOf(token'[p]) > AtOf(token[p])
        BY <2>1, <3>3, <3>5, <3>6 DEF AtOf
    <3> QED BY <3>2, <3>4, <3>7, CredentialNewer
  <2> QED BY <2>2, <2>3
<1>8. ASSUME NEW q \in Procs, Restart(q)
      PROVE  Credential(p)!Step
  <2>1. /\ token' = [token EXCEPT ![q] = Loaded] /\ disk' = disk
        /\ refreshing' = [refreshing EXCEPT ![q] = None]
      BY <1>8 DEF Restart
  <2>2. CASE p = q
      BY <2>1, <2>2, CredentialRecovered
  <2>3. CASE p # q
    <3>1. token'[p] = token[p] /\ refreshing'[p] = refreshing[p]
        BY <2>1, <2>3
    <3> QED BY <1>d, <3>1, CredentialSame
  <2> QED BY <2>2, <2>3
<1> QED
    BY <1>same, <1>2, <1>3, <1>4, <1>5, <1>6, <1>7, <1>8
    DEF Next, Caller, Process, Accepted, Listening, ListenFails, Callback, FlowRejected,
        ZendeskRefreshes, ExchangeFails, Age, Revoke, store, vars

\* Every process that shares the token file keeps its credential as
\* RotatingCredential promises.
THEOREM CredentialImplemented == Spec => CredentialKept
<1>1. Init => \A p \in Procs : Credential(p)!Init
  <2> SUFFICES ASSUME Init, NEW p \in Procs PROVE Credential(p)!Init
      OBVIOUS
  <2>1. token[p] = Loaded /\ refreshing[p] = None
      BY DEF Init
  <2>2. disk = None \/ disk.at \in Nat
      BY DEF Init, Token, Grants
  <2>3. token[p] = None \/ token[p].at \in Nat
      BY <2>1, <2>2 DEF Loaded
  <2>4. AtOf(token[p]) \in Nat /\ AtOf(disk) \in Nat
      BY <2>2, <2>3 DEF AtOf
  <2> QED BY <2>1, <2>4 DEF Credential!Init, AtOf
<1>2. IInv /\ [Next]_vars => [\A p \in Procs : Credential(p)!Step]_vars
    BY CredentialStep
<1> QED BY <1>1, <1>2, Inductive, PTL DEF Spec, CredentialKept
=============================================================================
