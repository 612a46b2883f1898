------------------------- MODULE ZendeskGrantsProofs -------------------------
(***************************************************************************)
(* Theorems about ZendeskGrants, for any grants, operations and tokens.    *)
(*                                                                         *)
(* The argument.  LockOrder says what the queue of promises is worth: only *)
(* the head of a grant's queue has begun, and each operation waits once.   *)
(* So a refresh under way is alone on its grant and the tokens it was made *)
(* from stay in place until it settles (OneRefreshPerGrant), a removal     *)
(* never runs beside it (RemovedStaysRemoved), and the one write made      *)
(* without the lock, at the end of a sign-in, meets nobody                 *)
(* (OperationsConsistent).                                                 *)
(***************************************************************************)
EXTENDS ZendeskGrants, TLAPS

Waiting == {"queued", "asking"}

-----------------------------------------------------------------------------
(* The lock.                                                               *)

\* An operation that begins or ends outside the lock leaves every queue as it is.
LEMMA LockOutside ==
    ASSUME TypeOK, LockOrder, NEW o \in Ops, NEW e \in Op \cup {None},
           op[o] = None \/ op[o].at \notin Waiting,
           e = None \/ e.at \notin Waiting,
           op' = [op EXCEPT ![o] = e], queue' = queue
    PROVE  LockOrder'
<1> USE DEF Waiting
<1>1. \A g \in Grants : \A i \in 1 .. Len(queue[g]) : queue[g][i] # o /\ queue[g][i] \in Ops
    BY DEF LockOrder, TypeOK
<1>2. \A g \in Grants : \A i \in 1 .. Len(queue[g]) : op'[queue[g][i]] = op[queue[g][i]]
    BY <1>1 DEF TypeOK
<1>3. \A p \in Ops : op'[p] # None /\ op'[p].at \in Waiting => p # o /\ op'[p] = op[p]
    BY DEF TypeOK
<1>4. ASSUME NEW g \in Grants, NEW i \in 1 .. Len(queue'[g])
      PROVE  LET p == queue'[g][i] IN
             /\ op'[p] # None /\ op'[p].grant = g
             /\ op'[p].at = "queued" \/ (i = 1 /\ op'[p].at = "asking")
             /\ \A j \in 1 .. Len(queue'[g]) : queue'[g][j] = p => j = i
    BY <1>2, <1>4 DEF LockOrder
<1>5. ASSUME NEW p \in Ops, op'[p] # None, op'[p].at \in Waiting
      PROVE  \E i \in 1 .. Len(queue'[op'[p].grant]) : queue'[op'[p].grant][i] = p
    BY <1>3, <1>5 DEF LockOrder
<1> QED BY <1>4, <1>5 DEF LockOrder

\* One that joins the queue of its grant stands there once, and last.
LEMMA LockEnqueue ==
    ASSUME TypeOK, LockOrder, NEW o \in Ops, NEW g \in Grants, NEW e \in Op,
           op[o] = None \/ op[o].at \notin Waiting,
           e.grant = g, e.at = "queued",
           op' = [op EXCEPT ![o] = e],
           queue' = [queue EXCEPT ![g] = Append(@, o)]
    PROVE  LockOrder'
<1> USE DEF Waiting
<1>0. ConstantsAssumption BY ConstantsAssumption
<1>e. op'[o] = e /\ e # None /\ \A p \in Ops : p # o => op'[p] = op[p]
    BY <1>0 DEF TypeOK, ConstantsAssumption
<1>1. \A h \in Grants : \A i \in 1 .. Len(queue[h]) : queue[h][i] # o /\ queue[h][i] \in Ops
    BY DEF LockOrder, TypeOK
<1>2. \A h \in Grants : \A i \in 1 .. Len(queue[h]) : op'[queue[h][i]] = op[queue[h][i]]
    BY <1>1, <1>e
<1>3. \A h \in Grants : h # g => queue'[h] = queue[h]
    BY DEF TypeOK
<1>4. /\ queue[g] \in Seq(Ops)
      /\ queue'[g] = Append(queue[g], o)
      /\ Len(queue'[g]) = Len(queue[g]) + 1
      /\ Len(queue[g]) \in Nat
      /\ queue'[g][Len(queue[g]) + 1] = o
      /\ \A i \in 1 .. Len(queue[g]) : queue'[g][i] = queue[g][i]
    BY DEF TypeOK
<1>5. ASSUME NEW h \in Grants, NEW i \in 1 .. Len(queue'[h])
      PROVE  LET p == queue'[h][i] IN
             /\ op'[p] # None /\ op'[p].grant = h
             /\ op'[p].at = "queued" \/ (i = 1 /\ op'[p].at = "asking")
             /\ \A j \in 1 .. Len(queue'[h]) : queue'[h][j] = p => j = i
  <2>1. CASE h # g
      BY <1>2, <1>3, <2>1 DEF LockOrder
  <2>2. CASE h = g /\ i = Len(queue[g]) + 1
      BY <1>1, <1>4, <1>e, <2>2
  <2>3. CASE h = g /\ i # Len(queue[g]) + 1
    <3>1. i \in 1 .. Len(queue[g])
        BY <1>4, <2>3
    <3> QED BY <1>1, <1>2, <1>4, <2>3, <3>1 DEF LockOrder
  <2> QED BY <2>1, <2>2, <2>3
<1>6. ASSUME NEW p \in Ops, op'[p] # None, op'[p].at \in Waiting
      PROVE  \E i \in 1 .. Len(queue'[op'[p].grant]) : queue'[op'[p].grant][i] = p
  <2>1. CASE p = o
      BY <1>4, <1>e, <2>1
  <2>2. CASE p # o
    <3>1. op'[p] = op[p] /\ op[p] \in Op /\ op[p].grant \in Grants
        BY <1>e, <1>6, <2>2 DEF TypeOK, Op
    <3>2. PICK i \in 1 .. Len(queue[op[p].grant]) : queue[op[p].grant][i] = p
        BY <1>6, <3>1 DEF LockOrder
    <3> QED BY <1>3, <1>4, <3>1, <3>2
  <2> QED BY <2>1, <2>2
<1> QED BY <1>5, <1>6 DEF LockOrder

\* The head that settles hands the lock to the next.
LEMMA LockSettle ==
    ASSUME TypeOK, LockOrder, NEW o \in Ops, Holds(o), Settle(o)
    PROVE  LockOrder'
<1> DEFINE g == op[o].grant
<1>0. /\ op[o] \in Op /\ g \in Grants /\ op[o] # None
      /\ queue[g] \in Seq(Ops) /\ queue[g] # <<>> /\ queue[g][1] = o
    BY DEF TypeOK, Holds, Op
<1>1. op'[o] = None /\ \A p \in Ops : p # o => op'[p] = op[p]
    BY DEF Settle, TypeOK
<1>2. \A h \in Grants : h # g => queue'[h] = queue[h]
    BY DEF Settle, TypeOK
<1>3. /\ queue'[g] = Tail(queue[g])
      /\ Len(queue[g]) \in Nat /\ Len(queue[g]) >= 1
      /\ Len(queue'[g]) = Len(queue[g]) - 1
      /\ \A i \in 1 .. Len(queue[g]) - 1 : queue'[g][i] = queue[g][i + 1]
    BY <1>0 DEF Settle, TypeOK
<1>4. \A h \in Grants : \A i \in 1 .. Len(queue[h]) :
         queue[h][i] \in Ops /\ (queue[h][i] = o => h = g /\ i = 1)
    BY <1>0, <1>3 DEF LockOrder, TypeOK
<1>5. ASSUME NEW h \in Grants, NEW i \in 1 .. Len(queue'[h])
      PROVE  LET p == queue'[h][i] IN
             /\ op'[p] # None /\ op'[p].grant = h
             /\ op'[p].at = "queued" \/ (i = 1 /\ op'[p].at = "asking")
             /\ \A j \in 1 .. Len(queue'[h]) : queue'[h][j] = p => j = i
  <2>1. CASE h # g
      BY <1>1, <1>2, <1>4, <2>1 DEF LockOrder
  <2>2. CASE h = g
    <3>0. i \in 1 .. Len(queue[g]) - 1
        BY <1>3, <2>2
    <3>1. i \in Nat /\ i + 1 \in 1 .. Len(queue[g]) /\ i + 1 # 1 /\ queue'[g][i] = queue[g][i + 1]
        BY <1>3, <3>0
    <3>2. queue[g][i + 1] # o /\ queue[g][i + 1] \in Ops
        BY <1>4, <3>1, <1>0
    <3>3. \A j \in 1 .. Len(queue'[g]) :
             j + 1 \in 1 .. Len(queue[g]) /\ queue'[g][j] = queue[g][j + 1]
        BY <1>3
    <3>4. /\ op[queue[g][i + 1]] # None /\ op[queue[g][i + 1]].grant = g
          /\ op[queue[g][i + 1]].at = "queued"
          /\ \A j \in 1 .. Len(queue[g]) : queue[g][j] = queue[g][i + 1] => j = i + 1
        BY <1>0, <3>1 DEF LockOrder
    <3>5. ASSUME NEW j \in 1 .. Len(queue'[g]), queue'[g][j] = queue'[g][i]
          PROVE  j = i
      <4>1. j \in Nat BY <1>3
      <4>2. j + 1 = i + 1 BY <3>1, <3>3, <3>4, <3>5
      <4> QED BY <3>1, <4>1, <4>2
    <3> QED BY <1>1, <2>2, <3>1, <3>2, <3>4, <3>5
  <2> QED BY <2>1, <2>2
<1>6. ASSUME NEW p \in Ops, op'[p] # None, op'[p].at \in {"queued", "asking"}
      PROVE  \E i \in 1 .. Len(queue'[op'[p].grant]) : queue'[op'[p].grant][i] = p
  <2>1. p # o /\ op'[p] = op[p] /\ op[p].grant \in Grants
      BY <1>1, <1>6 DEF TypeOK, Op
  <2>2. PICK i \in 1 .. Len(queue[op[p].grant]) : queue[op[p].grant][i] = p
      BY <1>6, <2>1 DEF LockOrder
  <2>3. CASE op[p].grant # g
      BY <1>2, <2>1, <2>2, <2>3
  <2>4. CASE op[p].grant = g
    <3>1. i # 1 BY <1>0, <2>1, <2>2, <2>4
    <3>2. i - 1 \in 1 .. Len(queue'[g]) /\ queue'[g][i - 1] = queue[g][i]
        BY <1>3, <2>2, <2>4, <3>1
    <3> QED BY <2>1, <2>2, <2>4, <3>2
  <2> QED BY <2>3, <2>4
<1> QED BY <1>5, <1>6 DEF LockOrder

\* Only the head begins; what else an operation notes changes no queue.
LEMMA LockAdvance ==
    ASSUME TypeOK, LockOrder, NEW o \in Ops, NEW e \in Op,
           op[o] # None, op[o].at \in Waiting, e.grant = op[o].grant,
           e.at = op[o].at \/ (e.at = "asking" /\ Holds(o)),
           op' = [op EXCEPT ![o] = e], queue' = queue
    PROVE  LockOrder'
<1> USE DEF Waiting
<1>0. ConstantsAssumption BY ConstantsAssumption
<1>e. op'[o] = e /\ e # None /\ \A p \in Ops : p # o => op'[p] = op[p]
    BY <1>0 DEF TypeOK, ConstantsAssumption
<1>1. \A p \in Ops : /\ op'[p] # None <=> op[p] # None
                     /\ op[p] # None => op'[p].grant = op[p].grant
    BY <1>e
<1>2. ASSUME NEW h \in Grants, NEW i \in 1 .. Len(queue[h])
      PROVE  op'[queue[h][i]].at = "queued" \/ (i = 1 /\ op'[queue[h][i]].at = "asking")
  <2>1. queue[h][i] \in Ops BY DEF TypeOK
  <2>2. CASE queue[h][i] # o \/ e.at = op[o].at
      BY <1>e, <2>1, <2>2 DEF LockOrder
  <2>3. CASE queue[h][i] = o /\ e.at = "asking" /\ Holds(o)
    <3>1. op[o].grant = h BY <2>3 DEF LockOrder
    <3>2. queue[h][1] = o /\ 1 \in 1 .. Len(queue[h])
        BY <2>3, <3>1 DEF Holds, TypeOK
    <3>3. i = 1 BY <2>3, <3>2 DEF LockOrder
    <3> QED BY <1>e, <2>3, <3>3
  <2> QED BY <2>2, <2>3
<1>3. \A h \in Grants : \A i \in 1 .. Len(queue[h]) : queue[h][i] \in Ops
    BY DEF TypeOK
<1>4. \A p \in Ops : op'[p] # None /\ op'[p].at \in Waiting => op[p] # None /\ op[p].at \in Waiting
    BY <1>e
<1> QED BY <1>1, <1>2, <1>3, <1>4 DEF LockOrder, TypeOK

\* Two operations of one grant are never both begun, and the one that holds the
\* lock is alone with it.
LEMMA OneHolds ==
    ASSUME TypeOK, LockOrder, NEW o \in Ops, NEW p \in Ops, Holds(o),
           op[p] # None, op[p].at = "asking", op[p].grant = op[o].grant
    PROVE  p = o
<1>1. op[p] \in Op /\ op[p].grant \in Grants /\ queue[op[p].grant] \in Seq(Ops)
    BY DEF TypeOK, Op
<1>2. PICK i \in 1 .. Len(queue[op[p].grant]) : queue[op[p].grant][i] = p
    BY DEF LockOrder
<1>3. i = 1
    BY <1>1, <1>2 DEF LockOrder
<1> QED BY <1>1, <1>2, <1>3 DEF Holds

\* An operation that has begun holds the lock.
LEMMA AskingHolds ==
    ASSUME TypeOK, LockOrder, NEW o \in Ops, Asking(o)
    PROVE  Holds(o)
<1>1. op[o] \in Op /\ op[o].grant \in Grants /\ queue[op[o].grant] \in Seq(Ops)
    BY DEF TypeOK, Op, Asking
<1>2. PICK i \in 1 .. Len(queue[op[o].grant]) : queue[op[o].grant][i] = o
    BY DEF LockOrder, Asking
<1>3. i = 1
    BY <1>1, <1>2 DEF LockOrder, Asking
<1> QED BY <1>1, <1>2, <1>3 DEF Holds, Asking

-----------------------------------------------------------------------------
(* The store.                                                              *)

\* What a write of the tokens of g does, whether or not the file follows.
LEMMA WriteTokens ==
    ASSUME TypeOK, CleanFileMatches, NEW g \in Grants, NEW t \in Token \cup {None},
           NEW ok \in BOOLEAN, Write(WithTokens(g, t), g, ok)
    PROVE  /\ mem' \in Store /\ disk' \in Store /\ dirty' \in BOOLEAN
           /\ mem'.own = mem.own /\ mem'.zd[g] = t
           /\ \A h \in Grants \ {g} : mem'.zd[h] = mem.zd[h]
           /\ disk' \in {disk, mem'}
           /\ CleanFileMatches'
BY DEF TypeOK, Store, Write, WithTokens, CleanFileMatches

\* The same of our own record.
LEMMA WriteOwn ==
    ASSUME TypeOK, CleanFileMatches, NEW g \in Grants,
           NEW s \in {"absent", "old", "current"},
           NEW ok \in BOOLEAN, Write(WithOwn(g, s), g, ok)
    PROVE  /\ mem' \in Store /\ disk' \in Store /\ dirty' \in BOOLEAN
           /\ mem'.zd = mem.zd /\ mem'.own[g] = s
           /\ \A h \in Grants \ {g} : mem'.own[h] = mem.own[h]
           /\ disk' \in {disk, mem'}
           /\ CleanFileMatches'
BY DEF TypeOK, Store, Write, WithOwn, CleanFileMatches

\* A deletion leaves no tokens, written or not.
LEMMA TokensDeleted ==
    ASSUME TypeOK, CleanFileMatches, NEW g \in Grants,
           NEW ok \in BOOLEAN, DeleteTokens(g, ok)
    PROVE  /\ mem' \in Store /\ disk' \in Store /\ dirty' \in BOOLEAN
           /\ mem'.own = mem.own /\ mem'.zd[g] = None
           /\ \A h \in Grants \ {g} : mem'.zd[h] = mem.zd[h]
           /\ disk' \in {disk, mem'}
           /\ CleanFileMatches'
<1>1. CASE mem.zd[g] = None
    BY <1>1 DEF DeleteTokens, storage, TypeOK, CleanFileMatches
<1>2. CASE mem.zd[g] # None
    BY <1>2, WriteTokens DEF DeleteTokens
<1> QED BY <1>1, <1>2

\* A read of our own record changes no tokens and loses no record.
LEMMA OwnRead ==
    ASSUME TypeOK, CleanFileMatches, NEW g \in Grants,
           NEW ok \in BOOLEAN, ReadOwn(g, ok)
    PROVE  /\ mem' \in Store /\ disk' \in Store /\ dirty' \in BOOLEAN
           /\ mem'.zd = mem.zd /\ (mem'.own[g] = "absent" <=> mem.own[g] = "absent")
           /\ \A h \in Grants \ {g} : mem'.own[h] = mem.own[h]
           /\ disk' \in {disk, mem'}
           /\ CleanFileMatches'
<1>1. CASE mem.own[g] # "old"
    BY <1>1 DEF ReadOwn, storage, TypeOK, CleanFileMatches
<1>2. CASE mem.own[g] = "old"
    BY <1>2, WriteOwn DEF ReadOwn
<1> QED BY <1>1, <1>2

-----------------------------------------------------------------------------
(* One operation of a grant whose client has signed in.                    *)

\* A removal has only ever run for a grant that has a client.
LEMMA GoneRemainClients == ASSUME IInv PROVE gone \subseteq clients
BY DEF IInv, OperationsConsistent

\* Whatever such an operation does to the records of its own grant, no sign-in
\* is disturbed.
LEMMA SignInsUndisturbed ==
    ASSUME IInv, NEW o \in Ops, NEW g \in clients, NEW e \in Op \cup {None},
           op' = [op EXCEPT ![o] = e],
           e # None => /\ e.grant = g /\ e.at # "saving"
                       /\ e.at = "asking" => e.kind = "mint"
                       /\ e.at # "asking" => e.answer = None,
           clients' = clients, gone' \subseteq clients, disk' \in {disk, mem'},
           \A h \in Grants \ {g} : mem'.zd[h] = mem.zd[h] /\ mem'.own[h] = mem.own[h]
    PROVE  OperationsConsistent'
<1>0. op'[o] = e /\ (\A p \in Ops : p # o => op'[p] = op[p]) /\ clients \subseteq Grants
    BY DEF IInv, TypeOK
<1>1. ASSUME NEW p \in Ops, op'[p] # None
      PROVE  /\ op'[p].at = "saving" =>
                  /\ op'[p].answer \in Token /\ op'[p].grant \notin clients
                  /\ mem'.zd[op'[p].grant] = None /\ mem'.own[op'[p].grant] # "absent"
                  /\ \A q \in Ops : op'[q] # None /\ op'[q].grant = op'[p].grant => q = p
             /\ op'[p].at # "saving" => op'[p].grant \in clients
             /\ op'[p].at = "asking" => op'[p].kind = "mint"
             /\ op'[p].at \in {"finding", "queued"} => op'[p].answer = None
  <2>1. CASE p = o
      BY <1>0, <1>1, <2>1
  <2>2. CASE p # o
    <3>1. op'[p] = op[p] /\ op[p] \in Op /\ op[p].grant \in Grants
        BY <1>0, <1>1, <2>2 DEF IInv, TypeOK, Op
    <3>2. ASSUME op[p].at = "saving"
          PROVE  /\ op[p].answer \in Token /\ op[p].grant \notin clients
                 /\ mem'.zd[op[p].grant] = None /\ mem'.own[op[p].grant] # "absent"
                 /\ \A q \in Ops : op'[q] # None /\ op'[q].grant = op[p].grant => q = p
      <4>1. /\ op[p].answer \in Token /\ op[p].grant \notin clients
            /\ mem.zd[op[p].grant] = None /\ mem.own[op[p].grant] # "absent"
            /\ \A q \in Ops : op[q] # None /\ op[q].grant = op[p].grant => q = p
          BY <1>1, <3>1, <3>2 DEF IInv, OperationsConsistent
      <4> QED BY <1>0, <3>1, <4>1
    <3> QED BY <1>1, <3>1, <3>2 DEF IInv, OperationsConsistent
  <2> QED BY <2>1, <2>2
<1>2. ASSUME NEW h \in Grants \ clients
      PROVE  /\ mem'.own[h] = "absent" => mem'.zd[h] = None
             /\ disk'.own[h] = "absent" => disk'.zd[h] = None
    BY DEF IInv, OperationsConsistent
<1> QED BY <1>1, <1>2 DEF OperationsConsistent

\* If it changes its grant's tokens it holds the lock; then no refresh of them
\* is under way but its own.
LEMMA RefreshesUndisturbed ==
    ASSUME IInv, NEW o \in Ops, NEW g \in Grants, NEW e \in Op \cup {None},
           op' = [op EXCEPT ![o] = e],
           mem'.zd[g] = mem.zd[g] \/ (Holds(o) /\ op[o].grant = g),
           \A h \in Grants \ {g} : mem'.zd[h] = mem.zd[h],
           disk' \in {disk, mem'}, mem' \in Store,
           minted' \in Nat, minted' >= minted,
           mem'.zd[g] # None => mem'.zd[g].at <= minted',
           e # None /\ e.at = "asking" =>
             /\ Holds(o) /\ op[o].grant = g /\ e.grant = g
             /\ mem'.zd[g] # None /\ mem'.zd[g].rt = e.spends /\ e.spends # NoRefresh,
           e # None /\ e.answer \in Token =>
             /\ e.answer.at <= minted'
             /\ e.at = "asking" => e.answer.at > mem'.zd[g].at
    PROVE  OneRefreshPerGrant' /\ TokensOrdered'
<1>0. op'[o] = e /\ (\A p \in Ops : p # o => op'[p] = op[p])
    BY DEF IInv, TypeOK
<1>1. \A p \in Ops : op[p] # None => op[p] \in Op /\ op[p].grant \in Grants
    BY DEF IInv, TypeOK, Op
<1>2. ASSUME NEW p \in Ops, p # o, Asking(p)
      PROVE  /\ mem'.zd[op[p].grant] = mem.zd[op[p].grant]
             /\ Holds(o) => op[p].grant # op[o].grant
  <2>1. Holds(o) => op[p].grant # op[o].grant
      BY <1>2, OneHolds DEF IInv, Asking
  <2> QED BY <1>1, <1>2, <2>1 DEF Asking
<1>3. ASSUME NEW p \in Ops, Asking(p)'
      PROVE  /\ mem'.zd[op'[p].grant] # None
             /\ mem'.zd[op'[p].grant].rt = op'[p].spends
             /\ op'[p].spends # NoRefresh
             /\ \A q \in Ops : Asking(q)' /\ op'[q].grant = op'[p].grant => q = p
  <2>1. CASE p = o
      BY <1>0, <1>2, <1>3, <2>1 DEF Asking
  <2>2. CASE p # o
    <3>1. Asking(p) /\ op'[p] = op[p]
        BY <1>0, <1>3, <2>2 DEF Asking
    <3>2. /\ mem.zd[op[p].grant] # None
          /\ mem.zd[op[p].grant].rt = op[p].spends
          /\ op[p].spends # NoRefresh
          /\ \A q \in Ops : Asking(q) /\ op[q].grant = op[p].grant => q = p
        BY <3>1 DEF IInv, OneRefreshPerGrant
    <3>3. \A q \in Ops : Asking(q)' /\ op'[q].grant = op'[p].grant => q = p
        BY <1>0, <1>2, <2>2, <3>1, <3>2 DEF Asking
    <3> QED BY <1>2, <2>2, <3>1, <3>2, <3>3
  <2> QED BY <2>1, <2>2
<1>4. OneRefreshPerGrant'
    BY <1>3 DEF OneRefreshPerGrant
<1>5. minted \in Nat /\ \A h \in Grants : /\ mem.zd[h] # None => mem.zd[h].at \in Nat
                                          /\ disk.zd[h] # None => disk.zd[h].at \in Nat
    BY DEF IInv, TypeOK, Store, Token, Minted
<1>6. ASSUME NEW h \in Grants
      PROVE  /\ mem'.zd[h] # None => mem'.zd[h].at <= minted'
             /\ disk'.zd[h] # None => disk'.zd[h].at <= minted'
  <2>1. mem.zd[h] # None => mem.zd[h].at <= minted'
      BY <1>5 DEF IInv, TokensOrdered
  <2>2. disk.zd[h] # None => disk.zd[h].at <= minted'
      BY <1>5 DEF IInv, TokensOrdered
  <2> QED BY <2>1, <2>2
<1>7. ASSUME NEW p \in Ops, op'[p] # None, op'[p].answer \in Token
      PROVE  /\ op'[p].answer.at <= minted'
             /\ op'[p].at = "asking" => op'[p].answer.at > mem'.zd[op'[p].grant].at
  <2>1. CASE p = o
      BY <1>0, <1>7, <2>1
  <2>2. CASE p # o
    <3>1. op'[p] = op[p] /\ op[p].answer.at \in Nat /\ op[p].answer.at <= minted
        BY <1>0, <1>7, <2>2 DEF IInv, TokensOrdered, Token, Minted
    <3>2. op[p].at = "asking" => op[p].answer.at > mem.zd[op[p].grant].at
        BY <1>7, <3>1 DEF IInv, TokensOrdered
    <3> QED BY <1>2, <1>5, <1>7, <2>2, <3>1, <3>2 DEF Asking
  <2> QED BY <2>1, <2>2
<1> QED BY <1>4, <1>6, <1>7 DEF TokensOrdered

\* One that asks for nothing and changes no tokens disturbs no refresh.
LEMMA NoTokensTouched ==
    ASSUME IInv, NEW o \in Ops, NEW g \in Grants, NEW e \in Op \cup {None},
           op' = [op EXCEPT ![o] = e],
           e # None => e.at # "asking" /\ e.answer = None,
           mem'.zd = mem.zd, mem' \in Store, disk' \in {disk, mem'},
           minted' = minted
    PROVE  OneRefreshPerGrant' /\ TokensOrdered'
<1>1. minted \in Nat /\ None \notin Token
    BY ConstantsAssumption DEF IInv, TypeOK, Minted, ConstantsAssumption
<1>2. mem'.zd[g] # None => mem'.zd[g].at <= minted'
    BY DEF IInv, TokensOrdered
<1>3. minted' \in Nat /\ minted' >= minted
    BY <1>1
<1>4. e # None /\ e.answer \in Token => FALSE
    BY <1>1
<1> QED BY <1>2, <1>3, <1>4, RefreshesUndisturbed

-----------------------------------------------------------------------------
(* Each action keeps the inductive invariant.                              *)

\* A record of an operation that begins.
LEMMA NewOpFacts ==
    ASSUME NEW kind \in {"approve", "mint", "revoke", "end"}, NEW g \in Grants,
           NEW at \in {"saving", "finding", "queued", "asking"}
    PROVE  /\ NewOp(kind, g, at) \in Op /\ NewOp(kind, g, at) # None
           /\ NewOp(kind, g, at).kind = kind /\ NewOp(kind, g, at).grant = g
           /\ NewOp(kind, g, at).at = at /\ NewOp(kind, g, at).answer = None
           /\ None \notin Token
BY ConstantsAssumption DEF ConstantsAssumption, NewOp, Op

\* A refresh token that is being spent has been minted.
LEMMA MintedBefore ==
    ASSUME IInv, NEW o \in Ops, Asking(o)
    PROVE  /\ op[o].spends \in Minted /\ op[o].spends <= minted /\ op[o].spends <= minted + 1
           /\ op[o].grant \in Grants
<1>1. op[o] \in Op /\ op[o].grant \in Grants /\ minted \in Nat
    BY DEF IInv, TypeOK, Asking, Op, Minted
<1>2. mem.zd[op[o].grant] \in Token /\ mem.zd[op[o].grant].at <= minted
      /\ op[o].spends = mem.zd[op[o].grant].rt /\ op[o].spends # NoRefresh
    BY <1>1 DEF IInv, TypeOK, Store, OneRefreshPerGrant, TokensOrdered
<1>3. op[o].spends \in Minted /\ op[o].spends <= mem.zd[op[o].grant].at
      /\ mem.zd[op[o].grant].at \in Nat /\ op[o].spends \in Nat
    BY <1>2 DEF Token, Minted
<1> QED BY <1>1, <1>2, <1>3

\* The tokens Zendesk mints.
LEMMA MintedToken ==
    ASSUME NEW n \in Minted, NEW rt \in Minted \cup {NoRefresh}, rt <= n, NEW dated \in BOOLEAN
    PROVE  [at |-> n, rt |-> rt, dated |-> dated, current |-> TRUE] \in Token
BY DEF Token

LEMMA MintStep ==
    ASSUME IInv, NEW o \in Ops, NEW g \in Grants, Mint(o, g)
    PROVE  IInv'
<1>0. op[o] = None /\ g \in clients /\ UNCHANGED <<clients, denied, gone, zendesk>>
    BY DEF Mint, Free
<1>t. TypeOK /\ CleanFileMatches /\ minted \in Nat
    BY DEF IInv, TypeOK, Minted
<1>1. CASE ReadOwn(g, TRUE) /\ Begin(o, "mint", g, "queued") /\ Enqueue(o, g)
  <2> DEFINE e == NewOp("mint", g, "queued")
  <2>1. e \in Op /\ e # None /\ e.grant = g /\ e.kind = "mint" /\ e.at = "queued" /\ e.answer = None
        /\ None \notin Token
      BY NewOpFacts
  <2>2. op' = [op EXCEPT ![o] = e] /\ queue' = [queue EXCEPT ![g] = Append(@, o)]
      BY <1>1 DEF Begin, Enqueue
  <2> HIDE DEF e
  <2>3. /\ mem' \in Store /\ disk' \in Store /\ dirty' \in BOOLEAN
        /\ mem'.zd = mem.zd
        /\ \A h \in Grants \ {g} : mem'.own[h] = mem.own[h]
        /\ disk' \in {disk, mem'} /\ CleanFileMatches'
      BY <1>1, <1>t, OwnRead
  <2>4. TypeOK'
      BY <1>0, <1>t, <2>1, <2>2, <2>3 DEF TypeOK, zendesk
  <2>5. LockOrder'
      BY <1>0, <2>1, <2>2, LockEnqueue DEF IInv
  <2>6. OperationsConsistent'
      BY <1>0, <2>1, <2>2, <2>3, SignInsUndisturbed, GoneRemainClients
  <2>7. OneRefreshPerGrant' /\ TokensOrdered'
      BY <1>0, <2>1, <2>2, <2>3, NoTokensTouched DEF zendesk
  <2>8. RemovedStaysRemoved'
      BY <1>0, <2>3 DEF IInv, RemovedStaysRemoved
  <2> QED BY <2>3, <2>4, <2>5, <2>6, <2>7, <2>8 DEF IInv
<1>2. CASE ReadOwn(g, FALSE) /\ UNCHANGED lock
  <2>1. /\ mem' \in Store /\ disk' \in Store /\ dirty' \in BOOLEAN
        /\ mem'.zd = mem.zd
        /\ \A h \in Grants \ {g} : mem'.own[h] = mem.own[h]
        /\ disk' \in {disk, mem'} /\ CleanFileMatches'
      BY <1>2, <1>t, OwnRead
  <2>2. op' = [op EXCEPT ![o] = None] /\ queue' = queue
      BY <1>0, <1>2, <1>t DEF TypeOK, lock
  <2>3. TypeOK'
      BY <1>0, <1>t, <1>2, <2>1 DEF TypeOK, zendesk, lock
  <2>4. LockOrder'
      BY <1>0, <2>2, LockOutside DEF IInv
  <2>5. OperationsConsistent'
      BY <1>0, <2>1, <2>2, SignInsUndisturbed, GoneRemainClients
  <2>6. OneRefreshPerGrant' /\ TokensOrdered'
      BY <1>0, <2>1, <2>2, NoTokensTouched DEF zendesk
  <2>7. RemovedStaysRemoved'
      BY <1>0, <2>1 DEF IInv, RemovedStaysRemoved
  <2> QED BY <2>1, <2>3, <2>4, <2>5, <2>6, <2>7 DEF IInv
<1> QED BY <1>1, <1>2 DEF Mint

LEMMA RevokeStep ==
    ASSUME IInv, NEW o \in Ops, NEW g \in Grants, Revoke(o, g)
    PROVE  IInv'
<1> DEFINE e == NewOp("revoke", g, "finding")
<1>0. op[o] = None /\ g \in clients /\ UNCHANGED <<storage, queue, clients, gone, zendesk>>
      /\ denied' = denied \cup {g}
    BY DEF Revoke, Free
<1>t. TypeOK /\ minted \in Nat
    BY DEF IInv, TypeOK, Minted
<1>1. e \in Op /\ e # None /\ e.grant = g /\ e.at = "finding" /\ e.answer = None
      /\ None \notin Token
    BY NewOpFacts
<1>2. op' = [op EXCEPT ![o] = e]
    BY DEF Revoke, Begin
<1> HIDE DEF e
<1>3. TypeOK'
    BY <1>0, <1>t, <1>1, <1>2 DEF TypeOK, zendesk, storage
<1>4. LockOrder'
    BY <1>0, <1>1, <1>2, LockOutside DEF IInv, Waiting
<1>5. OperationsConsistent'
    BY <1>0, <1>1, <1>2, SignInsUndisturbed DEF IInv, OperationsConsistent, storage
<1>6. OneRefreshPerGrant' /\ TokensOrdered'
    BY <1>0, <1>t, <1>1, <1>2, NoTokensTouched DEF zendesk, storage, TypeOK
<1>7. RemovedStaysRemoved' /\ CleanFileMatches'
    BY <1>0 DEF IInv, RemovedStaysRemoved, CleanFileMatches, storage
<1> QED BY <1>3, <1>4, <1>5, <1>6, <1>7 DEF IInv

\* Records of an operation that is looking its grant up.
LEMMA FindThrowsStep ==
    ASSUME IInv, NEW o \in Ops, FindThrows(o)
    PROVE  IInv'
<1> DEFINE g == op[o].grant
<1>0. op[o] # None /\ op[o].at = "finding" /\ UNCHANGED <<queue, clients, denied, gone, zendesk>>
      /\ op' = [op EXCEPT ![o] = None] /\ ReadOwn(g, FALSE)
    BY DEF FindThrows
<1>t. TypeOK /\ CleanFileMatches /\ minted \in Nat /\ g \in Grants /\ g \in clients
    BY <1>0 DEF IInv, TypeOK, Minted, Op, OperationsConsistent
<1>1. /\ mem' \in Store /\ disk' \in Store /\ dirty' \in BOOLEAN
      /\ mem'.zd = mem.zd
      /\ \A h \in Grants \ {g} : mem'.own[h] = mem.own[h]
      /\ disk' \in {disk, mem'} /\ CleanFileMatches'
    BY <1>0, <1>t, OwnRead
<1>3. TypeOK'
    BY <1>0, <1>t, <1>1 DEF TypeOK, zendesk
<1>4. LockOrder'
    BY <1>0, LockOutside DEF IInv, Waiting
<1>5. OperationsConsistent'
    BY <1>0, <1>t, <1>1, SignInsUndisturbed, GoneRemainClients
<1>6. OneRefreshPerGrant' /\ TokensOrdered'
    BY <1>0, <1>t, <1>1, NoTokensTouched DEF zendesk
<1>7. RemovedStaysRemoved'
    BY <1>0, <1>1 DEF IInv, RemovedStaysRemoved
<1> QED BY <1>1, <1>3, <1>4, <1>5, <1>6, <1>7 DEF IInv

LEMMA FindStep ==
    ASSUME IInv, NEW o \in Ops, Find(o)
    PROVE  IInv'
<1> DEFINE g == op[o].grant
           e == [op[o] EXCEPT !.at = "queued"]
<1>0. op[o] # None /\ op[o].at = "finding" /\ UNCHANGED <<clients, denied, gone, zendesk>>
      /\ queue' = [queue EXCEPT ![g] = Append(@, o)]
    BY DEF Find, Enqueue
<1>t. TypeOK /\ CleanFileMatches /\ minted \in Nat /\ g \in Grants /\ g \in clients
    BY <1>0 DEF IInv, TypeOK, Minted, Op, OperationsConsistent
<1>u. op[o] \in Op /\ op[o].answer = None
    BY <1>0 DEF IInv, TypeOK, OperationsConsistent
<1>1. /\ mem' \in Store /\ disk' \in Store /\ dirty' \in BOOLEAN
      /\ mem'.zd = mem.zd
      /\ \A h \in Grants \ {g} : mem'.own[h] = mem.own[h]
      /\ disk' \in {disk, mem'} /\ CleanFileMatches'
  <2>1. CASE UNCHANGED storage
      BY <1>t, <2>1 DEF storage, TypeOK, CleanFileMatches
  <2>2. CASE \E ok \in BOOLEAN : Write(WithOwn(g, "absent"), g, ok)
      BY <1>t, <2>2, WriteOwn
  <2> QED BY <2>1, <2>2 DEF Find
<1>2. op' = [op EXCEPT ![o] = e] /\ e \in Op /\ e # None /\ e.grant = g /\ e.at = "queued"
      /\ e.answer = None
    BY <1>0, <1>t, <1>u, ConstantsAssumption, ZenonT(40) DEF Find, TypeOK, Op
<1> HIDE DEF e, g
<1>q. queue' \in [Grants -> Seq(Ops)] /\ op' \in [Ops -> Op \cup {None}]
    BY <1>0, <1>t, <1>2 DEF TypeOK
<1>3. TypeOK'
    BY <1>0, <1>t, <1>1, <1>q DEF TypeOK, zendesk
<1>4. LockOrder'
    BY <1>0, <1>t, <1>2, LockEnqueue DEF IInv, Waiting
<1>5. OperationsConsistent'
    BY <1>0, <1>t, <1>1, <1>2, SignInsUndisturbed, GoneRemainClients
<1>6. OneRefreshPerGrant' /\ TokensOrdered'
    BY <1>0, <1>t, <1>1, <1>2, NoTokensTouched DEF zendesk
<1>7. RemovedStaysRemoved'
    BY <1>0, <1>1 DEF IInv, RemovedStaysRemoved
<1> QED BY <1>1, <1>3, <1>4, <1>5, <1>6, <1>7 DEF IInv

LEMMA ProviderEndsStep ==
    ASSUME IInv, NEW o \in Ops, NEW g \in Grants, ProviderEnds(o, g)
    PROVE  IInv'
<1> DEFINE e == NewOp("end", g, "queued")
<1>0. op[o] = None /\ g \in clients /\ UNCHANGED <<clients, gone, zendesk>>
      /\ denied' = denied \cup {g} /\ Write(WithOwn(g, "absent"), g, TRUE)
      /\ op' = [op EXCEPT ![o] = e] /\ queue' = [queue EXCEPT ![g] = Append(@, o)]
    BY DEF ProviderEnds, Free, Begin, Enqueue
<1>t. TypeOK /\ CleanFileMatches /\ minted \in Nat
    BY DEF IInv, TypeOK, Minted
<1>1. e \in Op /\ e # None /\ e.grant = g /\ e.at = "queued" /\ e.answer = None
      /\ None \notin Token
    BY NewOpFacts
<1> HIDE DEF e
<1>2. /\ mem' \in Store /\ disk' \in Store /\ dirty' \in BOOLEAN
      /\ mem'.zd = mem.zd
      /\ \A h \in Grants \ {g} : mem'.own[h] = mem.own[h]
      /\ disk' \in {disk, mem'} /\ CleanFileMatches'
    BY <1>0, <1>t, WriteOwn
<1>3. TypeOK'
    BY <1>0, <1>t, <1>1, <1>2 DEF TypeOK, zendesk
<1>4. LockOrder'
    BY <1>0, <1>1, LockEnqueue DEF IInv, Waiting
<1>5. OperationsConsistent'
    BY <1>0, <1>1, <1>2, SignInsUndisturbed, GoneRemainClients
<1>6. OneRefreshPerGrant' /\ TokensOrdered'
    BY <1>0, <1>t, <1>1, <1>2, NoTokensTouched DEF zendesk
<1>7. RemovedStaysRemoved'
    BY <1>0, <1>2 DEF IInv, RemovedStaysRemoved
<1> QED BY <1>2, <1>3, <1>4, <1>5, <1>6, <1>7 DEF IInv

\* An operation whose turn has come settles, having changed the tokens of its
\* grant or not.
LEMMA SettlingStep ==
    ASSUME IInv, NEW o \in Ops, Holds(o), Settle(o), NEW g \in Grants, g = op[o].grant,
           mem' \in Store, disk' \in Store, dirty' \in BOOLEAN,
           mem'.own = mem.own, \A h \in Grants \ {g} : mem'.zd[h] = mem.zd[h],
           disk' \in {disk, mem'}, CleanFileMatches',
           mem'.zd[g] # None => mem'.zd[g].at <= minted /\ g \notin gone',
           gone' \subseteq gone \cup {g}, UNCHANGED <<clients, denied, zendesk>>
    PROVE  IInv'
<1>0. op[o] # None /\ op[o].at \in {"queued", "asking"} /\ op' = [op EXCEPT ![o] = None]
      /\ queue' = [queue EXCEPT ![g] = Tail(@)]
    BY DEF Holds, Settle
<1>t. TypeOK /\ minted \in Nat /\ g \in clients /\ queue[g] # <<>> /\ gone \subseteq clients
    BY <1>0 DEF IInv, TypeOK, Minted, OperationsConsistent, Holds
<1>q. queue' \in [Grants -> Seq(Ops)] /\ op' \in [Ops -> Op \cup {None}]
    BY <1>0, <1>t DEF TypeOK
<1>1. TypeOK'
    BY <1>t, <1>q DEF TypeOK, zendesk
<1>2. LockOrder'
    BY LockSettle DEF IInv
<1>3. OperationsConsistent'
    BY <1>0, <1>t, SignInsUndisturbed
<1>4. OneRefreshPerGrant' /\ TokensOrdered'
  <2>1. minted' \in Nat /\ minted' >= minted /\ (mem'.zd[g] # None => mem'.zd[g].at <= minted')
      BY <1>t DEF zendesk
  <2> QED BY <1>0, <2>1, RefreshesUndisturbed
<1>5. RemovedStaysRemoved'
    BY <1>t DEF IInv, RemovedStaysRemoved, TypeOK
<1> QED BY <1>1, <1>2, <1>3, <1>4, <1>5 DEF IInv

LEMMA RemoveStep ==
    ASSUME IInv, NEW o \in Ops, Remove(o)
    PROVE  IInv'
<1> DEFINE g == op[o].grant
<1>0. Holds(o) /\ Settle(o) /\ UNCHANGED <<clients, denied, zendesk>> /\ gone' = gone \cup {g}
      /\ \E ok \in BOOLEAN : DeleteTokens(g, ok)
    BY DEF Remove, MayRun
<1>t. g \in Grants /\ TypeOK /\ CleanFileMatches
    BY <1>0 DEF IInv, TypeOK, Op, Holds
<1>1. /\ mem' \in Store /\ disk' \in Store /\ dirty' \in BOOLEAN
      /\ mem'.own = mem.own /\ mem'.zd[g] = None
      /\ \A h \in Grants \ {g} : mem'.zd[h] = mem.zd[h]
      /\ disk' \in {disk, mem'} /\ CleanFileMatches'
    BY <1>0, <1>t, TokensDeleted
<1> HIDE DEF g
<1> QED BY <1>0, <1>t, <1>1, SettlingStep DEF g

LEMMA RefreshFailsStep ==
    ASSUME IInv, NEW o \in Ops, RefreshFails(o)
    PROVE  IInv'
<1> DEFINE g == op[o].grant
<1>0. Holds(o) /\ Asking(o) /\ Settle(o) /\ UNCHANGED <<clients, denied, gone, zendesk>>
    BY DEF RefreshFails, MayRun
<1>t. g \in Grants /\ TypeOK /\ CleanFileMatches /\ mem.zd[g] # None /\ g \notin gone
    BY <1>0 DEF IInv, TypeOK, Op, Holds, OneRefreshPerGrant, RemovedStaysRemoved
<1>1. CASE \E ok \in BOOLEAN : DeleteTokens(g, ok)
  <2>1. /\ mem' \in Store /\ disk' \in Store /\ dirty' \in BOOLEAN
        /\ mem'.own = mem.own /\ mem'.zd[g] = None
        /\ \A h \in Grants \ {g} : mem'.zd[h] = mem.zd[h]
        /\ disk' \in {disk, mem'} /\ CleanFileMatches'
      BY <1>1, <1>t, TokensDeleted
  <2> QED BY <1>0, <1>t, <2>1, SettlingStep
<1>2. CASE UNCHANGED storage
  <2>1. /\ mem' \in Store /\ disk' \in Store /\ dirty' \in BOOLEAN
        /\ mem' = mem /\ disk' = disk /\ CleanFileMatches'
      BY <1>2, <1>t DEF storage, TypeOK, CleanFileMatches
  <2>2. mem.zd[g].at <= minted
      BY <1>t DEF IInv, TokensOrdered
  <2> QED BY <1>0, <1>t, <2>1, <2>2, SettlingStep
<1> QED BY <1>1, <1>2 DEF RefreshFails

LEMMA RefreshedStep ==
    ASSUME IInv, NEW o \in Ops, Refreshed(o)
    PROVE  IInv'
<1> DEFINE g == op[o].grant
           t == op[o].answer
<1>0. Holds(o) /\ Asking(o) /\ Settle(o) /\ UNCHANGED <<clients, denied, gone, zendesk>>
      /\ t \notin {None, Refused} /\ \E ok \in BOOLEAN : Write(WithTokens(g, t), g, ok)
    BY DEF Refreshed, MayRun
<1>t. g \in Grants /\ t \in Token /\ TypeOK /\ CleanFileMatches /\ mem.zd[g] # None
      /\ g \notin gone /\ t.at <= minted
    BY <1>0 DEF IInv, TypeOK, Op, Holds, Asking, OneRefreshPerGrant, RemovedStaysRemoved,
                TokensOrdered
<1>1. /\ mem' \in Store /\ disk' \in Store /\ dirty' \in BOOLEAN
      /\ mem'.own = mem.own /\ mem'.zd[g] = t
      /\ \A h \in Grants \ {g} : mem'.zd[h] = mem.zd[h]
      /\ disk' \in {disk, mem'} /\ CleanFileMatches'
    BY <1>0, <1>t, WriteTokens
<1> QED BY <1>0, <1>t, <1>1, SettlingStep

\* What a read leaves of the tokens: the same, under the newest secret.
LEMMA ReadStep ==
    ASSUME IInv, NEW o \in Ops, Read(o)
    PROVE  IInv'
<1> DEFINE g == op[o].grant
           t == mem.zd[g]
           s == [t EXCEPT !.current = TRUE]
<1>0. Holds(o) /\ op[o].kind = "mint" /\ op[o].at = "queued" /\ op[o] # None
      /\ UNCHANGED <<clients, denied, gone, zendesk>>
    BY DEF Read, MayRun, Holds
<1>t. g \in Grants /\ TypeOK /\ CleanFileMatches /\ g \in clients /\ op[o].answer = None
      /\ minted \in Nat /\ op[o] \in Op
    BY <1>0 DEF IInv, TypeOK, Op, OperationsConsistent, Minted
<1>u. t # None => /\ t \in Token /\ s \in Token /\ s.at = t.at /\ s.rt = t.rt
                  /\ t.at <= minted /\ g \notin gone /\ s # None
  <2> SUFFICES ASSUME t # None
               PROVE  /\ t \in Token /\ s \in Token /\ s.at = t.at /\ s.rt = t.rt
                      /\ t.at <= minted /\ g \notin gone /\ s # None
      OBVIOUS
  <2>1. t \in Token
      BY <1>t DEF TypeOK, Store
  <2>2. s \in Token /\ s.at = t.at /\ s.rt = t.rt
    <3> HIDE DEF t
    <3> QED BY <2>1 DEF Token
  <2>3. t.at <= minted /\ g \notin gone
      BY <1>t DEF IInv, TokensOrdered, RemovedStaysRemoved
  <2>4. s # None
    <3> HIDE DEF s
    <3> QED BY <2>2, ConstantsAssumption DEF ConstantsAssumption
  <2> QED BY <2>1, <2>2, <2>3, <2>4
<1>1. CASE t = None /\ Settle(o) /\ UNCHANGED storage
  <2>1. /\ mem' \in Store /\ disk' \in Store /\ dirty' \in BOOLEAN
        /\ mem' = mem /\ disk' = disk /\ CleanFileMatches'
      BY <1>1, <1>t DEF storage, TypeOK, CleanFileMatches
  <2> HIDE DEF g
  <2> QED BY <1>0, <1>t, <1>1, <2>1, SettlingStep DEF g
<1>2. ASSUME t # None, \/ UNCHANGED storage
                       \/ \E ok \in BOOLEAN : Write(WithTokens(g, s), g, ok)
      PROVE  /\ mem' \in Store /\ disk' \in Store /\ dirty' \in BOOLEAN
             /\ mem'.own = mem.own /\ mem'.zd[g] \in {t, s}
             /\ \A h \in Grants \ {g} : mem'.zd[h] = mem.zd[h]
             /\ disk' \in {disk, mem'} /\ CleanFileMatches'
  <2>1. CASE UNCHANGED storage
      BY <1>t, <2>1 DEF storage, TypeOK, CleanFileMatches
  <2>2. CASE \E ok \in BOOLEAN : Write(WithTokens(g, s), g, ok)
    <3>1. PICK ok \in BOOLEAN : Write(WithTokens(g, s), g, ok)
        BY <2>2
    <3>2. s \in Token \cup {None}
        BY <1>2, <1>u
    <3> HIDE DEF g, s, t
    <3> QED BY <1>t, <3>1, <3>2, WriteTokens
  <2> QED BY <1>2, <2>1, <2>2
<1>3. CASE t # None /\ Settle(o) /\ (\/ UNCHANGED storage
                                    \/ \E ok \in BOOLEAN : Write(WithTokens(g, s), g, ok))
  <2>1. mem'.zd[g] # None => mem'.zd[g].at <= minted /\ g \notin gone'
      BY <1>0, <1>2, <1>3, <1>u
  <2> HIDE DEF g, s
  <2> QED BY <1>0, <1>t, <1>2, <1>3, <2>1, SettlingStep DEF g
<1>4. CASE /\ t # None /\ t.rt # NoRefresh
           /\ \/ UNCHANGED storage
              \/ \E ok \in BOOLEAN : Write(WithTokens(g, s), g, ok)
           /\ op' = [op EXCEPT ![o].at = "asking", ![o].spends = t.rt]
           /\ queue' = queue
  <2> DEFINE e == [op[o] EXCEPT !.at = "asking", !.spends = t.rt]
  <2>a. t.rt \in Minted \cup {NoRefresh}
      BY <1>u, <1>4 DEF Token
  <2>b. /\ e \in Op /\ e.grant = g /\ e.at = "asking" /\ e.kind = "mint"
        /\ e.answer = None /\ e.spends = t.rt
    <3> HIDE DEF t
    <3> QED BY <1>0, <1>t, <2>a DEF Op
  <2>c. op' = [op EXCEPT ![o] = e]
    <3> HIDE DEF t
    <3> QED BY <1>t, <1>4 DEF TypeOK
  <2> HIDE DEF e
  <2>1. /\ op' = [op EXCEPT ![o] = e] /\ e \in Op /\ e # None /\ e.grant = g
        /\ e.at = "asking" /\ e.kind = "mint" /\ e.answer = None /\ e.spends = t.rt
      BY <2>b, <2>c, ConstantsAssumption DEF ConstantsAssumption
  <2>2. /\ mem' \in Store /\ disk' \in Store /\ dirty' \in BOOLEAN
        /\ mem'.own = mem.own /\ mem'.zd[g] \in {t, s}
        /\ \A h \in Grants \ {g} : mem'.zd[h] = mem.zd[h]
        /\ disk' \in {disk, mem'} /\ CleanFileMatches'
      BY <1>2, <1>4
  <2>3. /\ mem'.zd[g] # None /\ mem'.zd[g].rt = t.rt /\ mem'.zd[g].at <= minted
      BY <1>u, <1>4, <2>2
  <2>t. queue' \in [Grants -> Seq(Ops)] /\ op' \in [Ops -> Op \cup {None}]
      BY <1>t, <1>4, <2>1 DEF TypeOK
  <2>4. TypeOK'
      BY <1>0, <1>t, <2>2, <2>t DEF TypeOK, zendesk
  <2>5. LockOrder'
      BY <1>0, <1>4, <2>1, LockAdvance DEF IInv, Waiting
  <2>6. OperationsConsistent'
    <3>1. gone' \subseteq clients
        BY <1>0 DEF IInv, OperationsConsistent
    <3> HIDE DEF g, s
    <3> QED BY <1>0, <1>t, <2>1, <2>2, <3>1, SignInsUndisturbed
  <2>7. OneRefreshPerGrant' /\ TokensOrdered'
    <3>1. minted' \in Nat /\ minted' >= minted /\ mem'.zd[g].at <= minted'
        BY <1>0, <1>t, <2>3 DEF zendesk
    <3>2. None \notin Token
        BY ConstantsAssumption DEF ConstantsAssumption
    <3>3. op[o].grant = g /\ mem' \in Store /\ g \in Grants
        BY <1>t, <2>2
    <3>4. mem'.zd[g].rt = e.spends /\ e.spends # NoRefresh /\ e.answer \notin Token
        BY <1>4, <2>1, <2>3, <3>2
    <3>5. (\A h \in Grants \ {g} : mem'.zd[h] = mem.zd[h]) /\ disk' \in {disk, mem'}
        BY <2>2
    <3> HIDE DEF s, g
    <3> QED BY <1>0, <2>1, <2>3, <3>1, <3>3, <3>4, <3>5, RefreshesUndisturbed
  <2>8. RemovedStaysRemoved'
      BY <1>0, <1>u, <1>4, <2>2 DEF IInv, RemovedStaysRemoved, TypeOK
  <2> QED BY <2>2, <2>4, <2>5, <2>6, <2>7, <2>8 DEF IInv
<1>5. \/ t = None /\ Settle(o) /\ UNCHANGED storage
      \/ /\ t # None
         /\ \/ UNCHANGED storage
            \/ \E ok \in BOOLEAN : Write(WithTokens(g, s), g, ok)
         /\ \/ Settle(o)
            \/ /\ t.rt # NoRefresh
               /\ op' = [op EXCEPT ![o].at = "asking", ![o].spends = t.rt]
               /\ queue' = queue
    BY DEF Read
<1> QED BY <1>1, <1>3, <1>4, <1>5

\* The answer of Zendesk is newer than every token stored.
LEMMA ZendeskAnswersStep ==
    ASSUME IInv, NEW o \in Ops, ZendeskAnswers(o)
    PROVE  IInv'
<1> DEFINE g == op[o].grant
           a == op'[o].answer
<1>0. Asking(o) /\ UNCHANGED <<storage, queue, clients, denied, gone, aged>>
    BY DEF ZendeskAnswers
<1>t. /\ TypeOK /\ CleanFileMatches /\ op[o] \in Op /\ g \in Grants /\ g \in clients
      /\ minted \in Nat /\ gone \subseteq clients /\ op[o].kind = "mint" /\ op[o] # None
    BY <1>0 DEF IInv, TypeOK, Op, Asking, OperationsConsistent, Minted
<1>h. Holds(o) /\ op[o].at = "asking"
    BY <1>0, AskingHolds DEF IInv, Asking
<1>r. mem.zd[g] # None /\ mem.zd[g].rt = op[o].spends /\ op[o].spends # NoRefresh
      /\ mem.zd[g].at <= minted /\ mem.zd[g].at \in Nat
    BY <1>0, <1>t DEF IInv, OneRefreshPerGrant, TokensOrdered, TypeOK, Store, Token, Minted
<1>1. ASSUME NEW x \in Token \cup {Refused}, op' = [op EXCEPT ![o].answer = x],
             live' \subseteq Minted, minted' \in Minted \cup {0}, minted' >= minted,
             x \in Token => x.at = minted' /\ minted' > minted
      PROVE  IInv'
  <2> DEFINE e == [op[o] EXCEPT !.answer = x]
  <2>a. e \in Op /\ e.grant = g /\ e.at = "asking" /\ e.kind = "mint" /\ e.answer = x
        /\ e.spends = op[o].spends
      BY <1>t, <1>h DEF Op
  <2>b. op' = [op EXCEPT ![o] = e]
      BY <1>t, <1>1 DEF TypeOK
  <2> HIDE DEF e
  <2>1. e # None
      BY <2>a, ConstantsAssumption DEF ConstantsAssumption
  <2>2. op' \in [Ops -> Op \cup {None}] /\ mem' = mem /\ disk' = disk /\ queue' = queue
      BY <1>0, <1>t, <2>a, <2>b DEF TypeOK, storage
  <2>3. TypeOK'
      BY <1>0, <1>t, <1>1, <2>2 DEF TypeOK, storage
  <2>4. LockOrder'
      BY <1>0, <1>t, <1>h, <2>a, <2>b, <2>1, LockAdvance DEF IInv, Waiting
  <2>5. OperationsConsistent'
      BY <1>0, <1>t, <2>a, <2>b, <2>1, <2>2, SignInsUndisturbed
  <2>6. OneRefreshPerGrant' /\ TokensOrdered'
    <3>1. minted' \in Nat /\ mem'.zd[g].at <= minted' /\ mem' \in Store
        BY <1>1, <1>t, <1>r, <2>2 DEF Minted, TypeOK
    <3>2. e.answer \in Token => e.answer.at <= minted' /\ e.answer.at > mem'.zd[g].at
        BY <1>1, <1>t, <1>r, <2>a, <2>2, <3>1
    <3>3. /\ mem'.zd[g] # None /\ mem'.zd[g].rt = e.spends /\ e.spends # NoRefresh
        BY <1>r, <2>a, <2>2
    <3> QED BY <1>t, <1>h, <1>1, <2>a, <2>b, <2>1, <2>2, <3>1, <3>2, <3>3, RefreshesUndisturbed
  <2>7. RemovedStaysRemoved' /\ CleanFileMatches'
      BY <1>0, <2>2 DEF IInv, RemovedStaysRemoved, CleanFileMatches, storage
  <2> QED BY <2>3, <2>4, <2>5, <2>6, <2>7 DEF IInv
<1>2. CASE /\ minted + 1 \in Minted /\ minted' = minted + 1
           /\ \E rotates, dated \in BOOLEAN :
               /\ live' = IF rotates THEN (live \ {op[o].spends}) \cup {minted + 1} ELSE live
               /\ op' = [op EXCEPT ![o].answer =
                    [at |-> minted + 1, rt |-> IF rotates THEN minted + 1 ELSE op[o].spends,
                     dated |-> dated, current |-> TRUE]]
  <2>1. PICK rotates \in BOOLEAN, dated \in BOOLEAN :
               /\ live' = IF rotates THEN (live \ {op[o].spends}) \cup {minted + 1} ELSE live
               /\ op' = [op EXCEPT ![o].answer =
                    [at |-> minted + 1, rt |-> IF rotates THEN minted + 1 ELSE op[o].spends,
                     dated |-> dated, current |-> TRUE]]
      BY <1>2
  <2> DEFINE x == [at |-> minted + 1, rt |-> IF rotates THEN minted + 1 ELSE op[o].spends,
                   dated |-> dated, current |-> TRUE]
  <2>2. x \in Token /\ x.at = minted'
    <3>1. op[o].spends \in Minted \cup {NoRefresh} /\ op[o].spends <= minted + 1
        BY <1>0, <1>t, MintedBefore DEF Op
    <3>2. (IF rotates THEN minted + 1 ELSE op[o].spends) \in Minted \cup {NoRefresh}
          /\ (IF rotates THEN minted + 1 ELSE op[o].spends) <= minted + 1
        BY <1>2, <1>t, <3>1
    <3> QED BY <1>2, <3>2, MintedToken
  <2>3. live' \subseteq Minted /\ minted' > minted /\ minted' >= minted
      BY <1>2, <1>t, <2>1 DEF TypeOK
  <2> HIDE DEF x
  <2>4. op' = [op EXCEPT ![o].answer = x]
      BY <2>1 DEF x
  <2> QED BY <1>1, <1>2, <2>2, <2>3, <2>4
<1>3. CASE op' = [op EXCEPT ![o].answer = Refused] /\ UNCHANGED <<live, minted>>
  <2>1. Refused \notin Token
      BY ConstantsAssumption DEF ConstantsAssumption
  <2>2. live' \subseteq Minted /\ minted' \in Minted \cup {0} /\ minted' >= minted
      BY <1>3, <1>t DEF TypeOK
  <2> QED BY <1>1, <1>3, <2>1, <2>2
<1> QED BY <1>2, <1>3 DEF ZendeskAnswers

\* The tokens of a sign-in are stored where none were.
LEMMA SaveTokensStep ==
    ASSUME IInv, NEW o \in Ops, SaveTokens(o)
    PROVE  IInv'
<1> DEFINE g == op[o].grant
           t == op[o].answer
<1>0. op[o] # None /\ op[o].at = "saving" /\ op' = [op EXCEPT ![o] = None]
      /\ UNCHANGED <<queue, denied, gone, zendesk>>
    BY DEF SaveTokens
<1>t. /\ TypeOK /\ CleanFileMatches /\ g \in Grants /\ t \in Token /\ g \notin clients
      /\ mem.zd[g] = None /\ mem.own[g] # "absent" /\ gone \subseteq clients
      /\ minted \in Nat /\ t.at <= minted
      /\ \A p \in Ops : op[p] # None /\ op[p].grant = g => p = o
    BY <1>0 DEF IInv, TypeOK, Op, OperationsConsistent, Minted, TokensOrdered
<1>1. PICK ok \in BOOLEAN : /\ Write(WithTokens(g, t), g, ok)
                            /\ clients' = IF ok THEN clients \cup {g} ELSE clients
    BY DEF SaveTokens
<1>2. /\ mem' \in Store /\ disk' \in Store /\ dirty' \in BOOLEAN
      /\ mem'.own = mem.own /\ mem'.zd[g] = t
      /\ \A h \in Grants \ {g} : mem'.zd[h] = mem.zd[h]
      /\ disk' \in {disk, mem'} /\ CleanFileMatches'
    BY <1>1, <1>t, WriteTokens
<1>o. op' \in [Ops -> Op \cup {None}] /\ op'[o] = None /\ \A p \in Ops : p # o => op'[p] = op[p]
    BY <1>0, <1>t DEF TypeOK
<1>3. TypeOK'
    BY <1>0, <1>t, <1>1, <1>2, <1>o DEF TypeOK, zendesk
<1>4. LockOrder'
    BY <1>0, LockOutside DEF IInv, Waiting
<1>5. OperationsConsistent'
  <2> HIDE DEF g, t
  <2>1. ASSUME NEW p \in Ops, op'[p] # None
        PROVE  /\ op[p] = op'[p] /\ op[p] # None /\ p # o
               /\ op[p].grant \in Grants \ {g}
               /\ mem'.zd[op[p].grant] = mem.zd[op[p].grant]
               /\ op[p].grant \in clients' <=> op[p].grant \in clients
    <3>1. op'[p] = op[p] /\ p # o /\ op[p] \in Op /\ op[p].grant \in Grants
        BY <1>o, <1>t, <2>1 DEF TypeOK, Op
    <3> QED BY <1>t, <1>1, <1>2, <2>1, <3>1
  <2>2. ASSUME NEW p \in Ops, op'[p] # None
        PROVE  /\ op'[p].at = "saving" =>
                    /\ op'[p].answer \in Token /\ op'[p].grant \notin clients'
                    /\ mem'.zd[op'[p].grant] = None /\ mem'.own[op'[p].grant] # "absent"
                    /\ \A q \in Ops : op'[q] # None /\ op'[q].grant = op'[p].grant => q = p
               /\ op'[p].at # "saving" => op'[p].grant \in clients'
               /\ op'[p].at = "asking" => op'[p].kind = "mint"
               /\ op'[p].at \in {"finding", "queued"} => op'[p].answer = None
      BY <1>2, <2>1, <2>2 DEF IInv, OperationsConsistent
  <2>3. ASSUME NEW h \in Grants \ clients'
        PROVE  /\ mem'.own[h] = "absent" => mem'.zd[h] = None
               /\ disk'.own[h] = "absent" => disk'.zd[h] = None
    <3>1. h \in Grants \ clients
        BY <1>1
    <3>2. /\ mem.own[h] = "absent" => mem.zd[h] = None
          /\ disk.own[h] = "absent" => disk.zd[h] = None
        BY <3>1 DEF IInv, OperationsConsistent
    <3> QED BY <1>2, <1>t, <3>2
  <2>4. gone' \subseteq clients'
      BY <1>0, <1>t, <1>1
  <2> QED BY <2>2, <2>3, <2>4 DEF OperationsConsistent
<1>6. OneRefreshPerGrant' /\ TokensOrdered'
  <2> HIDE DEF g, t
  <2>1. \A p \in Ops : Asking(p)' => /\ Asking(p) /\ op'[p] = op[p]
                                     /\ op[p].grant \in Grants \ {g}
                                     /\ mem'.zd[op[p].grant] = mem.zd[op[p].grant]
    <3> SUFFICES ASSUME NEW p \in Ops, Asking(p)'
                 PROVE  /\ Asking(p) /\ op'[p] = op[p] /\ op[p].grant \in Grants \ {g}
                        /\ mem'.zd[op[p].grant] = mem.zd[op[p].grant]
        OBVIOUS
    <3>1. op'[p] = op[p] /\ p # o /\ op[p] # None /\ op[p].grant \in Grants /\ Asking(p)
        BY <1>o, <1>t DEF TypeOK, Op, Asking
    <3> QED BY <1>t, <1>2, <3>1
  <2>2. OneRefreshPerGrant'
      BY <2>1 DEF IInv, OneRefreshPerGrant
  <2>3. \A h \in Grants : /\ mem'.zd[h] # None => mem'.zd[h].at <= minted'
                          /\ disk'.zd[h] # None => disk'.zd[h].at <= minted'
    <3>1. minted' = minted
        BY <1>0 DEF zendesk
    <3> QED BY <1>t, <1>2, <3>1 DEF IInv, TokensOrdered
  <2>4. ASSUME NEW p \in Ops, op'[p] # None, op'[p].answer \in Token
        PROVE  /\ op'[p].answer.at <= minted'
               /\ op'[p].at = "asking" => op'[p].answer.at > mem'.zd[op'[p].grant].at
      BY <1>0, <1>o, <2>1, <2>4 DEF IInv, TokensOrdered, Asking, zendesk
  <2> QED BY <2>2, <2>3, <2>4 DEF TokensOrdered
<1>7. RemovedStaysRemoved'
    BY <1>0, <1>t, <1>2 DEF IInv, RemovedStaysRemoved, TypeOK
<1> QED BY <1>2, <1>3, <1>4, <1>5, <1>6, <1>7 DEF IInv

\* A sign-in approved: nothing was stored or under way for its grant.
LEMMA ApproveStep ==
    ASSUME IInv, NEW o \in Ops, NEW g \in Grants, Approve(o, g)
    PROVE  IInv'
<1>0. /\ op[o] = None /\ New(g) /\ minted + 1 \in Minted /\ minted' = minted + 1
      /\ UNCHANGED <<queue, clients, denied, gone, aged>>
    BY DEF Approve, Free
<1>t. /\ TypeOK /\ CleanFileMatches /\ minted \in Nat /\ g \notin clients
      /\ mem.zd[g] = None /\ gone \subseteq clients
      /\ \A p \in Ops : op[p] # None => op[p].grant # g
    BY <1>0 DEF IInv, TypeOK, Minted, New, OperationsConsistent
<1>1. PICK refreshable \in BOOLEAN, dated \in BOOLEAN, ok \in BOOLEAN :
        LET t == [at |-> minted + 1, rt |-> IF refreshable THEN minted + 1 ELSE NoRefresh,
                  dated |-> dated, current |-> TRUE] IN
        /\ live' = IF refreshable THEN live \cup {minted + 1} ELSE live
        /\ Write(WithOwn(g, "current"), g, ok)
        /\ \/ op' = [op EXCEPT ![o] = [NewOp("approve", g, "saving") EXCEPT !.answer = t]]
           \/ UNCHANGED op
    BY DEF Approve
<1> DEFINE t == [at |-> minted + 1, rt |-> IF refreshable THEN minted + 1 ELSE NoRefresh,
                 dated |-> dated, current |-> TRUE]
           n == NewOp("approve", g, "saving")
           e == [n EXCEPT !.answer = t]
<1>2. t \in Token /\ t.at = minted + 1
    BY <1>0, <1>t, MintedToken DEF NoRefresh
<1>3. n \in Op /\ n.grant = g /\ n.at = "saving"
    BY NewOpFacts
<1> HIDE DEF t, n
<1>4. e \in Op /\ e.grant = g /\ e.at = "saving" /\ e.answer = t
    BY <1>2, <1>3 DEF Op
<1>5. op' = [op EXCEPT ![o] = e] \/ op' = [op EXCEPT ![o] = None]
    BY <1>0, <1>1, <1>t DEF n, t, TypeOK
<1> HIDE DEF e
<1>6. PICK x \in Op \cup {None} : op' = [op EXCEPT ![o] = x] /\ x \in {e, None}
    BY <1>4, <1>5
<1>7. /\ mem' \in Store /\ disk' \in Store /\ dirty' \in BOOLEAN
      /\ mem'.zd = mem.zd /\ mem'.own[g] = "current"
      /\ \A h \in Grants \ {g} : mem'.own[h] = mem.own[h]
      /\ disk' \in {disk, mem'} /\ CleanFileMatches'
    BY <1>1, <1>t, WriteOwn
<1>o. /\ op' \in [Ops -> Op \cup {None}] /\ op'[o] = x
      /\ \A p \in Ops : p # o => op'[p] = op[p]
    BY <1>6, <1>t DEF TypeOK
<1>8. live' \subseteq Minted
    BY <1>0, <1>1, <1>t DEF TypeOK
<1>9. TypeOK'
    BY <1>0, <1>t, <1>7, <1>8, <1>o DEF TypeOK
<1>10. LockOrder'
  <2>1. x = None \/ x.at \notin Waiting
      BY <1>4, <1>6 DEF Waiting
  <2> QED BY <1>0, <1>6, <2>1, LockOutside DEF IInv
<1>11. OperationsConsistent'
  <2>1. ASSUME NEW p \in Ops, op'[p] # None
        PROVE  /\ op'[p].at = "saving" =>
                    /\ op'[p].answer \in Token /\ op'[p].grant \notin clients'
                    /\ mem'.zd[op'[p].grant] = None /\ mem'.own[op'[p].grant] # "absent"
                    /\ \A q \in Ops : op'[q] # None /\ op'[q].grant = op'[p].grant => q = p
               /\ op'[p].at # "saving" => op'[p].grant \in clients'
               /\ op'[p].at = "asking" => op'[p].kind = "mint"
               /\ op'[p].at \in {"finding", "queued"} => op'[p].answer = None
    <3>1. CASE p = o
        BY <1>0, <1>t, <1>2, <1>4, <1>6, <1>7, <1>o, <2>1, <3>1
    <3>2. CASE p # o
      <4>1. op'[p] = op[p] /\ op[p].grant \in Grants \ {g}
          BY <1>o, <1>t, <2>1, <3>2 DEF TypeOK, Op
      <4>2. op'[o] # None => op'[o].grant = g
          BY <1>4, <1>6, <1>o
      <4> QED BY <1>0, <1>7, <1>o, <2>1, <3>2, <4>1, <4>2 DEF IInv, OperationsConsistent
    <3> QED BY <3>1, <3>2
  <2>2. ASSUME NEW h \in Grants \ clients'
        PROVE  /\ mem'.own[h] = "absent" => mem'.zd[h] = None
               /\ disk'.own[h] = "absent" => disk'.zd[h] = None
    <3>1. /\ mem.own[h] = "absent" => mem.zd[h] = None
          /\ disk.own[h] = "absent" => disk.zd[h] = None
        BY <1>0 DEF IInv, OperationsConsistent
    <3> QED BY <1>t, <1>7, <3>1
  <2> QED BY <1>0, <1>t, <2>1, <2>2 DEF OperationsConsistent
<1>12. OneRefreshPerGrant' /\ TokensOrdered'
  <2>1. minted' \in Nat /\ minted' >= minted /\ (mem'.zd[g] # None => mem'.zd[g].at <= minted')
      BY <1>0, <1>t, <1>7
  <2>2. x # None => x.at # "asking" /\ (x.answer \in Token => x.answer.at <= minted')
      BY <1>0, <1>t, <1>2, <1>4, <1>6
  <2> QED BY <1>6, <1>7, <2>1, <2>2, RefreshesUndisturbed
<1>13. RemovedStaysRemoved'
    BY <1>0, <1>7 DEF IInv, RemovedStaysRemoved
<1> QED BY <1>7, <1>9, <1>10, <1>11, <1>12, <1>13 DEF IInv

\* Time passing, and a step that changes nothing.
LEMMA QuietStep ==
    ASSUME IInv, UNCHANGED <<storage, lock, clients, gone, minted>>,
           denied' \subseteq Grants, live' \subseteq Minted, aged' \subseteq Minted
    PROVE  IInv'
<1>1. /\ mem' = mem /\ disk' = disk /\ dirty' = dirty /\ queue' = queue /\ op' = op
      /\ clients' = clients /\ gone' = gone /\ minted' = minted
    BY DEF storage, lock
<1>2. TypeOK'
    BY <1>1 DEF IInv, TypeOK
<1> QED BY <1>1, <1>2
    DEF IInv, LockOrder, OneRefreshPerGrant, OperationsConsistent, TokensOrdered,
        RemovedStaysRemoved, CleanFileMatches, Asking

\* Whatever was under way is lost; the file is what remains.
LEMMA RestartStep ==
    ASSUME IInv, Restart
    PROVE  IInv'
<1>0. /\ mem' = disk' /\ dirty' = FALSE /\ queue' = [g \in Grants |-> <<>>]
      /\ op' = [o \in Ops |-> None] /\ denied' = {}
      /\ gone' = {g \in gone : disk.zd[g] = None} /\ UNCHANGED <<clients, zendesk>>
    BY DEF Restart
<1>t. TypeOK
    BY DEF IInv
<1>1. PICK rotated \in BOOLEAN : mem' = Resealed(disk, rotated)
    BY DEF Restart
<1>2. /\ mem' \in Store
      /\ \A g \in Grants : /\ mem'.zd[g] = None <=> disk.zd[g] = None
                           /\ mem'.zd[g] # None => mem'.zd[g].at = disk.zd[g].at
                           /\ mem'.own[g] = "absent" <=> disk.own[g] = "absent"
  <2>1. CASE ~rotated
      BY <1>t, <1>1, <2>1 DEF Resealed, TypeOK
  <2>2. CASE rotated
    <3>1. \A t \in Token : /\ [t EXCEPT !.current = FALSE] \in Token
                           /\ [t EXCEPT !.current = FALSE].at = t.at
        BY DEF Token
    <3>2. \A t \in Token : t # None /\ [t EXCEPT !.current = FALSE] # None
        BY <3>1, ConstantsAssumption DEF ConstantsAssumption
    <3>3. disk.zd \in [Grants -> Token \cup {None}]
          /\ disk.own \in [Grants -> {"absent", "old", "current"}]
        BY <1>t DEF TypeOK, Store
    <3>4. mem' = [zd |-> [g \in Grants |-> IF disk.zd[g] = None THEN None
                                   ELSE [disk.zd[g] EXCEPT !.current = FALSE]],
                  own |-> [g \in Grants |-> IF disk.own[g] = "absent" THEN "absent" ELSE "old"]]
        BY <1>1, <2>2 DEF Resealed
    <3>5. \A g \in Grants : mem'.zd[g] = IF disk.zd[g] = None THEN None
                                   ELSE [disk.zd[g] EXCEPT !.current = FALSE]
        BY <3>4
    <3>6. \A g \in Grants : mem'.own[g] = IF disk.own[g] = "absent" THEN "absent" ELSE "old"
        BY <3>4
    <3>7. mem'.zd \in [Grants -> Token \cup {None}]
          /\ mem'.own \in [Grants -> {"absent", "old", "current"}]
      <4>1. \A g \in Grants : (IF disk.zd[g] = None THEN None
                               ELSE [disk.zd[g] EXCEPT !.current = FALSE]) \in Token \cup {None}
          BY <3>1, <3>3
      <4> QED BY <3>4, <4>1
    <3> QED BY <3>1, <3>2, <3>3, <3>4, <3>5, <3>6, <3>7 DEF Store
  <2> QED BY <2>1, <2>2
<1>q. queue' \in [Grants -> Seq(Ops)] /\ op' \in [Ops -> Op \cup {None}]
  <2>1. <<>> \in Seq(Ops) OBVIOUS
  <2> QED BY <1>0, <2>1
<1>3. TypeOK'
    BY <1>0, <1>t, <1>2, <1>q DEF TypeOK, zendesk
<1>4. \A g \in Grants : Len(queue'[g]) = 0
    BY <1>0
<1>5. LockOrder'
    BY <1>0, <1>4 DEF LockOrder
<1>6. OneRefreshPerGrant'
    BY <1>0 DEF OneRefreshPerGrant, Asking
<1>7. OperationsConsistent'
    BY <1>0, <1>2 DEF IInv, OperationsConsistent
<1>8. TokensOrdered'
    BY <1>0, <1>2 DEF IInv, TokensOrdered, zendesk
<1>9. RemovedStaysRemoved' /\ CleanFileMatches'
    BY <1>0, <1>2, <1>t DEF RemovedStaysRemoved, CleanFileMatches, TypeOK
<1> QED BY <1>3, <1>5, <1>6, <1>7, <1>8, <1>9 DEF IInv

-----------------------------------------------------------------------------
(* The theorems.                                                           *)

LEMMA InitIInv == Init => IInv
<1> SUFFICES ASSUME Init PROVE IInv
    OBVIOUS
<1>1. /\ mem = [zd |-> [g \in Grants |-> None], own |-> [g \in Grants |-> "absent"]]
      /\ disk = mem /\ dirty = FALSE
      /\ queue = [g \in Grants |-> <<>>] /\ op = [o \in Ops |-> None]
      /\ clients = {} /\ denied = {} /\ gone = {} /\ live = {} /\ aged = {} /\ minted = 0
    BY DEF Init
<1>2. mem \in Store /\ \A g \in Grants : mem.zd[g] = None /\ mem.own[g] = "absent"
    BY <1>1 DEF Store
<1>q. queue \in [Grants -> Seq(Ops)] /\ op \in [Ops -> Op \cup {None}]
  <2>1. <<>> \in Seq(Ops) OBVIOUS
  <2> QED BY <1>1, <2>1
<1>3. TypeOK
    BY <1>1, <1>2, <1>q DEF TypeOK
<1>4. \A g \in Grants : Len(queue[g]) = 0
    BY <1>1
<1>5. LockOrder
    BY <1>1, <1>4 DEF LockOrder
<1> QED BY <1>1, <1>2, <1>3, <1>5
    DEF IInv, OneRefreshPerGrant, OperationsConsistent, TokensOrdered, RemovedStaysRemoved,
        CleanFileMatches, Asking

LEMMA NextIInv == IInv /\ [Next]_vars => IInv'
<1> SUFFICES ASSUME IInv, [Next]_vars PROVE IInv'
    OBVIOUS
<1>t. denied \subseteq Grants /\ live \subseteq Minted /\ aged \subseteq Minted
      /\ minted \in Minted \cup {0}
    BY DEF IInv, TypeOK
<1>1. ASSUME NEW o \in Ops, NEW g \in Grants,
             Approve(o, g) \/ Mint(o, g) \/ Revoke(o, g) \/ ProviderEnds(o, g)
      PROVE  IInv'
    BY <1>1, ApproveStep, MintStep, RevokeStep, ProviderEndsStep
<1>2. ASSUME NEW o \in Ops, Step(o) PROVE IInv'
    BY <1>2, SaveTokensStep, ReadStep, RefreshedStep, RefreshFailsStep, FindThrowsStep,
       FindStep, RemoveStep DEF Step
<1>3. ASSUME NEW o \in Ops, ZendeskAnswers(o) PROVE IInv'
    BY <1>3, ZendeskAnswersStep
<1>4. ASSUME NEW n \in Minted, Age(n) PROVE IInv'
    BY <1>4, <1>t, QuietStep DEF Age
<1>5. ASSUME NEW n \in Minted, Expire(n) PROVE IInv'
    BY <1>5, <1>t, QuietStep DEF Expire
<1>6. CASE Restart
    BY <1>6, RestartStep
<1>7. CASE UNCHANGED vars
    BY <1>7, <1>t, QuietStep DEF vars, zendesk
<1> QED BY <1>1, <1>2, <1>3, <1>4, <1>5, <1>6, <1>7 DEF Next

\* The inductive invariant holds in every reachable state, whatever the number
\* of grants, operations and tokens.
THEOREM Invariance == Spec => []IInv
<1>1. Init => IInv BY InitIInv
<1>2. IInv /\ [Next]_vars => IInv' BY NextIInv
<1> QED BY <1>1, <1>2, PTL DEF Spec

\* Every variable keeps its type.
THEOREM TypeCorrect == Spec => []TypeOK
<1>1. IInv => TypeOK BY DEF IInv
<1> QED BY <1>1, Invariance, PTL

\* createZendeskGrants' lock: at most one refresh per grant is under way, and it
\* was made from the tokens the grant still holds.
THEOREM OneRefresh == Spec => []OneRefreshPerGrant
<1>1. IInv => OneRefreshPerGrant BY DEF IInv
<1> QED BY <1>1, Invariance, PTL

\* remove waits for a running refresh, so no refresh brings tokens back.
THEOREM RemovedForGood == Spec => []RemovedStaysRemoved
<1>1. IInv => RemovedStaysRemoved BY DEF IInv
<1> QED BY <1>1, Invariance, PTL

\* persist writes the whole map: a success after failures leaves nothing out.
THEOREM CleanFile == Spec => []CleanFileMatches
<1>1. IInv => CleanFileMatches BY DEF IInv
<1> QED BY <1>1, Invariance, PTL

-----------------------------------------------------------------------------
(* The tokens of each grant implement RotatingCredential.                  *)

Spending(g) == \E o \in Ops : Asking(o) /\ op[o].grant = g

\* A step elsewhere is a stutter, or a write that brings the file up to date.
LEMMA CredentialSame ==
    ASSUME NEW g \in Grants, AtOf(mem'.zd[g]) = AtOf(mem.zd[g]), disk' \in {disk, mem'},
           Spending(g)' <=> Spending(g)
    PROVE  Credential(g)!Step
<1>1. CASE AtOf(disk'.zd[g]) = AtOf(disk.zd[g])
    BY <1>1 DEF Credential!Step, Credential!vars, Spending, AtOf
<1>2. CASE disk' = mem'
  <2>1. Credential(g)!Flush
      BY <1>2 DEF Credential!Flush, Spending, AtOf
  <2> QED BY <2>1 DEF Credential!Step, Credential!Next
<1> QED BY <1>1, <1>2

LEMMA SpendingSame ==
    ASSUME TypeOK, NEW o \in Ops, NEW e \in Op \cup {None}, NEW g \in Grants,
           op' = [op EXCEPT ![o] = e],
           (op[o] # None /\ op[o].at = "asking" /\ op[o].grant = g) <=>
           (e # None /\ e.at = "asking" /\ e.grant = g)
    PROVE  Spending(g)' <=> Spending(g)
<1>1. op'[o] = e /\ \A p \in Ops : p # o => op'[p] = op[p]
    BY DEF TypeOK
<1>2. \A p \in Ops : (Asking(p) /\ op[p].grant = g)' <=> (Asking(p) /\ op[p].grant = g)
    BY <1>1 DEF Asking
<1> QED BY <1>2 DEF Spending

\* When the holder of the lock settles, its grant's tokens are spent by nobody.
LEMMA SpendingEnds ==
    ASSUME IInv, NEW o \in Ops, Holds(o), Settle(o), NEW g \in Grants, g = op[o].grant
    PROVE  ~Spending(g)'
<1>1. op'[o] = None /\ \A p \in Ops : p # o => op'[p] = op[p]
    BY DEF IInv, TypeOK, Settle
<1>2. ASSUME NEW p \in Ops, (Asking(p))', op'[p].grant = g PROVE FALSE
  <2>1. p # o /\ op[p] # None /\ op[p].at = "asking" /\ op[p].grant = op[o].grant
      BY <1>1, <1>2 DEF Asking
  <2> QED BY <2>1, OneHolds DEF IInv
<1> QED BY <1>2 DEF Spending

\* A step of an operation that settles, seen by any grant: another grant sees
\* at most a write of the file.
LEMMA SettlingCredential ==
    ASSUME IInv, NEW o \in Ops, Holds(o), Settle(o),
           NEW g \in Grants, NEW h \in Grants, g = op[o].grant, h # g,
           mem'.zd[h] = mem.zd[h], disk' \in {disk, mem'}
    PROVE  Credential(h)!Step
<1>1. TypeOK /\ op' = [op EXCEPT ![o] = None]
    BY DEF IInv, Settle
<1>2. Spending(h)' <=> Spending(h)
    BY <1>1, SpendingSame
<1> QED BY <1>2, CredentialSame

LEMMA CredentialDropped ==
    ASSUME NEW g \in Grants, mem'.zd[g] = None, disk' \in {disk, mem'}, ~Spending(g)'
    PROVE  Credential(g)!Step
<1>1. Credential(g)!Drop
    BY DEF Credential!Drop, Credential!Write, Credential!Absent, AtOf, Spending
<1> QED BY <1>1 DEF Credential!Step, Credential!Next

LEMMA CredentialUnchanged ==
    ASSUME NEW g \in Grants, mem' = mem, disk' = disk, Spending(g), ~Spending(g)'
    PROVE  Credential(g)!Step
<1>1. Credential(g)!Keep
    BY DEF Credential!Keep, AtOf, Spending
<1> QED BY <1>1 DEF Credential!Step, Credential!Next

\* Tokens newer than the grant's come from its refresh, or while none runs.
LEMMA CredentialNewer ==
    ASSUME NEW g \in Grants, AtOf(mem'.zd[g]) \in Nat, AtOf(mem'.zd[g]) > AtOf(mem.zd[g]),
           disk' \in {disk, mem'}, ~Spending(g)'
    PROVE  Credential(g)!Step
<1>1. CASE Spending(g)
  <2>1. Credential(g)!Renew
      BY <1>1 DEF Credential!Renew, Credential!Write, AtOf, Spending
  <2> QED BY <2>1 DEF Credential!Step, Credential!Next
<1>2. CASE ~Spending(g)
  <2>1. Credential(g)!Obtain
      BY <1>2 DEF Credential!Obtain, Credential!Write, AtOf, Spending
  <2> QED BY <2>1 DEF Credential!Step, Credential!Next
<1> QED BY <1>1, <1>2

LEMMA RemoveCredential ==
    ASSUME IInv, NEW o \in Ops, NEW h \in Grants, Remove(o) \/ RefreshFails(o)
    PROVE  Credential(h)!Step
<1>0. Holds(o) /\ Settle(o) /\ TypeOK /\ CleanFileMatches
    BY DEF Remove, RefreshFails, MayRun, IInv
<1>t. PICK g \in Grants : g = op[o].grant
    BY <1>0 DEF TypeOK, Op, Holds
<1>s. ~Spending(g)'
    BY <1>0, <1>t, SpendingEnds
<1>1. CASE \E ok \in BOOLEAN : DeleteTokens(g, ok)
  <2>1. /\ mem'.zd[g] = None /\ \A k \in Grants \ {g} : mem'.zd[k] = mem.zd[k]
        /\ disk' \in {disk, mem'}
      BY <1>0, <1>1, TokensDeleted
  <2>2. CASE h = g
    <3>1. mem'.zd[h] = None /\ ~Spending(h)'
        BY <1>s, <2>1, <2>2
    <3> QED BY <2>1, <3>1, CredentialDropped
  <2>3. CASE h # g
      BY <1>0, <1>t, <2>1, <2>3, SettlingCredential
  <2> QED BY <2>2, <2>3
<1>2. CASE UNCHANGED storage /\ Asking(o)
  <2>1. mem' = mem /\ disk' = disk
      BY <1>2 DEF storage
  <2>2. CASE h = g
    <3>1. Spending(h) /\ ~Spending(h)'
        BY <1>2, <1>s, <1>t, <2>2 DEF Spending
    <3> QED BY <2>1, <3>1, CredentialUnchanged
  <2>3. CASE h # g
      BY <1>0, <1>t, <2>1, <2>3, SettlingCredential
  <2> QED BY <2>2, <2>3
<1> QED BY <1>1, <1>2, <1>t DEF Remove, RefreshFails

LEMMA RefreshedCredential ==
    ASSUME IInv, NEW o \in Ops, NEW h \in Grants, Refreshed(o)
    PROVE  Credential(h)!Step
<1> DEFINE g == op[o].grant
           t == op[o].answer
<1>0. Holds(o) /\ Asking(o) /\ Settle(o) /\ t \notin {None, Refused}
      /\ \E ok \in BOOLEAN : Write(WithTokens(g, t), g, ok)
    BY DEF Refreshed, MayRun
<1>t. g \in Grants /\ t \in Token /\ TypeOK /\ CleanFileMatches /\ mem.zd[g] # None
      /\ t.at > mem.zd[g].at /\ t.at \in Nat /\ t # None
    BY <1>0 DEF IInv, TypeOK, Op, Holds, Asking, OneRefreshPerGrant, TokensOrdered, Token, Minted
<1>1. /\ mem'.zd[g] = t /\ \A k \in Grants \ {g} : mem'.zd[k] = mem.zd[k]
      /\ disk' \in {disk, mem'}
    BY <1>0, <1>t, WriteTokens
<1>2. CASE h = g
  <2>1. ~Spending(h)'
      BY <1>0, <1>t, <1>2, SpendingEnds
  <2>2. AtOf(mem'.zd[h]) \in Nat /\ AtOf(mem'.zd[h]) > AtOf(mem.zd[h])
      BY <1>t, <1>1, <1>2 DEF AtOf
  <2> QED BY <1>1, <2>1, <2>2, CredentialNewer
<1>3. CASE h # g
    BY <1>0, <1>t, <1>1, <1>3, SettlingCredential
<1> QED BY <1>2, <1>3

LEMMA SaveTokensCredential ==
    ASSUME IInv, NEW o \in Ops, NEW h \in Grants, SaveTokens(o)
    PROVE  Credential(h)!Step
<1> DEFINE g == op[o].grant
           t == op[o].answer
<1>0. op[o] # None /\ op[o].at = "saving" /\ op' = [op EXCEPT ![o] = None]
      /\ \E ok \in BOOLEAN : Write(WithTokens(g, t), g, ok)
    BY DEF SaveTokens
<1>t. /\ TypeOK /\ CleanFileMatches /\ g \in Grants /\ t \in Token /\ mem.zd[g] = None
      /\ t.at \in Nat /\ t.at > 0 /\ t # None
      /\ \A p \in Ops : op[p] # None /\ op[p].grant = g => p = o
    BY <1>0, ConstantsAssumption
    DEF IInv, TypeOK, Op, OperationsConsistent, Token, Minted, ConstantsAssumption
<1>1. /\ mem'.zd[g] = t /\ \A k \in Grants \ {g} : mem'.zd[k] = mem.zd[k]
      /\ disk' \in {disk, mem'}
    BY <1>0, <1>t, WriteTokens
<1>2. Spending(h)' <=> Spending(h)
    BY <1>0, <1>t, SpendingSame
<1>3. CASE h = g
  <2>1. ~Spending(h)'
      BY <1>0, <1>2, <1>3, <1>t DEF Spending, Asking
  <2>2. AtOf(mem'.zd[h]) \in Nat /\ AtOf(mem'.zd[h]) > AtOf(mem.zd[h])
      BY <1>t, <1>1, <1>3 DEF AtOf
  <2> QED BY <1>1, <2>1, <2>2, CredentialNewer
<1>4. CASE h # g
    BY <1>1, <1>2, <1>4, CredentialSame
<1> QED BY <1>3, <1>4

\* A read keeps the token; asking Zendesk begins to spend it.
LEMMA ReadCredential ==
    ASSUME IInv, NEW o \in Ops, NEW h \in Grants, Read(o)
    PROVE  Credential(h)!Step
<1>0. Holds(o) /\ op[o].at = "queued" /\ op[o] # None /\ TypeOK /\ CleanFileMatches
    BY DEF Read, MayRun, Holds, IInv
<1>t. PICK g \in Grants : g = op[o].grant
    BY <1>0 DEF TypeOK, Op
<1> DEFINE t == mem.zd[g]
           s == [t EXCEPT !.current = TRUE]
<1>u. t # None => t \in Token /\ s \in Token /\ s.at = t.at
  <2>1. t # None => t \in Token
      BY <1>0 DEF TypeOK, Store
  <2> HIDE DEF t
  <2> QED BY <2>1 DEF Token
<1>n. None \notin Token
    BY ConstantsAssumption DEF ConstantsAssumption
<1>1. /\ AtOf(mem'.zd[h]) = AtOf(mem.zd[h]) /\ disk' \in {disk, mem'}
  <2>1. CASE UNCHANGED storage
      BY <2>1 DEF storage
  <2>2. CASE t # None /\ \E ok \in BOOLEAN : Write(WithTokens(g, s), g, ok)
    <3>1. /\ mem'.zd[g] = s /\ \A k \in Grants \ {g} : mem'.zd[k] = mem.zd[k]
          /\ disk' \in {disk, mem'}
        BY <1>0, <1>u, <2>2, WriteTokens
    <3> HIDE DEF s
    <3> QED BY <1>u, <1>n, <2>2, <3>1 DEF AtOf
  <2> QED BY <1>t, <2>1, <2>2 DEF Read
<1>2. CASE Settle(o)
  <2>1. op' = [op EXCEPT ![o] = None]
      BY <1>2 DEF Settle
  <2>2. Spending(h)' <=> Spending(h)
      BY <1>0, <2>1, SpendingSame
  <2> QED BY <1>1, <2>2, CredentialSame
<1>3. CASE t # None /\ op' = [op EXCEPT ![o].at = "asking", ![o].spends = t.rt]
  <2>1. /\ \A p \in Ops : p # o => op'[p] = op[p]
        /\ op'[o] = [op[o] EXCEPT !.at = "asking", !.spends = t.rt]
      BY <1>0, <1>3 DEF TypeOK
  <2>2. op'[o].at = "asking" /\ op'[o].grant = g /\ op'[o] # None
    <3>1. op[o] \in Op /\ t.rt \in Minted \cup {NoRefresh}
        BY <1>0, <1>3, <1>u DEF TypeOK, Token
    <3>2. op'[o] \in Op /\ op'[o].at = "asking" /\ op'[o].grant = g
      <4> HIDE DEF t
      <4> QED BY <1>t, <2>1, <3>1 DEF Op
    <3> QED BY <3>2, ConstantsAssumption DEF ConstantsAssumption
  <2>3. CASE h = g
    <3>1. ~Spending(h)
        BY <1>0, <1>t, <2>3, OneHolds DEF Spending, Asking, IInv
    <3>2. Spending(h)'
        BY <2>2, <2>3 DEF Spending, Asking
    <3>3. AtOf(mem.zd[h]) # 0
        BY <1>3, <1>u, <2>3 DEF AtOf, Token, Minted
    <3>4. Credential(h)!Spend
        BY <1>1, <3>1, <3>2, <3>3
        DEF Credential!Spend, Credential!Write, Credential!Absent, AtOf, Spending
    <3> QED BY <3>4 DEF Credential!Step, Credential!Next
  <2>4. CASE h # g
    <3>1. \A p \in Ops : (Asking(p) /\ op[p].grant = h)' <=> (Asking(p) /\ op[p].grant = h)
        BY <1>0, <1>t, <2>1, <2>2, <2>4 DEF Asking
    <3>2. Spending(h)' <=> Spending(h)
        BY <3>1 DEF Spending
    <3> QED BY <1>1, <3>2, CredentialSame
  <2> QED BY <2>3, <2>4
<1> QED BY <1>t, <1>2, <1>3 DEF Read

\* What neither changes a grant's tokens nor begins or ends their refresh.
LEMMA OtherCredential ==
    ASSUME IInv, NEW o \in Ops, NEW g \in Grants, NEW h \in Grants,
           \/ Approve(o, g) \/ Mint(o, g) \/ Revoke(o, g) \/ ProviderEnds(o, g)
           \/ FindThrows(o) \/ Find(o) \/ ZendeskAnswers(o)
    PROVE  Credential(h)!Step
<1>t. TypeOK /\ CleanFileMatches
    BY DEF IInv
<1>n. \A k \in {"approve", "mint", "revoke", "end"}, at \in {"saving", "finding", "queued"} :
         NewOp(k, g, at) \in Op /\ NewOp(k, g, at).at # "asking"
    BY NewOpFacts
<1>1. ASSUME mem'.zd = mem.zd, disk' \in {disk, mem'},
             \A p \in Ops : (Asking(p) /\ op[p].grant = h)' <=> (Asking(p) /\ op[p].grant = h)
      PROVE  Credential(h)!Step
  <2>1. Spending(h)' <=> Spending(h)
      BY <1>1 DEF Spending
  <2> QED BY <1>1, <2>1, CredentialSame
<1>2. CASE Approve(o, g)
  <2>1. PICK ok \in BOOLEAN : Write(WithOwn(g, "current"), g, ok)
      BY <1>2 DEF Approve
  <2>2. mem'.zd = mem.zd /\ disk' \in {disk, mem'}
      BY <1>t, <2>1, WriteOwn
  <2>3. PICK t : \/ op' = [op EXCEPT ![o] = [NewOp("approve", g, "saving") EXCEPT !.answer = t]]
                 \/ UNCHANGED op
      BY <1>2 DEF Approve
  <2>4. \A p \in Ops : Asking(p)' <=> Asking(p)
      BY <1>t, <1>2, <2>3 DEF Approve, Free, Asking, TypeOK, NewOp
  <2>5. \A p \in Ops : Asking(p) => op'[p] = op[p]
      BY <1>t, <1>2, <2>3 DEF Approve, Free, Asking, TypeOK
  <2> QED BY <1>1, <2>2, <2>4, <2>5
<1>3. CASE Mint(o, g)
  <2>1. mem'.zd = mem.zd /\ disk' \in {disk, mem'}
      BY <1>3, <1>t, OwnRead DEF Mint
  <2>2. op' = op \/ op' = [op EXCEPT ![o] = NewOp("mint", g, "queued")]
      BY <1>3 DEF Mint, Begin, lock
  <2>3. \A p \in Ops : (Asking(p)' <=> Asking(p)) /\ (Asking(p) => op'[p] = op[p])
    <3>1. op[o] = None
        BY <1>3 DEF Mint, Free
    <3>2. CASE op' = op
        BY <3>2 DEF Asking
    <3>3. CASE op' = [op EXCEPT ![o] = NewOp("mint", g, "queued")]
        BY <1>t, <3>1, <3>3 DEF Asking, TypeOK, NewOp
    <3> QED BY <2>2, <3>2, <3>3
  <2> QED BY <1>1, <2>1, <2>3
<1>4. CASE Revoke(o, g)
  <2>1. mem'.zd = mem.zd /\ disk' \in {disk, mem'}
      BY <1>4 DEF Revoke, storage
  <2>2. \A p \in Ops : (Asking(p)' <=> Asking(p)) /\ (Asking(p) => op'[p] = op[p])
      BY <1>t, <1>4 DEF Revoke, Begin, Free, Asking, TypeOK, NewOp
  <2> QED BY <1>1, <2>1, <2>2
<1>5. CASE ProviderEnds(o, g)
  <2>1. mem'.zd = mem.zd /\ disk' \in {disk, mem'}
      BY <1>5, <1>t, WriteOwn DEF ProviderEnds
  <2>2. \A p \in Ops : (Asking(p)' <=> Asking(p)) /\ (Asking(p) => op'[p] = op[p])
      BY <1>t, <1>5 DEF ProviderEnds, Begin, Free, Asking, TypeOK, NewOp
  <2> QED BY <1>1, <2>1, <2>2
<1>6. CASE FindThrows(o) \/ Find(o)
  <2>0. op[o] # None /\ op[o].at = "finding" /\ op[o].grant \in Grants
      BY <1>6, <1>t DEF FindThrows, Find, TypeOK, Op
  <2>1. mem'.zd = mem.zd /\ disk' \in {disk, mem'}
    <3>1. CASE ReadOwn(op[o].grant, FALSE)
        BY <1>t, <2>0, <3>1, OwnRead
    <3>2. CASE \E ok \in BOOLEAN : Write(WithOwn(op[o].grant, "absent"), op[o].grant, ok)
        BY <1>t, <2>0, <3>2, WriteOwn
    <3>3. CASE UNCHANGED storage
        BY <3>3 DEF storage
    <3> QED BY <1>6, <3>1, <3>2, <3>3 DEF FindThrows, Find
  <2>2. op' = [op EXCEPT ![o] = None] \/ op' = [op EXCEPT ![o].at = "queued"]
      BY <1>6 DEF FindThrows, Find
  <2>3. op[o] \in Op
      BY <1>t, <2>0 DEF TypeOK
  <2>4. ~Asking(o) /\ ~Asking(o)' /\ \A p \in Ops : p # o => op'[p] = op[p]
      BY <1>t, <2>0, <2>2, <2>3 DEF Asking, TypeOK, Op
  <2> QED BY <1>1, <2>1, <2>4 DEF Asking
<1>7. CASE ZendeskAnswers(o)
  <2>1. mem'.zd = mem.zd /\ disk' \in {disk, mem'} /\ Asking(o)
      BY <1>7 DEF ZendeskAnswers, storage
  <2>2. PICK a \in Token \cup {Refused} : op' = [op EXCEPT ![o].answer = a]
    <3>1. op[o] \in Op /\ minted \in Nat
        BY <1>t, <2>1 DEF TypeOK, Asking, Minted
    <3>2. CASE op' = [op EXCEPT ![o].answer = Refused]
        BY <3>2
    <3>3. ASSUME NEW rotates \in BOOLEAN, NEW dated \in BOOLEAN, minted + 1 \in Minted,
                 op' = [op EXCEPT ![o].answer =
                    [at |-> minted + 1, rt |-> IF rotates THEN minted + 1 ELSE op[o].spends,
                     dated |-> dated, current |-> TRUE]]
          PROVE  \E a \in Token \cup {Refused} : op' = [op EXCEPT ![o].answer = a]
      <4>1. [at |-> minted + 1, rt |-> IF rotates THEN minted + 1 ELSE op[o].spends,
             dated |-> dated, current |-> TRUE] \in Token
        <5>1. op[o].spends \in Minted \cup {NoRefresh} /\ op[o].spends <= minted + 1
            BY <2>1, <3>1, MintedBefore DEF Op
        <5>2. (IF rotates THEN minted + 1 ELSE op[o].spends) \in Minted \cup {NoRefresh}
              /\ (IF rotates THEN minted + 1 ELSE op[o].spends) <= minted + 1
            BY <3>1, <3>3, <5>1
        <5> QED BY <3>3, <5>2, MintedToken
      <4> QED BY <3>3, <4>1
    <3> QED BY <1>7, <3>2, <3>3 DEF ZendeskAnswers
  <2>3. op[o] \in Op /\ op'[o] = [op[o] EXCEPT !.answer = a]
        /\ \A p \in Ops : p # o => op'[p] = op[p]
      BY <1>t, <2>1, <2>2 DEF TypeOK, Asking
  <2>4. op'[o] \in Op /\ op'[o].at = op[o].at /\ op'[o].grant = op[o].grant
      BY <2>2, <2>3 DEF Op
  <2>5. op'[o] # None
      BY <2>4, ConstantsAssumption DEF ConstantsAssumption
  <2> QED BY <1>1, <2>1, <2>3, <2>4, <2>5 DEF Asking
<1> QED BY <1>2, <1>3, <1>4, <1>5, <1>6, <1>7

LEMMA RestartCredential ==
    ASSUME IInv, Restart, NEW h \in Grants
    PROVE  Credential(h)!Step
<1>1. ~Spending(h)'
    BY DEF Restart, Spending, Asking
<1>2. mem' = disk' /\ \E rotated \in BOOLEAN : mem' = Resealed(disk, rotated)
    BY DEF Restart
<1>3. AtOf(mem'.zd[h]) = AtOf(disk.zd[h])
  <2>1. CASE mem' = disk
      BY <2>1
  <2>2. CASE disk.zd[h] = None /\ mem'.zd[h] = None
      BY <2>2 DEF AtOf
  <2>3. CASE disk.zd[h] # None /\ mem'.zd[h] = [disk.zd[h] EXCEPT !.current = FALSE]
    <3>1. disk.zd[h] \in Token
        BY <2>3 DEF IInv, TypeOK, Store
    <3>2. mem'.zd[h] \in Token /\ mem'.zd[h].at = disk.zd[h].at
        BY <2>3, <3>1 DEF Token
    <3> QED BY <2>3, <3>2, ConstantsAssumption DEF AtOf, ConstantsAssumption
  <2> QED BY <1>2, <2>1, <2>2, <2>3 DEF Resealed
<1>4. Credential(h)!Recover
    BY <1>1, <1>2, <1>3 DEF Credential!Recover, Spending, AtOf
<1> QED BY <1>4 DEF Credential!Step, Credential!Next

LEMMA CredentialStep ==
    ASSUME IInv, [Next]_vars, NEW h \in Grants
    PROVE  Credential(h)!Step
<1>1. ASSUME NEW o \in Ops, NEW g \in Grants,
             Approve(o, g) \/ Mint(o, g) \/ Revoke(o, g) \/ ProviderEnds(o, g)
      PROVE  Credential(h)!Step
    BY <1>1, OtherCredential
<1>2. ASSUME NEW o \in Ops, Step(o) \/ ZendeskAnswers(o)
      PROVE  Credential(h)!Step
    BY <1>2, SaveTokensCredential, ReadCredential, RefreshedCredential, RemoveCredential,
       OtherCredential DEF Step
<1>3. CASE UNCHANGED <<mem, disk, op>>
  <2>1. Spending(h)' <=> Spending(h)
      BY <1>3 DEF Spending, Asking
  <2> QED BY <1>3, <2>1, CredentialSame
<1>4. ASSUME NEW n \in Minted, Age(n) \/ Expire(n) PROVE Credential(h)!Step
    BY <1>3, <1>4 DEF Age, Expire, storage, lock
<1>5. CASE Restart
    BY <1>5, RestartCredential
<1>6. CASE UNCHANGED vars
    BY <1>3, <1>6 DEF vars, storage, lock
<1> QED BY <1>1, <1>2, <1>4, <1>5, <1>6 DEF Next

\* Each grant's tokens are kept as RotatingCredential promises: one refresh at a
\* time spends them, and only it, or a sign-in, brings newer ones.
THEOREM CredentialImplemented == Spec => CredentialKept
<1>1. Init => \A g \in Grants : Credential(g)!Init
  <2>1. Init => \A g \in Grants : mem.zd[g] = None /\ disk.zd[g] = None /\ ~Spending(g)
    <3> SUFFICES ASSUME Init, NEW g \in Grants
                 PROVE  mem.zd[g] = None /\ disk.zd[g] = None /\ ~Spending(g)
        OBVIOUS
    <3>1. mem.zd[g] = None /\ disk.zd[g] = None
        BY DEF Init
    <3>2. \A o \in Ops : op[o] = None
        BY DEF Init
    <3> QED BY <3>1, <3>2 DEF Spending, Asking
  <2> QED BY <2>1 DEF Credential!Init, AtOf, Spending
<1>2. IInv /\ [Next]_vars => [\A g \in Grants : Credential(g)!Step]_vars
    BY CredentialStep
<1> QED BY <1>1, <1>2, Invariance, PTL DEF Spec, CredentialKept

-----------------------------------------------------------------------------
(* What ends a grant.                                                      *)

\* A step that receives no answer leaves every refusal what it was: whatever
\* Zendesk mints meanwhile is a new token.
LEMMA RefusalsKept ==
    ASSUME IInv, RefusalsMeant, live' \subseteq live \cup {minted + 1},
           minted' \in Nat, minted' >= minted, minted + 1 \in live' => minted' = minted + 1,
           \A p \in Ops : Asking(p)' /\ op'[p].answer = Refused => Asking(p) /\ op'[p] = op[p]
    PROVE  RefusalsMeant'
<1>t. minted \in Nat /\ \A n \in live : n \in Nat /\ n <= minted
    BY DEF IInv, TypeOK, Minted, RefusalsMeant
<1>1. ASSUME NEW n \in live' PROVE n <= minted'
    BY <1>1, <1>t
<1>2. ASSUME NEW p \in Ops, Asking(p)', op'[p].answer = Refused
      PROVE  op'[p].spends \notin live'
  <2>1. Asking(p) /\ op'[p] = op[p]
      BY <1>2
  <2>2. op[p].spends \in Minted /\ op[p].spends <= minted
      BY <2>1, MintedBefore
  <2>3. op[p].spends # minted + 1
      BY <1>t, <2>2 DEF Minted
  <2>4. op[p].spends \notin live
      BY <1>2, <2>1 DEF RefusalsMeant
  <2> QED BY <2>1, <2>3, <2>4
<1> QED BY <1>1, <1>2 DEF RefusalsMeant

LEMMA RefusalsStep ==
    ASSUME IInv, RefusalsMeant, [Next]_vars
    PROVE  RefusalsMeant'
<1>t. TypeOK /\ minted \in Nat /\ minted >= minted /\ \A n \in live : n <= minted
    BY DEF IInv, TypeOK, Minted, RefusalsMeant
<1>n. None # Refused /\ Refused \notin Token
    BY ConstantsAssumption DEF ConstantsAssumption
<1>l. live \subseteq live \cup {minted + 1} /\ minted + 1 \notin live
    BY <1>t
\* Begun by nobody else, an operation that ends or asks is the only one to change.
<1>e. ASSUME NEW o \in Ops, NEW e, op' = [op EXCEPT ![o] = e],
             e = None \/ e.at # "asking" \/ e.answer = None,
             live' \subseteq live, minted' = minted
      PROVE  RefusalsMeant'
  <2>1. \A p \in Ops : Asking(p)' /\ op'[p].answer = Refused => Asking(p) /\ op'[p] = op[p]
      BY <1>e, <1>t, <1>n DEF Asking, TypeOK
  <2> QED BY <1>e, <1>l, <1>t, <2>1, RefusalsKept
<1>q. ASSUME op' = op, live' \subseteq live, minted' = minted
      PROVE  RefusalsMeant'
  <2>1. \A p \in Ops : Asking(p)' /\ op'[p].answer = Refused => Asking(p) /\ op'[p] = op[p]
      BY <1>q DEF Asking
  <2> QED BY <1>q, <1>l, <1>t, <2>1, RefusalsKept
<1>1. ASSUME NEW o \in Ops, NEW g \in Grants, Approve(o, g)
      PROVE  RefusalsMeant'
  <2>1. PICK refreshable \in BOOLEAN, dated \in BOOLEAN :
           LET t == [at |-> minted + 1, rt |-> IF refreshable THEN minted + 1 ELSE NoRefresh,
                     dated |-> dated, current |-> TRUE] IN
           /\ live' = IF refreshable THEN live \cup {minted + 1} ELSE live
           /\ \/ op' = [op EXCEPT ![o] = [NewOp("approve", g, "saving") EXCEPT !.answer = t]]
              \/ UNCHANGED op
      BY <1>1 DEF Approve
  <2> DEFINE t == [at |-> minted + 1, rt |-> IF refreshable THEN minted + 1 ELSE NoRefresh,
                   dated |-> dated, current |-> TRUE]
             x == [NewOp("approve", g, "saving") EXCEPT !.answer = t]
  <2>2. op[o] = None /\ minted' = minted + 1
      BY <1>1 DEF Approve, Free
  <2>x. x.at = "saving"
    <3> HIDE DEF t
    <3> QED BY DEF NewOp
  <2>y. op' = [op EXCEPT ![o] = x] \/ op' = op
      BY <2>1
  <2>z. live' \subseteq live \cup {minted + 1}
      BY <2>1
  <2> HIDE DEF x
  <2>3. \A p \in Ops : Asking(p)' => Asking(p) /\ op'[p] = op[p]
      BY <1>t, <2>x, <2>y, <2>2 DEF Asking, TypeOK
  <2> QED BY <1>t, <2>z, <2>2, <2>3, RefusalsKept
<1>2. ASSUME NEW o \in Ops, NEW g \in Grants, Mint(o, g) \/ Revoke(o, g) \/ ProviderEnds(o, g)
      PROVE  RefusalsMeant'
  <2>1. live' \subseteq live /\ minted' = minted
      BY <1>2 DEF Mint, Revoke, ProviderEnds, zendesk
  <2>2. CASE UNCHANGED lock
      BY <1>q, <2>1, <2>2 DEF lock
  <2>3. ASSUME NEW e, e \in {NewOp("mint", g, "queued"), NewOp("revoke", g, "finding"),
                             NewOp("end", g, "queued")}, op' = [op EXCEPT ![o] = e]
        PROVE  RefusalsMeant'
    <3>1. e.answer = None
        BY <2>3 DEF NewOp
    <3> QED BY <1>e, <2>1, <2>3, <3>1
  <2> QED BY <1>2, <2>2, <2>3 DEF Mint, Revoke, ProviderEnds, Begin
<1>3. ASSUME NEW o \in Ops, SaveTokens(o) \/ Refreshed(o) \/ RefreshFails(o) \/ FindThrows(o)
                            \/ Remove(o) \/ (Read(o) /\ Settle(o))
      PROVE  RefusalsMeant'
  <2>1. live' \subseteq live /\ minted' = minted /\ op' = [op EXCEPT ![o] = None]
      BY <1>3 DEF SaveTokens, Refreshed, RefreshFails, FindThrows, Remove, Read, Settle, zendesk
  <2> QED BY <1>e, <2>1
<1>4. ASSUME NEW o \in Ops, Find(o) \/ (Read(o) /\ ~Settle(o))
      PROVE  RefusalsMeant'
  <2>1. live' \subseteq live /\ minted' = minted
      BY <1>4 DEF Find, Read, zendesk
  <2>2. op[o] # None /\ op[o].at \in {"finding", "queued"} /\ op[o] \in Op
      BY <1>4, <1>t DEF Find, Read, MayRun, Holds, TypeOK
  <2>3. op[o].answer = None
      BY <2>2 DEF IInv, OperationsConsistent
  <2>4. PICK at, rt : \/ op' = [op EXCEPT ![o].at = "queued"]
                      \/ op' = [op EXCEPT ![o].at = "asking", ![o].spends = rt]
      BY <1>4 DEF Find, Read
  <2>5. /\ \A p \in Ops : p # o => op'[p] = op[p]
        /\ op'[o].answer = None
      BY <1>t, <2>2, <2>3, <2>4 DEF TypeOK, Op
  <2>6. \A p \in Ops : Asking(p)' /\ op'[p].answer = Refused => Asking(p) /\ op'[p] = op[p]
      BY <1>n, <2>5 DEF Asking
  <2> QED BY <1>l, <1>t, <2>1, <2>6, RefusalsKept
<1>5. ASSUME NEW o \in Ops, ZendeskAnswers(o)
      PROVE  RefusalsMeant'
  <2>0. op[o] \in Op /\ Asking(o)
      BY <1>5, <1>t DEF ZendeskAnswers, Asking, TypeOK
  <2>1. CASE /\ op[o].spends \notin live
             /\ op' = [op EXCEPT ![o].answer = Refused] /\ UNCHANGED <<live, minted>>
    <3>1. /\ \A p \in Ops : p # o => op'[p] = op[p]
          /\ op'[o].spends = op[o].spends
        BY <1>t, <2>0, <2>1 DEF TypeOK, Op
    <3> QED BY <1>t, <2>1, <3>1 DEF RefusalsMeant, Asking
  <2>2. ASSUME NEW x, x # Refused, op' = [op EXCEPT ![o].answer = x],
               minted' = minted + 1, live' \subseteq live \cup {minted + 1}
        PROVE  RefusalsMeant'
    <3>1. /\ \A p \in Ops : p # o => op'[p] = op[p]
          /\ op'[o].answer = x
        BY <1>t, <2>0, <2>2 DEF TypeOK, Op
    <3>2. \A p \in Ops : Asking(p)' /\ op'[p].answer = Refused => Asking(p) /\ op'[p] = op[p]
        BY <2>2, <3>1 DEF Asking
    <3> QED BY <1>t, <2>2, <3>2, RefusalsKept
  <2>3. ASSUME NEW rotates \in BOOLEAN, NEW dated \in BOOLEAN,
               minted + 1 \in Minted, minted' = minted + 1,
               live' \subseteq live \cup {minted + 1},
               op' = [op EXCEPT ![o].answer =
                    [at |-> minted + 1, rt |-> IF rotates THEN minted + 1 ELSE op[o].spends,
                     dated |-> dated, current |-> TRUE]]
        PROVE  RefusalsMeant'
    <3> DEFINE x == [at |-> minted + 1, rt |-> IF rotates THEN minted + 1 ELSE op[o].spends,
                     dated |-> dated, current |-> TRUE]
    <3>1. op[o].spends \in Minted \cup {NoRefresh} /\ op[o].spends <= minted + 1
        BY <2>0, MintedBefore
    <3>2. (IF rotates THEN minted + 1 ELSE op[o].spends) \in Minted \cup {NoRefresh}
          /\ (IF rotates THEN minted + 1 ELSE op[o].spends) <= minted + 1
        BY <1>t, <2>3, <3>1
    <3>3. x \in Token
        BY <2>3, <3>2, MintedToken
    <3>4. x # Refused
      <4> HIDE DEF x
      <4> QED BY <3>3, <1>n
    <3>5. op' = [op EXCEPT ![o].answer = x]
        BY <2>3
    <3> HIDE DEF x
    <3> QED BY <2>2, <2>3, <3>4, <3>5
  <2>4. ASSUME NEW r \in BOOLEAN,
               live' = IF r THEN (live \ {op[o].spends}) \cup {minted + 1} ELSE live
        PROVE  live' \subseteq live \cup {minted + 1}
      BY <2>4
  <2> QED BY <1>5, <2>1, <2>3, <2>4 DEF ZendeskAnswers
<1>6. ASSUME NEW n \in Minted, Age(n) \/ Expire(n)
      PROVE  RefusalsMeant'
    BY <1>6, <1>q DEF Age, Expire, lock
<1>7. CASE Restart
  <2>1. \A p \in Ops : ~Asking(p)'
      BY <1>7 DEF Restart, Asking
  <2>2. live' = live /\ minted' = minted
      BY <1>7 DEF Restart, zendesk
  <2> QED BY <1>t, <2>1, <2>2 DEF RefusalsMeant
<1>8. CASE UNCHANGED vars
    BY <1>8, <1>q DEF vars, lock, zendesk
<1> QED BY <1>1, <1>2, <1>3, <1>4, <1>5, <1>6, <1>7, <1>8 DEF Next, Step

LEMMA DropStep ==
    ASSUME IInv, RefusalsMeant, [Next]_vars, NEW h \in Grants,
           mem.zd[h] # None, mem'.zd[h] = None
    PROVE  mem.zd[h].rt \notin live \/ h \in gone' \/ disk.zd[h] = None
<1>t. TypeOK /\ CleanFileMatches
    BY DEF IInv
<1>n. None \notin Token /\ \A t \in Token : [t EXCEPT !.current = TRUE] \in Token
    BY ConstantsAssumption DEF ConstantsAssumption, Token
<1>1. ASSUME mem'.zd = mem.zd PROVE FALSE
    BY <1>1
<1>2. ASSUME NEW o \in Ops, NEW g \in Grants,
             Approve(o, g) \/ Mint(o, g) \/ Revoke(o, g) \/ ProviderEnds(o, g)
      PROVE  FALSE
  <2>1. \/ \E s \in {"absent", "current"}, ok \in BOOLEAN : Write(WithOwn(g, s), g, ok)
        \/ \E ok \in BOOLEAN : ReadOwn(g, ok)
        \/ UNCHANGED storage
      BY <1>2 DEF Approve, Mint, Revoke, ProviderEnds
  <2> QED BY <1>1, <1>t, <2>1, WriteOwn, OwnRead DEF storage
<1>3. ASSUME NEW o \in Ops, FindThrows(o) \/ Find(o) \/ ZendeskAnswers(o)
      PROVE  FALSE
  <2>1. FindThrows(o) \/ Find(o) => op[o].grant \in Grants
      BY <1>t DEF FindThrows, Find, TypeOK, Op
  <2> QED BY <1>1, <1>3, <1>t, <2>1, WriteOwn, OwnRead
          DEF FindThrows, Find, ZendeskAnswers, storage
<1>4. ASSUME NEW o \in Ops, NEW g \in Grants, NEW t \in Token, NEW ok \in BOOLEAN,
             Write(WithTokens(g, t), g, ok)
      PROVE  FALSE
    BY <1>4, <1>t, <1>n, WriteTokens
<1>5. ASSUME NEW o \in Ops, SaveTokens(o) \/ Refreshed(o)
      PROVE  FALSE
  <2>1. op[o].grant \in Grants /\ op[o].answer \in Token
      BY <1>5, <1>t DEF SaveTokens, Refreshed, Asking, TypeOK, Op, IInv, OperationsConsistent
  <2>2. \E ok \in BOOLEAN : Write(WithTokens(op[o].grant, op[o].answer), op[o].grant, ok)
      BY <1>5 DEF SaveTokens, Refreshed
  <2> QED BY <1>4, <2>1, <2>2
<1>6. ASSUME NEW o \in Ops, Read(o)
      PROVE  FALSE
  <2>1. PICK g \in Grants : g = op[o].grant
      BY <1>6, <1>t DEF Read, MayRun, Holds, TypeOK, Op
  <2>2. CASE UNCHANGED storage
      BY <1>1, <2>2 DEF storage
  <2>3. ASSUME NEW ok \in BOOLEAN, mem.zd[g] # None,
               Write(WithTokens(g, [mem.zd[g] EXCEPT !.current = TRUE]), g, ok)
        PROVE  FALSE
    <3>1. mem.zd[g] \in Token
        BY <1>t, <2>3 DEF TypeOK, Store
    <3> QED BY <1>4, <1>6, <1>n, <2>3, <3>1
  <2> QED BY <1>6, <2>1, <2>2, <2>3 DEF Read
<1>7. ASSUME NEW o \in Ops, Remove(o) \/ RefreshFails(o)
      PROVE  mem.zd[h].rt \notin live \/ h \in gone'
  <2>1. PICK g \in Grants : g = op[o].grant
      BY <1>7, <1>t DEF Remove, RefreshFails, MayRun, Holds, TypeOK, Op
  <2>2. CASE UNCHANGED storage
      BY <1>1, <2>2 DEF storage
  <2>3. CASE \E ok \in BOOLEAN : DeleteTokens(g, ok)
    <3>1. h = g
        BY <1>t, <2>3, TokensDeleted
    <3>2. CASE Remove(o)
        BY <2>1, <3>1, <3>2 DEF Remove
    <3>3. CASE RefreshFails(o)
      <4>1. op[o].answer = Refused
        <5>1. CASE Refusal(op[o].answer)
            BY <5>1 DEF Refusal
        <5>2. CASE ~Refusal(op[o].answer)
            BY <1>1, <3>3, <5>2 DEF RefreshFails, storage
        <5> QED BY <5>1, <5>2
      <4>2. Asking(o) /\ mem.zd[g].rt = op[o].spends
          BY <2>1, <3>3 DEF RefreshFails, IInv, OneRefreshPerGrant
      <4> QED BY <3>1, <4>1, <4>2 DEF RefusalsMeant
    <3> QED BY <1>7, <3>2, <3>3
  <2> QED BY <1>7, <2>1, <2>2, <2>3 DEF Remove, RefreshFails
<1>8. CASE Restart
  <2>1. mem'.zd[h] = disk.zd[h] \/ disk.zd[h] = None \/
        (disk.zd[h] # None /\ mem'.zd[h] = [disk.zd[h] EXCEPT !.current = FALSE])
      BY <1>8 DEF Restart, Resealed
  <2>2. CASE disk.zd[h] # None /\ mem'.zd[h] = [disk.zd[h] EXCEPT !.current = FALSE]
    <3>1. disk.zd[h] \in Token
        BY <1>t, <2>2 DEF TypeOK, Store
    <3>2. mem'.zd[h] \in Token
        BY <2>2, <3>1 DEF Token
    <3> QED BY <1>n, <3>2
  <2> QED BY <2>1, <2>2
<1>9. ASSUME UNCHANGED storage PROVE FALSE
    BY <1>1, <1>9 DEF storage
<1>10. ASSUME NEW n \in Minted, Age(n) \/ Expire(n) PROVE FALSE
    BY <1>9, <1>10 DEF Age, Expire
<1>11. CASE UNCHANGED vars
    BY <1>9, <1>11 DEF vars
<1> QED BY <1>2, <1>3, <1>5, <1>6, <1>7, <1>8, <1>10, <1>11 DEF Next, Step

\* isRefusal: a grant loses its tokens to a refusal by Zendesk, which is final,
\* to its removal, or to a restart that read a file without them, never to an outage.
THEOREM OnlyRefusalsEnd == Spec => OnlyRefusedDropped
<1>1. Init => RefusalsMeant
  <2> SUFFICES ASSUME Init PROVE RefusalsMeant
      OBVIOUS
  <2>1. live = {} /\ \A o \in Ops : op[o] = None
      BY DEF Init
  <2> QED BY <2>1 DEF RefusalsMeant, Asking
<1>2. IInv /\ RefusalsMeant /\ [Next]_vars => RefusalsMeant'
    BY RefusalsStep
<1>3. IInv /\ RefusalsMeant /\ [Next]_vars =>
        [\A g \in Grants : mem.zd[g] # None /\ mem'.zd[g] = None =>
           \/ mem.zd[g].rt \notin live
           \/ g \in gone' \/ disk.zd[g] = None]_vars
  <2> SUFFICES ASSUME IInv, RefusalsMeant, [Next]_vars, NEW g \in Grants,
                      mem.zd[g] # None, mem'.zd[g] = None
               PROVE  \/ mem.zd[g].rt \notin live
                      \/ g \in gone' \/ disk.zd[g] = None
      OBVIOUS
  <2> QED BY DropStep
<1> QED BY <1>1, <1>2, <1>3, Invariance, PTL DEF Spec, OnlyRefusedDropped
=============================================================================
