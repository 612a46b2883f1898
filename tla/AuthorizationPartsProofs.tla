--------------------------- MODULE AuthorizationPartsProofs --------------------------
(* Proofs about the parts of the authorization server: the record store, the      *)
(* interactions of a sign-in and the documents of clients.  Each part's invariant *)
(* is kept by its own steps, and a step of the whole is one of them or leaves the *)
(* part alone.                                                                    *)
EXTENDS MCAuthorizationParts, Naturals, TLAPS

-----------------------------------------------------------------------------
(* The record store.  A revocation deletes what the index of the grant names: the *)
(* invariant says of memory and of the file alike that a record is named there    *)
(* unless the history says why it may not be.                                     *)

Store == [record: [Tokens -> Records!Record \cup {None}], index: SUBSET Tokens]

\* A token a revocation may miss, or whose name is about to be written.
Excepted(id) == \/ id \in unnamed \cup revived
                \/ \E o \in Ops : Records!At(o, "naming") /\ op[o].id = id

Reaches(m) == \A id \in Tokens : m.record[id] # None => id \in m.index \/ Excepted(id)

\* While a revocation holds the lock, it has deleted all that the index names.
IndexDeleted ==
    \A o \in Ops : Records!At(o, "unnaming") =>
        \A id \in Tokens : mem.record[id] # None => Excepted(id)

IdsIssued ==
    /\ \A id \in Tokens : mem.record[id] # None \/ disk.record[id] # None => id \in issued
    /\ \A o \in Ops : op[o] # None /\ op[o].at # "unnaming" => op[o].id \in issued

\* What waits to be written again is a record that was read, under a secret that
\* has been rotated since.
SealsCurrent ==
    /\ \A o \in Ops : Records!At(o, "resealing") => rotated /\ op[o].seen \in Records!Record
    /\ \A id \in Tokens :
          /\ mem.record[id] # None => rotated \/ mem.record[id].current
          /\ disk.record[id] # None => rotated \/ disk.record[id].current

RecordsInv ==
    /\ Records!TypeOK /\ Reaches(mem) /\ Reaches(disk) /\ IndexDeleted /\ IdsIssued /\ SealsCurrent

LEMMA NoneIsNothing ==
  None \notin Records!Record /\ None \notin Records!Op /\ StoreFaults \in BOOLEAN
BY PartsAssumption DEF Records!RecordStoreAssumption

LEMMA Types ==
  ASSUME Records!TypeOK
  PROVE  /\ mem \in Store /\ disk \in Store
         /\ mem.record \in [Tokens -> Records!Record \cup {None}] /\ mem.index \subseteq Tokens
         /\ disk.record \in [Tokens -> Records!Record \cup {None}] /\ disk.index \subseteq Tokens
         /\ \A o \in Ops : op[o] = None \/ op[o] \in Records!Op
         /\ \A o \in Ops : op[o] # None /\ op[o].at # "unnaming" => op[o].id \in Tokens
<1>1. mem \in Store /\ disk \in Store BY DEF Records!TypeOK, Store
<1>2. \A o \in Ops : op[o] = None \/ op[o] \in Records!Op BY DEF Records!TypeOK
<1>3. \A o \in Ops : op[o] # None /\ op[o].at # "unnaming" => op[o].id \in Tokens
      BY <1>2 DEF Records!Op
<1> QED BY <1>1, <1>2, <1>3 DEF Store

LEMMA RecordsInit == Records!Init => RecordsInv
<1> SUFFICES ASSUME Records!Init PROVE RecordsInv
    OBVIOUS
<1>1. /\ mem = [record |-> [id \in Tokens |-> None], index |-> {}] /\ disk = mem
      /\ op = [o \in Ops |-> None] /\ issued = {} /\ unnamed = {} /\ revived = {}
      /\ rotated = FALSE
      BY DEF Records!Init
<1>2. \A id \in Tokens : mem.record[id] = None /\ disk.record[id] = None
      BY <1>1
<1>3. \A o \in Ops : op[o] = None BY <1>1
<1>4. Records!TypeOK
  <2>1. mem \in [record: [Tokens -> Records!Record \cup {None}], index: SUBSET Tokens] BY <1>1
  <2> QED BY <1>1, <2>1 DEF Records!TypeOK
<1>5. Reaches(mem) /\ Reaches(disk) BY <1>2 DEF Reaches
<1>6. IndexDeleted /\ IdsIssued BY <1>2, <1>3 DEF IndexDeleted, IdsIssued, Records!At
<1>7. SealsCurrent BY <1>2, <1>3 DEF SealsCurrent, Records!At
<1> QED BY <1>4, <1>5, <1>6, <1>7 DEF RecordsInv

\* What is excepted stays so, unless a name is written.
LEMMA ExceptedStays ==
  ASSUME NEW id \in Tokens, Excepted(id), unnamed \subseteq unnamed', revived \subseteq revived',
         \A o \in Ops : Records!At(o, "naming") => \/ op'[o] = op[o]
                                                   \/ op[o].id \in unnamed'
  PROVE  Excepted(id)'
<1>1. CASE id \in unnamed \cup revived BY <1>1 DEF Excepted
<1>2. CASE \E o \in Ops : Records!At(o, "naming") /\ op[o].id = id
      BY <1>2 DEF Excepted, Records!At
<1> QED BY <1>1, <1>2 DEF Excepted

LEMMA WithRecordIs ==
  ASSUME Records!TypeOK, NEW id \in Tokens, NEW r \in Records!Record \cup {None}
  PROVE  /\ Records!WithRecord(id, r) \in Store
         /\ Records!WithRecord(id, r).index = mem.index
         /\ Records!WithRecord(id, r).record[id] = r
         /\ \A j \in Tokens : j # id => Records!WithRecord(id, r).record[j] = mem.record[j]
<1>1. mem \in Store BY Types
<1> QED BY <1>1 DEF Records!WithRecord, Store

\* A record is written, of a token that is covered already or excepted from now on.
LEMMA RecordWritten ==
  ASSUME RecordsInv, NEW id \in Tokens, NEW r \in Records!Record, NEW ok \in BOOLEAN,
         Records!Write(Records!WithRecord(id, r), ok), r.current,
         Excepted(id)' \/ mem.record[id] # None,
         unnamed \subseteq unnamed', revived \subseteq revived',
         issued \subseteq issued', id \in issued', rotated' = rotated,
         \A o \in Ops : Records!At(o, "naming") => \/ op'[o] = op[o]
                                                   \/ op[o].id \in unnamed',
         \A o \in Ops : op'[o] # None /\ op'[o].at = "unnaming" => Records!At(o, "unnaming")
  PROVE  /\ mem' \in Store /\ disk' \in Store
         /\ Reaches(mem)' /\ Reaches(disk)' /\ IndexDeleted'
         /\ \A j \in Tokens :
               /\ mem'.record[j] # None \/ disk'.record[j] # None => j \in issued'
               /\ mem'.record[j] # None => rotated' \/ mem'.record[j].current
               /\ disk'.record[j] # None => rotated' \/ disk'.record[j].current
<1> USE DEF RecordsInv
<1>1. /\ mem' \in Store /\ mem'.index = mem.index /\ mem'.record[id] = r
      /\ \A j \in Tokens : j # id => mem'.record[j] = mem.record[j]
      BY WithRecordIs DEF Records!Write
<1>2. disk' = mem' \/ disk' = disk BY DEF Records!Write
<1>3. disk \in Store BY Types
<1>4. \A j \in Tokens : Excepted(j) => Excepted(j)' BY ExceptedStays
<1>5. Reaches(mem)'
  <2> SUFFICES ASSUME NEW j \in Tokens, mem'.record[j] # None
               PROVE  j \in mem'.index \/ Excepted(j)'
      BY DEF Reaches
  <2>1. mem.record[j] # None \/ Excepted(j)' BY <1>1
  <2> QED BY <1>1, <1>4, <2>1 DEF Reaches
<1>6. Reaches(disk)'
  <2>1. CASE disk' = mem' BY <1>5, <2>1 DEF Reaches
  <2>2. CASE disk' = disk BY <1>4, <2>2 DEF Reaches
  <2> QED BY <1>2, <2>1, <2>2
<1>7. IndexDeleted'
  <2> SUFFICES ASSUME NEW o \in Ops, op'[o] # None, op'[o].at = "unnaming",
                      NEW j \in Tokens, mem'.record[j] # None
               PROVE  Excepted(j)'
      BY DEF IndexDeleted, Records!At
  <2>1. mem.record[j] # None \/ Excepted(j)' BY <1>1
  <2>2. Records!At(o, "unnaming") OBVIOUS
  <2> QED BY <1>4, <2>1, <2>2 DEF IndexDeleted
<1>8. \A j \in Tokens : /\ mem'.record[j] # None => j \in issued'
                        /\ mem'.record[j] # None => rotated' \/ mem'.record[j].current
      BY <1>1 DEF IdsIssued, SealsCurrent
<1>9. \A j \in Tokens : /\ disk'.record[j] # None => j \in issued'
                        /\ disk'.record[j] # None => rotated' \/ disk'.record[j].current
  <2>1. CASE disk' = mem' BY <1>8, <2>1
  <2>2. CASE disk' = disk BY <2>2 DEF IdsIssued, SealsCurrent
  <2> QED BY <1>2, <2>1, <2>2
<1> QED BY <1>1, <1>2, <1>3, <1>5, <1>6, <1>7, <1>8, <1>9

LEMMA TypeOKFromStore ==
  ASSUME mem' \in Store, disk' \in Store, op' \in [Ops -> Records!Op \cup {None}],
         issued' \subseteq Tokens, unnamed' \subseteq issued', revived' \subseteq issued',
         rotated' \in BOOLEAN
  PROVE  Records!TypeOK'
BY DEF Records!TypeOK, Store

LEMMA UpsertKeeps ==
  ASSUME RecordsInv, NEW o \in Ops, NEW id \in Tokens, NEW ok \in BOOLEAN,
         Records!Upsert(o, id, ok)
  PROVE  RecordsInv'
<1> DEFINE r == [consumed |-> FALSE, current |-> TRUE]
           w == [kind |-> "upsert", id |-> id, at |-> "naming", seen |-> None]
<1>1. /\ op[o] = None /\ issued' = issued \cup {id} /\ Records!Write(Records!WithRecord(id, r), ok)
      /\ IF ok THEN op' = [op EXCEPT ![o] = w] /\ unnamed' = unnamed
               ELSE op' = op /\ unnamed' = unnamed \cup {id}
      /\ revived' = revived /\ rotated' = rotated
      BY DEF Records!Upsert, Records!Free, Records!Goes
<1>2. r \in Records!Record /\ r.current BY DEF Records!Record
<1>3. w \in Records!Op /\ w # None /\ w.id = id /\ w.at = "naming"
      BY NoneIsNothing DEF Records!Op
<1> HIDE DEF r, w
<1>4. op' \in [Ops -> Records!Op \cup {None}] BY <1>1, <1>3 DEF RecordsInv, Records!TypeOK
<1>5. /\ \A p \in Ops : p # o => op'[p] = op[p]
      /\ op'[o] = None \/ op'[o] = w
      BY <1>1 DEF RecordsInv, Records!TypeOK
<1>6. Excepted(id)'
  <2>1. CASE ok
    <3>1. op'[o] = w BY <1>1, <2>1 DEF RecordsInv, Records!TypeOK
    <3> QED BY <1>3, <3>1 DEF Excepted, Records!At
  <2>2. CASE ~ok BY <1>1, <2>2 DEF Excepted
  <2> QED BY <2>1, <2>2
<1>7. /\ mem' \in Store /\ disk' \in Store
      /\ Reaches(mem)' /\ Reaches(disk)' /\ IndexDeleted'
      /\ \A j \in Tokens :
               /\ mem'.record[j] # None \/ disk'.record[j] # None => j \in issued'
               /\ mem'.record[j] # None => rotated' \/ mem'.record[j].current
               /\ disk'.record[j] # None => rotated' \/ disk'.record[j].current
  <2>1. \A p \in Ops : Records!At(p, "naming") => op'[p] = op[p] BY <1>1, <1>5 DEF Records!At
  <2>2. \A p \in Ops : op'[p] # None /\ op'[p].at = "unnaming" => Records!At(p, "unnaming")
        BY <1>3, <1>5 DEF Records!At
  <2>3. unnamed \subseteq unnamed' /\ revived \subseteq revived' /\ issued \subseteq issued'
        /\ id \in issued'
        BY <1>1
  <2> QED BY <1>1, <1>2, <1>6, <2>1, <2>2, <2>3, RecordWritten
<1>8. Records!TypeOK'
  <2>1. issued' \subseteq Tokens /\ unnamed' \subseteq issued' /\ revived' \subseteq issued'
        BY <1>1 DEF RecordsInv, Records!TypeOK
  <2>2. rotated' \in BOOLEAN BY <1>1 DEF RecordsInv, Records!TypeOK
  <2> QED BY <1>4, <1>7, <2>1, <2>2, TypeOKFromStore
<1>9. IdsIssued'
  <2>1. \A p \in Ops : op'[p] # None /\ op'[p].at # "unnaming" => op'[p].id \in issued'
        BY <1>1, <1>3, <1>5 DEF RecordsInv, IdsIssued
  <2> QED BY <1>7, <2>1 DEF IdsIssued
<1>10. SealsCurrent'
  <2>1. \A p \in Ops : op'[p] # None /\ op'[p].at = "resealing" => rotated' /\ op'[p].seen \in Records!Record
        BY <1>1, <1>3, <1>5 DEF RecordsInv, SealsCurrent, Records!At
  <2> QED BY <1>7, <2>1 DEF SealsCurrent, Records!At
<1> QED BY <1>7, <1>8, <1>9, <1>10 DEF RecordsInv

\* A name that could not be written is excepted; one that was is in the file too.
LEMMA NameKeeps ==
  ASSUME RecordsInv, NEW o \in Ops, NEW ok \in BOOLEAN, Records!NameToken(o, ok)
  PROVE  RecordsInv'
<1>0. PICK id \in Tokens : id = op[o].id
  <2>1. Records!At(o, "naming") BY DEF Records!NameToken
  <2> QED BY <2>1, Types DEF RecordsInv, Records!At
<1> DEFINE m == [mem EXCEPT !.index = @ \cup {id}]
<1>1. /\ Records!At(o, "naming") /\ Records!LockFree /\ op' = [op EXCEPT ![o] = None]
      /\ mem' = m /\ disk' = IF ok THEN m ELSE disk
      /\ unnamed' = (IF ok THEN unnamed ELSE unnamed \cup {id})
      /\ issued' = issued /\ revived' = revived /\ rotated' = rotated
      BY <1>0 DEF Records!NameToken, Records!Write, Records!Ends
<1>2. id \in issued BY <1>0, <1>1 DEF RecordsInv, IdsIssued, Records!At
<1>3. mem \in Store /\ disk \in Store BY Types DEF RecordsInv
<1>4. m \in Store /\ m.record = mem.record /\ m.index = mem.index \cup {id}
      BY <1>2, <1>3 DEF Store
<1> HIDE DEF m
<1>5. \A p \in Ops : op'[p] = None \/ (p # o /\ op'[p] = op[p])
      BY <1>1 DEF RecordsInv, Records!TypeOK
<1>6. \A p \in Ops : p # o => op'[p] = op[p] BY <1>1 DEF RecordsInv, Records!TypeOK
<1>7. \A j \in Tokens : Excepted(j) => Excepted(j)' \/ j = id
  <2> SUFFICES ASSUME NEW j \in Tokens, Excepted(j), j # id PROVE Excepted(j)'
      OBVIOUS
  <2>1. CASE j \in unnamed \cup revived BY <1>1, <2>1 DEF Excepted
  <2>2. CASE \E p \in Ops : Records!At(p, "naming") /\ op[p].id = j
        BY <1>0, <1>6, <2>2 DEF Excepted, Records!At
  <2> QED BY <2>1, <2>2 DEF Excepted
<1>8. Reaches(mem)' BY <1>1, <1>4, <1>7 DEF RecordsInv, Reaches
<1>9. Reaches(disk)'
  <2>1. CASE ok BY <1>1, <1>8, <2>1 DEF Reaches
  <2>2. CASE ~ok
    <3>1. disk' = disk /\ Excepted(id)' BY <1>1, <2>2 DEF Excepted
    <3> QED BY <1>7, <3>1 DEF RecordsInv, Reaches
  <2> QED BY <2>1, <2>2
<1>10. IndexDeleted' BY <1>1, <1>5 DEF IndexDeleted, Records!LockFree, Records!At
<1>11. disk' = m \/ disk' = disk BY <1>1
<1>12. Records!TypeOK'
  <2>1. op' \in [Ops -> Records!Op \cup {None}] BY <1>1 DEF RecordsInv, Records!TypeOK
  <2>2. unnamed' \subseteq issued' BY <1>1, <1>2 DEF RecordsInv, Records!TypeOK
  <2>3. issued' \subseteq Tokens /\ revived' \subseteq issued' /\ rotated' \in BOOLEAN
        BY <1>1 DEF RecordsInv, Records!TypeOK
  <2>4. mem' \in Store /\ disk' \in Store BY <1>1, <1>3, <1>4, <1>11
  <2> QED BY <2>1, <2>2, <2>3, <2>4, TypeOKFromStore
<1>13. IdsIssued' BY <1>1, <1>4, <1>5, <1>11 DEF RecordsInv, IdsIssued
<1>14. SealsCurrent' BY <1>1, <1>4, <1>5, <1>11 DEF RecordsInv, SealsCurrent, Records!At
<1> QED BY <1>8, <1>9, <1>10, <1>12, <1>13, <1>14 DEF RecordsInv

\* A read changes nothing but what its operation waits to write.
LEMMA ReadKeeps ==
  ASSUME RecordsInv, NEW o \in Ops, NEW kind \in {"find", "consume"}, NEW id \in Tokens,
         Records!Read(o, kind, id)
  PROVE  RecordsInv'
<1> DEFINE r == mem.record[id]
           w(at, seen) == [kind |-> kind, id |-> id, at |-> at, seen |-> seen]
<1>1. /\ op[o] = None /\ r # None /\ mem' = mem /\ disk' = disk
      /\ issued' = issued /\ unnamed' = unnamed /\ revived' = revived /\ rotated' = rotated
      /\ \/ ~r.current /\ op' = [op EXCEPT ![o] = w("resealing", r)]
         \/ op' = [op EXCEPT ![o] = w("consuming", None)]
      BY DEF Records!Read, Records!Free, Records!Goes, Records!MustReseal, Records!store,
             Records!history
<1>2. r \in Records!Record BY <1>1, Types DEF RecordsInv
<1>3. w("resealing", r) \in Records!Op /\ w("consuming", None) \in Records!Op
      BY <1>2 DEF Records!Op
<1>4. /\ \A p \in Ops : p # o => op'[p] = op[p]
      /\ \/ ~r.current /\ op'[o] = w("resealing", r)
         \/ op'[o] = w("consuming", None)
      BY <1>1 DEF RecordsInv, Records!TypeOK
<1>5. op'[o].at \in {"resealing", "consuming"} /\ op'[o].id = id BY <1>4
<1>6. \A j \in Tokens : Excepted(j) => Excepted(j)'
      BY <1>1, <1>4, ExceptedStays DEF Records!At
<1>7. Reaches(mem)' /\ Reaches(disk)' BY <1>1, <1>6 DEF RecordsInv, Reaches
<1>8. \A p \in Ops : op'[p] # None /\ op'[p].at = "unnaming" => Records!At(p, "unnaming")
      BY <1>4, <1>5 DEF Records!At
<1>9. IndexDeleted' BY <1>1, <1>6, <1>8 DEF RecordsInv, IndexDeleted, Records!At
<1>10. Records!TypeOK'
  <2>1. op' \in [Ops -> Records!Op \cup {None}]
    <3> HIDE DEF w
    <3> QED BY <1>1, <1>3 DEF RecordsInv, Records!TypeOK
  <2> QED BY <1>1, <2>1 DEF RecordsInv, Records!TypeOK
<1>11. IdsIssued'
  <2>1. id \in issued BY <1>1 DEF RecordsInv, IdsIssued
  <2> QED BY <1>1, <1>4, <1>5, <2>1 DEF RecordsInv, IdsIssued
<1>12. SealsCurrent'
  <2>1. ~r.current => rotated BY <1>1 DEF RecordsInv, SealsCurrent
  <2>2. \A p \in Ops : op'[p] # None /\ op'[p].at = "resealing" => rotated /\ op'[p].seen \in Records!Record
    <3>1. op'[o].at = "resealing" => rotated /\ op'[o].seen \in Records!Record
          BY <1>2, <1>4, <2>1
    <3> QED BY <1>4, <3>1 DEF RecordsInv, SealsCurrent, Records!At
  <2> QED BY <1>1, <2>2 DEF RecordsInv, SealsCurrent, Records!At
<1> QED BY <1>7, <1>9, <1>10, <1>11, <1>12 DEF RecordsInv

\* What was read is written back: a re-seal, or a consumption.
LEMMA PutKeeps ==
  ASSUME RecordsInv, NEW o \in Ops, NEW ok \in BOOLEAN, NEW r \in Records!Record, r.current,
         Records!At(o, "resealing") \/ Records!At(o, "consuming"),
         Records!PutRecord(op[o].id, r, ok),
         \/ op' = [op EXCEPT ![o] = None]
         \/ op' = [op EXCEPT ![o] = [kind |-> "consume", id |-> op[o].id,
                                     at |-> "consuming", seen |-> None]],
         UNCHANGED <<issued, unnamed, rotated>>
  PROVE  RecordsInv'
<1>0. PICK id \in Tokens : id = op[o].id BY Types DEF RecordsInv, Records!At
<1> DEFINE w == [kind |-> "consume", id |-> id, at |-> "consuming", seen |-> None]
<1>1. id \in issued BY <1>0 DEF RecordsInv, IdsIssued, Records!At
<1>2. /\ Records!Write(Records!WithRecord(id, r), ok)
      /\ revived' = IF mem.record[id] = None THEN revived \cup {id} ELSE revived
      /\ issued' = issued /\ unnamed' = unnamed /\ rotated' = rotated
      BY <1>0 DEF Records!PutRecord
<1>3. w \in Records!Op /\ w.id = id /\ w.at = "consuming" BY <1>1 DEF Records!Op
<1>4. op' = [op EXCEPT ![o] = None] \/ op' = [op EXCEPT ![o] = w] BY <1>0
<1> HIDE DEF w
<1>5. /\ op' \in [Ops -> Records!Op \cup {None}]
      /\ \A p \in Ops : p # o => op'[p] = op[p]
      /\ op'[o] = None \/ op'[o] = w
      BY <1>3, <1>4 DEF RecordsInv, Records!TypeOK
<1>6. /\ mem' \in Store /\ disk' \in Store
      /\ Reaches(mem)' /\ Reaches(disk)' /\ IndexDeleted'
      /\ \A j \in Tokens :
               /\ mem'.record[j] # None \/ disk'.record[j] # None => j \in issued'
               /\ mem'.record[j] # None => rotated' \/ mem'.record[j].current
               /\ disk'.record[j] # None => rotated' \/ disk'.record[j].current
  <2>1. Excepted(id)' \/ mem.record[id] # None BY <1>2 DEF Excepted
  <2>2. \A p \in Ops : Records!At(p, "naming") => op'[p] = op[p] BY <1>5 DEF Records!At
  <2>3. \A p \in Ops : op'[p] # None /\ op'[p].at = "unnaming" => Records!At(p, "unnaming")
        BY <1>3, <1>5 DEF Records!At
  <2>4. unnamed \subseteq unnamed' /\ revived \subseteq revived' /\ issued \subseteq issued'
        /\ id \in issued'
        BY <1>1, <1>2
  <2> QED BY <1>1, <1>2, <2>1, <2>2, <2>3, <2>4, RecordWritten
<1>7. Records!TypeOK'
  <2>1. issued' \subseteq Tokens /\ unnamed' \subseteq issued' /\ revived' \subseteq issued'
        BY <1>1, <1>2 DEF RecordsInv, Records!TypeOK
  <2>2. rotated' \in BOOLEAN BY <1>2 DEF RecordsInv, Records!TypeOK
  <2> QED BY <1>5, <1>6, <2>1, <2>2, TypeOKFromStore
<1>8. IdsIssued'
  <2>1. \A p \in Ops : op'[p] # None /\ op'[p].at # "unnaming" => op'[p].id \in issued'
        BY <1>1, <1>2, <1>3, <1>5 DEF RecordsInv, IdsIssued
  <2> QED BY <1>6, <2>1 DEF IdsIssued
<1>9. SealsCurrent'
  <2>1. \A p \in Ops : op'[p] # None /\ op'[p].at = "resealing" => rotated' /\ op'[p].seen \in Records!Record
        BY <1>2, <1>3, <1>5 DEF RecordsInv, SealsCurrent, Records!At
  <2> QED BY <1>6, <2>1 DEF SealsCurrent, Records!At
<1> QED BY <1>6, <1>7, <1>8, <1>9 DEF RecordsInv

LEMMA ResealKeeps ==
  ASSUME RecordsInv, NEW o \in Ops, NEW ok \in BOOLEAN,
         Records!Reseal(o, ok) \/ Records!Consume(o, ok)
  PROVE  RecordsInv'
<1>1. CASE Records!Reseal(o, ok)
  <2>1. op[o].seen \in Records!Record BY <1>1 DEF Records!Reseal, RecordsInv, SealsCurrent
  <2>2. [op[o].seen EXCEPT !.current = TRUE] \in Records!Record
        /\ [op[o].seen EXCEPT !.current = TRUE].current
        BY <2>1 DEF Records!Record
  <2> QED BY <1>1, <2>2, PutKeeps DEF Records!Reseal, Records!Goes, Records!Ends
<1>2. CASE Records!Consume(o, ok)
  <2>1. [consumed |-> TRUE, current |-> TRUE] \in Records!Record
        /\ [consumed |-> TRUE, current |-> TRUE].current
        BY DEF Records!Record
  <2> QED BY <1>2, <2>1, PutKeeps DEF Records!Consume, Records!Ends
<1> QED BY <1>1, <1>2

\* Records are removed from the map, and the same or fewer from the file.
LEMMA RecordsRemoved ==
  ASSUME RecordsInv, mem' \in Store, disk' \in Store,
         mem'.index = mem.index,
         \A j \in Tokens : mem'.record[j] \in {None, mem.record[j]},
         \/ disk' = disk
         \/ /\ disk'.index = mem.index
            /\ \A j \in Tokens : disk'.record[j] \in {None, mem.record[j]},
         \A p \in Ops : op'[p] = op[p] \/ op[p] = None,
         UNCHANGED Records!history
  PROVE  /\ Reaches(mem)' /\ Reaches(disk)'
         /\ \A j \in Tokens : Excepted(j) => Excepted(j)'
         /\ \A j \in Tokens :
               /\ mem'.record[j] # None \/ disk'.record[j] # None => j \in issued'
               /\ mem'.record[j] # None => rotated' \/ mem'.record[j].current
               /\ disk'.record[j] # None => rotated' \/ disk'.record[j].current
<1>1. issued' = issued /\ unnamed' = unnamed /\ revived' = revived /\ rotated' = rotated
      BY DEF Records!history
<1>2. \A j \in Tokens : Excepted(j) => Excepted(j)' BY <1>1, ExceptedStays DEF Records!At
<1>3. Reaches(mem)' BY <1>2 DEF RecordsInv, Reaches
<1>4. Reaches(disk)' BY <1>2 DEF RecordsInv, Reaches
<1>5. \A j \in Tokens : /\ mem'.record[j] # None => j \in issued'
                        /\ mem'.record[j] # None => rotated' \/ mem'.record[j].current
      BY <1>1 DEF RecordsInv, IdsIssued, SealsCurrent
<1>6. \A j \in Tokens : /\ disk'.record[j] # None => j \in issued'
                        /\ disk'.record[j] # None => rotated' \/ disk'.record[j].current
      BY <1>1 DEF RecordsInv, IdsIssued, SealsCurrent
<1> QED BY <1>2, <1>3, <1>4, <1>5, <1>6

LEMMA DestroyKeeps ==
  ASSUME RecordsInv, NEW id \in Tokens, NEW ok \in BOOLEAN, Records!Destroy(id, ok)
  PROVE  RecordsInv'
<1>1. /\ mem' = Records!WithRecord(id, None) /\ disk' = (IF ok THEN mem' ELSE disk)
      /\ op' = op /\ UNCHANGED Records!history
      BY DEF Records!Destroy, Records!Write
<1>2. /\ mem' \in Store /\ mem'.index = mem.index /\ mem'.record[id] = None
      /\ \A j \in Tokens : j # id => mem'.record[j] = mem.record[j]
      BY <1>1, WithRecordIs DEF RecordsInv
<1>3. disk' \in Store /\ (disk' = mem' \/ disk' = disk) BY <1>1, <1>2, Types DEF RecordsInv
<1>4. /\ Reaches(mem)' /\ Reaches(disk)'
      /\ \A j \in Tokens : Excepted(j) => Excepted(j)'
      /\ \A j \in Tokens :
            /\ mem'.record[j] # None \/ disk'.record[j] # None => j \in issued'
            /\ mem'.record[j] # None => rotated' \/ mem'.record[j].current
            /\ disk'.record[j] # None => rotated' \/ disk'.record[j].current
  <2>1. \A j \in Tokens : mem'.record[j] \in {None, mem.record[j]} BY <1>2
  <2>2. \A p \in Ops : op'[p] = op[p] \/ op[p] = None BY <1>1
  <2>3. \/ disk' = disk
        \/ /\ disk'.index = mem.index
           /\ \A j \in Tokens : disk'.record[j] \in {None, mem.record[j]}
        BY <1>2, <1>3, <2>1
  <2> QED BY <1>1, <1>2, <1>3, <2>1, <2>2, <2>3, RecordsRemoved
<1>5. IndexDeleted' BY <1>1, <1>2, <1>4 DEF RecordsInv, IndexDeleted, Records!At
<1>6. Records!TypeOK'
      BY <1>1, <1>2, <1>3, TypeOKFromStore DEF RecordsInv, Records!TypeOK, Records!history
<1>7. IdsIssued' BY <1>1, <1>4 DEF RecordsInv, IdsIssued, Records!history
<1>8. SealsCurrent' BY <1>1, <1>4 DEF RecordsInv, SealsCurrent, Records!At, Records!history
<1> QED BY <1>4, <1>5, <1>6, <1>7, <1>8 DEF RecordsInv

LEMMA WithoutIs ==
  ASSUME Records!TypeOK, NEW ids \in SUBSET Tokens
  PROVE  /\ Records!Without(mem, ids) \in Store /\ Records!Without(mem, ids).index = mem.index
         /\ \A j \in Tokens : Records!Without(mem, ids).record[j] = IF j \in ids THEN None ELSE mem.record[j]
<1>1. mem \in Store BY Types
<1> QED BY <1>1 DEF Records!Without, Store

LEMMA DeleteNamedKeeps ==
  ASSUME RecordsInv, NEW o \in Ops, NEW ok \in BOOLEAN, Records!DeleteNamed(o, ok)
  PROVE  RecordsInv'
<1> DEFINE w == [kind |-> "revoke", at |-> "unnaming"]
<1>1. /\ op[o] = None /\ Records!LockFree /\ mem' = Records!Without(mem, mem.index) /\ UNCHANGED Records!history
      /\ \/ op' = [op EXCEPT ![o] = w] /\ (disk' = disk \/ disk' = mem')
         \/ /\ op' = op
            /\ disk' = disk \/ \E ids \in SUBSET mem.index : disk' = Records!Without(mem, ids)
      BY DEF Records!DeleteNamed, Records!Free
<1>2. mem.index \in SUBSET Tokens /\ disk \in Store BY Types DEF RecordsInv
<1>3. /\ mem' \in Store /\ mem'.index = mem.index
      /\ \A j \in Tokens : mem'.record[j] = IF j \in mem.index THEN None ELSE mem.record[j]
      BY <1>1, <1>2, WithoutIs DEF RecordsInv
<1>4. disk' = disk \/ \E ids \in SUBSET mem.index : disk' = Records!Without(mem, ids)
      BY <1>1
<1>5. disk' \in Store /\ \/ disk' = disk
                         \/ /\ disk'.index = mem.index
                            /\ \A j \in Tokens : disk'.record[j] \in {None, mem.record[j]}
  <2>1. CASE disk' = disk BY <1>2, <2>1
  <2>2. ASSUME NEW ids \in SUBSET mem.index, disk' = Records!Without(mem, ids)
        PROVE  /\ disk' \in Store /\ disk'.index = mem.index
               /\ \A j \in Tokens : disk'.record[j] \in {None, mem.record[j]}
    <3>1. ids \in SUBSET Tokens BY <1>2
    <3> QED BY <2>2, <3>1, WithoutIs DEF RecordsInv
  <2> QED BY <1>4, <2>1, <2>2
<1>6. w \in Records!Op /\ w.at = "unnaming" BY DEF Records!Op
<1> HIDE DEF w
<1>7. /\ op' \in [Ops -> Records!Op \cup {None}]
      /\ \A p \in Ops : p # o => op'[p] = op[p]
      /\ op'[o] = None \/ op'[o] = w
      BY <1>1, <1>6 DEF RecordsInv, Records!TypeOK
<1>8. /\ Reaches(mem)' /\ Reaches(disk)'
      /\ \A j \in Tokens : Excepted(j) => Excepted(j)'
      /\ \A j \in Tokens :
            /\ mem'.record[j] # None \/ disk'.record[j] # None => j \in issued'
            /\ mem'.record[j] # None => rotated' \/ mem'.record[j].current
            /\ disk'.record[j] # None => rotated' \/ disk'.record[j].current
  <2>1. \A j \in Tokens : mem'.record[j] \in {None, mem.record[j]} BY <1>3
  <2>2. \A p \in Ops : op'[p] = op[p] \/ op[p] = None BY <1>1, <1>7
  <2> QED BY <1>1, <1>3, <1>5, <2>1, <2>2, RecordsRemoved
<1>9. IndexDeleted'
  <2>1. \A j \in Tokens : mem'.record[j] # None => Excepted(j)'
        BY <1>3, <1>8 DEF RecordsInv, Reaches
  <2> QED BY <2>1 DEF IndexDeleted
<1>10. Records!TypeOK'
      BY <1>1, <1>3, <1>5, <1>7, TypeOKFromStore
      DEF RecordsInv, Records!TypeOK, Records!history
<1>11. IdsIssued'
  <2>1. \A p \in Ops : op'[p] # None /\ op'[p].at # "unnaming" => op'[p].id \in issued'
        BY <1>1, <1>6, <1>7 DEF RecordsInv, IdsIssued, Records!history
  <2> QED BY <1>8, <2>1 DEF IdsIssued
<1>12. SealsCurrent'
  <2>1. \A p \in Ops : op'[p] # None /\ op'[p].at = "resealing" => rotated' /\ op'[p].seen \in Records!Record
        BY <1>1, <1>6, <1>7 DEF RecordsInv, SealsCurrent, Records!At, Records!history
  <2> QED BY <1>8, <2>1 DEF SealsCurrent, Records!At
<1> QED BY <1>8, <1>9, <1>10, <1>11, <1>12 DEF RecordsInv

\* The index goes once every record it named is gone.
LEMMA DeleteIndexKeeps ==
  ASSUME RecordsInv, NEW o \in Ops, NEW ok \in BOOLEAN, Records!DeleteIndex(o, ok)
  PROVE  RecordsInv'
<1>1. /\ Records!At(o, "unnaming") /\ mem' = [mem EXCEPT !.index = {}]
      /\ disk' = mem' \/ disk' = disk
      /\ op' = [op EXCEPT ![o] = None] /\ UNCHANGED Records!history
      BY DEF Records!DeleteIndex, Records!Write, Records!Ends
<1>2. mem \in Store /\ disk \in Store BY Types DEF RecordsInv
<1>3. mem' \in Store /\ mem'.record = mem.record /\ mem'.index = {} BY <1>1, <1>2 DEF Store
<1>4. issued' = issued /\ unnamed' = unnamed /\ revived' = revived /\ rotated' = rotated
      BY <1>1 DEF Records!history
<1>5. /\ op' \in [Ops -> Records!Op \cup {None}]
      /\ \A p \in Ops : (p # o /\ op'[p] = op[p]) \/ op'[p] = None
      /\ \A p \in Ops : Records!At(p, "naming") => op'[p] = op[p]
      BY <1>1 DEF RecordsInv, Records!TypeOK, Records!At
<1>6. \A j \in Tokens : Excepted(j) => Excepted(j)' BY <1>4, <1>5, ExceptedStays
<1>7. \A j \in Tokens : mem.record[j] # None => Excepted(j)'
      BY <1>1, <1>6 DEF RecordsInv, IndexDeleted
<1>8. Reaches(mem)' BY <1>3, <1>7 DEF Reaches
<1>9. Reaches(disk)'
  <2>1. CASE disk' = mem' BY <1>8, <2>1 DEF Reaches
  <2>2. CASE disk' = disk BY <1>6, <2>2 DEF RecordsInv, Reaches
  <2> QED BY <1>1, <2>1, <2>2
<1>10. IndexDeleted' BY <1>3, <1>7 DEF IndexDeleted
<1>11. Records!TypeOK'
      BY <1>1, <1>2, <1>3, <1>4, <1>5, TypeOKFromStore DEF RecordsInv, Records!TypeOK
<1>12. IdsIssued' BY <1>1, <1>3, <1>4, <1>5 DEF RecordsInv, IdsIssued
<1>13. SealsCurrent' BY <1>1, <1>3, <1>4, <1>5 DEF RecordsInv, SealsCurrent, Records!At
<1> QED BY <1>8, <1>9, <1>10, <1>11, <1>12, <1>13 DEF RecordsInv

LEMMA RestartKeeps ==
  ASSUME RecordsInv, NEW newer \in BOOLEAN, Records!Restart(newer)
  PROVE  RecordsInv'
<1> DEFINE Old(r) == IF r # None /\ newer THEN [r EXCEPT !.current = FALSE] ELSE r
<1>1. /\ mem' = [disk EXCEPT !.record = [id \in Tokens |-> Old(disk.record[id])]]
      /\ disk' = mem' /\ op' = [o \in Ops |-> None]
      /\ unnamed' = unnamed \cup {op[o].id : o \in {p \in Ops : Records!At(p, "naming")}}
      /\ rotated' = (rotated \/ newer) /\ issued' = issued /\ revived' = revived
      BY DEF Records!Restart
<1>2. disk \in Store /\ disk.record \in [Tokens -> Records!Record \cup {None}]
      BY Types DEF RecordsInv
<1>3. \A r \in Records!Record \cup {None} : /\ Old(r) \in Records!Record \cup {None}
                                            /\ Old(r) # None => r # None
                                            /\ ~newer => Old(r) = r
  <2> SUFFICES ASSUME NEW r \in Records!Record \cup {None}
               PROVE  /\ Old(r) \in Records!Record \cup {None} /\ (Old(r) # None => r # None)
                      /\ ~newer => Old(r) = r
      OBVIOUS
  <2>1. CASE r \in Records!Record /\ newer
    <3>1. [r EXCEPT !.current = FALSE] \in Records!Record BY <2>1 DEF Records!Record
    <3> QED BY <2>1, <3>1, NoneIsNothing
  <2>2. CASE r = None \/ ~newer BY <2>2
  <2> QED BY <2>1, <2>2
<1> HIDE DEF Old
<1>4. /\ mem' \in Store /\ mem'.index = disk.index
      /\ \A id \in Tokens : mem'.record[id] = Old(disk.record[id])
  <2>1. [id \in Tokens |-> Old(disk.record[id])] \in [Tokens -> Records!Record \cup {None}]
        BY <1>2, <1>3
  <2> QED BY <1>1, <1>2, <2>1 DEF Store
<1>5. \A o \in Ops : op'[o] = None BY <1>1
<1>6. \A id \in Tokens : Excepted(id) => id \in unnamed' \cup revived'
      BY <1>1 DEF Excepted
<1>7. Reaches(mem)' /\ Reaches(disk)'
  <2>1. \A id \in Tokens : mem'.record[id] # None => id \in mem'.index \/ id \in unnamed' \cup revived'
        BY <1>2, <1>3, <1>4, <1>6 DEF RecordsInv, Reaches
  <2> QED BY <1>1, <2>1 DEF Reaches, Excepted
<1>8. IndexDeleted' BY <1>5 DEF IndexDeleted, Records!At
<1>9. Records!TypeOK'
  <2>1. unnamed' \subseteq issued'
        BY <1>1 DEF RecordsInv, Records!TypeOK, IdsIssued, Records!At
  <2>2. op' \in [Ops -> Records!Op \cup {None}] BY <1>1
  <2>3. issued' \subseteq Tokens /\ revived' \subseteq issued'
        BY <1>1 DEF RecordsInv, Records!TypeOK
  <2>4. rotated' \in BOOLEAN BY <1>1, Zenon DEF RecordsInv, Records!TypeOK
  <2>5. disk' \in Store BY <1>1, <1>4
  <2> QED BY <1>4, <2>1, <2>2, <2>3, <2>4, <2>5, TypeOKFromStore
<1>10. IdsIssued'
  <2>1. \A id \in Tokens : mem'.record[id] # None => id \in issued'
        BY <1>1, <1>2, <1>3, <1>4 DEF RecordsInv, IdsIssued
  <2> QED BY <1>1, <1>5, <2>1 DEF IdsIssued
<1>11. SealsCurrent'
  <2>1. \A id \in Tokens : mem'.record[id] # None => rotated' \/ mem'.record[id].current
        BY <1>1, <1>2, <1>3, <1>4 DEF RecordsInv, SealsCurrent
  <2> QED BY <1>1, <1>5, <2>1 DEF SealsCurrent, Records!At
<1> QED BY <1>7, <1>8, <1>9, <1>10, <1>11 DEF RecordsInv

LEMMA RecordsStep == RecordsInv /\ [Records!Next]_(Records!vars) => RecordsInv'
<1> SUFFICES ASSUME RecordsInv, [Records!Next]_(Records!vars) PROVE RecordsInv'
    OBVIOUS
<1>1. CASE UNCHANGED Records!vars
  <2> USE <1>1 DEF Records!vars, Records!store, Records!history
  <2>1. Records!TypeOK' BY DEF RecordsInv, Records!TypeOK
  <2>2. \A id \in Tokens : Excepted(id)' = Excepted(id) BY DEF Excepted, Records!At
  <2>3. Reaches(mem)' /\ Reaches(disk)' BY <2>2 DEF RecordsInv, Reaches
  <2>4. IndexDeleted' BY <2>2 DEF RecordsInv, IndexDeleted, Records!At
  <2>5. IdsIssued' BY DEF RecordsInv, IdsIssued
  <2>6. SealsCurrent' BY DEF RecordsInv, SealsCurrent, Records!At
  <2> QED BY <2>1, <2>3, <2>4, <2>5, <2>6 DEF RecordsInv
<1> QED BY <1>1, UpsertKeeps, ReadKeeps, NameKeeps, ResealKeeps, DeleteNamedKeeps,
           DeleteIndexKeeps, DestroyKeeps, RestartKeeps DEF Records!Next

\* Only a re-seal or a restart could bring back a consumed record unconsumed, and
\* a re-seal is of a record under an older secret.
LEMMA ConsumedKept ==
  RecordsInv /\ [Records!Next]_(Records!vars) =>
    \/ \E newer \in BOOLEAN : Records!Restart(newer)
    \/ rotated'
    \/ \A id \in Tokens : mem.record[id] # None /\ mem.record[id].consumed /\ mem'.record[id] # None
                            => mem'.record[id].consumed
<1> DEFINE Kept == \A id \in Tokens :
              mem.record[id] # None /\ mem.record[id].consumed /\ mem'.record[id] # None
                => mem'.record[id].consumed
<1> SUFFICES ASSUME RecordsInv, [Records!Next]_(Records!vars), ~rotated', ~\E newer \in BOOLEAN : Records!Restart(newer)
             PROVE  Kept
    OBVIOUS
<1>0. mem \in Store BY Types DEF RecordsInv
<1>1. ASSUME NEW o \in Ops, NEW id \in Tokens, NEW ok \in BOOLEAN, Records!Upsert(o, id, ok)
      PROVE Kept
  <2>1. mem.record[id] = None BY <1>1 DEF Records!Upsert, RecordsInv, IdsIssued
  <2>2. [consumed |-> FALSE, current |-> TRUE] \in Records!Record BY DEF Records!Record
  <2>3. \A j \in Tokens : j # id => mem'.record[j] = mem.record[j]
        BY <1>1, <2>2, WithRecordIs DEF Records!Upsert, Records!Write, RecordsInv
  <2> QED BY <2>1, <2>3
<1>2. ASSUME NEW o \in Ops, NEW ok \in BOOLEAN, Records!NameToken(o, ok) PROVE Kept
  <2>1. mem'.record = mem.record BY <1>0, <1>2 DEF Records!NameToken, Records!Write, Store
  <2> QED BY <2>1
<1>3. ASSUME NEW o \in Ops, NEW ok \in BOOLEAN, Records!Reseal(o, ok) PROVE Kept
      BY <1>3 DEF Records!Reseal, RecordsInv, SealsCurrent
<1>4. ASSUME NEW o \in Ops, NEW ok \in BOOLEAN, Records!Consume(o, ok) PROVE Kept
  <2>1. op[o].id \in Tokens BY <1>4, Types DEF Records!Consume, Records!At, RecordsInv
  <2>2. [consumed |-> TRUE, current |-> TRUE] \in Records!Record BY DEF Records!Record
  <2>3. mem'.record[op[o].id].consumed /\ \A j \in Tokens : j # op[o].id => mem'.record[j] = mem.record[j]
        BY <1>4, <2>1, <2>2, WithRecordIs
        DEF Records!Consume, Records!PutRecord, Records!Write, RecordsInv
  <2> QED BY <2>3
<1>5. ASSUME NEW o \in Ops, NEW ok \in BOOLEAN, Records!DeleteNamed(o, ok) PROVE Kept
  <2>1. mem' = Records!Without(mem, mem.index) /\ mem.index \in SUBSET Tokens
        BY <1>0, <1>5 DEF Records!DeleteNamed, Store
  <2>2. \A j \in Tokens : mem'.record[j] = IF j \in mem.index THEN None ELSE mem.record[j]
        BY <2>1, WithoutIs DEF RecordsInv
  <2> QED BY <2>2
<1>6. ASSUME NEW o \in Ops, NEW ok \in BOOLEAN, Records!DeleteIndex(o, ok) PROVE Kept
  <2>1. mem'.record = mem.record BY <1>0, <1>6 DEF Records!DeleteIndex, Records!Write, Store
  <2> QED BY <2>1
<1>7. ASSUME NEW id \in Tokens, NEW ok \in BOOLEAN, Records!Destroy(id, ok) PROVE Kept
  <2>1. mem'.record[id] = None /\ \A j \in Tokens : j # id => mem'.record[j] = mem.record[j]
        BY <1>7, WithRecordIs DEF Records!Destroy, Records!Write, RecordsInv
  <2> QED BY <2>1
<1>8. ASSUME NEW o \in Ops, NEW id \in Tokens, NEW kind \in {"find", "consume"}, Records!Read(o, kind, id)
      PROVE Kept
      BY <1>8 DEF Records!Read, Records!store
<1>9. CASE UNCHANGED Records!vars BY <1>9 DEF Records!vars, Records!store
<1> QED BY <1>1, <1>2, <1>3, <1>4, <1>5, <1>6, <1>7, <1>8, <1>9 DEF Records!Next

\* The other parts leave its state alone.
LEMMA RecordsSteps == [Next]_vars => [Records!Next]_(Records!vars)
BY DEF Next, RecordsNext, SignInNext, DocumentsNext, vars, records, Records!vars,
       Records!store,
       Records!history

LEMMA RecordsHold == Spec => []RecordsInv
<1>1. Init => RecordsInv BY RecordsInit DEF Init
<1>2. RecordsInv /\ [Next]_vars => RecordsInv' BY RecordsSteps, RecordsStep
<1> QED BY <1>1, <1>2, PTL DEF Spec

\* A revocation reaches every record of its grant but those the history excuses,
\* whatever writes fail, reads write back, or restarts come between.
THEOREM RecordsReached == Spec => [](Records!TypeOK /\ RevocationReaches)
<1>1. RecordsInv => Records!TypeOK /\ RevocationReaches
      BY DEF RecordsInv, Reaches, Excepted, RevocationReaches, Records!RevocationReaches
<1> QED BY <1>1, RecordsHold, PTL

\* Only a restart from a file that was behind gives a consumed token back.
THEOREM Consumed == Spec => ConsumedForGood
<1>1. RecordsInv /\ [Next]_vars =>
        [\A id \in Tokens :
          /\ ~rotated' /\ mem.record[id] # None /\ mem.record[id].consumed
          /\ mem'.record[id] # None /\ ~mem'.record[id].consumed
          => \E newer \in BOOLEAN : Records!Restart(newer)]_(Records!vars)
      BY RecordsSteps, ConsumedKept
<1> QED BY <1>1, RecordsHold, PTL DEF Spec, ConsumedForGood, Records!ConsumedForGood

-----------------------------------------------------------------------------
(* The interactions.  A grant has tokens of its own because those that wait are   *)
(* under the key of the sign-in they are of, and are taken as the grant is made;  *)
(* it was agreed to because only a consent that was skipped for a client trusted  *)
(* or remembered, or one given, leads to it.                                      *)

\* Tokens wait under the key of their own sign-in.
TokensOwn == \A k \in SignIn!Keys : tokens[k] # None => SignIn!pendingKey(tokens[k]) = k

\* A sign-in has a grant from its consent on, which one denied meanwhile keeps, and has
\* its user from its login on.
GrantsMatchSteps ==
    \A s \in SignIns :
        /\ step[s] \in {"saving", "remembering", "granted"} => grant[s] # None
        /\ grant[s] # None => /\ step[s] \in {"saving", "remembering", "granted", "denied"}
                              /\ user[s] # None
        /\ step[s] = "consent" => user[s] # None

RememberingAgreed ==
    \A s \in SignIns : step[s] = "remembering" => <<user[s], client[s]>> \in agreed

SignInsInv ==
    /\ SignIn!TypeOK /\ TokensOwn /\ SignIn!GrantsOwnTokens /\ GrantsMatchSteps
    /\ SignIn!GrantsAgreed /\ RememberingAgreed /\ SignIn!LoneSignInKeepsTokens

LEMMA Names ==
  None \notin SignIns /\ None \notin Users /\ Trusted \subseteq Clients
BY PartsAssumption DEF SignIn!SignInsAssumption

LEMMA SignInsInit == SignIn!Init => SignInsInv
<1> SUFFICES ASSUME SignIn!Init PROVE SignInsInv
    OBVIOUS
<1> USE Names DEF SignIn!Init
<1>1. SignIn!TypeOK BY DEF SignIn!TypeOK, SignIn!Steps
<1>2. TokensOwn BY DEF TokensOwn
<1>3. SignIn!GrantsOwnTokens BY DEF SignIn!GrantsOwnTokens
<1>4. GrantsMatchSteps BY DEF GrantsMatchSteps
<1>5. SignIn!GrantsAgreed BY DEF SignIn!GrantsAgreed
<1>6. RememberingAgreed /\ SignIn!LoneSignInKeepsTokens
      BY DEF RememberingAgreed, SignIn!LoneSignInKeepsTokens
<1> QED BY <1>1, <1>2, <1>3, <1>4, <1>5, <1>6 DEF SignInsInv

\* A step before the consent, or one that denies the sign-in at any time.
LEMMA EarlyStep ==
  ASSUME SignInsInv, NEW s \in SignIns, NEW x \in {"login", "denied"},
         \/ step' = step
         \/ step[s] \in {"none", "login", "consent"} /\ step' = [step EXCEPT ![s] = x]
         \/ step' = [step EXCEPT ![s] = "denied"],
         UNCHANGED <<client, user, tokens, grant, agreed, disturbed>>,
         consents' \subseteq agreed, verifiers' \subseteq SignIns, asking' \subseteq SignIns
  PROVE  SignInsInv'
<1>1. /\ client' = client /\ user' = user /\ tokens' = tokens
      /\ grant' = grant /\ agreed' = agreed /\ disturbed' = disturbed
      OBVIOUS
<1>2. step' \in [SignIns -> SignIn!Steps]
      BY DEF SignInsInv, SignIn!TypeOK, SignIn!Steps
<1>3. \A t \in SignIns :
         \/ step'[t] = step[t]
         \/ step[t] \in {"none", "login", "consent"} /\ step'[t] = "login"
         \/ step'[t] = "denied"
      BY DEF SignInsInv, SignIn!TypeOK
<1>4. SignIn!TypeOK' BY <1>1, <1>2 DEF SignInsInv, SignIn!TypeOK
<1>5. TokensOwn' BY <1>1 DEF SignInsInv, TokensOwn, SignIn!pendingKey, SignIn!KeyOf
<1>6. SignIn!GrantsOwnTokens' BY <1>1 DEF SignInsInv, SignIn!GrantsOwnTokens
<1>7. GrantsMatchSteps' BY <1>1, <1>3 DEF SignInsInv, GrantsMatchSteps
<1>8. SignIn!GrantsAgreed' BY <1>1, <1>3 DEF SignInsInv, SignIn!GrantsAgreed
<1>9. RememberingAgreed' BY <1>1, <1>3 DEF SignInsInv, RememberingAgreed
<1>10. SignIn!LoneSignInKeepsTokens'
      BY <1>1, <1>3
      DEF SignInsInv, SignIn!LoneSignInKeepsTokens, SignIn!pendingKey, SignIn!KeyOf
<1> QED BY <1>4, <1>5, <1>6, <1>7, <1>8, <1>9, <1>10 DEF SignInsInv

LEMMA OvertakenConsent ==
  ASSUME SignInsInv, NEW s \in SignIns, SignIn!Overtake(s) PROVE consents' \subseteq agreed
BY DEF SignIn!Overtake, SignInsInv, SignIn!TypeOK, RememberingAgreed

\* The tokens of a new user replace those that waited, whose sign-in they disturb.
LEMMA ExchangedKeeps ==
  ASSUME SignInsInv, NEW s \in SignIns, NEW u \in Users, SignIn!Exchanged(s, u)
  PROVE  SignInsInv'
<1> DEFINE k == <<u, client[s]>>
<1>1. /\ user[s] = None /\ user' = [user EXCEPT ![s] = u]
      /\ tokens' = [tokens EXCEPT ![k] = s]
      /\ disturbed' = disturbed \cup ({tokens[k]} \ {None})
      /\ step' = [step EXCEPT ![s] = IF @ = "login" THEN "consent" ELSE @]
      /\ client' = client /\ verifiers' = verifiers /\ consents' = consents
      /\ grant' = grant /\ agreed' = agreed /\ asking' = asking \ {s}
      BY DEF SignIn!Exchanged, SignIn!Keep, SignIn!KeyOf
<1>2. k \in SignIn!Keys BY DEF SignInsInv, SignIn!TypeOK, SignIn!Keys
<1> HIDE DEF k
<1>3. SignIn!TypeOK'
  <2>1. user' \in [SignIns -> Users \cup {None}] BY <1>1 DEF SignInsInv, SignIn!TypeOK
  <2>2. step' \in [SignIns -> SignIn!Steps]
        BY <1>1 DEF SignInsInv, SignIn!TypeOK, SignIn!Steps
  <2>3. tokens' \in [SignIn!Keys -> SignIns \cup {None}] BY <1>1 DEF SignInsInv, SignIn!TypeOK
  <2>4. disturbed' \subseteq SignIns BY <1>1, <1>2 DEF SignInsInv, SignIn!TypeOK
  <2> QED BY <1>1, <2>1, <2>2, <2>3, <2>4 DEF SignInsInv, SignIn!TypeOK
<1>4. \A t \in SignIns : grant[t] # None => /\ t # s /\ grant[t] # s /\ grant[t] \in SignIns
                                            /\ user[t] # None
  <2>1. \A t \in SignIns : grant[t] # None => user[t] # None /\ grant[t] \in SignIns
        BY DEF SignInsInv, GrantsMatchSteps, SignIn!TypeOK
  <2>2. \A t \in SignIns : grant[t] # None => user[grant[t]] = user[t]
        BY DEF SignInsInv, SignIn!GrantsOwnTokens
  <2> QED BY <1>1, <2>1, <2>2
<1>5. \A j \in SignIn!Keys : tokens[j] # None => tokens[j] # s /\ tokens[j] \in SignIns
  <2> SUFFICES ASSUME NEW j \in SignIn!Keys, tokens[j] # None
        PROVE tokens[j] # s /\ tokens[j] \in SignIns
      OBVIOUS
  <2>1. tokens[j] \in SignIns BY DEF SignInsInv, SignIn!TypeOK
  <2>2. <<user[tokens[j]], client[tokens[j]]>> = j
        BY DEF SignInsInv, TokensOwn, SignIn!pendingKey, SignIn!KeyOf
  <2>3. user[tokens[j]] \in Users BY <2>2 DEF SignIn!Keys
  <2> QED BY <1>1, <2>1, <2>3, Names
<1>6. \A t \in SignIns : t # s => user'[t] = user[t] /\ step'[t] = step[t]
      BY <1>1 DEF SignInsInv, SignIn!TypeOK
<1>7. user'[s] = u BY <1>1 DEF SignInsInv, SignIn!TypeOK
<1>8. tokens'[k] = s /\ \A j \in SignIn!Keys : j # k => tokens'[j] = tokens[j]
      BY <1>1, <1>2 DEF SignInsInv, SignIn!TypeOK
<1>9. TokensOwn'
  <2> SUFFICES ASSUME NEW j \in SignIn!Keys, tokens'[j] # None
               PROVE  <<user'[tokens'[j]], client'[tokens'[j]]>> = j
      BY DEF TokensOwn, SignIn!pendingKey, SignIn!KeyOf
  <2>1. CASE j = k BY <1>1, <1>7, <1>8, <2>1 DEF k
  <2>2. CASE j # k
    <3>1. tokens'[j] = tokens[j] BY <1>8, <2>2
    <3>2. <<user[tokens[j]], client[tokens[j]]>> = j
          BY <3>1 DEF SignInsInv, TokensOwn, SignIn!pendingKey, SignIn!KeyOf
    <3> QED BY <1>1, <1>5, <1>6, <3>1, <3>2
  <2> QED BY <2>1, <2>2
<1>10. SignIn!GrantsOwnTokens'
  <2> SUFFICES ASSUME NEW t \in SignIns, grant[t] # None
               PROVE  /\ user'[grant[t]] = user'[t] /\ client[grant[t]] = client[t]
                      /\ \A v \in SignIns \ {t} : grant[v] # grant[t]
                      /\ \A j \in SignIn!Keys : tokens'[j] # grant[t]
      BY <1>1 DEF SignIn!GrantsOwnTokens
  <2>1. /\ user[grant[t]] = user[t] /\ client[grant[t]] = client[t]
        /\ \A v \in SignIns \ {t} : grant[v] # grant[t]
        /\ \A j \in SignIn!Keys : tokens[j] # grant[t]
        BY DEF SignInsInv, SignIn!GrantsOwnTokens
  <2>2. \A j \in SignIn!Keys : tokens'[j] # grant[t]
    <3> QED BY <1>4, <1>8, <2>1
  <2> QED BY <1>4, <1>6, <2>1, <2>2
<1>11. \A t \in SignIns : step'[t] # step[t] => t = s /\ step[t] = "login" /\ step'[t] = "consent"
       BY <1>1 DEF SignInsInv, SignIn!TypeOK
<1>12. step[s] \notin {"consent", "saving", "remembering", "granted"}
       BY <1>1 DEF SignInsInv, GrantsMatchSteps
<1>13. GrantsMatchSteps'
  <2>1. u # None BY Names
  <2> QED BY <1>1, <1>6, <1>7, <1>11, <2>1 DEF SignInsInv, GrantsMatchSteps
<1>14. SignIn!GrantsAgreed' BY <1>1, <1>4, <1>6 DEF SignInsInv, SignIn!GrantsAgreed
<1>15. RememberingAgreed' BY <1>1, <1>6, <1>11, <1>12 DEF SignInsInv, RememberingAgreed
<1>16. SignIn!LoneSignInKeepsTokens'
  <2> SUFFICES ASSUME NEW t \in SignIns, step'[t] = "consent"
               PROVE  t \in disturbed' \/ tokens'[<<user'[t], client'[t]>>] = t
      BY DEF SignIn!LoneSignInKeepsTokens, SignIn!pendingKey, SignIn!KeyOf
  <2>1. CASE t = s BY <1>1, <1>7, <1>8, <2>1 DEF k
  <2>2. CASE t # s
    <3>1. step[t] = "consent" BY <1>6, <2>2
    <3>2. t \in disturbed \/ tokens[<<user[t], client[t]>>] = t
          BY <3>1
          DEF SignInsInv, SignIn!LoneSignInKeepsTokens, SignIn!pendingKey, SignIn!KeyOf
    <3>3. <<user[t], client[t]>> \in SignIn!Keys
          BY <3>1 DEF SignInsInv, GrantsMatchSteps, SignIn!TypeOK, SignIn!Keys
    <3>4. t # None BY Names
    <3> QED BY <1>1, <1>6, <1>8, <2>2, <3>2, <3>3, <3>4
  <2> QED BY <2>1, <2>2
<1> QED BY <1>3, <1>9, <1>10, <1>13, <1>14, <1>15, <1>16 DEF SignInsInv

\* Tokens that wait under the key of s are taken, for its grant or not: they are no
\* one else's any more.
LEMMA TokensTaken ==
  ASSUME SignInsInv, NEW s \in SignIns, user[s] # None,
         tokens' = [tokens EXCEPT ![<<user[s], client[s]>>] = None],
         \/ grant' = grant
         \/ /\ tokens[<<user[s], client[s]>>] # None
            /\ grant' = [grant EXCEPT ![s] = tokens[<<user[s], client[s]>>]],
         user' = user, client' = client
  PROVE  /\ tokens[<<user[s], client[s]>>] \in SignIns \cup {None}
         /\ tokens' \in [SignIn!Keys -> SignIns \cup {None}]
         /\ grant' \in [SignIns -> SignIns \cup {None}]
         /\ \A j \in SignIn!Keys : tokens'[j] # None => tokens'[j] = tokens[j]
         /\ \A j \in SignIn!Keys : j # <<user[s], client[s]>> => tokens'[j] = tokens[j]
         /\ TokensOwn' /\ SignIn!GrantsOwnTokens'
<1> DEFINE k == <<user[s], client[s]>>
           x == tokens[k]
<1>1. k \in SignIn!Keys BY DEF SignInsInv, SignIn!TypeOK, SignIn!Keys
<1>2. x \in SignIns \cup {None} BY <1>1 DEF SignInsInv, SignIn!TypeOK
<1>3. x # None => <<user[x], client[x]>> = k
      BY <1>1 DEF SignInsInv, TokensOwn, SignIn!pendingKey, SignIn!KeyOf
<1>4. x # None => /\ \A t \in SignIns : grant[t] # x
                  /\ \A j \in SignIn!Keys : j # k => tokens[j] # x
  <2> SUFFICES ASSUME x # None PROVE /\ \A t \in SignIns : grant[t] # x
                                     /\ \A j \in SignIn!Keys : j # k => tokens[j] # x
      OBVIOUS
  <2>1. \A t \in SignIns : grant[t] # x
        BY <1>1 DEF SignInsInv, SignIn!GrantsOwnTokens
  <2>2. ASSUME NEW j \in SignIn!Keys, j # k, tokens[j] = x PROVE FALSE
    <3>1. <<user[x], client[x]>> = j
          BY <2>2 DEF SignInsInv, TokensOwn, SignIn!pendingKey, SignIn!KeyOf
    <3> QED BY <1>3, <2>2, <3>1
  <2> QED BY <2>1, <2>2
<1>5. tokens'[k] = None /\ \A j \in SignIn!Keys : j # k => tokens'[j] = tokens[j]
      BY <1>1 DEF SignInsInv, SignIn!TypeOK
<1>6. \/ grant' = grant
      \/ x # None /\ grant' = [grant EXCEPT ![s] = x]
      OBVIOUS
<1> HIDE DEF x
<1>7. /\ tokens' \in [SignIn!Keys -> SignIns \cup {None}]
      /\ grant' \in [SignIns -> SignIns \cup {None}]
      BY <1>2, <1>6 DEF SignInsInv, SignIn!TypeOK
<1>8. \A t \in SignIns : \/ grant'[t] = grant[t]
                         \/ t = s /\ x # None /\ grant'[t] = x
      BY <1>6 DEF SignInsInv, SignIn!TypeOK
<1>9. TokensOwn'
  <2> SUFFICES ASSUME NEW j \in SignIn!Keys, tokens'[j] # None
               PROVE  <<user[tokens'[j]], client[tokens'[j]]>> = j
      BY DEF TokensOwn, SignIn!pendingKey, SignIn!KeyOf
  <2>1. tokens'[j] = tokens[j] BY <1>5
  <2> QED BY <2>1 DEF SignInsInv, TokensOwn, SignIn!pendingKey, SignIn!KeyOf
<1>10. SignIn!GrantsOwnTokens'
  <2> SUFFICES ASSUME NEW t \in SignIns, grant'[t] # None
               PROVE  /\ user[grant'[t]] = user[t] /\ client[grant'[t]] = client[t]
                      /\ \A v \in SignIns \ {t} : grant'[v] # grant'[t]
                      /\ \A j \in SignIn!Keys : tokens'[j] # grant'[t]
      BY DEF SignIn!GrantsOwnTokens
  <2>1. CASE t = s /\ x # None /\ grant'[t] = x
    <3>1. user[x] = user[s] /\ client[x] = client[s] BY <1>3, <2>1
    <3>2. \A v \in SignIns \ {t} : grant'[v] # x BY <1>4, <1>8, <2>1
    <3>3. \A j \in SignIn!Keys : tokens'[j] # x BY <1>4, <1>5, <2>1
    <3> QED BY <2>1, <3>1, <3>2, <3>3
  <2>2. CASE grant'[t] = grant[t]
    <3>1. /\ user[grant[t]] = user[t] /\ client[grant[t]] = client[t]
          /\ \A v \in SignIns \ {t} : grant[v] # grant[t]
          /\ \A j \in SignIn!Keys : tokens[j] # grant[t]
          BY <2>2 DEF SignInsInv, SignIn!GrantsOwnTokens
    <3>2. \A v \in SignIns \ {t} : grant'[v] # grant[t] BY <1>4, <1>8, <3>1
    <3>3. \A j \in SignIn!Keys : tokens'[j] # grant[t] BY <1>5, <2>2, <3>1
    <3> QED BY <2>2, <3>1, <3>2, <3>3
  <2> QED BY <1>8, <2>1, <2>2
<1> QED BY <1>2, <1>5, <1>7, <1>9, <1>10 DEF x

\* A sign-in that waits for its consent still finds its tokens when those under the key
\* of s are taken, which disturbs theirs.
LEMMA OthersFindTokens ==
  ASSUME SignInsInv, NEW s \in SignIns, NEW t \in SignIns, step[t] = "consent",
         tokens[<<user[s], client[s]>>] \in {None, s} \/ tokens[<<user[s], client[s]>>] \in disturbed',
         disturbed \subseteq disturbed', t # s,
         \A j \in SignIn!Keys : j # <<user[s], client[s]>> => tokens'[j] = tokens[j]
  PROVE  t \in disturbed' \/ tokens'[<<user[t], client[t]>>] = t
<1>1. t \in disturbed \/ tokens[<<user[t], client[t]>>] = t
      BY DEF SignInsInv, SignIn!LoneSignInKeepsTokens, SignIn!pendingKey, SignIn!KeyOf
<1>2. <<user[t], client[t]>> \in SignIn!Keys
      BY DEF SignInsInv, GrantsMatchSteps, SignIn!TypeOK, SignIn!Keys
<1>3. t # None BY Names
<1>4. CASE <<user[t], client[t]>> = <<user[s], client[s]>> BY <1>1, <1>3, <1>4
<1>5. CASE <<user[t], client[t]>> # <<user[s], client[s]>> BY <1>1, <1>2, <1>5
<1> QED BY <1>4, <1>5

\* Whoever shows the consent step takes the tokens that wait under its key.
LEMMA TakeKeeps ==
  ASSUME SignInsInv, NEW s \in SignIns, NEW next \in {"saving", "remembering"},
         step[s] = "consent", SignIn!TakeTokens(s, next),
         UNCHANGED <<client, user, verifiers, asking, consents>>,
         agreed \subseteq agreed', agreed' \subseteq SignIn!Keys,
         IF next = "saving" THEN client[s] \in Trusted \/ <<user[s], client[s]>> \in agreed'
                            ELSE <<user[s], client[s]>> \in agreed'
  PROVE  SignInsInv'
<1> DEFINE x == tokens[<<user[s], client[s]>>]
<1>1. /\ tokens' = [tokens EXCEPT ![<<user[s], client[s]>>] = None]
      /\ disturbed' = disturbed \cup ({x} \ {None, s})
      /\ \/ x = None /\ step' = [step EXCEPT ![s] = "denied"] /\ grant' = grant
         \/ x # None /\ step' = [step EXCEPT ![s] = next] /\ grant' = [grant EXCEPT ![s] = x]
      BY DEF SignIn!TakeTokens, SignIn!Take, SignIn!Deny, SignIn!pendingKey, SignIn!KeyOf
<1>2. client' = client /\ user' = user /\ verifiers' = verifiers /\ asking' = asking
      /\ consents' = consents
      OBVIOUS
<1>3. user[s] # None BY DEF SignInsInv, GrantsMatchSteps
<1>4. /\ x \in SignIns \cup {None}
      /\ tokens' \in [SignIn!Keys -> SignIns \cup {None}]
      /\ grant' \in [SignIns -> SignIns \cup {None}]
      /\ \A j \in SignIn!Keys : j # <<user[s], client[s]>> => tokens'[j] = tokens[j]
      /\ TokensOwn' /\ SignIn!GrantsOwnTokens'
      BY <1>1, <1>3, TokensTaken
<1>5. grant[s] = None BY DEF SignInsInv, GrantsMatchSteps
<1>6. \A t \in SignIns : t # s => step'[t] = step[t] /\ grant'[t] = grant[t]
      BY <1>1 DEF SignInsInv, SignIn!TypeOK
<1>7. \/ step'[s] = "denied" /\ grant'[s] = None
      \/ x # None /\ step'[s] = next /\ grant'[s] = x
      BY <1>1, <1>5 DEF SignInsInv, SignIn!TypeOK
<1> HIDE DEF x
<1>8. SignIn!TypeOK'
  <2>1. step' \in [SignIns -> SignIn!Steps]
        BY <1>1 DEF SignInsInv, SignIn!TypeOK, SignIn!Steps
  <2>2. disturbed' \subseteq SignIns BY <1>1, <1>4 DEF SignInsInv, SignIn!TypeOK
  <2> QED BY <1>2, <1>4, <2>1, <2>2 DEF SignInsInv, SignIn!TypeOK
<1>9. GrantsMatchSteps' BY <1>2, <1>3, <1>6, <1>7 DEF SignInsInv, GrantsMatchSteps
<1>10. SignIn!GrantsAgreed' BY <1>2, <1>6, <1>7 DEF SignInsInv, SignIn!GrantsAgreed
<1>11. RememberingAgreed' BY <1>2, <1>6, <1>7 DEF SignInsInv, RememberingAgreed
<1>12. SignIn!LoneSignInKeepsTokens'
  <2> SUFFICES ASSUME NEW t \in SignIns, step'[t] = "consent"
               PROVE  t \in disturbed' \/ tokens'[<<user[t], client[t]>>] = t
      BY <1>2 DEF SignIn!LoneSignInKeepsTokens, SignIn!pendingKey, SignIn!KeyOf
  <2>1. t # s /\ step[t] = "consent" BY <1>6, <1>7
  <2>2. disturbed \subseteq disturbed' /\ (x \in {None, s} \/ x \in disturbed') BY <1>1
  <2> QED BY <1>4, <2>1, <2>2, OthersFindTokens DEF x
<1> QED BY <1>4, <1>8, <1>9, <1>10, <1>11, <1>12 DEF SignInsInv

\* An answer while another is handled denies the sign-in, or takes the tokens of a
\* later one.
LEMMA AnswerAgainKeeps ==
  ASSUME SignInsInv, NEW s \in SignIns, SignIn!AnswerAgain(s)
  PROVE  SignInsInv'
<1> DEFINE x == tokens[<<user[s], client[s]>>]
<1>1. /\ step[s] \in {"remembering", "saving"}
      /\ tokens' = [tokens EXCEPT ![<<user[s], client[s]>>] = None]
      /\ disturbed' = disturbed \cup ({x} \ {None})
      /\ client' = client /\ user' = user /\ verifiers' = verifiers /\ asking' = asking
      /\ agreed' = agreed
      /\ IF x = None THEN SignIn!Overtake(s)
         ELSE /\ grant' \in {grant, [grant EXCEPT ![s] = x]}
              /\ step' = step /\ consents' = consents
      BY DEF SignIn!AnswerAgain, SignIn!Take, SignIn!pendingKey, SignIn!KeyOf
<1>2. user[s] # None BY <1>1 DEF SignInsInv, GrantsMatchSteps
<1>3. \/ grant' = grant
      \/ x # None /\ grant' = [grant EXCEPT ![s] = x]
      BY <1>1 DEF SignIn!Overtake
<1>4. /\ x \in SignIns \cup {None}
      /\ tokens' \in [SignIn!Keys -> SignIns \cup {None}]
      /\ grant' \in [SignIns -> SignIns \cup {None}]
      /\ \A j \in SignIn!Keys : j # <<user[s], client[s]>> => tokens'[j] = tokens[j]
      /\ TokensOwn' /\ SignIn!GrantsOwnTokens'
      BY <1>1, <1>2, <1>3, TokensTaken
<1> HIDE DEF x
<1>5. /\ consents' \subseteq agreed
      /\ step' = step \/ step' = [step EXCEPT ![s] = "denied"]
      BY <1>1, OvertakenConsent DEF SignIn!Overtake, SignIn!Deny, SignInsInv, SignIn!TypeOK
<1>6. \A t \in SignIns : \/ step'[t] = step[t]
                         \/ t = s /\ step'[t] = "denied"
      BY <1>5 DEF SignInsInv, SignIn!TypeOK
<1>7. \A t \in SignIns : /\ t # s => grant'[t] = grant[t]
                         /\ grant[t] # None <=> grant'[t] # None
  <2>1. grant[s] # None BY <1>1 DEF SignInsInv, GrantsMatchSteps
  <2> QED BY <1>3, <2>1 DEF SignInsInv, SignIn!TypeOK
<1>8. SignIn!TypeOK'
  <2>1. step' \in [SignIns -> SignIn!Steps]
        BY <1>5 DEF SignInsInv, SignIn!TypeOK, SignIn!Steps
  <2>2. disturbed' \subseteq SignIns BY <1>1, <1>4 DEF SignInsInv, SignIn!TypeOK
  <2> QED BY <1>1, <1>4, <1>5, <2>1, <2>2 DEF SignInsInv, SignIn!TypeOK
<1>9. GrantsMatchSteps' BY <1>1, <1>6, <1>7 DEF SignInsInv, GrantsMatchSteps
<1>10. SignIn!GrantsAgreed' BY <1>1, <1>7 DEF SignInsInv, SignIn!GrantsAgreed
<1>11. RememberingAgreed' BY <1>1, <1>6 DEF SignInsInv, RememberingAgreed
<1>12. SignIn!LoneSignInKeepsTokens'
  <2> SUFFICES ASSUME NEW t \in SignIns, step'[t] = "consent"
               PROVE  t \in disturbed' \/ tokens'[<<user[t], client[t]>>] = t
      BY <1>1 DEF SignIn!LoneSignInKeepsTokens, SignIn!pendingKey, SignIn!KeyOf
  <2>1. t # s /\ step[t] = "consent" BY <1>1, <1>6
  <2>2. disturbed \subseteq disturbed' /\ (x \in {None, s} \/ x \in disturbed') BY <1>1
  <2> QED BY <1>4, <2>1, <2>2, OthersFindTokens DEF x
<1> QED BY <1>4, <1>8, <1>9, <1>10, <1>11, <1>12 DEF SignInsInv

\* A write of the consent or of the grant succeeds, or throws the tokens away.
LEMMA WriteKeeps ==
  ASSUME SignInsInv, NEW s \in SignIns, NEW ok \in BOOLEAN,
         SignIn!Remember(s, ok) \/ SignIn!Approve(s, ok)
  PROVE  SignInsInv'
<1>1. /\ client' = client /\ user' = user /\ tokens' = tokens /\ verifiers' = verifiers
      /\ asking' = asking /\ agreed' = agreed
      BY DEF SignIn!Remember, SignIn!Approve, SignIn!pending
<1>2. \/ /\ step[s] = "remembering" /\ step' = [step EXCEPT ![s] = "saving"]
         /\ grant' = grant /\ disturbed' = disturbed
         /\ consents' = consents \cup {<<user[s], client[s]>>}
      \/ /\ step[s] = "saving" /\ step' = [step EXCEPT ![s] = "granted"]
         /\ grant' = grant /\ disturbed' = disturbed /\ consents' = consents
      \/ /\ step[s] \in {"remembering", "saving"} /\ step' = [step EXCEPT ![s] = "consent"]
         /\ grant' = [grant EXCEPT ![s] = None] /\ disturbed' = disturbed \cup {s}
         /\ consents' = consents
      BY DEF SignIn!Remember, SignIn!Approve
<1>3. SignIn!TypeOK'
  <2>1. step' \in [SignIns -> SignIn!Steps]
        BY <1>2 DEF SignInsInv, SignIn!TypeOK, SignIn!Steps
  <2>2. grant' \in [SignIns -> SignIns \cup {None}] BY <1>2 DEF SignInsInv, SignIn!TypeOK
  <2>3. consents' \subseteq agreed BY <1>2 DEF SignInsInv, SignIn!TypeOK, RememberingAgreed
  <2>4. disturbed' \subseteq SignIns BY <1>2 DEF SignInsInv, SignIn!TypeOK
  <2> QED BY <1>1, <2>1, <2>2, <2>3, <2>4 DEF SignInsInv, SignIn!TypeOK
<1>4. \A t \in SignIns : t # s => step'[t] = step[t] /\ grant'[t] = grant[t]
      BY <1>2 DEF SignInsInv, SignIn!TypeOK
<1>5. \/ /\ step'[s] \in {"saving", "granted"} /\ grant'[s] = grant[s]
         /\ step[s] \in {"remembering", "saving"}
      \/ /\ step'[s] = "consent" /\ grant'[s] = None /\ s \in disturbed'
         /\ step[s] \in {"remembering", "saving"}
      BY <1>2 DEF SignInsInv, SignIn!TypeOK
<1>6. disturbed \subseteq disturbed' BY <1>2
<1>7. \A t \in SignIns : grant'[t] = grant[t] \/ grant'[t] = None BY <1>4, <1>5
<1>8. TokensOwn' BY <1>1 DEF SignInsInv, TokensOwn, SignIn!pendingKey, SignIn!KeyOf
<1>9. SignIn!GrantsOwnTokens' BY <1>1, <1>7 DEF SignInsInv, SignIn!GrantsOwnTokens
<1>10. GrantsMatchSteps' BY <1>1, <1>4, <1>5 DEF SignInsInv, GrantsMatchSteps
<1>11. SignIn!GrantsAgreed'
      BY <1>1, <1>4, <1>5 DEF SignInsInv, SignIn!GrantsAgreed, RememberingAgreed
<1>12. RememberingAgreed' BY <1>1, <1>4, <1>5 DEF SignInsInv, RememberingAgreed
<1>13. SignIn!LoneSignInKeepsTokens'
       BY <1>1, <1>4, <1>5, <1>6
       DEF SignInsInv, SignIn!LoneSignInKeepsTokens, SignIn!pendingKey, SignIn!KeyOf
<1> QED BY <1>3, <1>8, <1>9, <1>10, <1>11, <1>12, <1>13 DEF SignInsInv

LEMMA ExpireKeeps == SignInsInv /\ SignIn!Expire => SignInsInv'
<1> SUFFICES ASSUME SignInsInv, SignIn!Expire PROVE SignInsInv'
    OBVIOUS
<1>1. /\ client' = client /\ user' = user /\ step' = step /\ asking' = asking
      /\ grant' = grant /\ agreed' = agreed
      BY DEF SignIn!Expire, SignIn!pending
<1>2. verifiers' \subseteq SignIns /\ consents' \subseteq agreed
      BY DEF SignIn!Expire, SignIn!pending, SignInsInv, SignIn!TypeOK
<1>3. \/ tokens' = tokens /\ disturbed' = disturbed
      \/ \E k \in SignIn!Keys : /\ tokens[k] # None /\ tokens' = [tokens EXCEPT ![k] = None]
                                /\ disturbed' = disturbed \cup {tokens[k]}
      BY DEF SignIn!Expire, SignIn!pending
<1>4. /\ tokens' \in [SignIn!Keys -> SignIns \cup {None}] /\ disturbed' \subseteq SignIns
      /\ disturbed \subseteq disturbed'
      /\ \A k \in SignIn!Keys : tokens'[k] = tokens[k] \/ (tokens'[k] = None /\ tokens[k] \in disturbed')
      BY <1>3 DEF SignInsInv, SignIn!TypeOK
<1>5. SignIn!TypeOK' BY <1>1, <1>2, <1>4 DEF SignInsInv, SignIn!TypeOK
<1>6. TokensOwn' BY <1>1, <1>4 DEF SignInsInv, TokensOwn, SignIn!pendingKey, SignIn!KeyOf
<1>7. SignIn!GrantsOwnTokens' BY <1>1, <1>4 DEF SignInsInv, SignIn!GrantsOwnTokens
<1>8. GrantsMatchSteps' BY <1>1 DEF SignInsInv, GrantsMatchSteps
<1>9. SignIn!GrantsAgreed' /\ RememberingAgreed'
      BY <1>1 DEF SignInsInv, SignIn!GrantsAgreed, RememberingAgreed
<1>10. SignIn!LoneSignInKeepsTokens'
  <2> SUFFICES ASSUME NEW t \in SignIns, step[t] = "consent"
               PROVE  t \in disturbed' \/ tokens'[<<user[t], client[t]>>] = t
      BY <1>1 DEF SignIn!LoneSignInKeepsTokens, SignIn!pendingKey, SignIn!KeyOf
  <2>1. t \in disturbed \/ tokens[<<user[t], client[t]>>] = t
        BY DEF SignInsInv, SignIn!LoneSignInKeepsTokens, SignIn!pendingKey, SignIn!KeyOf
  <2>2. <<user[t], client[t]>> \in SignIn!Keys
        BY DEF SignInsInv, GrantsMatchSteps, SignIn!TypeOK, SignIn!Keys
  <2> QED BY <1>4, <2>1, <2>2
<1> QED BY <1>5, <1>6, <1>7, <1>8, <1>9, <1>10 DEF SignInsInv

LEMMA SignInRestartKeeps == SignInsInv /\ SignIn!Restart => SignInsInv'
<1> SUFFICES ASSUME SignInsInv, SignIn!Restart PROVE SignInsInv'
    OBVIOUS
<1>1. /\ client' = client /\ user' = user /\ consents' = consents /\ agreed' = agreed
      /\ disturbed' = disturbed /\ verifiers' = {} /\ asking' = {}
      /\ tokens' = [k \in SignIn!Keys |-> None]
      BY DEF SignIn!Restart
<1>2. \A t \in SignIns :
         /\ step'[t] = (IF step[t] \in {"none", "granted"} THEN step[t] ELSE "denied")
         /\ grant'[t] = (IF step[t] = "remembering" THEN None ELSE grant[t])
      BY DEF SignIn!Restart
<1>3. SignIn!TypeOK'
  <2>1. step' \in [SignIns -> SignIn!Steps]
        BY DEF SignIn!Restart, SignInsInv, SignIn!TypeOK, SignIn!Steps
  <2>2. grant' \in [SignIns -> SignIns \cup {None}]
        BY DEF SignIn!Restart, SignInsInv, SignIn!TypeOK
  <2>3. tokens' \in [SignIn!Keys -> SignIns \cup {None}] BY <1>1
  <2> QED BY <1>1, <2>1, <2>2, <2>3 DEF SignInsInv, SignIn!TypeOK
<1>4. TokensOwn' BY <1>1 DEF TokensOwn
<1>5. SignIn!GrantsOwnTokens'
  <2> SUFFICES ASSUME NEW t \in SignIns, grant'[t] # None
               PROVE  /\ user[grant'[t]] = user[t] /\ client[grant'[t]] = client[t]
                      /\ \A v \in SignIns \ {t} : grant'[v] # grant'[t]
                      /\ \A j \in SignIn!Keys : tokens'[j] # grant'[t]
      BY <1>1 DEF SignIn!GrantsOwnTokens
  <2>1. grant'[t] = grant[t] BY <1>2
  <2>2. \A j \in SignIn!Keys : tokens'[j] = None BY <1>1
  <2> QED BY <1>2, <2>1, <2>2 DEF SignInsInv, SignIn!GrantsOwnTokens
<1>6. GrantsMatchSteps' BY <1>1, <1>2 DEF SignInsInv, GrantsMatchSteps
<1>7. SignIn!GrantsAgreed' BY <1>1, <1>2 DEF SignInsInv, SignIn!GrantsAgreed
<1>8. RememberingAgreed' /\ SignIn!LoneSignInKeepsTokens'
      BY <1>1, <1>2 DEF RememberingAgreed, SignIn!LoneSignInKeepsTokens
<1> QED BY <1>3, <1>4, <1>5, <1>6, <1>7, <1>8 DEF SignInsInv

LEMMA SignInsStep == SignInsInv /\ [SignIn!Next]_(SignIn!vars) => SignInsInv'
<1> SUFFICES ASSUME SignInsInv, [SignIn!Next]_(SignIn!vars) PROVE SignInsInv'
    OBVIOUS
<1>1. verifiers \subseteq SignIns /\ asking \subseteq SignIns /\ consents \subseteq agreed
      BY DEF SignInsInv, SignIn!TypeOK
<1>2. ASSUME NEW s \in SignIns, SignIn!Start(s) PROVE SignInsInv'
      BY <1>1, <1>2, EarlyStep DEF SignIn!Start, SignIn!pending
<1>3. ASSUME NEW s \in SignIns, SignIn!StartUpstreamLogin(s) PROVE SignInsInv'
      BY <1>1, <1>3, EarlyStep DEF SignIn!StartUpstreamLogin
<1>4. ASSUME NEW s \in SignIns, NEW code \in BOOLEAN, SignIn!Callback(s, code)
      PROVE SignInsInv'
      BY <1>1, <1>4, EarlyStep DEF SignIn!Callback, SignIn!Deny
<1>5. ASSUME NEW s \in SignIns, NEW refused \in BOOLEAN, SignIn!ExchangeFails(s, refused)
      PROVE SignInsInv'
      BY <1>1, <1>5, EarlyStep DEF SignIn!ExchangeFails, SignIn!Deny
<1>6. ASSUME NEW s \in SignIns, SignIn!Abort(s) PROVE SignInsInv'
  <2>1. consents' \subseteq agreed BY <1>6, OvertakenConsent DEF SignIn!Abort
  <2> QED BY <1>1, <1>6, <2>1, EarlyStep
          DEF SignIn!Abort, SignIn!Overtake, SignIn!Deny, SignIn!pending
<1>7. ASSUME NEW s \in SignIns, SignIn!SkipConsent(s) PROVE SignInsInv'
  <2>1. client[s] \in Trusted \/ <<user[s], client[s]>> \in agreed
        BY <1>7 DEF SignIn!SkipConsent, SignIn!Remembered, SignInsInv, SignIn!TypeOK
  <2>2. agreed' = agreed /\ agreed \subseteq SignIn!Keys
        BY <1>7 DEF SignIn!SkipConsent, SignInsInv, SignIn!TypeOK
  <2> QED BY <1>7, <2>1, <2>2, TakeKeeps DEF SignIn!SkipConsent
<1>8. ASSUME NEW s \in SignIns, SignIn!Confirm(s) PROVE SignInsInv'
  <2>1. <<user[s], client[s]>> \in SignIn!Keys
        BY <1>8 DEF SignIn!Confirm, SignInsInv, GrantsMatchSteps, SignIn!TypeOK, SignIn!Keys
  <2>2. /\ agreed' = agreed \cup {<<user[s], client[s]>>} /\ agreed' \subseteq SignIn!Keys
        BY <1>8, <2>1 DEF SignIn!Confirm, SignInsInv, SignIn!TypeOK
  <2> QED BY <1>8, <2>2, TakeKeeps DEF SignIn!Confirm
<1>9. ASSUME NEW s \in SignIns, SignIn!AnswerAgain(s) PROVE SignInsInv'
      BY <1>9, AnswerAgainKeeps
<1>10. CASE UNCHANGED SignIn!vars
  <2> USE <1>10 DEF SignIn!vars, SignIn!pending
  <2>1. SignIn!TypeOK' BY DEF SignInsInv, SignIn!TypeOK
  <2>2. TokensOwn' BY DEF SignInsInv, TokensOwn, SignIn!pendingKey, SignIn!KeyOf
  <2>3. SignIn!GrantsOwnTokens' BY DEF SignInsInv, SignIn!GrantsOwnTokens
  <2>4. GrantsMatchSteps' BY DEF SignInsInv, GrantsMatchSteps
  <2>5. SignIn!GrantsAgreed' BY DEF SignInsInv, SignIn!GrantsAgreed
  <2>6. RememberingAgreed' BY DEF SignInsInv, RememberingAgreed
  <2>7. SignIn!LoneSignInKeepsTokens'
        BY DEF SignInsInv, SignIn!LoneSignInKeepsTokens, SignIn!pendingKey, SignIn!KeyOf
  <2> QED BY <2>1, <2>2, <2>3, <2>4, <2>5, <2>6, <2>7 DEF SignInsInv
<1> QED BY <1>2, <1>3, <1>4, <1>5, <1>6, <1>7, <1>8, <1>9, <1>10, ExchangedKeeps, WriteKeeps,
           ExpireKeeps, SignInRestartKeeps DEF SignIn!Next

\* The other parts leave its state alone.
LEMMA SignInsSteps == [Next]_vars => [SignIn!Next]_(SignIn!vars)
BY DEF Next, RecordsNext, SignInNext, DocumentsNext, vars, signIns, SignIn!vars,
       SignIn!pending

LEMMA SignInsHold == Spec => []SignInsInv
<1>1. Init => SignInsInv BY SignInsInit DEF Init
<1>2. SignInsInv /\ [Next]_vars => SignInsInv' BY SignInsSteps, SignInsStep
<1> QED BY <1>1, <1>2, PTL DEF Spec

\* No grant has the tokens of another user, client or grant, nor one that nobody
\* agreed to, whatever sign-ins overlap.
THEOREM NoGrantUnjustified == Spec => [](SignIn!TypeOK /\ GrantsJustified)
<1>1. SignInsInv => SignIn!TypeOK /\ GrantsJustified
      BY DEF SignInsInv, GrantsJustified, SignIn!GrantsJustified
<1> QED BY <1>1, SignInsHold, PTL

\* A sign-in nothing came between finds its tokens when its user consents.
THEOREM TokensFound == Spec => []LoneSignInKeepsTokens
<1>1. SignInsInv => LoneSignInKeepsTokens BY DEF SignInsInv, LoneSignInKeepsTokens
<1> QED BY <1>1, SignInsHold, PTL

-----------------------------------------------------------------------------
(* The documents.  The invariant adds to the bound on the copy why it holds: what *)
(* the provider keeps of a client that was not resolved from the copy, and what a *)
(* token request under way is granted from, is from a time the host answered at   *)
(* most CacheAge ago.                                                             *)

Stages == {"fetching", "falling", "granting"}

Times ==
    /\ now \in Nat /\ now <= MaxNow
    /\ copy \in Nat \cup {None}
    /\ copy # None => copy <= now /\ copy <= lastUp + CacheAge + MaxLatency
    /\ cached \in Nat /\ cached <= now + CacheAge
    /\ lastUp \in Nat /\ lastUp <= now

Requested == request \in [Requests -> [at: Stages, since: Nat] \cup {None}]

InTime == \A r \in Requests : request[r] # None =>
             request[r].since <= now /\ now <= request[r].since + MaxLatency

\* The client resolved from a fetch is kept no longer than its document allows.
CacheFresh == stale \/ cached <= lastUp + CacheAge

\* A token is issued from such a client, if from before the outage.
GrantFresh == \A r \in Requests : Documents!At(r, "granting") =>
                 stale \/ request[r].since <= lastUp + CacheAge

Flags == host \in Documents!Hosts /\ stale \in BOOLEAN

DocumentsInv == Times /\ Requested /\ InTime /\ CacheFresh /\ GrantFresh

LEMMA Numbers ==
  /\ CacheAge \in Nat /\ STALE_MAX_AGE \in Nat /\ LAST_GOOD_TTL \in Nat
  /\ MaxLatency \in Nat /\ MaxNow \in Nat
  /\ STALE_MAX_AGE <= CacheAge
  /\ None \notin Nat
BY PartsAssumption DEF Documents!CimdAssumption

LEMMA GoesThere ==
  ASSUME NEW r \in Requests, NEW at \in Stages, NEW since \in Nat, Requested,
         Documents!Goes(r, at, since)
  PROVE  /\ Requested'
         /\ request'[r] = [at |-> at, since |-> since]
         /\ \A q \in Requests \ {r} : request'[q] = request[q]
<1> DEFINE R == [at |-> at, since |-> since]
<1>1. R \in [at: Stages, since: Nat] OBVIOUS
<1>2. request' = [request EXCEPT ![r] = R] BY DEF Documents!Goes
<1> HIDE DEF R
<1>3. Requested' BY <1>1, <1>2 DEF Requested
<1>4. request'[r] = R /\ \A q \in Requests \ {r} : request'[q] = request[q]
      BY <1>2 DEF Requested
<1> QED BY <1>3, <1>4 DEF R

LEMMA EndsThere ==
  ASSUME NEW r \in Requests, Requested, Documents!Ends(r)
  PROVE  /\ Requested' /\ request'[r] = None
         /\ \A q \in Requests \ {r} : request'[q] = request[q]
BY DEF Documents!Ends, Requested

LEMMA DocumentsInit == Documents!Init => DocumentsInv
<1> SUFFICES ASSUME Documents!Init PROVE DocumentsInv
    OBVIOUS
<1>1. request \in [Requests -> [at: Stages, since: Nat] \cup {None}] /\ copy = None
    BY Zenon DEF Documents!Init
<1>2. now = 0 /\ host = "up" /\ cached = 0 /\ lastUp = 0
    BY DEF Documents!Init
<1>3. \A r \in Requests : request[r] = None
    BY DEF Documents!Init
<1> QED BY Numbers, <1>1, <1>2, <1>3
        DEF DocumentsInv, Times, Requested, InTime, CacheFresh, GrantFresh, Documents!At

LEMMA BeginKeeps ==
  ASSUME DocumentsInv, NEW r \in Requests, Documents!Begin(r)
  PROVE DocumentsInv'
<1>1. PICK at \in Stages : Documents!Goes(r, at, now) /\ (at = "granting" => cached > now)
  <2>1. CASE cached > now
        BY <2>1 DEF Documents!Begin, Stages
  <2>2. CASE ~(cached > now)
        BY <2>2 DEF Documents!Begin, Stages
  <2> QED BY <2>1, <2>2
<1>2. now \in Nat BY DEF DocumentsInv, Times
<1>3. /\ Requested' /\ request'[r] = [at |-> at, since |-> now]
      /\ \A q \in Requests \ {r} : request'[q] = request[q]
      BY <1>1, <1>2, GoesThere DEF DocumentsInv
<1>4. UNCHANGED <<now, host, copy, stale, cached, lastUp>> BY DEF Documents!Begin
<1>5. Times' BY <1>4 DEF DocumentsInv, Times
<1>6. CacheFresh' BY <1>4 DEF DocumentsInv, CacheFresh
<1>7. InTime'
  <2>1. now <= now + MaxLatency BY <1>2, Numbers
  <2>2. request'[r].since = now BY <1>3
  <2> QED BY <1>2, <1>3, <1>4, <2>1, <2>2 DEF DocumentsInv, InTime
<1>8. GrantFresh'
  <2>1. at = "granting" => stale \/ now <= lastUp + CacheAge
        BY <1>1, <1>2, Numbers DEF DocumentsInv, CacheFresh, Times
  <2> QED BY <1>3, <1>4, <2>1 DEF DocumentsInv, GrantFresh, Documents!At
<1> QED BY <1>3, <1>5, <1>6, <1>7, <1>8 DEF DocumentsInv

\* A request that goes on keeps the time it began at.
LEMMA MovesOn ==
  ASSUME DocumentsInv, NEW r \in Requests, request[r] # None, NEW at \in Stages,
         Documents!Goes(r, at, request[r].since), UNCHANGED now
  PROVE  Requested' /\ InTime' /\ request'[r] = [at |-> at, since |-> request[r].since]
         /\ \A q \in Requests \ {r} : request'[q] = request[q]
<1>1. request[r].since \in Nat BY DEF DocumentsInv, Requested
<1>2. /\ Requested' /\ request'[r] = [at |-> at, since |-> request[r].since]
      /\ \A q \in Requests \ {r} : request'[q] = request[q]
      BY <1>1, GoesThere DEF DocumentsInv
<1> QED BY <1>1, <1>2 DEF DocumentsInv, InTime

LEMMA EndsKeeps ==
  ASSUME DocumentsInv, NEW r \in Requests, Documents!Ends(r), UNCHANGED <<now, stale, lastUp>>
  PROVE  Requested' /\ InTime' /\ GrantFresh'
<1>1. /\ Requested' /\ request'[r] = None
      /\ \A q \in Requests \ {r} : request'[q] = request[q]
      BY EndsThere DEF DocumentsInv
<1> QED BY <1>1 DEF DocumentsInv, InTime, GrantFresh, Documents!At

LEMMA FetchedKeeps ==
  ASSUME DocumentsInv, NEW r \in Requests, Documents!Fetched(r)
  PROVE DocumentsInv'
<1>1. CASE host = "up"
  <2>1. /\ stale' = FALSE /\ cached' = now + CacheAge /\ lastUp' = now
        /\ Documents!Goes(r, "granting", request[r].since) /\ UNCHANGED <<now, copy>>
        /\ request[r] # None
        BY <1>1 DEF Documents!Fetched, Documents!At
  <2>2. /\ Requested' /\ InTime' /\ request'[r] = [at |-> "granting", since |-> request[r].since]
        /\ \A q \in Requests \ {r} : request'[q] = request[q]
        BY <2>1, MovesOn DEF Stages
  <2>3. Times' BY <2>1, Numbers DEF DocumentsInv, Times
  <2>4. CacheFresh' BY <2>1, Numbers DEF DocumentsInv, CacheFresh, Times
  <2>5. GrantFresh'
    <3>1. \A q \in Requests : request'[q] # None => request'[q].since \in Nat /\ request'[q].since <= now
          BY <2>1, <2>2 DEF InTime, Requested
    <3>2. now \in Nat BY DEF DocumentsInv, Times
    <3>3. \A t \in Nat : t <= now => t <= now + CacheAge BY <3>2, Numbers
    <3> QED BY <3>1, <3>3, <2>1 DEF GrantFresh, Documents!At
  <2> QED BY <2>2, <2>3, <2>4, <2>5 DEF DocumentsInv
<1>2. CASE host = "down"
  <2>1. /\ Documents!Goes(r, "falling", request[r].since)
        /\ UNCHANGED <<now, copy, stale, cached, lastUp>> /\ request[r] # None
        BY <1>2 DEF Documents!Fetched, Documents!At
  <2>2. /\ Requested' /\ InTime'
        /\ request'[r] = [at |-> "falling", since |-> request[r].since]
        /\ \A q \in Requests \ {r} : request'[q] = request[q]
        BY <2>1, MovesOn DEF Stages
  <2>3. Times' /\ CacheFresh' BY <2>1 DEF DocumentsInv, Times, CacheFresh
  <2>4. GrantFresh' BY <2>1, <2>2 DEF DocumentsInv, GrantFresh, Documents!At
  <2> QED BY <2>2, <2>3, <2>4 DEF DocumentsInv
<1>3. CASE host = "gone"
  <2>1. Documents!Ends(r) /\ UNCHANGED <<now, copy, stale, cached, lastUp>>
        BY <1>3 DEF Documents!Fetched
  <2>2. Times' /\ CacheFresh' BY <2>1 DEF DocumentsInv, Times, CacheFresh
  <2> QED BY <2>1, <2>2, EndsKeeps DEF DocumentsInv
<1> QED BY <1>1, <1>2, <1>3 DEF Documents!Fetched

LEMMA FallBackKeeps ==
  ASSUME DocumentsInv, NEW r \in Requests, Documents!FallBack(r)
  PROVE DocumentsInv'
<1>1. CASE copy # None /\ Documents!KeptUntil(copy) > now
  <2>1. /\ stale' = TRUE /\ cached' = now + STALE_MAX_AGE
        /\ Documents!Goes(r, "granting", request[r].since)
        /\ UNCHANGED <<now, copy, lastUp>> /\ request[r] # None
        BY <1>1 DEF Documents!FallBack, Documents!At
  <2>2. Requested' /\ InTime' BY <2>1, MovesOn DEF Stages
  <2>3. Times' BY <2>1, Numbers DEF DocumentsInv, Times
  <2>4. CacheFresh' /\ GrantFresh' BY <2>1 DEF CacheFresh, GrantFresh
  <2> QED BY <2>2, <2>3, <2>4 DEF DocumentsInv
<1>2. CASE ~(copy # None /\ Documents!KeptUntil(copy) > now)
  <2>1. Documents!Ends(r) /\ UNCHANGED <<now, copy, stale, cached, lastUp>>
        BY <1>2 DEF Documents!FallBack
  <2>2. Times' /\ CacheFresh' BY <2>1 DEF DocumentsInv, Times, CacheFresh
  <2> QED BY <2>1, <2>2, EndsKeeps DEF DocumentsInv
<1> QED BY <1>1, <1>2

LEMMA ReadFailsKeeps ==
  ASSUME DocumentsInv, NEW r \in Requests, Documents!ReadFails(r)
  PROVE DocumentsInv'
<1>1. Documents!Ends(r) /\ UNCHANGED <<now, copy, stale, cached, lastUp>>
      BY DEF Documents!ReadFails
<1>2. Times' /\ CacheFresh' BY <1>1 DEF DocumentsInv, Times, CacheFresh
<1> QED BY <1>1, <1>2, EndsKeeps DEF DocumentsInv

\* What a token keeps is at most a request older than what it was issued from.
LEMMA GrantedKeeps ==
  ASSUME DocumentsInv, NEW r \in Requests, Documents!Granted(r)
  PROVE DocumentsInv'
<1>1. Documents!Ends(r) /\ UNCHANGED <<now, stale, cached, lastUp>> /\ Documents!At(r, "granting")
      BY DEF Documents!Granted
<1>2. CacheFresh' BY <1>1 DEF DocumentsInv, CacheFresh
<1>3. Times'
  <2>1. CASE stale
        BY <1>1, <2>1 DEF DocumentsInv, Times, Documents!Granted, Documents!MayKeep
  <2>2. CASE ~stale
    <3>1. request[r].since \in Nat BY <1>1 DEF DocumentsInv, Requested, Documents!At
    <3>2. /\ now <= request[r].since + MaxLatency
          /\ request[r].since <= lastUp + CacheAge
          BY <1>1, <2>2 DEF DocumentsInv, InTime, GrantFresh, Documents!At
    <3>3. copy' = copy \/ copy' = now BY DEF Documents!Granted
    <3> QED BY <1>1, <3>1, <3>2, <3>3, Numbers DEF DocumentsInv, Times
  <2> QED BY <2>1, <2>2
<1> QED BY <1>1, <1>2, <1>3, EndsKeeps DEF DocumentsInv

LEMMA TickKeeps == DocumentsInv /\ Documents!Tick => DocumentsInv'
<1> SUFFICES ASSUME DocumentsInv, Documents!Tick PROVE DocumentsInv'
    OBVIOUS
<1>1. UNCHANGED <<copy, stale, cached, request, lastUp>> /\ now' = now + 1 /\ now < MaxNow
      BY DEF Documents!Tick
<1>2. Requested' /\ CacheFresh' /\ GrantFresh'
      BY <1>1 DEF DocumentsInv, Requested, CacheFresh, GrantFresh, Documents!At
<1>3. Times' BY <1>1, Numbers DEF DocumentsInv, Times
<1>4. InTime'
  <2>1. \A r \in Requests : request[r] # None => request[r].since \in Nat
        BY DEF DocumentsInv, Requested
  <2> QED BY <1>1, <2>1 DEF Documents!Tick, DocumentsInv, InTime, Times
<1> QED BY <1>2, <1>3, <1>4 DEF DocumentsInv

LEMMA FlagsInit == Documents!Init => Flags
BY DEF Documents!Init, Flags, Documents!Hosts

LEMMA FlagsStep == Flags /\ [Documents!Next]_(Documents!vars) => Flags'
<1> SUFFICES ASSUME Flags, [Documents!Next]_(Documents!vars) PROVE Flags'
    OBVIOUS
<1>1. ASSUME NEW r \in Requests, Documents!Begin(r) \/ Documents!ReadFails(r) \/ Documents!Granted(r)
      PROVE Flags'
      BY <1>1 DEF Documents!Begin, Documents!ReadFails, Documents!Granted, Flags
<1>2. ASSUME NEW r \in Requests, Documents!Fetched(r) \/ Documents!FallBack(r) PROVE Flags'
  <2>1. stale' = stale \/ stale' = TRUE \/ stale' = FALSE
        BY <1>2 DEF Documents!Fetched, Documents!FallBack
  <2>2. host' = host BY <1>2 DEF Documents!Fetched, Documents!FallBack
  <2> QED BY <2>1, <2>2 DEF Flags
<1>3. CASE Documents!Tick \/ Documents!HostChanges \/ Documents!Restart
      BY <1>3
      DEF Documents!Tick, Documents!HostChanges, Documents!Restart, Flags, Documents!Hosts
<1>4. CASE UNCHANGED Documents!vars BY <1>4 DEF Documents!vars, Flags
<1> QED BY <1>1, <1>2, <1>3, <1>4 DEF Documents!Next

LEMMA DocumentsStep == DocumentsInv /\ [Documents!Next]_(Documents!vars) => DocumentsInv'
<1> SUFFICES ASSUME DocumentsInv, [Documents!Next]_(Documents!vars) PROVE DocumentsInv'
    OBVIOUS
<1>1. CASE Documents!HostChanges
      BY <1>1
      DEF Documents!HostChanges, DocumentsInv, Times, Requested, InTime, CacheFresh,
          GrantFresh, Documents!At
<1>2. CASE Documents!Restart
  <2>1. Requested' BY <1>2 DEF Documents!Restart, Requested
  <2>2. \A r \in Requests : request'[r] = None BY <1>2 DEF Documents!Restart
  <2>3. stale' = FALSE /\ cached' = 0 /\ UNCHANGED <<now, copy, lastUp>>
        BY <1>2 DEF Documents!Restart
  <2>4. Times' /\ CacheFresh' BY <2>3, Numbers DEF DocumentsInv, Times, CacheFresh
  <2>5. InTime' /\ GrantFresh' BY <2>2 DEF InTime, GrantFresh, Documents!At
  <2> QED BY <2>1, <2>4, <2>5 DEF DocumentsInv
<1>3. CASE UNCHANGED Documents!vars
      BY <1>3
      DEF Documents!vars, DocumentsInv, Times, Requested, InTime, CacheFresh, GrantFresh,
          Documents!At
<1> QED BY <1>1, <1>2, <1>3, BeginKeeps, FetchedKeeps, FallBackKeeps, ReadFailsKeeps,
           GrantedKeeps, TickKeeps DEF Documents!Next

\* The other parts leave its state alone.
LEMMA DocumentsSteps == [Next]_vars => [Documents!Next]_(Documents!vars)
BY DEF Next, RecordsNext, SignInNext, DocumentsNext, vars, documents, Documents!vars

\* The copy is kept as of a time the host had answered shortly before, whatever
\* requests overlap, and whenever the host fails or the process starts again.
THEOREM CopyNotRenewed == Spec => [](Documents!TypeOK /\ OutageEnds)
<1>1. DocumentsInv /\ Flags => Documents!TypeOK /\ OutageEnds
  <2> SUFFICES ASSUME DocumentsInv, Flags PROVE Documents!TypeOK /\ OutageEnds
      OBVIOUS
  <2>1. OutageEnds BY DEF DocumentsInv, Times, OutageEnds, Documents!OutageEnds
  <2>2. request \in [Requests -> [at: {"fetching", "falling", "granting"},
                                  since: 0 .. now] \cup {None}]
    <3>1. \A r \in Requests : request[r] # None =>
              request[r] \in [at: Stages, since: Nat] /\ request[r].since \in 0 .. now
          BY DEF DocumentsInv, Requested, InTime, Times
    <3>2. \A r \in Requests : request[r] # None =>
              request[r] \in [at: Stages, since: 0 .. now]
          BY <3>1
    <3> QED BY <3>2 DEF DocumentsInv, Requested, Stages
  <2>3. /\ now \in 0 .. MaxNow /\ copy \in 0 .. now \cup {None}
        /\ cached \in 0 .. now + CacheAge /\ lastUp \in 0 .. now
        BY Numbers DEF DocumentsInv, Times
  <2> QED BY <2>1, <2>2, <2>3 DEF Documents!TypeOK, Flags
<1>2. Init => DocumentsInv /\ Flags BY DocumentsInit, FlagsInit DEF Init
<1>3. DocumentsInv /\ Flags /\ [Next]_vars => (DocumentsInv /\ Flags)'
      BY DocumentsSteps, DocumentsStep, FlagsStep
<1> QED BY <1>1, <1>2, <1>3, PTL DEF Spec
=============================================================================
