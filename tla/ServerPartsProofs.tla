--------------------------- MODULE ServerPartsProofs ---------------------------
(* Proofs about the state files, the customizations, the start and end of the  *)
(* process and the assembly of its tools.  Each part's invariant is kept by     *)
(* its own steps and left alone by those of the others.                         *)
EXTENDS MCServerParts, Sequences, TLAPS

-----------------------------------------------------------------------------
(* The state files.  A process that sweeps owns the lock file, unless another   *)
(* removed it meanwhile: of two such processes only one can be its owner.       *)

HoldersOwn ==
    \A p \in Processes \ evicted : Files!Holding(p) => lock # None /\ lock.of = p

FilesInv == Files!TypeOK /\ HoldersOwn /\ Files!LiveEntryKept

LEMMA FilesNone ==
  /\ None \notin Processes /\ None \notin Files!Lock /\ None \notin Files!Sweep
  /\ None # "live" /\ None # "expired"
BY PartsAssumption DEF Files!StateFilesAssumption

LEMMA FilesInit == Files!Init => FilesInv
BY FilesNone, PartsAssumption
   DEF Files!Init, FilesInv, Files!TypeOK, HoldersOwn, Files!LiveEntryKept, Files!Holding,
       Files!Sweeping, Files!At, Files!StateFilesAssumption

\* A step of the sweep in p, which then waits at one of these places or has stopped.
Moves(p, places) ==
    /\ sweep' \in [Processes -> Files!Sweep \cup {None}]
    /\ sweep'[p] = None \/ sweep'[p].at \in places
    /\ \A q \in Processes : q # p => sweep'[q] = sweep[q]

LEMMA GoesMoves ==
  ASSUME Files!TypeOK, NEW p \in Processes, NEW at, NEW todo,
         [at |-> at, todo |-> todo] \in Files!Sweep, Files!Goes(p, at, todo)
  PROVE  Moves(p, {at}) /\ sweep'[p] # None
<1> DEFINE s == [at |-> at, todo |-> todo]
<1>1. sweep \in [Processes -> Files!Sweep \cup {None}] BY DEF Files!TypeOK
<1>2. sweep' = [sweep EXCEPT ![p] = s] /\ s \in Files!Sweep /\ s.at = at BY DEF Files!Goes
<1> HIDE DEF s
<1> QED BY <1>1, <1>2, FilesNone DEF Moves

LEMMA Places ==
  /\ \A at \in {"locking", "locked", "reading", "removing", "retrying", "sweeping", "unlinking"} :
        [at |-> at, todo |-> FALSE] \in Files!Sweep
  /\ \A todo \in BOOLEAN : [at |-> "sweeping", todo |-> todo] \in Files!Sweep
BY DEF Files!Sweep

LEMMA StopsMoves ==
  ASSUME Files!TypeOK, NEW p \in Processes, Files!Stops(p)
  PROVE  Moves(p, {}) /\ sweep'[p] = None
BY DEF Files!TypeOK, Files!Stops, Moves

\* A process that creates the lock owns it, and nobody held one.
LEMMA Creates ==
  ASSUME FilesInv, NEW p \in Processes, lock = None,
         lock' = [of |-> p, says |-> "nothing"], Files!Goes(p, "locking", FALSE),
         scope' = scope, evicted' = evicted, spared' = spared, overtaken' = overtaken,
         crashes' = crashes
  PROVE  FilesInv'
<1> USE DEF Moves
<1>1. lock' \in Files!Lock /\ lock' # None BY FilesNone DEF Files!Lock
<1>2. Moves(p, {"locking"}) /\ sweep'[p] # None BY GoesMoves, Places DEF FilesInv
<1>3. Files!TypeOK' BY <1>1, <1>2 DEF FilesInv, Files!TypeOK
<1>4. HoldersOwn'
      BY <1>1, <1>2 DEF FilesInv, HoldersOwn, Files!Holding, Files!Sweeping, Files!At
<1>5. Files!LiveEntryKept'
      BY <1>2 DEF FilesInv, Files!LiveEntryKept, Files!At
<1> QED BY <1>3, <1>4, <1>5 DEF FilesInv

\* A step after which p holds no lock, and the lock is as it was.
LEMMA Leaves ==
  ASSUME FilesInv, NEW p \in Processes,
         Moves(p, {"reading", "removing"}),
         lock' = lock, scope' = scope, evicted' \in {evicted, evicted \ {p}},
         spared' \in {spared, spared \ {p}},
         overtaken' \in {overtaken, overtaken \ {p}}, crashes' \in 0 .. MaxCrashes
  PROVE  FilesInv'
<1> USE DEF Moves
<1>1. Files!TypeOK' BY DEF FilesInv, Files!TypeOK
<1>2. ~Files!Holding(p)' BY DEF Files!Holding, Files!Sweeping, Files!At
<1>3. HoldersOwn'
      BY <1>2 DEF FilesInv, HoldersOwn, Files!Holding, Files!Sweeping, Files!At
<1>4. Files!LiveEntryKept' BY DEF FilesInv, Files!LiveEntryKept, Files!At
<1> QED BY <1>1, <1>3, <1>4 DEF FilesInv

\* The lock is removed by a process that does not hold it afterwards: another that
\* did is evicted.
LEMMA Removes ==
  ASSUME FilesInv, NEW p \in Processes, Files!RemoveLock(p),
         Moves(p, {"retrying"}), scope' = scope, spared' \in {spared, spared \ {p}},
         overtaken' = overtaken, crashes' = crashes
  PROVE  FilesInv'
<1> USE DEF Moves
<1>1. Files!TypeOK' BY DEF FilesInv, Files!TypeOK, Files!RemoveLock, Files!Evicted
<1>2. ~Files!Holding(p)' BY DEF Files!Holding, Files!Sweeping, Files!At
<1>3. \A q \in Processes : q # p => Files!Holding(q)' = Files!Holding(q)
      BY DEF Files!Holding, Files!Sweeping, Files!At
<1>4. HoldersOwn'
      BY <1>2, <1>3 DEF FilesInv, HoldersOwn, Files!RemoveLock, Files!Evicted
<1>5. Files!LiveEntryKept' BY DEF FilesInv, Files!LiveEntryKept, Files!At
<1> QED BY <1>1, <1>4, <1>5 DEF FilesInv

\* A step of a sweep under way, which holds the lock before and after.
LEMMA SweepsOn ==
  ASSUME FilesInv, NEW p \in Processes, Files!Holding(p),
         Moves(p, {"locked", "sweeping", "unlinking"}), sweep'[p] # None,
         sweep'[p].at = "unlinking" => scope' # "live",
         lock' \in Files!Lock \cup {None}, lock # None => lock' # None /\ lock'.of = lock.of,
         scope' \in {scope, None}, evicted' = evicted, spared' \in {spared, {}},
         overtaken' \in {overtaken, overtaken \ {p}}, crashes' = crashes
  PROVE  FilesInv'
<1> USE DEF Moves
<1>1. Files!TypeOK' BY DEF FilesInv, Files!TypeOK
<1>2. HoldersOwn'
      BY DEF FilesInv, HoldersOwn, Files!Holding, Files!Sweeping, Files!At
<1>3. Files!LiveEntryKept' BY FilesNone DEF FilesInv, Files!LiveEntryKept, Files!At
<1> QED BY <1>1, <1>2, <1>3 DEF FilesInv

LEMMA FilesKept ==
  ASSUME FilesInv, Files!Next PROVE FilesInv'
<1> USE DEF FilesInv
<1>1. ASSUME NEW p \in Processes, Files!AcquireLock(p) PROVE FilesInv'
  <2>1. CASE lock = None
        BY <1>1, <2>1, Creates DEF Files!AcquireLock, Files!MayCreate
  <2>2. CASE lock # None
    <3>1. /\ lock' = lock /\ scope' = scope /\ evicted' = evicted /\ spared' = spared
        /\ overtaken' = overtaken
          /\ crashes' = crashes /\ Files!Goes(p, "reading", FALSE)
          BY <1>1, <2>2 DEF Files!AcquireLock, Files!MayCreate
    <3>2. Moves(p, {"reading", "removing"}) BY <3>1, GoesMoves, Places DEF Moves
    <3> QED BY <3>1, <3>2, Leaves DEF Files!TypeOK
  <2> QED BY <2>1, <2>2
<1>2. ASSUME NEW p \in Processes, Files!WriteLock(p) PROVE FilesInv'
  <2>1. /\ Files!Holding(p) /\ Files!Goes(p, "locked", FALSE)
        /\ scope' = scope /\ evicted' = evicted /\ spared' = spared /\ overtaken' = overtaken
        /\ crashes' = crashes
        BY <1>2 DEF Files!WriteLock, Files!Holding
  <2>2. /\ lock' \in Files!Lock \cup {None}
        /\ lock # None => lock' # None /\ lock'.of = lock.of
        BY <1>2, FilesNone DEF Files!WriteLock, Files!TypeOK, Files!Lock
  <2>3. Moves(p, {"locked"}) /\ sweep'[p] # None BY <2>1, Places, GoesMoves
  <2> QED BY <2>1, <2>2, <2>3, SweepsOn DEF Moves
<1>3. ASSUME NEW p \in Processes, Files!ReadLock(p) PROVE FilesInv'
  <2>1. /\ lock' = lock /\ scope' = scope /\ evicted' = evicted /\ spared' = spared
        /\ overtaken' = overtaken
        /\ crashes' = crashes
        /\ Files!Goes(p, "removing", FALSE) \/ Files!Stops(p)
        BY <1>3 DEF Files!ReadLock
  <2>2. Moves(p, {"reading", "removing"}) BY <2>1, GoesMoves, StopsMoves, Places DEF Moves
  <2> QED BY <2>1, <2>2, Leaves DEF Files!TypeOK
<1>4. ASSUME NEW p \in Processes, Files!TakeOver(p) PROVE FilesInv'
  <2>1. Moves(p, {"retrying"}) BY <1>4, GoesMoves, Places DEF Files!TakeOver
  <2> QED BY <1>4, <2>1, Removes DEF Files!TakeOver
<1>5. ASSUME NEW p \in Processes, Files!Retry(p) PROVE FilesInv'
  <2>1. CASE lock = None
        BY <1>5, <2>1, Creates DEF Files!Retry
  <2>2. CASE lock # None
    <3>1. Moves(p, {"reading", "removing"})
          BY <1>5, <2>2, StopsMoves DEF Files!Retry, Moves
    <3> QED BY <1>5, <2>2, <3>1, Leaves DEF Files!Retry, Files!TypeOK
  <2> QED BY <2>1, <2>2
<1>6. ASSUME NEW p \in Processes, Files!SweepFile(p) PROVE FilesInv'
  <2>1. /\ Files!Holding(p) /\ scope' = scope /\ lock' = lock /\ evicted' = evicted
        /\ spared' = spared /\ overtaken' = overtaken /\ crashes' = crashes
        BY <1>6 DEF Files!SweepFile, Files!Holding, Files!Sweeping
  <2>2. /\ Moves(p, {"sweeping", "unlinking"}) /\ sweep'[p] # None
        /\ sweep'[p].at = "unlinking" => scope # "live"
    <3>1. CASE Files!Expired(p)
      <4>1. Files!Goes(p, "unlinking", FALSE) BY <1>6, <3>1 DEF Files!SweepFile
      <4>2. Moves(p, {"unlinking"}) /\ sweep'[p] # None BY <4>1, GoesMoves, Places
      <4>3. scope # "live" BY <3>1 DEF Files!Expired
      <4> QED BY <4>2, <4>3 DEF Moves
    <3>2. CASE ~Files!Expired(p)
      <4>1. Files!Goes(p, "sweeping", FALSE) BY <1>6, <3>2 DEF Files!SweepFile
      <4>2. Moves(p, {"sweeping"}) /\ sweep'[p] # None BY <4>1, GoesMoves, Places
      <4> QED BY <4>2 DEF Moves
    <3> QED BY <3>1, <3>2
  <2> QED BY <2>1, <2>2, SweepsOn DEF Files!TypeOK, Moves
<1>7. ASSUME NEW p \in Processes, Files!Unlink(p) PROVE FilesInv'
  <2>1. /\ Files!Holding(p) /\ Files!Goes(p, "sweeping", FALSE) /\ scope' = None
        /\ spared' = {} /\ overtaken' = overtaken \ {p} /\ lock' = lock /\ evicted' = evicted
        /\ crashes' = crashes
        BY <1>7 DEF Files!Unlink, Files!Holding, Files!Sweeping
  <2>2. Moves(p, {"sweeping"}) /\ sweep'[p] # None BY <2>1, GoesMoves, Places
  <2> QED BY <2>1, <2>2, FilesNone, SweepsOn DEF Files!TypeOK, Moves
<1>8. ASSUME NEW p \in Processes, Files!EndSweep(p) PROVE FilesInv'
  <2>1. Moves(p, {"retrying"}) BY <1>8, StopsMoves DEF Files!EndSweep, Moves
  <2> QED BY <1>8, <2>1, Removes DEF Files!EndSweep
<1>9. ASSUME NEW p \in Processes, Files!Crash(p) PROVE FilesInv'
  <2>1. crashes' \in 0 .. MaxCrashes
        BY <1>9, PartsAssumption DEF Files!Crash, Files!TypeOK, Files!StateFilesAssumption
  <2>2. Moves(p, {"reading", "removing"}) BY <1>9, StopsMoves DEF Files!Crash, Moves
  <2> QED BY <1>9, <2>1, <2>2, Leaves DEF Files!Crash
<1>10. CASE Files!Store
       BY <1>10 DEF Files!Store, Files!TypeOK, HoldersOwn, Files!LiveEntryKept, Files!Holding,
                    Files!Sweeping, Files!At
<1>11. CASE Files!Expires
       BY <1>11 DEF Files!Expires, Files!TypeOK, HoldersOwn, Files!LiveEntryKept, Files!Holding,
                    Files!Sweeping, Files!At
<1>12. CASE Files!LockAges
  <2>1. lock' \in Files!Lock /\ lock'.of = lock.of
        BY <1>12 DEF Files!LockAges, Files!TypeOK, Files!Lock
  <2> QED BY <1>12, <2>1, FilesNone
          DEF Files!LockAges, Files!TypeOK, HoldersOwn, Files!LiveEntryKept, Files!Holding,
              Files!Sweeping, Files!At
<1>13. ASSUME NEW p \in Processes, Files!Begin(p) PROVE FilesInv'
  <2>1. /\ Files!Holding(p) /\ Files!Goes(p, "sweeping", scope # None)
        /\ scope' = scope /\ lock' = lock /\ evicted' = evicted /\ spared' = spared
        /\ overtaken' = overtaken /\ crashes' = crashes
        BY <1>13 DEF Files!Begin, Files!Holding
  <2>2. (scope # None) \in BOOLEAN OBVIOUS
  <2>3. [at |-> "sweeping", todo |-> scope # None] \in Files!Sweep BY <2>2, Places
  <2>4. Moves(p, {"sweeping"}) /\ sweep'[p] # None BY <2>1, <2>3, GoesMoves
  <2> QED BY <2>1, <2>4, SweepsOn DEF Moves, Files!TypeOK
<1>14. ASSUME NEW p \in Processes, Files!WriteFails(p) PROVE FilesInv'
  <2>1. crashes' \in 0 .. MaxCrashes
        BY <1>14, PartsAssumption DEF Files!WriteFails, Files!TypeOK, Files!StateFilesAssumption
  <2>2. Moves(p, {"reading", "removing"}) BY <1>14, StopsMoves DEF Files!WriteFails, Moves
  <2> QED BY <1>14, <2>1, <2>2, Leaves DEF Files!WriteFails
<1> QED BY <1>1, <1>2, <1>3, <1>4, <1>5, <1>6, <1>7, <1>8, <1>9, <1>10, <1>11, <1>12,
           <1>13, <1>14
        DEF Files!Next, Files!Sweeps

LEMMA FilesAlone ==
  ASSUME FilesInv, UNCHANGED files PROVE FilesInv'
BY DEF FilesInv, files, Files!TypeOK, HoldersOwn, Files!LiveEntryKept, Files!Holding,
       Files!Sweeping, Files!At

LEMMA FilesInvariant == Spec => []FilesInv
<1>1. Init => FilesInv BY FilesInit DEF Init
<1>2. FilesInv /\ [Next]_vars => FilesInv'
  <2> SUFFICES ASSUME FilesInv, [Next]_vars PROVE FilesInv'
      OBVIOUS
  <2>1. CASE FilesNext BY <2>1, FilesKept DEF FilesNext
  <2>2. CASE UNCHANGED files BY <2>2, FilesAlone
  <2> QED BY <2>1, <2>2
          DEF Next, vars, OverlayNext, ProcessNext, ServerNext, OrderNext, Only
<1> QED BY <1>1, <1>2, PTL DEF Spec

\* One process sweeps at a time, those excepted whose lock was taken over, and none is
\* about to remove a live entry but one that judged it before it was written again
\* (acquireLock and sweepFile of state-store.ts), for any number of processes.
THEOREM SweepsKeptApart == Spec => []SweepsAreSafe
<1>1. FilesInv => SweepsAreSafe
      BY DEF FilesInv, HoldersOwn, Files!Holding, SweepsAreSafe, Files!SweepsAreSafe,
             Files!OneSweeps
<1> QED BY <1>1, FilesInvariant, PTL

-----------------------------------------------------------------------------
(* The start and the end of the process.  A process that ended cleanly either   *)
(* had nothing open when its shutdown began, or closed it.                       *)

\* What is open was opened by a start that has gone on.
OpenedByStart == opened => boot # "loading"

ProcessInv == Process!TypeOK /\ OpenedByStart /\ Process!CleanlyIsClosed

LEMMA ProcessNone ==
  /\ None # "start" /\ None # "closing" /\ None # "cleanly"
  /\ None # "forced" /\ None # "killed" /\ None # "failed"
BY PartsAssumption DEF Process!ShutdownAssumption

LEMMA ProcessInit == Process!Init => ProcessInv
BY ProcessNone
   DEF Process!Init, ProcessInv, Process!TypeOK, OpenedByStart, Process!CleanlyIsClosed

LEMMA ShutdownKeeps ==
  ASSUME ProcessInv, Process!Running, Process!shutdown PROVE ProcessInv'
BY ProcessNone
   DEF ProcessInv, Process!TypeOK, OpenedByStart, Process!CleanlyIsClosed, Process!Running,
       Process!shutdown, Process!StartSettled, Process!ArmedBefore

LEMMA ProcessKept ==
  ASSUME ProcessInv, Process!Next PROVE ProcessInv'
<1> USE ProcessNone
    DEF ProcessInv, Process!TypeOK, OpenedByStart, Process!CleanlyIsClosed, Process!Running
<1>1. CASE Process!Opens BY <1>1 DEF Process!Opens
<1>2. CASE Process!Ready BY <1>2 DEF Process!Ready
<1>3. CASE Process!StartFails BY <1>3 DEF Process!StartFails
<1>4. CASE Process!Signal BY <1>4, ShutdownKeeps DEF Process!Signal
<1>5. CASE Process!ClientLeaves BY <1>5 DEF Process!ClientLeaves
<1>6. CASE Process!InputEnds BY <1>6, ShutdownKeeps DEF Process!InputEnds
<1>7. CASE Process!CloseBegins BY <1>7 DEF Process!CloseBegins
<1>8. CASE Process!CloseEnds
  <2>1. CASE opened' = FALSE /\ ended' = "cleanly" BY <1>8, <2>1 DEF Process!CloseEnds
  <2>2. CASE opened' = opened /\ ended' = "failed" BY <1>8, <2>2 DEF Process!CloseEnds
  <2> QED BY <1>8, <2>1, <2>2 DEF Process!CloseEnds
<1>9. CASE Process!WatchdogFires BY <1>9 DEF Process!WatchdogFires
<1> QED BY <1>1, <1>2, <1>3, <1>4, <1>5, <1>6, <1>7, <1>8, <1>9 DEF Process!Next

LEMMA ProcessInvariant == Spec => []ProcessInv
<1>1. Init => ProcessInv BY ProcessInit DEF Init
<1>2. ProcessInv /\ [Next]_vars => ProcessInv'
  <2> SUFFICES ASSUME ProcessInv, [Next]_vars PROVE ProcessInv'
      OBVIOUS
  <2>1. CASE ProcessNext BY <2>1, ProcessKept DEF ProcessNext
  <2>2. CASE UNCHANGED process
        BY <2>2 DEF process, ProcessInv, Process!TypeOK, OpenedByStart, Process!CleanlyIsClosed
  <2> QED BY <2>1, <2>2
          DEF Next, vars, FilesNext, OverlayNext, ServerNext, OrderNext, Only
<1> QED BY <1>1, <1>2, PTL DEF Spec

\* A shutdown that ends by itself leaves nothing open, even one that a signal began
\* while the server was opening (runHttp of index.ts, installShutdown of shutdown.ts).
THEOREM CleanEnd == Spec => []CleanlyIsClosed
<1>1. ProcessInv => CleanlyIsClosed
      BY DEF ProcessInv, CleanlyIsClosed
<1> QED BY <1>1, ProcessInvariant, PTL

-----------------------------------------------------------------------------
(* The customizations.  An edit is planned on the memory, which is the disk      *)
(* unless a reload has failed; while it is applied, only its own files differ.   *)

\* The prompt and the skill of a name are not both there.
Clean(tree) == tree["prompt"] = Overlay!Absent \/ tree["entry"] = Overlay!Absent

\* What an edit is about to write does not clash with what is stored.
PlanSafe ==
    work # None /\ ~blind /\ work.at = "applying" /\ work.text # Overlay!Absent =>
        /\ "prompt" \in work.todo =>
              disk["entry"] = Overlay!Absent /\ "entry" \notin work.todo
        /\ "entry" \in work.todo =>
              disk["prompt"] = Overlay!Absent /\ "prompt" \notin work.todo

\* What the catalog and the servers are about to be given is what is stored.
ReloadCurrent == work # None /\ work.at = "reloading" => memory = disk /\ ~unread

OverlayInv ==
    Overlay!TypeOK /\ Overlay!ServedIsStored /\ Overlay!NoClash /\ PlanSafe /\ ReloadCurrent

LEMMA OverlayConstants ==
  MaxEdits \in Nat /\ MaxFaults \in Nat /\ None \notin Overlay!Work
BY PartsAssumption DEF Overlay!CustomizationsAssumption

LEMMA EmptyQueue == <<>> \in Seq(Overlay!Edit)
OBVIOUS

LEMMA OverlayTypes ==
  Overlay!TypeOK <=>
    /\ disk \in Overlay!Trees /\ memory \in Overlay!Trees
    /\ catalog \in Overlay!Trees /\ servers \in Overlay!Trees
    /\ queue \in Seq(Overlay!Edit) /\ work \in Overlay!Work \cup {None}
    /\ edits \in 0 .. MaxEdits /\ faults \in 0 .. MaxFaults
    /\ open \in BOOLEAN /\ unread \in BOOLEAN /\ blind \in BOOLEAN
BY DEF Overlay!TypeOK

LEMMA OverlayTypesNext ==
  Overlay!TypeOK' <=>
    /\ disk' \in Overlay!Trees /\ memory' \in Overlay!Trees
    /\ catalog' \in Overlay!Trees /\ servers' \in Overlay!Trees
    /\ queue' \in Seq(Overlay!Edit) /\ work' \in Overlay!Work \cup {None}
    /\ edits' \in 0 .. MaxEdits /\ faults' \in 0 .. MaxFaults
    /\ open' \in BOOLEAN /\ unread' \in BOOLEAN /\ blind' \in BOOLEAN
BY DEF Overlay!TypeOK

LEMMA OverlayInit == Overlay!Init => OverlayInv
<1> SUFFICES ASSUME Overlay!Init PROVE OverlayInv
    OBVIOUS
<1>1. disk \in Overlay!Trees /\ disk["prompt"] = 0
      BY OverlayConstants DEF Overlay!Init, Overlay!Trees, Overlay!Paths, Overlay!Absent
<1>2. /\ memory = disk /\ catalog = disk /\ servers = disk /\ queue = <<>> /\ work = None
      /\ open = TRUE /\ edits = 0 /\ faults = 0 /\ unread = FALSE /\ blind = FALSE
      BY DEF Overlay!Init
<1>3. Overlay!TypeOK
  <2>1. edits \in 0 .. MaxEdits /\ faults \in 0 .. MaxFaults BY <1>2, OverlayConstants
  <2>2. open \in BOOLEAN /\ unread \in BOOLEAN /\ blind \in BOOLEAN BY <1>2
  <2> QED BY <1>1, <1>2, <2>1, <2>2, EmptyQueue, OverlayTypes
<1>4. Overlay!ServedIsStored BY DEF Overlay!Init, Overlay!ServedIsStored
<1>5. Overlay!NoClash BY <1>1 DEF Overlay!NoClash, Overlay!Absent
<1>6. PlanSafe /\ ReloadCurrent BY DEF Overlay!Init, PlanSafe, ReloadCurrent
<1> QED BY <1>3, <1>4, <1>5, <1>6 DEF OverlayInv

\* The plan of an edit that is allowed: one that puts a file puts it where it does
\* not clash.
LEMMA PlanOfEdit ==
  ASSUME NEW tree \in Overlay!Trees, NEW kind \in Overlay!Kinds, Overlay!Allowed(tree, kind),
         NEW todo, todo = Overlay!planEdit(tree, kind)
  PROVE  /\ todo \subseteq Overlay!Paths
         /\ kind[2] = "put" /\ Clean(tree) =>
               /\ "prompt" \in todo => tree["entry"] = Overlay!Absent /\ "entry" \notin todo
               /\ "entry" \in todo => tree["prompt"] = Overlay!Absent /\ "prompt" \notin todo
<1> USE DEF Overlay!Paths
<1>1. kind[1] \in Overlay!Paths /\ kind[2] \in {"put", "delete"} /\ kind = <<kind[1], kind[2]>>
      BY DEF Overlay!Kinds
<1>2. todo \subseteq Overlay!Paths BY <1>1 DEF Overlay!planEdit
<1>3. CASE kind[2] = "put"
  <2>1. todo = {kind[1]} BY <1>1, <1>3 DEF Overlay!planEdit
  <2>2. CASE kind[1] = "prompt"
    <3>1. kind = <<"prompt", "put">> BY <1>1, <1>3, <2>2
    <3>2. ~Overlay!HasSkill(tree) BY <3>1 DEF Overlay!Allowed
    <3> QED BY <1>2, <2>1, <2>2, <3>2 DEF Overlay!HasSkill, Overlay!HasPrompt, Clean
  <2>3. CASE kind[1] = "entry"
    <3>1. kind = <<"entry", "put">> BY <1>1, <1>3, <2>3
    <3>2. ~Overlay!HasPrompt(tree) BY <3>1 DEF Overlay!Allowed
    <3> QED BY <1>2, <2>1, <2>3, <3>2 DEF Overlay!HasPrompt
  <2>4. CASE kind[1] = "file" BY <1>2, <2>1, <2>4
  <2> QED BY <1>1, <2>2, <2>3, <2>4
<1> QED BY <1>1, <1>2, <1>3

LEMMA BeginKeeps ==
  ASSUME OverlayInv, Overlay!Begin PROVE OverlayInv'
<1> DEFINE e == Head(queue)
<1>1. e \in Overlay!Edit /\ queue' \in Seq(Overlay!Edit)
      BY OverlayTypes DEF OverlayInv, Overlay!Begin
<1>2. e.kind \in Overlay!Kinds /\ e.n \in 1 .. MaxEdits BY <1>1 DEF Overlay!Edit
<1>3. /\ work = None /\ disk' = disk /\ memory' = memory /\ catalog' = catalog
      /\ servers' = servers /\ open' = open /\ edits' = edits /\ faults' = faults
      /\ unread' = unread
      BY DEF Overlay!Begin, Overlay!served, Overlay!counters
<1>4. CASE Overlay!Allowed(memory, e.kind)
  <2> DEFINE todo == Overlay!planEdit(memory, e.kind)
             text == IF e.kind[2] = "put" THEN e.n ELSE Overlay!Absent
  <2>1. /\ work' = [todo |-> todo, failed |-> FALSE, at |-> "applying", text |-> text]
        /\ blind' = (blind \/ unread)
        BY <1>4 DEF Overlay!Begin
  <2>2. /\ todo \subseteq Overlay!Paths
        /\ e.kind[2] = "put" /\ Clean(memory) =>
              /\ "prompt" \in todo => memory["entry"] = Overlay!Absent /\ "entry" \notin todo
              /\ "entry" \in todo => memory["prompt"] = Overlay!Absent /\ "prompt" \notin todo
        BY <1>2, <1>4, PlanOfEdit, OverlayTypes DEF OverlayInv
  <2>3. text \in 0 .. MaxEdits BY <1>2, OverlayConstants DEF Overlay!Absent
  <2> HIDE DEF todo, text
  <2>4. work' \in Overlay!Work /\ work' # None
    <3>1. todo \in SUBSET Overlay!Paths /\ FALSE \in BOOLEAN BY <2>2
    <3>2. [todo |-> todo, failed |-> FALSE, at |-> "applying", text |-> text] \in Overlay!Work
          BY <2>3, <3>1 DEF Overlay!Work
    <3> QED BY <2>1, <3>2, OverlayConstants
  <2>5. blind' \in BOOLEAN BY <2>1, OverlayTypes DEF OverlayInv
  <2>6. Overlay!TypeOK' BY <1>1, <1>3, <2>4, <2>5, OverlayTypes, OverlayTypesNext DEF OverlayInv
  <2>7. ~blind' => memory = disk /\ Clean(memory)
        BY <1>3, <2>1 DEF OverlayInv, Overlay!ServedIsStored, Overlay!NoClash, Clean
  <2>8. PlanSafe' /\ ReloadCurrent'
        BY <1>3, <2>1, <2>2, <2>7 DEF PlanSafe, ReloadCurrent, text, Overlay!Absent
  <2>9. Overlay!ServedIsStored' /\ Overlay!NoClash'
        BY <1>3, <2>1, <2>4 DEF OverlayInv, Overlay!ServedIsStored, Overlay!NoClash
  <2> QED BY <2>6, <2>8, <2>9 DEF OverlayInv
<1>5. CASE ~Overlay!Allowed(memory, e.kind)
  <2>1. work' = work /\ blind' = blind BY <1>5 DEF Overlay!Begin
  <2>2. Overlay!TypeOK' BY <1>1, <1>3, <2>1, OverlayTypes, OverlayTypesNext DEF OverlayInv
  <2> QED BY <1>3, <2>1, <2>2
          DEF OverlayInv, Overlay!ServedIsStored, Overlay!NoClash, PlanSafe, ReloadCurrent
<1> QED BY <1>4, <1>5

LEMMA ApplyKeeps ==
  ASSUME OverlayInv, NEW p \in Overlay!Paths, NEW ok \in BOOLEAN, Overlay!Apply(p, ok)
  PROVE  OverlayInv'
<1>1. /\ work \in Overlay!Work /\ work # None /\ work.at = "applying" /\ p \in work.todo
      /\ memory' = memory /\ catalog' = catalog /\ servers' = servers /\ queue' = queue
      /\ open' = open /\ edits' = edits /\ unread' = unread /\ blind' = blind
      /\ disk \in Overlay!Trees
      BY OverlayTypes DEF OverlayInv, Overlay!Apply, Overlay!served
<1>2. faults' \in 0 .. MaxFaults
      BY OverlayTypes, OverlayConstants DEF OverlayInv, Overlay!Apply, Overlay!Fault
<1>3. CASE ok
  <2>1. disk' = [disk EXCEPT ![p] = work.text] /\ work' = [work EXCEPT !.todo = @ \ {p}]
        BY <1>3 DEF Overlay!Apply
  <2>2. work' \in Overlay!Work BY <1>1, <2>1 DEF Overlay!Work
  <2>3. disk' \in Overlay!Trees BY <1>1, <2>1 DEF Overlay!Work, Overlay!Trees
  <2>4. Overlay!TypeOK'
        BY <1>1, <1>2, <2>2, <2>3, OverlayTypes, OverlayTypesNext DEF OverlayInv
  <2>5. Overlay!NoClash' /\ PlanSafe'
        BY <1>1, <2>1, <2>2, OverlayConstants
           DEF OverlayInv, Overlay!NoClash, PlanSafe, Overlay!Trees, Overlay!Paths, Overlay!Work
  <2>6. Overlay!ServedIsStored' /\ ReloadCurrent'
        BY <1>1, <2>1, <2>2, OverlayConstants
           DEF Overlay!ServedIsStored, ReloadCurrent, Overlay!Work
  <2> QED BY <2>4, <2>5, <2>6 DEF OverlayInv
<1>4. CASE ~ok
  <2>1. disk' = disk /\ work' = [work EXCEPT !.at = "loading", !.failed = TRUE]
        BY <1>4 DEF Overlay!Apply
  <2>2. work' \in Overlay!Work /\ work'.at = "loading" BY <1>1, <2>1 DEF Overlay!Work
  <2>3. Overlay!TypeOK'
        BY <1>1, <1>2, <2>1, <2>2, OverlayTypes, OverlayTypesNext DEF OverlayInv
  <2> QED BY <1>1, <2>1, <2>2, <2>3, OverlayConstants
          DEF OverlayInv, Overlay!ServedIsStored, Overlay!NoClash, PlanSafe, ReloadCurrent
<1> QED BY <1>3, <1>4

LEMMA LoadKeeps ==
  ASSUME OverlayInv, NEW ok \in BOOLEAN, Overlay!RecordAuthors(ok) \/ Overlay!Load(ok)
  PROVE  OverlayInv'
<1>1. CASE Overlay!RecordAuthors(ok)
  <2>1. /\ work \in Overlay!Work /\ work # None /\ disk' = disk /\ memory' = memory
        /\ catalog' = catalog /\ servers' = servers /\ queue' = queue
        /\ open' = open /\ edits' = edits /\ unread' = unread /\ blind' = blind
        /\ work' = [work EXCEPT !.at = "loading", !.failed = ~ok]
        BY <1>1, OverlayTypes DEF OverlayInv, Overlay!RecordAuthors, Overlay!served
  <2>2. faults' \in 0 .. MaxFaults
        BY <1>1, OverlayTypes, OverlayConstants
           DEF OverlayInv, Overlay!RecordAuthors, Overlay!Fault
  <2>3. work' \in Overlay!Work /\ work'.at = "loading" BY <2>1 DEF Overlay!Work
  <2>4. Overlay!TypeOK' BY <2>1, <2>2, <2>3, OverlayTypes, OverlayTypesNext DEF OverlayInv
  <2> QED BY <2>1, <2>3, <2>4, OverlayConstants
          DEF OverlayInv, Overlay!ServedIsStored, Overlay!NoClash, PlanSafe, ReloadCurrent
<1>2. CASE Overlay!Load(ok)
  <2>1. /\ work \in Overlay!Work /\ work # None /\ disk' = disk /\ catalog' = catalog
        /\ servers' = servers /\ queue' = queue /\ edits' = edits /\ blind' = blind
        /\ unread' = ~ok
        BY <1>2, OverlayTypes DEF OverlayInv, Overlay!Load
  <2>2. faults' \in 0 .. MaxFaults
        BY <1>2, OverlayTypes, OverlayConstants DEF OverlayInv, Overlay!Load, Overlay!Fault
  <2>3. CASE ok
    <3>1. memory' = disk /\ work' = [work EXCEPT !.at = "reloading"] /\ open' = open
          BY <1>2, <2>3 DEF Overlay!Load, Overlay!Loaded
    <3>2. work' \in Overlay!Work /\ work'.at = "reloading" BY <2>1, <3>1 DEF Overlay!Work
    <3>3. Overlay!TypeOK'
          BY <2>1, <2>2, <2>3, <3>1, <3>2, OverlayTypes, OverlayTypesNext DEF OverlayInv
    <3> QED BY <2>1, <2>3, <3>1, <3>2, <3>3, OverlayConstants
            DEF OverlayInv, Overlay!ServedIsStored, Overlay!NoClash, PlanSafe, ReloadCurrent
  <2>4. CASE ~ok
    <3>1. memory' = memory /\ work' = None /\ open' = TRUE
          BY <1>2, <2>4 DEF Overlay!Load, Overlay!Settled
    <3>2. Overlay!TypeOK'
          BY <2>1, <2>2, <2>4, <3>1, OverlayTypes, OverlayTypesNext DEF OverlayInv
    <3> QED BY <2>1, <2>4, <3>1, <3>2
            DEF OverlayInv, Overlay!ServedIsStored, Overlay!NoClash, PlanSafe, ReloadCurrent
  <2> QED BY <2>3, <2>4
<1> QED BY <1>1, <1>2

LEMMA OverlayKept ==
  ASSUME OverlayInv, Overlay!Next PROVE OverlayInv'
<1>1. ASSUME NEW kind \in Overlay!Kinds, Overlay!Ask(kind) PROVE OverlayInv'
  <2>1. /\ disk' = disk /\ memory' = memory /\ catalog' = catalog /\ servers' = servers
        /\ work' = work /\ open' = open /\ faults' = faults /\ unread' = unread
        /\ blind' = blind
        BY <1>1 DEF Overlay!Ask, Overlay!served
  <2>2. edits' \in 1 .. MaxEdits
        BY <1>1, OverlayTypes, OverlayConstants DEF OverlayInv, Overlay!Ask
  <2>3. queue' \in Seq(Overlay!Edit)
    <3>1. [kind |-> kind, n |-> edits'] \in Overlay!Edit BY <2>2 DEF Overlay!Edit
    <3> QED BY <1>1, <3>1, OverlayTypes DEF OverlayInv, Overlay!Ask
  <2>4. Overlay!TypeOK' BY <2>1, <2>2, <2>3, OverlayTypes, OverlayTypesNext DEF OverlayInv
  <2> QED BY <2>1, <2>4
          DEF OverlayInv, Overlay!ServedIsStored, Overlay!NoClash, PlanSafe, ReloadCurrent
<1>2. CASE Overlay!Begin BY <1>2, BeginKeeps
<1>3. CASE Overlay!Reload
  <2>1. /\ work # None /\ work.at = "reloading" /\ catalog' = memory /\ servers' = memory
        /\ work' = None /\ open' = TRUE /\ disk' = disk /\ memory' = memory /\ queue' = queue
        /\ edits' = edits /\ faults' = faults /\ unread' = unread /\ blind' = blind
        BY <1>3 DEF Overlay!Reload, Overlay!Settled, Overlay!counters
  <2>2. Overlay!TypeOK' BY <2>1, OverlayTypes, OverlayTypesNext DEF OverlayInv
  <2> QED BY <2>1, <2>2
          DEF OverlayInv, Overlay!ServedIsStored, Overlay!NoClash, PlanSafe, ReloadCurrent
<1>4. ASSUME NEW ok \in BOOLEAN, Overlay!RecordAuthors(ok) \/ Overlay!Load(ok)
      PROVE  OverlayInv'
      BY <1>4, LoadKeeps
<1>5. ASSUME NEW p \in Overlay!Paths, NEW ok \in BOOLEAN, Overlay!Apply(p, ok)
      PROVE  OverlayInv'
      BY <1>5, ApplyKeeps
<1>6. CASE Overlay!Restart
  <2>1. /\ memory' = disk /\ catalog' = disk /\ servers' = disk /\ queue' = <<>>
        /\ work' = None /\ open' = TRUE /\ unread' = FALSE /\ disk' = disk
        /\ edits' = edits /\ faults' = faults /\ blind' = blind
        BY <1>6 DEF Overlay!Restart, Overlay!counters
  <2>2. Overlay!TypeOK' BY <2>1, EmptyQueue, OverlayTypes, OverlayTypesNext DEF OverlayInv
  <2> QED BY <2>1, <2>2
          DEF OverlayInv, Overlay!ServedIsStored, Overlay!NoClash, PlanSafe, ReloadCurrent
<1> QED BY <1>1, <1>2, <1>3, <1>4, <1>5, <1>6 DEF Overlay!Next, Overlay!Steps

LEMMA OverlayInvariant == Spec => []OverlayInv
<1>1. Init => OverlayInv BY OverlayInit DEF Init
<1>2. OverlayInv /\ [Next]_vars => OverlayInv'
  <2> SUFFICES ASSUME OverlayInv, [Next]_vars PROVE OverlayInv'
      OBVIOUS
  <2>1. CASE OverlayNext BY <2>1, OverlayKept DEF OverlayNext
  <2>2. CASE UNCHANGED overlay
        BY <2>2 DEF overlay, OverlayInv, Overlay!TypeOK, Overlay!ServedIsStored,
                    Overlay!NoClash, PlanSafe, ReloadCurrent
  <2> QED BY <2>1, <2>2
          DEF Next, vars, FilesNext, ProcessNext, ServerNext, OrderNext, Only
<1> QED BY <1>1, <1>2, PTL DEF Spec

\* Between edits, one that failed half way included, the memory, the catalog and the
\* servers have what the tree has (apply and edit of customization/service.ts).
THEOREM StoredIsServed == Spec => []ServedIsStored
<1>1. OverlayInv => ServedIsStored BY DEF OverlayInv, ServedIsStored
<1> QED BY <1>1, OverlayInvariant, PTL

\* No prompt and skill of one name are ever stored together, in the middle of an edit
\* or after one that failed (planPrompt and planSkill of customization/model.ts).
THEOREM NamesKeptApart == Spec => []NoClash
<1>1. OverlayInv => NoClash BY DEF OverlayInv, NoClash
<1> QED BY <1>1, OverlayInvariant, PTL

-----------------------------------------------------------------------------
(* The tools a server exposes.  What is registered is one generation, cut by the *)
(* configuration; the lemmas are about how any generation is cut.                *)

AssemblyInv ==
    /\ config \in Server!Configs /\ current \in Server!Generations
    /\ registered = Server!Entries(current) /\ handles = registered
    /\ ~Server!Collides(current, {})

Part(gen) == Server!filterTools(gen)

Ops(gen, places) == {gen[i].name : i \in places}

\* What an entry has when it is cut from these places.
CutFrom(gen, e, places) ==
    /\ places \subseteq Part(gen) /\ e.ops = Ops(gen, places)
    /\ e.hint <=> \A i \in places : gen[i].hint

LEMMA ModesOf ==
  ASSUME config \in Server!Configs
  PROVE  config.mode \in {"all", "namespace", "single"}
BY DEF Server!Configs

LEMMA ToolsOf ==
  ASSUME NEW gen \in Server!Generations, NEW i \in Part(gen)
  PROVE  /\ i \in DOMAIN gen /\ i \in Nat /\ gen[i] \in Catalog
         /\ gen[i] \in [name: STRING, namespace: Server!Namespaces, readOnly: BOOLEAN,
                        hint: BOOLEAN]
<1>1. i \in DOMAIN gen BY DEF Part, Server!filterTools
<1>2. PICK n \in 0 .. MaxTools : gen \in [1 .. n -> Catalog] BY DEF Server!Generations
<1>3. n \in Nat
      BY <1>2, PartsAssumption DEF Server!ServerAssemblyAssumption
<1> QED BY <1>1, <1>2, <1>3, PartsAssumption DEF Server!ServerAssemblyAssumption

LEMMA ProxyCut ==
  ASSUME NEW gen, NEW name, NEW places, places \subseteq Part(gen)
  PROVE  /\ Server!registerProxyTool(gen, name, places).name = name
         /\ CutFrom(gen, Server!registerProxyTool(gen, name, places), places)
BY DEF Server!registerProxyTool, CutFrom, Ops

\* The three modes, one by one.
LEMMA AllEntries ==
  ASSUME NEW gen, config.mode = "all"
  PROVE  /\ Server!Entries(gen) = {Server!ToolEntry(gen, i) : i \in Part(gen)}
         /\ \A i \in Part(gen) : CutFrom(gen, Server!ToolEntry(gen, i), {i})
<1>1. Server!Entries(gen) = {Server!ToolEntry(gen, i) : i \in Part(gen)}
      BY DEF Server!Entries, Part
<1>2. \A i \in Part(gen) : CutFrom(gen, Server!ToolEntry(gen, i), {i})
      BY DEF CutFrom, Server!ToolEntry, Ops
<1> QED BY <1>1, <1>2

Of(gen, ns) == Server!InNamespace(gen, Part(gen), ns)

LEMMA NamespaceEntries ==
  ASSUME NEW gen, config.mode = "namespace"
  PROVE  Server!Entries(gen) =
             {Server!registerProxyTool(gen, ns, Of(gen, ns)) :
                 ns \in {gen[i].namespace : i \in Part(gen)}}
BY DEF Server!Entries, Server!registerNamespaceProxies, Part, Of

LEMMA SingleEntries ==
  ASSUME NEW gen, config.mode = "single", NEW e \in Server!Entries(gen)
  PROVE  \/ e = Server!registerProxyTool(gen, "zendesk", Part(gen) \ Of(gen, "preferences"))
         \/ /\ Of(gen, "preferences") # {}
            /\ e = Server!registerProxyTool(gen, "preferences", Of(gen, "preferences"))
BY DEF Server!Entries, Server!registerSingleProxies, Part, Of

LEMMA SingleEntriesThere ==
  ASSUME NEW gen, config.mode = "single"
  PROVE  /\ Part(gen) \ Of(gen, "preferences") # {} \/ Of(gen, "preferences") = {} =>
               Server!registerProxyTool(gen, "zendesk", Part(gen) \ Of(gen, "preferences"))
                   \in Server!Entries(gen)
         /\ Of(gen, "preferences") # {} =>
               Server!registerProxyTool(gen, "preferences", Of(gen, "preferences"))
                   \in Server!Entries(gen)
BY DEF Server!Entries, Server!registerSingleProxies, Part, Of

LEMMA OfWithin ==
  ASSUME NEW gen, NEW ns
  PROVE  /\ Of(gen, ns) \subseteq Part(gen)
         /\ \A i \in Part(gen) : i \in Of(gen, ns) <=> gen[i].namespace = ns
BY DEF Of, Server!InNamespace

\* Whatever the mode, an entry is cut from some of the tools that pass the filters.
LEMMA EveryEntryCut ==
  ASSUME config \in Server!Configs, NEW gen, NEW e \in Server!Entries(gen)
  PROVE  \E places : CutFrom(gen, e, places)
<1>1. CASE config.mode = "all"
  <2>1. PICK i \in Part(gen) : e = Server!ToolEntry(gen, i) BY <1>1, AllEntries
  <2>2. CutFrom(gen, e, {i}) BY <1>1, <2>1, AllEntries
  <2> QED BY <2>2
<1>2. CASE config.mode = "namespace"
  <2>1. PICK ns \in {gen[i].namespace : i \in Part(gen)} :
            e = Server!registerProxyTool(gen, ns, Of(gen, ns))
        BY <1>2, NamespaceEntries
  <2> QED BY <2>1, OfWithin, ProxyCut
<1>3. CASE config.mode = "single"
  <2> DEFINE preferences == Of(gen, "preferences")
             rest == Part(gen) \ preferences
  <2>1. rest \subseteq Part(gen) /\ preferences \subseteq Part(gen) BY OfWithin
  <2>2. CASE e = Server!registerProxyTool(gen, "zendesk", rest)
    <3>1. CutFrom(gen, e, rest) BY <2>1, <2>2, ProxyCut
    <3> QED BY <3>1
  <2>3. CASE e = Server!registerProxyTool(gen, "preferences", preferences)
    <3>1. CutFrom(gen, e, preferences) BY <2>1, <2>3, ProxyCut
    <3> QED BY <3>1
  <2> QED BY <1>3, <2>2, <2>3, SingleEntries
<1> QED BY <1>1, <1>2, <1>3, ModesOf

\* No tool that passes is lost.
LEMMA EveryToolCut ==
  ASSUME config \in Server!Configs, NEW gen, NEW i \in Part(gen)
  PROVE  \E e \in Server!Entries(gen) : gen[i].name \in e.ops
<1>1. CASE config.mode = "all"
      BY <1>1, AllEntries DEF CutFrom, Ops
<1>2. CASE config.mode = "namespace"
  <2> DEFINE ns == gen[i].namespace
             e == Server!registerProxyTool(gen, ns, Of(gen, ns))
  <2>1. e \in Server!Entries(gen) BY <1>2, NamespaceEntries
  <2>2. e.ops = Ops(gen, Of(gen, ns)) BY OfWithin, ProxyCut DEF CutFrom
  <2>3. i \in Of(gen, ns) BY OfWithin
  <2> QED BY <2>1, <2>2, <2>3 DEF Ops
<1>3. CASE config.mode = "single"
  <2>1. CASE i \in Of(gen, "preferences")
    <3> DEFINE e == Server!registerProxyTool(gen, "preferences", Of(gen, "preferences"))
    <3>1. e \in Server!Entries(gen) BY <1>3, <2>1, SingleEntriesThere
    <3>2. e.ops = Ops(gen, Of(gen, "preferences")) BY OfWithin, ProxyCut DEF CutFrom
    <3> QED BY <2>1, <3>1, <3>2 DEF Ops
  <2>2. CASE i \notin Of(gen, "preferences")
    <3> DEFINE rest == Part(gen) \ Of(gen, "preferences")
               e == Server!registerProxyTool(gen, "zendesk", rest)
    <3>1. i \in rest /\ rest \subseteq Part(gen) BY <2>2
    <3>2. e \in Server!Entries(gen) BY <1>3, <3>1, SingleEntriesThere
    <3>3. e.ops = Ops(gen, rest) BY <3>1, ProxyCut DEF CutFrom
    <3> QED BY <3>1, <3>2, <3>3 DEF Ops
  <2> QED BY <2>1, <2>2
<1> QED BY <1>1, <1>2, <1>3, ModesOf

\* A tool's name is among the operations of one entry alone.
LEMMA EntriesApart ==
  ASSUME config \in Server!Configs, NEW gen \in Server!Generations, ~Server!Collides(gen, {}),
         NEW d \in Server!Entries(gen), NEW e \in Server!Entries(gen), d.ops \cap e.ops # {}
  PROVE  d = e
<1>1. PICK x : x \in d.ops /\ x \in e.ops OBVIOUS
<1>2. \A i, j \in Part(gen) : gen[i].name = gen[j].name => gen[i].namespace = gen[j].namespace
      BY ToolsOf, PartsAssumption DEF Server!ServerAssemblyAssumption
<1>3. CASE config.mode = "all"
  <2>1. PICK i \in Part(gen) : d = Server!ToolEntry(gen, i) BY <1>3, AllEntries
  <2>2. PICK j \in Part(gen) : e = Server!ToolEntry(gen, j) BY <1>3, AllEntries
  <2>3. gen[i].name = gen[j].name BY <1>1, <2>1, <2>2 DEF Server!ToolEntry
  <2>4. ~(i < j) /\ ~(j < i)
        BY <1>3, <2>3 DEF Server!Collides, Server!Taken, Part
  <2>5. i = j BY <2>4, ToolsOf
  <2> QED BY <2>1, <2>2, <2>5
<1>4. CASE config.mode = "namespace"
  <2>1. PICK m : d = Server!registerProxyTool(gen, m, Of(gen, m)) BY <1>4, NamespaceEntries
  <2>2. PICK n : e = Server!registerProxyTool(gen, n, Of(gen, n)) BY <1>4, NamespaceEntries
  <2>3. d.ops = Ops(gen, Of(gen, m)) /\ e.ops = Ops(gen, Of(gen, n))
        BY <2>1, <2>2, OfWithin, ProxyCut DEF CutFrom
  <2>4. PICK i \in Of(gen, m) : x = gen[i].name BY <1>1, <2>3 DEF Ops
  <2>5. PICK j \in Of(gen, n) : x = gen[j].name BY <1>1, <2>3 DEF Ops
  <2>6. /\ i \in Part(gen) /\ gen[i].namespace = m
        /\ j \in Part(gen) /\ gen[j].namespace = n
        BY <2>4, <2>5, OfWithin
  <2>7. m = n BY <1>2, <2>4, <2>5, <2>6
  <2> QED BY <2>1, <2>2, <2>7
<1>5. CASE config.mode = "single"
  <2> DEFINE preferences == Of(gen, "preferences")
             rest == Part(gen) \ preferences
             z == Server!registerProxyTool(gen, "zendesk", rest)
             p == Server!registerProxyTool(gen, "preferences", preferences)
  <2>1. d \in {z, p} /\ e \in {z, p} BY <1>5, SingleEntries
  <2>2. rest \subseteq Part(gen) /\ preferences \subseteq Part(gen) BY OfWithin
  <2>3. z.ops = Ops(gen, rest) /\ p.ops = Ops(gen, preferences) BY <2>2, ProxyCut DEF CutFrom
  <2>4. ~(x \in z.ops /\ x \in p.ops)
    <3> SUFFICES ASSUME x \in z.ops, x \in p.ops PROVE FALSE
        OBVIOUS
    <3>1. PICK i \in rest : x = gen[i].name BY <2>3 DEF Ops
    <3>2. PICK j \in preferences : x = gen[j].name BY <2>3 DEF Ops
    <3>3. /\ i \in Part(gen) /\ gen[i].namespace # "preferences"
          /\ j \in Part(gen) /\ gen[j].namespace = "preferences"
          BY <3>1, <3>2, OfWithin
    <3> QED BY <1>2, <3>1, <3>2, <3>3
  <2> HIDE DEF z, p
  <2> QED BY <1>1, <2>1, <2>4
<1> QED BY <1>3, <1>4, <1>5, ModesOf

LEMMA FiltersKept == AssemblyInv => Server!FiltersHold
<1> SUFFICES ASSUME AssemblyInv PROVE Server!FiltersHold
    OBVIOUS
<1> DEFINE kept == {current[i].name : i \in Server!filterTools(current)}
<1>1. ASSUME NEW e \in registered PROVE e.ops \subseteq kept
  <2>1. PICK places : CutFrom(current, e, places) BY <1>1, EveryEntryCut DEF AssemblyInv
  <2> QED BY <2>1 DEF CutFrom, Ops, Part
<1>2. ASSUME NEW x \in kept PROVE \E e \in registered : x \in e.ops
      BY <1>2, EveryToolCut DEF AssemblyInv, Part
<1>3. UNION {e.ops : e \in registered} = kept
  <2> HIDE DEF kept
  <2> QED BY <1>1, <1>2
<1>4. \A d, e \in registered : d.ops \cap e.ops # {} => d = e
      BY EntriesApart DEF AssemblyInv
<1> QED BY <1>3, <1>4 DEF Server!FiltersHold

\* Of the tools a read-only server exposes, only preferences do not say they only read.
LEMMA ReadersSaySo ==
  ASSUME NEW gen \in Server!Generations, config.readOnly, NEW i \in Part(gen)
  PROVE  /\ gen[i].hint \/ gen[i].namespace = "preferences"
         /\ gen[i].namespace = "preferences" => gen[i].name \in Server!Preferences
<1>1. gen[i].readOnly BY DEF Part, Server!filterTools
<1>2. gen[i] \in Catalog BY ToolsOf
<1> QED BY <1>1, <1>2, PartsAssumption DEF Server!ServerAssemblyAssumption, Server!Preferences

LEMMA ReadOnlyKept == AssemblyInv => Server!ReadOnlySaysSo
<1> SUFFICES ASSUME AssemblyInv, config.readOnly, NEW e \in registered
             PROVE  e.hint \/ e.ops \subseteq Server!Preferences
    BY DEF Server!ReadOnlySaysSo
<1> USE DEF AssemblyInv
<1> DEFINE preferences == Of(current, "preferences")
           rest == Part(current) \ preferences
<1>1. ASSUME NEW places, CutFrom(current, e, places), places \subseteq preferences
      PROVE  e.ops \subseteq Server!Preferences
      BY <1>1, ReadersSaySo, OfWithin DEF CutFrom, Ops
<1>2. ASSUME NEW places, CutFrom(current, e, places), places \cap preferences = {}
      PROVE  e.hint
  <2>1. \A i \in places : current[i].hint
        BY <1>2, ReadersSaySo, OfWithin DEF CutFrom
  <2> QED BY <1>2, <2>1 DEF CutFrom
<1>3. CASE config.mode = "all"
  <2>1. PICK i \in Part(current) : e = Server!ToolEntry(current, i) BY <1>3, AllEntries
  <2>2. CutFrom(current, e, {i}) BY <1>3, <2>1, AllEntries
  <2>3. {i} \subseteq preferences \/ {i} \cap preferences = {} OBVIOUS
  <2> QED BY <1>1, <1>2, <2>2, <2>3
<1>4. CASE config.mode = "namespace"
  <2>1. PICK ns : e = Server!registerProxyTool(current, ns, Of(current, ns))
        BY <1>4, NamespaceEntries
  <2>2. CutFrom(current, e, Of(current, ns)) BY <2>1, OfWithin, ProxyCut
  <2>3. ns = "preferences" \/ Of(current, ns) \cap preferences = {} BY OfWithin
  <2> QED BY <1>1, <1>2, <2>2, <2>3
<1>5. CASE config.mode = "single"
  <2>1. rest \subseteq Part(current) /\ preferences \subseteq Part(current) BY OfWithin
  <2>2. \/ e = Server!registerProxyTool(current, "zendesk", rest)
        \/ e = Server!registerProxyTool(current, "preferences", preferences)
        BY <1>5, SingleEntries
  <2>3. CutFrom(current, e, rest) \/ CutFrom(current, e, preferences)
        BY <2>1, <2>2, ProxyCut
  <2> QED BY <1>1, <1>2, <2>3
<1> QED BY <1>3, <1>4, <1>5, ModesOf

LEMMA PrintedKept == AssemblyInv => Server!PrintedIsRegistered
<1> SUFFICES ASSUME AssemblyInv,
                    config.mode # "single" \/ {e.name : e \in registered} \subseteq {"zendesk"}
             PROVE  Server!renderToolSurface(current) =
                      {[name |-> e.name, ops |-> e.ops] : e \in {d \in registered : d.ops # {}}}
    BY DEF Server!PrintedIsRegistered
<1> USE DEF AssemblyInv
<1> DEFINE part0 == Part(current)
           shown == {d \in registered : d.ops # {}}
           Printed(name, places) == [name |-> name, ops |-> Ops(current, places)]
<1>1. CASE part0 = {}
  <2>1. ASSUME NEW e \in registered PROVE e.ops = {}
    <3>1. PICK places : CutFrom(current, e, places) BY EveryEntryCut
    <3> QED BY <1>1, <3>1 DEF CutFrom, Ops
  <2>2. Server!renderToolSurface(current) = {} BY <1>1 DEF Server!renderToolSurface, Part
  <2> QED BY <2>1, <2>2
<1>2. CASE part0 # {} /\ config.mode = "all"
  <2> DEFINE Tool(i) == Server!ToolEntry(current, i)
             Line(i) == Printed(current[i].name, {i})
  <2>1. Server!renderToolSurface(current) = {Line(i) : i \in part0}
        BY <1>2 DEF Server!renderToolSurface, Part, Ops
  <2>2. ASSUME NEW i \in part0
        PROVE  /\ Tool(i) \in shown
               /\ Line(i) = [name |-> Tool(i).name, ops |-> Tool(i).ops]
        BY <1>2, AllEntries DEF Server!ToolEntry, Ops
  <2>3. \A e \in shown : \E i \in part0 : e = Tool(i)
        BY <1>2, AllEntries
  <2> HIDE DEF part0, shown, Tool, Line
  <2>4. {Line(i) : i \in part0} =
            {[name |-> e.name, ops |-> e.ops] : e \in shown}
        BY <2>2, <2>3
  <2> QED BY <2>1, <2>4 DEF shown
<1>3. CASE part0 # {} /\ config.mode = "namespace"
  <2> DEFINE spaces == {current[i].namespace : i \in part0}
             Proxy(ns) == Server!registerProxyTool(current, ns, Of(current, ns))
  <2>1. Server!renderToolSurface(current) = {Printed(ns, Of(current, ns)) : ns \in spaces}
        BY <1>3 DEF Server!renderToolSurface, Part, Ops, Of
  <2>2. ASSUME NEW ns \in spaces
        PROVE  /\ Proxy(ns) \in shown
               /\ Printed(ns, Of(current, ns)) =
                     [name |-> Proxy(ns).name, ops |-> Proxy(ns).ops]
    <3>1. /\ Proxy(ns).ops = Ops(current, Of(current, ns)) /\ Proxy(ns).name = ns
          BY OfWithin, ProxyCut DEF CutFrom
    <3>2. PICK i \in part0 : ns = current[i].namespace OBVIOUS
    <3>3. i \in Of(current, ns) BY <3>2, OfWithin
    <3>4. Proxy(ns).ops # {} BY <3>1, <3>3 DEF Ops
    <3>5. Proxy(ns) \in registered BY <1>3, NamespaceEntries
    <3> HIDE DEF Proxy
    <3> QED BY <3>1, <3>4, <3>5
  <2>3. \A e \in shown : \E ns \in spaces : e = Proxy(ns)
        BY <1>3, NamespaceEntries
  <2> HIDE DEF part0, shown, Printed, spaces, Proxy
  <2>4. {Printed(ns, Of(current, ns)) : ns \in spaces} =
            {[name |-> e.name, ops |-> e.ops] : e \in shown}
        BY <2>2, <2>3
  <2> QED BY <2>1, <2>4 DEF shown
<1>4. CASE part0 # {} /\ config.mode = "single"
  <2> DEFINE preferences == Of(current, "preferences")
             z == Server!registerProxyTool(current, "zendesk", part0 \ preferences)
             p == Server!registerProxyTool(current, "preferences", preferences)
  <2>1. preferences = {}
    <3> SUFFICES ASSUME preferences # {} PROVE FALSE
        OBVIOUS
    <3>1. p \in registered BY <1>4, SingleEntriesThere
    <3>2. p.name = "preferences" BY OfWithin, ProxyCut
    <3> HIDE DEF p
    <3> QED BY <1>4, <3>1, <3>2
  <2>2. part0 \ preferences = part0 BY <2>1
  <2>3. z.name = "zendesk" /\ z.ops = Ops(current, part0) BY <2>2, ProxyCut DEF CutFrom
  <2>4. registered = {z}
        BY <1>4, <2>1, SingleEntries, SingleEntriesThere
  <2>5. z.ops # {}
    <3>1. PICK i \in part0 : TRUE BY <1>4
    <3>2. current[i].name \in z.ops BY <2>3 DEF Ops
    <3> HIDE DEF z
    <3> QED BY <3>2
  <2>6. Server!renderToolSurface(current) = {Printed("zendesk", part0)}
        BY <1>4 DEF Server!renderToolSurface, Part, Ops
  <2> HIDE DEF z
  <2> QED BY <2>3, <2>4, <2>5, <2>6
<1> QED BY <1>1, <1>2, <1>3, <1>4, ModesOf

\* A reload finds nothing of another generation left: what it registers is a whole one.
LEMMA CutAlike ==
  ASSUME NEW CONSTANT gen, config' = config
  PROVE  /\ Server!Entries(gen)' = Server!Entries(gen)
         /\ Server!Collides(gen, {})' = Server!Collides(gen, {})
BY DEF Server!Entries, Server!Collides, Server!Taken, Server!filterTools, Server!ToolEntry,
       Server!registerProxyTool, Server!InNamespace, Server!registerNamespaceProxies,
       Server!registerSingleProxies

LEMMA ReloadKeeps ==
  ASSUME AssemblyInv, NEW CONSTANT gen \in Server!Generations, Server!Reload(gen)
  PROVE  AssemblyInv'
<1>1. config' = config /\ registered \ handles = {} BY DEF AssemblyInv, Server!Reload
<1>2. PICK old \in Server!Generations : old = current BY DEF AssemblyInv
<1>3. CASE ~Server!Collides(gen, {})
  <2>1. /\ current' = gen /\ handles' = Server!Entries(gen)
        /\ registered' = Server!Entries(gen)
        BY <1>1, <1>3 DEF Server!Reload, Server!registerToolset
  <2> QED BY <1>1, <1>3, <2>1, CutAlike DEF AssemblyInv
<1>4. CASE Server!Collides(gen, {})
  <2>1. /\ current' = old /\ handles' = Server!Entries(old)
        /\ registered' = Server!Entries(old)
        BY <1>1, <1>2, <1>4
           DEF AssemblyInv, Server!Reload, Server!registerToolset, Server!RolledBack
  <2> QED BY <1>1, <1>2, <2>1, CutAlike DEF AssemblyInv
<1> QED BY <1>3, <1>4

LEMMA AssemblyAlone ==
  ASSUME AssemblyInv, UNCHANGED server PROVE AssemblyInv'
<1>1. /\ config' = config /\ current' = current /\ handles' = handles
      /\ registered' = registered
      BY DEF server
<1>2. PICK gen \in Server!Generations : gen = current BY DEF AssemblyInv
<1> QED BY <1>1, <1>2, CutAlike DEF AssemblyInv

LEMMA AssemblyInit == Init => AssemblyInv
<1> SUFFICES ASSUME Init PROVE AssemblyInv
    OBVIOUS
<1>1. CASE part = "server" BY <1>1 DEF Init, Server!Init, AssemblyInv
<1>2. CASE part # "server"
  <2>1. /\ config = [mode |-> "all", namespaces |-> Server!Namespaces, tools |-> {},
                     readOnly |-> FALSE]
        /\ current = <<>> /\ handles = {} /\ registered = {}
        BY <1>2 DEF Init
  <2>2. config \in Server!Configs
    <3>1. /\ Server!Namespaces \in (SUBSET Server!Namespaces) \ {{}}
          /\ {} \in SUBSET Server!Names /\ FALSE \in BOOLEAN
          BY DEF Server!Namespaces
    <3> QED BY <2>1, <3>1 DEF Server!Configs
  <2>3. current \in Server!Generations
    <3>1. MaxTools \in Nat BY PartsAssumption DEF Server!ServerAssemblyAssumption
    <3>2. 0 \in 0 .. MaxTools BY <3>1
    <3>3. <<>> \in [1 .. 0 -> Catalog] OBVIOUS
    <3> QED BY <2>1, <3>2, <3>3 DEF Server!Generations
  <2>4. Part(current) = {} BY <2>1 DEF Part, Server!filterTools
  <2>5. Server!Entries(current) = {} BY <2>1, <2>4, AllEntries
  <2>6. ~Server!Collides(current, {}) BY <2>4 DEF Server!Collides, Part
  <2> QED BY <2>1, <2>2, <2>3, <2>5, <2>6 DEF AssemblyInv
<1> QED BY <1>1, <1>2

LEMMA AssemblyInvariant == Spec => []AssemblyInv
<1>1. AssemblyInv /\ [Next]_vars => AssemblyInv'
  <2> SUFFICES ASSUME AssemblyInv, [Next]_vars PROVE AssemblyInv'
      OBVIOUS
  <2>1. CASE ServerNext BY <2>1, ReloadKeeps DEF ServerNext, Server!Next
  <2>2. CASE UNCHANGED server BY <2>2, AssemblyAlone
  <2> QED BY <2>1, <2>2
          DEF Next, vars, FilesNext, OverlayNext, ProcessNext, OrderNext, Only
<1> QED BY <1>1, AssemblyInit, PTL DEF Spec

\* Whatever the tools, the filters and the mode, and whichever reloads throw, a server
\* exposes one whole generation: each tool that passes the filters, and no other, under
\* one name (registerToolset of server.ts, reload of dev/reload.ts).
THEOREM SurfaceKept == Spec => []SurfaceHolds
<1>1. AssemblyInv => SurfaceHolds
      BY FiltersKept, ReadOnlyKept, PrintedKept
         DEF AssemblyInv, SurfaceHolds, Server!SurfaceHolds, Server!WholeGenerationLive
<1> QED BY <1>1, AssemblyInvariant, PTL

\* An entry has a name and operations of the catalog.
LEMMA EntriesTyped ==
  ASSUME config \in Server!Configs, NEW gen \in Server!Generations, NEW e \in Server!Entries(gen)
  PROVE  e \in Server!Entry
<1>1. \A i \in Part(gen) : /\ gen[i].name \in Server!Names /\ gen[i].hint \in BOOLEAN
                           /\ gen[i].namespace \in Server!Namespaces
      BY ToolsOf DEF Server!Names
<1>2. ASSUME NEW name \in Server!Namespaces \cup {"zendesk"}, NEW places, places \subseteq Part(gen)
      PROVE  Server!registerProxyTool(gen, name, places) \in Server!Entry
  <2>1. {gen[i].name : i \in places} \subseteq Server!Names BY <1>1, <1>2
  <2>2. (\A i \in places : gen[i].hint) \in BOOLEAN OBVIOUS
  <2> QED BY <2>1, <2>2 DEF Server!registerProxyTool, Server!Entry
<1>3. CASE config.mode = "all"
  <2>1. PICK i \in Part(gen) : e = Server!ToolEntry(gen, i) BY <1>3, AllEntries
  <2>2. gen[i].name \in Server!Names /\ {gen[i].name} \subseteq Server!Names /\ gen[i].hint \in BOOLEAN
        BY <1>1
  <2> QED BY <2>1, <2>2 DEF Server!ToolEntry, Server!Entry
<1>4. CASE config.mode = "namespace"
  <2>1. PICK ns \in {gen[i].namespace : i \in Part(gen)} :
            e = Server!registerProxyTool(gen, ns, Of(gen, ns))
        BY <1>4, NamespaceEntries
  <2>2. ns \in Server!Namespaces BY <1>1
  <2> QED BY <1>2, <2>1, <2>2, OfWithin
<1>5. CASE config.mode = "single"
  <2>1. "preferences" \in Server!Namespaces BY DEF Server!Namespaces
  <2>2. Part(gen) \ Of(gen, "preferences") \subseteq Part(gen) OBVIOUS
  <2>3. Server!registerProxyTool(gen, "zendesk", Part(gen) \ Of(gen, "preferences")) \in Server!Entry
        BY <1>2, <2>2
  <2>4. Server!registerProxyTool(gen, "preferences", Of(gen, "preferences")) \in Server!Entry
        BY <1>2, <2>1, OfWithin
  <2> QED BY <1>5, <2>3, <2>4, SingleEntries
<1> QED BY <1>3, <1>4, <1>5, ModesOf

\* Every reachable state of these four parts is well typed.
THEOREM PartsTyped ==
  Spec => [](Files!TypeOK /\ Overlay!TypeOK /\ Process!TypeOK /\ Server!TypeOK)
<1>1. AssemblyInv => Server!TypeOK BY EntriesTyped DEF AssemblyInv, Server!TypeOK
<1>2. /\ FilesInv => Files!TypeOK
      /\ OverlayInv => Overlay!TypeOK
      /\ ProcessInv => Process!TypeOK
      BY DEF FilesInv, OverlayInv, ProcessInv
<1> QED BY <1>1, <1>2, FilesInvariant, OverlayInvariant, ProcessInvariant, AssemblyInvariant, PTL
=============================================================================
