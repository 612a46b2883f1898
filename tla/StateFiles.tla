------------------------------ MODULE StateFiles -------------------------------
(* An entry of the directory the stdio processes of one user share, and how    *)
(* they clean it up: utils/state-store.ts.  An entry is one file, replaced by  *)
(* a rename.  The processes sweep the directory in turn: whoever creates the   *)
(* lock file sweeps.  A sweep judges each file alone, so one entry that        *)
(* expires, a cached scope, is enough; temp files have names of their own and  *)
(* are left out.                                                               *)
EXTENDS Naturals

CONSTANTS
    Processes,
    MaxCrashes, \* bound, of the writes that fail too
    None

VARIABLES
    scope,   \* the entry: None, "live" or "expired"
    lock,    \* the lock file: whose, and what its content says of its age
    sweep,   \* the sweep under way in each process
    evicted, \* history: processes whose lock another has removed while they hold it
    spared,  \* sweeps under way since before the entry expired
    overtaken, \* history: sweeps that judged an entry since written again
    crashes  \* bound counter

vars == <<scope, lock, sweep, evicted, spared, overtaken, crashes>>

Lock == [of: Processes, says: {"nothing", "fresh", "stale"}]

\* A sweep, by the place it waits at; once it sweeps, whether the entry was listed
\* and not judged yet.
Sweep == [at: {"locking", "locked", "reading", "removing", "retrying", "sweeping", "unlinking"},
          todo: BOOLEAN]

\* What the constants are, assumed where they are declared for good.
StateFilesAssumption ==
    /\ MaxCrashes \in Nat
    /\ None \notin Processes \cup Lock \cup Sweep \cup {"live", "expired"}

At(p, at) == sweep[p] # None /\ sweep[p].at = at
Goes(p, at, todo) == sweep' = [sweep EXCEPT ![p] = [at |-> at, todo |-> todo]]

\* set: the temp file takes the entry's place.
Store ==
    /\ scope' = "live" /\ overtaken' = {q \in Processes : At(q, "unlinking")} /\ spared' = {}
    /\ UNCHANGED <<lock, sweep, evicted, crashes>>

-----------------------------------------------------------------------------
(* The sweep.                                                                 *)

Stops(p) == sweep' = [sweep EXCEPT ![p] = None]
Sweeping(p) == At(p, "sweeping") \/ At(p, "unlinking")
Holding(p) == At(p, "locking") \/ At(p, "locked") \/ Sweeping(p)

\* A mutant that opens the lock whether or not it exists:
Always == TRUE

MayCreate == lock = None

\* The lock is created, empty; a process that finds one reads it.
AcquireLock(p) ==
    /\ sweep[p] = None
    /\ IF MayCreate THEN lock' = [of |-> p, says |-> "nothing"] /\ Goes(p, "locking", FALSE)
                    ELSE UNCHANGED lock /\ Goes(p, "reading", FALSE)
    /\ UNCHANGED <<scope, evicted, spared, overtaken, crashes>>

\* Its content is written, to a file of no name if another has removed it.
WriteLock(p) ==
    /\ At(p, "locking")
    /\ lock' = IF lock # None /\ lock.of = p THEN [lock EXCEPT !.says = "fresh"] ELSE lock
    /\ Goes(p, "locked", FALSE)
    /\ UNCHANGED <<scope, evicted, spared, overtaken, crashes>>

\* The write fails: the lock stays, empty, and this process does not sweep.
WriteFails(p) ==
    /\ At(p, "locking")
    /\ crashes < MaxCrashes /\ crashes' = crashes + 1
    /\ Stops(p) /\ evicted' = evicted \ {p}
    /\ UNCHANGED <<scope, lock, spared, overtaken>>

\* The sweep takes the time and reads the names in the directory.
Begin(p) ==
    /\ At(p, "locked")
    /\ Goes(p, "sweeping", scope # None)
    /\ UNCHANGED <<scope, lock, evicted, spared, overtaken, crashes>>

\* A mutant that never takes a lock over:
NeverAbandoned(l) == FALSE

\* A lock that does not say it is fresh is taken for abandoned.
Abandoned(l) == l = None \/ l.says # "fresh"

ReadLock(p) ==
    /\ At(p, "reading")
    /\ IF Abandoned(lock) THEN Goes(p, "removing", FALSE) ELSE Stops(p)
    /\ UNCHANGED <<scope, lock, evicted, spared, overtaken, crashes>>

\* Whose lock it is that p removes, if another's who still holds it.
Evicted(p) == {q \in Processes \ {p} : lock # None /\ lock.of = q /\ Holding(q)}

\* The lock is removed, whosever it is by now.
RemoveLock(p) == lock' = None /\ evicted' = (evicted \cup Evicted(p)) \ {p}

TakeOver(p) ==
    /\ At(p, "removing")
    /\ RemoveLock(p) /\ Goes(p, "retrying", FALSE)
    /\ UNCHANGED <<scope, spared, overtaken, crashes>>

\* It is then created, unless another is first.
Retry(p) ==
    /\ At(p, "retrying")
    /\ IF lock = None THEN lock' = [of |-> p, says |-> "nothing"] /\ Goes(p, "locking", FALSE)
                      ELSE UNCHANGED lock /\ Stops(p)
    /\ UNCHANGED <<scope, evicted, spared, overtaken, crashes>>

\* The entry had expired when the sweep of p began.
Expired(p) == scope = "expired" /\ p \notin spared

\* The entry there is now is judged, and removed, if at all, in a later step.
SweepFile(p) ==
    /\ At(p, "sweeping") /\ sweep[p].todo
    /\ Goes(p, IF Expired(p) THEN "unlinking" ELSE "sweeping", FALSE)
    /\ UNCHANGED <<scope, lock, evicted, spared, overtaken, crashes>>

\* Whatever the file has become, it is removed.
Unlink(p) ==
    /\ At(p, "unlinking")
    /\ scope' = None /\ spared' = {}
    /\ Goes(p, "sweeping", FALSE)
    /\ overtaken' = overtaken \ {p}
    /\ UNCHANGED <<lock, evicted, crashes>>

\* The sweep ends, and removes the lock that is there.
EndSweep(p) ==
    /\ At(p, "sweeping") /\ ~sweep[p].todo
    /\ RemoveLock(p) /\ Stops(p) /\ spared' = spared \ {p}
    /\ UNCHANGED <<scope, overtaken, crashes>>

-----------------------------------------------------------------------------
(* Time and the machine.                                                      *)

Expires ==
    /\ scope = "live" /\ scope' = "expired"
    /\ spared' = {p \in Processes : Sweeping(p)}
    /\ UNCHANGED <<lock, sweep, evicted, overtaken, crashes>>

LockAges ==
    /\ lock # None /\ lock.says = "fresh" /\ lock' = [lock EXCEPT !.says = "stale"]
    /\ UNCHANGED <<scope, sweep, evicted, spared, overtaken, crashes>>

\* A process is killed and another started: its files stay as they were.
Crash(p) ==
    /\ crashes < MaxCrashes /\ crashes' = crashes + 1
    /\ Stops(p)
    /\ evicted' = evicted \ {p} /\ spared' = spared \ {p} /\ overtaken' = overtaken \ {p}
    /\ UNCHANGED <<scope, lock>>

Init ==
    /\ scope = None
    /\ lock = None /\ sweep = [p \in Processes |-> None]
    /\ evicted = {} /\ spared = {} /\ overtaken = {} /\ crashes = 0

Sweeps(p) ==
    \/ AcquireLock(p) \/ WriteLock(p) \/ Begin(p) \/ ReadLock(p) \/ TakeOver(p) \/ Retry(p)
    \/ SweepFile(p) \/ Unlink(p) \/ EndSweep(p)

Next ==
    \/ \E p \in Processes : Sweeps(p) \/ WriteFails(p) \/ Crash(p)
    \/ Store \/ Expires \/ LockAges

\* Every process sweeps again and again, and time passes.
FairSpec ==
    /\ Init /\ [][Next]_vars
    /\ \A p \in Processes : WF_vars(Sweeps(p))
    /\ WF_vars(LockAges)

-----------------------------------------------------------------------------
(* Properties.                                                                *)

TypeOK ==
    /\ scope \in {None, "live", "expired"}
    /\ sweep \in [Processes -> Sweep \cup {None}]
    /\ lock \in Lock \cup {None}
    /\ evicted \subseteq Processes /\ spared \subseteq Processes /\ overtaken \subseteq Processes
    /\ crashes \in 0 .. MaxCrashes

\* One process sweeps at a time, those excepted whose lock was taken over
\* ("two processes taking over at once can both sweep", state-store.ts:117-118).
OneSweeps ==
    \A p, q \in Processes \ evicted : Sweeping(p) /\ Sweeping(q) => p = q

\* A sweep is about to remove a live entry only when another process has written it
\* again since it was judged (state-store.ts:148).
LiveEntryKept ==
    \A p \in Processes \ overtaken :
        At(p, "unlinking") => scope # "live"

\* Sweeps keep out of each other's way, and of the entries in use.
SweepsAreSafe == OneSweeps /\ LiveEntryKept

\* An expired entry does not stay: it is swept or replaced, whichever process
\* crashed with the lock (state-store.ts:116-118).
ExpiredGoes == scope = "expired" ~> scope # "expired"
================================================================================
