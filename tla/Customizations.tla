---------------------------- MODULE Customizations -----------------------------
(* The admins' customizations: customization/service.ts over the file backend  *)
(* of backend.ts, and the plans of model.ts.                                   *)
(*                                                                             *)
(* Edits run one after another.  Each is planned on what is in memory, applied *)
(* file by file, then the whole tree is read again and served: to the servers  *)
(* of the process through memory, to clients of the Skills extension through a *)
(* catalog.  A prompt and a skill may not have the same name, and one name is  *)
(* enough: its prompt, the entry of its skill, and another file of the skill.  *)
(* Instructions are files no other depends on, as the prompt of a free name.   *)
EXTENDS Naturals, Sequences, FiniteSets

CONSTANTS
    MaxEdits,  \* bound: edits the admins make
    MaxFaults, \* bound: failing writes and reads
    None

Absent == 0
Paths == {"prompt", "entry", "file"}
Trees == [Paths -> 0 .. MaxEdits]      \* each file's text, by the edit that wrote it
Kinds == Paths \X {"put", "delete"}

VARIABLES
    disk,    \* the tree
    memory,  \* what current() answers
    catalog, \* the skills as the Skills extension serves them
    servers, \* what the open servers were last told
    queue,   \* edits that wait
    work,    \* the edit under way
    open,    \* the next edit may run
    edits, faults, \* bound counters
    unread,  \* history: the last reload failed
    blind    \* history: an edit was planned after that

served == <<memory, catalog, servers>>
counters == <<edits, faults>>
vars == <<disk, served, queue, work, open, counters, unread, blind>>

Edit == [kind: Kinds, n: 1 .. MaxEdits]
Work == [todo: SUBSET Paths, text: 0 .. MaxEdits, failed: BOOLEAN,
         at: {"applying", "loading", "reloading"}]

\* What the constants are, assumed where they are declared for good.
CustomizationsAssumption == MaxEdits \in Nat /\ MaxFaults \in Nat /\ None \notin Work

-----------------------------------------------------------------------------
(* What a tree serves, and the plan of an edit.                               *)

HasPrompt(tree) == tree["prompt"] # Absent
HasSkill(tree) == tree["entry"] # Absent /\ ~HasPrompt(tree)

\* A mutant that lets a prompt take the name of a skill:
AllowedAnyPrompt(tree, kind) ==
    CASE kind = <<"prompt", "put">> -> TRUE
      [] kind = <<"prompt", "delete">> -> HasPrompt(tree)
      [] kind = <<"entry", "put">> -> ~HasPrompt(tree)
      [] kind = <<"entry", "delete">> -> HasSkill(tree)
      [] kind = <<"file", "put">> -> HasSkill(tree)
      [] kind = <<"file", "delete">> -> HasSkill(tree) /\ tree["file"] # Absent

Allowed(tree, kind) ==
    CASE kind = <<"prompt", "put">> -> ~HasSkill(tree)
      [] kind = <<"prompt", "delete">> -> HasPrompt(tree)
      [] kind = <<"entry", "put">> -> ~HasPrompt(tree)
      [] kind = <<"entry", "delete">> -> HasSkill(tree)
      [] kind = <<"file", "put">> -> HasSkill(tree)
      [] kind = <<"file", "delete">> -> HasSkill(tree) /\ tree["file"] # Absent

\* The files an edit changes: with its entry the whole skill goes.
planEdit(tree, kind) ==
    IF kind = <<"entry", "delete">> THEN {p \in {"entry", "file"} : tree[p] # Absent}
    ELSE {kind[1]}

-----------------------------------------------------------------------------
(* The edits.                                                                 *)

Fault(ok) == faults' = (IF ok THEN faults ELSE faults + 1) /\ faults' <= MaxFaults

Ask(kind) ==
    /\ edits < MaxEdits /\ edits' = edits + 1
    /\ queue' = Append(queue, [kind |-> kind, n |-> edits'])
    /\ UNCHANGED <<disk, served, work, open, faults, unread, blind>>

\* The next edit is planned on what is in memory, and refused or begun.
Begin ==
    /\ work = None /\ queue # <<>> /\ open
    /\ queue' = Tail(queue)
    /\ LET e == Head(queue) IN
       IF Allowed(memory, e.kind)
       THEN /\ work' = [todo |-> planEdit(memory, e.kind), failed |-> FALSE, at |-> "applying",
                        text |-> IF e.kind[2] = "put" THEN e.n ELSE Absent]
            /\ blind' = (blind \/ unread)
       ELSE UNCHANGED <<work, blind>>
    /\ UNCHANGED <<disk, served, open, counters, unread>>

\* apply: each file is replaced or removed; a failure leaves the rest as it was.
Apply(p, ok) ==
    /\ work # None /\ work.at = "applying" /\ p \in work.todo
    /\ Fault(ok)
    /\ IF ok THEN /\ disk' = [disk EXCEPT ![p] = work.text]
                  /\ work' = [work EXCEPT !.todo = @ \ {p}]
             ELSE /\ work' = [work EXCEPT !.at = "loading", !.failed = TRUE]
                  /\ UNCHANGED disk
    /\ UNCHANGED <<served, queue, open, edits, unread, blind>>

\* The authors are recorded last.
RecordAuthors(ok) ==
    /\ work # None /\ work.at = "applying" /\ work.todo = {}
    /\ Fault(ok)
    /\ work' = [work EXCEPT !.at = "loading", !.failed = ~ok]
    /\ UNCHANGED <<disk, served, queue, open, edits, unread, blind>>

\* A mutant that leaves a rejected promise at the end of the queue:
OpenAfter(failed) == ~failed

\* The next edit runs whether or not this one failed.
Settled(failed) == TRUE

\* A mutant that reads the tree again only after a change set that was applied:
LoadedIfApplied == IF work.failed THEN memory ELSE disk

Loaded == disk

\* The tree is read again, whether or not the change set failed.  When that fails
\* the edit ends there.
Load(ok) ==
    /\ work # None /\ work.at = "loading"
    /\ Fault(ok)
    /\ IF ok THEN memory' = Loaded /\ work' = [work EXCEPT !.at = "reloading"] /\ UNCHANGED open
             ELSE work' = None /\ open' = Settled(TRUE) /\ UNCHANGED memory
    /\ unread' = ~ok
    /\ UNCHANGED <<disk, catalog, servers, queue, edits, blind>>

\* The catalog is read again, the servers are told, and the edit is answered.
Reload ==
    /\ work # None /\ work.at = "reloading"
    /\ catalog' = memory /\ servers' = memory
    /\ work' = None /\ open' = Settled(work.failed)
    /\ UNCHANGED <<disk, memory, queue, counters, unread, blind>>

\* The process ends, by its shutdown or not, and starts again from its files.
Restart ==
    /\ memory' = disk /\ catalog' = disk /\ servers' = disk
    /\ queue' = <<>> /\ work' = None /\ open' = TRUE /\ unread' = FALSE
    /\ UNCHANGED <<disk, counters, blind>>

Init ==
    /\ disk = [p \in Paths |-> Absent] /\ memory = disk /\ catalog = disk /\ servers = disk
    /\ queue = <<>> /\ work = None /\ open = TRUE
    /\ edits = 0 /\ faults = 0 /\ unread = FALSE /\ blind = FALSE

Steps ==
    \/ Begin \/ Reload
    \/ \E ok \in BOOLEAN : RecordAuthors(ok) \/ Load(ok) \/ \E p \in Paths : Apply(p, ok)

Next == (\E kind \in Kinds : Ask(kind)) \/ Steps \/ Restart

\* What the process waits for, its disk, answers.
FairSpec == Init /\ [][Next]_vars /\ WF_vars(Steps)

-----------------------------------------------------------------------------
(* Properties.                                                                *)

TypeOK ==
    /\ {disk, memory, catalog, servers} \subseteq Trees
    /\ queue \in Seq(Edit) /\ work \in Work \cup {None}
    /\ edits \in 0 .. MaxEdits /\ faults \in 0 .. MaxFaults
    /\ {open, unread, blind} \subseteq BOOLEAN

\* Between edits everything is served as it is stored, after an edit that failed
\* half way too; only a reload that failed leaves it behind (service.ts:121-123).
ServedIsStored ==
    work = None /\ ~unread => memory = disk /\ catalog = disk /\ servers = disk

\* No prompt and skill of one name are stored together, for the skill would not be
\* served; unless an edit was planned on what a failed reload had left (model.ts:259, 315).
NoClash == ~(disk["prompt"] # Absent /\ disk["entry"] # Absent) \/ blind

\* An edit that waits has its turn, whatever became of the one before (service.ts:135).
EditsHaveTheirTurn == queue # <<>> ~> queue = <<>>
================================================================================
