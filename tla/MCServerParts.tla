----------------------------- MODULE MCServerParts -----------------------------
(* Five parts of a server, which share no state: the state files, the          *)
(* customizations, the start and the end of the process, the assembly of its   *)
(* tools and the reordering of articles.  Each behaviour is one of the five;   *)
(* `part` says which.                                                          *)
EXTENDS Naturals

CONSTANTS
    None,
    Processes, MaxCrashes,
    MaxEdits, MaxFaults,
    Catalog, MaxTools,
    Articles, AutoOrder, ConfirmThreshold, MaxPosition, MaxFailures

CONSTANTS a, b, c

VARIABLES
    part,
    scope, lock, sweep, evicted, spared, overtaken, crashes,
    disk, memory, catalog, servers, queue, work, open, edits, faults, unread, blind,
    transport, boot, opened, gone, cleanup, watchdog, ended,
    config, current, handles, registered,
    auto, position, call, failures

Files == INSTANCE StateFiles
Overlay == INSTANCE Customizations
Process == INSTANCE Shutdown WITH open <- opened
Server == INSTANCE ServerAssembly
Order == INSTANCE ArticleOrder

\* What each part assumes of its constants.
ASSUME PartsAssumption ==
    /\ Files!StateFilesAssumption
    /\ Overlay!CustomizationsAssumption
    /\ Process!ShutdownAssumption
    /\ Server!ServerAssemblyAssumption
    /\ Order!ArticleOrderAssumption

files == <<scope, lock, sweep, evicted, spared, overtaken, crashes>>
overlay == <<disk, memory, catalog, servers, queue, work, open, edits, faults, unread, blind>>
process == <<transport, boot, opened, gone, cleanup, watchdog, ended>>
server == <<config, current, handles, registered>>
order == <<auto, position, call, failures>>
vars == <<part, files, overlay, process, server, order>>

\* The parts that do not run start in one of their initial states.
Init ==
    /\ part \in {"files", "overlay", "process", "server", "order"}
    /\ Files!Init /\ Overlay!Init
    /\ Process!Init /\ (part = "process" \/ transport = "stdio")
    /\ IF part = "server" THEN Server!Init
       ELSE /\ config = [mode |-> "all", namespaces |-> Server!Namespaces, tools |-> {}, readOnly |-> FALSE]
            /\ current = <<>> /\ handles = {} /\ registered = {}
    /\ IF part = "order" THEN Order!Init
       ELSE /\ auto = None /\ position = [x \in Articles |-> 0]
            /\ call = [at |-> "none"] /\ failures = 0

Only(p, others) == part = p /\ UNCHANGED <<part, others>>

Sweeps(p) == Only("files", <<overlay, process, server, order>>) /\ Files!Sweeps(p)
LockAges == Only("files", <<overlay, process, server, order>>) /\ Files!LockAges
FilesNext == Only("files", <<overlay, process, server, order>>) /\ Files!Next
OverlaySteps == Only("overlay", <<files, process, server, order>>) /\ Overlay!Steps
OverlayNext == Only("overlay", <<files, process, server, order>>) /\ Overlay!Next
Opens == Only("process", <<files, overlay, server, order>>) /\ Process!Opens
InputEnds == Only("process", <<files, overlay, server, order>>) /\ Process!InputEnds
WatchdogFires == Only("process", <<files, overlay, server, order>>) /\ Process!WatchdogFires
ProcessNext == Only("process", <<files, overlay, server, order>>) /\ Process!Next
ServerNext == Only("server", <<files, overlay, process, order>>) /\ Server!Next
OrderNext == Only("order", <<files, overlay, process, server>>) /\ Order!Next

Next == FilesNext \/ OverlayNext \/ ProcessNext \/ ServerNext \/ OrderNext

Spec == Init /\ [][Next]_vars

\* The fairness of each part, as its module states it.
FairSpec ==
    /\ Spec
    /\ \A p \in Processes : WF_vars(Sweeps(p))
    /\ WF_vars(LockAges)
    /\ WF_vars(OverlaySteps)
    /\ WF_vars(Opens) /\ WF_vars(InputEnds) /\ WF_vars(WatchdogFires)

\* Tools that read, write, and change the user's preferences.
MCCatalog ==
    {[name |-> "get", namespace |-> "zendesk tools", readOnly |-> TRUE, hint |-> TRUE],
     [name |-> "update", namespace |-> "zendesk tools", readOnly |-> FALSE, hint |-> FALSE],
     [name |-> "list", namespace |-> "other tools", readOnly |-> TRUE, hint |-> TRUE],
     [name |-> "configure", namespace |-> "preferences", readOnly |-> TRUE, hint |-> FALSE]}

MCAutoOrder == <<c, a, b>>

\* The types of the five parts.
TypeOK == Files!TypeOK /\ Overlay!TypeOK /\ Process!TypeOK /\ Server!TypeOK /\ Order!TypeOK

\* The properties of the parts, as their modules state them.
SweepsAreSafe == Files!SweepsAreSafe
ExpiredGoes == Files!ExpiredGoes
ServedIsStored == Overlay!ServedIsStored
NoClash == Overlay!NoClash
EditsHaveTheirTurn == Overlay!EditsHaveTheirTurn
ProcessEnds == Process!ProcessEnds
CleanlyIsClosed == Process!CleanlyIsClosed
SurfaceHolds == Server!SurfaceHolds
ReorderIsTrue == Order!ReorderIsTrue
=============================================================================
