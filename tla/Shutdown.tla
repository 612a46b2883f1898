-------------------------------- MODULE Shutdown --------------------------------
(* How a process starts and ends: index.ts, utils/shutdown.ts and the close()  *)
(* of transports/http.ts.                                                      *)
(*                                                                             *)
(* Over stdio the shutdown is installed once the transport is connected, and   *)
(* the end of stdin starts it too; over HTTP it is installed first, and a      *)
(* signal may find the start under way.  A signal nobody handles ends the      *)
(* process as Node does.  A handled one must end it, although its cleanup may  *)
(* never settle: a watchdog is armed before it.                                *)

CONSTANT None

\* What the constant is, assumed where it is declared for good.
ShutdownAssumption ==
    None \notin {"start", "closing", "cleanly", "forced", "killed", "failed"}

VARIABLES
    transport, \* "stdio" or "http"
    boot,      \* where the start is: "opening" opens the store and the port
    open,      \* what the transport has opened is
    gone,      \* the client has closed stdin
    cleanup,   \* None, or what the cleanup waits for: the start, or the closing
    watchdog,  \* the timer is armed
    ended      \* None, or how the process ended

vars == <<transport, boot, open, gone, cleanup, watchdog, ended>>

Running == ended = None

\* The start of HTTP waits for its port; that of stdio, the token store loaded,
\* connects and installs the shutdown in one step.
Opens ==
    /\ Running /\ boot = "loading"
    /\ boot' = IF transport = "http" THEN "opening" ELSE "ready"
    /\ open' = TRUE
    /\ UNCHANGED <<transport, gone, cleanup, watchdog, ended>>

Ready ==
    /\ Running /\ boot = "opening"
    /\ boot' = "ready"
    /\ UNCHANGED <<transport, open, gone, cleanup, watchdog, ended>>

\* The start throws: main says why and ends the process, or a cleanup that waited
\* for the start does so before.
StartFails ==
    /\ Running /\ boot \in {"loading", "opening"}
    /\ boot' = "failed"
    /\ ended' \in {"failed"} \cup (IF cleanup = None THEN {} ELSE {"cleanly"})
    /\ UNCHANGED <<transport, open, gone, cleanup, watchdog>>

-----------------------------------------------------------------------------
(* The shutdown.                                                              *)

\* A mutant that arms the watchdog once the cleanup is over:
ArmedAfter == FALSE

\* The watchdog is armed before the cleanup begins.
ArmedBefore == TRUE

\* A mutant that does not wait for a start under way:
Always == TRUE

\* Over HTTP the cleanup waits for a start that has begun.
StartSettled == boot # "opening"

\* Only the first reason counts.  With nothing opened yet the process ends at once.
shutdown ==
    /\ cleanup = None
    /\ watchdog' = ArmedBefore
    /\ cleanup' = IF StartSettled THEN "closing" ELSE "start"
    /\ ended' = IF boot = "ready" \/ ~StartSettled THEN None ELSE "cleanly"
    /\ UNCHANGED <<transport, boot, open, gone>>

Installed == transport = "http" \/ boot = "ready"

Signal ==
    /\ Running
    /\ IF Installed THEN shutdown
       ELSE ended' = "killed" /\ UNCHANGED <<transport, boot, open, gone, cleanup, watchdog>>

ClientLeaves ==
    /\ Running /\ transport = "stdio" /\ ~gone
    /\ gone' = TRUE
    /\ UNCHANGED <<transport, boot, open, cleanup, watchdog, ended>>

\* stdin flows once the transport reads it, which only stdio does.
WatchStdin == transport = "stdio" /\ boot = "ready"

InputEnds == Running /\ gone /\ WatchStdin /\ shutdown

\* The start the cleanup waited for has settled: what it opened is closed.
CloseBegins ==
    /\ Running /\ cleanup = "start" /\ boot = "ready"
    /\ cleanup' = "closing"
    /\ UNCHANGED <<transport, boot, open, gone, watchdog, ended>>

\* What is open is closed, or some of it throws; the process ends either way.
CloseEnds ==
    /\ Running /\ cleanup = "closing"
    /\ \/ open' = FALSE /\ ended' = "cleanly"
       \/ UNCHANGED open /\ ended' = "failed"
    /\ watchdog' = FALSE
    /\ UNCHANGED <<transport, boot, gone, cleanup>>

WatchdogFires ==
    /\ Running /\ watchdog
    /\ ended' = "forced"
    /\ UNCHANGED <<transport, boot, open, gone, cleanup, watchdog>>

-----------------------------------------------------------------------------

Init ==
    /\ transport \in {"stdio", "http"}
    /\ boot = "loading" /\ open = FALSE /\ gone = FALSE
    /\ cleanup = None /\ watchdog = FALSE /\ ended = None

Next ==
    \/ Opens \/ Ready \/ StartFails
    \/ Signal \/ ClientLeaves \/ InputEnds
    \/ CloseBegins \/ CloseEnds \/ WatchdogFires

Spec == Init /\ [][Next]_vars

\* What a stdio start loads is there or not, the end of stdin is delivered and a
\* timer fires.  Nothing is assumed of a port, nor of what a cleanup waits for.
FairSpec == Spec /\ WF_vars(Opens) /\ WF_vars(InputEnds) /\ WF_vars(WatchdogFires)

-----------------------------------------------------------------------------
(* Properties.                                                                *)

TypeOK ==
    /\ transport \in {"stdio", "http"} /\ boot \in {"loading", "opening", "ready", "failed"}
    /\ {open, gone, watchdog} \subseteq BOOLEAN
    /\ cleanup \in {None, "start", "closing"}
    /\ ended \in {None, "cleanly", "forced", "killed", "failed"}

\* A shutdown that has begun ends the process, even when the cleanup or the start
\* it waits for never settles (shutdown.ts:87-90).
ShutdownEnds == cleanup # None ~> ended # None

\* A stdio process whose client has gone ends, whenever it left: behind npx no
\* signal says so (shutdown.ts:37-38).
ClientGoneEnds == gone ~> ended # None

\* A process that has to end does.
ProcessEnds == ShutdownEnds /\ ClientGoneEnds

\* A shutdown that ends by itself leaves nothing open, one that a signal began
\* during the start included (index.ts:117-118); a start that failed leaves what it
\* had opened to the exit.
CleanlyIsClosed == ended = "cleanly" => ~open \/ boot = "failed"
=============================================================================
