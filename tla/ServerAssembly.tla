----------------------------- MODULE ServerAssembly -----------------------------
(* The tools one MCP server exposes: registerToolset of server.ts, routing/    *)
(* registry.ts, the surface --print-tools prints (routing/print.ts), and the   *)
(* swap of a whole generation by a development reload (dev/reload.ts).         *)
(*                                                                             *)
(* A tool is its name, namespace and flags; a generation is a list of tools,   *)
(* in which an edit may repeat one.  Code is loaded before a reload touches    *)
(* anything, and the swap that follows is one step: whichever of the reloads   *)
(* under way ends next brings any generation.  Resources are left out: they    *)
(* are registered and disposed of with the tools and never collide.            *)
EXTENDS Naturals, Sequences

CONSTANTS
    Catalog,   \* the tools an edit may put into a generation
    MaxTools   \* bound: tools of a generation

Namespaces == {"zendesk tools", "other tools", "preferences"}

\* What the constants are, assumed where they are declared for good.  A tool that
\* writes nothing says so, preferences excepted (tests/unit/tools/annotations.test.ts:18-35);
\* the tools of a namespace are defined together, under names of their own.
ServerAssemblyAssumption ==
    /\ Catalog \subseteq [name: STRING, namespace: Namespaces, readOnly: BOOLEAN, hint: BOOLEAN]
    /\ MaxTools \in Nat
    /\ \A tool \in Catalog : tool.readOnly => tool.hint \/ tool.namespace = "preferences"
    /\ \A s, t \in Catalog : s.name = t.name => s.namespace = t.namespace

Generations == UNION {[1 .. n -> Catalog] : n \in 0 .. MaxTools}
Names == {tool.name : tool \in Catalog}
Configs == [mode: {"all", "namespace", "single"}, namespaces: (SUBSET Namespaces) \ {{}},
            tools: SUBSET Names, readOnly: BOOLEAN]

\* What the server has of one registered name: the operations it dispatches to
\* and whether it says it only reads.
Entry == [name: Names \cup Namespaces \cup {"zendesk"}, ops: SUBSET Names, hint: BOOLEAN]

VARIABLES
    config,
    current,    \* the generation registered last
    handles,    \* what the server holds of it
    registered  \* what the server exposes, the reload tool aside

vars == <<config, current, handles, registered>>

-----------------------------------------------------------------------------
(* What a configuration exposes of a generation.                              *)

\* The places of the tools that pass the filters; an empty one lets all pass.
filterTools(gen) ==
    {i \in DOMAIN gen :
        /\ config.readOnly => gen[i].readOnly
        /\ config.namespaces # {} => gen[i].namespace \in config.namespaces
        /\ config.tools # {} => gen[i].name \in config.tools}

ToolEntry(gen, i) == [name |-> gen[i].name, ops |-> {gen[i].name}, hint |-> gen[i].hint]

\* A proxy dispatches to the tools it was cut from, and only reads if all do.
registerProxyTool(gen, name, part) ==
    [name |-> name, ops |-> {gen[i].name : i \in part}, hint |-> \A i \in part : gen[i].hint]

InNamespace(gen, part, ns) == {i \in part : gen[i].namespace = ns}

registerNamespaceProxies(gen, part) ==
    {registerProxyTool(gen, ns, InNamespace(gen, part, ns)) :
        ns \in {gen[i].namespace : i \in part}}

\* The preferences keep a proxy of their own.
registerSingleProxies(gen, part) ==
    LET preferences == InNamespace(gen, part, "preferences")
        zendesk == part \ preferences
    IN  (IF zendesk # {} \/ preferences = {}
         THEN {registerProxyTool(gen, "zendesk", zendesk)} ELSE {})
        \cup (IF preferences # {}
              THEN {registerProxyTool(gen, "preferences", preferences)} ELSE {})

Entries(gen) ==
    LET part == filterTools(gen) IN
    CASE config.mode = "all" -> {ToolEntry(gen, i) : i \in part}
      [] config.mode = "namespace" -> registerNamespaceProxies(gen, part)
      [] config.mode = "single" -> registerSingleProxies(gen, part)

-----------------------------------------------------------------------------
(* Registration.                                                              *)

\* The places of the tools registered one by one before a name that is taken
\* already, by one of `left`, the reload tool or an earlier one.
Taken(gen, left, i) ==
    \/ gen[i].name \in {e.name : e \in left} \cup {"reload_tools"}
    \/ \E j \in filterTools(gen) : j < i /\ gen[j].name = gen[i].name

Collides(gen, left) == config.mode = "all" /\ \E i \in filterTools(gen) : Taken(gen, left, i)

\* A mutant that leaves what it had registered before the throw:
Partial(gen, left) ==
    {ToolEntry(gen, i) : i \in {k \in filterTools(gen) :
        \A j \in filterTools(gen) : j <= k => ~Taken(gen, left, j)}}

\* What had been registered before the throw is removed again.
RolledBack(gen, left) == {}

\* registerToolset: everything or nothing is added to what was left.
registerToolset(gen, left) ==
    left \cup (IF Collides(gen, left) THEN RolledBack(gen, left) ELSE Entries(gen))

\* reload: the old generation is disposed of, the new one registered; if that
\* throws the old one is registered again, and if that throws too nothing is.
Reload(gen) ==
    LET left == registered \ handles
        after == registerToolset(gen, left)
    IN  /\ IF ~Collides(gen, left)
           THEN registered' = after /\ current' = gen /\ handles' = Entries(gen)
           ELSE /\ registered' = registerToolset(current, after)
                /\ handles' = IF Collides(current, after) THEN handles ELSE Entries(current)
                /\ UNCHANGED current
        /\ UNCHANGED config

Init ==
    /\ config \in Configs
    /\ current \in {gen \in Generations : ~Collides(gen, {})}
    /\ handles = Entries(current) /\ registered = handles

Next == \E gen \in Generations : Reload(gen)

Spec == Init /\ [][Next]_vars

-----------------------------------------------------------------------------
(* What is printed.                                                           *)

\* renderToolSurface: the names printed, and the operations under each.
renderToolSurface(gen) ==
    LET part == filterTools(gen)
        Printed(name, places) == [name |-> name, ops |-> {gen[i].name : i \in places}]
    IN  CASE part = {} -> {}
          [] part # {} /\ config.mode = "all" -> {Printed(gen[i].name, {i}) : i \in part}
          [] part # {} /\ config.mode = "namespace" ->
               {Printed(ns, InNamespace(gen, part, ns)) : ns \in {gen[i].namespace : i \in part}}
          [] part # {} /\ config.mode = "single" -> {Printed("zendesk", part)}

-----------------------------------------------------------------------------
(* Properties.                                                                *)

TypeOK ==
    /\ config \in Configs /\ current \in Generations
    /\ handles \subseteq Entry /\ registered \subseteq Entry

\* What is exposed is one whole generation, the last that could be registered: a
\* reload that throws leaves the tools it found (dev/reload.ts:128-130, server.ts:733-736).
WholeGenerationLive == registered = Entries(current)

\* No filter is passed by through a proxy, and no tool it lets pass is lost: each
\* is an operation of exactly one registered name (server.ts:139-143).
FiltersHold ==
    LET kept == {current[i].name : i \in filterTools(current)} IN
    /\ UNION {e.ops : e \in registered} = kept
    /\ \A d, e \in registered : d.ops \cap e.ops # {} => d = e

Preferences == {tool.name : tool \in {t \in Catalog : t.namespace = "preferences"}}

\* Under --read-only whatever is not a preference says that it only reads
\* (server.ts:210-211, 263-265).
ReadOnlySaysSo ==
    config.readOnly => \A e \in registered : e.hint \/ e.ops \subseteq Preferences

\* What is printed is what is registered (routing/print.ts:58-59), preferences under
\* --mode single excepted, which are printed under a name they do not have, and
\* the proxy without an operation, which is not printed.
PrintedIsRegistered ==
    config.mode # "single" \/ {e.name : e \in registered} \subseteq {"zendesk"} =>
        renderToolSurface(current) =
            {[name |-> e.name, ops |-> e.ops] : e \in {d \in registered : d.ops # {}}}

\* What a session exposes, its filters and what is printed of it agree.
SurfaceHolds == WholeGenerationLive /\ FiltersHold /\ ReadOnlySaysSo /\ PrintedIsRegistered
=============================================================================
