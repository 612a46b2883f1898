------------------------------- MODULE ToolPlans -------------------------------
(***************************************************************************)
(* The vocabulary of the tool tables: what a handler does, step by step,   *)
(* between its parameters and its answer.  The data of the steps is left   *)
(* out; their order, their methods, the failures a handler catches and the *)
(* places where it may end early are kept.                                 *)
(***************************************************************************)
EXTENDS Sequences

Call(ms) == [kind |-> "call", methods |-> ms, optional |-> FALSE, many |-> FALSE,
             walk |-> "one", soft |-> "none", hides |-> FALSE, how |-> "none"]

\* How a listing is read: one page of it; by cursors, as long as there is one
\* ("free"), only while it moves ("guarded"), or up to a cap, with a notice
\* ("capped"); by page numbers up to a cap, with a notice ("counted") or an
\* error, lest a part be taken for the whole ("whole").
Walks == {"one", "free", "guarded", "capped", "counted", "whole"}

PlanSteps == [kind : {"call", "end", "save"},
              methods : SUBSET {"GET", "POST", "PUT", "DELETE"},
              optional : BOOLEAN, many : BOOLEAN, walk : Walks,
              soft : {"none", "notFound", "all"}, hides : BOOLEAN,
              how : {"none", "early", "refused"}]

Get == Call({"GET"})
Post == Call({"POST"})
Put == Call({"PUT"})
Delete == Call({"DELETE"})
PostOrPut == Call({"POST", "PUT"})
Pages(walk) == [Get EXCEPT !.walk = walk]

\* A failure of the step is caught and the handler goes on; or only a 404.
Soft(s) == [s EXCEPT !.soft = "all"]
PastNotFound(s) == [s EXCEPT !.soft = "notFound"]
\* The parameters, or what was read, may make the step unnecessary.
Optional(s) == [s EXCEPT !.optional = TRUE]
\* Once for each of several things, or of none.
Each(s) == [s EXCEPT !.many = TRUE, !.optional = TRUE]
\* A 401 is thrown again as an error that noteUnauthorized does not know; the
\* handlers that reword only a 403 are not among these.
HidesUnauthorized(s) == [s EXCEPT !.hides = TRUE]

\* What was read may end the call here, with an answer or an error.
MayAnswer == [Call({}) EXCEPT !.kind = "end", !.how = "early"]
MayRefuse == [Call({}) EXCEPT !.kind = "end", !.how = "refused"]

\* A write of this server's own state, not of Zendesk's.
Save == [Call({}) EXCEPT !.kind = "save"]

Tool(name, namespace, scope, readOnly, hint, plan) ==
  [name |-> name, namespace |-> namespace, scope |-> scope,
   readOnly |-> readOnly, readOnlyHint |-> hint, plan |-> plan]

Reads(name, namespace, plan) == Tool(name, namespace, "account", TRUE, TRUE, plan)
Writes(name, namespace, plan) == Tool(name, namespace, "account", FALSE, FALSE, plan)
BrandReads(name, plan) == Tool(name, "help_center", "brand", TRUE, TRUE, plan)
BrandWrites(name, plan) == Tool(name, "help_center", "brand", FALSE, FALSE, plan)
================================================================================
