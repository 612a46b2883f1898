------------------------------ MODULE MCToolCalls ------------------------------
(* ToolCalls with every tool of the server, on three brands.                  *)
EXTENDS ToolCalls, TicketTools, RequestTools, HelpCenterTools

ToolSet == TicketToolSet \cup RequestToolSet \cup HelpCenterToolSet

\* What AnswersTrue assumes of the tables holds of these.
ASSUME TablesAssumption == WritesAreHard /\ EndsComeFirst /\ PartsAreShown
================================================================================
