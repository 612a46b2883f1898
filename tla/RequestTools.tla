------------------------------ MODULE RequestTools ------------------------------
(***************************************************************************)
(* The tools of the requests namespace, the portal of an end user, as      *)
(* plans: tools/requests.ts.                                               *)
(***************************************************************************)
EXTENDS ToolPlans

\* Every page or an error: a partial form would be described as the whole.
fetchAllPages == Pages("whole")
fetchEndUserForms == fetchAllPages
fetchVisibleTicketFields == fetchAllPages
fetchAllRequestComments == Optional(fetchAllPages)

\* A form the user cannot see is refused, not replaced by the default one.
resolveForm == <<fetchEndUserForms, fetchVisibleTicketFields, MayRefuse>>
validateSubmission == MayRefuse

uploads == Each(Post)

list_request_forms == Reads("list_request_forms", "requests", <<fetchEndUserForms>>)
get_request_form == Reads("get_request_form", "requests", resolveForm)
create_request == Writes("create_request", "requests",
  resolveForm \o <<validateSubmission, uploads, Post>>)
list_requests == Reads("list_requests", "requests", <<Get>>)
get_request == Reads("get_request", "requests", <<Get, fetchAllRequestComments>>)
add_request_comment == Writes("add_request_comment", "requests", <<uploads, Put>>)
\* Solved already, or not solvable by the requester: answered without a write.
mark_request_solved == Writes("mark_request_solved", "requests", <<Get, MayAnswer, Put>>)

RequestToolSet ==
  {list_request_forms, get_request_form, create_request, list_requests, get_request,
   add_request_comment, mark_request_solved}
================================================================================
