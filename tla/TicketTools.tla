------------------------------ MODULE TicketTools ------------------------------
(***************************************************************************)
(* The tools of the tickets, users and preferences namespaces, as plans:   *)
(* tools/tickets.ts, search.ts, users.ts, sla-alerts.ts, preferences.ts.   *)
(* The reads a handler makes in parallel are listed one after the other.   *)
(***************************************************************************)
EXTENDS ToolPlans

\* The names a response shows, in batches; a failed batch leaves bare ids.
resolveEntityNames == Soft(Each(Get))
resolveUserDisplayNames == resolveEntityNames
resolveAuditNames == <<resolveEntityNames, resolveEntityNames>>

\* A ticket's SLA comes from a search of its own, and never fails the ticket.
fetchTicketSla == Soft(Optional(Get))

\* The caller's thresholds for the urgency line; the admin's when unreadable.
urgencyRenderer == Soft(Optional(Get))

\* The whole comment thread, cut at MAX_COMMENT_PAGES with a notice.
fetchAllTicketComments == Pages("capped")

\* A 404 among the ids is passed over; the rest of a failure is the call's.
fetchAttachmentsByIds == PastNotFound(Each(Get))
embedOrExplain == Soft(Each(Get))

\* group:me needs the caller's groups, and exactly one of them.
readGroupIds == Pages("free")
resolveGroupMe == <<Optional(Get), Optional(readGroupIds), MayRefuse>>

\* A view named by its title is looked for page by page.
resolveViewId == <<Optional(Pages("free")), MayAnswer>>
executeView == Get
hydrateViewTickets == Optional(Get)
fetchViewCounts == Soft(Each(Get))

\* Each upload is added to the token of the one before.
uploadAttachments == Each(Post)

get_ticket == Reads("get_ticket", "tickets",
  <<Get, fetchTicketSla, Optional(Get), urgencyRenderer, resolveUserDisplayNames>>)
get_ticket_history == Reads("get_ticket_history", "tickets", <<Get>> \o resolveAuditNames)
list_ticket_comments == Reads("list_ticket_comments", "tickets",
  <<Get, resolveUserDisplayNames>>)
get_ticket_attachments == Reads("get_ticket_attachments", "tickets",
  <<fetchAttachmentsByIds, Optional(fetchAllTicketComments), embedOrExplain>>)
search_tickets == Reads("search_tickets", "tickets",
  resolveGroupMe \o <<Get, urgencyRenderer>>)
create_ticket == Writes("create_ticket", "tickets", <<Post>>)
update_ticket == Writes("update_ticket", "tickets", <<Put, resolveUserDisplayNames>>)
add_private_note == Writes("add_private_note", "tickets", <<uploadAttachments, Put>>)
add_public_comment == Writes("add_public_comment", "tickets", <<uploadAttachments, Put>>)
list_tickets == Reads("list_tickets", "tickets", <<Get>>)
get_linked_incidents == Reads("get_linked_incidents", "tickets", <<Get>>)
manage_tags == Writes("manage_tags", "tickets", <<Get, Put>>)
list_sla_policies == Reads("list_sla_policies", "tickets", <<Get>>)
get_ticket_metrics == Reads("get_ticket_metrics", "tickets", <<Get>>)
list_ticket_fields == Reads("list_ticket_fields", "tickets", <<Get>>)
list_views == Reads("list_views", "tickets", <<Get, fetchViewCounts>>)
get_view_tickets == Reads("get_view_tickets", "tickets",
  resolveViewId \o <<executeView, hydrateViewTickets>>)
list_macros == Reads("list_macros", "tickets", <<Get>>)
\* Declared a write although it only computes what the macro would change.
preview_macro_diff == Writes("preview_macro_diff", "tickets", <<Get, Get>>)
search == Reads("search", "tickets", resolveGroupMe \o <<Get>>)

\* A view, a search, or one search for each of the caller's groups (two here):
\* each in part when it is too large.
readPages == Optional(Pages("counted"))
fetchScope == <<Optional(Get), Optional(readGroupIds), readPages, readPages>>

\* The form may ask the user first; the marker that it was shown is saved.
settleForm == <<MayAnswer, Optional(Save)>>
list_sla_alerts == Reads("list_sla_alerts", "tickets",
  resolveViewId \o settleForm \o fetchScope)
\* Kept under --read-only: it writes this server's own settings.
configure_sla_alerts == Tool("configure_sla_alerts", "preferences", "account", TRUE, FALSE,
  <<Optional(Get), MayAnswer, MayRefuse, Save>>)

get_current_user == Reads("get_current_user", "users", <<Get>>)
search_users == Reads("search_users", "users", <<Get>>)
get_user == Reads("get_user", "users", <<Get>>)
get_organization == Reads("get_organization", "users", <<Get>>)
list_organizations == Reads("list_organizations", "users", <<Get>>)

TicketToolSet ==
  {get_ticket, get_ticket_history, list_ticket_comments, get_ticket_attachments,
   search_tickets, create_ticket, update_ticket, add_private_note, add_public_comment,
   list_tickets, get_linked_incidents, manage_tags, list_sla_policies, get_ticket_metrics,
   list_ticket_fields, list_views, get_view_tickets, list_macros, preview_macro_diff,
   search, list_sla_alerts, configure_sla_alerts, get_current_user, search_users,
   get_user, get_organization, list_organizations}
================================================================================
