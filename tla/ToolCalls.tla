------------------------------- MODULE ToolCalls -------------------------------
(***************************************************************************)
(* One tool call, from its dispatch to its result: the plan of its tool is *)
(* run step by step, each request with the attempts and failures of        *)
(* ZendeskRequest (server.ts runHandler, tools/*.ts).                      *)
(***************************************************************************)
EXTENDS ZendeskRequest, ToolPlans

CONSTANTS Tools,      \* every tool, as a record of ToolPlans
          Brands,     \* of the account
          Listed,     \* the brands --brand-ids lists when it lists several
          BySubdomain,\* those of them it lists by their very subdomain
          PageCap,    \* pages of a capped walk (MAX_COMMENT_PAGES and the like)
          MaxRounds   \* bound: requests of one repeated step, pages that move on

\* Declared in each definition: readOnly is on no tool that writes to Zendesk.
ASSUME ToolsAssumption ==
  /\ Listed \subseteq Brands /\ Listed # {} /\ BySubdomain \subseteq Listed
  /\ Brands \cap {"none", "unknown", "default"} = {}
  /\ MaxRounds \in Nat /\ PageCap \in Nat
  /\ \A t \in Tools : t.plan \in Seq(PlanSteps)
  /\ \A t \in Tools : t.readOnly =>
       \A i \in DOMAIN t.plan : t.plan[i].methods \subseteq {"GET"}

\* No failure of a write is tolerated, and a call ends early before it writes.
WritesAreHard == \A t \in Tools : \A i \in DOMAIN t.plan :
  t.plan[i].soft # "none" => t.plan[i].methods \subseteq {"GET"}
EndsComeFirst == \A t \in Tools : \A i, j \in DOMAIN t.plan :
  t.plan[i].kind = "end" /\ j <= i => t.plan[j].methods \subseteq {"GET"}
\* A tool that may show a part of a listing only reads, and decides nothing after.
Cut(s) == s.walk \in {"capped", "counted"}
PartsAreShown == \A t \in Tools : \A i, j \in DOMAIN t.plan :
  Cut(t.plan[i]) => /\ t.plan[j].methods \subseteq {"GET"}
                    /\ t.plan[j].kind = "end" => j < i

BrandModes == {"unset", "single", "multi", "all"}
Outcomes == {"none", "ok", "early", "refused", "error"}

VARIABLES readOnly,   \* --read-only
          brandIds,   \* what --brand-ids is: unset, single, multi or all
          tool,       \* the tool called
          phase,      \* idle, token, brand, lookup, allow, plan or done
          target,     \* the brand the call names, unknown if it is none's
          verbatim,   \* the call names it by an entry of --brand-ids
          host,       \* the Help Center addressed: of a brand, or the default
          at, rounds, \* the step of the plan, and its requests so far
          circling,   \* the page's cursor is the one it was asked by
          sent,       \* writes sent to Zendesk by this call
          written,    \* writes Zendesk applied for this call
          partial,    \* a cap of this server has cut a listing of this call
          outcome,    \* of the call
          cause,      \* the answer behind an error, or none
          dropped     \* onUnauthorized was called

config == <<readOnly, brandIds>>
brand == <<target, verbatim, host>>
progress == <<at, rounds, circling>>
books == <<sent, written, partial>>
result == <<outcome, cause, dropped>>
callVars == <<tool, phase, brand, progress, books, result>>
vars == <<readOnly, brandIds, callVars, requestVars>>

\* The brands a call may reach; a single entry locks the server to one brand.
Locked == CHOOSE b \in Listed : TRUE
AllowedBrands == CASE brandIds = "unset" -> {"default"}
                   [] brandIds = "single" -> {Locked}
                   [] brandIds = "multi" -> Listed
                   [] brandIds = "all" -> Brands

\* list_brands exists only where a call names its brand.
Available(t) == t.name = "list_brands" => brandIds \in {"multi", "all"}
filterToolsByNothing(ts) == ts       \* a mutant
filterTools(ts) == {t \in ts : readOnly => t.readOnly}
Exposed == {t \in filterTools(Tools) : Available(t)}

NoTool == [name |-> "none", scope |-> "none", readOnly |-> TRUE, plan |-> <<>>]
BrandScope == tool.scope = "brand"
Plan == tool.plan
Step == Plan[at]

Init == /\ readOnly \in BOOLEAN /\ brandIds \in BrandModes
        /\ tool = NoTool /\ phase = "idle"
        /\ target = "none" /\ verbatim = FALSE /\ host = "none"
        /\ at = 1 /\ rounds = 0 /\ circling = FALSE
        /\ sent = 0 /\ written = 0 /\ partial = FALSE
        /\ outcome = "none" /\ cause = "none" /\ dropped = FALSE
        /\ RequestInit

End(how) == /\ phase' = "done" /\ outcome' = how
            /\ UNCHANGED <<config, tool, brand, progress, books, cause, dropped>>

\* The dispatch finds the operation among those the proxy carries.
CallTool(t) == /\ tool' = t /\ phase' = "token"
               /\ UNCHANGED <<config, brand, progress, books, result, requestVars>>

\* Unknown or invalid parameters, or no valid token: no request is sent.
Reject == /\ phase = "token" /\ End("refused") /\ UNCHANGED requestVars

Authorize == /\ phase = "token"
             /\ phase' = IF BrandScope THEN "brand" ELSE "plan"
             /\ UNCHANGED <<config, tool, brand, progress, books, result, requestVars>>

SendRequest(m) == /\ Send(m)
                  /\ sent' = sent + (IF m = "GET" THEN 0 ELSE 1)
                  /\ UNCHANGED <<config, tool, phase, brand, progress, written, partial,
                                 result>>

\* The request's own steps, while the call waits.
AwaitRequest == RequestStep /\ UNCHANGED <<config, callVars>>

\* A 401 that no handler has reworded.
noteUnauthorized(hides) == answer = "unauthorized" /\ ~hides

\* runHandler: the call fails with the error of the request that just failed.
FailCall(hides) ==
  /\ stage = "failed" /\ Take
  /\ phase' = "done" /\ outcome' = "error"
  /\ cause' = answer /\ dropped' = noteUnauthorized(hides)
  /\ written' = written + (IF IsWrite THEN applied ELSE 0)
  /\ UNCHANGED <<config, tool, brand, progress, sent, partial>>
--------------------------------------------------------------------------------
(***************************************************************************)
(* Listings.  A page is the last one, or has a next one, by a cursor that  *)
(* may be the one it was asked by ("same") or be missing ("lost").  A page *)
(* with what the walk looks for is its last one.                           *)
(***************************************************************************)
ByCursor(walk) == walk \in {"free", "guarded", "capped"}
Capped(walk) == walk \in {"capped", "counted", "whole"}
Rests(walk) == {"end"}
  \cup {r \in {"next"} : walk # "one" /\ (~Capped(walk) => rounds + 1 < MaxRounds)}
  \cup {r \in {"same"} : ByCursor(walk) /\ rounds > 0}
  \cup {r \in {"lost"} : ByCursor(walk)}

\* The walk asks for the next page; and a mutant, by a cursor that does not move.
FollowsAny(walk, rest) ==
  rest \in {"next", "same"} /\ (Capped(walk) => rounds + 1 < PageCap)
Follows(walk, rest) ==
  /\ rest \in {"next", "same"}
  /\ Capped(walk) => rounds + 1 < PageCap
  /\ walk = "guarded" => rest # "same"

\* It fails, rather than pass a part of the listing for the whole; and a mutant,
\* which passes what is under the cap.
BreaksIfGuarded(walk, rest) ==
  ~Follows(walk, rest) /\ rest # "end" /\ walk = "guarded"
Breaks(walk, rest) ==
  /\ ~Follows(walk, rest) /\ rest # "end"
  /\ walk \in {"guarded", "whole"}

TurnPage(walk, rest) ==
  /\ rounds' = IF rest = "same" /\ ~Capped(walk) THEN rounds ELSE rounds + 1
  /\ circling' = (rest = "same")
--------------------------------------------------------------------------------
(***************************************************************************)
(* resolveBrand: the call's brand, none, or one the account does not have. *)
(***************************************************************************)
AccountDefault == /\ phase = "brand" /\ brandIds = "unset"
                  /\ host' = "default" /\ phase' = "plan"
                  /\ UNCHANGED <<config, tool, target, verbatim, progress, books, result,
                                 requestVars>>

\* The one brand of the server, or the call's, in the words of --brand-ids or
\* in others.  Either may be of no brand of the account.
NameBrand(b, words) ==
  /\ phase = "brand"
  /\ \/ brandIds = "single" /\ b \in {Locked, "unknown"} /\ words
     \/ brandIds = "multi" /\ (words => b \in Listed \cup {"unknown"})
     \/ brandIds = "all" /\ ~words
  /\ target' = b /\ verbatim' = words /\ phase' = "lookup"
  /\ UNCHANGED <<config, tool, host, progress, books, result, requestVars>>

\* A brand where none is accepted, or none where one is required.
RefuseBrand == /\ phase = "brand" /\ End("refused") /\ UNCHANGED requestVars

InLookup == phase \in {"lookup", "allow"}

Reach == /\ host' = target /\ phase' = "plan" /\ rounds' = 0
         /\ UNCHANGED <<config, tool, target, verbatim, at, circling, books, result>>

\* assertAllowed: the entries that resolve, and each entry taken as a subdomain.
Settle(entries) == IF target \in entries \cup BySubdomain THEN Reach ELSE End("refused")

\* The brands are known.  A call that names one of several in other words than
\* --brand-ids has the entries resolved as well, by a lookup of their own.
Listing == CASE phase = "allow" -> Settle(Listed)
             [] phase = "lookup" /\ target = "unknown" -> End("refused")
             [] phase = "lookup" /\ target # "unknown" /\ (brandIds = "multi" => verbatim)
                  -> Reach
             [] OTHER -> /\ phase' = "allow" /\ rounds' = 0
                         /\ UNCHANGED <<config, tool, brand, at, circling, books, result>>

\* The brand list is cached, or walked.
LookupCached == /\ InLookup /\ stage = "idle" /\ rounds = 0
                /\ Listing /\ UNCHANGED requestVars

LookupAnswered ==
  /\ InLookup /\ stage = "answered" /\ Take
  /\ \E rest \in Rests("guarded") :
       \/ rest = "end" /\ Listing
       \/ /\ Follows("guarded", rest) /\ TurnPage("guarded", rest)
          /\ UNCHANGED <<config, tool, phase, brand, at, books, result>>
       \/ Breaks("guarded", rest) /\ phase = "lookup" /\ End("error")
       \/ Breaks("guarded", rest) /\ phase = "allow" /\ Settle({})

\* An error of the call's own lookup ends it; of the entries', none resolves.
LookupFailed == \/ phase = "lookup" /\ FailCall(FALSE)
                \/ phase = "allow" /\ stage = "failed" /\ Take /\ Settle({})
--------------------------------------------------------------------------------
GoOn == at' = at + 1 /\ rounds' = 0 /\ circling' = FALSE
SameButProgress == UNCHANGED <<config, tool, phase, brand, books, result>>

InPlan == phase = "plan" /\ at <= Len(Plan)

SkipStep == /\ InPlan /\ stage = "idle" /\ rounds = 0
            /\ Step.optional
            /\ GoOn /\ SameButProgress /\ UNCHANGED requestVars

SendStep(m) == /\ InPlan /\ Step.kind = "call" /\ m \in Step.methods
               /\ SendRequest(m)

\* Of a step of several requests, the next one.
NextOfEach == /\ Step.many /\ rounds + 1 < MaxRounds
              /\ rounds' = rounds + 1 /\ UNCHANGED <<at, circling>>

StepAnswered ==
  /\ InPlan /\ stage = "answered" /\ Take
  /\ written' = written + (IF IsWrite THEN applied ELSE 0)
  /\ \/ NextOfEach /\ UNCHANGED partial
     \/ \E rest \in Rests(Step.walk) :
          \/ /\ Follows(Step.walk, rest) /\ TurnPage(Step.walk, rest)
             /\ UNCHANGED <<at, partial>>
          \/ /\ ~Follows(Step.walk, rest) /\ ~Breaks(Step.walk, rest) /\ GoOn
             /\ partial' = (partial \/ rest \in {"next", "same"})
  /\ UNCHANGED <<config, tool, phase, brand, sent, result>>

\* A walk past its page cap, where a part would be mistaken for the whole, or
\* whose cursor is of no use.
WalkBroken == /\ InPlan /\ stage = "answered" /\ Take
              /\ \E rest \in Rests(Step.walk) : Breaks(Step.walk, rest)
              /\ End("error")

\* A failure the handler catches: the answer is poorer by what it would show.
TolerateFailure ==
  /\ InPlan /\ stage = "failed" /\ Take
  /\ Step.soft = "all" \/ (Step.soft = "notFound" /\ answer = "rejected")
  /\ NextOfEach \/ GoOn
  /\ written' = written + (IF IsWrite THEN applied ELSE 0)
  /\ UNCHANGED <<config, tool, phase, brand, sent, partial, result>>

StepFailed == InPlan /\ Step.soft # "all" /\ FailCall(Step.hides)

\* What was read settles the call: nothing to change, or a refusal.
EndEarly == /\ InPlan /\ Step.kind = "end" /\ stage = "idle"
            /\ \/ End(Step.how)
               \/ GoOn /\ SameButProgress
            /\ UNCHANGED requestVars

\* A write of this server's own state, which may fail as well.
SaveStep == /\ InPlan /\ Step.kind = "save" /\ stage = "idle"
            /\ \/ GoOn /\ SameButProgress
               \/ End("error")
            /\ UNCHANGED requestVars

Finish == /\ phase = "plan" /\ at > Len(Plan) /\ End("ok")
          /\ UNCHANGED requestVars

\* The result goes back; the next call starts afresh.
Return == /\ phase = "done" /\ phase' = "idle" /\ tool' = NoTool
          /\ target' = "none" /\ verbatim' = FALSE /\ host' = "none"
          /\ at' = 1 /\ rounds' = 0 /\ circling' = FALSE
          /\ sent' = 0 /\ written' = 0 /\ partial' = FALSE
          /\ outcome' = "none" /\ cause' = "none" /\ dropped' = FALSE
          /\ UNCHANGED <<config, requestVars>>

PlanStep == \/ SkipStep \/ StepAnswered \/ WalkBroken \/ TolerateFailure
            \/ StepFailed \/ EndEarly \/ SaveStep \/ Finish
            \/ \E m \in Methods : SendStep(m)

BrandStep == \/ AccountDefault \/ RefuseBrand
             \/ LookupCached \/ LookupAnswered \/ LookupFailed
             \/ \E b \in Brands \cup {"unknown"}, words \in BOOLEAN : NameBrand(b, words)
             \/ InLookup /\ SendRequest("GET")

CallStep == Reject \/ Authorize \/ BrandStep \/ PlanStep \/ AwaitRequest \/ Return

Next == (phase = "idle" /\ \E t \in Exposed : CallTool(t)) \/ CallStep

\* A call awaits nothing but its own requests, each of which ends.
Spec == Init /\ [][Next]_vars /\ WF_vars(CallStep)
--------------------------------------------------------------------------------
TypeOK == /\ readOnly \in BOOLEAN /\ brandIds \in BrandModes
          /\ tool \in Tools \cup {NoTool}
          /\ phase \in {"idle", "token", "brand", "lookup", "allow", "plan", "done"}
          /\ verbatim \in BOOLEAN /\ circling \in BOOLEAN /\ partial \in BOOLEAN
          /\ target \in Brands \cup {"none", "unknown"}
          /\ host \in Brands \cup {"none", "default"}
          /\ at \in Nat /\ rounds \in Nat /\ sent \in Nat /\ written \in Nat
          /\ outcome \in Outcomes /\ cause \in Answers \cup {"none", "cut"}
          /\ dropped \in BOOLEAN
          /\ RequestTypeOK

\* Under --read-only no write reaches Zendesk, by any tool, through whatever
\* fails and is tried again.
ReadOnlyWritesNothing == readOnly => sent = 0 /\ (IsWrite => applied = 0)

\* No request of a Help Center tool goes to a brand outside --brand-ids,
\* whatever the call names, in whatever words, and however the lookups of that
\* name and of the entries go.
OnlyAllowedBrands ==
  phase = "plan" /\ BrandScope => host \in AllowedBrands

\* An answer that says nothing was changed, or a refusal, is true: no write of
\* the call had reached Zendesk.
UnchangedMeansUnwritten == outcome \in {"early", "refused"} => sent = 0 /\ written = 0

\* A call is answered only if each write it sent was applied, exactly once.
AnsweredMeansWritten == outcome = "ok" => written = sent

\* Nothing rests on a part: no call whose listing a cap has cut writes, or ends
\* by what it found in the part.
NothingRestsOnAPart == partial => sent = 0 /\ outcome \notin {"early", "refused"}

\* What the operator has not allowed is not done, by any tool.
ActsWithinItsLimits == ReadOnlyWritesNothing /\ OnlyAllowedBrands

\* What an answer says of the call's writes is true, and rests on whole listings.
AnswersAreTrue ==
  AnsweredMeansWritten /\ UnchangedMeansUnwritten /\ NothingRestsOnAPart

\* runHandler's comment: a call Zendesk ends with a 401 drops the token, so that
\* the next call does not replay it.
EveryRefusedTokenDropped ==
  outcome = "error" /\ cause = "unauthorized" => dropped

\* Every call ends, whatever fails on the way and whatever cursors Zendesk
\* gives, but one: fetchSectionOrder, resolveViewId and readGroupIds ask again
\* for as long as Zendesk answers with the cursor it was asked by.
CallEnds == \/ phase = "token" ~> phase = "done"
            \/ []<>(circling /\ phase = "plan" /\ Step.walk = "free")
================================================================================
