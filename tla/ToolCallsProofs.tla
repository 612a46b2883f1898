---------------------------- MODULE ToolCallsProofs ----------------------------
(***************************************************************************)
(* Proofs about ToolCalls, and about the requests its calls are made of.   *)
(***************************************************************************)
EXTENDS ToolCalls, TLAPS

(***************************************************************************)
(* The requests.  What makes a replay safe: until the last attempt of a    *)
(* write, nothing of it has been applied.                                  *)
(***************************************************************************)
RequestInv ==
  /\ RequestTypeOK
  /\ ~IsWrite => applied = 0
  /\ stage = "idle" => method = "GET"
  /\ stage \in {"idle", "sending"} => applied = 0 /\ answer = "none" /\ note = "none"
  /\ stage \in {"reading", "answered"} =>
       /\ answer \in Answers /\ note = "none" /\ applied <= 1
       /\ answer \notin {"ok", "server"} => applied = 0
       /\ answer = "ok" /\ IsWrite => applied = 1
  /\ stage = "answered" => answer = "ok"
  /\ stage = "failed" => /\ applied <= 1
                         /\ note \in {"neverSent", "refused"} => applied = 0
                         /\ applied > 0 /\ note # "mayHaveApplied" => answer = "cut"

RequestMoves == \/ \E m \in Methods : Send(m)
                \/ RequestStep
                \/ Take
                \/ UNCHANGED requestVars

\* No move of a request breaks its invariant: the replays are those of a write
\* that is known not to be applied.
LEMMA RequestKept == RequestInv /\ RequestMoves => RequestInv'
<1> SUFFICES ASSUME RequestInv, RequestMoves PROVE RequestInv'
    OBVIOUS
<1> USE MaxAttemptsAssumption DEF RequestInv, RequestTypeOK, IsWrite, Methods, Answers, Notes
<1>1. CASE \E m \in Methods : Send(m)
      BY <1>1 DEF Send
<1>2. CASE RequestStep
  <2>1. CASE Unreachable
        BY <2>1 DEF Unreachable, Fail, Replay, Last
  <2>2. CASE LostAnswer
        BY <2>2 DEF LostAnswer, Fail, Replay, Last, ReplaysLost, MayApply
  <2>3. CASE ReadBody
        BY <2>3 DEF ReadBody, Fail, ErrorNote
  <2>4. CASE LoseBody
        BY <2>4 DEF LoseBody
  <2>5. ASSUME NEW s \in Answers, NEW parked \in BOOLEAN, Respond(s, parked)
        PROVE  RequestInv'
    <3>1. CASE Replayable(s) /\ ~Last /\ ~parked
          BY <2>5, <3>1 DEF Respond, Replay, Replayable, Last, ReplaysServerError, MayApply
    <3>2. CASE ~(Replayable(s) /\ ~Last /\ ~parked)
          BY <2>5, <3>2 DEF Respond, MayApply
    <3> QED BY <3>1, <3>2
  <2> QED BY <1>2, <2>1, <2>2, <2>3, <2>4, <2>5 DEF RequestStep
<1>3. CASE Take
      BY <1>3 DEF Take
<1>4. CASE UNCHANGED requestVars
      BY <1>4 DEF requestVars
<1> QED BY <1>1, <1>2, <1>3, <1>4 DEF RequestMoves

(***************************************************************************)
(* The calls.                                                              *)
(***************************************************************************)
CallTypeOK ==
  /\ readOnly \in BOOLEAN /\ brandIds \in BrandModes
  /\ tool \in Tools \cup {NoTool}
  /\ phase \in {"idle", "token", "brand", "lookup", "allow", "plan", "done"}
  /\ verbatim \in BOOLEAN /\ circling \in BOOLEAN /\ partial \in BOOLEAN
  /\ target \in Brands \cup {"none", "unknown"}
  /\ host \in Brands \cup {"none", "default"}
  /\ at \in Nat \ {0} /\ rounds \in Nat /\ sent \in Nat /\ written \in Nat
  /\ outcome \in Outcomes /\ cause \in Answers \cup {"none", "cut"}
  /\ dropped \in BOOLEAN

\* A request under way is the brand lookup's or the step's of the plan.
RequestOfStep ==
  stage # "idle" => \/ InLookup /\ method = "GET"
                    \/ InPlan /\ method \in Step.methods

LookupAllowed ==
  /\ phase = "lookup" => /\ brandIds # "unset"
                         /\ brandIds = "single" => target \in {Locked, "unknown"}
                         /\ brandIds = "multi" /\ verbatim => target \in Listed \cup {"unknown"}
                         /\ target # "none"
  /\ phase = "allow" => brandIds = "multi" /\ target \in Brands

ReadOnlyCall == readOnly => tool.readOnly /\ sent = 0

\* The outcome is set once, by the step that ends the call.
Undecided == phase # "done" => outcome = "none" /\ cause = "none" /\ ~dropped

IInv == /\ RequestInv /\ CallTypeOK /\ RequestOfStep /\ LookupAllowed /\ ReadOnlyCall
        /\ phase # "idle" => tool \in Tools
        /\ Undecided /\ OnlyAllowedBrands

\* Every step of a call moves its request by the rules, or leaves it alone.
LEMMA CallsMoveRequests == [Next]_vars => RequestMoves
<1> SUFFICES ASSUME [Next]_vars PROVE RequestMoves
    OBVIOUS
<1> USE DEF RequestMoves
<1>1. CASE UNCHANGED vars
      BY <1>1 DEF vars
<1>2. CASE phase = "idle" /\ \E t \in Exposed : CallTool(t)
      BY <1>2 DEF CallTool
<1>3. CASE Reject \/ Authorize \/ Return
      BY <1>3 DEF Reject, Authorize, Return
<1>4. CASE BrandStep
      BY <1>4 DEF BrandStep, AccountDefault, RefuseBrand, LookupCached, LookupAnswered,
                  LookupFailed, NameBrand, SendRequest, FailCall, Methods
<1>5. CASE PlanStep
      BY <1>5 DEF PlanStep, SkipStep, StepAnswered, WalkBroken, TolerateFailure,
                  StepFailed, FailCall, EndEarly, SaveStep, Finish, SendStep, SendRequest
<1>6. CASE AwaitRequest
      BY <1>6 DEF AwaitRequest
<1> QED BY <1>1, <1>2, <1>3, <1>4, <1>5, <1>6 DEF Next, CallStep

\* What a plan is made of.
LEMMA StepTyped == ASSUME tool \in Tools, at \in Nat \ {0}, at <= Len(Plan)
                   PROVE  /\ at \in DOMAIN tool.plan
                          /\ Step \in PlanSteps
                          /\ tool.readOnly => Step.methods \subseteq {"GET"}
<1>1. tool.plan \in Seq(PlanSteps)
      BY ToolsAssumption
<1>2. at \in DOMAIN tool.plan
      BY <1>1 DEF Plan
<1> QED BY <1>1, <1>2, ToolsAssumption DEF Plan, Step

LEMMA InitIInv == Init => IInv
<1> SUFFICES ASSUME Init PROVE IInv
    OBVIOUS
<1>1. NoTool.readOnly
      BY DEF NoTool
<1>2. RequestInv
      BY MaxAttemptsAssumption DEF Init, RequestInit, RequestInv, RequestTypeOK, IsWrite,
                                   Methods, Answers, Notes
<1>3. CallTypeOK
  <2>1. /\ dropped \in BOOLEAN /\ verbatim \in BOOLEAN /\ circling \in BOOLEAN
        /\ partial \in BOOLEAN
        BY Zenon DEF Init
  <2> QED BY <2>1 DEF Init, CallTypeOK, Answers, Outcomes
<1>4. LookupAllowed /\ ReadOnlyCall /\ Undecided /\ RequestOfStep
      BY <1>1 DEF Init, RequestInit, LookupAllowed, ReadOnlyCall, Undecided, RequestOfStep
<1> QED BY <1>2, <1>3, <1>4 DEF IInv, Init, OnlyAllowedBrands

\* The flags of a call stay truth values.
Flags == /\ verbatim \in BOOLEAN /\ circling \in BOOLEAN
         /\ partial \in BOOLEAN /\ dropped \in BOOLEAN

LEMMA FlagsTyped == Flags /\ [Next]_vars => Flags'
<1> SUFFICES ASSUME Flags, [Next]_vars PROVE Flags'
    OBVIOUS
<1> USE DEF Flags, brand, progress, books, result
<1>1. CASE UNCHANGED vars
      BY <1>1 DEF vars, callVars
<1>2. CASE phase = "idle" /\ \E t \in Exposed : CallTool(t)
      BY <1>2 DEF CallTool
<1>3. CASE Reject \/ Authorize
      BY <1>3 DEF Reject, Authorize, End
<1>4. CASE Return
      BY <1>4, Zenon DEF Return
<1>5. ASSUME NEW hides \in BOOLEAN, FailCall(hides) PROVE Flags'
      BY <1>5, Zenon DEF FailCall, noteUnauthorized
<1>6. CASE BrandStep
  <2>1. ASSUME NEW how, End(how) PROVE Flags'
        BY <2>1 DEF End
  <2>2. CASE Reach
        BY <2>2 DEF Reach
  <2>3. ASSUME NEW entries, Settle(entries) PROVE Flags'
        BY <2>1, <2>2, <2>3 DEF Settle
  <2>4. CASE Listing
        BY <2>1, <2>2, <2>3, <2>4 DEF Listing
  <2>5. CASE AccountDefault \/ RefuseBrand
        BY <2>1, <2>5 DEF AccountDefault, RefuseBrand
  <2>6. CASE LookupCached
        BY <2>4, <2>6 DEF LookupCached
  <2>7. CASE LookupAnswered
    <3>1. PICK rest \in Rests("guarded") :
            \/ Listing
            \/ TurnPage("guarded", rest) /\ UNCHANGED <<brand, books, result>>
            \/ End("error") \/ Settle({})
          BY <2>7 DEF LookupAnswered
    <3>2. CASE TurnPage("guarded", rest) /\ UNCHANGED <<brand, books, result>>
          BY <3>2, Zenon DEF TurnPage
    <3> QED BY <2>1, <2>3, <2>4, <3>1, <3>2
  <2>8. CASE LookupFailed
        BY <1>5, <2>3, <2>8 DEF LookupFailed
  <2>9. ASSUME NEW b \in Brands \cup {"unknown"}, NEW words \in BOOLEAN, NameBrand(b, words)
        PROVE  Flags'
        BY <2>9, Zenon DEF NameBrand
  <2>10. CASE InLookup /\ SendRequest("GET")
        BY <2>10 DEF SendRequest
  <2> QED BY <1>6, <2>5, <2>6, <2>7, <2>8, <2>9, <2>10 DEF BrandStep
<1>7. CASE PlanStep
  <2>1. CASE SkipStep \/ EndEarly \/ SaveStep \/ Finish
        BY <2>1 DEF SkipStep, EndEarly, SaveStep, Finish, End, GoOn, SameButProgress
  <2>2. CASE StepAnswered
    <3>1. UNCHANGED <<verbatim, dropped>>
          BY <2>2 DEF StepAnswered
    <3>2. CASE NextOfEach /\ UNCHANGED partial
          BY <3>1, <3>2 DEF NextOfEach
    <3>3. ASSUME NEW rest, TurnPage(Step.walk, rest), UNCHANGED partial PROVE Flags'
          BY <3>1, <3>3, Zenon DEF TurnPage
    <3>4. ASSUME NEW rest, GoOn, partial' = (partial \/ rest \in {"next", "same"})
          PROVE  Flags'
          BY <3>1, <3>4, Zenon DEF GoOn
    <3> QED BY <2>2, <3>2, <3>3, <3>4 DEF StepAnswered
  <2>3. CASE WalkBroken
        BY <2>3 DEF WalkBroken, End
  <2>4. CASE TolerateFailure
        BY <2>4 DEF TolerateFailure, NextOfEach, GoOn
  <2>5. CASE StepFailed
        BY <2>5, Zenon DEF StepFailed, FailCall, noteUnauthorized
  <2>6. ASSUME NEW m \in Methods, SendStep(m) PROVE Flags'
        BY <2>6 DEF SendStep, SendRequest
  <2> QED BY <1>7, <2>1, <2>2, <2>3, <2>4, <2>5, <2>6 DEF PlanStep
<1>8. CASE AwaitRequest
      BY <1>8 DEF AwaitRequest, callVars
<1> QED BY <1>1, <1>2, <1>3, <1>4, <1>6, <1>7, <1>8 DEF Next, CallStep

LEMMA StepIInv == IInv /\ [Next]_vars => IInv'
<1> SUFFICES ASSUME IInv, [Next]_vars PROVE IInv'
    OBVIOUS
<1>r. RequestInv'
      BY RequestKept, CallsMoveRequests DEF IInv
<1>a. applied \in Nat /\ stage \in {"idle", "sending", "reading", "answered", "failed"}
      /\ method \in Methods /\ answer \in Answers \cup {"none", "cut"}
      BY DEF IInv, RequestInv, RequestTypeOK
<1>l. Locked \in Brands
      BY ToolsAssumption DEF Locked
<1>f. Flags'
      BY FlagsTyped DEF Flags, IInv, CallTypeOK
<1> USE <1>r, <1>a, <1>l, ToolsAssumption
    DEF IInv, CallTypeOK, RequestOfStep, LookupAllowed, ReadOnlyCall, OnlyAllowedBrands,
        Flags, Undecided, Outcomes, Answers, AllowedBrands, BrandModes, BrandScope,
        InPlan, InLookup, Plan, config, brand, progress, books, result
<1>1. CASE UNCHANGED vars
      BY <1>1 DEF vars, callVars, requestVars, Step
<1>2. ASSUME phase = "idle", NEW t \in Exposed, CallTool(t) PROVE IInv'
      BY <1>2 DEF CallTool, Exposed, filterTools, requestVars
<1>3. CASE Reject
      BY <1>3 DEF Reject, End, requestVars
<1>4. CASE Authorize
      BY <1>4 DEF Authorize, requestVars
<1>5. CASE Return
  <2>1. NoTool.readOnly
        BY DEF NoTool
  <2> QED BY <1>f, <1>5, <2>1 DEF Return, requestVars
<1>6. CASE BrandStep
  <2>1. CASE AccountDefault
        BY <2>1 DEF AccountDefault, requestVars
  <2>2. CASE RefuseBrand
        BY <2>2 DEF RefuseBrand, End, requestVars
  <2>3. ASSUME NEW how \in {"refused", "error"}, phase # "idle", End(how), stage' = "idle"
        PROVE  IInv'
        BY <1>f, <2>3 DEF End
  <2>4. ASSUME InLookup, Reach, stage' = "idle", target \in AllowedBrands, target \in Brands
        PROVE  IInv'
        BY <1>f, <2>4 DEF Reach
  <2>5. ASSUME phase = "allow", NEW entries \in SUBSET Listed, Settle(entries), stage' = "idle"
        PROVE  IInv'
    <3>1. CASE target \in entries \cup BySubdomain
          BY <2>4, <2>5, <3>1 DEF Settle
    <3>2. CASE target \notin entries \cup BySubdomain
          BY <2>3, <2>5, <3>2 DEF Settle
    <3> QED BY <3>1, <3>2
  <2>6. ASSUME InLookup, Listing, stage' = "idle"
        PROVE  IInv'
    <3>1. CASE phase = "allow"
          BY <2>5, <2>6, <3>1 DEF Listing
    <3>2. CASE phase = "lookup" /\ target = "unknown"
          BY <2>3, <2>6, <3>2 DEF Listing
    <3>3. CASE phase = "lookup" /\ target # "unknown" /\ (brandIds = "multi" => verbatim)
      <4>1. target \in AllowedBrands /\ target \in Brands
            BY <3>3
      <4> QED BY <2>4, <2>6, <3>3, <4>1 DEF Listing
    <3>4. CASE phase = "lookup" /\ target # "unknown" /\ ~(brandIds = "multi" => verbatim)
      <4>1. phase' = "allow" /\ rounds' = 0
            /\ UNCHANGED <<config, tool, brand, at, circling, books, result>>
            BY <2>6, <3>4 DEF Listing
      <4>2. brandIds = "multi" /\ target \in Brands
            BY <3>4
      <4> QED BY <1>f, <2>6, <3>4, <4>1, <4>2
    <3> QED BY <2>6, <3>1, <3>2, <3>3, <3>4
  <2>7. CASE LookupCached
        BY <2>6, <2>7 DEF LookupCached, requestVars
  <2>8. CASE LookupAnswered
    <3>1. InLookup /\ stage' = "idle" /\ method' = "GET"
          BY <2>8 DEF LookupAnswered, Take
    <3>2. PICK rest \in Rests("guarded") :
            \/ Listing
            \/ /\ TurnPage("guarded", rest)
               /\ UNCHANGED <<config, tool, phase, brand, at, books, result>>
            \/ End("error")
            \/ phase = "allow" /\ Settle({})
          BY <2>8 DEF LookupAnswered
    <3>3. CASE /\ TurnPage("guarded", rest)
               /\ UNCHANGED <<config, tool, phase, brand, at, books, result>>
      <4>1. rounds' \in Nat
            BY <3>3 DEF TurnPage
      <4> QED BY <1>f, <3>1, <3>3, <4>1
    <3> QED BY <2>3, <2>5, <2>6, <3>1, <3>2, <3>3
  <2>9. CASE LookupFailed
    <3>1. CASE phase = "lookup" /\ FailCall(FALSE)
      <4>1. written' \in Nat
            BY <3>1 DEF FailCall
      <4> QED BY <1>f, <3>1, <4>1 DEF FailCall, Take
    <3>2. CASE phase = "allow" /\ Take /\ Settle({})
          BY <2>5, <3>2 DEF Take
    <3> QED BY <2>9, <3>1, <3>2 DEF LookupFailed
  <2>10. ASSUME NEW b \in Brands \cup {"unknown"}, NEW words \in BOOLEAN, NameBrand(b, words)
        PROVE  IInv'
        BY <1>f, <2>10 DEF NameBrand, requestVars
  <2>11. CASE InLookup /\ SendRequest("GET")
        BY <1>f, <2>11 DEF SendRequest, Send
  <2> QED BY <1>6, <2>1, <2>2, <2>7, <2>8, <2>9, <2>10, <2>11 DEF BrandStep
<1>7. CASE PlanStep
  <2>0. ASSUME InPlan
        PROVE  Step \in PlanSteps /\ (tool.readOnly => Step.methods \subseteq {"GET"})
        BY <2>0, StepTyped
  <2>1. CASE SkipStep
        BY <1>f, <2>1 DEF SkipStep, GoOn, SameButProgress, requestVars
  <2>2. CASE StepAnswered
    <3>1. written' \in Nat
          BY <2>2 DEF StepAnswered
    <3>2. at' \in Nat \ {0} /\ rounds' \in Nat
          BY <2>2 DEF StepAnswered, NextOfEach, TurnPage, GoOn
    <3> QED BY <1>f, <2>2, <3>1, <3>2 DEF StepAnswered, Take
  <2>3. CASE WalkBroken
        BY <1>f, <2>3 DEF WalkBroken, End, Take, RequestInv
  <2>4. CASE TolerateFailure
        BY <1>f, <2>4 DEF TolerateFailure, GoOn, NextOfEach, Take
  <2>5. CASE StepFailed
    <3>1. written' \in Nat
          BY <2>5 DEF StepFailed, FailCall
    <3> QED BY <1>f, <2>5, <3>1 DEF StepFailed, FailCall, Take
  <2>6. CASE EndEarly
        BY <1>f, <2>0, <2>6 DEF EndEarly, End, GoOn, SameButProgress, requestVars, PlanSteps
  <2>7. CASE SaveStep
        BY <1>f, <2>7 DEF SaveStep, End, GoOn, SameButProgress, requestVars
  <2>8. CASE Finish
        BY <2>8 DEF Finish, End, requestVars
  <2>9. ASSUME NEW m \in Methods, SendStep(m) PROVE IInv'
        BY <2>0, <2>9 DEF SendStep, SendRequest, Send, Step
  <2> QED BY <1>7, <2>1, <2>2, <2>3, <2>4, <2>5, <2>6, <2>7, <2>8, <2>9 DEF PlanStep
<1>8. CASE AwaitRequest
  <2>1. UNCHANGED method
        BY <1>8 DEF AwaitRequest, RequestStep, Unreachable, LostAnswer, Fail, Replay, Respond,
                    ReadBody, LoseBody
  <2>2. stage # "idle"
        BY <1>8 DEF AwaitRequest, RequestStep, Unreachable, LostAnswer, Respond, ReadBody,
                    LoseBody
  <2> QED BY <1>8, <2>1, <2>2 DEF AwaitRequest, callVars, Step
<1> QED BY <1>1, <1>2, <1>3, <1>4, <1>5, <1>6, <1>7, <1>8 DEF Next, CallStep

THEOREM Invariance == Spec => []IInv
<1> QED BY InitIInv, StepIInv, PTL DEF Spec

\* Every reachable state is well typed.
THEOREM TypeCorrect == Spec => []TypeOK
<1>1. IInv => TypeOK
      BY DEF IInv, RequestInv, CallTypeOK, TypeOK
<1> QED BY Invariance, <1>1, PTL

\* Whatever is lost, refused or late, a write is applied once at most.
THEOREM Once == Spec => []AppliedOnce
<1>1. IInv => AppliedOnce
      BY DEF IInv, RequestInv, RequestTypeOK, AppliedOnce
<1> QED BY Invariance, <1>1, PTL

\* An error that calls a retry safe is right, and one that says nothing of an
\* applied write comes from a body that broke off.
THEOREM Notes_True == Spec => []NotesAreTrue
<1>1. IInv => NotesAreTrue
      BY DEF IInv, RequestInv, NotesAreTrue, SafeNoteIsTrue, SilentOnlyWithoutBody
<1> QED BY Invariance, <1>1, PTL

\* Under --read-only nothing is written to Zendesk, by any set of tools that
\* declare their writes.
THEOREM ReadOnlyHolds == Spec => []ReadOnlyWritesNothing
<1>1. IInv => ReadOnlyWritesNothing
  <2> SUFFICES ASSUME IInv, readOnly PROVE sent = 0 /\ (IsWrite => applied = 0)
      BY DEF ReadOnlyWritesNothing
  <2>1. CASE stage = "idle"
        BY <2>1 DEF IInv, ReadOnlyCall, RequestInv
  <2>2. CASE stage # "idle" /\ InPlan
    <3>1. tool \in Tools /\ at \in Nat \ {0} /\ at <= Len(Plan)
          BY <2>2 DEF IInv, InPlan, CallTypeOK
    <3> QED BY <2>2, <3>1, StepTyped DEF IInv, ReadOnlyCall, RequestOfStep, IsWrite
  <2>3. CASE stage # "idle" /\ ~InPlan
        BY <2>3 DEF IInv, ReadOnlyCall, RequestOfStep, IsWrite
  <2> QED BY <2>1, <2>2, <2>3
<1> QED BY Invariance, <1>1, PTL

\* No request of a Help Center tool leaves the brands of --brand-ids.
THEOREM BrandsHold == Spec => []OnlyAllowedBrands
<1>1. IInv => OnlyAllowedBrands
      BY DEF IInv
<1> QED BY Invariance, <1>1, PTL

\* Nothing is done that the operator has not allowed.
THEOREM LimitsHold == Spec => []ActsWithinItsLimits
<1> QED BY ReadOnlyHolds, BrandsHold, PTL DEF ActsWithinItsLimits

(***************************************************************************)
(* The books of a call: the writes sent, and those applied.                *)
(***************************************************************************)
Before == phase \in {"idle", "token", "brand", "lookup", "allow"}

\* The choice of the brand writes nothing and cuts nothing.
LEMMA BrandStepReads ==
  IInv /\ BrandStep => /\ phase \in {"brand", "lookup", "allow"}
                       /\ phase' \in {"brand", "lookup", "allow", "plan", "done"}
                       /\ UNCHANGED <<tool, sent, written, partial>>
                       /\ outcome' \in {"none", "refused", "error"}
                       /\ phase' \in {"plan", "done"} => stage' = "idle"
                       /\ method' = "GET"
<1> DEFINE Reading == /\ phase' \in {"brand", "lookup", "allow", "plan", "done"}
                      /\ UNCHANGED <<tool, sent, written, partial>>
                      /\ outcome' \in {"none", "refused", "error"}
<1> SUFFICES ASSUME IInv, BrandStep
             PROVE  /\ phase \in {"brand", "lookup", "allow"} /\ Reading
                    /\ phase' \in {"plan", "done"} => stage' = "idle"
                    /\ method' = "GET"
    OBVIOUS
<1>u. outcome = "none" /\ phase # "done" /\ (stage = "idle" => method = "GET")
      /\ (InLookup => method = "GET") /\ sent \in Nat /\ written \in Nat
  <2>1. phase \in {"brand", "lookup", "allow"}
        BY DEF BrandStep, AccountDefault, RefuseBrand, LookupCached, LookupAnswered,
               LookupFailed, NameBrand, InLookup
  <2> QED BY <2>1 DEF IInv, Undecided, RequestInv, RequestOfStep, InLookup, InPlan, CallTypeOK
<1> USE <1>u DEF InLookup, config, brand, progress, books, result
<1>1. ASSUME NEW how \in {"refused", "error"}, End(how) PROVE Reading
      BY <1>1 DEF End
<1>2. ASSUME Reach PROVE Reading
      BY <1>2 DEF Reach
<1>3. ASSUME NEW entries, Settle(entries) PROVE Reading
      BY <1>1, <1>2, <1>3 DEF Settle
<1>4. ASSUME Listing PROVE Reading
  <2>1. CASE phase = "allow" \/ target = "unknown"
        BY <1>1, <1>3, <1>4, <2>1 DEF Listing
  <2>2. CASE phase # "allow" /\ target # "unknown"
        BY <1>2, <1>4, <2>2 DEF Listing
  <2> QED BY <2>1, <2>2
<1>5. CASE AccountDefault \/ RefuseBrand
      BY <1>1, <1>5, <1>u DEF AccountDefault, RefuseBrand, requestVars, IInv, RequestOfStep, InPlan
<1>6. CASE LookupCached
      BY <1>4, <1>6 DEF LookupCached, requestVars
<1>7. CASE LookupAnswered
      BY <1>1, <1>3, <1>4, <1>7 DEF LookupAnswered, Take
<1>8. CASE LookupFailed
  <2>1. CASE phase = "lookup" /\ FailCall(FALSE)
        BY <2>1 DEF FailCall, Take, IsWrite
  <2>2. CASE phase = "allow" /\ Take /\ Settle({})
        BY <1>3, <2>2 DEF Take
  <2> QED BY <1>8, <2>1, <2>2 DEF LookupFailed
<1>9. ASSUME NEW b \in Brands \cup {"unknown"}, NEW words \in BOOLEAN, NameBrand(b, words)
      PROVE  phase = "brand" /\ phase' = "lookup" /\ Reading /\ UNCHANGED method
      BY <1>9 DEF NameBrand, requestVars
<1>10. CASE InLookup /\ SendRequest("GET")
      BY <1>10 DEF SendRequest, Send
<1>11. phase = "brand" => stage = "idle"
      BY DEF IInv, RequestOfStep, InPlan
<1> QED BY <1>5, <1>6, <1>7, <1>8, <1>9, <1>10, <1>11 DEF BrandStep

Pending == IF stage # "idle" /\ IsWrite THEN 1 ELSE 0
BooksInv == /\ Before => sent = 0 /\ written = 0
            /\ phase = "plan" => sent = written + Pending
            /\ AnsweredMeansWritten

LEMMA StepBooks == ASSUME WritesAreHard
                   PROVE  IInv /\ IInv' /\ BooksInv /\ [Next]_vars => BooksInv'
<1> SUFFICES ASSUME IInv, IInv', BooksInv, [Next]_vars PROVE BooksInv'
    OBVIOUS
<1>t. sent \in Nat /\ written \in Nat /\ applied \in Nat
      BY DEF IInv, CallTypeOK, RequestInv, RequestTypeOK
<1>i. Before /\ ~InLookup => stage = "idle"
      BY DEF IInv, RequestOfStep, Before, InPlan, InLookup
<1>u. phase # "done" => outcome = "none"
      BY DEF IInv, Undecided
<1> USE <1>t, <1>i, <1>u
    DEF BooksInv, Before, Pending, AnsweredMeansWritten, IsWrite, InLookup, config, brand,
        progress, books, result
<1>1. CASE UNCHANGED vars
      BY <1>1 DEF vars, callVars, requestVars
<1>2. ASSUME phase = "idle", NEW t \in Exposed, CallTool(t) PROVE BooksInv'
      BY <1>2 DEF CallTool, requestVars
<1>3. CASE Reject \/ Authorize \/ Return
      BY <1>3 DEF Reject, Authorize, Return, End, requestVars
<1>4. CASE BrandStep
      BY <1>4, BrandStepReads
<1>5. CASE PlanStep
  <2> USE DEF InPlan
  <2>1. CASE SkipStep \/ EndEarly \/ SaveStep \/ Finish
    <3>1. CASE Finish
      <4>1. stage = "idle"
            BY <3>1 DEF Finish, IInv, RequestOfStep, CallTypeOK, RequestInv, RequestTypeOK,
                        Plan
      <4> QED BY <3>1, <4>1 DEF Finish, End
    <3>2. CASE SkipStep \/ SaveStep
          BY <3>2 DEF SkipStep, SaveStep, End, SameButProgress, requestVars
    <3>3. CASE EndEarly
      <4>1. Step.how # "ok" \/ Step.how = "ok"
            OBVIOUS
      <4> QED BY <3>3, <4>1 DEF EndEarly, End, SameButProgress, requestVars
    <3> QED BY <2>1, <3>1, <3>2, <3>3
  <2>2. CASE StepAnswered \/ WalkBroken
    <3>1. stage = "answered" /\ (IsWrite => applied = 1)
          BY <2>2 DEF StepAnswered, WalkBroken, IInv, RequestInv
    <3> QED BY <2>2, <3>1 DEF StepAnswered, WalkBroken, End, Take
  <2>3. CASE TolerateFailure
    <3>1. tool \in Tools /\ at \in Nat \ {0} /\ at <= Len(Plan)
          BY <2>3 DEF TolerateFailure, IInv, CallTypeOK
    <3>2. method = "GET"
          BY <2>3, <3>1, StepTyped, WritesAreHard
          DEF TolerateFailure, IInv, RequestOfStep, WritesAreHard, Step, Plan
    <3> QED BY <2>3, <3>2 DEF TolerateFailure, Take
  <2>4. CASE StepFailed
        BY <2>4 DEF StepFailed, FailCall
  <2>5. ASSUME NEW m \in Methods, SendStep(m) PROVE BooksInv'
        BY <2>5 DEF SendStep, SendRequest, Send
  <2> QED BY <1>5, <2>1, <2>2, <2>3, <2>4, <2>5 DEF PlanStep
<1>6. CASE AwaitRequest
  <2>1. UNCHANGED method /\ stage # "idle" /\ stage' # "idle"
        BY <1>6 DEF AwaitRequest, RequestStep, Unreachable, LostAnswer, Fail, Replay, Respond,
                    ReadBody, LoseBody
  <2> QED BY <1>6, <2>1 DEF AwaitRequest, callVars
<1> QED BY <1>1, <1>2, <1>3, <1>4, <1>5, <1>6 DEF Next, CallStep

\* With no failed write tolerated, an answer means that every write was applied.
THEOREM AnswersHold == ASSUME WritesAreHard PROVE Spec => []AnsweredMeansWritten
<1>1. Init => BooksInv
      BY DEF Init, BooksInv, Before, AnsweredMeansWritten
<1>2. BooksInv => AnsweredMeansWritten
      BY DEF BooksInv
<1> QED BY Invariance, StepBooks, <1>1, <1>2, PTL DEF Spec

(***************************************************************************)
(* A call that ends early has written nothing.                             *)
(***************************************************************************)
ReadsSoFar == \A j \in DOMAIN Plan : j <= at => Plan[j].methods \subseteq {"GET"}
FirstInv == /\ Before => sent = 0
            /\ sent = 0 => written = 0 /\ ~IsWrite
            /\ phase = "plan" /\ ReadsSoFar => sent = 0
            /\ outcome \in {"early", "refused"} => sent = 0

LEMMA StepFirst == ASSUME EndsComeFirst
                   PROVE  IInv /\ IInv' /\ FirstInv /\ [Next]_vars => FirstInv'
<1> SUFFICES ASSUME IInv, IInv', FirstInv, [Next]_vars PROVE FirstInv'
    OBVIOUS
<1>t. sent \in Nat /\ written \in Nat /\ applied \in Nat /\ at \in Nat \ {0}
      BY DEF IInv, CallTypeOK, RequestInv, RequestTypeOK
<1>u. phase # "done" => outcome = "none"
      BY DEF IInv, Undecided
<1>d. phase # "idle" => tool \in Tools /\ tool.plan \in Seq(PlanSteps)
      BY ToolsAssumption DEF IInv
<1> USE <1>t, <1>u, <1>d DEF FirstInv, Before, IsWrite, config, brand, progress, books, result
<1>1. CASE UNCHANGED vars
      BY <1>1 DEF vars, callVars, requestVars, ReadsSoFar, Plan
<1>2. ASSUME phase = "idle", NEW t \in Exposed, CallTool(t) PROVE FirstInv'
      BY <1>2 DEF CallTool, requestVars
<1>3. CASE Reject \/ Authorize \/ Return
  <2>1. sent' = 0 /\ (phase = "token" \/ phase' = "idle")
        BY <1>3 DEF Reject, Authorize, Return, End
  <2>2. CASE Return
    <3>1. method = "GET"
          BY <2>2 DEF Return, IInv, RequestOfStep, InPlan, RequestInv, RequestTypeOK
    <3> QED BY <2>2, <3>1 DEF Return, requestVars
  <2>3. CASE Reject \/ Authorize
        BY <1>3, <2>3 DEF Reject, Authorize, End, requestVars
  <2> QED BY <1>3, <2>2, <2>3
<1>4. CASE BrandStep
      BY <1>4, BrandStepReads
<1>5. CASE PlanStep
  <2>1. ASSUME phase = "plan", phase' = "plan", UNCHANGED tool,
               GoOn \/ UNCHANGED at, ReadsSoFar'
        PROVE  ReadsSoFar
        BY <2>1 DEF GoOn, ReadsSoFar, Plan
  <2>2. CASE SkipStep \/ EndEarly \/ SaveStep \/ Finish
    <3>1. CASE phase' = "plan"
      <4>1. UNCHANGED <<tool, sent, written, outcome, requestVars>> /\ GoOn /\ phase = "plan"
            BY <2>2, <3>1 DEF SkipStep, EndEarly, SaveStep, Finish, End, SameButProgress,
                              InPlan
      <4> QED BY <2>1, <3>1, <4>1 DEF requestVars
    <3>2. CASE EndEarly /\ phase' # "plan"
      <4>1. Step.kind = "end" /\ phase = "plan" /\ at \in DOMAIN Plan
            BY <3>2 DEF EndEarly, InPlan, Plan
      <4>2. ReadsSoFar
            BY <4>1, EndsComeFirst DEF EndsComeFirst, ReadsSoFar, Plan, Step
      <4>3. phase' = "done" /\ UNCHANGED <<sent, written, method>>
            BY <3>2, <4>1 DEF EndEarly, End, SameButProgress, requestVars
      <4> QED BY <4>1, <4>2, <4>3
    <3>3. CASE ~EndEarly /\ phase' # "plan"
      <4>1. phase' = "done" /\ outcome' \in {"ok", "error"} /\ UNCHANGED <<sent, written, method>>
            BY <2>2, <3>3 DEF SkipStep, SaveStep, Finish, End, SameButProgress, InPlan,
                              requestVars
      <4> QED BY <4>1
    <3> QED BY <3>1, <3>2, <3>3
  <2>3. CASE StepAnswered \/ TolerateFailure
    <3>1. UNCHANGED <<tool, phase, sent, outcome>> /\ phase = "plan" /\ method' = "GET"
          BY <2>3 DEF StepAnswered, TolerateFailure, Take, InPlan
    <3>2. GoOn \/ UNCHANGED at
          BY <2>3 DEF StepAnswered, TolerateFailure, NextOfEach
    <3>3. sent = 0 => written' = 0
          BY <2>3 DEF StepAnswered, TolerateFailure
    <3> QED BY <2>1, <3>1, <3>2, <3>3
  <2>4. CASE WalkBroken
        BY <2>4 DEF WalkBroken, End, Take
  <2>5. CASE StepFailed
        BY <2>5 DEF StepFailed, FailCall, Take
  <2>6. ASSUME NEW m \in Methods, SendStep(m) PROVE FirstInv'
    <3>1. phase = "plan" /\ at \in DOMAIN Plan /\ m \in Plan[at].methods
          BY <2>6 DEF SendStep, InPlan, Step, Plan
    <3>2. UNCHANGED <<tool, phase, at, written, outcome>> /\ method' = m
          /\ sent' = sent + (IF m = "GET" THEN 0 ELSE 1)
          BY <2>6 DEF SendStep, SendRequest, Send
    <3>3. ReadsSoFar' => ReadsSoFar /\ m = "GET"
          BY <3>1, <3>2 DEF ReadsSoFar, Plan
    <3> QED BY <3>1, <3>2, <3>3
  <2> QED BY <1>5, <2>2, <2>3, <2>4, <2>5, <2>6 DEF PlanStep
<1>6. CASE AwaitRequest
  <2>1. UNCHANGED method
        BY <1>6 DEF AwaitRequest, RequestStep, Unreachable, LostAnswer, Fail, Replay, Respond,
                    ReadBody, LoseBody
  <2> QED BY <1>6, <2>1 DEF AwaitRequest, callVars, ReadsSoFar, Plan
<1> QED BY <1>1, <1>2, <1>3, <1>4, <1>5, <1>6 DEF Next, CallStep

\* With every early end before the first write, an answer that nothing was
\* changed is true.
THEOREM RefusalsHold == ASSUME EndsComeFirst PROVE Spec => []UnchangedMeansUnwritten
<1>1. Init => FirstInv
      BY DEF Init, RequestInit, FirstInv, Before, IsWrite
<1>2. FirstInv => UnchangedMeansUnwritten
      BY DEF FirstInv, UnchangedMeansUnwritten
<1> QED BY Invariance, StepFirst, <1>1, <1>2, PTL DEF Spec

(***************************************************************************)
(* A tool that shows a part of a listing only reads, and decides no more.  *)
(***************************************************************************)
CutBefore == \E i \in DOMAIN Plan : Cut(Plan[i]) /\ i < at
OnlyReads == \A j \in DOMAIN Plan : Plan[j].methods \subseteq {"GET"}
PartInv == /\ Before => ~partial
           /\ partial => CutBefore
           /\ phase \in {"plan", "done"} /\ OnlyReads => sent = 0
           /\ partial => outcome \notin {"early", "refused"}

LEMMA StepPart == ASSUME PartsAreShown
                  PROVE  IInv /\ IInv' /\ FirstInv /\ PartInv /\ [Next]_vars => PartInv'
<1> SUFFICES ASSUME IInv, IInv', FirstInv, PartInv, [Next]_vars PROVE PartInv'
    OBVIOUS
<1>t. sent \in Nat /\ at \in Nat \ {0} /\ at' \in Nat /\ partial \in BOOLEAN
      BY DEF IInv, CallTypeOK
<1>u. phase # "done" => outcome = "none"
      BY DEF IInv, Undecided
<1>d. phase # "idle" => tool \in Tools /\ tool.plan \in Seq(PlanSteps)
      BY ToolsAssumption DEF IInv
<1> USE <1>t, <1>u, <1>d
    DEF PartInv, Before, CutBefore, OnlyReads, Plan, config, brand, progress, books, result
<1>1. CASE UNCHANGED vars
      BY <1>1 DEF vars, callVars
<1>2. ASSUME phase = "idle", NEW t \in Exposed, CallTool(t) PROVE PartInv'
      BY <1>2 DEF CallTool
<1>3. CASE Reject \/ Authorize \/ Return
  <2>1. phase = "token" => sent = 0
        BY DEF FirstInv
  <2> QED BY <1>3, <2>1 DEF Reject, Authorize, Return, End
<1>4. CASE BrandStep
  <2>1. sent = 0 /\ ~partial
        BY <1>4, BrandStepReads DEF FirstInv
  <2> QED BY <1>4, <2>1, BrandStepReads
<1>5. CASE PlanStep
  <2>1. ASSUME InPlan
        PROVE  at \in DOMAIN Plan /\ (OnlyReads => Step.methods \subseteq {"GET"})
        BY <2>1 DEF InPlan, Step
  <2>2. ASSUME phase = "plan", UNCHANGED tool, at' >= at, CutBefore
        PROVE  CutBefore'
    <3>1. PICK i \in DOMAIN Plan : Cut(Plan[i]) /\ i < at
          BY <2>2
    <3>2. i \in Nat
          BY <2>2, <3>1
    <3>3. i < at'
          BY <2>2, <3>1, <3>2
    <3> QED BY <2>2, <3>1, <3>3
  <2>3. CASE SkipStep \/ EndEarly \/ SaveStep \/ Finish
    <3>1. CASE EndEarly /\ phase' # "plan"
      <4>1. InPlan /\ Step.kind = "end" /\ phase' = "done"
            /\ UNCHANGED <<tool, at, sent, partial>>
            BY <3>1 DEF EndEarly, End, SameButProgress, InPlan
      <4>2. ~CutBefore
            BY <2>1, <4>1, PartsAreShown DEF PartsAreShown, Step, InPlan
      <4> QED BY <2>1, <4>1, <4>2 DEF InPlan
    <3>2. CASE ~(EndEarly /\ phase' # "plan")
      <4>1. phase = "plan" /\ UNCHANGED <<tool, sent, partial>> /\ at' >= at
            /\ outcome' \in {"none", "ok", "error"} /\ phase' \in {"plan", "done"}
            BY <2>3, <3>2 DEF SkipStep, EndEarly, SaveStep, Finish, End, GoOn, SameButProgress,
                              InPlan
      <4> QED BY <2>2, <4>1
    <3> QED BY <3>1, <3>2
  <2>4. CASE StepAnswered
    <3>1. InPlan /\ UNCHANGED <<tool, phase, sent, outcome>>
          BY <2>4 DEF StepAnswered
    <3>2. CASE UNCHANGED partial /\ at' \in {at, at + 1}
          BY <3>1, <3>2 DEF InPlan
    <3>3. ASSUME NEW rest \in Rests(Step.walk), ~Follows(Step.walk, rest),
                 ~Breaks(Step.walk, rest), GoOn,
                 partial' = (partial \/ rest \in {"next", "same"})
          PROVE  PartInv'
      <4>1. CASE rest \in {"next", "same"}
        <5>1. Step.walk \notin {"one", "free", "guarded", "whole"}
              BY <3>3, <4>1 DEF Rests, Follows, Breaks, Capped, ByCursor
        <5>2. Cut(Step)
          <6>1. Step \in PlanSteps
                BY <3>1, <2>1 DEF Step, InPlan
          <6> QED BY <5>1, <6>1 DEF PlanSteps, Walks, Cut
        <5>3. CutBefore' /\ phase' = "plan"
              BY <2>1, <3>1, <3>3, <5>2 DEF GoOn, Step, InPlan
        <5> QED BY <3>1, <5>3 DEF InPlan
      <4>2. CASE rest \notin {"next", "same"}
        <5>1. UNCHANGED partial
              BY <3>3, <4>2, Zenon
        <5> QED BY <3>1, <3>3, <5>1 DEF GoOn, InPlan
      <4> QED BY <4>1, <4>2
    <3> QED BY <2>4, <3>2, <3>3 DEF StepAnswered, NextOfEach, TurnPage, GoOn
  <2>5. CASE WalkBroken
        BY <2>5 DEF WalkBroken, End, InPlan
  <2>6. CASE TolerateFailure
    <3>1. at' >= at
          BY <2>6 DEF TolerateFailure, NextOfEach, GoOn
    <3> QED BY <2>2, <2>6, <3>1 DEF TolerateFailure, InPlan
  <2>7. CASE StepFailed
        BY <2>7 DEF StepFailed, FailCall, InPlan
  <2>8. ASSUME NEW m \in Methods, SendStep(m) PROVE PartInv'
    <3>1. InPlan /\ m \in Step.methods /\ UNCHANGED <<tool, phase, at, outcome, partial>>
          /\ sent' = sent + (IF m = "GET" THEN 0 ELSE 1)
          BY <2>8 DEF SendStep, SendRequest
    <3>2. OnlyReads => sent' = 0
          BY <2>1, <3>1 DEF InPlan
    <3> QED BY <3>1, <3>2 DEF InPlan
  <2> QED BY <1>5, <2>3, <2>4, <2>5, <2>6, <2>7, <2>8 DEF PlanStep
<1>6. CASE AwaitRequest
      BY <1>6 DEF AwaitRequest, callVars
<1> QED BY <1>1, <1>2, <1>3, <1>4, <1>5, <1>6 DEF Next, CallStep

\* With every cut listing only shown, nothing rests on a part.
THEOREM PartsHold ==
  ASSUME EndsComeFirst, PartsAreShown PROVE Spec => []NothingRestsOnAPart
<1>1. Init => FirstInv /\ PartInv
      BY DEF Init, RequestInit, FirstInv, PartInv, Before, IsWrite
<1>2. IInv /\ PartInv => NothingRestsOnAPart
  <2> SUFFICES ASSUME IInv, PartInv, partial
               PROVE  sent = 0 /\ outcome \notin {"early", "refused"}
      BY DEF NothingRestsOnAPart
  <2>1. phase \in {"plan", "done"} /\ tool \in Tools
        BY DEF IInv, CallTypeOK, PartInv, Before
  <2>2. OnlyReads
        BY <2>1, PartsAreShown DEF PartInv, CutBefore, OnlyReads, PartsAreShown, Plan
  <2> QED BY <2>1, <2>2 DEF PartInv
<1> QED BY Invariance, StepFirst, StepPart, <1>1, <1>2, PTL DEF Spec

\* Of a set of tools with none of these, every answer is true and rests on
\* whole listings.
THEOREM AnswersTrue ==
  ASSUME WritesAreHard, EndsComeFirst, PartsAreShown PROVE Spec => []AnswersAreTrue
<1>1. Spec => []AnsweredMeansWritten
      BY AnswersHold
<1>2. Spec => []UnchangedMeansUnwritten
      BY RefusalsHold
<1>3. Spec => []NothingRestsOnAPart
      BY PartsHold
<1> QED BY <1>1, <1>2, <1>3, PTL DEF AnswersAreTrue
================================================================================
