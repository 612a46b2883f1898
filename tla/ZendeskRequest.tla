---------------------------- MODULE ZendeskRequest ----------------------------
(***************************************************************************)
(* One request to Zendesk: the attempts of client/retry.ts and how         *)
(* client/zendesk-api.ts ends them.  Zendesk may apply a write whose       *)
(* answer is lost, so only what provably did not apply is sent again, and  *)
(* the error of a failed write says whether it may have taken effect.      *)
(***************************************************************************)
EXTENDS Naturals

CONSTANT MaxAttempts
ASSUME MaxAttemptsAssumption == MaxAttempts \in Nat \ {0}

Methods == {"GET", "POST", "PUT", "DELETE"}
Answers == {"ok", "unauthorized", "rejected", "rate", "server"}
Notes == {"none", "neverSent", "refused", "mayHaveApplied"}

VARIABLES method,    \* of the request
          tries,     \* attempts begun
          applied,   \* times Zendesk has applied it
          stage,     \* idle, sending, reading (the body), answered, failed
          answer,    \* the kind of the last response, none, or cut (its body was)
          note       \* what the error says of the write

requestVars == <<method, tries, applied, stage, answer, note>>

RequestInit == /\ method = "GET" /\ tries = 0 /\ applied = 0
               /\ stage = "idle" /\ answer = "none" /\ note = "none"

IsWrite == method # "GET"
Last == tries >= MaxAttempts

\* POLICIES: only a GET replays a failure after which a write may be applied.
ReplaysEveryLoss == TRUE            \* a mutant
ReplaysLost == ~IsWrite
ReplaysServerError == ~IsWrite

MayApply == IF IsWrite THEN {applied, applied + 1} ELSE {applied}

Send(m) == /\ stage = "idle"
           /\ method' = m /\ tries' = 1 /\ applied' = 0
           /\ stage' = "sending" /\ answer' = "none" /\ note' = "none"

\* Sleep, then another attempt.
Replay == /\ tries' = tries + 1
          /\ UNCHANGED <<method, stage, answer, note>>

\* writeNote: only the error of a write carries one.
Fail(n) == /\ stage' = "failed"
           /\ note' = IF IsWrite THEN n ELSE "none"
           /\ UNCHANGED <<method, tries, answer>>

\* No connection was opened: every method may be sent again.
Unreachable == /\ stage = "sending"
               /\ UNCHANGED applied
               /\ IF Last THEN Fail("neverSent") ELSE Replay

\* The connection broke or the deadline passed, with no response.
LostAnswer == /\ stage = "sending"
              /\ applied' \in MayApply
              /\ IF Last \/ ~ReplaysLost THEN Fail("mayHaveApplied") ELSE Replay

Replayable(s) == s = "rate" \/ (s = "server" /\ ReplaysServerError)

\* A response; `parked` when its Retry-After is past the cap.
Respond(s, parked) ==
  /\ stage = "sending"
  /\ applied' \in CASE s = "ok" /\ IsWrite -> {applied + 1}
                    [] s = "server" -> MayApply
                    [] OTHER -> {applied}
  /\ IF Replayable(s) /\ ~Last /\ ~parked
     THEN Replay
     ELSE stage' = "reading" /\ answer' = s /\ UNCHANGED <<method, tries, note>>

\* ZendeskApiError.buildMessage, and a mutant of it.
ErrorNoteRefused == IF answer \in {"rate", "server"} THEN "refused" ELSE "none"
ErrorNote == CASE answer = "rate" -> "refused"
               [] answer = "server" -> "mayHaveApplied"
               [] OTHER -> "none"

ReadBody ==
  /\ stage = "reading" /\ UNCHANGED applied
  /\ \/ answer = "ok" /\ stage' = "answered" /\ UNCHANGED <<method, tries, answer, note>>
     \/ answer # "ok" /\ Fail(ErrorNote)

\* The body breaks off: a bare error, which carries neither the status nor a
\* note.  A 204, the answer to a DELETE, has no body.
LoseBody == /\ stage = "reading" /\ ~(answer = "ok" /\ method = "DELETE")
            /\ stage' = "failed" /\ answer' = "cut"
            /\ UNCHANGED <<method, tries, applied, note>>

RequestStep == \/ Unreachable \/ LostAnswer \/ ReadBody \/ LoseBody
               \/ \E s \in Answers, parked \in BOOLEAN : Respond(s, parked)

\* The caller takes the result, and is free to send another request.
Take == /\ stage \in {"answered", "failed"} /\ stage' = "idle"
        /\ method' = "GET" /\ tries' = 0 /\ applied' = 0
        /\ answer' = "none" /\ note' = "none"

RequestNext == (\E m \in Methods : Send(m)) \/ RequestStep \/ Take

RequestSpec == RequestInit /\ [][RequestNext]_requestVars

RequestTypeOK ==
  /\ method \in Methods /\ tries \in 0..MaxAttempts /\ applied \in Nat
  /\ stage \in {"idle", "sending", "reading", "answered", "failed"}
  /\ answer \in Answers \cup {"none", "cut"} /\ note \in Notes

\* Whatever is lost, refused or late, Zendesk applies a write once at most:
\* no attempt follows one that may have been applied.
AppliedOnce == applied <= 1

\* The error of a write that says nothing was applied, after all the attempts
\* it took, is right: sending it again cannot duplicate it.
SafeNoteIsTrue == stage = "failed" /\ note \in {"neverSent", "refused"} => applied = 0

\* retry.ts promises that a failed write says whether it may have taken
\* effect.  One that was applied fails silently only when the body of the
\* response broke off.
SilentOnlyWithoutBody ==
  stage = "failed" /\ applied > 0 /\ note # "mayHaveApplied" => answer = "cut"

\* What the error of a failed write says of it is true.
NotesAreTrue == SafeNoteIsTrue /\ SilentOnlyWithoutBody
=============================================================================
