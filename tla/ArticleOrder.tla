----------------------------- MODULE ArticleOrder -----------------------------
(* Reordering the articles of a section: utils/article-order.ts and the        *)
(* handler of reorder_article (tools/help-center.ts) around it.                *)
(*                                                                             *)
(* Zendesk keeps an integer position per article and shows a manually ordered  *)
(* section by position, ties in any order; one ordered automatically is shown  *)
(* in an order of its own, whatever the positions.  The handler reads the      *)
(* order shown, derives the positions to write, writes them one request after  *)
(* the other and reads the order again.                                        *)
EXTENDS Integers, Sequences, FiniteSets, Functions

CONSTANTS Articles,     \* those of the section
          AutoOrder,    \* the order an automatic section is shown in
          ConfirmThreshold,  \* writes above which a call must be confirmed
          MaxPosition,  \* bound: the positions the articles start with
          MaxFailures,  \* bound: failed requests
          None

Orders == {order \in [1 .. Cardinality(Articles) -> Articles] : IsInjective(order)}

\* What a call is answered with.
Results == {"unchanged", "automatic", "unconfirmed", "failed", "moved"}

\* What the constants are, assumed where they are declared for good.
ArticleOrderAssumption ==
    /\ IsFiniteSet(Articles) /\ None \notin Articles \cup Orders \cup Results
    /\ AutoOrder \in Orders
    /\ MaxPosition \in Nat /\ MaxFailures \in Nat /\ ConfirmThreshold \in Nat

VARIABLES
    auto,      \* the order the section is shown in, or None if by position
    position,  \* at Zendesk
    call,      \* the request being served, or the last one served
    failures   \* bound counter

vars == <<auto, position, call, failures>>

-----------------------------------------------------------------------------
(* The order shown, and the one wanted.                                       *)

IndexOf(order, a) == CHOOSE i \in DOMAIN order : order[i] = a

Shows(order, pos) == \A i, j \in DOMAIN order : i < j => pos[order[i]] <= pos[order[j]]

Shown == IF auto = None THEN {order \in Orders : Shows(order, position)} ELSE {auto}

hasPositionInversion(order, pos) ==
    \E i \in 2 .. Len(order) : pos[order[i - 1]] > pos[order[i]]

Targets == {[to |-> to, ref |-> None] : to \in {"top", "bottom"}}
           \cup [to : {"before", "after"}, ref : Articles]

\* The moved article is taken out and put back at its slot.
arrangeDesiredOrder(order, moved, target) ==
    LET k == IndexOf(order, moved)
        n == Len(order)
        rest == [i \in 1 .. n - 1 |-> IF i < k THEN order[i] ELSE order[i + 1]]
        slot == CASE target.to = "top" -> 1
                  [] target.to = "bottom" -> n
                  [] target.to = "before" -> IndexOf(rest, target.ref)
                  [] target.to = "after" -> IndexOf(rest, target.ref) + 1
    IN  [i \in 1 .. n |-> IF i < slot THEN rest[i] ELSE IF i = slot THEN moved ELSE rest[i - 1]]

-----------------------------------------------------------------------------
(* The positions that realise it.                                             *)

\* One more than the greatest position of the others, for an article put last.
LastPosition(desired, pos) ==
    LET others == {pos[desired[i]] : i \in 1 .. Len(desired) - 1} \cup {-1}
    IN  1 + CHOOSE p \in others : \A q \in others : q <= p

\* Where the article at i goes if all from the moved one to it are bumped.
Bumped(desired, k, pos, i) ==
    (IF k = 1 THEN -1 ELSE pos[desired[k - 1]]) + 1 + (i - k)

\* A mutant that lets a tie be:
BlocksStrictly(desired, k, pos, i) ==
    i = k \/ (i > k /\ pos[desired[i]] < Bumped(desired, k, pos, i - 1))

\* The article at i does not clear the one before it, once that is bumped.
Blocks(desired, k, pos, i) ==
    i = k \/ (i > k /\ pos[desired[i]] <= Bumped(desired, k, pos, i - 1))

\* The cascade runs right from the moved article, as far as each blocks.
InCascade(desired, k, pos, i) == i >= k /\ \A j \in k .. i : Blocks(desired, k, pos, j)

NewPosition(desired, k, normalize, pos, i) ==
    IF normalize THEN i - 1
    ELSE IF k = Len(desired) THEN
        IF i = k /\ pos[desired[k]] < LastPosition(desired, pos)
        THEN LastPosition(desired, pos) ELSE pos[desired[i]]
    ELSE IF InCascade(desired, k, pos, i) THEN Bumped(desired, k, pos, i) ELSE pos[desired[i]]

\* The positions wanted: an article is written when its own is another.
computePositionWrites(desired, moved, normalize, pos) ==
    [a \in Articles |-> NewPosition(desired, IndexOf(desired, moved), normalize, pos, IndexOf(desired, a))]

isPlacedAsRequested(order, moved, target) ==
    LET k == IndexOf(order, moved) IN
    CASE target.to = "top" -> k = 1
      [] target.to = "bottom" -> k = Len(order)
      [] target.to = "before" -> k < IndexOf(order, target.ref)
      [] target.to = "after" -> k > IndexOf(order, target.ref)

-----------------------------------------------------------------------------
(* The handler.                                                               *)

\* The articles whose position is still to be written, by their place.
Pending == {i \in DOMAIN call.desired :
                position[call.desired[i]] # call.writes[call.desired[i]]}

Ends(answer) == call' = [call EXCEPT !.at = "answered", !.answer = answer]

\* The order is read, with the position of each article, and the writes derived.
\* Without any the article is said to be in its place already; an order that
\* contradicts the positions is said to be automatic.  `since` is what the call
\* this one re-runs had found.
Reads(moved, target, normalize, confirm, order, since) ==
    LET desired == arrangeDesiredOrder(order, moved, target)
        writes == computePositionWrites(desired, moved, normalize, position)
        changed == {a \in Articles : writes[a] # position[a]}
        answer ==
            CASE changed = {} -> "unchanged"
              [] changed # {} /\ hasPositionInversion(order, position) -> "automatic"
              [] OTHER -> IF Cardinality(changed) > ConfirmThreshold /\ ~confirm
                          THEN "unconfirmed" ELSE None
    IN  /\ call' = [moved |-> moved, target |-> target, normalize |-> normalize,
                    order |-> order, desired |-> desired, found |-> position, since |-> since,
                    writes |-> writes, answer |-> answer,
                    at |-> IF answer = None THEN "writing" ELSE "answered"]
        /\ UNCHANGED <<auto, position, failures>>

Reorder(moved, target, normalize, confirm) ==
    /\ call.at = "none" /\ target.ref # moved
    /\ \E order \in Shown : Reads(moved, target, normalize, confirm, order, position)

\* The identical call again, as the error of a failed one advises.
Rerun ==
    /\ call.at = "answered" /\ call.answer = "failed"
    /\ \E order \in Shown :
         Reads(call.moved, call.target, call.normalize, TRUE, order, call.since)

\* applyPositionWrites: one request after the other, in the order wanted.
WritePosition ==
    /\ call.at = "writing" /\ Pending # {}
    /\ \E i \in Pending :
         /\ \A j \in Pending : i <= j
         /\ position' = [position EXCEPT ![call.desired[i]] = call.writes[call.desired[i]]]
    /\ UNCHANGED <<auto, call, failures>>

\* A request fails, for good, applied or not: the error says how many were.
WriteFails ==
    /\ call.at = "writing" /\ Pending # {}
    /\ failures < MaxFailures /\ failures' = failures + 1
    /\ \E i \in Pending :
         /\ \A j \in Pending : i <= j
         /\ position' \in {position,
                           [position EXCEPT ![call.desired[i]] = call.writes[call.desired[i]]]}
    /\ Ends("failed")
    /\ UNCHANGED auto

\* The order is read again: the move shows, or the order is said to be automatic.
Verify ==
    /\ call.at = "writing" /\ Pending = {}
    /\ \E order \in Shown :
         Ends(IF isPlacedAsRequested(order, call.moved, call.target) THEN "moved" ELSE "automatic")
    /\ UNCHANGED <<auto, position, failures>>

VerifyFails ==
    /\ call.at = "writing" /\ Pending = {}
    /\ failures < MaxFailures /\ failures' = failures + 1
    /\ Ends("failed")
    /\ UNCHANGED <<auto, position>>

Init ==
    /\ auto \in {None, AutoOrder}
    /\ position \in [Articles -> 0 .. MaxPosition]
    /\ call = [at |-> "none"] /\ failures = 0

Next ==
    \/ \E moved \in Articles, target \in Targets, normalize, confirm \in BOOLEAN :
          Reorder(moved, target, normalize, confirm)
    \/ Rerun \/ WritePosition \/ WriteFails \/ Verify \/ VerifyFails

Spec == Init /\ [][Next]_vars

-----------------------------------------------------------------------------
(* Properties.                                                                *)

TypeOK ==
    /\ auto \in {None, AutoOrder} /\ failures \in 0 .. MaxFailures
    /\ position \in [Articles -> Nat]
    /\ IF call.at = "none" THEN call = [at |-> "none"]
       ELSE /\ call.moved \in Articles /\ call.target \in Targets /\ call.normalize \in BOOLEAN
            /\ {call.order, call.desired} \subseteq Orders
            /\ {call.found, call.writes, call.since} \subseteq [Articles -> Nat]
            /\ \/ call.at = "writing" /\ call.answer = None
               \/ call.at = "answered" /\ call.answer \in Results

Answered(answers) == IF call.at = "answered" THEN call.answer \in answers ELSE FALSE

\* In a section ordered by position, an article said to be moved, or to be in its
\* place already, is there in every order Zendesk may show: no tie can undo it
\* (computePositionWrites).
PlacedForGood ==
    auto = None /\ Answered({"moved", "unchanged"}) =>
        \A order \in Shown : isPlacedAsRequested(order, call.moved, call.target)

\* A section ordered by position is never said to be ordered automatically: the
\* writes the handler derives always show (hasPositionInversion, isPlacedAsRequested).
ManualNeverCalledAutomatic == auto = None => ~Answered({"automatic"})

\* The others, of a section ordered by position, keep an order their positions
\* told: p is what they were before.
KeepTheirOrder(p) ==
    \A a, b \in Articles \ {call.moved} : p[a] < p[b] => position[a] < position[b]

\* The writes move one article and leave the order of the others alone.
OthersKeepTheirOrder == auto = None /\ Answered({"moved"}) => KeepTheirOrder(call.found)

\* What the handler says of the order is true, and remains so.
ReorderIsTrue == PlacedForGood /\ OthersKeepTheirOrder /\ ManualNeverCalledAutomatic

\* "re-running the identical call is safe and resumes where it stopped"
\* (tools/help-center.ts:849): what a failed call had begun is as a call that did
\* not fail would have left it.
RerunResumes == auto = None /\ Answered({"moved", "unchanged"}) => KeepTheirOrder(call.since)
================================================================================
