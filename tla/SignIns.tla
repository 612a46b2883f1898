-------------------------------- MODULE SignIns --------------------------------
(* The login and consent steps oidc-provider hands to auth/server/             *)
(* interactions.ts: each authorization signs in to Zendesk again, and the      *)
(* tokens Zendesk gives wait for the consent under the user and the client,    *)
(* whichever sign-in they come from.                                           *)
(*                                                                             *)
(* The provider (external) keeps the steps of one authorization in order and   *)
(* ends an authorization the first time it is told to.  A client's redirect    *)
(* URIs do not change, and the back-office's role check is a refusal like      *)
(* another.  The tokens of a sign-in go by its name.                           *)
EXTENDS FiniteSets

CONSTANTS
    SignIns,    \* authorizations, begun once each
    Users,
    Clients,
    Trusted,    \* the clients no consent is asked for
    WriteFaults, \* whether a write of the store may fail
    None

Keys == Users \X Clients

\* What the constants are, assumed where they are declared for good.
SignInsAssumption ==
    /\ Trusted \subseteq Clients /\ WriteFaults \in BOOLEAN
    /\ None \notin SignIns \cup Users

VARIABLES
    client,    \* the client each sign-in is for
    user,      \* the Zendesk user it is for, once known
    step,      \* what the provider waits for
    verifiers, \* sign-ins whose PKCE verifier is kept
    asking,    \* sign-ins whose code is being exchanged
    tokens,    \* upstreamTokens: whose tokens wait for each user and client
    consents,  \* consentMemory
    grant,     \* whose tokens each sign-in's grant was given, told to its client or not
    agreed,    \* history: what users have confirmed
    disturbed  \* history: sign-ins whose tokens expired or met another sign-in

pending == <<verifiers, asking, tokens>>
vars == <<client, user, step, pending, consents, grant, agreed, disturbed>>

Steps == {"none", "login", "consent", "saving", "remembering", "granted", "denied"}

-----------------------------------------------------------------------------

\* A mutant that forgets whose tokens they are:
KeyOfClient(u, c) == <<CHOOSE v \in Users : TRUE, c>>

KeyOf(u, c) == <<u, c>>

pendingKey(s) == KeyOf(user[s], client[s])

Start(s) ==
    /\ step[s] = "none"
    /\ step' = [step EXCEPT ![s] = "login"]
    /\ UNCHANGED <<client, user, pending, consents, grant, agreed, disturbed>>

\* Each time the login step is shown, a new verifier replaces the one kept
\* (bound: a sign-in exchanges one code at a time).
StartUpstreamLogin(s) ==
    /\ step[s] = "login" /\ s \notin asking
    /\ verifiers' = verifiers \cup {s}
    /\ UNCHANGED <<client, user, step, asking, tokens, consents, grant, agreed, disturbed>>

Deny(s) == step' = [step EXCEPT ![s] = "denied"]

\* The browser is back, with a code or not.  The verifier serves once: a page
\* loaded again denies the sign-in while the first load's exchange goes on.
Callback(s, code) ==
    /\ step[s] = "login"
    /\ IF s \in verifiers /\ code THEN asking' = asking \cup {s} /\ UNCHANGED step
                                  ELSE Deny(s) /\ UNCHANGED asking
    /\ verifiers' = verifiers \ {s}
    /\ UNCHANGED <<client, user, tokens, consents, grant, agreed, disturbed>>

\* A mutant that keeps the tokens that are there:
KeepFirst(k, s) == [tokens EXCEPT ![k] = IF @ = None THEN s ELSE @]

Keep(k, s) == [tokens EXCEPT ![k] = s]

\* Zendesk gives u's tokens, which replace those that waited under the same key.
Exchanged(s, u) ==
    /\ s \in asking /\ asking' = asking \ {s}
    /\ user[s] = None /\ user' = [user EXCEPT ![s] = u]
    /\ tokens' = Keep(KeyOf(u, client[s]), s)
    /\ disturbed' = disturbed \cup ({tokens[KeyOf(u, client[s])]} \ {None})
    /\ step' = [step EXCEPT ![s] = IF @ = "login" THEN "consent" ELSE @]
    /\ UNCHANGED <<client, verifiers, consents, grant, agreed>>

\* The exchange or the identity fails: a refusal denies, an outage answers a 500
\* and the step can be shown again.
ExchangeFails(s, refused) ==
    /\ s \in asking /\ asking' = asking \ {s}
    /\ IF refused /\ step[s] = "login" THEN Deny(s) ELSE UNCHANGED step
    /\ UNCHANGED <<client, user, verifiers, tokens, consents, grant, agreed, disturbed>>

-----------------------------------------------------------------------------
(* Consent.                                                                   *)

\* upstreamTokens.take: read and forgotten.
Take(k) == [tokens EXCEPT ![k] = None]

\* The tokens that wait are taken by s, which saves a grant with them at once or
\* remembers the consent first; without any the sign-in is said to have expired.
TakeTokens(s, next) ==
    LET k == pendingKey(s) IN
    /\ tokens' = Take(k)
    /\ disturbed' = disturbed \cup ({tokens[k]} \ {None, s})
    /\ IF tokens[k] = None THEN Deny(s) /\ UNCHANGED grant
       ELSE /\ step' = [step EXCEPT ![s] = next]
            /\ grant' = [grant EXCEPT ![s] = tokens[k]]

Remembered(s) == <<user[s], client[s]>> \in consents

\* The consent step is shown: skipped for a client that is trusted or remembered.
SkipConsent(s) ==
    /\ step[s] = "consent"
    /\ client[s] \in Trusted \/ Remembered(s)
    /\ TakeTokens(s, "saving")
    /\ UNCHANGED <<client, user, verifiers, asking, consents, agreed>>

Confirm(s) ==
    /\ step[s] = "consent"
    /\ TakeTokens(s, "remembering")
    /\ agreed' = agreed \cup {<<user[s], client[s]>>}
    /\ UNCHANGED <<client, user, verifiers, asking, consents>>

\* A sign-in is denied while its first answer is handled, which goes on: its consent
\* may still be written, and its grant, of which no client is told.
Overtake(s) ==
    /\ Deny(s)
    /\ \/ UNCHANGED consents
       \/ step[s] = "remembering" /\ consents' = consents \cup {<<user[s], client[s]>>}
    /\ UNCHANGED grant

\* A second answer to the same page, or the page shown again, while the first awaits
\* the stores: it finds the tokens taken, or takes those of another sign-in, and
\* either grant may be the one the client is given.
AnswerAgain(s) ==
    /\ step[s] \in {"remembering", "saving"}
    /\ LET k == pendingKey(s) IN
       /\ tokens' = Take(k) /\ disturbed' = disturbed \cup ({tokens[k]} \ {None})
       /\ IF tokens[k] = None THEN Overtake(s)
          ELSE grant' \in {grant, [grant EXCEPT ![s] = tokens[k]]} /\ UNCHANGED <<step, consents>>
    /\ UNCHANGED <<client, user, verifiers, asking, agreed>>

\* The consent is written; if that throws, the tokens are gone with it.
Remember(s, ok) ==
    /\ step[s] = "remembering" /\ (ok \/ WriteFaults)
    /\ consents' = IF ok THEN consents \cup {<<user[s], client[s]>>} ELSE consents
    /\ step' = [step EXCEPT ![s] = IF ok THEN "saving" ELSE "consent"]
    /\ grant' = IF ok THEN grant ELSE [grant EXCEPT ![s] = None]
    /\ disturbed' = IF ok THEN disturbed ELSE disturbed \cup {s}
    /\ UNCHANGED <<client, user, pending, agreed>>

\* approve: the grant, then its tokens, then the client's answer.
Approve(s, ok) ==
    /\ step[s] = "saving" /\ (ok \/ WriteFaults)
    /\ step' = [step EXCEPT ![s] = IF ok THEN "granted" ELSE "consent"]
    /\ grant' = IF ok THEN grant ELSE [grant EXCEPT ![s] = None]
    /\ disturbed' = IF ok THEN disturbed ELSE disturbed \cup {s}
    /\ UNCHANGED <<client, user, pending, consents, agreed>>

\* The user declines, in either step, or after a confirmation that is still handled.
Abort(s) ==
    /\ step[s] \in {"login", "consent", "remembering", "saving"}
    /\ Overtake(s)
    /\ UNCHANGED <<client, user, pending, agreed, disturbed>>

\* The ten minutes of a verifier, of tokens and of an interaction; the ninety days
\* of a consent.
Expire ==
    \/ \E s \in verifiers :
         /\ verifiers' = verifiers \ {s}
         /\ UNCHANGED <<client, user, step, asking, tokens, consents, grant, agreed, disturbed>>
    \/ \E k \in Keys :
         /\ tokens[k] # None
         /\ tokens' = [tokens EXCEPT ![k] = None] /\ disturbed' = disturbed \cup {tokens[k]}
         /\ UNCHANGED <<client, user, step, verifiers, asking, consents, grant, agreed>>
    \/ \E k \in consents :
         /\ consents' = consents \ {k}
         /\ UNCHANGED <<client, user, step, pending, grant, agreed, disturbed>>

\* The process starts again: what waited is lost, a consent remembered is not.
Restart ==
    /\ verifiers' = {} /\ asking' = {} /\ tokens' = [k \in Keys |-> None]
    /\ step' = [s \in SignIns |->
                  IF step[s] \in {"none", "granted"} THEN step[s] ELSE "denied"]
    /\ grant' = [s \in SignIns |-> IF step[s] = "remembering" THEN None ELSE grant[s]]
    /\ UNCHANGED <<client, user, consents, agreed, disturbed>>

Init ==
    /\ client \in [SignIns -> Clients] /\ user = [s \in SignIns |-> None]
    /\ step = [s \in SignIns |-> "none"]
    /\ verifiers = {} /\ asking = {} /\ tokens = [k \in Keys |-> None]
    /\ consents = {} /\ grant = [s \in SignIns |-> None]
    /\ agreed = {} /\ disturbed = {}

Next ==
    \/ \E s \in SignIns :
         \/ Start(s) \/ StartUpstreamLogin(s) \/ SkipConsent(s) \/ Confirm(s)
         \/ AnswerAgain(s) \/ Abort(s)
         \/ \E u \in Users : Exchanged(s, u)
         \/ \E yes \in BOOLEAN : \/ Callback(s, yes) \/ ExchangeFails(s, yes)
                                 \/ Remember(s, yes) \/ Approve(s, yes)
    \/ Expire \/ Restart

Spec == Init /\ [][Next]_vars

-----------------------------------------------------------------------------
(* Properties.                                                                *)

TypeOK ==
    /\ client \in [SignIns -> Clients] /\ user \in [SignIns -> Users \cup {None}]
    /\ step \in [SignIns -> Steps]
    /\ verifiers \subseteq SignIns /\ asking \subseteq SignIns
    /\ tokens \in [Keys -> SignIns \cup {None}]
    /\ consents \subseteq agreed /\ agreed \subseteq Keys
    /\ grant \in [SignIns -> SignIns \cup {None}] /\ disturbed \subseteq SignIns

\* A grant has the tokens its own user got for its own client, and no two grants
\* have the same: Zendesk would end both when one of them refreshes.
GrantsOwnTokens ==
    \A s \in SignIns : grant[s] # None =>
        /\ user[grant[s]] = user[s] /\ client[grant[s]] = client[s]
        /\ \A t \in SignIns \ {s} : grant[t] # grant[s]
        /\ \A k \in Keys : tokens[k] # grant[s]

\* A grant is for a client its user agreed to, in this sign-in or an earlier one,
\* unless the client is trusted, even one left over by a sign-in that was denied.
GrantsAgreed ==
    \A s \in SignIns : grant[s] # None =>
        client[s] \in Trusted \/ <<user[s], client[s]>> \in agreed

\* What a client is granted is what its user has signed in for and agreed to.
GrantsJustified == GrantsOwnTokens /\ GrantsAgreed

\* A sign-in that waits for consent finds its tokens, unless they expired, a write
\* failed, or another sign-in of the same user to the same client came between
\* (interactions.ts:214).
LoneSignInKeepsTokens ==
    \A s \in SignIns : step[s] = "consent" => s \in disturbed \/ tokens[pendingKey(s)] = s
================================================================================
