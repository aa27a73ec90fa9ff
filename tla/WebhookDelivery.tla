-------------------------- MODULE WebhookDelivery --------------------------
(***************************************************************************)
(* Delivery of a result to the receivers of a webhook while the secret is  *)
(* being replaced (src/webhook.ts).  Runs read the settings when they      *)
(* start, a request can be under way for some time, and any of several     *)
(* receivers can answer it.  The order in which the operators change the   *)
(* settings is the one of docs/USAGE.md:3134-3140.                         *)
(*                                                                         *)
(* A signature is the key it was made with: the body is signed and         *)
(* verified as the same bytes.                                             *)
(***************************************************************************)
EXTENDS Integers, SequencesExt

CONSTANTS
    WebhookRuns,  \* the runs of the workflow
    Receivers,    \* the receivers behind the URL
    SigningKeys,  \* the keys, oldest first
    Contents,     \* whose address a result names: "account", "contract", "muxed"
    MaxDeliveries \* bound: how many requests there are

None == "none"

\* No key is the mark of an empty input.
ASSUME WebhookAssumption ==
    /\ SigningKeys \in Seq(ToSet(SigningKeys) \ {None}) /\ Len(SigningKeys) > 0
    /\ MaxDeliveries \in Nat

VARIABLES
    secret,         \* webhook_secret
    secretPrevious, \* webhook_secret_previous
    accepted,       \* what each receiver verifies against, newest first
    request,        \* of each run: the request under way
    ended,          \* of each run: how its last delivery ended
    refusals,       \* history: requests that receivers refused: [reason, key, bearer]
    deliveries      \* how many there were

webhookVars == <<secret, secretPrevious, accepted, request, ended, refusals, deliveries>>

NoRequest == [mode |-> None, key |-> None, bearer |-> FALSE, signatures |-> {}]

-----------------------------------------------------------------------------
(* The sender.                                                             *)

\* Mutation of buildWebhookSignatureHeaders: only the current key signs.
buildWebhookSignatureHeadersOne(current, former) == {current} \ {None}

\* The former key never signs alone.
buildWebhookSignatureHeaders(current, former) ==
    IF current = None THEN {} ELSE {current, former} \ {None}

\* validateWebhookPayload: the schema knows addresses of accounts and of
\* contracts, not muxed ones; the other fields are well formed as built.
Conforms(content) == content \in {"account", "contract"}

\* deliverWebhook: a bearer token replaces the signatures, in every mode.  key
\* is webhook_secret as the run read it.
Headers(mode, key, bearer) ==
    [mode |-> mode, key |-> key, bearer |-> bearer,
     signatures |-> IF bearer THEN {} ELSE buildWebhookSignatureHeaders(key, secretPrevious)]

(* The receiver.                                                           *)

\* verifyWebhookSignatureWithRotation: the reason, or which of the keys
\* (1 is the newest) a signature matches.
verifyWebhookSignatureWithRotation(signatures, keys) ==
    IF signatures = {} THEN [valid |-> FALSE, reason |-> "NO_SIGNATURE"]
    ELSE IF keys = <<>> THEN [valid |-> FALSE, reason |-> "NO_SECRETS"]
    ELSE IF signatures \cap ToSet(keys) = {} THEN [valid |-> FALSE, reason |-> "SIGNATURE_MISMATCH"]
    ELSE [valid |-> TRUE,
          matchedKeyIndex |-> CHOOSE i \in DOMAIN keys :
              keys[i] \in signatures /\ \A j \in 1..(i - 1) : keys[j] \notin signatures]

-----------------------------------------------------------------------------
WebhookInit ==
    /\ secret = SigningKeys[1]
    /\ secretPrevious = None
    /\ accepted = [r \in Receivers |-> <<SigningKeys[1]>>]
    /\ request = [w \in WebhookRuns |-> NoRequest]
    /\ ended = [w \in WebhookRuns |-> None]
    /\ refusals = {}
    /\ deliveries = 0

UnderWay(w) == request[w] # NoRequest

Finishes(w, how) == ended' = [ended EXCEPT ![w] = how]

\* sendWebhookNotification.  In OIDC mode the token may not be minted: the
\* step fails and nothing is sent.  A pre-minted one is used in every mode.  A
\* run may have no webhook_secret: its hmac request is sent unsigned.
Notify(w) ==
    /\ ~UnderWay(w) /\ deliveries < MaxDeliveries
    /\ \E content \in Contents, mode \in {"hmac", "oidc"}, key \in {secret, None}, token \in BOOLEAN :
          \/ /\ mode = "oidc" /\ ~token
             /\ Finishes(w, "failed step")
             /\ UNCHANGED request
          \/ /\ mode = "oidc" => token
             /\ ~Conforms(content)
             /\ Finishes(w, "not sent")
             /\ UNCHANGED request
          \/ /\ mode = "oidc" => token
             /\ Conforms(content)
             /\ request' = [request EXCEPT ![w] = Headers(mode, key, token)]
             /\ Finishes(w, None)
    /\ deliveries' = deliveries + 1
    /\ UNCHANGED <<secret, secretPrevious, accepted, refusals>>

\* What the receiver of a mode refuses a request for: one of OIDC mode wants a
\* token, one of hmac mode a signature, whatever else the request carries.
Refused(q, keys) ==
    IF q.mode = "oidc" THEN (IF q.bearer THEN {} ELSE {"NO_TOKEN"})
    ELSE LET checked == verifyWebhookSignatureWithRotation(q.signatures, keys) IN
         IF checked.valid THEN {} ELSE {checked.reason}

\* A receiver gets the request and verifies it.  Any answer, also 401, counts
\* as sent, unless the time is up before it comes.
Receive(w) ==
    /\ UnderWay(w)
    /\ \E r \in Receivers, late \in BOOLEAN :
          /\ refusals' = refusals \cup
                {[reason |-> x, key |-> request[w].key, bearer |-> request[w].bearer] :
                    x \in Refused(request[w], accepted[r])}
          /\ Finishes(w, IF late THEN "not sent" ELSE "sent")
    /\ request' = [request EXCEPT ![w] = NoRequest]
    /\ UNCHANGED <<secret, secretPrevious, accepted, deliveries>>

\* The time is up, the network fails, or the caller's signal is aborted as the
\* runner cancels the job; there is no second attempt.
Lose(w) ==
    /\ UnderWay(w)
    /\ \E how \in {"not sent", "cancelled"} : Finishes(w, how)
    /\ request' = [request EXCEPT ![w] = NoRequest]
    /\ UNCHANGED <<secret, secretPrevious, accepted, refusals, deliveries>>

(* The operators.                                                          *)

\* Receivers and workflow take up the next key in any order.
AcceptNew(r) ==
    /\ \E i \in 2..Len(SigningKeys) : accepted[r] = <<SigningKeys[i - 1]>> /\ accepted' = [accepted EXCEPT ![r] = <<SigningKeys[i], SigningKeys[i - 1]>>]
    /\ UNCHANGED <<secret, secretPrevious, request, ended, refusals, deliveries>>

SignWithBoth ==
    /\ secretPrevious = None
    /\ \A r \in Receivers : secret \in ToSet(accepted[r])
    /\ \E i \in 2..Len(SigningKeys) : secret = SigningKeys[i - 1] /\ secret' = SigningKeys[i] /\ secretPrevious' = SigningKeys[i - 1]
    /\ UNCHANGED <<accepted, request, ended, refusals, deliveries>>

\* Once every receiver accepts the new key.
SignWithNew ==
    /\ secretPrevious # None
    /\ \A r \in Receivers : secret \in ToSet(accepted[r])
    /\ secretPrevious' = None
    /\ UNCHANGED <<secret, accepted, request, ended, refusals, deliveries>>

\* Once the old key is not matched any more.
DropOld(r) ==
    /\ secretPrevious = None
    /\ Len(accepted[r]) = 2 /\ accepted[r][1] = secret
    /\ \A w \in WebhookRuns : request[w].signatures # {} => secret \in request[w].signatures
    /\ accepted' = [accepted EXCEPT ![r] = <<secret>>]
    /\ UNCHANGED <<secret, secretPrevious, request, ended, refusals, deliveries>>

WebhookNext ==
    \/ \E w \in WebhookRuns : Notify(w) \/ Receive(w) \/ Lose(w)
    \/ \E r \in Receivers : AcceptNew(r) \/ DropOld(r)
    \/ SignWithBoth
    \/ SignWithNew

WebhookSpec == WebhookInit /\ [][WebhookNext]_webhookVars

-----------------------------------------------------------------------------
(* Properties.                                                             *)

\* While the secret is replaced in the documented order, no receiver refuses
\* a request that carries a signature, whichever runs and receivers are behind
\* and however long the request was under way, and none of OIDC mode is
\* refused.  What an hmac receiver refuses carries no signature at all, because
\* the run had no secret or because a token it was given took the place of the
\* signatures (deliverWebhook, buildWebhookSignatureHeaders,
\* verifyWebhookSignatureWithRotation).
RotationIsSeamless ==
    \A x \in refusals : x.reason = "NO_SIGNATURE" /\ (x.key = None \/ x.bearer)
=============================================================================
