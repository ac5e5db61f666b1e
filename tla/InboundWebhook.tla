--------------------------- MODULE InboundWebhook ---------------------------
(***************************************************************************)
(* The inbound webhook: the requests the Cloudflare email relay posts to    *)
(* `api.inbound`, the database they share, and the relay that retries them. *)
(*                                                                          *)
(* A request reads the database through the snapshot its first query opens  *)
(* (repeatable read), so everything `inbound` and `_deliver` look up before *)
(* the first commit is one step: it sees one state.  What follows - the     *)
(* commit of the Communication, the follow-up mails and their commit, the   *)
(* record of a failed message, the answer - are steps of their own, between *)
(* which other requests run, the site reconfigures and the worker may die.  *)
(*                                                                          *)
(* The relay, Frappe's core and the database are external to the app: they  *)
(* are modelled from how the app uses them.                                 *)
(***************************************************************************)
EXTENDS Naturals

CONSTANTS
    Accounts,     \* Email Accounts of the site
    Deliveries,   \* the relay's queue entries, each one message for one account
    Workers,      \* web workers of the site
    AccountOf,    \* the account whose webhook key a delivery is posted with
    MessageId,    \* the Message-ID of a delivery's message, None without one
    Identified,   \* the deliveries posted with an X-Email-Relay-Id
    Kind,         \* what the checks of `inbound` find in a message
    MaxAttempts,  \* how often the relay posts a delivery (a bound of the model)
    MaxRotations, \* how often a secret is regenerated (a bound of the model)
    RelayWaits,   \* the relay posts a delivery again only when the request of
                  \* the previous attempt has ended on the site
    Faults,       \* what may go wrong or change, see FaultKinds
    None

Kinds == {"plain", "oversized", "undeclared", "badEnvelope", "misrouted", "ownMail"}

FaultKinds ==
    { "timeout",    \* the relay stops waiting for an answer, or it is lost
      "crash",      \* a worker dies, or an exception leaves the request as a 500
      "escape",     \* a ValidationError leaves the request: the framework's 417
      "late",       \* a request is verified after the signature's tolerance
      "document",   \* the reference document refuses a message
      "error",      \* anything else fails before the Communication is committed
      "followUpError",   \* auto-reply or notification fails
      "followUpRefused", \* ... with a ValidationError
      "storeError", \* the Unhandled Email can't be stored either
      "account",    \* an account is disabled, enabled or moved to another domain
      "rotation",   \* a webhook secret is regenerated
      "relayUser" } \* the relay user is missing, migrated or removed

ASSUME ConstantsAssumption ==
    /\ AccountOf \in [Deliveries -> Accounts]
    /\ Identified \subseteq Deliveries
    /\ Kind \in [Deliveries -> Kinds]
    /\ MaxAttempts \in Nat /\ MaxRotations \in Nat
    /\ RelayWaits \in BOOLEAN
    /\ Faults \subseteq FaultKinds
    /\ None \notin Deliveries \cup {"process", "followUp"}
    /\ None \notin [of : Deliveries, attempt : Nat, relayId : Deliveries \cup {None}]

VARIABLES
    comms,       \* the committed Communications
    followUps,   \* the committed auto-replies and notifications
    unhandled,   \* the committed Unhandled Emails
    account,     \* what an account's key resolves to
    secret,      \* the version of an account's webhook secret
    relayUser,   \* whether the relay user exists
    pc,          \* where a worker is in its request
    req,         \* the request a worker handles
    status,      \* relay: state of a delivery
    attempts,    \* relay: posts of a delivery so far
    remoteRef,   \* relay: the Communication the site answered with
    relaySecret  \* relay: the version of the secret it signs with

dbVars     == <<comms, followUps, unhandled>>
configVars == <<account, secret, relayUser, relaySecret>>
relayVars  == <<status, attempts, remoteRef>>
vars == <<dbVars, configVars, relayVars, pc, req>>
-----------------------------------------------------------------------------
Attempt == 1 .. MaxAttempts

\* A Communication is known by the attempt that created it.
Comm == [of : Deliveries, attempt : Attempt, relayId : Deliveries \cup {None}]

Codes == {200, 401, 413, 417, 422, 500, 503}

Permanent == {401, 413, 417, 422}

\* An answer: the HTTP status, 0 before there is one, and the remote_ref.
Answer == [code : Codes \cup {0}, ref : Comm \cup {None}]

NoAnswer == [code |-> 0, ref |-> None]

\* comm is the Communication the request has made or found; failedAt is the
\* call the traceback of an Unhandled Email points at.
Request == [of : Deliveries, attempt : Attempt, signed : 0 .. MaxRotations,
            comm : Comm \cup {None}, new : BOOLEAN,
            failedAt : {"process", "followUp", None}, answer : Answer]

TypeOK ==
    /\ comms \subseteq Comm
    /\ followUps \subseteq [about : Comm, of : Deliveries, attempt : Attempt]
    /\ unhandled \subseteq [of : Deliveries, attempt : Attempt, reason : {"process", "followUp"}]
    /\ account \in [Accounts -> {"receiving", "disabled", "elsewhere"}]
    /\ secret \in [Accounts -> 0 .. MaxRotations]
    /\ relaySecret \in [Accounts -> 0 .. MaxRotations]
    /\ relayUser \in BOOLEAN
    /\ pc \in [Workers -> {"idle", "received", "processed", "stored", "failed", "answered"}]
    /\ req \in [Workers -> Request \cup {None}]
    /\ \A w \in Workers :
         /\ pc[w] # "idle" => req[w] \in Request
         /\ pc[w] \in {"processed", "stored"} => req[w].comm \in Comm
         /\ pc[w] = "failed" => req[w].failedAt # None
    /\ status \in [Deliveries -> {"queued", "waiting", "delivered", "rejected", "exhausted"}]
    /\ attempts \in [Deliveries -> 0 .. MaxAttempts]
    /\ remoteRef \in [Deliveries -> Comm \cup {None}]

Init ==
    /\ comms = {} /\ followUps = {} /\ unhandled = {}
    /\ account = [a \in Accounts |-> "receiving"]
    /\ secret = [a \in Accounts |-> 0]
    /\ relaySecret = [a \in Accounts |-> 0]
    /\ relayUser = ("relayUser" \notin Faults)
    /\ pc = [w \in Workers |-> "idle"]
    /\ req = [w \in Workers |-> None]
    /\ status = [d \in Deliveries |-> "queued"]
    /\ attempts = [d \in Deliveries |-> 0]
    /\ remoteRef = [d \in Deliveries |-> None]
-----------------------------------------------------------------------------
(* The relay (external): posts, waits, retries, parks.                      *)

Busy(d) == \E w \in Workers : pc[w] # "idle" /\ req[w].of = d

Awaited(w) == status[req[w].of] = "waiting" /\ attempts[req[w].of] = req[w].attempt

\* The relay posts delivery d, signed with the secret it knows; worker w gets it.
Post(d, w) ==
    /\ status[d] = "queued" /\ attempts[d] < MaxAttempts
    /\ pc[w] = "idle"
    /\ RelayWaits => ~Busy(d)
    /\ status' = [status EXCEPT ![d] = "waiting"]
    /\ attempts' = [attempts EXCEPT ![d] = @ + 1]
    /\ pc' = [pc EXCEPT ![w] = "received"]
    /\ req' = [req EXCEPT ![w] =
                 [of |-> d, attempt |-> attempts[d] + 1, signed |-> relaySecret[AccountOf[d]],
                  comm |-> None, new |-> FALSE, failedAt |-> None, answer |-> NoAnswer]]
    /\ UNCHANGED <<dbVars, configVars, remoteRef>>

\* The relay stops waiting, or the connection breaks: it will retry.
TimeOut(d) ==
    /\ "timeout" \in Faults
    /\ status[d] = "waiting"
    /\ status' = [status EXCEPT ![d] = "queued"]
    /\ UNCHANGED <<dbVars, configVars, attempts, remoteRef, pc, req>>

\* The status code is the contract: 200 delivered, 401/413/417/422 rejected, else retried.
OutcomeOf(code) ==
    IF code = 200 THEN "delivered" ELSE IF code \in Permanent THEN "rejected" ELSE "queued"

\* The answer arrives; the relay heeds it if it still waits for this attempt.
Receive(w) ==
    /\ pc[w] = "answered"
    /\ IF Awaited(w)
         THEN /\ status' = [status EXCEPT ![req[w].of] = OutcomeOf(req[w].answer.code)]
              /\ remoteRef' = [remoteRef EXCEPT ![req[w].of] = req[w].answer.ref]
         ELSE UNCHANGED <<status, remoteRef>>
    /\ pc' = [pc EXCEPT ![w] = "idle"]
    /\ req' = [req EXCEPT ![w] = None]
    /\ UNCHANGED <<dbVars, configVars, attempts>>

GiveUp(d) ==
    /\ status[d] = "queued" /\ attempts[d] = MaxAttempts
    /\ status' = [status EXCEPT ![d] = "exhausted"]
    /\ UNCHANGED <<dbVars, configVars, attempts, remoteRef, pc, req>>
-----------------------------------------------------------------------------
(* The request handler.                                                     *)

\* _respond: the answer waits to be sent; the worker's work is done.
Respond(w, code, ref) ==
    /\ pc' = [pc EXCEPT ![w] = "answered"]
    /\ req' = [req EXCEPT ![w].answer = [code |-> code, ref |-> ref]]

\* _find_account: the key resolves only to an enabled account on a Cloudflare domain.
FindsAccount(d) == account[AccountOf[d]] = "receiving"

\* verify_signature, for a timestamp within the tolerance.
Verifies(w) == req[w].signed = secret[AccountOf[req[w].of]]

\* The first check of `inbound` that refuses the request, as its status; 0 if none does.
Refusal(w) ==
    LET d == req[w].of
    IN IF Kind[d] = "oversized" THEN 413
       ELSE IF ~FindsAccount(d) THEN 401
       ELSE IF Kind[d] = "undeclared" THEN 413
       ELSE IF ~Verifies(w) THEN 401
       ELSE IF Kind[d] \in {"badEnvelope", "misrouted"} THEN 422
       ELSE 0

Refuse(w) ==
    /\ pc[w] = "received"
    /\ Refusal(w) # 0
    /\ Respond(w, Refusal(w), None)
    /\ UNCHANGED <<dbVars, configVars, relayVars>>

\* The request waited so long that its timestamp is outside the tolerance.
RefuseLate(w) ==
    /\ "late" \in Faults
    /\ pc[w] = "received"
    /\ Refusal(w) \in {0, 401, 422}
    /\ Respond(w, 401, None)
    /\ UNCHANGED <<dbVars, configVars, relayVars>>

\* A ValidationError is raised outside every `try` - by get_password, which
\* can't decrypt the secret, by the lookups or by RelayInboundMail's constructor -
\* and leaves the request, which the framework answers with 417.
Escape(w) ==
    /\ "escape" \in Faults
    /\ pc[w] = "received"
    /\ FindsAccount(req[w].of) /\ Kind[req[w].of] \notin {"oversized", "undeclared"}
    /\ Respond(w, 417, None)
    /\ UNCHANGED <<dbVars, configVars, relayVars>>

Accepted(w) == pc[w] = "received" /\ Refusal(w) = 0

\* As if RelayUserMissing were caught with the ValidationErrors.
NotReadyParked(w) ==
    /\ Accepted(w) /\ ~relayUser
    /\ Respond(w, 422, None)
    /\ UNCHANGED <<dbVars, configVars, relayVars>>

\* RelayUserMissing: not migrated yet, the relay keeps the message.
NotReady(w) ==
    /\ Accepted(w) /\ ~relayUser
    /\ Respond(w, 503, None)
    /\ UNCHANGED <<dbVars, configVars, relayVars>>

Delivering(w) == Accepted(w) /\ relayUser

\* As if the site never looked for what it has.
NoLookup(d) == {}

\* The Communications the lookup by relay id finds, scoped to the account.
KnownRelayId(d) ==
    IF d \in Identified
      THEN {c \in comms : c.relayId = d /\ AccountOf[c.of] = AccountOf[d]}
      ELSE {}

\* Frappe's core (external): the Communications with the message's Message-ID.
KnownMessageId(d) ==
    IF MessageId[d] = None THEN {} ELSE {c \in comms : MessageId[c.of] = MessageId[d]}

\* A retry of a delivery the site has: 200 with the existing Communication.
AnswerExisting(w) ==
    /\ Delivering(w)
    /\ \E c \in KnownRelayId(req[w].of) : Respond(w, 200, c)
    /\ UNCHANGED <<dbVars, configVars, relayVars>>

Processing(w) == Delivering(w) /\ KnownRelayId(req[w].of) = {}

\* SentEmailInInboxError: our own mail looped back, ignored.
IgnoreOwnMail(w) ==
    /\ Processing(w) /\ Kind[req[w].of] = "ownMail"
    /\ Respond(w, 200, None)
    /\ UNCHANGED <<dbVars, configVars, relayVars>>

\* As if process() returned nothing for a message it knows.
ProcessKnownNothing(w) ==
    /\ Processing(w) /\ Kind[req[w].of] # "ownMail"
    /\ KnownMessageId(req[w].of) # {}
    /\ pc' = [pc EXCEPT ![w] = "processed"]
    /\ UNCHANGED <<req, dbVars, configVars, relayVars>>

\* mail.process() finds the message by its Message-ID and returns what it found.
ProcessKnown(w) ==
    /\ Processing(w) /\ Kind[req[w].of] # "ownMail"
    /\ \E c \in KnownMessageId(req[w].of) : req' = [req EXCEPT ![w].comm = c]
    /\ pc' = [pc EXCEPT ![w] = "processed"]
    /\ UNCHANGED <<dbVars, configVars, relayVars>>

\* mail.process() inserts a Communication, not committed yet.
ProcessNew(w) ==
    /\ Processing(w) /\ Kind[req[w].of] # "ownMail"
    /\ KnownMessageId(req[w].of) = {}
    /\ pc' = [pc EXCEPT ![w] = "processed"]
    /\ req' = [req EXCEPT ![w].new = TRUE,
                 ![w].comm = [of |-> req[w].of, attempt |-> req[w].attempt, relayId |-> None]]
    /\ UNCHANGED <<dbVars, configVars, relayVars>>

\* As if the rollback were missing: the framework commits what a POST has
\* written when the request ends.
RefuseWithoutRollback(w) ==
    /\ "document" \in Faults
    /\ Processing(w) /\ Kind[req[w].of] # "ownMail"
    /\ comms' = comms \cup
         {[of |-> req[w].of, attempt |-> req[w].attempt, relayId |-> None]}
    /\ Respond(w, 422, None)
    /\ UNCHANGED <<followUps, unhandled, configVars, relayVars>>

\* mail.process() raises a ValidationError: rolled back, 422.
DocumentRefuses(w) ==
    /\ "document" \in Faults
    /\ Processing(w) /\ Kind[req[w].of] # "ownMail"
    /\ Respond(w, 422, None)
    /\ UNCHANGED <<dbVars, configVars, relayVars>>

\* The Communication the request has made and not rolled back.
Created(w) == IF req[w].new /\ req[w].comm # None THEN {req[w].comm} ELSE {}

\* As if cf_relay_id were never set.
CommitUnstamped(w) == req[w].comm

\* communication.db_set("cf_relay_id", ...), before the commit.
Stamped(w) ==
    IF req[w].new /\ req[w].of \in Identified
      THEN [req[w].comm EXCEPT !.relayId = req[w].of]
      ELSE req[w].comm

\* As if the answer did not wait for the commit.
CommitLeftOut(w) ==
    /\ pc[w] = "processed"
    /\ pc' = [pc EXCEPT ![w] = "stored"]
    /\ req' = [req EXCEPT ![w].comm = Stamped(w)]
    /\ UNCHANGED <<dbVars, configVars, relayVars>>

\* The first commit: Communication and relay id together.
Commit(w) ==
    /\ pc[w] = "processed"
    /\ comms' = comms \cup {Stamped(w)}
    /\ pc' = [pc EXCEPT ![w] = "stored"]
    /\ req' = [req EXCEPT ![w].comm = Stamped(w)]
    /\ UNCHANGED <<followUps, unhandled, configVars, relayVars>>

\* As if every answer with a Communication were followed up, new or not.
FollowUpAlways(w) ==
    /\ pc[w] = "stored"
    /\ followUps' = followUps \cup
         {[about |-> req[w].comm, of |-> req[w].of, attempt |-> req[w].attempt]}
    /\ Respond(w, 200, req[w].comm)
    /\ UNCHANGED <<comms, unhandled, configVars, relayVars>>

\* As if the answer were inside the branch for new Communications.
FollowUpNewOnly(w) ==
    /\ pc[w] = "stored" /\ req[w].new
    /\ followUps' = followUps \cup
         {[about |-> c, of |-> req[w].of, attempt |-> req[w].attempt] : c \in Created(w)}
    /\ Respond(w, 200, req[w].comm)
    /\ UNCHANGED <<comms, unhandled, configVars, relayVars>>

\* Auto-reply and notifications for a new Communication, the second commit, 200.
FollowUp(w) ==
    /\ pc[w] = "stored"
    /\ followUps' = followUps \cup
         {[about |-> c, of |-> req[w].of, attempt |-> req[w].attempt] : c \in Created(w)}
    /\ Respond(w, 200, req[w].comm)
    /\ UNCHANGED <<comms, unhandled, configVars, relayVars>>

\* A follow-up raises a ValidationError: its mails are rolled back, 422.
FollowUpRefused(w) ==
    /\ "followUpRefused" \in Faults
    /\ pc[w] = "stored" /\ req[w].new
    /\ Respond(w, 422, None)
    /\ UNCHANGED <<dbVars, configVars, relayVars>>

\* As if the rollback were missing from the exception handler.
FailWithoutRollback(w, call) ==
    /\ pc' = [pc EXCEPT ![w] = "failed"]
    /\ req' = [req EXCEPT ![w].failedAt = call]
    /\ UNCHANGED <<dbVars, configVars, relayVars>>

\* Any other exception: the uncommitted work is rolled back.
Fail(w, call) ==
    /\ pc' = [pc EXCEPT ![w] = "failed"]
    /\ req' = [req EXCEPT ![w].failedAt = call, ![w].comm = None]
    /\ UNCHANGED <<dbVars, configVars, relayVars>>

\* process(), db_set or the first commit raises.
ProcessFails(w) ==
    /\ "error" \in Faults
    /\ \/ Processing(w) /\ Kind[req[w].of] # "ownMail"
       \/ pc[w] = "processed"
    /\ Fail(w, "process")

FollowUpFails(w) ==
    /\ "followUpError" \in Faults
    /\ pc[w] = "stored" /\ req[w].new
    /\ Fail(w, "followUp")

\* As if a message on record as an Unhandled Email needed no retry.
StoreUnhandledAccepted(w) ==
    /\ pc[w] = "failed"
    /\ unhandled' = unhandled \cup
         {[of |-> req[w].of, attempt |-> req[w].attempt, reason |-> req[w].failedAt]}
    /\ Respond(w, 200, None)
    /\ UNCHANGED <<comms, followUps, configVars, relayVars>>

\* store_unhandled_email and its commit, which commits what else was written; 500.
StoreUnhandled(w) ==
    /\ pc[w] = "failed"
    /\ unhandled' = unhandled \cup
         {[of |-> req[w].of, attempt |-> req[w].attempt, reason |-> req[w].failedAt]}
    /\ comms' = comms \cup Created(w)
    /\ Respond(w, 500, None)
    /\ UNCHANGED <<followUps, configVars, relayVars>>

\* Storing fails too: rolled back, 500 all the same.
StoreUnhandledFails(w) ==
    /\ "storeError" \in Faults
    /\ pc[w] = "failed"
    /\ Respond(w, 500, None)
    /\ UNCHANGED <<dbVars, configVars, relayVars>>

\* The worker dies, or an exception that is no ValidationError leaves the request:
\* nothing uncommitted survives and the relay gets a broken connection or a 500.
Crash(w) ==
    /\ "crash" \in Faults
    /\ pc[w] \notin {"idle", "answered"}
    /\ pc' = [pc EXCEPT ![w] = "idle"]
    /\ req' = [req EXCEPT ![w] = None]
    /\ status' = IF Awaited(w) THEN [status EXCEPT ![req[w].of] = "queued"] ELSE status
    /\ UNCHANGED <<dbVars, configVars, attempts, remoteRef>>
-----------------------------------------------------------------------------
(* The site's and the relay's configuration.                                *)

\* regenerate_webhook_secret: a new secret, the key stays.
RotateSecret(a) ==
    /\ "rotation" \in Faults
    /\ account[a] # "elsewhere"
    /\ secret[a] < MaxRotations
    /\ secret' = [secret EXCEPT ![a] = @ + 1]
    /\ UNCHANGED <<dbVars, account, relayUser, relaySecret, relayVars, pc, req>>

\* The operator pastes the new secret into the relay (external).
UpdateRelaySecret(a) ==
    /\ relaySecret[a] # secret[a]
    /\ relaySecret' = [relaySecret EXCEPT ![a] = secret[a]]
    /\ UNCHANGED <<dbVars, account, relayUser, secret, relayVars, pc, req>>

\* The account is saved with other settings (external: the desk form).
ChangeAccount(a) ==
    /\ "account" \in Faults
    /\ \E s \in {"receiving", "disabled", "elsewhere"} \ {account[a]} :
          account' = [account EXCEPT ![a] = s]
    /\ UNCHANGED <<dbVars, secret, relayUser, relaySecret, relayVars, pc, req>>

\* ensure_relay_user by after_migrate, remove_relay_user by hand.
ChangeRelayUser ==
    /\ "relayUser" \in Faults
    /\ relayUser' = ~relayUser
    /\ UNCHANGED <<dbVars, account, secret, relaySecret, relayVars, pc, req>>
-----------------------------------------------------------------------------
Handle(w) ==
    \/ Refuse(w) \/ RefuseLate(w) \/ Escape(w) \/ NotReady(w)
    \/ AnswerExisting(w) \/ IgnoreOwnMail(w)
    \/ ProcessKnown(w) \/ ProcessNew(w) \/ DocumentRefuses(w) \/ ProcessFails(w)
    \/ Commit(w)
    \/ FollowUp(w) \/ FollowUpRefused(w) \/ FollowUpFails(w)
    \/ StoreUnhandled(w) \/ StoreUnhandledFails(w)

Configure ==
    \/ \E a \in Accounts : RotateSecret(a) \/ UpdateRelaySecret(a) \/ ChangeAccount(a)
    \/ ChangeRelayUser

AllSettled ==
    /\ \A d \in Deliveries : status[d] \in {"delivered", "rejected", "exhausted"}
    /\ \A w \in Workers : pc[w] = "idle"

\* Every delivery is settled and the site is at rest.
Done == AllSettled /\ UNCHANGED vars

Next ==
    \/ \E d \in Deliveries : TimeOut(d) \/ GiveUp(d) \/ \E w \in Workers : Post(d, w)
    \/ \E w \in Workers : Receive(w) \/ Handle(w) \/ Crash(w)
    \/ Configure
    \/ Done

\* A worker goes on with its request, the network brings its answer, and the
\* relay's retry loop runs; nothing forces a fault or a change of configuration.
Fairness ==
    /\ \A w \in Workers : WF_vars(Receive(w) \/ Handle(w))
    /\ \A d \in Deliveries : WF_vars(GiveUp(d) \/ \E w \in Workers : Post(d, w))

Spec == Init /\ [][Next]_vars

FairSpec == Spec /\ Fairness
-----------------------------------------------------------------------------
(* Properties.                                                              *)

\* A retry of d can be recognised: by its relay id or by its Message-ID.
Traceable == Identified \cup {d \in Deliveries : MessageId[d] # None}

SameMessage(d, e) == MessageId[d] # None /\ MessageId[d] = MessageId[e]

\* However often a delivery is posted, and whatever fails in between, at most
\* one Communication comes of it (docs/webhook.md: "Deliveries are idempotent").
OnePerDelivery ==
    \A c, e \in comms : c.of = e.of /\ c.of \in Traceable => c = e

\* The relay calls a delivery delivered only when a Communication of the same
\* message is committed and is the one it was told of; own mail alone has none.
DeliveredIsStored ==
    \A d \in Deliveries : status[d] = "delivered" =>
        IF Kind[d] = "ownMail"
          THEN remoteRef[d] = None
          ELSE /\ remoteRef[d] \in comms
               /\ remoteRef[d].of = d \/ SameMessage(d, remoteRef[d].of)

\* The auto-reply and notifications of a Communication are sent by one request
\* only, the one that stored it, and never for a Communication rolled back.
FollowUpOnce ==
    \A f \in followUps :
        /\ f.about \in comms /\ f.about.of = f.of /\ f.about.attempt = f.attempt
        /\ \A g \in followUps : f.about.of = g.about.of /\ f.of \in Traceable => f = g

\* A message on record as an Unhandled Email, because its processing failed, left
\* no half-made Communication, which a retry would take for one delivered.
FailedLeavesNothing ==
    \A u \in unhandled : u.reason = "process" =>
        \A c \in comms : ~(c.of = u.of /\ c.attempt = u.attempt)

\* What makes the site refuse a delivery for good: the message, the document, the
\* configuration; a follow-up, only once the message is stored.
Refusable(d) ==
    \/ Kind[d] \in {"oversized", "undeclared", "badEnvelope", "misrouted"}
    \/ Faults \cap {"document", "account", "rotation"} # {}
    \/ "followUpRefused" \in Faults /\ \E c \in comms : c.of = d

\* Requests are verified in time, and no ValidationError leaves one.  Without it
\* trouble that passes does park messages: a slow queue as 401 (relay.py:75), what
\* is raised outside the `try` as the framework's 417 (api.py:158).
Orderly == Faults \cap {"late", "escape"} = {}

\* Trouble that passes - a lost answer, a crash, an error, a site that is not
\* migrated - never parks a message: it is refused for a lasting reason only.
\* The module promises it of every exception ("Nothing here ever raises out of
\* the request", api.py:10); the code keeps it when Orderly.
TransientNeverParks == \A d \in Deliveries : status[d] = "rejected" => Refusable(d)

\* A request that answers 4xx has stored nothing: the relay parks the message
\* as rejected, and the sender's mail counts as refused (api.py:118).
RejectedStoredNothing ==
    \A w \in Workers : pc[w] = "answered" /\ req[w].answer.code \in Permanent =>
        \A c \in comms : ~(c.of = req[w].of /\ c.attempt = req[w].attempt)

\* A delivered message was followed up: step 6 of docs/receiving.md creates the
\* Communication and "then sends the auto-reply and notifications".
DeliveredIsFollowedUp ==
    \A d \in Deliveries : status[d] = "delivered" /\ remoteRef[d] # None =>
        \E f \in followUps : f.about = remoteRef[d]

\* Every delivery the relay takes on is settled, whatever fails on the way: no
\* path of the handler leaves a request without an answer.
Settles ==
    \A d \in Deliveries : <>[](status[d] \in {"delivered", "rejected", "exhausted"})

-----------------------------------------------------------------------------
(* The inductive invariant behind the safety properties.                    *)

SameAttempt(x, y) == x.of = y.of /\ x.attempt = y.attempt

\* What is known of the request a worker handles, by how far it has come.
Sound(w) ==
    /\ pc[w] # "idle" => req[w].attempt <= attempts[req[w].of]
    \* nothing is on record of an attempt that has not committed
    /\ pc[w] \in {"received", "processed"} =>
         /\ \A c \in comms : ~SameAttempt(c, req[w])
         /\ \A u \in unhandled : ~SameAttempt(u, req[w])
    /\ pc[w] = "received" => ~req[w].new
    \* a Communication is this attempt's own, or the same message's from before
    /\ pc[w] \in {"processed", "stored"} =>
         /\ Kind[req[w].of] # "ownMail"
         /\ req[w].new => SameAttempt(req[w].comm, req[w])
         /\ ~req[w].new => SameMessage(req[w].of, req[w].comm.of)
    /\ pc[w] = "processed" => IF req[w].new THEN req[w].comm.relayId = None
                                             ELSE req[w].comm \in comms
    /\ pc[w] = "stored" => req[w].comm \in comms
    \* no other attempt has stored what this one is about to store
    /\ RelayWaits /\ pc[w] = "processed" /\ req[w].new /\ req[w].of \in Traceable =>
         \A c \in comms : c.of # req[w].of
    /\ pc[w] = "failed" => req[w].comm = None
    /\ pc[w] = "failed" /\ req[w].failedAt = "process" =>
         \A c \in comms : ~SameAttempt(c, req[w])
    \* an answer tells the truth
    /\ pc[w] = "answered" =>
         /\ req[w].answer.code \in Codes
         /\ Orderly /\ req[w].answer.code \in Permanent => Refusable(req[w].of)
         /\ req[w].answer.code \in Permanent /\ "followUpRefused" \notin Faults =>
              \A c \in comms : ~SameAttempt(c, req[w])
         /\ req[w].answer.code = 200 =>
              LET c == req[w].answer.ref
              IN IF Kind[req[w].of] = "ownMail" THEN c = None
                 ELSE c \in comms /\ (c.of = req[w].of \/ SameMessage(req[w].of, c.of))

\* Attempts are numbered, and handled by one worker; with a relay that waits,
\* so are deliveries.
Apart ==
    \A v, w \in Workers : v # w /\ pc[v] # "idle" /\ pc[w] # "idle" =>
        /\ ~SameAttempt(req[v], req[w])
        /\ RelayWaits => req[v].of # req[w].of

\* What is stored belongs to an attempt made, and carries its relay id.
Recorded ==
    /\ \A c \in comms :
         /\ c.attempt <= attempts[c.of]
         /\ c.relayId = IF c.of \in Identified THEN c.of ELSE None
         /\ Kind[c.of] # "ownMail"
    /\ \A u \in unhandled : u.attempt <= attempts[u.of]
    /\ \A f \in followUps : f.about \in comms /\ SameAttempt(f.about, f)

\* Without such changes accounts receive and signatures verify.
Steady ==
    /\ "account" \notin Faults => \A a \in Accounts : account[a] = "receiving"
    /\ "rotation" \notin Faults =>
         /\ \A a \in Accounts : secret[a] = 0 /\ relaySecret[a] = 0
         /\ \A w \in Workers : pc[w] # "idle" => req[w].signed = 0

IInv ==
    /\ TypeOK
    /\ Steady
    /\ \A w \in Workers : Sound(w)
    /\ Apart
    /\ Recorded
    /\ RelayWaits => OnePerDelivery
    /\ DeliveredIsStored
    /\ FailedLeavesNothing
    /\ Orderly => TransientNeverParks
-----------------------------------------------------------------------------
(* The promise to the outside world.                                        *)

Promise == INSTANCE MailDelivery WITH
    Patient   <- RelayWaits,
    Ignorable <- {d \in Deliveries : Kind[d] = "ownMail"},
    copies    <- [d \in Deliveries |-> {c \in comms : c.of = d}],
    outcome   <- [d \in Deliveries |->
                    IF status[d] \in {"delivered", "rejected"} THEN status[d]
                    ELSE IF status[d] = "exhausted" THEN "abandoned" ELSE "open"]

\* The webhook, its retries and transactions included, keeps that promise.
KeepsPromise == Promise!Spec
=============================================================================
