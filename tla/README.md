# Verification of cloudflare_email_delivery

TLA+ models of the Frappe app in `src/cloudflare_email_delivery`: what TLC checks on small
instances and what TLAPS proves for all. The source is the reference; Frappe's core, the Cloudflare
email relay, Cloudflare's API and mail clients are outside it and modelled from how the app uses them.

## The system

The app lets a Frappe site send mail through Cloudflare Email Sending and receive mail from a
Cloudflare email relay.

| Part | State | Operations | Talks to |
| --- | --- | --- | --- |
| Inbound webhook (`api.py`) | Communications, follow-up mails, Unhandled Emails in the database; the request's transaction | `inbound`, `_deliver`, `store_unhandled_email`, `regenerate_webhook_secret` | the relay (HTTP status is the contract), Frappe's `InboundMail` |
| Wire contract (`relay.py`) | none | `sign`, `verify_signature`, envelope checks, `message_ids` | called by the webhook |
| Relay user (`relay_user.py`) | a user, a role, a permission rule, the session | `ensure_relay_user`, `remove_relay_user`, `acting_as_relay_user` | install, migrate and uninstall hooks; the webhook |
| Email Account (`custom/email_account.py`) | webhook key, secret and URL; default flags | `validate`, credentials, `there_must_be_only_one_default` | saved from the desk and by its Email Domain |
| Email Domain and send hook (`custom/email_domain.py`) | account id and token; sessions in `frappe.local.flags` | `send`, `get_cloudflare_settings`, `get_sending_session`, fallback, token check on save | Email Queue, sending session |
| Sending session (`cloudflare_api.py`) | the remembered fatal error | `send_message`, `_post`, `_check_recipients` | Cloudflare's API |
| Payload mapping (`cloudflare_api.py`) | none | `build_payload`, `_split_recipients`, `_passthrough_headers` | sending session |
| Token verification (`cloudflare_api.py`) | none | `verify_token` | Email Domain |
| Reply threading (`inbound.py`, `_passthrough_headers`) | headers of the messages under way, stored ids | `candidate_message_ids`, `is_known_message_id` | webhook, send hook, mail clients |

`demo.py`, `hooks.py`, `apps_screen.py`, the desk's JavaScript, the custom-field JSON, packaging and
the tests are not part of the delivery path and not modelled.

### What makes each part correct, and what is hard

- **Webhook.** The relay retries until it gets a 2xx or a 4xx it takes as final. Between two posts an
  answer may be lost, a worker may die, processing may fail at any call, and requests of several
  deliveries - or of one, when a timed-out request still runs - interleave between commits. Correct
  means: one Communication per delivery, follow-ups once, 200 only for what is on record, 4xx only
  for what will never succeed and has stored nothing, no half-made record of a failed attempt, and
  an answer on every path.
- **Sending.** A post without an answer may have been accepted. A job sends for several domains
  through sessions kept per Cloudflare account, and a 401 or 403 is remembered. Correct means: Sent
  only what was accepted, no duplicate without a lost answer, no call after a refusal and no failure
  of what was not refused, every copy sent or given up.
- **Threading.** Cloudflare replaces the `Message-ID`, messages arrive late and out of order, clients
  drop headers and `References` is cut to a limit. Correct means: a reply lands on the document of the
  message it answers.
- **Email Account and Email Domain.** A form is saved long after it was loaded, a request reads a
  snapshot, and a save of the domain re-saves its accounts; some writes go past the document. Correct
  means: credentials made once and rotated by no save, key and URL wherever mail is to come in, a key
  of one account only, one default that no old form revives, no domain saved with a dead token.
- **Relay user.** Administrators change its roles, rules and documents between two migrates, and what
  runs in its name may switch users itself. Correct means: after a migrate it can do its work and no
  more, nobody else's rights change, and a request gets its session back.
- **Payload.** Envelope and headers name overlapping people in different spellings; messages contain
  messages. Correct means: every recipient of the envelope once, nobody else, no hidden one shown, no
  part lost or sent twice.

Every hazard, at its line, is in `PROJECT.json`; those without a property say why.

## Modules

| Module | Models |
| --- | --- |
| `MailDelivery` | abstract: what the webhook promises about a delivery |
| `InboundWebhook` | `api.inbound`, `_deliver`, the relay's retries, the database, configuration changes |
| `InboundWebhook_proofs` | theorems about `InboundWebhook` |
| `InboundWebhook_refinement` | the proof that it implements `MailDelivery` |
| `MCInboundWebhook` | constants of its runs |
| `MailSending` | abstract: what sending promises about a copy |
| `SendingSession` | the Email Queue's jobs, the send hook, sessions, `_post`, Cloudflare |
| `SendingSession_proofs` | theorems about `SendingSession` |
| `Payload` | `build_payload`: who receives a message, which parts of it travel |
| `SendingPayload` | the two together: what is accepted, by whom and of what |
| `SendingPayload_proofs` | theorems about `Payload` and `SendingPayload` |
| `MCSendingSession` | constants of the sending runs |
| `Threading` | headers out, mail clients, header matching in |
| `Threading_proofs` | theorems about `Threading` |
| `TokenVerification` | `verify_token` over the answers of both endpoints |
| `WebhookAccount` | Email Accounts and Domains saved from the desk, the default, the secret, `host_name` |
| `WebhookAccount_proofs` | theorems about keys, defaults and tokens |
| `WebhookAccount_deliverable` | theorems about credentials, URLs and what the relay was set up with |
| `MCWebhookAccount` | constants of its run |
| `RelayUser` | install, migrate, uninstall, administrators' changes, the lent session |
| `RelayUser_proofs` | theorems about `RelayUser` |
| `MCRelayUser` | constants of its run |

Operators with a comment "As if ..." are plausible bugs of the definition that follows them. They
are not part of any specification: put in place of that definition, each makes TLC find a property
violated, which shows that the property depends on the code.

### InboundWebhook

`comms`, `followUps` and `unhandled` are the committed rows; a worker's request (`req[w]`, `pc[w]`)
holds what it has made but not committed. `account`, `secret`, `relayUser` are what the request
handler asks about the configuration. `status`, `attempts`, `remoteRef`, `relaySecret` belong to the
relay.

A transaction reads the snapshot its first query opens (MariaDB's repeatable read), so all that
`inbound` and `_deliver` look up before the first commit is one step; its alternatives are the
exits of the code, in their order: `Refuse` (too large, no account, signature, envelope, domain),
`NotReady`, `AnswerExisting`, `IgnoreOwnMail`, `ProcessKnown`, `ProcessNew`, `DocumentRefuses`,
`ProcessFails`. Then come `Commit` (api.py:104-106), `FollowUp` with the second commit and the answer
(107-112), `FollowUpRefused` and `FollowUpFails` (117-122), `StoreUnhandled` with its commit (121-130)
and `StoreUnhandledFails`. Other requests and changes of configuration run between any two of these;
`Crash` ends a request at any of them: the worker dies, or an exception leaves the request as a 500.
`Escape` is a ValidationError that leaves it, raised outside every `try` by `get_password`
(api.py:158), a lookup or `RelayInboundMail`'s constructor (api.py:101): Frappe's 417, which the relay
takes for a refusal. `RefuseLate` is a request verified when its timestamp has expired. `TimeOut` is
an answer lost or too late.

`Faults` names what may go wrong in an instance, so that a property can say under which trouble it
holds; with all of them the model has every behaviour. `Orderly` is that neither `late` nor `escape`
is among them. `RelayWaits` is the assumption that the relay
posts a delivery again only after the request of the attempt before has ended.

The reference document, an error or a follow-up may refuse or fail at any call: which ones do
depends on documents the app does not know. The mail's content shows only in `Kind`, what the checks
of `inbound` find in it, and in `MessageId`. `KnownMessageId` is Frappe's lookup, which finds any
Communication with the message's `Message-ID`.

`MailDelivery` knows `copies` and `outcome` of a delivery only. `KeepsPromise` maps `copies` to the
Communications of a delivery and `outcome` to the relay's status, with queued and waiting "open", and
`Patient` to `RelayWaits`: that a message is stored once, and not after it was settled, is promised of
a patient relay only, the rest of any.

### SendingSession

A copy is one recipient of one Email Queue entry, as the hook is called. `job[j]` is a process with
its `frappe.local`: the sessions by Cloudflare account, the copy under way, the attempt. `BeginBatch`,
`EndBatch`, `Sent`, `Failed` and `Requeue` are the Email Queue's (external). The outcomes of `send` are
`SendUnconfigured`, `SendFallback`, `SendFailsFast`, `SendMessage`; the branches of `_post`'s loop and
of `_check_recipients` are `Return`, `RaiseFatal`, `Raise`, `Sleep`, `Wake`. `CloudflareAnswers` may
accept a copy without its answer arriving (`lost`). How long a job sleeps is not modelled.

`MailSending` knows of a copy whether it is open, how often it was taken and how many of these
acceptances nobody on the site knows of. `KeepsPromise` maps them to the queue's state, `accepted` and
`lost`: a copy is not taken again while an acceptance is known or once the copy is settled, is called
sent only with one (unless answers may list nobody: `AnswerKinds`) and given up only without. `DuplicatesBounded`
says how often a copy can be taken at all, and `BatchAdvances` that each step of a job is a step
towards the end of its batch.

### Threading

`mail` holds the messages with the headers they travel with; `parent` is known to the writer only.
`Written` and `Passthrough` are the site's headers, `Answering` what mail clients do with them
(RFC 5322: the parent's `References`, else its `In-Reply-To`, then its id), `Candidates`, `Known`,
`FirstKnown` and `Recognised` the matching, `Document` Frappe's lookup of the id chosen. `Arrives`
delivers any message not yet received, in any order. `Clear` removes the record of a message: the
site still takes an id with its own name for known, but finds nothing by it. `Named` are the messages
whose id under way, a customer's client's or Cloudflare's, contains the site's name: `is_known_message_id`
looks for the name anywhere in an id (`NamesSite`), so such a one is known, too, on record or not. `Relink` is a link
changed by hand. `Anchor` defines the right answer on the tree of messages, which the site never
sees. Frappe's own guess by subject and sender for a message without a known id is left out.

### Payload and SendingPayload

An address is a mailbox in one of its spellings. `Take` and `Split` are `_split_recipients`: the
envelope decides who, the headers where. A MIME tree is a sequence of parts with their parents;
`Leaves` is `_iter_leaves`, `Attachments` what `_extract_content` makes of them, and `BodyPart` any
choice `EmailMessage.get_body` may make. A `message/rfc822` stays whole; any other `message/*`
("otherMessage": a delivery status, a `message/global` or `message/partial`) has parts like a multipart,
and `Leaves` looks into it. `ReachesEnvelope`, `HiddenStayHidden` and `CarriedOnce` say
what these must achieve without saying how. `SendingPayload` gives each copy an envelope as the hook
does (`EnvelopeOf`) and any headers and parts, and states the promises of what Cloudflare has accepted.

### WebhookAccount and TokenVerification

`editor[u]` is a request of the desk: the form it will save and, once submitted, the snapshot of the
database its first query opens. `SaveAccount`, `SaveDomain` and `Regenerate` compute what they write
from form and snapshot, as `validate` does, and commit in one step; they read as it is then only what
Frappe reads locked or leaves alone: the row's time of change (`UpToDate`), the other accounts' default
flags (`Undefault`) and stored passwords that the form shows masked (`SecretOf`). A domain's save checks
the token by `Verdict` over any answers the two endpoints may give, then saves the accounts its
snapshot shows on it, all or nothing. `Edited` is what an editor changes, one field at a time; a key
only comes in by an import, and as an assumption only into an account that has none: an import that
replaces a key is not excluded by the code, and would change it. `relay` is what an operator copied last, `Move` a new `host_name`.

`LinksWait` is an assumption about the operators: nobody puts an account on a domain while a request
that saves this domain is under way. Without it the two requests read each other's old state (a write
skew that the row locks do not prevent) and the account ends up on a Cloudflare domain without a key;
setting it to FALSE in `accounts.cfg` shows this. Off Cloudflare an account is core's: nothing is
checked there.

### RelayUser

`role`, `user` and `rules` are the documents; `May` is what they grant under Frappe's rules, where one
custom rule replaces all standard ones and disabled roles do not count. They are about Communication
alone, the one doctype in `OWNER_PERMISSIONS`. `Ensure` and `Remove` are the
install, migrate and uninstall hooks, `Change...` and `Restore` what administrators may do in between.
`request` goes through `acting_as_relay_user`: `Enter`, any number of `Switch` of what runs inside,
`Leave` - at the end of the block or by an exception, which run the same `finally`. Frappe's cache of
roles and rules is left out.

## Runs

| Run | Question | Result |
| --- | --- | --- |
| `webhook_retries` | retries, lost answers, worker deaths, failures at every call: once, truthful, never parked for what passes, settled | holds |
| `webhook_refusals` | configuration and secrets change while messages of each kind are delivered, with retries, late requests and 417s: refusals store nothing | holds |
| `webhook_overlap` | is a delivery stored once when attempts overlap? | violated |
| `webhook_refused_after_storing` | does a 4xx mean nothing was stored, whatever raises the ValidationError? | violated |
| `webhook_passing_trouble_parks` | is a message parked for a lasting reason only, whatever exception leaves the request? | violated |
| `webhook_follow_up_lost` | is every delivered message followed up? | violated |
| `sending_batch` | a refused token stops its account's calls and no other's; what is accepted is addressed right and whole, but for `message/*` taken apart | holds |
| `sending_retries` | Sent means accepted, duplicates need a lost answer and are bounded, no batch goes round in circles, every copy settles | holds |
| `sending_other_token` | does each domain's mail go out with its own token? | violated |
| `threading` | does what goes out carry the site's id, and every reply land on the right document, or at worst on a new one? | holds |
| `accounts` | saves from old forms, of domains and of defaults overlap: credentials stay, mail gets in, one default | holds |
| `relay_user` | administrators' changes between migrates: right permissions for the relay user and all others, session handed back | holds |

The violated ones are statements of the repository's documentation that the code does not keep:

- *overlap*: docs/webhook.md calls deliveries idempotent. `_deliver` looks up the relay id and inserts
  in a transaction the other request does not see, and no column is unique. The relay must not post
  again while the site still works on a request; `relay.py:22` expects that attempts queue.
- *refused after storing*: a ValidationError of `send_auto_reply` or `send_email` reaches the same
  handler as the document's, after the commit.
- *passing trouble parks*: a ValidationError raised outside the `try` becomes Frappe's 417, which
  api.py:10 says can't happen. So does a slow queue, as a 401 (relay.py:75), for which no document
  promises otherwise.
- *follow-ups lost*: after a 500 from a follow-up the retry is answered from the stored Communication.
- *other token*: sessions are looked up by account id, so the first domain's token serves all.

Four more disagreements between documentation and code came up, which the properties state as
exceptions instead of a run of their own:

- cloudflare_api.py:594 says that a 200 that reached nobody is a failure; `_check_recipients` returns
  before it looks at `delivered` and `queued` when no failure is listed. `sending_retries` leaves such
  answers out (`AnswerKinds`), `SentAccepted` excludes them by hypothesis.
- docs/threading.md:24 says that a reply to a message sent through Cloudflare lands on its document. An
  id of somebody else's that contains the site's name hides the site's own in `References`, and the
  reply lands on a new document (`Mistaken` in `LandsOnItsAnchor`), never on another's.
- cloudflare_api.py:216 keeps an attached message whole; `_iter_leaves` does so for `message/rfc822`
  only. What another `message/*` holds is attached, the part and its headers are not (`TakenApart` in
  `CarriedOnce`).
- docs/configuration.md:52 says that the relay role may read and write only the Communications it owns;
  a migrate leaves its rules on other doctypes as they are. `LeastPrivilege` is about Communications.

### Bounds

Two deliveries on two workers with two attempts each let every step of one request fall between any
two of another's and of its own retry's; d2 is recognised by `Message-ID` alone, d3 by relay id
alone, so both lookups must work. `webhook_refusals` has one worker (a refusal depends on what its
own request has read, and two workers are too many states with every kind of change) but two
attempts, so that a retry is refused whose first attempt was stored, four deliveries, two of them of
one message, and one rotation. Messages too large or with a bad envelope are refused as the
misrouted one is; the theorems cover every kind. `webhook_overlap` has two workers and a delivery
without Message-ID. `MaxAttempts` and `MaxRotations` bound the relay's retries and the rotations.

`sending_batch` has four copies, three domains and two accounts: a refusal, a later copy of the same
domain, of another domain on the account, and of another account. `sending_retries` has one job death
(`MaxCrashes`), one new token (`MaxTokens`) and one retry of a failed copy (`RetryLimit`). One job is
enough there: jobs share only the queue, and a copy is one job's at a time. In `sending_batch` headers
have up to two addresses of four mailboxes in two spellings, so that a mailbox may be named twice in a
header, in both or in none, and trees up to four parts, enough for a message in a message with a body.

`threading` writes four messages (`MaxMessages`), enough for a customer's reply to a reply that the
site has not got, with one id fitting `References` (`MaxIds`), so that trimming always happens, and
one link changed by hand (`MaxRelinks`) and one record cleared (`MaxCleared`). The second travels
under an id that contains the site's name (`Named`), the others do not: it may be the site's or a
customer's, hides what it answers, and is hidden by what answers it.

`accounts` has two accounts, one domain that is switched on and off, two requests at a time, three
saves (`MaxWrites`) and two changes of `host_name` (`MaxMoves`): a form is loaded, two other saves
pass, and it is saved; the site moves away and back. One host has no https, one token is expired.
`relay_user` has three changes between two resets (`MaxDrifts`): enough to disable the role, widen its
rule and restore the standard ones.

### Fairness

`Settles` and `EveryCopySettles` assume weak fairness of what a process does once it has begun: a
worker goes on with its request and its answer travels, the relay's retry loop posts or gives up; a
job goes on with its batch, the scheduler flushes the queue and frees stuck entries, and a post ends
with an answer or by `REQUEST_TIMEOUT`. No fault and no change of configuration is ever forced. Web
workers and background jobs are processes the site's supervisor keeps running; the retry loop and the
scheduler are periodic.

`Done` stutters when all deliveries or copies are settled, so deadlock is checked in every run.

## Proofs

`InboundWebhook_proofs` proves, for every set of accounts, deliveries and workers, every kind of
message, every bound and every set of faults, from `ConstantsAssumption` alone: `TypeCorrect`,
`DeliveredStored`, `FailedLeaves`; with requests verified in time and no ValidationError leaving one
(`Orderly`) `TransientRetried`; with a relay that waits `AtMostOnce` and
`FollowedUpOnce`; without ValidationErrors from follow-ups `RejectedStored`; and `FollowedUp` under
`Undisturbed`: the relay waits, no two deliveries are of one message, no follow-up fails or is refused
and no worker dies, whatever else goes wrong. The four runs that violate `TransientNeverParks`, `OnePerDelivery`,
`RejectedStoredNothing` and `DeliveredIsFollowedUp` show that these hypotheses are needed. The
assumption says nothing of the code but that the constants have their types and `None` is none of them.

The properties are not inductive: whether a commit makes a second Communication depends on what the
request looked up a step before. `IInv` adds:

- `Sound`, what a request may rely on by how far it has come: before its commit nothing is on record
  of its attempt; the Communication it holds is its own or one of the same message; with a relay that
  waits no other attempt has stored its delivery; and an answer, once given, stays true;
- `Apart`: two requests never handle the same attempt, and with a relay that waits never the same
  delivery - this is what keeps another request from storing between lookup and commit;
- `Recorded`: what is stored belongs to an attempt that was made and carries its relay id, so that the
  lookup finds it;
- `Steady`: without the faults that change them, accounts receive and signatures verify, so a 401 has
  a lasting reason when `Orderly`.

For `FollowedUp` it needs `Attended` besides: every Communication is followed up (`Followed`) or held
by the request that stored it, which is about to send the follow-ups (`Pending`). An answer that leaves
the handler before that would break it, and so does a retry that finds a Communication of another
delivery, hence the hypothesis on messages.

`LocalStep` covers all steps that touch one worker's request only, `AnswerStep` all answers among
them; one lemma for each commit follows, then the relay's and the configuration's steps, and
`NextIInv` puts them together.

`InboundWebhook_refinement` proves `Implements`: every behaviour keeps the promise of `MailDelivery`.
With a relay that waits, `Commit` and `StoreUnhandled` never store a delivery twice, by `IInv`; the
relay's reading of an answer settles a delivery that it then never posts again. One more invariant is
needed for it, `Finished`: a delivery the relay has settled has no request left that could still store
it. All other steps are invisible to the promise.

`SendingSession_proofs` proves, for every set of jobs, copies, domains and Cloudflare accounts, any
number of retries, tokens and deaths, from `SendingAssumption` alone: `TypeCorrect`, `RefusalStops`,
`RefusalStaysConfined`, `OnlyLossDuplicates`; and, if no 200 leaves its recipient unlisted,
`SentAccepted` (the code takes such an answer for a success). Here `IInv` adds:

- `Fits`, what holds of one job: its sessions remember exactly the refusals of the batch, and it posts
  only in a session without one;
- `Exclusive`: no two jobs have the same copy, which keeps one job's outcome from another's copy;
- `Accounted`: a copy that is not Sent has as many acceptances as were lost, and one more exactly when
  a job holds its answer. `DuplicatesOnlyByLoss` alone would not survive the next acceptance;
- `Counted`: a copy that may be sent has a retry left.

`JobStep` covers the steps of a job that accept nothing, `CloudStep` those that accept or lose.

On `IInv` rest four more theorems of the same module:

- `Implements`: every behaviour keeps the promise of `MailSending`. By `Accounted` the answer a job
  holds tells whether its copy is open with a known acceptance, so `Return` is the promise's `Send`,
  a last failure its `GiveUp`, a death with an acceptance at hand its `Forget`; batches, sessions,
  attempts, tokens and all failures but the last are invisible to it;
- `DuplicatesStayBounded`: for any answers and losses a copy is accepted at most `MAX_ATTEMPTS` times
  for each send, retry and death. `Within` is the invariant: what the deaths and the failed sends of a
  copy account for, and the attempt under way, which is counted before it is posted;
- `BatchEnds`: every step of a job ends its batch or is `Further`, in tried copies, then attempts, then
  the place in the loop. This is what bounds the steps of a batch; that they are taken is fairness,
  and stays with TLC (`EveryCopySettles`). It needs `Regular`: a job has not tried its copy before, and
  an attempt ends at zero;
- `OwnTokens`: if no two domains that send via Cloudflare share an account, each post has the token of
  its own domain, by `Regular` again: a session's token is of a domain of the session's account.

`SendingPayload_proofs` proves `EnvelopeReached`, `HiddenUnseen` and `PartsCarried` for headers,
envelopes and MIME trees of any size, and from them `Accepted` and `AcceptedComplete`. The three lists
`Split` makes are first shown to partition the envelope (`ThreeLists`); what is above a part is shown to
be a chain (`Chains`), of which the outermost attached message/rfc822 alone is a leaf (`Outermost`); what
a `message/*` of another type is taken apart into is carried, the part itself is not.

`Threading_proofs` proves `TypeCorrect`, `OwnIdKept` and `RepliesLand` for conversations of any size and
shape and any limit of `References`. `IInv` says what the headers of a message are, given its parent
(`Headed`); in particular `References` of what goes out through Cloudflare ends with the site's own id,
which `Trim` keeps. That the id found is the anchor's (`Found`) is then shown by taking the first
message for which it is not: its parent's headers are in its own. `Anchor` is a recursive function over
the messages; `UpExists` shows it is well defined. `SentRepliesLand` follows: a reply that keeps
`References`, to a message of the site's on record whose id under way does not contain the site's name,
lands on that message's document. That is what docs/threading.md says, with what it needs to be true.

`WebhookAccount_proofs` proves `TypeCorrect`, `DefaultIsOne`, `TokenWasValid`, `KeysStay` and
`DefaultsAreChosen` for any number of accounts, domains and requests, from `AccountsAssumption` and
`NoneAssumption`. `Inv` adds `Agree`: a row read earlier that still has the stored row's time of change
agrees with it in key and default, so a form that Frappe lets pass can't take a key back or revive a
default. That is why `Undefault` must set the time of change, as its mutant shows.

`WebhookAccount_deliverable` proves, with `LinksWait`, `AlwaysProvisioned`, `KeysAreOwn` and
`NeverCutOff`. Its `IInv` relates all that a request may hold to what is stored:

- `Sound` and `Owned`, of the stored rows and of every snapshot: a secret is there if and only if the
  field is masked, an account on a Cloudflare domain is provisioned, and the account a key was made for
  has it, too. The last makes `validate_webhook_key_unique` work in a snapshot that does not show
  another account's newest key: it shows the owner's;
- `Past`: rows of a snapshot are the stored ones or older, and keys and masks never go back;
- `Follows`: a form was loaded before its request's snapshot, so the snapshot has its secret and no
  second one is made; and the domain of an up-to-date form is in the snapshot as it is stored;
- `Linked`: a request that saves a domain has all its accounts in its snapshot. This needs `LinksWait`.

The hypothesis is needed for all three. Without it an account comes onto a Cloudflare domain without a
key; an imported key is then not compared with any other; and after six writes (beyond the bound of
`accounts`) the secret of such an account is replaced by an older form, because the regenerated one
left the row's time of change as it was.

`Provisions` says what a save does for both kinds of save; the steps that are no save keep rows as they
are, `Regenerate` included, since only an account with a secret gets a new one (`RegenerateOnly`).

`RelayUser_proofs` proves `LeastPrivileged`, `Deliverable`, `SessionsHandedBack`, `OthersUnchanged` and
`TypeCorrect` for any roles, rights, standard rules of Communication and number of changes, from `RelayUserAssumption`
and `NoneAssumption`. `Shape` says what a reset leaves until the next change, `Kept` what a request has
to hand back.

Only model-checked: `Settles` and `EveryCopySettles`, since liveness under fairness is beyond the
prover; `BatchEnds` and `TypeCorrect` are its part of the second. All other properties that hold are
proved, each for the specification without fairness, so for the one with it as well.

## Not modelled

- `demo.py` seeds a demonstration site; `hooks.py` and `apps_screen.py` are declarations.
- Waiting times (`Retry-After`, back-off, the age limit of a signature): no property depends on their
  length. A late verification is a step of its own (`RefuseLate`).
- Names, subjects, contents, encodings and header formats: formatting. Digests and the parsing of
  addresses and identifiers are taken by their results.
- The methods of the two doctypes that skip SMTP and IMAP connections change no state.
- Rules an administrator gives the relay role on doctypes other than Communication: the code neither
  sets nor resets them.
- Parts of a `message/*` beyond whether they travel: the headers lost with it are contents.
- Frappe's caches, and its matching of a reply by subject and sender.

## Plan

Done: all parts of the delivery path, a proof of every safety and action property and of both
refinements; and of each of the five statements that fail in a run, under a hypothesis that makes it
hold (`AtMostOnce`, `RejectedStored`, `TransientRetried`, `FollowedUp`, `OwnTokens`). Left, in this order:

1. The write skew of `LinksWait` as a run of its own, should the documentation come to promise that
   accounts of a domain always have a key.
2. `WebhookAccount` composed with `InboundWebhook`, whose `ChangeAccount` allows any change of an
   account at any time and so covers it, for liveness of delivery across a change of credentials.
3. A cache of roles that is cleared before the commit (relay_user.py:75), as a variable of `RelayUser`.
