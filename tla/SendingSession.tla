--------------------------- MODULE SendingSession ---------------------------
(***************************************************************************)
(* Sending: background jobs flush the Email Queue through the app's hook,   *)
(* which posts each copy to Cloudflare in the job's session for the         *)
(* domain's Cloudflare account, with the retry matrix of `_post`.           *)
(*                                                                          *)
(* Cloudflare may accept a copy and its answer still be lost.  The Email    *)
(* Queue (Frappe, external) offers a failed copy again up to its limit; a   *)
(* copy is one recipient of one entry, as the hook gets them.  What a copy  *)
(* looks like on the wire is not modelled here, only whether it can be      *)
(* built.                                                                   *)
(***************************************************************************)
EXTENDS Naturals

CONSTANTS
    Jobs,         \* processes that flush the queue, each with its frappe.local
    Copies,       \* recipients of Email Queue entries
    Domains,      \* Email Domains
    CfAccounts,   \* Cloudflare account ids
    DomainOf,     \* the domain a copy is sent from
    AccountOf,    \* the account id on a domain
    Transport,    \* how a domain sends: "cloudflare", "incomplete" settings, "other"
    Unbuildable,  \* copies build_payload or the size check refuses
    Answers,      \* the kinds of answers Cloudflare gives, see AnswerKinds
    RetryLimit,   \* Email Queue: retries of a failed copy
    MaxTokens,    \* token changes per domain (a bound of the model)
    MaxCrashes,   \* job deaths (a bound of the model)
    None

AnswerKinds ==
    { "accepted",     \* 200, success, the recipient is delivered or queued
      "bounced",      \* 200, success, the recipient bounced or is suppressed
      "nobody",       \* 200, success, no recipient listed anywhere
      "unsuccessful", \* 200 without success: true
      "limited",      \* 429
      "broken",       \* 5xx, or no answer at all
      "refused" }     \* any other 4xx
    \* 401 and 403 are not chosen: they are the answer to an invalid token.

ASSUME SendingAssumption ==
    /\ DomainOf \in [Copies -> Domains]
    /\ AccountOf \in [Domains -> CfAccounts]
    /\ Transport \in [Domains -> {"cloudflare", "incomplete", "other"}]
    /\ Unbuildable \subseteq Copies
    /\ Answers \subseteq AnswerKinds
    /\ RetryLimit \in Nat /\ MaxTokens \in Nat /\ MaxCrashes \in Nat
    /\ None \notin AnswerKinds \cup {"fatal"} \cup Copies
    /\ None \notin [token : Domains \X Nat, fatal : BOOLEAN]

VARIABLES
    queue,     \* Email Queue: state of a copy
    retries,   \* Email Queue: failed sends of a copy
    job,       \* state of a job: what it sends, its sessions
    token,     \* version of the token stored on a domain
    valid,     \* tokens Cloudflare accepts
    accepted,  \* Cloudflare: how often it has taken a copy
    lost,      \* acceptances the Email Queue never learned of
    crashes

queueVars == <<queue, retries>>
cloudVars == <<valid, accepted>>
vars == <<queueVars, cloudVars, job, token, lost, crashes>>

MAX_ATTEMPTS == 3

Token == Domains \X (0 .. MaxTokens)

\* A session of a job: the token it was made with, and whether a 401 or 403 is
\* remembered.
Session == [token : Token, fatal : BOOLEAN]

\* tried: the copies of the batch so far; refusals: the accounts that answered
\* 401 or 403 in this batch (seen in the log only).
Job == [pc : {"off", "batch", "post", "answer", "sleep"}, copy : Copies \cup {None},
        attempt : 0 .. MAX_ATTEMPTS,
        answer : AnswerKinds \cup {"fatal", None},
        sessions : [CfAccounts -> Session \cup {None}],
        tried : SUBSET Copies, refusals : SUBSET CfAccounts]

TypeOK ==
    /\ queue \in [Copies -> {"not sent", "sending", "sent", "error"}]
    /\ retries \in [Copies -> 0 .. RetryLimit + 1]
    /\ job \in [Jobs -> Job]
    /\ \A j \in Jobs : job[j].pc \in {"post", "answer", "sleep"} => job[j].copy # None
    /\ token \in [Domains -> 0 .. MaxTokens]
    /\ valid \subseteq Token
    /\ accepted \in [Copies -> Nat] /\ lost \in [Copies -> Nat]
    /\ crashes \in 0 .. MaxCrashes

NewJob == [pc |-> "off", copy |-> None, attempt |-> 0, answer |-> None,
           sessions |-> [a \in CfAccounts |-> None], tried |-> {}, refusals |-> {}]

Init ==
    /\ queue = [c \in Copies |-> "not sent"]
    /\ retries = [c \in Copies |-> 0]
    /\ job = [j \in Jobs |-> NewJob]
    /\ token = [d \in Domains |-> 0]
    /\ valid \in SUBSET ({d \in Domains : Transport[d] = "cloudflare"} \X {0})
    /\ accepted = [c \in Copies |-> 0] /\ lost = [c \in Copies |-> 0]
    /\ crashes = 0
-----------------------------------------------------------------------------
(* The Email Queue (external).                                              *)

BeginBatch(j) ==
    /\ job[j].pc = "off"
    /\ \E c \in Copies : queue[c] = "not sent"
    /\ job' = [job EXCEPT ![j] = [NewJob EXCEPT !.pc = "batch"]]
    /\ UNCHANGED <<queueVars, cloudVars, token, lost, crashes>>

\* Job j has done what it found; its frappe.local, sessions included, goes.
EndBatch(j) ==
    /\ job[j].pc = "batch"
    /\ \A c \in Copies : queue[c] = "not sent" => c \in job[j].tried
    /\ job' = [job EXCEPT ![j] = NewJob]
    /\ UNCHANGED <<queueVars, cloudVars, token, lost, crashes>>

\* A copy is offered to the hook once in a batch.
Offered(j, c) == job[j].pc = "batch" /\ queue[c] = "not sent" /\ c \notin job[j].tried

\* The hook returned: the copy is marked Sent.
Sent(c) ==
    /\ queue' = [queue EXCEPT ![c] = "sent"]
    /\ UNCHANGED retries

\* The hook raised: Not Sent, or Error once the retries are used up.
Failed(c) ==
    /\ retries' = [retries EXCEPT ![c] = @ + 1]
    /\ queue' = [queue EXCEPT ![c] = IF retries[c] < RetryLimit THEN "not sent" ELSE "error"]

\* The job goes on with the next copy.
DoneWith(j, c) == [job[j] EXCEPT !.pc = "batch", !.copy = None, !.attempt = 0,
                  !.answer = None, !.tried = @ \cup {c}]

\* An entry left in Sending by a dead job is offered again.
Requeue(c) ==
    /\ queue[c] = "sending"
    /\ \A j \in Jobs : job[j].copy # c
    /\ queue' = [queue EXCEPT ![c] = "not sent"]
    /\ UNCHANGED <<retries, cloudVars, job, token, lost, crashes>>
-----------------------------------------------------------------------------
(* The hook: send, get_cloudflare_settings, get_sending_session.            *)

Sends(c) == Transport[DomainOf[c]] = "cloudflare"

CfAccount(c) == AccountOf[DomainOf[c]]

\* As if sessions were kept per domain: a refused token is not remembered for
\* the account's other domains.
SessionPerDomain(j, c) ==
    LET s == job[j].sessions[CfAccount(c)]
    IN IF s # None /\ s.token[1] = DomainOf[c] THEN s
       ELSE [token |-> <<DomainOf[c], token[DomainOf[c]]>>, fatal |-> FALSE]

\* The job's session for the copy's Cloudflare account; made at first use, with
\* the token of the domain that uses it first.
SessionFor(j, c) ==
    IF job[j].sessions[CfAccount(c)] # None
      THEN job[j].sessions[CfAccount(c)]
      ELSE [token |-> <<DomainOf[c], token[DomainOf[c]]>>, fatal |-> FALSE]

\* No settings on a domain that sends via Cloudflare: thrown before any session.
SendUnconfigured(j, c) ==
    /\ Offered(j, c) /\ Transport[DomainOf[c]] = "incomplete"
    /\ Failed(c)
    /\ job' = [job EXCEPT ![j] = DoneWith(j, c)]
    /\ UNCHANGED <<cloudVars, token, lost, crashes>>

\* send_via_fallback: SMTP or Frappe Mail takes the copy, or raises.
SendFallback(j, c) ==
    /\ Offered(j, c) /\ Transport[DomainOf[c]] = "other"
    /\ Sent(c) \/ Failed(c)
    /\ job' = [job EXCEPT ![j] = DoneWith(j, c)]
    /\ UNCHANGED <<cloudVars, token, lost, crashes>>

\* send_message fails without a call: an earlier 401 or 403 is remembered, or
\* the payload can't be built or is too big.  The session stays.
SendFailsFast(j, c) ==
    /\ Offered(j, c) /\ Sends(c)
    /\ SessionFor(j, c).fatal \/ c \in Unbuildable
    /\ Failed(c)
    /\ job' = [job EXCEPT ![j] =
                 [DoneWith(j, c) EXCEPT !.sessions[CfAccount(c)] = SessionFor(j, c)]]
    /\ UNCHANGED <<cloudVars, token, lost, crashes>>

\* send_message reaches `_post`.
SendMessage(j, c) ==
    /\ Offered(j, c) /\ Sends(c)
    /\ ~SessionFor(j, c).fatal /\ c \notin Unbuildable
    /\ queue' = [queue EXCEPT ![c] = "sending"]
    /\ job' = [job EXCEPT ![j] =
                 [@ EXCEPT !.pc = "post", !.copy = c, !.attempt = 1,
                           !.sessions[CfAccount(c)] = SessionFor(j, c)]]
    /\ UNCHANGED <<retries, cloudVars, token, lost, crashes>>
-----------------------------------------------------------------------------
(* Cloudflare (external), and the administrator's token.                    *)

\* The answer to a post, or none in time.  Without an answer the copy may have
\* been taken all the same.
CloudflareAnswers(j) ==
    LET c == job[j].copy
        authorised == job[j].sessions[CfAccount(c)].token \in valid
    IN /\ job[j].pc = "post"
       /\ \E k \in Answers \cup {"fatal"}, took \in {0, 1} :
            /\ k # "broken" => (k = "fatal" <=> ~authorised)
            /\ took = 1 => authorised /\ k \in {"accepted", "broken"}
            /\ k = "accepted" => took = 1
            /\ accepted' = [accepted EXCEPT ![c] = @ + took]
            /\ lost' = [lost EXCEPT ![c] = IF k = "broken" THEN @ + took ELSE @]
            /\ job' = [job EXCEPT ![j].pc = "answer", ![j].answer = k]
       /\ UNCHANGED <<queueVars, valid, token, crashes>>

Revoke(d) ==
    /\ <<d, token[d]>> \in valid
    /\ valid' = valid \ {<<d, token[d]>>}
    /\ UNCHANGED <<queueVars, accepted, job, token, lost, crashes>>

\* A new token is saved on the domain, which verifies it.
ReplaceToken(d) ==
    /\ Transport[d] = "cloudflare"
    /\ token[d] < MaxTokens
    /\ token' = [token EXCEPT ![d] = @ + 1]
    /\ valid' = valid \cup {<<d, token[d] + 1>>}
    /\ UNCHANGED <<queueVars, accepted, job, lost, crashes>>
-----------------------------------------------------------------------------
(* The retry matrix of `_post`, and `_check_recipients`.                    *)

Answered(j) == job[j].pc = "answer"

\* As if any 200 were a success.
Any200(kind) == kind \in {"accepted", "nobody", "unsuccessful", "bounced"}

\* As if a recipient Cloudflare has only queued counted as not reached.
DeliveredOnly(kind) == kind = "nobody"

\* 200 with success: true, and nobody reported bounced or suppressed.
Succeeds(kind) == kind \in {"accepted", "nobody"}

Retryable(kind) == kind \in {"limited", "broken"}

Return(j) ==
    /\ Answered(j) /\ Succeeds(job[j].answer)
    /\ Sent(job[j].copy)
    /\ job' = [job EXCEPT ![j] = DoneWith(j, job[j].copy)]
    /\ UNCHANGED <<cloudVars, token, lost, crashes>>

\* As if a 401 or 403 were remembered for the whole batch, whatever the account.
RememberForAll(j) ==
    /\ Answered(j) /\ job[j].answer = "fatal"
    /\ Failed(job[j].copy)
    /\ job' = [job EXCEPT ![j] =
                 [DoneWith(j, job[j].copy) EXCEPT
                    !.refusals = @ \cup {CfAccount(job[j].copy)},
                    !.sessions = [a \in CfAccounts |->
                       [token |-> job[j].sessions[CfAccount(job[j].copy)].token, fatal |-> TRUE]]]]
    /\ UNCHANGED <<cloudVars, token, lost, crashes>>

\* 401 or 403: remembered on the session, raised.
RaiseFatal(j) ==
    /\ Answered(j) /\ job[j].answer = "fatal"
    /\ Failed(job[j].copy)
    /\ job' = [job EXCEPT ![j] =
                 [DoneWith(j, job[j].copy) EXCEPT
                    !.refusals = @ \cup {CfAccount(job[j].copy)},
                    !.sessions[CfAccount(job[j].copy)].fatal = TRUE]]
    /\ UNCHANGED <<cloudVars, token, lost, crashes>>

\* As if the loop ended without raising after the last attempt.
RaiseUnlessRetryable(j) ==
    LET k == job[j].answer
    IN /\ Answered(j) /\ k # "fatal" /\ ~Succeeds(k) /\ ~Retryable(k)
       /\ Failed(job[j].copy)
       /\ job' = [job EXCEPT ![j] = DoneWith(j, job[j].copy)]
       /\ UNCHANGED <<cloudVars, token, lost, crashes>>

\* Anything else that another attempt cannot help, or the last attempt.
Raise(j) ==
    LET k == job[j].answer
    IN /\ Answered(j) /\ k # "fatal" /\ ~Succeeds(k)
       /\ Retryable(k) => job[j].attempt = MAX_ATTEMPTS
       /\ Failed(job[j].copy)
       /\ job' = [job EXCEPT ![j] = DoneWith(j, job[j].copy)]
       /\ UNCHANGED <<cloudVars, token, lost, crashes>>

\* As if the attempts were counted from zero.
SleepOnceMore(j) ==
    /\ Answered(j) /\ Retryable(job[j].answer)
    /\ job[j].attempt <= MAX_ATTEMPTS
    /\ job' = [job EXCEPT ![j].pc = "sleep"]
    /\ UNCHANGED <<queueVars, cloudVars, token, lost, crashes>>

\* Another attempt is left: back off.
Sleep(j) ==
    /\ Answered(j) /\ Retryable(job[j].answer)
    /\ job[j].attempt < MAX_ATTEMPTS
    /\ job' = [job EXCEPT ![j].pc = "sleep"]
    /\ UNCHANGED <<queueVars, cloudVars, token, lost, crashes>>

\* As if an attempt were counted only when it is answered for good.
WakeUncounted(j) ==
    /\ job[j].pc = "sleep"
    /\ job' = [job EXCEPT ![j].pc = "post", ![j].answer = None]
    /\ UNCHANGED <<queueVars, cloudVars, token, lost, crashes>>

Wake(j) ==
    /\ job[j].pc = "sleep"
    /\ job' = [job EXCEPT ![j].pc = "post", ![j].attempt = @ + 1, ![j].answer = None]
    /\ UNCHANGED <<queueVars, cloudVars, token, lost, crashes>>

\* The process dies; a post under way may have been taken, an answer is lost.
Crash(j) ==
    LET c == job[j].copy
    IN /\ job[j].pc # "off" /\ crashes < MaxCrashes
       /\ crashes' = crashes + 1
       /\ \E took \in {0, 1} :
            /\ took = 1 => /\ job[j].pc = "post"
                           /\ job[j].sessions[CfAccount(c)].token \in valid
            /\ accepted' = IF took = 1 THEN [accepted EXCEPT ![c] = @ + 1] ELSE accepted
            /\ lost' = IF took = 1 \/ (Answered(j) /\ job[j].answer = "accepted")
                         THEN [lost EXCEPT ![c] = @ + 1] ELSE lost
       /\ job' = [job EXCEPT ![j] = NewJob]
       /\ UNCHANGED <<queueVars, valid, token>>
-----------------------------------------------------------------------------
Send(j) ==
    \/ Return(j) \/ RaiseFatal(j) \/ Raise(j) \/ Sleep(j) \/ Wake(j)
    \/ \E c \in Copies : \/ SendUnconfigured(j, c) \/ SendFallback(j, c)
                         \/ SendFailsFast(j, c) \/ SendMessage(j, c)

Settled(c) == queue[c] \in {"sent", "error"}

\* Every copy is sent or given up, and no job is under way.
Done ==
    /\ \A c \in Copies : Settled(c)
    /\ \A j \in Jobs : job[j].pc = "off"
    /\ UNCHANGED vars

Next ==
    \/ \E j \in Jobs : BeginBatch(j) \/ EndBatch(j) \/ Send(j) \/ CloudflareAnswers(j) \/ Crash(j)
    \/ \E c \in Copies : Requeue(c)
    \/ \E d \in Domains : Revoke(d) \/ ReplaceToken(d)
    \/ Done

\* The scheduler flushes the queue and frees stuck entries, a job goes on, and a
\* post ends: with an answer, or by the request timeout.
Fairness ==
    /\ \A j \in Jobs :
         WF_vars(BeginBatch(j) \/ EndBatch(j) \/ Send(j) \/ CloudflareAnswers(j))
    /\ \A c \in Copies : WF_vars(Requeue(c))

Spec == Init /\ [][Next]_vars

FairSpec == Spec /\ Fairness
-----------------------------------------------------------------------------
(* Properties.                                                              *)

\* A copy the Email Queue calls Sent was taken by Cloudflare (or by the other
\* transport): no answer that reports a failure, and no answer at all, is ever
\* taken for a success.  "Nobody reached -> raise" (cloudflare_api.py:594).
SentIsAccepted ==
    \A c \in Copies : queue[c] = "sent" /\ Sends(c) => accepted[c] > 0

\* A recipient gets one copy more for every acceptance whose answer was lost
\* and no other: retries after an answer that arrived never duplicate.
DuplicatesOnlyByLoss ==
    \A c \in Copies : accepted[c] <= lost[c] + 1

\* However many answers are lost, the attempts of `_post` and the retries of the
\* Email Queue bound the copies one recipient can get: MAX_ATTEMPTS for the first
\* send, for each retry, and for each death of a job.
DuplicatesBounded ==
    \A c \in Copies : accepted[c] <= MAX_ATTEMPTS * (retries[c] + crashes + 1)

\* After a 401 or 403 no later copy of the batch is posted to that Cloudflare
\* account, whichever domain it is sent from.
NoCallAfterRefusal ==
    \A j \in Jobs : job[j].pc \in {"post", "sleep"} => CfAccount(job[j].copy) \notin job[j].refusals

\* Only an account that refused a token in this batch, and in this job, fails
\* its copies without a call.
RefusalConfined ==
    \A j \in Jobs, a \in CfAccounts :
        job[j].sessions[a] # None /\ job[j].sessions[a].fatal => a \in job[j].refusals

\* Each post carries the token of the copy's own domain
\* (docs/development/architecture.md: "its domain's account ID and token").
UsesOwnToken ==
    \A j \in Jobs : job[j].pc = "post" =>
        job[j].sessions[CfAccount(job[j].copy)].token[1] = DomainOf[job[j].copy]

\* Every copy is in the end sent or given up: no fatal error, lost answer or
\* dead job leaves it behind.
EveryCopySettles == \A c \in Copies : <>[]Settled(c)
-----------------------------------------------------------------------------
(* The inductive invariant behind the safety properties.                    *)

Posting(n) == n.pc \in {"post", "answer", "sleep"}

\* What holds of a job n beside a queue q: its copy is being sent; another
\* attempt is left while it sleeps; its sessions remember the refusals of this
\* batch and no others; and it posts only in a session without one.
Fits(n, q) ==
    /\ Posting(n) <=> n.copy # None
    /\ n.copy # None => q[n.copy] = "sending"
    /\ n.pc = "sleep" => n.attempt < MAX_ATTEMPTS
    /\ n.pc = "answer" => n.answer \in Answers \cup {"fatal"}
    /\ \A a \in CfAccounts :
         a \in n.refusals <=> n.sessions[a] # None /\ n.sessions[a].fatal
    /\ Posting(n) => /\ n.sessions[CfAccount(n.copy)] # None
                     /\ CfAccount(n.copy) \notin n.refusals

\* A copy is sent by one job at a time.
Exclusive ==
    \A j, k \in Jobs : j # k /\ job[j].copy # None => job[j].copy # job[k].copy

\* A copy that may be sent has a retry left.
Counted == \A c \in Copies : queue[c] \in {"not sent", "sending"} => retries[c] <= RetryLimit

Accepting(j, c) == Answered(j) /\ job[j].copy = c /\ job[j].answer = "accepted"

\* Beyond those lost, a copy has one acceptance, at hand in a job or before it
\* was called Sent.
Accounted ==
    \A c \in Copies :
        /\ queue[c] # "sent" /\ (\A j \in Jobs : ~Accepting(j, c)) => accepted[c] = lost[c]
        /\ \A j \in Jobs : Accepting(j, c) => accepted[c] = lost[c] + 1

\* What the deaths so far and the failed sends of a copy account for, and the
\* attempt under way.
Spare(c) == MAX_ATTEMPTS * (retries[c] + crashes)

Spent(n) == IF n.pc = "post" THEN n.attempt - 1 ELSE n.attempt

Within(c) ==
    /\ \A j \in Jobs : job[j].copy = c => accepted[c] <= Spare(c) + Spent(job[j])
    /\ (\A j \in Jobs : job[j].copy # c) /\ queue[c] # "sent" => accepted[c] <= Spare(c)
    /\ queue[c] = "sent" => accepted[c] <= Spare(c) + MAX_ATTEMPTS

IInv ==
    /\ TypeOK /\ Exclusive /\ Counted /\ Accounted /\ DuplicatesOnlyByLoss
    /\ \A j \in Jobs : Fits(job[j], queue)
    /\ "nobody" \notin Answers => SentIsAccepted
-----------------------------------------------------------------------------
(* The promise about a copy, and the way a batch comes to its end.          *)

\* The answer shows an acceptance unless there are answers that list nobody.
Promise == INSTANCE MailSending WITH
    Confirmable <- {c \in Copies : Sends(c) /\ "nobody" \notin Answers},
    outcome     <- [c \in Copies |-> IF queue[c] = "sent" THEN "sent"
                                    ELSE IF queue[c] = "error" THEN "given up" ELSE "open"],
    taken       <- accepted,
    unseen      <- lost

\* Whatever fails, is retried, freed or dies: a copy is not posted again while
\* its acceptance is known or once it is settled, never called Sent without one
\* and never given up with one.
KeepsPromise == Promise!Spec

Step(n) == CASE n.pc = "batch" -> 0 [] n.pc = "post" -> 1 [] n.pc = "answer" -> 2 [] OTHER -> 3

\* One step of a batch from m to n: a copy more is done with, or the attempts at
\* one go on.
Further(m, n) ==
    \/ m.tried \subseteq n.tried /\ m.tried # n.tried
    \/ m.tried = n.tried /\ m.attempt < n.attempt
    \/ m.tried = n.tried /\ m.attempt = n.attempt /\ Step(m) < Step(n)

\* A batch never goes round in circles, whatever Cloudflare answers: it comes to
\* its end after at most three steps for each attempt at each copy.
BatchAdvances ==
    [][\A j \in Jobs : job[j].pc # "off" /\ job'[j] # job[j] =>
         job'[j] = NewJob \/ Further(job[j], job'[j])]_vars
=============================================================================
