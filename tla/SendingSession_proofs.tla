----------------------- MODULE SendingSession_proofs ------------------------
(***************************************************************************)
(* Proofs about SendingSession, for every set of jobs, copies, domains and  *)
(* Cloudflare accounts, every answer and every bound.                       *)
(***************************************************************************)
EXTENDS SendingSession, Integers, TLAPS

(* A session is told from no session.                                         *)
LEMMA SomeSession == None \notin Session
<1>1. ASSUME NEW s \in Session PROVE s \in [token : Domains \X Nat, fatal : BOOLEAN]
  <2>1. s.token \in Domains \X (0 .. MaxTokens) /\ s.fatal \in BOOLEAN
        /\ s = [token |-> s.token, fatal |-> s.fatal]
    BY <1>1 DEF Session, Token
  <2>2. s.token \in Domains \X Nat
    BY <2>1, SendingAssumption
  <2> QED BY <2>1, <2>2
<1> QED BY <1>1, SendingAssumption

(* A copy's session exists once looked up: the job's, or a new one.           *)
LEMMA SessionType ==
    ASSUME TypeOK, NEW j \in Jobs, NEW c \in Copies
    PROVE  /\ CfAccount(c) \in CfAccounts
           /\ SessionFor(j, c) \in Session
           /\ SessionFor(j, c) # None
<1>1. CfAccount(c) \in CfAccounts /\ DomainOf[c] \in Domains
  BY SendingAssumption DEF CfAccount
<1>2. job[j].sessions[CfAccount(c)] \in Session \cup {None}
  BY <1>1 DEF TypeOK, Job
<1>3. token[DomainOf[c]] \in 0 .. MaxTokens
  BY <1>1 DEF TypeOK
<1>4. <<DomainOf[c], token[DomainOf[c]]>> \in Token
  BY <1>1, <1>3 DEF Token
<1>5. [token |-> <<DomainOf[c], token[DomainOf[c]]>>, fatal |-> FALSE] \in Session
  BY <1>4 DEF Session
<1>6. SessionFor(j, c) \in Session
  BY <1>2, <1>5 DEF SessionFor
<1> QED BY <1>1, <1>6, SomeSession

(* What a job becomes when it is done with a copy, field by field.            *)
LEMMA DoneWithFields ==
    ASSUME TypeOK, NEW j \in Jobs, NEW c \in Copies
    PROVE  /\ DoneWith(j, c) \in Job
           /\ DoneWith(j, c).pc = "batch" /\ DoneWith(j, c).copy = None
           /\ DoneWith(j, c).sessions = job[j].sessions
           /\ DoneWith(j, c).refusals = job[j].refusals
           /\ DoneWith(j, c).attempt = 0 /\ DoneWith(j, c).tried = job[j].tried \cup {c}
<1> DEFINE ss == [CfAccounts -> Session \cup {None}]
           an == AnswerKinds \cup {"fatal", None}
<1>1. job[j] \in [pc : {"off", "batch", "post", "answer", "sleep"}, copy : Copies \cup {None},
        attempt : 0 .. MAX_ATTEMPTS, answer : an, sessions : ss,
        tried : SUBSET Copies, refusals : SUBSET CfAccounts]
  BY DEF TypeOK, Job
<1>2. None \in an /\ 0 \in 0 .. MAX_ATTEMPTS
  BY DEF MAX_ATTEMPTS
<1> HIDE DEF ss, an
<1>3. DoneWith(j, c) \in [pc : {"off", "batch", "post", "answer", "sleep"}, copy : Copies \cup {None},
        attempt : 0 .. MAX_ATTEMPTS, answer : an, sessions : ss,
        tried : SUBSET Copies, refusals : SUBSET CfAccounts]
  BY <1>1, <1>2 DEF DoneWith
<1>4. /\ DoneWith(j, c).pc = "batch" /\ DoneWith(j, c).copy = None
      /\ DoneWith(j, c).sessions = job[j].sessions
      /\ DoneWith(j, c).refusals = job[j].refusals
      /\ DoneWith(j, c).attempt = 0 /\ DoneWith(j, c).tried = job[j].tried \cup {c}
  BY <1>1 DEF DoneWith
<1> QED BY <1>3, <1>4 DEF ss, an, Job

(* Nothing is sent, remembered or accepted at first.                          *)
LEMMA InitIInv == Init => IInv
<1> SUFFICES ASSUME Init PROVE IInv
  OBVIOUS
<1>1. /\ NewJob.pc = "off" /\ NewJob.copy = None /\ NewJob.refusals = {}
      /\ \A a \in CfAccounts : NewJob.sessions[a] = None
  BY DEF NewJob
<1>2. NewJob \in Job
  <2>1. [a \in CfAccounts |-> None] \in [CfAccounts -> Session \cup {None}]
    OBVIOUS
  <2> DEFINE ss == [a \in CfAccounts |-> None]
  <2> HIDE DEF ss
  <2> QED BY <2>1 DEF NewJob, Job, MAX_ATTEMPTS, ss
<1>3. \A j \in Jobs : job[j] = NewJob
  BY DEF Init
<1>4. job \in [Jobs -> Job]
  BY <1>2 DEF Init
<1>5. 0 \in 0 .. MaxTokens /\ 0 \in 0 .. RetryLimit + 1 /\ 0 \in 0 .. MaxCrashes /\ 0 \in Nat
  BY SendingAssumption
<1>6. valid \subseteq Token
  BY <1>5, Zenon DEF Init, Token
<1>7. /\ queue = [c \in Copies |-> "not sent"] /\ retries = [c \in Copies |-> 0]
      /\ token = [d \in Domains |-> 0] /\ crashes = 0
      /\ accepted = [c \in Copies |-> 0] /\ lost = [c \in Copies |-> 0]
  BY DEF Init
<1>8. TypeOK
  BY <1>1, <1>3, <1>4, <1>5, <1>6, <1>7 DEF TypeOK
<1>9. Counted
  <2>1. \A c \in Copies : retries[c] = 0
    BY <1>7
  <2>2. 0 <= RetryLimit
    BY SendingAssumption
  <2> QED BY <2>1, <2>2, Zenon DEF Counted
<1>10. Exclusive
  BY <1>1, <1>3 DEF Exclusive
<1>11. \A j \in Jobs : Fits(job[j], queue)
  BY <1>1, <1>3 DEF Fits, Posting
<1>12. Accounted
  <2>1. \A c \in Copies : accepted[c] = 0 /\ lost[c] = 0
    BY <1>7
  <2>2. \A j \in Jobs, c \in Copies : ~Accepting(j, c)
    BY <1>1, <1>3 DEF Accepting, Answered
  <2>3. 0 <= 0
    OBVIOUS
  <2> QED BY <2>1, <2>2, <2>3, Zenon DEF Accounted
<1>13. DuplicatesOnlyByLoss /\ SentIsAccepted
  <2>1. \A c \in Copies : accepted[c] = 0 /\ lost[c] = 0 /\ queue[c] = "not sent"
    BY <1>7
  <2>2. 0 <= 0 + 1
    OBVIOUS
  <2> QED BY <2>1, <2>2, Zenon DEF DuplicatesOnlyByLoss, SentIsAccepted
<1> QED BY <1>8, <1>9, <1>10, <1>11, <1>12, <1>13 DEF IInv
-----------------------------------------------------------------------------
(* Facts about numbers that the provers are given where they have to combine  *)
(* them with Boolean-valued operators.                                        *)
LEMMA Counting ==
    /\ \A x, y \in Nat : x <= y => x <= y + 1 /\ x + 1 <= y + 1
    /\ \A x \in Nat : x + 0 = x /\ x + 1 \in Nat /\ x <= x + 1 /\ x <= x /\ x + 1 > 0
OBVIOUS

(* A job that takes a step on a copy of its own leaves the other jobs and     *)
(* what Cloudflare and the Email Queue agree on as they are.                  *)
LEMMA JobStep ==
    ASSUME IInv, NEW j \in Jobs, NEW n \in Job, Fits(n, queue'),
           job' = [job EXCEPT ![j] = n],
           queue' \in [Copies -> {"not sent", "sending", "sent", "error"}],
           retries' \in [Copies -> 0 .. RetryLimit + 1],
           Counted',
           \A c \in Copies : queue'[c] # queue[c] =>
               queue[c] # "sent" /\ \A k \in Jobs \ {j} : job[k].copy # c,
           \A c \in Copies : queue'[c] = "sent" /\ queue[c] # "sent" /\ Sends(c) /\
               "nobody" \notin Answers => accepted[c] > 0,
           n.copy # None => \A k \in Jobs \ {j} : job[k].copy # n.copy,
           \A c \in Copies : Accepting(j, c) => queue'[c] = "sent",
           n.pc = "answer" => n.answer # "accepted",
           UNCHANGED <<cloudVars, token, lost>>, crashes' \in 0 .. MaxCrashes
    PROVE  IInv'
<1>1. /\ job'[j] = n
      /\ \A k \in Jobs \ {j} : job'[k] = job[k]
      /\ job' \in [Jobs -> Job]
  BY DEF IInv, TypeOK
<1>2. \A k \in Jobs : Fits(job[k], queue) /\ job[k].copy \in Copies \cup {None}
  BY DEF IInv, TypeOK, Job
<1>3. \A k \in Jobs : Fits(job'[k], queue')
  <2> SUFFICES ASSUME NEW k \in Jobs, k # j PROVE Fits(job[k], queue')
    BY <1>1
  <2>1. job[k].copy # None => queue'[job[k].copy] = queue[job[k].copy]
    BY <1>2
  <2> QED BY <1>2, <2>1 DEF Fits
<1>4. TypeOK'
  <2>1. \A k \in Jobs : job'[k].pc \in {"post", "answer", "sleep"} => job'[k].copy # None
    BY <1>3 DEF Fits, Posting
  <2> QED BY <1>1, <2>1 DEF IInv, TypeOK, cloudVars
<1>5. Exclusive'
  <2> SUFFICES ASSUME NEW i \in Jobs, NEW k \in Jobs, i # k, job'[i].copy # None
               PROVE  job'[i].copy # job'[k].copy
    BY DEF Exclusive
  <2>1. CASE i # j /\ k # j
    BY <1>1, <2>1 DEF IInv, Exclusive
  <2>2. CASE i = j \/ k = j
    BY <1>1, <2>2
  <2> QED BY <2>1, <2>2
<1>6. Accounted'
  <2> SUFFICES ASSUME NEW c \in Copies
               PROVE  /\ queue'[c] # "sent" /\ (\A k \in Jobs : ~Accepting(k, c)') =>
                           accepted[c] = lost[c]
                      /\ \A k \in Jobs : Accepting(k, c)' => accepted[c] = lost[c] + 1
    BY DEF Accounted, cloudVars
  <2>1. /\ queue[c] # "sent" /\ (\A k \in Jobs : ~Accepting(k, c)) => accepted[c] = lost[c]
        /\ \A k \in Jobs : Accepting(k, c) => accepted[c] = lost[c] + 1
    BY DEF IInv, Accounted
  <2>2. ~Accepting(j, c)' /\ \A k \in Jobs \ {j} : Accepting(k, c)' <=> Accepting(k, c)
    BY <1>1 DEF Accepting, Answered
  <2>3. queue[c] = "sent" => queue'[c] = "sent"
    OBVIOUS
  <2> QED BY <2>1, <2>2, <2>3
<1>7. DuplicatesOnlyByLoss'
  BY DEF IInv, DuplicatesOnlyByLoss, cloudVars
<1>8. "nobody" \notin Answers => SentIsAccepted'
  BY DEF IInv, SentIsAccepted, Sends, cloudVars
<1> QED BY <1>3, <1>4, <1>5, <1>6, <1>7, <1>8 DEF IInv
(* The same for a step that is not a death.                                   *)
LEMMA LocalStep ==
    ASSUME IInv, NEW j \in Jobs, NEW n \in Job, Fits(n, queue'),
           job' = [job EXCEPT ![j] = n],
           queue' \in [Copies -> {"not sent", "sending", "sent", "error"}],
           retries' \in [Copies -> 0 .. RetryLimit + 1],
           Counted',
           \A c \in Copies : queue'[c] # queue[c] =>
               queue[c] # "sent" /\ \A k \in Jobs \ {j} : job[k].copy # c,
           \A c \in Copies : queue'[c] = "sent" /\ queue[c] # "sent" /\ Sends(c) /\
               "nobody" \notin Answers => accepted[c] > 0,
           n.copy # None => \A k \in Jobs \ {j} : job[k].copy # n.copy,
           \A c \in Copies : Accepting(j, c) => queue'[c] = "sent",
           n.pc = "answer" => n.answer # "accepted",
           UNCHANGED <<cloudVars, token, lost, crashes>>
    PROVE  IInv'
<1>1. crashes' \in 0 .. MaxCrashes
  BY DEF IInv, TypeOK
<1>2. UNCHANGED <<cloudVars, token, lost>>
  OBVIOUS
<1> QED BY <1>1, <1>2, JobStep, Zenon
-----------------------------------------------------------------------------
(* A copy that is not given up can fail once more.                            *)
LEMMA OneMoreRetry ==
    \A n \in 0 .. RetryLimit + 1 :
        /\ n <= RetryLimit => n + 1 \in 0 .. RetryLimit + 1
        /\ n < RetryLimit => n + 1 <= RetryLimit
<1>1. RetryLimit \in Nat
  BY SendingAssumption
<1> QED BY <1>1

(* What the hook's outcomes do to the Email Queue.                            *)
LEMMA FailedQueue ==
    ASSUME IInv, NEW c \in Copies, Failed(c), queue[c] \in {"not sent", "sending"}
    PROVE  /\ queue' \in [Copies -> {"not sent", "sending", "sent", "error"}]
           /\ retries' \in [Copies -> 0 .. RetryLimit + 1]
           /\ Counted'
           /\ queue'[c] # "sent" /\ queue'[c] # "sending"
           /\ \A o \in Copies : o # c => queue'[o] = queue[o]
<1>1. /\ queue \in [Copies -> {"not sent", "sending", "sent", "error"}]
      /\ retries \in [Copies -> 0 .. RetryLimit + 1]
      /\ RetryLimit \in Nat /\ Counted
  BY SendingAssumption DEF IInv, TypeOK
<1>2. retries[c] + 1 \in 0 .. RetryLimit + 1
  <2>1. retries[c] \in 0 .. RetryLimit + 1 /\ retries[c] <= RetryLimit
    BY <1>1 DEF Counted
  <2> QED BY <2>1, OneMoreRetry, Zenon
<1>3. /\ retries' = [retries EXCEPT ![c] = retries[c] + 1]
      /\ queue' = [queue EXCEPT ![c] = IF retries[c] < RetryLimit THEN "not sent" ELSE "error"]
  BY DEF Failed
<1>4. /\ retries' \in [Copies -> 0 .. RetryLimit + 1]
      /\ queue' \in [Copies -> {"not sent", "sending", "sent", "error"}]
  BY <1>1, <1>2, <1>3
<1>5. /\ retries'[c] = retries[c] + 1
      /\ queue'[c] = IF retries[c] < RetryLimit THEN "not sent" ELSE "error"
      /\ \A o \in Copies : o # c => queue'[o] = queue[o] /\ retries'[o] = retries[o]
  BY <1>1, <1>3
<1>6. Counted'
  <2> SUFFICES ASSUME NEW o \in Copies, queue'[o] \in {"not sent", "sending"}
               PROVE  retries'[o] <= RetryLimit
    BY DEF Counted
  <2>1. CASE o = c
    <3>1. retries[c] < RetryLimit
      BY <1>5, <2>1
    <3>2. retries[c] + 1 <= RetryLimit
      BY <1>1, <3>1, OneMoreRetry, Zenon
    <3> QED BY <1>5, <2>1, <3>2, Zenon
  <2>2. CASE o # c
    BY <1>1, <1>5, <2>2 DEF Counted
  <2> QED BY <2>1, <2>2
<1> QED BY <1>4, <1>5, <1>6

(* What the hook's return does to the Email Queue.                            *)
LEMMA SentQueue ==
    ASSUME IInv, NEW c \in Copies, Sent(c)
    PROVE  /\ queue' \in [Copies -> {"not sent", "sending", "sent", "error"}]
           /\ retries' \in [Copies -> 0 .. RetryLimit + 1]
           /\ Counted'
           /\ queue'[c] = "sent"
           /\ \A o \in Copies : o # c => queue'[o] = queue[o]
BY DEF IInv, TypeOK, Sent, Counted

(* A job that looks for work has no copy, and no job has a copy it is offered. *)
LEMMA Offering ==
    ASSUME IInv, NEW j \in Jobs, NEW c \in Copies, Offered(j, c)
    PROVE  /\ job[j].copy = None
           /\ \A k \in Jobs : job[k].copy # c
           /\ \A o \in Copies : ~Accepting(j, o)
<1>1. \A k \in Jobs : Fits(job[k], queue)
  BY DEF IInv
<1>2. queue[c] = "not sent" /\ job[j].pc = "batch"
  BY DEF Offered
<1>3. None \notin Copies
  BY SendingAssumption
<1> QED BY <1>1, <1>2, <1>3 DEF Fits, Posting, Accepting, Answered

(* A job done with a copy fits any queue when its sessions do.                *)
LEMMA DoneWithFits ==
    ASSUME IInv, NEW j \in Jobs, NEW c \in Copies, NEW q
    PROVE  Fits(DoneWith(j, c), q)
<1>1. Fits(job[j], queue) /\ TypeOK
  BY DEF IInv
<1>2. /\ DoneWith(j, c).pc = "batch" /\ DoneWith(j, c).copy = None
      /\ DoneWith(j, c).sessions = job[j].sessions
      /\ DoneWith(j, c).refusals = job[j].refusals
  BY <1>1, DoneWithFields
<1> QED BY <1>1, <1>2 DEF Fits, Posting
-----------------------------------------------------------------------------
(* The steps of the hook that end without a call.                             *)
LEMMA WithoutCall ==
    ASSUME IInv, NEW j \in Jobs, NEW c \in Copies,
           SendUnconfigured(j, c) \/ SendFallback(j, c)
    PROVE  IInv'
<1>1. /\ Offered(j, c) /\ ~Sends(c)
      /\ Sent(c) \/ Failed(c)
      /\ job' = [job EXCEPT ![j] = DoneWith(j, c)]
      /\ UNCHANGED <<cloudVars, token, lost, crashes>>
  BY DEF SendUnconfigured, SendFallback, Sends
<1>2. queue[c] = "not sent"
  BY <1>1 DEF Offered
<1>3. PICK n \in Job : n = DoneWith(j, c)
  BY DoneWithFields DEF IInv
<1>4. Fits(n, queue') /\ n.pc = "batch" /\ n.copy = None
  BY <1>3, DoneWithFits, DoneWithFields DEF IInv
<1>5. /\ queue' \in [Copies -> {"not sent", "sending", "sent", "error"}]
      /\ retries' \in [Copies -> 0 .. RetryLimit + 1]
      /\ Counted'
      /\ \A o \in Copies : o # c => queue'[o] = queue[o]
  BY <1>1, <1>2, FailedQueue, SentQueue
<1>6. \A o \in Copies : queue'[o] # queue[o] =>
          queue[o] # "sent" /\ \A k \in Jobs \ {j} : job[k].copy # o
  BY <1>1, <1>2, <1>5, Offering
<1>7. \A o \in Copies : queue'[o] = "sent" /\ queue[o] # "sent" /\ Sends(o) /\
          "nobody" \notin Answers => accepted[o] > 0
  BY <1>1, <1>5
<1>8. \A o \in Copies : ~Accepting(j, o)
  BY <1>1, Offering
<1> QED BY <1>1, <1>3, <1>4, <1>5, <1>6, <1>7, <1>8, LocalStep


\* A job n with session s for account a.
With(n, a, s) == [n EXCEPT !.sessions[a] = s]

(* What a job is with another session, field by field.                        *)
LEMMA WithSession ==
    ASSUME NEW n \in Job, NEW a \in CfAccounts, NEW s \in Session
    PROVE  /\ With(n, a, s) \in Job
           /\ With(n, a, s).pc = n.pc /\ With(n, a, s).copy = n.copy
           /\ With(n, a, s).answer = n.answer /\ With(n, a, s).refusals = n.refusals
           /\ With(n, a, s).attempt = n.attempt /\ With(n, a, s).tried = n.tried
           /\ With(n, a, s).sessions[a] = s
           /\ \A b \in CfAccounts \ {a} : With(n, a, s).sessions[b] = n.sessions[b]
<1> DEFINE Ss == [CfAccounts -> Session \cup {None}]
           ss == [n.sessions EXCEPT ![a] = s]
<1>1. n.sessions \in Ss
  BY DEF Job
<1>2. /\ ss \in Ss /\ ss[a] = s
      /\ \A b \in CfAccounts \ {a} : ss[b] = n.sessions[b]
  BY <1>1
<1>3. With(n, a, s) = [n EXCEPT !.sessions = ss]
  BY DEF With
<1> HIDE DEF ss, Ss
<1>4. /\ With(n, a, s).pc = n.pc /\ With(n, a, s).copy = n.copy
      /\ With(n, a, s).answer = n.answer /\ With(n, a, s).refusals = n.refusals
      /\ With(n, a, s).attempt = n.attempt /\ With(n, a, s).tried = n.tried
      /\ With(n, a, s).sessions = ss
  BY <1>3 DEF Job
<1>5. With(n, a, s) \in Job
  BY <1>2, <1>3 DEF Job, Ss
<1> QED BY <1>2, <1>4, <1>5

(* A copy's session, found or made, remembers what the account refused.       *)
LEMMA SessionRemembers ==
    ASSUME IInv, NEW j \in Jobs, NEW c \in Copies
    PROVE  SessionFor(j, c).fatal <=> CfAccount(c) \in job[j].refusals
<1>1. Fits(job[j], queue) /\ CfAccount(c) \in CfAccounts
  BY SessionType DEF IInv
<1> QED BY <1>1 DEF Fits, SessionFor

(* A copy that fails for a remembered refusal, or can't be built.             *)
LEMMA FailsFastKeeps ==
    ASSUME IInv, NEW j \in Jobs, NEW c \in Copies, SendFailsFast(j, c)
    PROVE  IInv'
<1>0. PICK s \in Session : s = SessionFor(j, c)
  BY SessionType DEF IInv
<1>a. PICK a \in CfAccounts : a = CfAccount(c)
  BY SessionType DEF IInv
<1>1. /\ Offered(j, c) /\ Failed(c)
      /\ job' = [job EXCEPT ![j] = [DoneWith(j, c) EXCEPT !.sessions[a] = s]]
      /\ UNCHANGED <<cloudVars, token, lost, crashes>>
  BY <1>0, <1>a DEF SendFailsFast
<1>2. /\ queue[c] = "not sent" /\ TypeOK
      /\ a \in CfAccounts /\ s \in Session /\ s # None
      /\ s.fatal <=> a \in job[j].refusals
  BY <1>0, <1>a, <1>1, SessionType, SessionRemembers DEF Offered, IInv
<1>3. PICK d \in Job : d = DoneWith(j, c)
  BY <1>2, DoneWithFields
<1>4. /\ Fits(d, queue') /\ d.pc = "batch" /\ d.copy = None
      /\ d.refusals = job[j].refusals
  BY <1>2, <1>3, DoneWithFields, DoneWithFits
<1>5. PICK n \in Job :
        /\ n = With(d, a, s)
        /\ n.pc = d.pc /\ n.copy = d.copy /\ n.refusals = d.refusals
        /\ n.sessions[a] = s
        /\ \A b \in CfAccounts \ {a} : n.sessions[b] = d.sessions[b]
  <2>1. d \in Job /\ a \in CfAccounts /\ s \in Session
    BY <1>2, <1>3
  <2> QED BY <2>1, WithSession
<1>6. /\ n \in Job /\ n.pc = "batch" /\ n.copy = None /\ n.refusals = d.refusals
      /\ n.sessions[a] = s
      /\ \A b \in CfAccounts \ {a} : n.sessions[b] = d.sessions[b]
  BY <1>4, <1>5
<1>7. Fits(n, queue')
  BY <1>2, <1>4, <1>6 DEF Fits, Posting
<1>8. /\ queue' \in [Copies -> {"not sent", "sending", "sent", "error"}]
      /\ retries' \in [Copies -> 0 .. RetryLimit + 1]
      /\ Counted'
      /\ \A o \in Copies : o # c => queue'[o] = queue[o]
      /\ queue'[c] # "sent"
  BY <1>1, <1>2, FailedQueue
<1>9. /\ job' = [job EXCEPT ![j] = n]
      /\ \A o \in Copies : ~Accepting(j, o)
      /\ \A k \in Jobs : job[k].copy # c
  BY <1>1, <1>3, <1>5, Offering DEF With
<1>10. \A o \in Copies : queue'[o] # queue[o] =>
           queue[o] # "sent" /\ \A k \in Jobs \ {j} : job[k].copy # o
  BY <1>2, <1>8, <1>9
<1>11. \A o \in Copies : ~(queue'[o] = "sent" /\ queue[o] # "sent")
  BY <1>8
<1>12. n \in Job /\ n.copy = None /\ n.pc # "answer"
  BY <1>6
<1>13. /\ queue' \in [Copies -> {"not sent", "sending", "sent", "error"}]
       /\ retries' \in [Copies -> 0 .. RetryLimit + 1]
       /\ Counted' /\ UNCHANGED <<cloudVars, token, lost, crashes>>
  BY <1>1, <1>8
<1> QED BY <1>7, <1>9, <1>10, <1>11, <1>12, <1>13, LocalStep

(* The attempts of `_post` stay within MAX_ATTEMPTS.                          *)
LEMMA OneMoreAttempt ==
    \A n \in 0 .. MAX_ATTEMPTS : n < MAX_ATTEMPTS => n + 1 \in 0 .. MAX_ATTEMPTS
BY DEF MAX_ATTEMPTS

(* The first attempt is one of them.                                          *)
LEMMA OneAttempt == 1 \in 0 .. MAX_ATTEMPTS
BY DEF MAX_ATTEMPTS

(* A copy that is posted has a session without a refusal.                     *)
LEMMA SendMessageKeeps ==
    ASSUME IInv, NEW j \in Jobs, NEW c \in Copies, SendMessage(j, c)
    PROVE  IInv'
<1>0. PICK s \in Session : s = SessionFor(j, c)
  BY SessionType DEF IInv
<1>a. PICK a \in CfAccounts : a = CfAccount(c)
  BY SessionType DEF IInv
<1>1. /\ Offered(j, c) /\ ~s.fatal
      /\ queue' = [queue EXCEPT ![c] = "sending"] /\ UNCHANGED retries
      /\ job' = [job EXCEPT ![j] = [job[j] EXCEPT !.pc = "post", !.copy = c, !.attempt = 1,
                                                  !.sessions[a] = s]]
      /\ UNCHANGED <<cloudVars, token, lost, crashes>>
  BY <1>0, <1>a DEF SendMessage
<1>2. /\ queue[c] = "not sent" /\ TypeOK /\ Counted /\ Fits(job[j], queue)
      /\ a \in CfAccounts /\ s \in Session /\ s # None
      /\ a \notin job[j].refusals
  BY <1>0, <1>a, <1>1, SessionType, SessionRemembers DEF Offered, IInv
<1>3. None \notin Copies
  BY SendingAssumption
<1>4. PICK d : d = [job[j] EXCEPT !.pc = "post", !.copy = c, !.attempt = 1]
  OBVIOUS
<1>5. /\ d \in Job /\ d.pc = "post" /\ d.copy = c
      /\ d.refusals = job[j].refusals /\ d.sessions = job[j].sessions
  <2>0. job[j] \in Job
    BY <1>2 DEF TypeOK
  <2>1. job[j] \in Job /\ 1 \in 0 .. MAX_ATTEMPTS
    BY <2>0, OneAttempt
  <2> DEFINE ss == [CfAccounts -> Session \cup {None}]
             an == AnswerKinds \cup {"fatal", None}
             at == 0 .. MAX_ATTEMPTS
  <2>2. job[j] \in [pc : {"off", "batch", "post", "answer", "sleep"}, copy : Copies \cup {None},
          attempt : at, answer : an, sessions : ss,
          tried : SUBSET Copies, refusals : SUBSET CfAccounts]
    BY <2>1 DEF Job
  <2> HIDE DEF ss, an, at
  <2>3. d \in [pc : {"off", "batch", "post", "answer", "sleep"}, copy : Copies \cup {None},
          attempt : at, answer : an, sessions : ss,
          tried : SUBSET Copies, refusals : SUBSET CfAccounts]
    BY <1>4, <2>1, <2>2 DEF at
  <2>4. /\ d.pc = "post" /\ d.copy = c
        /\ d.refusals = job[j].refusals /\ d.sessions = job[j].sessions
    BY <1>4, <2>2
  <2> QED BY <2>3, <2>4 DEF ss, an, at, Job
<1>6. PICK n \in Job :
        /\ n = With(d, a, s)
        /\ n.pc = d.pc /\ n.copy = d.copy /\ n.refusals = d.refusals
        /\ n.sessions[a] = s
        /\ \A b \in CfAccounts \ {a} : n.sessions[b] = d.sessions[b]
  <2>1. d \in Job /\ a \in CfAccounts /\ s \in Session
    BY <1>2, <1>5
  <2> QED BY <2>1, WithSession
<1>7. n = [job[j] EXCEPT !.pc = "post", !.copy = c, !.attempt = 1, !.sessions[a] = s]
  BY <1>4, <1>6 DEF With
<1>8. /\ n \in Job /\ n.pc = "post" /\ n.copy = c /\ n.refusals = job[j].refusals
      /\ n.sessions[a] = s
      /\ \A b \in CfAccounts \ {a} : n.sessions[b] = job[j].sessions[b]
  BY <1>5, <1>6
<1>9. /\ queue' \in [Copies -> {"not sent", "sending", "sent", "error"}]
      /\ queue'[c] = "sending"
      /\ \A o \in Copies : o # c => queue'[o] = queue[o]
  BY <1>1, <1>2 DEF TypeOK
<1>10. Fits(n, queue')
  <2>1. CfAccount(n.copy) = a
    BY <1>8, <1>a
  <2>2. ASSUME NEW b \in CfAccounts
        PROVE  b \in n.refusals <=> n.sessions[b] # None /\ n.sessions[b].fatal
    <3>1. CASE b = a
      BY <1>1, <1>2, <1>8, <3>1
    <3>2. CASE b # a
      BY <1>2, <1>8, <3>2 DEF Fits
    <3> QED BY <3>1, <3>2
  <2> QED BY <1>2, <1>3, <1>8, <1>9, <2>1, <2>2 DEF Fits, Posting
<1>11. retries' \in [Copies -> 0 .. RetryLimit + 1]
  BY <1>1, <1>2 DEF TypeOK
<1>12. Counted'
  BY <1>1, <1>2, <1>9, Zenon DEF Counted
<1>13. /\ job' = [job EXCEPT ![j] = n]
       /\ \A o \in Copies : ~Accepting(j, o)
       /\ \A k \in Jobs : job[k].copy # c
  BY <1>1, <1>7, Offering
<1>14. \A o \in Copies : queue'[o] # queue[o] =>
           queue[o] # "sent" /\ \A k \in Jobs \ {j} : job[k].copy # o
  BY <1>2, <1>9, <1>13
<1>15. \A o \in Copies : queue'[o] = "sent" => queue[o] = "sent"
  BY <1>9
<1>16. n.pc # "answer" /\ \A k \in Jobs \ {j} : job[k].copy # n.copy
  BY <1>8, <1>13
<1> QED BY <1>1, <1>2, <1>8, <1>9, <1>10, <1>11, <1>12, <1>13, <1>14, <1>15, <1>16,
       LocalStep
-----------------------------------------------------------------------------
(* The steps of `_post`.                                                      *)

\* A job n asleep, awake again, and with an answer of kind k.
Asleep(n) == [n EXCEPT !.pc = "sleep"]
Awake(n) == [n EXCEPT !.pc = "post", !.attempt = n.attempt + 1, !.answer = None]
GivenAnswer(n, k) == [n EXCEPT !.pc = "answer", !.answer = k]

(* What `_post` changes of a job, field by field.                             *)
LEMMA PostFields ==
    ASSUME NEW n \in Job
    PROVE  /\ Asleep(n) \in Job /\ Asleep(n).pc = "sleep" /\ Asleep(n).copy = n.copy
           /\ Asleep(n).attempt = n.attempt /\ Asleep(n).tried = n.tried
           /\ Asleep(n).sessions = n.sessions /\ Asleep(n).refusals = n.refusals
           /\ n.attempt + 1 \in 0 .. MAX_ATTEMPTS => Awake(n) \in Job
           /\ Awake(n).pc = "post" /\ Awake(n).copy = n.copy
           /\ Awake(n).attempt = n.attempt + 1 /\ Awake(n).tried = n.tried
           /\ Awake(n).sessions = n.sessions /\ Awake(n).refusals = n.refusals
           /\ \A k \in AnswerKinds \cup {"fatal"} :
                /\ GivenAnswer(n, k) \in Job /\ GivenAnswer(n, k).pc = "answer"
                /\ GivenAnswer(n, k).answer = k /\ GivenAnswer(n, k).copy = n.copy
                /\ GivenAnswer(n, k).sessions = n.sessions
                /\ GivenAnswer(n, k).refusals = n.refusals
                /\ GivenAnswer(n, k).attempt = n.attempt /\ GivenAnswer(n, k).tried = n.tried
<1> DEFINE ss == [CfAccounts -> Session \cup {None}]
           an == AnswerKinds \cup {"fatal", None}
           at == 0 .. MAX_ATTEMPTS
           jj == [pc : {"off", "batch", "post", "answer", "sleep"}, copy : Copies \cup {None},
                  attempt : at, answer : an, sessions : ss,
                  tried : SUBSET Copies, refusals : SUBSET CfAccounts]
<1>1. Job = jj
  BY DEF Job
<1>2. None \in an /\ \A k \in AnswerKinds \cup {"fatal"} : k \in an
  OBVIOUS
<1> HIDE DEF ss, an, at
<1>3. Asleep(n) \in jj /\ (n.attempt + 1 \in at => Awake(n) \in jj)
  BY <1>1, <1>2 DEF Asleep, Awake
<1>4. \A k \in AnswerKinds \cup {"fatal"} : GivenAnswer(n, k) \in jj
  BY <1>1, <1>2 DEF GivenAnswer
<1>5. /\ Asleep(n).pc = "sleep" /\ Asleep(n).copy = n.copy
      /\ Asleep(n).attempt = n.attempt /\ Asleep(n).tried = n.tried
      /\ Asleep(n).sessions = n.sessions /\ Asleep(n).refusals = n.refusals
  BY <1>1 DEF Asleep
<1>6. /\ Awake(n).pc = "post" /\ Awake(n).copy = n.copy
      /\ Awake(n).attempt = n.attempt + 1 /\ Awake(n).tried = n.tried
      /\ Awake(n).sessions = n.sessions /\ Awake(n).refusals = n.refusals
  BY <1>1 DEF Awake
<1>7. \A k \in AnswerKinds \cup {"fatal"} :
        /\ GivenAnswer(n, k).pc = "answer"
        /\ GivenAnswer(n, k).answer = k /\ GivenAnswer(n, k).copy = n.copy
        /\ GivenAnswer(n, k).sessions = n.sessions /\ GivenAnswer(n, k).refusals = n.refusals
        /\ GivenAnswer(n, k).attempt = n.attempt /\ GivenAnswer(n, k).tried = n.tried
  BY <1>1 DEF GivenAnswer
<1> HIDE DEF jj
<1> QED BY <1>1, <1>3, <1>4, <1>5, <1>6, <1>7 DEF at

(* A job that posts has a copy, which is being sent, and no other job has it. *)
LEMMA Handling ==
    ASSUME IInv, NEW j \in Jobs, Posting(job[j])
    PROVE  /\ job[j] \in Job /\ Fits(job[j], queue)
           /\ job[j].copy \in Copies /\ job[j].copy # None
           /\ queue[job[j].copy] = "sending"
           /\ \A k \in Jobs \ {j} : job[k].copy # job[j].copy
           /\ \A c \in Copies : Accepting(j, c) => c = job[j].copy
<1>1. job[j] \in Job /\ Fits(job[j], queue) /\ Exclusive
  BY DEF IInv, TypeOK
<1>2. job[j].copy \in Copies \cup {None}
  BY <1>1 DEF Job
<1>3. job[j].copy # None /\ queue[job[j].copy] = "sending"
  BY <1>1 DEF Fits
<1> QED BY <1>1, <1>2, <1>3 DEF Exclusive, Accepting

(* The loop of `_post` keeps the copy and the session.                        *)
LEMMA LoopKeeps ==
    ASSUME IInv, NEW j \in Jobs, Sleep(j) \/ Wake(j)
    PROVE  IInv'
<1>1. Posting(job[j]) /\ UNCHANGED <<queue, retries, cloudVars, token, lost, crashes>>
  BY DEF Sleep, Wake, Answered, Posting, queueVars
<1>2. /\ job[j] \in Job /\ Fits(job[j], queue) /\ job[j].copy # None
      /\ \A k \in Jobs \ {j} : job[k].copy # job[j].copy
  BY <1>1, Handling
<1>3. \A c \in Copies : ~Accepting(j, c)
  BY DEF Sleep, Wake, Answered, Retryable, Accepting
<1>4. \E n \in Job : /\ job' = [job EXCEPT ![j] = n]
                     /\ n.pc \in {"post", "sleep"} /\ n.copy = job[j].copy
                     /\ n.sessions = job[j].sessions /\ n.refusals = job[j].refusals
                     /\ n.pc = "sleep" => n.attempt < MAX_ATTEMPTS
  <2>1. CASE Sleep(j)
    <3>1. job' = [job EXCEPT ![j] = Asleep(job[j])] /\ job[j].attempt < MAX_ATTEMPTS
      BY <2>1 DEF Sleep, Asleep
    <3>2. /\ Asleep(job[j]) \in Job /\ Asleep(job[j]).pc = "sleep"
          /\ Asleep(job[j]).attempt = job[j].attempt
          /\ Asleep(job[j]).copy = job[j].copy
          /\ Asleep(job[j]).sessions = job[j].sessions
          /\ Asleep(job[j]).refusals = job[j].refusals
      BY <1>2, PostFields
    <3> QED BY <3>1, <3>2
  <2>2. CASE Wake(j)
    <3>1. job' = [job EXCEPT ![j] = Awake(job[j])] /\ job[j].pc = "sleep"
      BY <2>2 DEF Wake, Awake
    <3>2. job[j].attempt \in 0 .. MAX_ATTEMPTS /\ job[j].attempt < MAX_ATTEMPTS
      BY <1>2, <3>1 DEF Job, Fits
    <3>3. job[j].attempt + 1 \in 0 .. MAX_ATTEMPTS
      BY <3>2, OneMoreAttempt
    <3>4. /\ Awake(job[j]) \in Job /\ Awake(job[j]).pc = "post"
          /\ Awake(job[j]).copy = job[j].copy
          /\ Awake(job[j]).sessions = job[j].sessions
          /\ Awake(job[j]).refusals = job[j].refusals
      BY <1>2, <3>3, PostFields
    <3> QED BY <3>1, <3>4
  <2> QED BY <2>1, <2>2
<1>5. PICK n \in Job : /\ job' = [job EXCEPT ![j] = n]
                       /\ n.pc \in {"post", "sleep"} /\ n.copy = job[j].copy
                       /\ n.sessions = job[j].sessions /\ n.refusals = job[j].refusals
                       /\ n.pc = "sleep" => n.attempt < MAX_ATTEMPTS
  BY <1>4
<1>6. Fits(n, queue')
  BY <1>1, <1>2, <1>5 DEF Fits, Posting
<1>7. /\ queue' \in [Copies -> {"not sent", "sending", "sent", "error"}]
      /\ retries' \in [Copies -> 0 .. RetryLimit + 1]
      /\ Counted'
  BY <1>1 DEF IInv, TypeOK, Counted
<1>8. n.pc # "answer" /\ \A k \in Jobs \ {j} : job[k].copy # n.copy
  BY <1>2, <1>5
<1> QED BY <1>1, <1>3, <1>5, <1>6, <1>7, <1>8, LocalStep

(* A copy becomes Sent for an acceptance at hand.                             *)
LEMMA ReturnKeeps ==
    ASSUME IInv, NEW j \in Jobs, Return(j)
    PROVE  IInv'
<1>1. PICK c \in Copies : c = job[j].copy
  BY Handling DEF Return, Answered, Posting
<1>2. /\ Answered(j) /\ Succeeds(job[j].answer) /\ Sent(c)
      /\ job' = [job EXCEPT ![j] = DoneWith(j, c)]
      /\ UNCHANGED <<cloudVars, token, lost, crashes>>
  BY <1>1 DEF Return
<1>3. /\ Fits(job[j], queue) /\ queue[c] = "sending"
      /\ \A k \in Jobs \ {j} : job[k].copy # c
      /\ \A o \in Copies : Accepting(j, o) => o = c
  BY <1>1, <1>2, Handling DEF Answered, Posting
<1>4. "nobody" \notin Answers => accepted[c] > 0
  <2>1. job[j].answer \in Answers \cup {"fatal"} /\ job[j].answer \in {"accepted", "nobody"}
    BY <1>2, <1>3 DEF Fits, Answered, Succeeds
  <2>2. "nobody" \notin Answers => Accepting(j, c)
    BY <1>1, <1>2, <2>1 DEF Accepting
  <2>3. lost[c] \in Nat
    BY DEF IInv, TypeOK
  <2>4. Accepting(j, c) => accepted[c] = lost[c] + 1
    BY DEF IInv, Accounted
  <2> QED BY <2>2, <2>3, <2>4, Counting, Zenon
<1>5. /\ queue' \in [Copies -> {"not sent", "sending", "sent", "error"}]
      /\ retries' \in [Copies -> 0 .. RetryLimit + 1]
      /\ Counted'
      /\ queue'[c] = "sent"
      /\ \A o \in Copies : o # c => queue'[o] = queue[o]
  BY <1>2, SentQueue
<1>6. PICK n \in Job : n = DoneWith(j, c)
  BY DoneWithFields DEF IInv
<1>7. Fits(n, queue') /\ n.pc = "batch" /\ n.copy = None
  BY <1>6, DoneWithFits, DoneWithFields DEF IInv
<1>8. \A o \in Copies : queue'[o] # queue[o] =>
          queue[o] # "sent" /\ \A k \in Jobs \ {j} : job[k].copy # o
  BY <1>3, <1>5
<1>9. \A o \in Copies : queue'[o] = "sent" /\ queue[o] # "sent" /\ Sends(o) /\
          "nobody" \notin Answers => accepted[o] > 0
  BY <1>4, <1>5
<1>10. job' = [job EXCEPT ![j] = n] /\ \A o \in Copies : Accepting(j, o) => queue'[o] = "sent"
  BY <1>2, <1>3, <1>5, <1>6
<1> QED BY <1>2, <1>5, <1>6, <1>7, <1>8, <1>9, <1>10, LocalStep

\* A job n that has seen account a refuse its token.
RefusedBy(n, a) == [n EXCEPT !.refusals = n.refusals \cup {a}, !.sessions[a].fatal = TRUE]

(* What a refusal changes of a job, field by field.                           *)
LEMMA RefusedFields ==
    ASSUME NEW n \in Job, NEW a \in CfAccounts, n.sessions[a] # None
    PROVE  /\ RefusedBy(n, a) \in Job
           /\ RefusedBy(n, a).pc = n.pc /\ RefusedBy(n, a).copy = n.copy
           /\ RefusedBy(n, a).refusals = n.refusals \cup {a}
           /\ RefusedBy(n, a).attempt = n.attempt /\ RefusedBy(n, a).tried = n.tried
           /\ RefusedBy(n, a).sessions[a] # None /\ RefusedBy(n, a).sessions[a].fatal
           /\ RefusedBy(n, a).sessions[a].token = n.sessions[a].token
           /\ \A b \in CfAccounts \ {a} : RefusedBy(n, a).sessions[b] = n.sessions[b]
<1> DEFINE s == [n.sessions[a] EXCEPT !.fatal = TRUE]
           rr == n.refusals \cup {a}
<1>1. s \in Session /\ s # None /\ s.fatal /\ s.token = n.sessions[a].token
  <2>1. n.sessions[a] \in Session
    BY DEF Job
  <2>2. s \in Session /\ s.fatal /\ s.token = n.sessions[a].token
    BY <2>1 DEF Session
  <2> QED BY <2>2, SomeSession
<1>2. rr \in SUBSET CfAccounts
  BY DEF Job
<1>3. RefusedBy(n, a) = [With(n, a, s) EXCEPT !.refusals = rr]
  BY DEF RefusedBy, With, Job
<1> HIDE DEF s, rr
<1>4. PICK m : m = With(n, a, s)
  OBVIOUS
<1>5. /\ m \in Job /\ m.pc = n.pc /\ m.copy = n.copy
      /\ m.attempt = n.attempt /\ m.tried = n.tried
      /\ m.sessions[a] = s
      /\ \A b \in CfAccounts \ {a} : m.sessions[b] = n.sessions[b]
  BY <1>1, <1>4, WithSession
<1>6. PICK r : r = [m EXCEPT !.refusals = rr]
  OBVIOUS
<1>7. /\ r.pc = m.pc /\ r.copy = m.copy /\ r.attempt = m.attempt /\ r.tried = m.tried
      /\ r.sessions = m.sessions /\ r.refusals = rr
      /\ r \in Job
  BY <1>2, <1>5, <1>6 DEF Job
<1>8. RefusedBy(n, a) = r
  BY <1>3, <1>4, <1>6
<1> QED BY <1>1, <1>5, <1>7, <1>8 DEF rr

(* A failed copy leaves no acceptance behind; a refusal is remembered.        *)
LEMMA RaiseKeeps ==
    ASSUME IInv, NEW j \in Jobs, RaiseFatal(j) \/ Raise(j)
    PROVE  IInv'
<1>1. PICK c \in Copies : c = job[j].copy
  BY Handling DEF RaiseFatal, Raise, Answered, Posting
<1>2. /\ Answered(j) /\ job[j].answer # "accepted" /\ Failed(c)
      /\ UNCHANGED <<cloudVars, token, lost, crashes>>
  BY <1>1 DEF RaiseFatal, Raise, Succeeds
<1>3. /\ TypeOK /\ Fits(job[j], queue) /\ queue[c] = "sending"
      /\ \A k \in Jobs \ {j} : job[k].copy # c
  BY <1>1, <1>2, Handling DEF Answered, Posting, IInv
<1>4. PICK d \in Job : d = DoneWith(j, c)
  BY <1>3, DoneWithFields
<1>5. /\ Fits(d, queue') /\ d.pc = "batch" /\ d.copy = None
      /\ d.sessions = job[j].sessions /\ d.refusals = job[j].refusals
  BY <1>3, <1>4, DoneWithFits, DoneWithFields
<1>6. \E n \in Job : /\ job' = [job EXCEPT ![j] = n]
                     /\ Fits(n, queue') /\ n.pc = "batch" /\ n.copy = None
  <2>1. CASE Raise(j)
    BY <1>1, <1>4, <1>5, <2>1 DEF Raise
  <2>2. CASE RaiseFatal(j)
    <3>1. PICK a \in CfAccounts : a = CfAccount(c)
      BY <1>3, SessionType
    <3>2. d \in Job /\ d.sessions[a] # None
      BY <1>1, <1>2, <1>3, <1>4, <1>5, <3>1 DEF Fits, Answered, Posting
    <3>3. job' = [job EXCEPT ![j] = RefusedBy(d, a)]
      BY <1>1, <1>4, <2>2, <3>1 DEF RaiseFatal, RefusedBy
    <3>4. PICK n : n = RefusedBy(d, a)
      OBVIOUS
    <3>5. /\ n \in Job /\ n.pc = d.pc /\ n.copy = d.copy
          /\ n.refusals = d.refusals \cup {a}
          /\ n.sessions[a] # None /\ n.sessions[a].fatal
          /\ \A b \in CfAccounts \ {a} : n.sessions[b] = d.sessions[b]
      BY <3>2, <3>4, RefusedFields
    <3>6. Fits(n, queue')
      BY <1>5, <3>5 DEF Fits, Posting
    <3> QED BY <1>5, <3>3, <3>4, <3>5, <3>6
  <2> QED BY <2>1, <2>2
<1>7. PICK n \in Job : /\ job' = [job EXCEPT ![j] = n]
                       /\ Fits(n, queue') /\ n.pc = "batch" /\ n.copy = None
  BY <1>6
<1>8. /\ queue' \in [Copies -> {"not sent", "sending", "sent", "error"}]
      /\ retries' \in [Copies -> 0 .. RetryLimit + 1]
      /\ Counted'
      /\ \A o \in Copies : o # c => queue'[o] = queue[o]
      /\ queue'[c] # "sent"
  BY <1>2, <1>3, FailedQueue
<1>9. \A o \in Copies : ~Accepting(j, o)
  BY <1>2 DEF Accepting
<1>10. \A o \in Copies : queue'[o] # queue[o] =>
           queue[o] # "sent" /\ \A k \in Jobs \ {j} : job[k].copy # o
  BY <1>3, <1>8
<1>11. \A o \in Copies : ~(queue'[o] = "sent" /\ queue[o] # "sent")
  BY <1>8
<1> QED BY <1>2, <1>7, <1>8, <1>9, <1>10, <1>11, LocalStep
-----------------------------------------------------------------------------
(* The batch, and an entry offered again.                                     *)
LEMMA NewJobFields ==
    /\ NewJob \in Job /\ [NewJob EXCEPT !.pc = "batch"] \in Job
    /\ \A q : Fits(NewJob, q) /\ Fits([NewJob EXCEPT !.pc = "batch"], q)
    /\ NewJob.pc = "off" /\ NewJob.copy = None
    /\ [NewJob EXCEPT !.pc = "batch"].pc = "batch" /\ [NewJob EXCEPT !.pc = "batch"].copy = None
    /\ [NewJob EXCEPT !.pc = "batch"].attempt = 0
    /\ \A a \in CfAccounts : NewJob.sessions[a] = None /\ [NewJob EXCEPT !.pc = "batch"].sessions[a] = None
<1> DEFINE ss == [a \in CfAccounts |-> None]
           Ss == [CfAccounts -> Session \cup {None}]
<1>1. ss \in Ss /\ \A a \in CfAccounts : ss[a] = None
  OBVIOUS
<1>2. /\ NewJob = [pc |-> "off", copy |-> None, attempt |-> 0, answer |-> None,
                   sessions |-> ss, tried |-> {}, refusals |-> {}]
      /\ [NewJob EXCEPT !.pc = "batch"] =
                  [pc |-> "batch", copy |-> None, attempt |-> 0, answer |-> None,
                   sessions |-> ss, tried |-> {}, refusals |-> {}]
  BY DEF NewJob
<1>3. 0 \in 0 .. MAX_ATTEMPTS
  BY DEF MAX_ATTEMPTS
<1> HIDE DEF ss, Ss
<1>4. NewJob \in Job /\ [NewJob EXCEPT !.pc = "batch"] \in Job
  BY <1>1, <1>2, <1>3 DEF Job, Ss
<1>5. \A q : Fits(NewJob, q) /\ Fits([NewJob EXCEPT !.pc = "batch"], q)
  BY <1>1, <1>2 DEF Fits, Posting
<1> QED BY <1>1, <1>2, <1>4, <1>5

(* A batch begins and ends without a copy and without sessions.               *)
LEMMA BatchKeeps ==
    ASSUME IInv, NEW j \in Jobs, BeginBatch(j) \/ EndBatch(j)
    PROVE  IInv'
<1>1. /\ job[j].pc \in {"off", "batch"}
      /\ UNCHANGED <<queue, retries, cloudVars, token, lost, crashes>>
  BY DEF BeginBatch, EndBatch, queueVars
<1>2. PICK n \in Job : /\ job' = [job EXCEPT ![j] = n]
                       /\ Fits(n, queue') /\ n.pc \in {"off", "batch"} /\ n.copy = None
  <2>1. CASE BeginBatch(j)
    BY <2>1, NewJobFields DEF BeginBatch
  <2>2. CASE EndBatch(j)
    BY <2>2, NewJobFields DEF EndBatch
  <2> QED BY <1>1, <2>1, <2>2
<1>3. \A c \in Copies : ~Accepting(j, c)
  BY <1>1 DEF Accepting, Answered
<1>4. /\ queue' \in [Copies -> {"not sent", "sending", "sent", "error"}]
      /\ retries' \in [Copies -> 0 .. RetryLimit + 1]
      /\ Counted'
  BY <1>1 DEF IInv, TypeOK, Counted
<1> QED BY <1>1, <1>2, <1>3, <1>4, LocalStep

(* An entry of a dead job has no acceptance at hand.                          *)
LEMMA RequeueKeeps ==
    ASSUME IInv, NEW c \in Copies, Requeue(c)
    PROVE  IInv'
<1>1. /\ queue[c] = "sending" /\ \A j \in Jobs : job[j].copy # c
      /\ queue' = [queue EXCEPT ![c] = "not sent"]
      /\ UNCHANGED <<retries, cloudVars, job, token, lost, crashes>>
      /\ TypeOK
  BY DEF Requeue, IInv
<1>2. /\ queue' \in [Copies -> {"not sent", "sending", "sent", "error"}]
      /\ queue'[c] = "not sent" /\ \A o \in Copies : o # c => queue'[o] = queue[o]
  BY <1>1 DEF TypeOK
<1>3. TypeOK'
  BY <1>1, <1>2 DEF TypeOK, cloudVars
<1>4. \A j \in Jobs : Fits(job'[j], queue')
  <2> SUFFICES ASSUME NEW j \in Jobs PROVE Fits(job[j], queue')
    BY <1>1
  <2>1. Fits(job[j], queue) /\ job[j].copy \in Copies \cup {None}
    BY DEF IInv, TypeOK, Job
  <2>2. job[j].copy # None => queue'[job[j].copy] = queue[job[j].copy]
    BY <1>1, <1>2, <2>1
  <2> QED BY <2>1, <2>2 DEF Fits
<1>5. Exclusive' /\ Counted'
  BY <1>1, <1>2 DEF IInv, Exclusive, Counted
<1>6. Accounted'
  BY <1>1, <1>2 DEF IInv, Accounted, Accepting, Answered, cloudVars
<1>7. DuplicatesOnlyByLoss' /\ ("nobody" \notin Answers => SentIsAccepted')
  BY <1>1, <1>2 DEF IInv, DuplicatesOnlyByLoss, SentIsAccepted, Sends, cloudVars
<1> QED BY <1>3, <1>4, <1>5, <1>6, <1>7 DEF IInv
-----------------------------------------------------------------------------
(* Cloudflare's answers, and jobs that die: the count of acceptances.         *)
(* A step of Cloudflare, or a death, concerns the copy of one job: what it    *)
(* accepts stays at hand in that job or is lost.                              *)
LEMMA CloudStep ==
    ASSUME IInv, NEW j \in Jobs, NEW c \in Copies, NEW n \in Job, NEW x \in Nat, NEW y \in Nat,
           Posting(job[j]), c = job[j].copy,
           Fits(n, queue), n.copy \in {c, None},
           job' = [job EXCEPT ![j] = n],
           UNCHANGED <<queueVars, valid, token>>, crashes' \in 0 .. MaxCrashes,
           accepted' = [accepted EXCEPT ![c] = x], lost' = [lost EXCEPT ![c] = y],
           x = IF Accepting(j, c)' THEN y + 1 ELSE y
    PROVE  IInv'
<1>1. /\ job'[j] = n /\ \A k \in Jobs \ {j} : job'[k] = job[k]
      /\ job' \in [Jobs -> Job]
      /\ queue' = queue /\ retries' = retries
  BY DEF IInv, TypeOK, queueVars
<1>2. /\ accepted' \in [Copies -> Nat] /\ lost' \in [Copies -> Nat]
      /\ accepted'[c] = x /\ lost'[c] = y
      /\ \A o \in Copies : o # c => accepted'[o] = accepted[o] /\ lost'[o] = lost[o]
  BY DEF IInv, TypeOK
<1>3. /\ Posting(job[j]) /\ queue[c] = "sending" /\ c # None
      /\ \A k \in Jobs \ {j} : job[k].copy # c
  BY Handling
<1>4. \A k \in Jobs : Fits(job'[k], queue')
  BY <1>1 DEF IInv
<1>5. TypeOK'
  <2>1. \A k \in Jobs : job'[k].pc \in {"post", "answer", "sleep"} => job'[k].copy # None
    BY <1>4 DEF Fits, Posting
  <2> QED BY <1>1, <1>2, <2>1 DEF IInv, TypeOK
<1>6. Exclusive'
  <2> SUFFICES ASSUME NEW i \in Jobs, NEW k \in Jobs, i # k, job'[i].copy # None
               PROVE  job'[i].copy # job'[k].copy
    BY DEF Exclusive
  <2>1. CASE i # j /\ k # j
    BY <1>1, <2>1 DEF IInv, Exclusive
  <2>2. CASE i = j \/ k = j
    BY <1>1, <1>3, <2>2
  <2> QED BY <2>1, <2>2
<1>7. Counted'
  BY <1>1 DEF IInv, Counted
<1>8. Accounted'
  <2> SUFFICES ASSUME NEW o \in Copies
               PROVE  /\ queue'[o] # "sent" /\ (\A k \in Jobs : ~Accepting(k, o)') =>
                           accepted'[o] = lost'[o]
                      /\ \A k \in Jobs : Accepting(k, o)' => accepted'[o] = lost'[o] + 1
    BY DEF Accounted
  <2>1. \A k \in Jobs \ {j} : Accepting(k, o)' <=> Accepting(k, o)
    BY <1>1 DEF Accepting, Answered
  <2>2. CASE o = c
    <3>1. \A k \in Jobs \ {j} : ~Accepting(k, o)'
      BY <1>3, <2>1, <2>2 DEF Accepting
    <3> QED BY <1>2, <2>2, <3>1, Zenon
  <2>3. CASE o # c
    <3>1. ~Accepting(j, o)' /\ ~Accepting(j, o)
      <4>1. job[j].copy # o /\ job'[j].copy \in {c, None} /\ o # None
        BY <1>1, <2>3, SendingAssumption
      <4> QED BY <2>3, <4>1 DEF Accepting
    <3>2. /\ queue[o] # "sent" /\ (\A k \in Jobs : ~Accepting(k, o)) => accepted[o] = lost[o]
          /\ \A k \in Jobs : Accepting(k, o) => accepted[o] = lost[o] + 1
      BY DEF IInv, Accounted
    <3>3. accepted'[o] = accepted[o] /\ lost'[o] = lost[o]
      BY <1>2, <2>3
    <3> QED BY <1>1, <2>1, <3>1, <3>2, <3>3, Zenon
  <2> QED BY <2>2, <2>3
<1>9. DuplicatesOnlyByLoss'
  <2> SUFFICES ASSUME NEW o \in Copies PROVE accepted'[o] <= lost'[o] + 1
    BY DEF DuplicatesOnlyByLoss
  <2>1. CASE o = c
    BY <1>2, <2>1, Counting, Zenon
  <2>2. CASE o # c
    BY <1>2, <2>2, Zenon DEF IInv, DuplicatesOnlyByLoss
  <2> QED BY <2>1, <2>2
<1>10. "nobody" \notin Answers => SentIsAccepted'
  <2> SUFFICES ASSUME "nobody" \notin Answers, NEW o \in Copies, queue[o] = "sent", Sends(o)
               PROVE  accepted'[o] > 0
    BY <1>1 DEF SentIsAccepted, Sends
  <2>1. accepted[o] > 0 /\ o # c
    BY <1>3 DEF IInv, SentIsAccepted
  <2> QED BY <1>2, <2>1, Zenon
<1> QED BY <1>4, <1>5, <1>6, <1>7, <1>8, <1>9, <1>10 DEF IInv

(* What is accepted of a copy beyond what was lost is at hand in its job.     *)
LEMMA AtHand ==
    ASSUME IInv, NEW j \in Jobs, NEW c \in Copies, Posting(job[j]), c = job[j].copy
    PROVE  /\ accepted[c] \in Nat /\ lost[c] \in Nat
           /\ accepted[c] = IF Accepting(j, c) THEN lost[c] + 1 ELSE lost[c]
<1>1. accepted[c] \in Nat /\ lost[c] \in Nat
  BY DEF IInv, TypeOK
<1>2. queue[c] # "sent" /\ \A k \in Jobs \ {j} : ~Accepting(k, c)
  BY Handling DEF Accepting
<1> QED BY <1>1, <1>2, Zenon DEF IInv, Accounted

(* What Cloudflare takes is at hand in the job or lost.                       *)
LEMMA AnswersKeeps ==
    ASSUME IInv, NEW j \in Jobs, CloudflareAnswers(j)
    PROVE  IInv'
<1>1. job[j].pc = "post" /\ Posting(job[j])
  BY DEF CloudflareAnswers, Posting
<1>2. PICK c \in Copies : c = job[j].copy
  BY <1>1, Handling
<1>3. PICK k \in Answers \cup {"fatal"}, took \in {0, 1} :
        /\ took = 1 => k \in {"accepted", "broken"}
        /\ k = "accepted" => took = 1
        /\ accepted' = [accepted EXCEPT ![c] = @ + took]
        /\ lost' = [lost EXCEPT ![c] = IF k = "broken" THEN @ + took ELSE @]
        /\ job' = [job EXCEPT ![j].pc = "answer", ![j].answer = k]
        /\ UNCHANGED <<queueVars, valid, token, crashes>>
  BY <1>2, Zenon DEF CloudflareAnswers
<1>4. k \in AnswerKinds \cup {"fatal"}
  BY <1>3, SendingAssumption
<1>5. /\ job[j] \in Job /\ Fits(job[j], queue) /\ c # None
  BY <1>1, <1>2, Handling
<1>6. PICK n : n = GivenAnswer(job[j], k)
  OBVIOUS
<1>7. /\ n \in Job /\ n.pc = "answer" /\ n.answer = k /\ n.copy = c
      /\ n.sessions = job[j].sessions /\ n.refusals = job[j].refusals
  BY <1>2, <1>4, <1>5, <1>6, PostFields
<1>8. Fits(n, queue)
  BY <1>1, <1>2, <1>3, <1>5, <1>7 DEF Fits, Posting
<1>9. job' = [job EXCEPT ![j] = n]
  BY <1>3, <1>6 DEF GivenAnswer
<1>10. Accepting(j, c)' <=> k = "accepted"
  <2>1. job'[j] = n
    BY <1>9 DEF IInv, TypeOK
  <2> QED BY <1>7, <2>1 DEF Accepting, Answered
<1>11. /\ accepted[c] \in Nat /\ lost[c] \in Nat /\ accepted[c] = lost[c]
       /\ accepted[c] + 1 \in Nat /\ lost[c] + 1 \in Nat
  <2>1. ~Accepting(j, c)
    BY <1>1 DEF Accepting, Answered
  <2> QED BY <1>1, <1>2, <2>1, AtHand, Counting, Zenon
<1>12. \E x \in Nat, y \in Nat :
         /\ accepted' = [accepted EXCEPT ![c] = x] /\ lost' = [lost EXCEPT ![c] = y]
         /\ x = IF Accepting(j, c)' THEN y + 1 ELSE y
  <2>1. CASE k = "accepted"
    <3>1. /\ accepted' = [accepted EXCEPT ![c] = accepted[c] + 1]
          /\ lost' = [lost EXCEPT ![c] = lost[c]]
      BY <1>3, <2>1
    <3> QED BY <1>10, <1>11, <2>1, <3>1, Zenon
  <2>2. CASE k = "broken" /\ took = 1
    <3>1. /\ accepted' = [accepted EXCEPT ![c] = accepted[c] + 1]
          /\ lost' = [lost EXCEPT ![c] = lost[c] + 1]
          /\ k # "accepted"
      BY <1>3, <2>2
    <3> QED BY <1>10, <1>11, <3>1, Zenon
  <2>3. CASE k # "accepted" /\ took = 0
    <3>1. /\ accepted' = [accepted EXCEPT ![c] = accepted[c]]
          /\ lost' = [lost EXCEPT ![c] = lost[c]]
      BY <1>3, <1>11, <2>3, Counting
    <3> QED BY <1>10, <1>11, <2>3, <3>1, Zenon
  <2>4. k = "accepted" \/ (k = "broken" /\ took = 1) \/ (k # "accepted" /\ took = 0)
    BY <1>3
  <2> QED BY <2>1, <2>2, <2>3, <2>4
<1>13. PICK x \in Nat, y \in Nat :
         /\ accepted' = [accepted EXCEPT ![c] = x] /\ lost' = [lost EXCEPT ![c] = y]
         /\ x = IF Accepting(j, c)' THEN y + 1 ELSE y
  BY <1>12
<1>14. crashes' \in 0 .. MaxCrashes /\ UNCHANGED <<queueVars, valid, token>>
  BY <1>3 DEF IInv, TypeOK
<1>15. n \in Job /\ n.copy \in {c, None}
  BY <1>7
<1> QED BY <1>1, <1>2, <1>8, <1>9, <1>13, <1>14, <1>15, CloudStep, Zenon

(* The bound on deaths.                                                       *)
LEMMA MoreCrashes == \A n \in 0 .. MaxCrashes : n < MaxCrashes => n + 1 \in 0 .. MaxCrashes
<1>1. MaxCrashes \in Nat
  BY SendingAssumption
<1> QED BY <1>1

(* A job that dies takes its acceptance with it: lost.                        *)
LEMMA CrashKeeps ==
    ASSUME IInv, NEW j \in Jobs, Crash(j)
    PROVE  IInv'
<1>1. crashes' \in 0 .. MaxCrashes
  <2>1. crashes \in 0 .. MaxCrashes /\ crashes < MaxCrashes /\ crashes' = crashes + 1
    BY DEF IInv, TypeOK, Crash
  <2> QED BY <2>1, MoreCrashes
<1>2. /\ job' = [job EXCEPT ![j] = NewJob] /\ UNCHANGED <<queueVars, valid, token>>
      /\ TypeOK /\ Fits(job[j], queue)
  BY DEF Crash, IInv
<1>3. /\ NewJob \in Job /\ Fits(NewJob, queue) /\ Fits(NewJob, queue')
      /\ NewJob.pc = "off" /\ NewJob.copy = None
  BY NewJobFields
<1>4. CASE ~Posting(job[j])
  <2>1. accepted' = accepted /\ lost' = lost /\ UNCHANGED <<queue, retries>>
    BY <1>2, <1>4 DEF Crash, Posting, Answered, queueVars
  <2>2. \A c \in Copies : ~Accepting(j, c)
    BY <1>4 DEF Accepting, Answered, Posting
  <2>3. /\ queue' \in [Copies -> {"not sent", "sending", "sent", "error"}]
        /\ retries' \in [Copies -> 0 .. RetryLimit + 1]
        /\ Counted'
    BY <2>1 DEF IInv, TypeOK, Counted
  <2>4. UNCHANGED <<cloudVars, token, lost>>
    BY <1>2, <2>1 DEF cloudVars
  <2> QED BY <1>1, <1>2, <1>3, <2>1, <2>2, <2>3, <2>4, JobStep
<1>5. CASE Posting(job[j])
  <2>1. PICK c \in Copies : c = job[j].copy
    BY <1>5, Handling
  <2>2. PICK took \in {0, 1} :
          /\ took = 1 => job[j].pc = "post"
          /\ accepted' = IF took = 1 THEN [accepted EXCEPT ![c] = @ + 1] ELSE accepted
          /\ lost' = IF took = 1 \/ (Answered(j) /\ job[j].answer = "accepted")
                       THEN [lost EXCEPT ![c] = @ + 1] ELSE lost
    BY <2>1, Zenon DEF Crash
  <2>3. Accepting(j, c) <=> Answered(j) /\ job[j].answer = "accepted"
    BY <2>1 DEF Accepting
  <2>4. ~Accepting(j, c)'
    <3>1. job'[j] = NewJob
      BY <1>2 DEF TypeOK
    <3> QED BY <1>3, <3>1 DEF Accepting, Answered
  <2>5. /\ accepted[c] \in Nat /\ lost[c] \in Nat /\ lost[c] + 1 \in Nat
        /\ accepted[c] = IF Accepting(j, c) THEN lost[c] + 1 ELSE lost[c]
    BY <1>5, <2>1, AtHand, Counting, Zenon
  <2>6. accepted = [accepted EXCEPT ![c] = accepted[c]] /\ lost = [lost EXCEPT ![c] = lost[c]]
    BY <1>2 DEF TypeOK
  <2>7. \E x \in Nat : /\ accepted' = [accepted EXCEPT ![c] = x]
                       /\ lost' = [lost EXCEPT ![c] = x]
    <3>1. CASE took = 1
      <4>1. /\ accepted' = [accepted EXCEPT ![c] = accepted[c] + 1]
            /\ lost' = [lost EXCEPT ![c] = lost[c] + 1]
            /\ ~Accepting(j, c)
        BY <2>2, <2>3, <3>1 DEF Answered
      <4> QED BY <2>5, <4>1, Zenon
    <3>2. CASE took # 1 /\ Accepting(j, c)
      <4>1. /\ accepted' = [accepted EXCEPT ![c] = accepted[c]]
            /\ lost' = [lost EXCEPT ![c] = lost[c] + 1]
        BY <2>2, <2>3, <2>6, <3>2
      <4> QED BY <2>5, <3>2, <4>1, Zenon
    <3>3. CASE took # 1 /\ ~Accepting(j, c)
      <4>1. /\ accepted' = [accepted EXCEPT ![c] = accepted[c]]
            /\ lost' = [lost EXCEPT ![c] = lost[c]]
        BY <2>2, <2>3, <2>6, <3>3
      <4> QED BY <2>5, <3>3, <4>1, Zenon
    <3> QED BY <3>1, <3>2, <3>3
  <2>8. PICK x \in Nat : /\ accepted' = [accepted EXCEPT ![c] = x]
                         /\ lost' = [lost EXCEPT ![c] = x]
    BY <2>7
  <2>10. NewJob.copy \in {c, None}
    BY <1>3
  <2> QED BY <1>1, <1>2, <1>3, <1>5, <2>1, <2>4, <2>8, <2>10, CloudStep, Zenon
<1> QED BY <1>4, <1>5
-----------------------------------------------------------------------------
(* The administrator's token, and every step.                                 *)
LEMMA AnotherToken == \A n \in 0 .. MaxTokens : n < MaxTokens => n + 1 \in 0 .. MaxTokens
<1>1. MaxTokens \in Nat
  BY SendingAssumption
<1> QED BY <1>1

(* Tokens concern neither the copies nor what a job remembers.                *)
LEMMA TokenKeeps ==
    ASSUME IInv, NEW d \in Domains, Revoke(d) \/ ReplaceToken(d)
    PROVE  IInv'
<1>1. UNCHANGED <<queue, retries, job, accepted, lost, crashes>>
  BY DEF Revoke, ReplaceToken, queueVars
<1>2. token' \in [Domains -> 0 .. MaxTokens] /\ valid' \subseteq Token
  <2>1. token \in [Domains -> 0 .. MaxTokens] /\ valid \subseteq Token
    BY DEF IInv, TypeOK
  <2>2. CASE Revoke(d)
    BY <2>1, <2>2 DEF Revoke
  <2>3. CASE ReplaceToken(d)
    <3>1. token[d] \in 0 .. MaxTokens /\ token[d] < MaxTokens
      BY <2>1, <2>3 DEF ReplaceToken
    <3>2. token[d] + 1 \in 0 .. MaxTokens
      BY <3>1, AnotherToken
    <3>3. token' = [token EXCEPT ![d] = token[d] + 1] /\ valid' = valid \cup {<<d, token[d] + 1>>}
      BY <2>3 DEF ReplaceToken
    <3>4. <<d, token[d] + 1>> \in Token
      BY <3>2 DEF Token
    <3> QED BY <2>1, <3>2, <3>3, <3>4
  <2> QED BY <2>2, <2>3
<1>3. TypeOK'
  BY <1>1, <1>2 DEF IInv, TypeOK
<1>4. /\ Exclusive' /\ Counted' /\ Accounted' /\ DuplicatesOnlyByLoss'
      /\ \A j \in Jobs : Fits(job'[j], queue')
      /\ "nobody" \notin Answers => SentIsAccepted'
  BY <1>1 DEF IInv, Exclusive, Counted, Accounted, Accepting, Answered, DuplicatesOnlyByLoss,
     SentIsAccepted, Sends
<1> QED BY <1>3, <1>4 DEF IInv

(* Every step keeps the invariant.                                            *)
LEMMA NextIInv == IInv /\ [Next]_vars => IInv'
<1> SUFFICES ASSUME IInv, [Next]_vars PROVE IInv'
  OBVIOUS
<1>1. ASSUME NEW j \in Jobs, BeginBatch(j) \/ EndBatch(j) PROVE IInv'
  BY <1>1, BatchKeeps
<1>2. ASSUME NEW j \in Jobs, Send(j) PROVE IInv'
  <2>1. CASE Return(j)
    BY <2>1, ReturnKeeps
  <2>2. CASE RaiseFatal(j) \/ Raise(j)
    BY <2>2, RaiseKeeps
  <2>3. CASE Sleep(j) \/ Wake(j)
    BY <2>3, LoopKeeps
  <2>4. ASSUME NEW c \in Copies, SendUnconfigured(j, c) \/ SendFallback(j, c) PROVE IInv'
    BY <2>4, WithoutCall
  <2>5. ASSUME NEW c \in Copies, SendFailsFast(j, c) PROVE IInv'
    BY <2>5, FailsFastKeeps
  <2>6. ASSUME NEW c \in Copies, SendMessage(j, c) PROVE IInv'
    BY <2>6, SendMessageKeeps
  <2> QED BY <1>2, <2>1, <2>2, <2>3, <2>4, <2>5, <2>6 DEF Send
<1>3. ASSUME NEW j \in Jobs, CloudflareAnswers(j) PROVE IInv'
  BY <1>3, AnswersKeeps
<1>4. ASSUME NEW j \in Jobs, Crash(j) PROVE IInv'
  BY <1>4, CrashKeeps
<1>5. ASSUME NEW c \in Copies, Requeue(c) PROVE IInv'
  BY <1>5, RequeueKeeps
<1>6. ASSUME NEW d \in Domains, Revoke(d) \/ ReplaceToken(d) PROVE IInv'
  BY <1>6, TokenKeeps
<1>7. CASE UNCHANGED vars
  <2>1. UNCHANGED <<queue, retries, job, token, valid, accepted, lost, crashes>>
    BY <1>7 DEF vars, queueVars, cloudVars
  <2> QED BY <2>1 DEF IInv, TypeOK, Exclusive, Counted, Accounted, Accepting, Answered,
             DuplicatesOnlyByLoss, SentIsAccepted, Sends
<1>8. Done => UNCHANGED vars
  BY DEF Done
<1> QED BY <1>1, <1>2, <1>3, <1>4, <1>5, <1>6, <1>7, <1>8 DEF Next

(* The invariant holds of every behaviour.                                    *)
THEOREM Invariance == Spec => []IInv
BY InitIInv, NextIInv, PTL DEF Spec
-----------------------------------------------------------------------------
(* The state of the queue, the jobs and Cloudflare is what the types say.     *)
THEOREM TypeCorrect == Spec => []TypeOK
<1>1. IInv => TypeOK
  BY DEF IInv
<1> QED BY <1>1, Invariance, PTL

(* After a 401 or 403 of an account no later copy of the batch is posted to   *)
(* it, whatever the domain: `_fatal_error` of the session they share.         *)
THEOREM RefusalStops == Spec => []NoCallAfterRefusal
<1>1. IInv => NoCallAfterRefusal
  BY DEF IInv, Fits, Posting, NoCallAfterRefusal
<1> QED BY <1>1, Invariance, PTL

(* A job fails copies without a call only for an account it has seen refuse,  *)
(* in the batch under way: sessions end with frappe.local.                    *)
THEOREM RefusalStaysConfined == Spec => []RefusalConfined
<1>1. IInv => RefusalConfined
  BY DEF IInv, Fits, RefusalConfined
<1> QED BY <1>1, Invariance, PTL

(* A recipient gets a second copy only after an acceptance whose answer was   *)
(* lost, whatever else is answered, retried, requeued or dies.                *)
THEOREM OnlyLossDuplicates == Spec => []DuplicatesOnlyByLoss
<1>1. IInv => DuplicatesOnlyByLoss
  BY DEF IInv
<1> QED BY <1>1, Invariance, PTL

(* If every 200 with success lists its recipient somewhere, what the queue    *)
(* calls Sent was accepted (`_check_recipients` raises for bounces).          *)
THEOREM SentAccepted ==
    ASSUME "nobody" \notin Answers
    PROVE  Spec => []SentIsAccepted
<1>1. IInv => SentIsAccepted
  BY DEF IInv
<1> QED BY <1>1, Invariance, PTL
-----------------------------------------------------------------------------
(* The promise of MailSending.                                               *)

\* The outcome of a copy, as the promise sees it, and whose acceptance shows.
Outcome == [c \in Copies |-> IF queue[c] = "sent" THEN "sent"
                             ELSE IF queue[c] = "error" THEN "given up" ELSE "open"]

Showing == {c \in Copies : Sends(c) /\ "nobody" \notin Answers}

(* Nothing is settled or taken at first.                                      *)
LEMMA PromiseInit == Init => Promise!Init
BY DEF Init, Promise!Init

(* What the promise sees of a queue in which one copy has changed.            *)
LEMMA OutcomeOfOne ==
    ASSUME NEW c \in Copies, queue[c] \notin {"sent", "error"},
           \A o \in Copies : o # c => queue'[o] = queue[o]
    PROVE  /\ Outcome[c] = "open"
           /\ queue'[c] = "sent" => Outcome' = [Outcome EXCEPT ![c] = "sent"]
           /\ queue'[c] = "error" => Outcome' = [Outcome EXCEPT ![c] = "given up"]
           /\ queue'[c] \notin {"sent", "error"} => Outcome' = Outcome
BY DEF Outcome

(* A step that settles no copy and neither takes nor loses one does not show. *)
LEMMA Hidden ==
    ASSUME UNCHANGED <<accepted, lost>>,
           \A c \in Copies : \/ queue'[c] = queue[c]
                             \/ {queue[c], queue'[c]} \subseteq {"not sent", "sending"}
    PROVE  UNCHANGED Promise!vars
<1>1. UNCHANGED Outcome
  BY DEF Outcome
<1> QED BY <1>1 DEF Promise!vars, Outcome

(* A copy that fails while no acceptance is at hand is offered again, or given *)
(* up unaccepted.                                                             *)
LEMMA FailedShows ==
    ASSUME IInv, NEW c \in Copies, queue[c] \in {"not sent", "sending"}, Failed(c),
           \A j \in Jobs : ~Accepting(j, c), UNCHANGED <<accepted, lost>>
    PROVE  [Promise!Next]_(Promise!vars)
<1>1. /\ queue'[c] \in {"not sent", "error"}
      /\ \A o \in Copies : o # c => queue'[o] = queue[o]
  BY FailedQueue
<1>2. CASE queue'[c] = "not sent"
  BY <1>1, <1>2, Hidden
<1>3. CASE queue'[c] = "error"
  <2>1. Outcome[c] = "open" /\ Outcome' = [Outcome EXCEPT ![c] = "given up"]
    BY <1>1, <1>3, OutcomeOfOne
  <2>2. accepted[c] = lost[c]
    BY DEF IInv, Accounted
  <2> QED BY <2>1, <2>2 DEF Promise!Next, Promise!GiveUp, Promise!Open, Promise!Unconfirmed, Outcome
<1> QED BY <1>1, <1>2, <1>3

(* A copy becomes Sent with an acceptance at hand, where one shows.           *)
LEMMA SentShows ==
    ASSUME IInv, NEW c \in Copies, queue[c] \in {"not sent", "sending"}, Sent(c),
           c \in Showing => accepted[c] = lost[c] + 1, UNCHANGED <<accepted, lost>>
    PROVE  Promise!Next
<1>1. Outcome[c] = "open" /\ Outcome' = [Outcome EXCEPT ![c] = "sent"]
  BY SentQueue, OutcomeOfOne
<1> QED BY <1>1 DEF Promise!Next, Promise!Send, Promise!Open, Promise!Confirmed, Outcome, Showing

(* What the hook does without a call.                                         *)
LEMMA WithoutCallShows ==
    ASSUME IInv, NEW j \in Jobs, NEW c \in Copies,
           SendUnconfigured(j, c) \/ SendFallback(j, c) \/ SendFailsFast(j, c)
    PROVE  [Promise!Next]_(Promise!vars)
<1>1. /\ Offered(j, c) /\ UNCHANGED <<accepted, lost>>
      /\ Failed(c) \/ (Sent(c) /\ ~Sends(c))
  BY DEF SendUnconfigured, SendFallback, SendFailsFast, Sends, cloudVars
<1>2. queue[c] = "not sent"
  BY <1>1 DEF Offered
<1>3. \A k \in Jobs : ~Accepting(k, c)
  BY <1>1, Offering DEF Accepting
<1>4. CASE Failed(c)
  BY <1>1, <1>2, <1>3, <1>4, FailedShows
<1>5. CASE Sent(c) /\ ~Sends(c)
  BY <1>1, <1>2, <1>5, SentShows DEF Showing
<1> QED BY <1>1, <1>4, <1>5

(* What the hook does with an answer.                                         *)
LEMMA WithAnswerShows ==
    ASSUME IInv, NEW j \in Jobs, Return(j) \/ RaiseFatal(j) \/ Raise(j)
    PROVE  [Promise!Next]_(Promise!vars)
<1>1. Answered(j) /\ Posting(job[j]) /\ UNCHANGED <<accepted, lost>>
  BY DEF Return, RaiseFatal, Raise, Answered, Posting, cloudVars
<1>2. PICK c \in Copies : c = job[j].copy
  BY <1>1, Handling
<1>3. /\ queue[c] = "sending" /\ Fits(job[j], queue)
      /\ \A k \in Jobs \ {j} : ~Accepting(k, c)
  BY <1>1, <1>2, Handling DEF Accepting
<1>4. CASE Return(j)
  <2>1. Sent(c) /\ job[j].answer \in {"accepted", "nobody"}
    BY <1>2, <1>4 DEF Return, Succeeds
  <2>2. c \in Showing => accepted[c] = lost[c] + 1
    <3>1. job[j].answer \in Answers \cup {"fatal"}
      BY <1>1, <1>3 DEF Fits, Answered
    <3>2. c \in Showing => Accepting(j, c)
      BY <1>1, <1>2, <2>1, <3>1 DEF Showing, Accepting
    <3> QED BY <3>2 DEF IInv, Accounted
  <2> QED BY <1>1, <1>3, <2>1, <2>2, SentShows
<1>5. CASE RaiseFatal(j) \/ Raise(j)
  <2>1. Failed(c) /\ job[j].answer # "accepted"
    BY <1>2, <1>5 DEF RaiseFatal, Raise, Succeeds
  <2>2. \A k \in Jobs : ~Accepting(k, c)
    BY <1>3, <2>1 DEF Accepting
  <2> QED BY <1>1, <1>3, <2>1, <2>2, FailedShows
<1> QED BY <1>4, <1>5

(* A step of Cloudflare, or a death, as the promise sees it: one copy more is  *)
(* taken, or a known acceptance forgotten, or nothing shows.                  *)
LEMMA TakenShows ==
    ASSUME IInv, NEW c \in Copies, queue[c] = "sending", UNCHANGED queue,
           \/ /\ accepted[c] = lost[c]
              /\ accepted' = [accepted EXCEPT ![c] = @ + 1]
              /\ lost' \in {lost, [lost EXCEPT ![c] = @ + 1]}
           \/ /\ accepted[c] = lost[c] + 1
              /\ accepted' = accepted
              /\ lost' = [lost EXCEPT ![c] = @ + 1]
           \/ UNCHANGED <<accepted, lost>>
    PROVE  [Promise!Next]_(Promise!vars)
<1>1. Outcome[c] = "open" /\ UNCHANGED Outcome
  BY OutcomeOfOne
<1>2. CASE /\ accepted[c] = lost[c]
           /\ accepted' = [accepted EXCEPT ![c] = @ + 1]
           /\ lost' \in {lost, [lost EXCEPT ![c] = @ + 1]}
  BY <1>1, <1>2 DEF Promise!Next, Promise!Take, Promise!Open, Promise!Unconfirmed, Outcome
<1>3. CASE /\ accepted[c] = lost[c] + 1
           /\ accepted' = accepted
           /\ lost' = [lost EXCEPT ![c] = @ + 1]
  BY <1>1, <1>3 DEF Promise!Next, Promise!Forget, Promise!Open, Promise!Confirmed, Outcome
<1>4. CASE UNCHANGED <<accepted, lost>>
  BY <1>1, <1>4 DEF Promise!vars, Outcome
<1> QED BY <1>2, <1>3, <1>4

(* Cloudflare takes a copy only while no acceptance of it is known.           *)
LEMMA AnswersShow ==
    ASSUME IInv, NEW j \in Jobs, CloudflareAnswers(j)
    PROVE  [Promise!Next]_(Promise!vars)
<1>1. job[j].pc = "post" /\ Posting(job[j])
  BY DEF CloudflareAnswers, Posting
<1>2. PICK c \in Copies : c = job[j].copy
  BY <1>1, Handling
<1>3. PICK k \in Answers \cup {"fatal"}, took \in {0, 1} :
        /\ accepted' = [accepted EXCEPT ![c] = @ + took]
        /\ lost' = [lost EXCEPT ![c] = IF k = "broken" THEN @ + took ELSE @]
        /\ UNCHANGED queueVars
  BY <1>2, Zenon DEF CloudflareAnswers
<1>4. queue[c] = "sending" /\ UNCHANGED queue
  BY <1>1, <1>2, <1>3, Handling DEF queueVars
<1>5. /\ accepted[c] \in Nat /\ lost[c] \in Nat /\ accepted[c] = lost[c]
      /\ accepted \in [Copies -> Nat] /\ lost \in [Copies -> Nat]
  <2>1. ~Accepting(j, c)
    BY <1>1 DEF Accepting, Answered
  <2> QED BY <1>1, <1>2, <2>1, AtHand DEF IInv, TypeOK
<1>6. CASE took = 0
  <2>1. UNCHANGED <<accepted, lost>>
    BY <1>3, <1>5, <1>6
  <2> QED BY <1>4, <2>1, TakenShows
<1>7. CASE took = 1
  <2>1. /\ accepted' = [accepted EXCEPT ![c] = @ + 1]
        /\ lost' \in {lost, [lost EXCEPT ![c] = @ + 1]}
    BY <1>3, <1>5, <1>7
  <2> QED BY <1>4, <1>5, <2>1, TakenShows
<1> QED BY <1>6, <1>7

(* A death forgets the acceptance at hand, or hides one on its way.           *)
LEMMA CrashShows ==
    ASSUME IInv, NEW j \in Jobs, Crash(j)
    PROVE  [Promise!Next]_(Promise!vars)
<1>1. CASE ~Posting(job[j])
  BY <1>1, Hidden DEF Crash, Posting, Answered, queueVars
<1>2. CASE Posting(job[j])
  <2>1. PICK c \in Copies : c = job[j].copy
    BY <1>2, Handling
  <2>2. PICK took \in {0, 1} :
          /\ took = 1 => job[j].pc = "post"
          /\ accepted' = IF took = 1 THEN [accepted EXCEPT ![c] = @ + 1] ELSE accepted
          /\ lost' = IF took = 1 \/ (Answered(j) /\ job[j].answer = "accepted")
                       THEN [lost EXCEPT ![c] = @ + 1] ELSE lost
    BY <2>1, Zenon DEF Crash
  <2>3. /\ Accepting(j, c) <=> Answered(j) /\ job[j].answer = "accepted"
        /\ took = 1 => ~Accepting(j, c)
    BY <2>1, <2>2 DEF Accepting, Answered
  <2>4. /\ queue[c] = "sending" /\ UNCHANGED queue
        /\ accepted[c] = IF Accepting(j, c) THEN lost[c] + 1 ELSE lost[c]
    BY <1>2, <2>1, Handling, AtHand DEF Crash, queueVars
  <2> QED BY <2>2, <2>3, <2>4, TakenShows
<1> QED BY <1>1, <1>2

(* Every step is a step of the promise or does not show in it.                *)
LEMMA NextPromise ==
    ASSUME IInv, [Next]_vars
    PROVE  [Promise!Next]_(Promise!vars)
<1>1. ASSUME NEW j \in Jobs, BeginBatch(j) \/ EndBatch(j) \/ Sleep(j) \/ Wake(j)
      PROVE  UNCHANGED Promise!vars
  BY <1>1, Hidden DEF BeginBatch, EndBatch, Sleep, Wake, queueVars, cloudVars
<1>2. ASSUME NEW j \in Jobs, NEW c \in Copies, SendMessage(j, c)
      PROVE  UNCHANGED Promise!vars
  <2>1. queue[c] = "not sent" /\ queue' = [queue EXCEPT ![c] = "sending"]
        /\ UNCHANGED <<accepted, lost>>
    BY <1>2 DEF SendMessage, Offered, cloudVars
  <2> QED BY <2>1, Hidden DEF IInv, TypeOK
<1>3. ASSUME NEW c \in Copies, Requeue(c) PROVE UNCHANGED Promise!vars
  <2>1. queue[c] = "sending" /\ queue' = [queue EXCEPT ![c] = "not sent"]
        /\ UNCHANGED <<accepted, lost>>
    BY <1>3 DEF Requeue, cloudVars
  <2> QED BY <2>1, Hidden DEF IInv, TypeOK
<1>4. ASSUME NEW d \in Domains, Revoke(d) \/ ReplaceToken(d) PROVE UNCHANGED Promise!vars
  BY <1>4, Hidden DEF Revoke, ReplaceToken, queueVars
<1>5. CASE UNCHANGED vars
  BY <1>5, Hidden DEF vars, queueVars, cloudVars
<1> QED BY <1>1, <1>2, <1>3, <1>4, <1>5, WithoutCallShows, WithAnswerShows, AnswersShow, CrashShows
       DEF Next, Send, Done

(* Sending implements MailSending, for any number of jobs and whatever        *)
(* Cloudflare answers, loses or refuses: a copy is not posted again while its *)
(* acceptance is known or once it is settled, called Sent only with one and   *)
(* given up only without.                                                     *)
THEOREM Implements == Spec => KeepsPromise
<1>1. Init => Promise!Init
  BY PromiseInit
<1>2. IInv /\ [Next]_vars => [Promise!Next]_(Promise!vars)
  BY NextPromise
<1> QED BY <1>1, <1>2, Invariance, PTL DEF Spec, KeepsPromise, Promise!Spec
-----------------------------------------------------------------------------
(* The way of a batch, and the tokens of its sessions.                        *)

\* Domain d sends in Cloudflare account a.
SendsIn(d, a) == d \in Domains /\ Transport[d] = "cloudflare" /\ AccountOf[d] = a

\* What holds of a job n: the copy it has is one it has not tried and sends via
\* Cloudflare; between copies it counts no attempt; and the session of an
\* account has the token of a domain that sends in that account.
Regular(n) ==
    /\ n.copy # None => n.copy \notin n.tried /\ Sends(n.copy)
    /\ n.pc = "batch" => n.attempt = 0
    /\ \A a \in CfAccounts : n.sessions[a] # None => SendsIn(n.sessions[a].token[1], a)

AllRegular == \A j \in Jobs : Regular(job[j])

\* From m to n a batch ends or gets further.
GoesOn(m, n) == m.pc # "off" => n = NewJob \/ Further(m, n)

(* No job has begun at first.                                                 *)
LEMMA InitRegular == Init => AllRegular
<1>1. Regular(NewJob)
  BY NewJobFields DEF Regular
<1> QED BY <1>1, Zenon DEF Init, AllRegular

(* A copy's session has a token of its account, found or made.                *)
LEMMA SessionSendsIn ==
    ASSUME TypeOK, NEW j \in Jobs, Regular(job[j]), NEW c \in Copies, Sends(c)
    PROVE  SendsIn(SessionFor(j, c).token[1], CfAccount(c))
<1>1. CfAccount(c) \in CfAccounts /\ DomainOf[c] \in Domains
  BY SendingAssumption DEF CfAccount
<1>2. SendsIn(DomainOf[c], CfAccount(c))
  BY <1>1 DEF SendsIn, Sends, CfAccount
<1> QED BY <1>1, <1>2 DEF SessionFor, Regular

(* A job done with a copy it had not tried.                                   *)
LEMMA DoneWithGoesOn ==
    ASSUME TypeOK, NEW j \in Jobs, Regular(job[j]), NEW c \in Copies, c \notin job[j].tried
    PROVE  Regular(DoneWith(j, c)) /\ Further(job[j], DoneWith(j, c))
BY DoneWithFields DEF Regular, Further

(* The steps of the hook without a call, and the first post of a copy.        *)
LEMMA OfferedGoesOn ==
    ASSUME IInv, NEW j \in Jobs, Regular(job[j]), NEW c \in Copies,
           \/ SendUnconfigured(j, c) \/ SendFallback(j, c)
           \/ SendFailsFast(j, c) \/ SendMessage(j, c)
    PROVE  \E n : /\ job' = [job EXCEPT ![j] = n]
                  /\ Regular(n) /\ GoesOn(job[j], n)
<1>1. /\ job[j] \in Job /\ job[j].pc = "batch" /\ job[j].attempt = 0
      /\ job[j].copy = None /\ c \notin job[j].tried /\ TypeOK
  BY Offering DEF SendUnconfigured, SendFallback, SendFailsFast, SendMessage, Offered,
     IInv, TypeOK, Regular
<1>2. PICK d \in Job : d = DoneWith(j, c)
  BY <1>1, DoneWithFields
<1>3. Regular(d) /\ Further(job[j], d) /\ d.tried = job[j].tried \cup {c} /\ d.copy = None
  BY <1>1, <1>2, DoneWithGoesOn, DoneWithFields
<1>4. CASE SendUnconfigured(j, c) \/ SendFallback(j, c)
  BY <1>2, <1>3, <1>4 DEF SendUnconfigured, SendFallback, GoesOn
<1>5. CASE SendFailsFast(j, c) \/ SendMessage(j, c)
  <2>1. PICK a \in CfAccounts, s \in Session :
          a = CfAccount(c) /\ s = SessionFor(j, c) /\ s # None
    BY <1>1, SessionType
  <2>2. Sends(c) /\ SendsIn(s.token[1], a)
    BY <1>1, <1>5, <2>1, SessionSendsIn DEF SendFailsFast, SendMessage
  <2>3. CASE SendFailsFast(j, c)
    <3>1. PICK n : n = With(d, a, s)
      OBVIOUS
    <3>2. /\ n.pc = d.pc /\ n.copy = d.copy /\ n.attempt = d.attempt /\ n.tried = d.tried
          /\ n.sessions[a] = s
          /\ \A b \in CfAccounts \ {a} : n.sessions[b] = d.sessions[b]
      BY <3>1, WithSession
    <3>3. Regular(n) /\ Further(job[j], n)
      BY <1>1, <1>3, <2>2, <3>2 DEF Regular, Further
    <3> QED BY <1>2, <2>1, <2>3, <3>1, <3>3 DEF SendFailsFast, With, GoesOn
  <2>4. CASE SendMessage(j, c)
    <3>1. PICK m : m = With(job[j], a, s)
      OBVIOUS
    <3>2. /\ m \in Job /\ m.attempt = job[j].attempt /\ m.tried = job[j].tried
          /\ m.sessions[a] = s
          /\ \A b \in CfAccounts \ {a} : m.sessions[b] = job[j].sessions[b]
      BY <1>1, <3>1, WithSession
    <3>3. PICK n : n = [m EXCEPT !.pc = "post", !.copy = c, !.attempt = 1]
      OBVIOUS
    <3>4. /\ n.pc = "post" /\ n.copy = c /\ n.attempt = 1 /\ n.tried = m.tried
          /\ n.sessions = m.sessions
      BY <3>2, <3>3 DEF Job
    <3>5. Regular(n) /\ Further(job[j], n)
      BY <1>1, <2>2, <3>2, <3>4 DEF Regular, Further
    <3>6. n = [job[j] EXCEPT !.pc = "post", !.copy = c, !.attempt = 1, !.sessions[a] = s]
      BY <1>1, <3>1, <3>3 DEF With, Job
    <3> QED BY <2>1, <2>4, <3>5, <3>6 DEF SendMessage, GoesOn
  <2> QED BY <1>5, <2>3, <2>4
<1> QED BY <1>4, <1>5

(* The steps of `_post`.                                                      *)
LEMMA PostGoesOn ==
    ASSUME IInv, NEW j \in Jobs, Regular(job[j]),
           \/ CloudflareAnswers(j) \/ Sleep(j) \/ Wake(j)
           \/ Return(j) \/ RaiseFatal(j) \/ Raise(j)
    PROVE  \E n : /\ job' = [job EXCEPT ![j] = n]
                  /\ Regular(n) /\ GoesOn(job[j], n)
<1>1. Posting(job[j])
  BY DEF CloudflareAnswers, Sleep, Wake, Return, RaiseFatal, Raise, Answered, Posting
<1>2. PICK c \in Copies : c = job[j].copy
  BY <1>1, Handling
<1>3. /\ job[j] \in Job /\ TypeOK /\ c \notin job[j].tried
      /\ job[j].attempt \in 0 .. MAX_ATTEMPTS
  BY <1>1, <1>2, Handling DEF IInv, Regular, Job
<1>4. CASE CloudflareAnswers(j)
  <2>0. PICK k \in Answers \cup {"fatal"} :
          job[j].pc = "post" /\ job' = [job EXCEPT ![j].pc = "answer", ![j].answer = k]
    BY <1>4, Zenon DEF CloudflareAnswers
  <2>1. /\ k \in AnswerKinds \cup {"fatal"}
        /\ job[j].pc = "post" /\ job' = [job EXCEPT ![j] = GivenAnswer(job[j], k)]
    BY <2>0, SendingAssumption DEF GivenAnswer
  <2>2. PICK n : n = GivenAnswer(job[j], k)
    OBVIOUS
  <2>3. /\ n.pc = "answer" /\ n.copy = job[j].copy /\ n.sessions = job[j].sessions
        /\ n.attempt = job[j].attempt /\ n.tried = job[j].tried
    BY <1>3, <2>1, <2>2, PostFields
  <2>4. Regular(n) /\ Further(job[j], n)
    BY <2>1, <2>3 DEF Regular, Further, Step
  <2> QED BY <2>1, <2>2, <2>4 DEF GoesOn
<1>5. CASE Sleep(j)
  <2>1. job[j].pc = "answer" /\ job' = [job EXCEPT ![j] = Asleep(job[j])]
    BY <1>5 DEF Sleep, Answered, Asleep
  <2>2. PICK n : n = Asleep(job[j])
    OBVIOUS
  <2>3. /\ n.pc = "sleep" /\ n.copy = job[j].copy /\ n.sessions = job[j].sessions
        /\ n.attempt = job[j].attempt /\ n.tried = job[j].tried
    BY <1>3, <2>2, PostFields
  <2>4. Regular(n) /\ Further(job[j], n)
    BY <2>1, <2>3 DEF Regular, Further, Step
  <2> QED BY <2>1, <2>2, <2>4 DEF GoesOn
<1>6. CASE Wake(j)
  <2>1. job' = [job EXCEPT ![j] = Awake(job[j])]
    BY <1>6 DEF Wake, Awake
  <2>2. PICK n : n = Awake(job[j])
    OBVIOUS
  <2>3. /\ n.pc = "post" /\ n.copy = job[j].copy /\ n.sessions = job[j].sessions
        /\ n.attempt = job[j].attempt + 1 /\ n.tried = job[j].tried
    BY <1>3, <2>2, PostFields
  <2>4. job[j].attempt < n.attempt
    BY <1>3, <2>3 DEF MAX_ATTEMPTS
  <2>5. Regular(n) /\ Further(job[j], n)
    BY <2>3, <2>4 DEF Regular, Further
  <2> QED BY <2>1, <2>2, <2>5 DEF GoesOn
<1>7. CASE Return(j) \/ Raise(j) \/ RaiseFatal(j)
  <2>1. PICK d \in Job : d = DoneWith(j, c)
    BY <1>3, DoneWithFields
  <2>2. /\ Regular(d) /\ Further(job[j], d) /\ d.tried = job[j].tried \cup {c}
        /\ d.copy = None /\ d.sessions = job[j].sessions
    BY <1>3, <2>1, DoneWithGoesOn, DoneWithFields
  <2>3. CASE Return(j) \/ Raise(j)
    BY <1>2, <2>1, <2>2, <2>3 DEF Return, Raise, GoesOn
  <2>4. CASE RaiseFatal(j)
    <3>1. PICK a \in CfAccounts : a = CfAccount(c)
      BY <1>3, SessionType
    <3>2. d.sessions[a] # None
      BY <1>1, <1>2, <2>2, <3>1, Handling DEF Fits
    <3>3. PICK n : n = RefusedBy(d, a)
      OBVIOUS
    <3>4. /\ n.pc = d.pc /\ n.copy = d.copy /\ n.attempt = d.attempt /\ n.tried = d.tried
          /\ n.sessions[a].token = d.sessions[a].token
          /\ \A b \in CfAccounts \ {a} : n.sessions[b] = d.sessions[b]
      BY <3>2, <3>3, RefusedFields
    <3>5. Regular(n) /\ Further(job[j], n)
      BY <1>3, <2>2, <3>2, <3>4 DEF Regular, Further
    <3> QED BY <1>2, <2>1, <2>4, <3>1, <3>3, <3>5 DEF RaiseFatal, RefusedBy, GoesOn
  <2> QED BY <1>7, <2>3, <2>4
<1> QED BY <1>4, <1>5, <1>6, <1>7

(* A batch that begins, ends or dies.                                         *)
LEMMA BatchGoesOn ==
    ASSUME NEW j \in Jobs, BeginBatch(j) \/ EndBatch(j) \/ Crash(j)
    PROVE  \E n : /\ job' = [job EXCEPT ![j] = n]
                  /\ Regular(n) /\ GoesOn(job[j], n)
<1>1. Regular(NewJob) /\ Regular([NewJob EXCEPT !.pc = "batch"])
  BY NewJobFields DEF Regular
<1>2. CASE BeginBatch(j)
  BY <1>1, <1>2 DEF BeginBatch, GoesOn
<1>3. CASE EndBatch(j) \/ Crash(j)
  BY <1>1, <1>3 DEF EndBatch, Crash, GoesOn
<1> QED BY <1>2, <1>3

(* Every step keeps the jobs regular and takes no batch back.                 *)
LEMMA NextGoesOn ==
    ASSUME IInv, AllRegular, [Next]_vars
    PROVE  /\ AllRegular'
           /\ \A j \in Jobs : job[j].pc # "off" /\ job'[j] # job[j] =>
                job'[j] = NewJob \/ Further(job[j], job'[j])
<1>1. ASSUME NEW j \in Jobs,
             \E n : /\ job' = [job EXCEPT ![j] = n]
                    /\ Regular(n) /\ GoesOn(job[j], n)
      PROVE  /\ AllRegular'
             /\ \A k \in Jobs : job[k].pc # "off" /\ job'[k] # job[k] =>
                  job'[k] = NewJob \/ Further(job[k], job'[k])
  <2>1. PICK n : /\ job' = [job EXCEPT ![j] = n]
                 /\ Regular(n) /\ GoesOn(job[j], n)
    BY <1>1
  <2>2. job'[j] = n /\ \A k \in Jobs \ {j} : job'[k] = job[k]
    BY <2>1 DEF IInv, TypeOK
  <2>3. ASSUME NEW k \in Jobs PROVE Regular(job'[k])
    BY <2>1, <2>2 DEF AllRegular
  <2>4. AllRegular'
    BY <2>3 DEF AllRegular, Regular, Sends
  <2> QED BY <2>1, <2>2, <2>4 DEF GoesOn
<1>2. UNCHANGED job => AllRegular'
  BY DEF AllRegular, Regular, Sends
<1>3. (\E d \in Domains : Revoke(d) \/ ReplaceToken(d)) \/ (\E c \in Copies : Requeue(c))
         \/ Done \/ UNCHANGED vars => UNCHANGED job
  BY DEF Revoke, ReplaceToken, Requeue, Done, vars
<1>4. ASSUME NEW j \in Jobs, BeginBatch(j) \/ EndBatch(j) \/ Crash(j)
      PROVE  \E n : /\ job' = [job EXCEPT ![j] = n]
                    /\ Regular(n) /\ GoesOn(job[j], n)
  BY <1>4, BatchGoesOn
<1>5. ASSUME NEW j \in Jobs, Send(j) \/ CloudflareAnswers(j)
      PROVE  \E n : /\ job' = [job EXCEPT ![j] = n]
                    /\ Regular(n) /\ GoesOn(job[j], n)
  <2>1. Regular(job[j])
    BY DEF AllRegular
  <2> QED BY <1>5, <2>1, OfferedGoesOn, PostGoesOn DEF Send
<1>6. CASE UNCHANGED job
  BY <1>2, <1>6
<1>7. CASE \E j \in Jobs : BeginBatch(j) \/ EndBatch(j) \/ Send(j) \/ CloudflareAnswers(j) \/ Crash(j)
  BY <1>1, <1>4, <1>5, <1>7
<1> QED BY <1>3, <1>6, <1>7 DEF Next

(* The jobs are regular in every behaviour.                                   *)
LEMMA AlwaysRegular == Spec => []AllRegular
<1>1. IInv /\ AllRegular /\ [Next]_vars => AllRegular'
  BY NextGoesOn
<1> QED BY <1>1, InitRegular, Invariance, PTL DEF Spec

(* No batch goes round in circles, for any number of copies: a step of a job  *)
(* ends its batch, is done with a copy it had not tried, or takes the attempt *)
(* at one further; the loop of `_post` counts every attempt.                  *)
THEOREM BatchEnds == Spec => BatchAdvances
<1> DEFINE Advance == \A j \in Jobs : job[j].pc # "off" /\ job'[j] # job[j] =>
                        job'[j] = NewJob \/ Further(job[j], job'[j])
<1>1. IInv /\ AllRegular /\ [Next]_vars => [Advance]_vars
  BY NextGoesOn
<1> QED BY <1>1, AlwaysRegular, Invariance, PTL DEF Spec, BatchAdvances

(* What `get_sending_session` gets wrong needs two domains: if no two that    *)
(* send via Cloudflare share an account, each post has the token of the       *)
(* copy's own domain, whatever tokens are replaced or refused meanwhile.      *)
THEOREM OwnTokens ==
    ASSUME \A d, e \in Domains :
             Transport[d] = "cloudflare" /\ Transport[e] = "cloudflare" /\ AccountOf[d] = AccountOf[e]
                => d = e
    PROVE  Spec => []UsesOwnToken
<1>1. IInv /\ AllRegular => UsesOwnToken
  <2> SUFFICES ASSUME IInv, AllRegular, NEW j \in Jobs, job[j].pc = "post"
               PROVE  job[j].sessions[CfAccount(job[j].copy)].token[1] = DomainOf[job[j].copy]
    BY DEF UsesOwnToken
  <2>1. Posting(job[j])
    BY DEF Posting
  <2>2. PICK c \in Copies : c = job[j].copy /\ c # None
    BY <2>1, Handling
  <2>3. CfAccount(c) \in CfAccounts /\ DomainOf[c] \in Domains
    BY SendingAssumption DEF CfAccount
  <2>4. job[j].sessions[CfAccount(c)] # None /\ Sends(c)
    BY <2>1, <2>2, Handling DEF Fits, AllRegular, Regular
  <2>5. SendsIn(job[j].sessions[CfAccount(c)].token[1], CfAccount(c))
    BY <2>3, <2>4 DEF AllRegular, Regular
  <2> QED BY <2>2, <2>3, <2>4, <2>5 DEF SendsIn, Sends, CfAccount
<1> QED BY <1>1, AlwaysRegular, Invariance, PTL
-----------------------------------------------------------------------------
(* How often a copy can be accepted.                                          *)

AllWithin == \A c \in Copies : Within(c)

\* The numbers of a copy.
CopyNumbers(c) ==
    /\ accepted[c] \in Nat /\ retries[c] \in Nat /\ crashes \in Nat
    /\ \A j \in Jobs : job[j].attempt \in 0 .. 3

(* The numbers of a copy are numbers, before and after a step.                *)
LEMMA NumbersType ==
    ASSUME NEW c \in Copies
    PROVE  /\ IInv => CopyNumbers(c)
           /\ IInv' => CopyNumbers(c)'
<1>1. /\ \A n \in 0 .. RetryLimit + 1 : n \in Nat
      /\ \A n \in 0 .. MaxCrashes : n \in Nat
  BY SendingAssumption
<1>2. ASSUME IInv PROVE CopyNumbers(c)
  BY <1>1, <1>2 DEF IInv, TypeOK, Job, CopyNumbers, MAX_ATTEMPTS
<1>3. ASSUME IInv' PROVE CopyNumbers(c)'
  BY <1>1, <1>3 DEF IInv, TypeOK, Job, CopyNumbers, MAX_ATTEMPTS
<1> QED BY <1>2, <1>3

(* Nothing is accepted at first.                                              *)
LEMMA InitWithin == Init => AllWithin
<1> SUFFICES ASSUME Init, NEW c \in Copies PROVE Within(c)
  BY DEF AllWithin
<1>1. /\ accepted[c] = 0 /\ retries[c] = 0 /\ crashes = 0 /\ queue[c] = "not sent"
      /\ \A j \in Jobs : job[j].copy = None
  BY NewJobFields DEF Init
<1>2. c # None
  BY SendingAssumption
<1>3. accepted[c] <= Spare(c)
  <2>1. 0 <= 3 * (0 + 0)
    OBVIOUS
  <2> QED BY <1>1, <2>1, Zenon DEF Spare, MAX_ATTEMPTS
<1>4. ~\E j \in Jobs : job[j].copy = c
  BY <1>1, <1>2
<1> QED BY <1>1, <1>3, <1>4, Zenon DEF Within

(* A step of a job with copy c, or None, leaves the others within bounds.     *)
LEMMA OthersWithin ==
    ASSUME IInv, IInv', AllWithin, NEW j \in Jobs, NEW n, NEW c,
           job' = [job EXCEPT ![j] = n],
           job[j].copy \in {c, None}, n.copy \in {c, None},
           \A o \in Copies : o # c =>
             accepted'[o] = accepted[o] /\ retries'[o] = retries[o] /\ queue'[o] = queue[o],
           crashes' = crashes \/ crashes' = crashes + 1,
           c \in Copies => Within(c)'
    PROVE  AllWithin'
<1>1. /\ job'[j] = n /\ \A k \in Jobs \ {j} : job'[k] = job[k]
      /\ None \notin Copies
  BY SendingAssumption DEF IInv, TypeOK
<1>2. ASSUME NEW o \in Copies, o # c PROVE Within(o)'
  <2>1. CopyNumbers(o) /\ CopyNumbers(o)' /\ Within(o)
    BY NumbersType DEF AllWithin
  <2>2. \A k \in Jobs : job'[k].copy = o => k # j /\ job[k].copy = o /\ job'[k] = job[k]
    BY <1>1, <1>2
  <2>3. (\A k \in Jobs : job'[k].copy # o) => \A k \in Jobs : job[k].copy # o
    BY <1>1, <1>2
  <2>4. Spare(o) \in Nat /\ Spare(o)' \in Nat /\ Spare(o) <= Spare(o)'
    BY <2>1, <1>2 DEF CopyNumbers, Spare, MAX_ATTEMPTS
  <2>5. \A k \in Jobs : Spent(job[k]) \in Int
    BY <2>1 DEF CopyNumbers, Spent
  <2>6. accepted'[o] = accepted[o] /\ queue'[o] = queue[o] /\ accepted[o] \in Nat
    BY <1>2, <2>1 DEF CopyNumbers
  <2>7. ASSUME NEW k \in Jobs, job'[k].copy = o
        PROVE  accepted'[o] <= Spare(o)' + Spent(job'[k])
    <3>1. accepted[o] <= Spare(o) + Spent(job[k]) /\ Spent(job'[k]) = Spent(job[k])
      BY <2>1, <2>2, <2>7 DEF Within
    <3> QED BY <2>4, <2>5, <2>6, <3>1
  <2>8. (\A k \in Jobs : job'[k].copy # o) /\ queue'[o] # "sent" => accepted'[o] <= Spare(o)'
    <3>1. (\A k \in Jobs : job'[k].copy # o) /\ queue'[o] # "sent" => accepted[o] <= Spare(o)
      BY <2>1, <2>3, <2>6 DEF Within
    <3> QED BY <2>4, <2>6, <3>1
  <2>9. queue'[o] = "sent" => accepted'[o] <= Spare(o)' + MAX_ATTEMPTS
    <3>1. queue'[o] = "sent" => accepted[o] <= Spare(o) + 3
      BY <2>1, <2>6 DEF Within, MAX_ATTEMPTS
    <3> QED BY <2>4, <2>6, <3>1 DEF MAX_ATTEMPTS
  <2> QED BY <2>7, <2>8, <2>9 DEF Within, Spent
<1> QED BY <1>2 DEF AllWithin

(* The copy of the job that steps is within bounds too: with what the attempt *)
(* under way accounts for, or handed back.                                    *)
LEMMA OwnWithin ==
    ASSUME IInv, IInv', NEW j \in Jobs, NEW n, NEW c \in Copies,
           job' = [job EXCEPT ![j] = n],
           \A k \in Jobs \ {j} : job[k].copy # c,
           \/ n.copy = c /\ accepted'[c] <= Spare(c)' + Spent(n)
           \/ n.copy # c /\ accepted'[c] <= Spare(c)'
           \/ n.copy # c /\ queue'[c] = "sent" /\ accepted'[c] <= Spare(c)' + MAX_ATTEMPTS
    PROVE  Within(c)'
<1>1. /\ job'[j] = n /\ \A k \in Jobs \ {j} : job'[k] = job[k]
      /\ c # None
  BY SendingAssumption DEF IInv, TypeOK
<1>2. accepted'[c] \in Nat /\ Spare(c)' \in Nat
  BY NumbersType DEF CopyNumbers, Spare, MAX_ATTEMPTS
<1>3. \A k \in Jobs : job'[k].copy = c => k = j
  BY <1>1
<1>4. n.copy = c => queue'[c] # "sent"
  BY <1>1 DEF IInv, Fits
<1>5. CASE n.copy = c
  BY <1>1, <1>3, <1>4, <1>5 DEF Within, Spent
<1>6. CASE n.copy # c
  <2>1. accepted'[c] <= Spare(c)' => accepted'[c] <= Spare(c)' + MAX_ATTEMPTS
    BY <1>2 DEF MAX_ATTEMPTS
  <2> QED BY <1>1, <1>3, <1>6, <2>1 DEF Within
<1> QED BY <1>5, <1>6

(* What the hook's outcomes do to the retries.                                *)
LEMMA OutcomeNumbers ==
    ASSUME TypeOK, NEW c \in Copies, Sent(c) \/ Failed(c)
    PROVE  /\ \A o \in Copies : o # c => queue'[o] = queue[o] /\ retries'[o] = retries[o]
           /\ Sent(c) => retries'[c] = retries[c] /\ queue'[c] = "sent"
           /\ Failed(c) => retries'[c] = retries[c] + 1
BY DEF TypeOK, Sent, Failed

(* A failed copy has the attempts of one more send behind it, a sent one no   *)
(* more than the last one allows.                                             *)
LEMMA OutcomeWithin ==
    ASSUME IInv, IInv', NEW c \in Copies, Sent(c) \/ Failed(c),
           NEW s \in 0 .. 3, accepted[c] <= Spare(c) + s,
           UNCHANGED <<accepted, crashes>>
    PROVE  \/ accepted'[c] <= Spare(c)'
           \/ queue'[c] = "sent" /\ accepted'[c] <= Spare(c)' + MAX_ATTEMPTS
<1>1. /\ accepted[c] \in Nat /\ retries[c] \in Nat /\ crashes \in Nat
      /\ Spare(c) = 3 * (retries[c] + crashes)
      /\ Spare(c)' = 3 * (retries'[c] + crashes)
  BY NumbersType DEF CopyNumbers, Spare, MAX_ATTEMPTS
<1>2. CASE Sent(c)
  <2>1. retries'[c] = retries[c] /\ queue'[c] = "sent"
    BY <1>2, OutcomeNumbers DEF IInv
  <2>2. accepted[c] <= 3 * (retries[c] + crashes) + 3
    BY <1>1
  <2> QED BY <1>1, <2>1, <2>2 DEF MAX_ATTEMPTS
<1>3. CASE Failed(c)
  <2>1. retries'[c] = retries[c] + 1
    BY <1>3, OutcomeNumbers DEF IInv
  <2>2. accepted[c] <= 3 * ((retries[c] + 1) + crashes)
    BY <1>1
  <2> QED BY <1>1, <2>1, <2>2
<1> QED BY <1>2, <1>3

(* The steps of the hook that end without a call, and the first post.         *)
LEMMA OfferedWithin ==
    ASSUME IInv, IInv', AllWithin, NEW j \in Jobs, NEW c \in Copies,
           \/ SendUnconfigured(j, c) \/ SendFallback(j, c)
           \/ SendFailsFast(j, c) \/ SendMessage(j, c)
    PROVE  AllWithin'
<1>1. /\ Offered(j, c) /\ TypeOK /\ job[j] \in Job
      /\ UNCHANGED <<accepted, crashes>>
  BY DEF SendUnconfigured, SendFallback, SendFailsFast, SendMessage, cloudVars, IInv, TypeOK
<1>2. /\ job[j].copy = None /\ queue[c] = "not sent"
      /\ \A k \in Jobs : job[k].copy # c
      /\ c # None
  BY <1>1, Offering, SendingAssumption DEF Offered
<1>3. accepted[c] <= Spare(c) /\ accepted[c] \in Nat /\ crashes \in Nat /\ retries[c] \in Nat
  <2>1. CopyNumbers(c) /\ Within(c)
    BY NumbersType DEF AllWithin
  <2> QED BY <1>2, <2>1 DEF Within, CopyNumbers
<1>4. PICK d \in Job : d = DoneWith(j, c)
  BY <1>1, DoneWithFields
<1>5. d.copy = None
  BY <1>1, <1>4, DoneWithFields
<1>6. PICK a \in CfAccounts, s \in Session : a = CfAccount(c) /\ s = SessionFor(j, c)
  BY <1>1, SessionType
<1>7. CASE SendMessage(j, c)
  <2>1. PICK n : n = [job[j] EXCEPT !.pc = "post", !.copy = c, !.attempt = 1, !.sessions[a] = s]
    OBVIOUS
  <2>2. n.pc = "post" /\ n.copy = c /\ n.attempt = 1
    BY <1>1, <2>1 DEF Job
  <2>3. /\ job' = [job EXCEPT ![j] = n] /\ UNCHANGED retries
        /\ queue' = [queue EXCEPT ![c] = "sending"]
    BY <1>6, <1>7, <2>1 DEF SendMessage
  <2>4. accepted'[c] <= Spare(c)' + Spent(n)
    <3>1. Spare(c)' = Spare(c) /\ Spare(c) \in Nat /\ Spent(n) = 0
      BY <1>1, <1>3, <2>2, <2>3 DEF Spare, Spent, MAX_ATTEMPTS
    <3> QED BY <1>1, <1>3, <3>1
  <2>5. Within(c)'
    BY <1>2, <2>2, <2>3, <2>4, OwnWithin
  <2>6. \A o \in Copies : o # c =>
          accepted'[o] = accepted[o] /\ retries'[o] = retries[o] /\ queue'[o] = queue[o]
    BY <1>1, <2>3 DEF TypeOK
  <2>7. /\ job' = [job EXCEPT ![j] = n] /\ crashes' = crashes
        /\ job[j].copy \in {c, None} /\ n.copy \in {c, None}
    BY <1>1, <1>2, <2>2, <2>3
  <2> QED BY <2>5, <2>6, <2>7, OthersWithin
<1>8. CASE ~SendMessage(j, c)
  <2>1. Sent(c) \/ Failed(c)
    BY <1>8 DEF SendUnconfigured, SendFallback, SendFailsFast
  <2>2. \E n : job' = [job EXCEPT ![j] = n] /\ n.copy = None
    <3>1. CASE SendUnconfigured(j, c) \/ SendFallback(j, c)
      BY <1>4, <1>5, <3>1 DEF SendUnconfigured, SendFallback
    <3>2. CASE SendFailsFast(j, c)
      <4>1. With(d, a, s).copy = None
        BY <1>4, <1>5, WithSession
      <4>2. job' = [job EXCEPT ![j] = With(d, a, s)]
        BY <1>4, <1>6, <3>2 DEF SendFailsFast, With
      <4> QED BY <4>1, <4>2
    <3> QED BY <1>8, <3>1, <3>2
  <2>3. PICK n : job' = [job EXCEPT ![j] = n] /\ n.copy = None
    BY <2>2
  <2>4. accepted[c] <= Spare(c) + 0 /\ 0 \in 0 .. 3
    BY <1>3 DEF Spare, MAX_ATTEMPTS
  <2>5. Within(c)'
    BY <1>1, <1>2, <2>1, <2>3, <2>4, OutcomeWithin, OwnWithin
  <2>6. \A o \in Copies : o # c =>
          accepted'[o] = accepted[o] /\ retries'[o] = retries[o] /\ queue'[o] = queue[o]
    BY <1>1, <2>1, OutcomeNumbers
  <2> QED BY <1>1, <1>2, <1>3, <2>3, <2>5, <2>6, OthersWithin
<1> QED BY <1>7, <1>8

(* The steps of `_post`: each attempt is counted before it is posted, and the *)
(* attempts of a copy that failed are counted again as a retry.               *)
LEMMA PostWithin ==
    ASSUME IInv, IInv', AllWithin, NEW j \in Jobs,
           \/ CloudflareAnswers(j) \/ Sleep(j) \/ Wake(j)
           \/ Return(j) \/ RaiseFatal(j) \/ Raise(j)
    PROVE  AllWithin'
<1>1. Posting(job[j])
  BY DEF CloudflareAnswers, Sleep, Wake, Return, RaiseFatal, Raise, Answered, Posting
<1>2. PICK c \in Copies : c = job[j].copy
  BY <1>1, Handling
<1>3. /\ job[j] \in Job /\ TypeOK /\ c # None /\ \A k \in Jobs \ {j} : job[k].copy # c
      /\ job[j].attempt \in 0 .. 3 /\ accepted[c] \in Nat /\ Spare(c) \in Nat
  <2>1. CopyNumbers(c)
    BY NumbersType
  <2>2. Spare(c) \in Nat
    BY <2>1 DEF CopyNumbers, Spare, MAX_ATTEMPTS
  <2> QED BY <1>1, <1>2, <2>1, <2>2, Handling DEF IInv, CopyNumbers
<1>4. accepted[c] <= Spare(c) + Spent(job[j])
  BY <1>2 DEF AllWithin, Within
<1>5. ASSUME NEW n, n.copy = c, UNCHANGED <<queue, retries, crashes>>,
             job' = [job EXCEPT ![j] = n],
             accepted'[c] <= Spare(c) + Spent(n),
             \A o \in Copies : o # c => accepted'[o] = accepted[o]
      PROVE  AllWithin'
  <2>1. Spare(c)' = Spare(c)
    BY <1>5 DEF Spare
  <2>2. accepted'[c] <= Spare(c)' + Spent(n)
    BY <1>5, <2>1, Zenon
  <2>3. Within(c)'
    BY <1>3, <1>5, <2>2, OwnWithin
  <2>4. /\ crashes' = crashes /\ job[j].copy \in {c, None} /\ n.copy \in {c, None}
        /\ \A o \in Copies : o # c =>
             accepted'[o] = accepted[o] /\ retries'[o] = retries[o] /\ queue'[o] = queue[o]
    BY <1>2, <1>5
  <2> QED BY <1>5, <2>3, <2>4, OthersWithin
<1>6. CASE CloudflareAnswers(j)
  <2>1. PICK k \in Answers \cup {"fatal"}, took \in {0, 1} :
          /\ job[j].pc = "post"
          /\ accepted' = [accepted EXCEPT ![c] = @ + took]
          /\ job' = [job EXCEPT ![j].pc = "answer", ![j].answer = k]
          /\ UNCHANGED <<queueVars, valid, token, crashes>>
    BY <1>2, <1>6, Zenon DEF CloudflareAnswers
  <2>2. k \in AnswerKinds \cup {"fatal"} /\ job' = [job EXCEPT ![j] = GivenAnswer(job[j], k)]
    BY <2>1, SendingAssumption DEF GivenAnswer
  <2>3. PICK n : n = GivenAnswer(job[j], k)
    OBVIOUS
  <2>4. n.pc = "answer" /\ n.copy = c /\ n.attempt = job[j].attempt
    BY <1>2, <1>3, <2>2, <2>3, PostFields
  <2>5. /\ accepted'[c] = accepted[c] + took
        /\ \A o \in Copies : o # c => accepted'[o] = accepted[o]
    BY <1>3, <2>1 DEF TypeOK
  <2>6. Spent(n) = job[j].attempt /\ Spent(job[j]) = job[j].attempt - 1
    BY <2>1, <2>4 DEF Spent
  <2>7. accepted'[c] <= Spare(c) + Spent(n)
    BY <1>3, <1>4, <2>5, <2>6
  <2> QED BY <1>5, <2>1, <2>2, <2>3, <2>4, <2>5, <2>7 DEF queueVars
<1>7. CASE Sleep(j) \/ Wake(j)
  <2>1. /\ UNCHANGED <<queue, retries, accepted, crashes>>
        /\ accepted'[c] = accepted[c] /\ \A o \in Copies : accepted'[o] = accepted[o]
    BY <1>7 DEF Sleep, Wake, queueVars, cloudVars
  <2>2. \E n : /\ job' = [job EXCEPT ![j] = n]
               /\ n.copy = c /\ Spent(n) = Spent(job[j])
    <3>1. CASE Sleep(j)
      <4>1. job[j].pc = "answer" /\ job' = [job EXCEPT ![j] = Asleep(job[j])]
        BY <3>1 DEF Sleep, Answered, Asleep
      <4>2. PICK n : n = Asleep(job[j])
        OBVIOUS
      <4>3. n.pc = "sleep" /\ n.copy = c /\ n.attempt = job[j].attempt
        BY <1>2, <1>3, <4>2, PostFields
      <4> QED BY <4>1, <4>2, <4>3 DEF Spent
    <3>2. CASE Wake(j)
      <4>1. job[j].pc = "sleep" /\ job' = [job EXCEPT ![j] = Awake(job[j])]
        BY <3>2 DEF Wake, Awake
      <4>2. PICK n : n = Awake(job[j])
        OBVIOUS
      <4>3. n.pc = "post" /\ n.copy = c /\ n.attempt = job[j].attempt + 1
        BY <1>2, <1>3, <4>2, PostFields
      <4>4. Spent(n) = Spent(job[j])
        BY <1>3, <4>1, <4>3 DEF Spent
      <4> QED BY <4>1, <4>2, <4>3, <4>4
    <3> QED BY <1>7, <3>1, <3>2
  <2>3. PICK n : job' = [job EXCEPT ![j] = n] /\ n.copy = c /\ Spent(n) = Spent(job[j])
    BY <2>2
  <2>4. accepted'[c] <= Spare(c) + Spent(n)
    BY <1>4, <2>1, <2>3, Zenon
  <2> QED BY <1>5, <2>1, <2>3, <2>4
<1>8. CASE Return(j) \/ RaiseFatal(j) \/ Raise(j)
  <2>1. accepted[c] <= Spare(c) + job[j].attempt
    <3>1. job[j].pc = "answer"
      BY <1>8 DEF Return, RaiseFatal, Raise, Answered
    <3> QED BY <1>4, <3>1 DEF Spent
  <2>2. PICK d \in Job : d = DoneWith(j, c)
    BY <1>3, DoneWithFields
  <2>3. d.copy = None /\ d.sessions = job[j].sessions
    BY <1>3, <2>2, DoneWithFields
  <2>4. \E n : job' = [job EXCEPT ![j] = n] /\ n.copy = None
    <3>1. CASE Return(j) \/ Raise(j)
      BY <1>2, <2>2, <2>3, <3>1 DEF Return, Raise
    <3>2. CASE RaiseFatal(j)
      <4>1. PICK a \in CfAccounts : a = CfAccount(c)
        BY <1>3, SessionType
      <4>2. d.sessions[a] # None
        BY <1>1, <1>2, <2>3, <4>1, Handling DEF Fits
      <4>3. RefusedBy(d, a).copy = None
        BY <2>3, <4>2, RefusedFields
      <4>4. job' = [job EXCEPT ![j] = RefusedBy(d, a)]
        BY <1>2, <2>2, <3>2, <4>1 DEF RaiseFatal, RefusedBy
      <4> QED BY <4>3, <4>4
    <3> QED BY <1>8, <3>1, <3>2
  <2>5. PICK n : job' = [job EXCEPT ![j] = n] /\ n.copy = None
    BY <2>4
  <2>6. (Sent(c) \/ Failed(c)) /\ UNCHANGED <<accepted, crashes>>
    BY <1>2, <1>8 DEF Return, RaiseFatal, Raise, cloudVars
  <2>7. Within(c)'
    BY <1>3, <2>1, <2>5, <2>6, OutcomeWithin, OwnWithin
  <2>8. /\ crashes' = crashes /\ job[j].copy \in {c, None} /\ n.copy \in {c, None}
        /\ \A o \in Copies : o # c =>
             accepted'[o] = accepted[o] /\ retries'[o] = retries[o] /\ queue'[o] = queue[o]
    BY <1>2, <1>3, <2>5, <2>6, OutcomeNumbers
  <2> QED BY <2>5, <2>7, <2>8, OthersWithin
<1> QED BY <1>6, <1>7, <1>8

(* A batch that begins or ends has no copy under way.                         *)
LEMMA BatchWithin ==
    ASSUME IInv, IInv', AllWithin, NEW j \in Jobs, BeginBatch(j) \/ EndBatch(j)
    PROVE  AllWithin'
<1>1. /\ job[j].pc \in {"off", "batch"} /\ Fits(job[j], queue) /\ None \notin Copies
      /\ \A o \in Copies :
           accepted'[o] = accepted[o] /\ retries'[o] = retries[o] /\ queue'[o] = queue[o]
  BY SendingAssumption DEF BeginBatch, EndBatch, queueVars, cloudVars, IInv
<1>2. job[j].copy = None
  BY <1>1 DEF Fits, Posting
<1>3. PICK n : job' = [job EXCEPT ![j] = n] /\ n.copy = None
  BY NewJobFields DEF BeginBatch, EndBatch
<1>4. crashes' = crashes
  BY DEF BeginBatch, EndBatch
<1> QED BY <1>1, <1>2, <1>3, <1>4, OthersWithin

(* A death may take an attempt with it, and is counted for all of them.       *)
LEMMA CrashWithin ==
    ASSUME IInv, IInv', AllWithin, NEW j \in Jobs, Crash(j)
    PROVE  AllWithin'
<1>1. /\ job' = [job EXCEPT ![j] = NewJob] /\ NewJob.copy = None
      /\ crashes' = crashes + 1 /\ UNCHANGED <<queue, retries>>
      /\ None \notin Copies /\ Fits(job[j], queue) /\ TypeOK
  BY NewJobFields, SendingAssumption DEF Crash, queueVars, IInv
<1>2. PICK took \in {0, 1} :
        /\ took = 1 => job[j].pc = "post"
        /\ accepted' = IF took = 1 THEN [accepted EXCEPT ![job[j].copy] = @ + 1] ELSE accepted
  BY Zenon DEF Crash
<1>3. CASE Posting(job[j])
  <2>1. PICK c \in Copies : c = job[j].copy
    BY <1>3, Handling
  <2>2. /\ \A k \in Jobs \ {j} : job[k].copy # c
        /\ CopyNumbers(c) /\ accepted[c] <= Spare(c) + Spent(job[j])
    BY <1>3, <2>1, Handling, NumbersType DEF AllWithin, Within
  <2>3. /\ accepted[c] \in Nat /\ Spare(c) \in Nat /\ Spare(c)' = Spare(c) + 3
        /\ job[j].attempt \in 0 .. 3
    BY <1>1, <2>2 DEF CopyNumbers, Spare, MAX_ATTEMPTS
  <2>4. accepted'[c] <= Spare(c)'
    <3>1. CASE took = 1
      <4>1. accepted'[c] = accepted[c] + 1 /\ Spent(job[j]) = job[j].attempt - 1
        BY <1>1, <1>2, <2>1, <3>1 DEF TypeOK, Spent
      <4> QED BY <2>2, <2>3, <4>1
    <3>2. CASE took = 0
      <4>1. accepted'[c] = accepted[c] /\ Spent(job[j]) \in -1 .. 3
        BY <1>2, <2>3, <3>2 DEF Spent
      <4> QED BY <2>2, <2>3, <4>1
    <3> QED BY <3>1, <3>2
  <2>5. NewJob.copy # c
    BY <1>1
  <2>6. Within(c)'
    BY <1>1, <2>2, <2>4, <2>5, OwnWithin
  <2>7. \A o \in Copies : o # c =>
          accepted'[o] = accepted[o] /\ retries'[o] = retries[o] /\ queue'[o] = queue[o]
    BY <1>1, <1>2, <2>1 DEF TypeOK
  <2>8. job[j].copy \in {c, None} /\ NewJob.copy \in {c, None}
    BY <1>1, <2>1
  <2> QED BY <1>1, <2>6, <2>7, <2>8, OthersWithin
<1>4. CASE ~Posting(job[j])
  <2>1. job[j].copy = None /\ accepted' = accepted
    BY <1>1, <1>2, <1>4 DEF Fits, Posting
  <2> QED BY <1>1, <2>1, OthersWithin
<1> QED BY <1>3, <1>4

(* What no job does leaves every copy within bounds.                          *)
LEMMA StillWithin ==
    ASSUME AllWithin, UNCHANGED <<job, retries, accepted, crashes>>,
           \A c \in Copies : queue'[c] = "sent" <=> queue[c] = "sent"
    PROVE  AllWithin'
<1>1. \A c \in Copies : Spare(c)' = Spare(c)
  BY DEF Spare
<1>2. ASSUME NEW c \in Copies, Within(c) PROVE Within(c)'
  BY <1>1, <1>2, Zenon DEF Within
<1> QED BY <1>2, Zenon DEF AllWithin

(* Every step keeps the copies within bounds.                                 *)
LEMMA NextWithin == IInv /\ AllWithin /\ [Next]_vars => AllWithin'
<1> SUFFICES ASSUME IInv, AllWithin, [Next]_vars PROVE AllWithin'
  OBVIOUS
<1>1. IInv'
  BY NextIInv
<1>2. CASE \E j \in Jobs : BeginBatch(j) \/ EndBatch(j) \/ Send(j) \/ CloudflareAnswers(j) \/ Crash(j)
  BY <1>1, <1>2, BatchWithin, OfferedWithin, PostWithin, CrashWithin, Zenon DEF Send
<1>3. CASE \E c \in Copies : Requeue(c)
  <2>1. PICK c \in Copies : Requeue(c)
    BY <1>3
  <2>2. /\ UNCHANGED <<job, retries, accepted, crashes>>
        /\ \A o \in Copies : queue'[o] = "sent" <=> queue[o] = "sent"
    BY <2>1 DEF Requeue, cloudVars, IInv, TypeOK
  <2> QED BY <2>2, StillWithin
<1>4. CASE (\E d \in Domains : Revoke(d) \/ ReplaceToken(d)) \/ Done \/ UNCHANGED vars
  <2>1. UNCHANGED <<job, retries, accepted, crashes, queue>>
    BY <1>4 DEF Revoke, ReplaceToken, Done, vars, queueVars, cloudVars
  <2> QED BY <2>1, StillWithin
<1> QED BY <1>2, <1>3, <1>4 DEF Next

(* A recipient gets at most MAX_ATTEMPTS copies for the first send, for each  *)
(* retry of the Email Queue and for each death of a job, for any number of    *)
(* jobs, retries and deaths: no answer of Cloudflare, and no loss of one,     *)
(* makes `_post` and the queue send without end.                              *)
THEOREM DuplicatesStayBounded == Spec => []DuplicatesBounded
<1>1. IInv /\ AllWithin => DuplicatesBounded
  <2> SUFFICES ASSUME IInv, AllWithin, NEW c \in Copies
               PROVE  accepted[c] <= MAX_ATTEMPTS * (retries[c] + crashes + 1)
    BY DEF DuplicatesBounded
  <2>1. CopyNumbers(c) /\ Within(c)
    BY NumbersType DEF AllWithin
  <2>2. /\ accepted[c] \in Nat /\ Spare(c) \in Nat
        /\ MAX_ATTEMPTS * (retries[c] + crashes + 1) = Spare(c) + 3
    BY <2>1 DEF CopyNumbers, Spare, MAX_ATTEMPTS
  <2>3. CASE \E j \in Jobs : job[j].copy = c
    <3>1. PICK j \in Jobs : job[j].copy = c
      BY <2>3
    <3>2. accepted[c] <= Spare(c) + Spent(job[j]) /\ job[j].attempt \in 0 .. 3
      BY <2>1, <3>1 DEF Within, CopyNumbers
    <3>3. Spent(job[j]) \in -1 .. 3
      BY <3>2 DEF Spent
    <3> QED BY <2>2, <3>2, <3>3
  <2>4. CASE \A j \in Jobs : job[j].copy # c
    <3>1. accepted[c] <= Spare(c) \/ accepted[c] <= Spare(c) + 3
      BY <2>1, <2>4 DEF Within, MAX_ATTEMPTS
    <3> QED BY <2>2, <3>1
  <2> QED BY <2>3, <2>4
<1> QED BY <1>1, InitWithin, NextWithin, Invariance, PTL DEF Spec
=============================================================================
