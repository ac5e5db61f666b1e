----------------------- MODULE InboundWebhook_proofs -----------------------
(***************************************************************************)
(* Proofs about InboundWebhook, for every set of accounts, deliveries and   *)
(* workers, every kind of message, every bound and every set of faults.     *)
(***************************************************************************)
EXTENDS InboundWebhook, TLAPS

(* The initial state has the declared types.                                  *)
LEMMA InitTypeOK == Init => TypeOK
BY ConstantsAssumption DEF Init, TypeOK, Attempt

(* Every step keeps the types: the shape of requests, of what the database     *)
(* holds and of what the relay knows.                                         *)
LEMMA NextTypeOK == TypeOK /\ [Next]_vars => TypeOK'
<1> SUFFICES ASSUME TypeOK, [Next]_vars PROVE TypeOK'
  OBVIOUS
<1> USE ConstantsAssumption DEF TypeOK, Attempt, Codes, Permanent, dbVars, configVars, relayVars
<1>1. ASSUME NEW d \in Deliveries, NEW w \in Workers, Post(d, w) PROVE TypeOK'
  BY <1>1 DEF Post, Request, Answer, NoAnswer
<1>2. ASSUME NEW d \in Deliveries, TimeOut(d) \/ GiveUp(d) PROVE TypeOK'
  BY <1>2 DEF TimeOut, GiveUp
<1>3. ASSUME NEW w \in Workers, Receive(w) PROVE TypeOK'
  BY <1>3 DEF Receive, OutcomeOf, Awaited, Request, Answer
<1>4. ASSUME NEW w \in Workers, Crash(w) PROVE TypeOK'
  BY <1>4 DEF Crash, Awaited
<1>5. ASSUME Configure PROVE TypeOK'
  <2>1. ASSUME NEW a \in Accounts, RotateSecret(a) PROVE TypeOK'
    BY <2>1 DEF RotateSecret
  <2>2. ASSUME NEW a \in Accounts, UpdateRelaySecret(a) PROVE TypeOK'
    BY <2>2 DEF UpdateRelaySecret
  <2>3. ASSUME NEW a \in Accounts, ChangeAccount(a) PROVE TypeOK'
    BY <2>3 DEF ChangeAccount
  <2>4. CASE ChangeRelayUser
    BY <2>4 DEF ChangeRelayUser
  <2> QED BY <1>5, <2>1, <2>2, <2>3, <2>4 DEF Configure
<1>6. ASSUME NEW w \in Workers, NEW code \in Codes, NEW ref \in Comm \cup {None},
             Respond(w, code, ref), pc[w] # "idle"
      PROVE  /\ pc' \in [Workers -> {"idle", "received", "processed", "stored", "failed", "answered"}]
             /\ req' \in [Workers -> Request \cup {None}]
             /\ \A v \in Workers :
                  /\ pc'[v] # "idle" => req'[v] \in Request
                  /\ pc'[v] \in {"processed", "stored"} => req'[v].comm \in Comm
                  /\ pc'[v] = "failed" => req'[v].failedAt # None
  BY <1>6 DEF Respond, Request, Answer
<1>7. ASSUME NEW w \in Workers, Handle(w) PROVE TypeOK'
  <2>1. CASE Refuse(w) \/ RefuseLate(w) \/ Escape(w) \/ NotReady(w) \/ IgnoreOwnMail(w) \/ DocumentRefuses(w)
    <3>1. PICK code \in Codes : Respond(w, code, None)
      BY <2>1 DEF Refuse, RefuseLate, Escape, NotReady, IgnoreOwnMail, DocumentRefuses, Refusal
    <3> QED BY <2>1, <3>1, <1>6 DEF Refuse, RefuseLate, Escape, NotReady, IgnoreOwnMail, DocumentRefuses, Accepted, Delivering, Processing
  <2>2. CASE AnswerExisting(w)
    BY <2>2, <1>6 DEF AnswerExisting, KnownRelayId, Accepted, Delivering
  <2>3. CASE ProcessKnown(w)
    BY <2>3 DEF ProcessKnown, KnownMessageId, Request, Accepted, Delivering, Processing
  <2>4. CASE ProcessNew(w)
    <3> DEFINE c == [of |-> req[w].of, attempt |-> req[w].attempt, relayId |-> None]
    <3>1. pc[w] = "received" /\ req[w] \in Request
      BY <2>4 DEF ProcessNew, Accepted, Delivering, Processing
    <3>2. c \in Comm
      BY <3>1 DEF Request, Comm
    <3> HIDE DEF c
    <3>3. /\ pc' = [pc EXCEPT ![w] = "processed"]
          /\ req' = [req EXCEPT ![w].new = TRUE, ![w].comm = c]
          /\ UNCHANGED <<dbVars, configVars, relayVars>>
      BY <2>4 DEF ProcessNew, c
    <3>4. req' = [req EXCEPT ![w] = [req[w] EXCEPT !.new = TRUE, !.comm = c]]
      BY <3>3
    <3>5. [req[w] EXCEPT !.new = TRUE, !.comm = c] \in Request
      BY <3>1, <3>2 DEF Request
    <3> QED BY <3>2, <3>3, <3>4, <3>5
  <2>5. CASE ProcessFails(w) \/ FollowUpFails(w)
    BY <2>5 DEF ProcessFails, FollowUpFails, Fail, Request, Accepted, Delivering, Processing
  <2>6. CASE Commit(w)
    <3>1. pc[w] = "processed" /\ req[w] \in Request /\ req[w].comm \in Comm
      BY <2>6 DEF Commit
    <3>2. Stamped(w) \in Comm
      BY <3>1 DEF Stamped, Comm, Request
    <3>3. [req[w] EXCEPT !.comm = Stamped(w)] \in Request
      BY <3>1, <3>2 DEF Request
    <3> QED BY <2>6, <3>1, <3>2, <3>3 DEF Commit
  <2>7. CASE FollowUp(w) \/ FollowUpRefused(w)
    BY <2>7, <1>6 DEF FollowUp, FollowUpRefused, Created, Request
  <2>8. CASE StoreUnhandled(w) \/ StoreUnhandledFails(w)
    <3>1. pc[w] = "failed" /\ req[w] \in Request /\ req[w].failedAt \in {"process", "followUp"}
      BY <2>8 DEF StoreUnhandled, StoreUnhandledFails, Request
    <3>2. Created(w) \subseteq Comm
      BY <3>1 DEF Created, Request
    <3>3. Respond(w, 500, None)
      BY <2>8 DEF StoreUnhandled, StoreUnhandledFails
    <3> QED BY <2>8, <3>1, <3>2, <3>3, <1>6 DEF StoreUnhandled, StoreUnhandledFails, Request
  <2> QED BY <1>7, <2>1, <2>2, <2>3, <2>4, <2>5, <2>6, <2>7, <2>8 DEF Handle
<1>8. CASE UNCHANGED vars
  BY <1>8 DEF vars
<1> QED BY <1>1, <1>2, <1>3, <1>4, <1>5, <1>7, <1>8 DEF Next, Done, vars
-----------------------------------------------------------------------------
(* Steps that touch the request of one worker only.                         *)

Local(w) ==
    /\ pc[w] # "idle"
    /\ pc' = [pc EXCEPT ![w] = pc'[w]]
    /\ req' = [req EXCEPT ![w] = req'[w]]
    /\ SameAttempt(req'[w], req[w]) /\ req'[w].signed = req[w].signed
    /\ UNCHANGED <<dbVars, configVars, relayVars>>

(* A request keeps its attempt and signature from step to step, so attempts    *)
(* stay apart and signatures as they were.                                    *)
LEMMA FrameStep ==
    ASSUME TypeOK, Apart, Steady, NEW w \in Workers, pc[w] # "idle",
           pc' = [pc EXCEPT ![w] = pc'[w]], req' = [req EXCEPT ![w] = req'[w]],
           SameAttempt(req'[w], req[w]), req'[w].signed = req[w].signed,
           UNCHANGED configVars
    PROVE  Apart' /\ Steady'
BY DEF TypeOK, Apart, Steady, SameAttempt, configVars

(* Such a step keeps the invariant when it keeps the worker's own part of it: *)
(* the other workers see the same database.                                   *)
LEMMA LocalStep ==
    ASSUME IInv, TypeOK', NEW w \in Workers, Local(w), Sound(w)'
    PROVE  IInv'
<1> USE DEF IInv, TypeOK, Local, dbVars, configVars, relayVars
<1>1. ASSUME NEW v \in Workers, v # w PROVE Sound(v)'
  <2>1. pc'[v] = pc[v] /\ req'[v] = req[v]
    BY <1>1
  <2> QED BY <1>1, <2>1 DEF Sound, SameAttempt, Refusable, Orderly
<1>2. Apart' /\ Steady'
  BY FrameStep
<1>3. Recorded' /\ (RelayWaits => OnePerDelivery')
  BY DEF Recorded, OnePerDelivery
<1>4. DeliveredIsStored' /\ FailedLeavesNothing' /\ (Orderly => TransientNeverParks)'
  BY DEF DeliveredIsStored, FailedLeavesNothing, TransientNeverParks, Refusable, Orderly
<1> QED BY <1>1, <1>2, <1>3, <1>4

(* An answer that does not touch the database keeps the invariant when it is  *)
(* true: a refusal has a lasting reason and nothing stored, a 200 names a     *)
(* stored Communication of the message.                                       *)
LEMMA AnswerStep ==
    ASSUME IInv, TypeOK', NEW w \in Workers, NEW code \in Codes, NEW ref \in Comm \cup {None},
           pc[w] # "idle", Respond(w, code, ref), UNCHANGED <<dbVars, configVars, relayVars>>,
           code \in Permanent =>
             /\ Orderly => Refusable(req[w].of)
             /\ "followUpRefused" \notin Faults => \A c \in comms : ~SameAttempt(c, req[w]),
           code = 200 =>
             IF Kind[req[w].of] = "ownMail" THEN ref = None
             ELSE ref \in comms /\ (ref.of = req[w].of \/ SameMessage(req[w].of, ref.of))
    PROVE  IInv'
<1>1. req[w] \in Request /\ req[w].attempt <= attempts[req[w].of]
  BY DEF IInv, TypeOK, Sound
<1>2. /\ pc'[w] = "answered"
      /\ req'[w] = [req[w] EXCEPT !.answer = [code |-> code, ref |-> ref]]
      /\ pc' = [pc EXCEPT ![w] = pc'[w]]
      /\ req' = [req EXCEPT ![w] = req'[w]]
  BY DEF IInv, TypeOK, Respond
<1>3. /\ req'[w].of = req[w].of /\ req'[w].attempt = req[w].attempt /\ req'[w].signed = req[w].signed
      /\ req'[w].answer.code = code /\ req'[w].answer.ref = ref
  BY <1>1, <1>2 DEF Request
<1>4. Local(w)
  BY <1>2, <1>3 DEF Local, SameAttempt
<1>5. Sound(w)'
  BY <1>1, <1>2, <1>3 DEF Sound, SameAttempt, dbVars, relayVars, Refusable, Orderly
<1> QED BY <1>4, <1>5, LocalStep

(* Nothing is stored, posted or under way at first: the invariant holds.      *)
LEMMA InitIInv == Init => IInv
<1> SUFFICES ASSUME Init PROVE IInv
  OBVIOUS
<1>1. TypeOK
  BY InitTypeOK
<1>2. Steady
  BY <1>1 DEF Init, Steady, TypeOK
<1>3. /\ \A w \in Workers : Sound(w)
      /\ Apart
  BY DEF Init, Sound, Apart
<1> QED
  BY <1>1, <1>2, <1>3 DEF Init, IInv, Recorded, OnePerDelivery, DeliveredIsStored,
     FailedLeavesNothing, TransientNeverParks

(* The answers of `inbound` and `_deliver` that change nothing in the database *)
(* are true ones.                                                            *)
LEMMA AnswersIInv ==
    ASSUME IInv, TypeOK', NEW w \in Workers,
           \/ Refuse(w) \/ RefuseLate(w) \/ Escape(w) \/ NotReady(w) \/ AnswerExisting(w)
           \/ IgnoreOwnMail(w) \/ DocumentRefuses(w) \/ FollowUpRefused(w)
           \/ StoreUnhandledFails(w)
    PROVE  IInv'
<1> USE DEF Codes, Permanent
<1>0. TypeOK /\ Sound(w) /\ Steady /\ Recorded
  BY DEF IInv
<1>1. CASE Refuse(w)
  <2>1. pc[w] = "received" /\ req[w] \in Request
    BY <1>0, <1>1 DEF Refuse, TypeOK
  <2>2. Refusal(w) \in {401, 413, 422} /\ Refusable(req[w].of)
    BY <1>0, <1>1, <2>1, ConstantsAssumption
       DEF Refuse, Refusal, Refusable, Orderly, FindsAccount, Verifies, Steady, Request
  <2> QED BY <1>0, <1>1, <2>1, <2>2, AnswerStep DEF Refuse, Sound
<1>2. CASE RefuseLate(w)
  BY <1>0, <1>2, AnswerStep DEF RefuseLate, Orderly, Sound
<1>3. CASE NotReady(w)
  BY <1>3, AnswerStep DEF NotReady, Accepted
<1>4. CASE AnswerExisting(w)
  <2>1. pc[w] = "received" /\ req[w] \in Request
    BY <1>0, <1>4 DEF AnswerExisting, Delivering, Accepted, TypeOK
  <2>2. PICK c \in comms : Respond(w, 200, c) /\ c.relayId = req[w].of /\ req[w].of \in Identified
    BY <1>4 DEF AnswerExisting, KnownRelayId
  <2>3. c.of = req[w].of
    BY <1>0, <2>1, <2>2, ConstantsAssumption DEF Recorded
  <2>4. Kind[c.of] # "ownMail" /\ c \in Comm
    BY <1>0 DEF Recorded, TypeOK
  <2> QED BY <1>4, <2>1, <2>2, <2>3, <2>4, AnswerStep DEF AnswerExisting
<1>5. CASE IgnoreOwnMail(w)
  BY <1>5, AnswerStep DEF IgnoreOwnMail, Processing, Delivering, Accepted
<1>6. CASE DocumentRefuses(w)
  BY <1>0, <1>6, AnswerStep DEF DocumentRefuses, Processing, Delivering, Accepted, Refusable, Orderly, Sound
<1>7. CASE FollowUpRefused(w)
  BY <1>0, <1>7, AnswerStep DEF FollowUpRefused, Refusable, Orderly, Sound, SameAttempt
<1>8. CASE StoreUnhandledFails(w)
  BY <1>8, AnswerStep DEF StoreUnhandledFails
<1>9. CASE Escape(w)
  BY <1>0, <1>9, AnswerStep DEF Escape, Orderly, Sound
<1> QED BY <1>1, <1>2, <1>3, <1>4, <1>5, <1>6, <1>7, <1>8, <1>9

(* Inside `_deliver`: what the core finds or makes, and what fails, stays with *)
(* the request until it is committed.                                         *)
LEMMA ProcessIInv ==
    ASSUME IInv, TypeOK', NEW w \in Workers,
           ProcessKnown(w) \/ ProcessNew(w) \/ ProcessFails(w) \/ FollowUpFails(w)
    PROVE  IInv'
<1>0. TypeOK /\ Sound(w) /\ Recorded /\ pc[w] # "idle" /\ req[w] \in Request
  BY DEF IInv, TypeOK, ProcessKnown, ProcessNew, ProcessFails, FollowUpFails, Processing, Delivering, Accepted
<1>1. CASE ProcessKnown(w)
  <2>1. pc[w] = "received" /\ Kind[req[w].of] # "ownMail"
    BY <1>1 DEF ProcessKnown, Processing, Delivering, Accepted
  <2>2. PICK c \in KnownMessageId(req[w].of) : req' = [req EXCEPT ![w].comm = c]
    BY <1>1 DEF ProcessKnown
  <2>3. c \in comms /\ SameMessage(req[w].of, c.of)
    BY <2>2 DEF KnownMessageId, SameMessage
  <2>4. /\ req'[w] = [req[w] EXCEPT !.comm = c] /\ req' = [req EXCEPT ![w] = req'[w]]
        /\ pc'[w] = "processed" /\ pc' = [pc EXCEPT ![w] = pc'[w]]
    BY <1>0, <1>1, <2>2 DEF ProcessKnown, TypeOK
  <2>5. /\ req'[w].of = req[w].of /\ req'[w].attempt = req[w].attempt
        /\ req'[w].signed = req[w].signed /\ req'[w].comm = c /\ req'[w].new = req[w].new
    BY <1>0, <2>4 DEF Request
  <2>6. Local(w)
    BY <1>0, <1>1, <2>4, <2>5 DEF Local, SameAttempt, ProcessKnown
  <2>7. Sound(w)'
    BY <1>0, <1>1, <2>1, <2>3, <2>4, <2>5 DEF Sound, SameAttempt, SameMessage, ProcessKnown, dbVars, relayVars
  <2> QED BY <2>6, <2>7, LocalStep
<1>2. CASE ProcessNew(w)
  <2> DEFINE c == [of |-> req[w].of, attempt |-> req[w].attempt, relayId |-> None]
  <2>1. pc[w] = "received" /\ Kind[req[w].of] # "ownMail"
    BY <1>2 DEF ProcessNew, Processing, Delivering, Accepted
  <2>2. c.of = req[w].of /\ c.attempt = req[w].attempt /\ c.relayId = None
    OBVIOUS
  <2>3. UNCHANGED <<dbVars, configVars, relayVars>>
    BY <1>2 DEF ProcessNew
  <2>4. pc' = [pc EXCEPT ![w] = "processed"] /\ req' = [req EXCEPT ![w].new = TRUE, ![w].comm = c]
    BY <1>2 DEF ProcessNew
  <2>5. req[w].of \in Traceable => \A e \in comms : e.of # req[w].of
    BY <1>0, <1>2, ConstantsAssumption
       DEF ProcessNew, Processing, KnownRelayId, KnownMessageId, Traceable, Recorded, TypeOK, Comm
  <2> HIDE DEF c
  <2>6. /\ req'[w] = [req[w] EXCEPT !.new = TRUE, !.comm = c] /\ req' = [req EXCEPT ![w] = req'[w]]
        /\ pc'[w] = "processed" /\ pc' = [pc EXCEPT ![w] = pc'[w]]
    <3>1. /\ req \in [Workers -> Request \cup {None}]
          /\ pc \in [Workers -> {"idle", "received", "processed", "stored", "failed", "answered"}]
      BY <1>0 DEF TypeOK
    <3>2. pc'[w] = "processed" /\ pc' = [pc EXCEPT ![w] = pc'[w]]
      BY <3>1, <2>4
    <3>3. /\ req'[w] = [req[w] EXCEPT !.new = TRUE, !.comm = c]
          /\ req' = [req EXCEPT ![w] = req'[w]]
      BY <3>1, <2>4
    <3> QED BY <3>2, <3>3
  <2>7. /\ req'[w].of = req[w].of /\ req'[w].attempt = req[w].attempt
        /\ req'[w].signed = req[w].signed /\ req'[w].comm = c /\ req'[w].new = TRUE
    BY <1>0, <2>6 DEF Request
  <2>8. Local(w)
    BY <1>0, <2>3, <2>6, <2>7 DEF Local, SameAttempt
  <2>9. Sound(w)'
    BY <1>0, <2>1, <2>2, <2>3, <2>5, <2>6, <2>7 DEF Sound, SameAttempt, dbVars, relayVars
  <2> QED BY <2>8, <2>9, LocalStep
<1>3. ASSUME NEW call \in {"process", "followUp"}, Fail(w, call),
             call = "process" => pc[w] \in {"received", "processed"}
      PROVE  IInv'
  <2>1. /\ req'[w] = [req[w] EXCEPT !.failedAt = call, !.comm = None]
        /\ req' = [req EXCEPT ![w] = req'[w]]
        /\ pc'[w] = "failed" /\ pc' = [pc EXCEPT ![w] = pc'[w]]
    <3>1. /\ req \in [Workers -> Request \cup {None}]
          /\ pc \in [Workers -> {"idle", "received", "processed", "stored", "failed", "answered"}]
      BY <1>0 DEF TypeOK
    <3>2. pc'[w] = "failed" /\ pc' = [pc EXCEPT ![w] = pc'[w]]
      BY <1>3, <3>1 DEF Fail
    <3>3. /\ req'[w] = [req[w] EXCEPT !.failedAt = call, !.comm = None]
          /\ req' = [req EXCEPT ![w] = req'[w]]
      BY <1>3, <3>1 DEF Fail
    <3> QED BY <3>2, <3>3
  <2>2. /\ req'[w].of = req[w].of /\ req'[w].attempt = req[w].attempt
        /\ req'[w].signed = req[w].signed /\ req'[w].comm = None /\ req'[w].failedAt = call
    BY <1>0, <2>1 DEF Request
  <2>3. Local(w)
    BY <1>0, <1>3, <2>1, <2>2 DEF Local, SameAttempt, Fail
  <2>4. Sound(w)'
    <3>1. comms' = comms /\ attempts' = attempts
      BY <1>3 DEF Fail, dbVars, relayVars
    <3>2. req[w].attempt <= attempts[req[w].of]
      BY <1>0, <1>3 DEF Sound
    <3>3. call = "process" => \A c \in comms : ~SameAttempt(c, req[w])
      BY <1>0, <1>3 DEF Sound
    <3> QED BY <2>1, <2>2, <3>1, <3>2, <3>3 DEF Sound, SameAttempt
  <2> QED BY <2>3, <2>4, LocalStep
<1> QED BY <1>1, <1>2, <1>3 DEF ProcessFails, FollowUpFails, Processing, Delivering, Accepted

(* The first commit makes one Communication visible to every request.  It can  *)
(* be of no other attempt, and with a relay that waits of no other request's  *)
(* delivery.                                                                  *)
LEMMA CommitIInv ==
    ASSUME IInv, TypeOK', NEW w \in Workers, Commit(w)
    PROVE  IInv'
<1> DEFINE c == Stamped(w)
<1>0. /\ TypeOK /\ Sound(w) /\ Apart /\ Recorded /\ Steady
      /\ pc[w] = "processed" /\ req[w] \in Request /\ req[w].comm \in Comm
  BY DEF IInv, TypeOK, Commit
<1>1. /\ c \in Comm
      /\ c.of = req[w].comm.of /\ c.attempt = req[w].comm.attempt
      /\ ~req[w].new => c \in comms
      /\ req[w].new => /\ SameAttempt(c, req[w])
                       /\ c.relayId = IF c.of \in Identified THEN c.of ELSE None
  BY <1>0 DEF Stamped, Sound, SameAttempt, Comm, Request
<1> HIDE DEF c
<1>2. /\ comms' = comms \cup {c}
      /\ UNCHANGED <<followUps, unhandled, configVars, relayVars>>
      /\ pc'[w] = "stored" /\ pc' = [pc EXCEPT ![w] = "stored"]
      /\ req'[w] = [req[w] EXCEPT !.comm = c] /\ req' = [req EXCEPT ![w] = req'[w]]
  BY <1>0 DEF Commit, TypeOK, c
<1>3. /\ req'[w].of = req[w].of /\ req'[w].attempt = req[w].attempt
      /\ req'[w].signed = req[w].signed /\ req'[w].comm = c /\ req'[w].new = req[w].new
  BY <1>0, <1>2 DEF Request
<1>4. ASSUME NEW v \in Workers, v # w PROVE Sound(v)'
  <2>1. pc'[v] = pc[v] /\ req'[v] = req[v] /\ Sound(v)
    BY <1>0, <1>2, <1>4 DEF IInv, TypeOK
  <2>2. pc[v] # "idle" /\ req[w].new =>
          /\ ~SameAttempt(c, req[v])
          /\ RelayWaits => c.of # req[v].of
    BY <1>0, <1>1, <1>4 DEF Apart, SameAttempt
  <2>3. \A e \in comms' : e \in comms \/ (e = c /\ req[w].new)
    BY <1>1, <1>2
  <2> QED BY <1>2, <2>1, <2>2, <2>3 DEF Sound, SameAttempt, relayVars, SameMessage, Refusable, Orderly
<1>5. Sound(w)'
  <2>1. /\ req[w].attempt <= attempts[req[w].of] /\ Kind[req[w].of] # "ownMail"
        /\ ~req[w].new => SameMessage(req[w].of, c.of)
    BY <1>0, <1>1 DEF Sound
  <2>2. c \in comms' /\ attempts' = attempts /\ (req[w].new => SameAttempt(c, req[w]))
    BY <1>1, <1>2 DEF relayVars
  <2> QED BY <1>2, <1>3, <2>1, <2>2 DEF Sound, SameAttempt, SameMessage
<1>6. Apart' /\ Steady'
  <2>1. /\ pc' = [pc EXCEPT ![w] = pc'[w]] /\ req' = [req EXCEPT ![w] = req'[w]]
        /\ SameAttempt(req'[w], req[w]) /\ req'[w].signed = req[w].signed
        /\ UNCHANGED configVars
    BY <1>0, <1>1, <1>2, <1>3 DEF SameAttempt
  <2> QED BY <1>0, <2>1, FrameStep
<1>7. Recorded'
  BY <1>0, <1>1, <1>2 DEF Recorded, Sound, SameAttempt, relayVars
<1>8. RelayWaits => OnePerDelivery'
  BY <1>0, <1>1, <1>2 DEF IInv, OnePerDelivery, Sound, SameAttempt
<1>9. DeliveredIsStored' /\ FailedLeavesNothing' /\ (Orderly => TransientNeverParks)'
  BY <1>0, <1>1, <1>2 DEF IInv, DeliveredIsStored, FailedLeavesNothing, TransientNeverParks,
     Refusable, Orderly, Sound, SameAttempt, relayVars
<1> QED BY <1>4, <1>5, <1>6, <1>7, <1>8, <1>9 DEF IInv

(* The second commit adds follow-ups about the request's own Communication.   *)
LEMMA FollowUpIInv ==
    ASSUME IInv, TypeOK', NEW w \in Workers, FollowUp(w)
    PROVE  IInv'
<1> DEFINE c == req[w].comm
<1>0. /\ TypeOK /\ Sound(w) /\ Apart /\ Recorded /\ Steady
      /\ pc[w] = "stored" /\ req[w] \in Request /\ c \in Comm /\ c \in comms
      /\ Kind[req[w].of] # "ownMail"
      /\ c.of = req[w].of \/ SameMessage(req[w].of, c.of)
  BY DEF IInv, TypeOK, FollowUp, Sound, SameAttempt, Request
<1>1. /\ UNCHANGED <<comms, unhandled, configVars, relayVars>>
      /\ pc'[w] = "answered" /\ pc' = [pc EXCEPT ![w] = "answered"]
      /\ req'[w] = [req[w] EXCEPT !.answer = [code |-> 200, ref |-> c]]
      /\ req' = [req EXCEPT ![w] = req'[w]]
  BY <1>0 DEF FollowUp, Respond, TypeOK
<1>2. /\ req'[w].of = req[w].of /\ req'[w].attempt = req[w].attempt
      /\ req'[w].signed = req[w].signed
      /\ req'[w].answer.code = 200 /\ req'[w].answer.ref = c
  BY <1>0, <1>1 DEF Request
<1>3. ASSUME NEW v \in Workers, v # w PROVE Sound(v)'
  <2>1. pc'[v] = pc[v] /\ req'[v] = req[v] /\ Sound(v)
    BY <1>1, <1>3 DEF IInv, TypeOK
  <2> QED BY <1>1, <2>1 DEF Sound, SameAttempt, Refusable, Orderly, relayVars
<1>4. Sound(w)'
  BY <1>0, <1>1, <1>2 DEF Sound, relayVars, Codes, Permanent
<1>5. Apart' /\ Steady'
  <2>1. /\ pc' = [pc EXCEPT ![w] = pc'[w]] /\ req' = [req EXCEPT ![w] = req'[w]]
        /\ SameAttempt(req'[w], req[w]) /\ req'[w].signed = req[w].signed
        /\ UNCHANGED configVars
    BY <1>0, <1>1, <1>2, <1>3 DEF SameAttempt
  <2> QED BY <1>0, <2>1, FrameStep
<1>6. ASSUME NEW f \in followUps', f \notin followUps PROVE f.about \in comms /\ SameAttempt(f.about, f)
  <2>1. f = [about |-> c, of |-> req[w].of, attempt |-> req[w].attempt] /\ req[w].new
    BY <1>6 DEF FollowUp, Created
  <2> QED BY <1>0, <2>1 DEF Sound, SameAttempt
<1>7. Recorded'
  BY <1>0, <1>1, <1>6 DEF Recorded, relayVars
<1> QED
  BY <1>1, <1>3, <1>4, <1>5, <1>7 DEF IInv, OnePerDelivery, DeliveredIsStored,
     FailedLeavesNothing, TransientNeverParks, Refusable, Orderly, relayVars

(* Recording a failed message commits nothing else: its work was rolled back. *)
LEMMA StoreUnhandledIInv ==
    ASSUME IInv, TypeOK', NEW w \in Workers, StoreUnhandled(w)
    PROVE  IInv'
<1> DEFINE u == [of |-> req[w].of, attempt |-> req[w].attempt, reason |-> req[w].failedAt]
<1>0. /\ TypeOK /\ Sound(w) /\ Apart /\ Recorded /\ Steady
      /\ pc[w] = "failed" /\ req[w] \in Request
  BY DEF IInv, TypeOK, StoreUnhandled
<1>1. /\ comms' = comms /\ unhandled' = unhandled \cup {u}
      /\ UNCHANGED <<followUps, configVars, relayVars>>
      /\ pc'[w] = "answered" /\ pc' = [pc EXCEPT ![w] = "answered"]
      /\ req'[w] = [req[w] EXCEPT !.answer = [code |-> 500, ref |-> None]]
      /\ req' = [req EXCEPT ![w] = req'[w]]
  BY <1>0 DEF StoreUnhandled, Created, Sound, Respond, TypeOK
<1>2. /\ req'[w].of = req[w].of /\ req'[w].attempt = req[w].attempt
      /\ req'[w].signed = req[w].signed /\ req'[w].answer.code = 500
  BY <1>0, <1>1 DEF Request
<1>3. /\ u.of = req[w].of /\ u.attempt = req[w].attempt /\ u.reason = req[w].failedAt
  OBVIOUS
<1> HIDE DEF u
<1>4. ASSUME NEW v \in Workers, v # w PROVE Sound(v)'
  <2>1. pc'[v] = pc[v] /\ req'[v] = req[v] /\ Sound(v)
    BY <1>0, <1>1, <1>4 DEF TypeOK, IInv
  <2>2. pc[v] # "idle" => ~SameAttempt(u, req[v])
    BY <1>0, <1>3, <1>4 DEF Apart, SameAttempt
  <2> QED BY <1>1, <2>1, <2>2 DEF Sound, SameAttempt, Refusable, Orderly, relayVars
<1>5. Sound(w)'
  BY <1>0, <1>1, <1>2 DEF Sound, relayVars, Codes, Permanent
<1>6. Apart' /\ Steady'
  <2>1. /\ pc' = [pc EXCEPT ![w] = pc'[w]] /\ req' = [req EXCEPT ![w] = req'[w]]
        /\ SameAttempt(req'[w], req[w]) /\ req'[w].signed = req[w].signed
        /\ UNCHANGED configVars
    BY <1>0, <1>1, <1>2, <1>3 DEF SameAttempt
  <2> QED BY <1>0, <2>1, FrameStep
<1>7. Recorded'
  BY <1>0, <1>1, <1>3 DEF Recorded, Sound, relayVars
<1>8. FailedLeavesNothing'
  BY <1>0, <1>1, <1>3 DEF IInv, FailedLeavesNothing, Sound, SameAttempt
<1> QED
  BY <1>1, <1>4, <1>5, <1>6, <1>7, <1>8 DEF IInv, OnePerDelivery, DeliveredIsStored,
     TransientNeverParks, Refusable, Orderly, relayVars

(* A new attempt has a number of its own, and with a relay that waits a       *)
(* delivery of its own.                                                       *)
LEMMA PostIInv ==
    ASSUME IInv, TypeOK', NEW d \in Deliveries, NEW w \in Workers, Post(d, w)
    PROVE  IInv'
<1> DEFINE r == [of |-> d, attempt |-> attempts[d] + 1, signed |-> relaySecret[AccountOf[d]],
                 comm |-> None, new |-> FALSE, failedAt |-> None, answer |-> NoAnswer]
<1>0. TypeOK /\ Apart /\ Recorded /\ Steady /\ pc[w] = "idle" /\ attempts[d] \in Nat
  BY ConstantsAssumption DEF IInv, TypeOK, Post
<1>1. /\ r.of = d /\ r.attempt = attempts[d] + 1 /\ r.signed = relaySecret[AccountOf[d]]
      /\ r.new = FALSE
  OBVIOUS
<1>2. /\ UNCHANGED <<dbVars, configVars, remoteRef>>
      /\ status' = [status EXCEPT ![d] = "waiting"]
      /\ attempts' = [attempts EXCEPT ![d] = attempts[d] + 1]
      /\ pc'[w] = "received" /\ req'[w] = r
      /\ \A v \in Workers : v # w => pc'[v] = pc[v] /\ req'[v] = req[v]
  BY <1>0 DEF Post, TypeOK
<1> HIDE DEF r
<1>3. \A e \in Deliveries :
        /\ attempts[e] \in Nat /\ attempts'[e] \in Nat
        /\ attempts[e] <= attempts'[e] /\ attempts[d] < attempts'[d]
  BY <1>0, <1>2, ConstantsAssumption DEF TypeOK
<1>4. ASSUME NEW v \in Workers, v # w PROVE Sound(v)'
  <2>1. pc'[v] = pc[v] /\ req'[v] = req[v] /\ Sound(v)
    BY <1>2, <1>4 DEF IInv
  <2>2. pc[v] # "idle" => req[v].attempt <= attempts'[req[v].of]
    <3>1. pc[v] # "idle" => req[v].of \in Deliveries /\ req[v].attempt \in Nat
      BY <1>0 DEF TypeOK, Request, Attempt
    <3> QED BY <2>1, <1>3, <3>1 DEF Sound
  <2> QED BY <1>2, <2>1, <2>2 DEF Sound, Refusable, Orderly, dbVars
<1>5. /\ \A c \in comms : ~SameAttempt(c, r)
      /\ \A u \in unhandled : ~SameAttempt(u, r)
      /\ \A v \in Workers : pc[v] # "idle" => ~SameAttempt(req[v], r)
  <2>1. /\ \A c \in comms : c.attempt \in Nat /\ c.of \in Deliveries
        /\ \A u \in unhandled : u.attempt \in Nat
        /\ \A v \in Workers : pc[v] # "idle" => req[v].attempt \in Nat /\ req[v].attempt <= attempts[req[v].of]
    BY <1>0 DEF IInv, TypeOK, Comm, Request, Attempt, Sound
  <2> QED BY <1>0, <1>1, <2>1 DEF Recorded, SameAttempt
<1>6. Sound(w)'
  <2>1. attempts'[d] = attempts[d] + 1
    BY <1>0, <1>2 DEF TypeOK
  <2> QED BY <1>0, <1>1, <1>2, <1>3, <1>5, <2>1 DEF Sound, dbVars
<1>7. Apart'
  <2>1. RelayWaits => \A v \in Workers : pc[v] # "idle" => req[v].of # d
    BY DEF Post, Busy
  <2> QED BY <1>0, <1>1, <1>2, <1>5, <2>1 DEF Apart, SameAttempt
<1>8. Steady'
  BY <1>0, <1>1, <1>2, ConstantsAssumption DEF Steady, configVars
<1>9. Recorded'
  <2>1. /\ \A c \in comms : c.attempt \in Nat /\ c.of \in Deliveries
        /\ \A u \in unhandled : u.attempt \in Nat /\ u.of \in Deliveries
    BY <1>0 DEF TypeOK, Comm, Attempt
  <2> QED BY <1>0, <1>2, <1>3, <2>1 DEF Recorded, dbVars
<1>10. /\ RelayWaits => OnePerDelivery'
       /\ DeliveredIsStored' /\ FailedLeavesNothing' /\ (Orderly => TransientNeverParks)'
  BY <1>0, <1>2 DEF IInv, TypeOK, OnePerDelivery, DeliveredIsStored, FailedLeavesNothing,
     TransientNeverParks, Refusable, Orderly, dbVars
<1> QED BY <1>4, <1>6, <1>7, <1>8, <1>9, <1>10 DEF IInv

(* The relay's other steps and the end of a request leave the database alone;  *)
(* a delivery becomes delivered or rejected only by a true answer.            *)
LEMMA RelayIInv ==
    ASSUME IInv, TypeOK',
           \/ \E d \in Deliveries : TimeOut(d) \/ GiveUp(d)
           \/ \E w \in Workers : Receive(w) \/ Crash(w)
    PROVE  IInv'
<1>0. TypeOK /\ Apart /\ Recorded /\ Steady
  BY DEF IInv
<1>1. /\ UNCHANGED <<dbVars, configVars, attempts>>
      /\ \A v \in Workers : pc'[v] = "idle" \/ (pc'[v] = pc[v] /\ req'[v] = req[v])
  BY <1>0 DEF TypeOK, TimeOut, GiveUp, Receive, Crash
<1>2. ASSUME NEW v \in Workers PROVE Sound(v)'
  <2>1. CASE pc'[v] = "idle"
    BY <2>1 DEF Sound
  <2>2. CASE pc'[v] = pc[v] /\ req'[v] = req[v]
    BY <1>1, <2>2 DEF IInv, Sound, Refusable, Orderly, dbVars
  <2> QED BY <1>1, <2>1, <2>2
<1>3. Apart' /\ Steady' /\ Recorded' /\ (RelayWaits => OnePerDelivery') /\ FailedLeavesNothing'
  BY <1>0, <1>1 DEF IInv, Apart, Steady, Recorded, OnePerDelivery, FailedLeavesNothing, dbVars, configVars
<1>4. ASSUME NEW d \in Deliveries
      PROVE  \/ status'[d] = status[d] /\ remoteRef'[d] = remoteRef[d]
             \/ status'[d] \notin {"delivered", "rejected"}
             \/ \E w \in Workers :
                  /\ pc[w] = "answered" /\ req[w].of = d
                  /\ status'[d] = OutcomeOf(req[w].answer.code)
                  /\ remoteRef'[d] = req[w].answer.ref
  BY <1>0 DEF TypeOK, TimeOut, GiveUp, Receive, Crash
<1>5. ASSUME NEW w \in Workers, pc[w] = "answered"
      PROVE  /\ Orderly /\ OutcomeOf(req[w].answer.code) = "rejected" => Refusable(req[w].of)
             /\ OutcomeOf(req[w].answer.code) = "delivered" =>
                  LET c == req[w].answer.ref
                  IN IF Kind[req[w].of] = "ownMail" THEN c = None
                     ELSE c \in comms /\ (c.of = req[w].of \/ SameMessage(req[w].of, c.of))
  BY <1>5 DEF IInv, Sound, OutcomeOf
<1>6. DeliveredIsStored'
  BY <1>1, <1>4, <1>5 DEF IInv, DeliveredIsStored, dbVars
<1>7. (Orderly => TransientNeverParks)'
  BY <1>1, <1>4, <1>5 DEF IInv, TransientNeverParks, Refusable, Orderly, dbVars
<1> QED BY <1>2, <1>3, <1>6, <1>7 DEF IInv

(* A change of configuration touches no request and no record, and is made    *)
(* only where the faults allow it.                                            *)
LEMMA ConfigureIInv ==
    ASSUME IInv, TypeOK', Configure
    PROVE  IInv'
<1>1. UNCHANGED <<dbVars, relayVars, pc, req>>
  BY DEF Configure, RotateSecret, UpdateRelaySecret, ChangeAccount, ChangeRelayUser
<1>2. Steady'
  <2>1. ASSUME NEW a \in Accounts, RotateSecret(a) PROVE Steady'
    BY <2>1 DEF RotateSecret, IInv, Steady
  <2>2. ASSUME NEW a \in Accounts, UpdateRelaySecret(a) PROVE Steady'
    BY <2>2 DEF UpdateRelaySecret, IInv, Steady, TypeOK
  <2>3. ASSUME NEW a \in Accounts, ChangeAccount(a) PROVE Steady'
    BY <2>3 DEF ChangeAccount, IInv, Steady
  <2>4. CASE ChangeRelayUser
    BY <2>4 DEF ChangeRelayUser, IInv, Steady
  <2> QED BY <2>1, <2>2, <2>3, <2>4 DEF Configure
<1> QED BY <1>1, <1>2 DEF IInv, Sound, Apart, Recorded, OnePerDelivery, DeliveredIsStored,
    FailedLeavesNothing, TransientNeverParks, Refusable, Orderly, dbVars, relayVars

(* Every step keeps the inductive invariant.                                  *)
LEMMA NextIInv == IInv /\ [Next]_vars => IInv'
<1> SUFFICES ASSUME IInv, [Next]_vars PROVE IInv'
  OBVIOUS
<1>1. TypeOK'
  BY NextTypeOK DEF IInv
<1>2. ASSUME NEW w \in Workers, Handle(w) PROVE IInv'
  BY <1>1, <1>2, AnswersIInv, ProcessIInv, CommitIInv, FollowUpIInv, StoreUnhandledIInv DEF Handle
<1>3. CASE UNCHANGED vars
  BY <1>1, <1>3 DEF IInv, Steady, Sound, Apart, Recorded, OnePerDelivery, DeliveredIsStored,
     FailedLeavesNothing, TransientNeverParks, Refusable, Orderly, vars, dbVars, configVars, relayVars
<1> QED BY <1>1, <1>2, <1>3, PostIInv, RelayIInv, ConfigureIInv DEF Next, Done

(* The inductive invariant holds in every state, whatever the constants.      *)
THEOREM Invariance == Spec => []IInv
<1> QED BY InitIInv, NextIInv, PTL DEF Spec
-----------------------------------------------------------------------------
(* Whatever the constants, all variables keep their types.                    *)
THEOREM TypeCorrect == Spec => []TypeOK
<1>1. IInv => TypeOK
  BY DEF IInv
<1> QED BY <1>1, Invariance, PTL

(* A delivered message is on record: the Communication the relay was told of   *)
(* is committed and holds that message, under every fault the model has, with *)
(* or without a relay that waits.                                             *)
THEOREM DeliveredStored == Spec => []DeliveredIsStored
<1>1. IInv => DeliveredIsStored
  BY DEF IInv
<1> QED BY <1>1, Invariance, PTL

(* With a relay that waits for the previous attempt to end, a delivery is      *)
(* stored at most once, whatever fails between its attempts.                  *)
THEOREM AtMostOnce == ASSUME RelayWaits PROVE Spec => []OnePerDelivery
<1>1. IInv => OnePerDelivery
  BY DEF IInv
<1> QED BY <1>1, Invariance, PTL

(* ... and followed up at most once, by the request that stored it.           *)
THEOREM FollowedUpOnce == ASSUME RelayWaits PROVE Spec => []FollowUpOnce
<1>1. IInv => FollowUpOnce
  <2> SUFFICES ASSUME IInv, NEW f \in followUps,
                      NEW g \in followUps, f.about.of = g.about.of, f.of \in Traceable
               PROVE  f = g
    BY DEF IInv, Recorded, FollowUpOnce, SameAttempt
  <2>1. f.about \in comms /\ g.about \in comms /\ SameAttempt(f.about, f) /\ SameAttempt(g.about, g)
    BY DEF IInv, Recorded
  <2>2. f.about = g.about
    BY <2>1 DEF IInv, OnePerDelivery, SameAttempt
  <2> QED BY <2>1, <2>2 DEF IInv, TypeOK, SameAttempt
<1> QED BY <1>1, Invariance, PTL

(* A message whose processing failed leaves no half-made Communication.       *)
THEOREM FailedLeaves == Spec => []FailedLeavesNothing
<1>1. IInv => FailedLeavesNothing
  BY DEF IInv
<1> QED BY <1>1, Invariance, PTL

(* Trouble that passes never parks a message, as long as requests are verified *)
(* in time and no ValidationError leaves the request: a slow queue is answered *)
(* 401 and such an exception 417, both permanent for the relay.               *)
THEOREM TransientRetried ==
    ASSUME Faults \cap {"late", "escape"} = {}
    PROVE  Spec => []TransientNeverParks
<1>1. IInv => TransientNeverParks
  BY DEF IInv, Orderly
<1> QED BY <1>1, Invariance, PTL

(* As long as no follow-up raises a ValidationError, a 4xx answer means that   *)
(* the request has stored nothing.                                            *)
THEOREM RejectedStored ==
    ASSUME "followUpRefused" \notin Faults PROVE Spec => []RejectedStoredNothing
<1>1. IInv => RejectedStoredNothing
  BY DEF IInv, Sound, RejectedStoredNothing, SameAttempt
<1> QED BY <1>1, Invariance, PTL
-----------------------------------------------------------------------------
(* When no follow-up is lost.                                                 *)

Followed(c) == \E f \in followUps : f.about = c

\* A request has committed Communication c and is about to follow it up.
Pending(c) == \E w \in Workers : pc[w] = "stored" /\ req[w].new /\ req[w].comm = c

\* What is stored is followed up or about to be; what a retry finds, and what
\* the relay is told of, is followed up.
Attended ==
    /\ \A c \in comms : Followed(c) \/ Pending(c)
    /\ \A w \in Workers :
         /\ pc[w] \in {"processed", "stored"} /\ ~req[w].new => Followed(req[w].comm)
         /\ pc[w] = "answered" /\ req[w].answer.code = 200 /\ req[w].answer.ref # None =>
              Followed(req[w].answer.ref)
    /\ DeliveredIsFollowedUp

\* The relay waits for its last attempt, a message comes in one delivery, and
\* neither a follow-up nor a worker fails.
Undisturbed ==
    /\ RelayWaits
    /\ \A d, e \in Deliveries : SameMessage(d, e) => d = e
    /\ Faults \cap {"crash", "followUpError", "followUpRefused"} = {}

(* Nothing is stored at first.                                                *)
LEMMA InitAttended == Init => Attended
BY DEF Init, Attended, DeliveredIsFollowedUp

(* A Communication is told from none.                                         *)
LEMMA SomeComm == None \notin Comm
<1>1. Comm \subseteq [of : Deliveries, attempt : Nat, relayId : Deliveries \cup {None}]
  BY ConstantsAssumption DEF Comm, Attempt
<1> QED BY <1>1, ConstantsAssumption

(* A step of one worker keeps what is attended: it follows up what it was     *)
(* about to, and stores nothing it is not about to follow up.                 *)
LEMMA MoveAttended ==
    ASSUME IInv, Attended, NEW w \in Workers,
           pc' = [pc EXCEPT ![w] = pc'[w]], req' = [req EXCEPT ![w] = req'[w]],
           followUps \subseteq followUps',
           \A c \in comms' : \/ c \in comms
                             \/ pc'[w] = "stored" /\ req'[w].new /\ req'[w].comm = c,
           pc[w] = "stored" /\ req[w].new => \E f \in followUps' : f.about = req[w].comm,
           pc'[w] \in {"processed", "stored"} /\ ~req'[w].new => Followed(req'[w].comm),
           pc'[w] = "answered" /\ req'[w].answer.code = 200 /\ req'[w].answer.ref # None =>
             \E f \in followUps' : f.about = req'[w].answer.ref,
           DeliveredIsFollowedUp'
    PROVE  Attended'
<1>1. \A v \in Workers : v # w => pc'[v] = pc[v] /\ req'[v] = req[v]
  BY DEF IInv, TypeOK
<1>2. ASSUME NEW c \in comms'
      PROVE  \/ \E f \in followUps' : f.about = c
             \/ \E v \in Workers : pc'[v] = "stored" /\ req'[v].new /\ req'[v].comm = c
  <2>1. CASE c \in comms
    BY <1>1, <2>1 DEF Attended, Followed, Pending
  <2>2. CASE c \notin comms
    BY <2>2
  <2> QED BY <2>1, <2>2
<1>3. ASSUME NEW v \in Workers
      PROVE  /\ pc'[v] \in {"processed", "stored"} /\ ~req'[v].new =>
                  \E f \in followUps' : f.about = req'[v].comm
             /\ pc'[v] = "answered" /\ req'[v].answer.code = 200 /\ req'[v].answer.ref # None =>
                  \E f \in followUps' : f.about = req'[v].answer.ref
  BY <1>1 DEF Attended, Followed
<1> QED BY <1>2, <1>3 DEF Attended, Followed, Pending

(* What a new attempt finds of its delivery has been followed up: the attempt *)
(* that stored it is over.                                                    *)
LEMMA FoundIsFollowed ==
    ASSUME IInv, Attended, RelayWaits, NEW w \in Workers, pc[w] = "received",
           NEW c \in comms, c.of = req[w].of
    PROVE  Followed(c)
<1> SUFFICES ASSUME NEW v \in Workers, pc[v] = "stored", req[v].new, req[v].comm = c
             PROVE  FALSE
  BY DEF Attended, Pending
<1>1. c.of = req[v].of
  BY DEF IInv, Sound, SameAttempt
<1> QED BY <1>1 DEF IInv, Apart

(* The steps of a request.                                                    *)
LEMMA HandleAttended ==
    ASSUME IInv, Attended, Undisturbed, NEW w \in Workers, Handle(w)
    PROVE  Attended'
<1>1. /\ TypeOK /\ Sound(w) /\ Recorded /\ RelayWaits
      /\ "followUpError" \notin Faults /\ "followUpRefused" \notin Faults
      /\ \A d, e \in Deliveries : SameMessage(d, e) => d = e
      /\ pc \in [Workers -> {"idle", "received", "processed", "stored", "failed", "answered"}]
      /\ req \in [Workers -> Request \cup {None}]
  BY DEF IInv, Undisturbed, TypeOK
<1>2. pc[w] # "idle" /\ req[w] \in Request /\ req[w].of \in Deliveries
  BY <1>1 DEF Handle, Refuse, RefuseLate, Escape, NotReady, AnswerExisting, IgnoreOwnMail, ProcessKnown,
     ProcessNew, DocumentRefuses, ProcessFails, Commit, FollowUp, FollowUpRefused, FollowUpFails,
     StoreUnhandled, StoreUnhandledFails, Accepted, Delivering, Processing, TypeOK, Request
<1>3. UNCHANGED <<status, remoteRef>>
  BY DEF Handle, Refuse, RefuseLate, Escape, NotReady, AnswerExisting, IgnoreOwnMail, ProcessKnown,
     ProcessNew, DocumentRefuses, ProcessFails, Commit, FollowUp, FollowUpRefused, FollowUpFails,
     StoreUnhandled, StoreUnhandledFails, Fail, relayVars
<1>4. followUps \subseteq followUps' => DeliveredIsFollowedUp'
  BY <1>3 DEF Attended, DeliveredIsFollowedUp
<1>5. ASSUME NEW code \in Codes, NEW ref \in Comm \cup {None}, Respond(w, code, ref)
      PROVE  /\ pc'[w] = "answered" /\ pc' = [pc EXCEPT ![w] = pc'[w]]
             /\ req' = [req EXCEPT ![w] = req'[w]]
             /\ req'[w].answer.code = code /\ req'[w].answer.ref = ref
  <2>1. /\ pc' = [pc EXCEPT ![w] = "answered"]
        /\ req' = [req EXCEPT ![w] = [req[w] EXCEPT !.answer = [code |-> code, ref |-> ref]]]
    BY <1>5 DEF Respond
  <2>2. /\ pc'[w] = "answered"
        /\ req'[w] = [req[w] EXCEPT !.answer = [code |-> code, ref |-> ref]]
    BY <1>1, <2>1
  <2> QED BY <1>1, <1>2, <2>1, <2>2 DEF Request
<1>6. ASSUME NEW code \in Codes, NEW ref \in Comm \cup {None}, Respond(w, code, ref),
             pc[w] # "stored", UNCHANGED <<comms, followUps>>,
             code = 200 /\ ref # None => Followed(ref)
      PROVE  Attended'
  <2>1. /\ followUps \subseteq followUps'
        /\ code = 200 /\ ref # None => \E f \in followUps' : f.about = ref
    BY <1>6 DEF Followed
  <2>2. /\ pc'[w] = "answered" /\ pc' = [pc EXCEPT ![w] = pc'[w]]
        /\ req' = [req EXCEPT ![w] = req'[w]]
        /\ req'[w].answer.code = code /\ req'[w].answer.ref = ref
    BY <1>5, <1>6
  <2>3. pc'[w] = "answered" /\ req'[w].answer.code = 200 /\ req'[w].answer.ref # None =>
             \E f \in followUps' : f.about = req'[w].answer.ref
    BY <2>1, <2>2
  <2> QED BY <1>4, <1>6, <2>1, <2>2, <2>3, MoveAttended
<1>7. CASE Refuse(w) \/ RefuseLate(w) \/ Escape(w) \/ NotReady(w) \/ IgnoreOwnMail(w) \/ DocumentRefuses(w)
           \/ StoreUnhandledFails(w)
  <2>1. \E code \in Codes : /\ Respond(w, code, None)
                            /\ UNCHANGED <<comms, followUps>>
                            /\ pc[w] # "stored"
    <3>1. pc[w] = "received" => Refusal(w) \in {0, 401, 413, 422}
      BY DEF Refusal
    <3> QED BY <1>7, <3>1 DEF Refuse, RefuseLate, Escape, NotReady, IgnoreOwnMail, DocumentRefuses, StoreUnhandledFails,
         Accepted, Delivering, Processing, dbVars, Codes
  <2> QED BY <1>6, <2>1
<1>8. CASE AnswerExisting(w)
  <2>1. pc[w] = "received"
    BY <1>8 DEF AnswerExisting, Delivering, Accepted
  <2>2. PICK c \in comms : Respond(w, 200, c) /\ c.relayId = req[w].of /\ req[w].of \in Identified
    BY <1>8 DEF AnswerExisting, KnownRelayId
  <2>3. c.of = req[w].of /\ c \in Comm
    BY <1>1, <1>2, <2>2, ConstantsAssumption DEF Recorded, TypeOK
  <2>4. Followed(c)
    BY <1>1, <2>1, <2>3, FoundIsFollowed
  <2>5. 200 \in Codes /\ UNCHANGED <<comms, followUps>> /\ pc[w] # "stored"
    BY <1>8, <2>1 DEF AnswerExisting, Codes, dbVars
  <2> QED BY <1>6, <2>2, <2>3, <2>4, <2>5
<1>9. CASE ProcessKnown(w) \/ ProcessNew(w)
  <2>1. pc[w] = "received" /\ ~req[w].new
    BY <1>1, <1>9 DEF ProcessKnown, ProcessNew, Processing, Delivering, Accepted, Sound
  <2>2. /\ pc' = [pc EXCEPT ![w] = "processed"] /\ pc'[w] = "processed"
        /\ UNCHANGED <<comms, followUps>>
    BY <1>1, <1>9 DEF ProcessKnown, ProcessNew, dbVars
  <2>3. /\ req' = [req EXCEPT ![w] = req'[w]]
        /\ ~req'[w].new => Followed(req'[w].comm)
    <3>1. CASE ProcessKnown(w)
      <4>1. PICK c \in KnownMessageId(req[w].of) : req' = [req EXCEPT ![w] = [req[w] EXCEPT !.comm = c]]
        BY <3>1 DEF ProcessKnown
      <4>2. c \in comms /\ c.of = req[w].of
        BY <1>1, <1>2, <4>1 DEF KnownMessageId, SameMessage, TypeOK, Comm
      <4>3. req'[w] = [req[w] EXCEPT !.comm = c]
        BY <1>1, <4>1
      <4>4. req'[w].comm = c
        BY <1>2, <4>3 DEF Request
      <4>5. Followed(c)
        BY <1>1, <2>1, <4>2, FoundIsFollowed
      <4> QED BY <4>1, <4>3, <4>4, <4>5
    <3>2. CASE ProcessNew(w)
      <4>1. PICK c : req' = [req EXCEPT ![w] = [req[w] EXCEPT !.new = TRUE, !.comm = c]]
        BY <3>2 DEF ProcessNew
      <4>2. req'[w] = [req[w] EXCEPT !.new = TRUE, !.comm = c]
        BY <1>1, <4>1
      <4>3. req'[w].new
        BY <1>2, <4>2 DEF Request
      <4> QED BY <4>1, <4>2, <4>3
    <3> QED BY <1>9, <3>1, <3>2
  <2> QED BY <1>4, <2>1, <2>2, <2>3, MoveAttended
<1>10. CASE ProcessFails(w)
  <2>1. /\ pc' = [pc EXCEPT ![w] = "failed"] /\ pc'[w] = "failed" /\ pc[w] # "stored"
        /\ req' = [req EXCEPT ![w] = [req[w] EXCEPT !.failedAt = "process", !.comm = None]]
        /\ UNCHANGED <<comms, followUps>>
    BY <1>1, <1>10 DEF ProcessFails, Fail, Processing, Delivering, Accepted, dbVars
  <2>2. req' = [req EXCEPT ![w] = req'[w]]
    BY <1>1, <2>1
  <2> QED BY <1>4, <2>1, <2>2, MoveAttended
<1>11. CASE Commit(w)
  <2>1. /\ pc' = [pc EXCEPT ![w] = "stored"] /\ pc'[w] = "stored" /\ pc[w] = "processed"
        /\ req' = [req EXCEPT ![w] = [req[w] EXCEPT !.comm = Stamped(w)]]
        /\ comms' = comms \cup {Stamped(w)} /\ UNCHANGED followUps
    BY <1>1, <1>11 DEF Commit
  <2>2. req'[w] = [req[w] EXCEPT !.comm = Stamped(w)] /\ req' = [req EXCEPT ![w] = req'[w]]
    BY <1>1, <2>1
  <2>3. req'[w].comm = Stamped(w) /\ req'[w].new = req[w].new
    BY <1>2, <2>2 DEF Request
  <2>4. ~req[w].new => Stamped(w) = req[w].comm /\ req[w].comm \in comms /\ Followed(req[w].comm)
    BY <1>1, <2>1 DEF Stamped, Sound, Attended
  <2>5. \A c \in comms' : \/ c \in comms
                          \/ pc'[w] = "stored" /\ req'[w].new /\ req'[w].comm = c
    BY <2>1, <2>3, <2>4
  <2> QED BY <1>4, <2>1, <2>2, <2>3, <2>4, <2>5, MoveAttended
<1>12. CASE FollowUp(w)
  <2>1. PICK c : c = req[w].comm
    OBVIOUS
  <2>2. /\ Respond(w, 200, c) /\ pc[w] = "stored" /\ c \in Comm /\ UNCHANGED comms
        /\ followUps' = followUps \cup
             {[about |-> e, of |-> req[w].of, attempt |-> req[w].attempt] : e \in Created(w)}
    BY <1>1, <1>12, <2>1 DEF FollowUp, TypeOK
  <2>3. followUps \subseteq followUps'
    BY <2>2
  <2>4. \E f \in followUps' : f.about = c
    <3>1. CASE req[w].new
      <4>1. c \in Created(w)
        BY <2>1, <2>2, <3>1, SomeComm DEF Created
      <4>2. [about |-> c, of |-> req[w].of, attempt |-> req[w].attempt] \in followUps'
        BY <2>2, <4>1
      <4> QED BY <4>2
    <3>2. CASE ~req[w].new
      BY <2>1, <2>2, <2>3, <3>2 DEF Attended, Followed
    <3> QED BY <3>1, <3>2
  <2>5. /\ pc'[w] = "answered" /\ pc' = [pc EXCEPT ![w] = pc'[w]]
        /\ req' = [req EXCEPT ![w] = req'[w]]
        /\ req'[w].answer.ref = c
    BY <1>5, <2>2 DEF Codes
  <2> QED BY <1>4, <2>1, <2>2, <2>3, <2>4, <2>5, MoveAttended
<1>13. CASE StoreUnhandled(w)
  <2>1. /\ Respond(w, 500, None) /\ pc[w] # "stored" /\ UNCHANGED <<comms, followUps>> /\ 500 \in Codes
    BY <1>1, <1>13 DEF StoreUnhandled, Sound, Created, Codes
  <2> QED BY <1>6, <2>1
<1>14. ~FollowUpRefused(w) /\ ~FollowUpFails(w)
  BY <1>1 DEF FollowUpRefused, FollowUpFails
<1> QED BY <1>7, <1>8, <1>9, <1>10, <1>11, <1>12, <1>13, <1>14 DEF Handle

(* The steps of the relay, and the answer that makes a delivery delivered.    *)
LEMMA RelayAttended ==
    ASSUME IInv, Attended, NEW d \in Deliveries, NEW w \in Workers,
           Post(d, w) \/ Receive(w)
    PROVE  Attended'
<1>0. /\ TypeOK /\ DeliveredIsFollowedUp
      /\ pc \in [Workers -> {"idle", "received", "processed", "stored", "failed", "answered"}]
      /\ req \in [Workers -> Request \cup {None}]
      /\ UNCHANGED <<comms, followUps>>
  BY DEF IInv, Attended, TypeOK, Post, Receive, dbVars
<1>1. CASE Post(d, w)
  <2>1. /\ pc[w] = "idle" /\ pc' = [pc EXCEPT ![w] = "received"] /\ pc'[w] = "received"
        /\ req' = [req EXCEPT ![w] = req'[w]]
    BY <1>0, <1>1 DEF Post
  <2>2. DeliveredIsFollowedUp'
    BY <1>0, <1>1 DEF Post, TypeOK, DeliveredIsFollowedUp
  <2> QED BY <1>0, <2>1, <2>2, MoveAttended
<1>2. CASE Receive(w)
  <2>1. /\ pc[w] = "answered" /\ pc' = [pc EXCEPT ![w] = "idle"] /\ pc'[w] = "idle"
        /\ req' = [req EXCEPT ![w] = req'[w]]
    BY <1>0, <1>2 DEF Receive
  <2>2. DeliveredIsFollowedUp'
    <3> SUFFICES ASSUME NEW e \in Deliveries, status'[e] = "delivered", remoteRef'[e] # None
                 PROVE  \E f \in followUps : f.about = remoteRef'[e]
      BY <1>0 DEF DeliveredIsFollowedUp
    <3>1. CASE status'[e] = status[e] /\ remoteRef'[e] = remoteRef[e]
      BY <1>0, <3>1 DEF DeliveredIsFollowedUp
    <3>2. CASE ~(status'[e] = status[e] /\ remoteRef'[e] = remoteRef[e])
      <4>1. /\ e = req[w].of /\ status'[e] = OutcomeOf(req[w].answer.code)
            /\ remoteRef'[e] = req[w].answer.ref
        BY <1>0, <1>2, <3>2 DEF Receive, TypeOK
      <4>2. req[w].answer.code = 200
        BY <4>1 DEF OutcomeOf
      <4> QED BY <2>1, <4>1, <4>2 DEF Attended, Followed
    <3> QED BY <3>1, <3>2
  <2> QED BY <1>0, <2>1, <2>2, MoveAttended
<1> QED BY <1>1, <1>2

(* Every step of an undisturbed system.                                       *)
LEMMA NextAttended ==
    ASSUME IInv, Attended, Undisturbed, [Next]_vars
    PROVE  Attended'
<1>1. ASSUME NEW d \in Deliveries, TimeOut(d) \/ GiveUp(d) PROVE Attended'
  <2>1. DeliveredIsFollowedUp'
    BY <1>1 DEF TimeOut, GiveUp, IInv, TypeOK, Attended, DeliveredIsFollowedUp, dbVars
  <2> QED BY <1>1, <2>1 DEF TimeOut, GiveUp, Attended, Followed, Pending, dbVars
<1>2. ASSUME NEW w \in Workers, Receive(w) PROVE Attended'
  <2>1. req[w].of \in Deliveries
    BY <1>2 DEF Receive, IInv, TypeOK, Request
  <2> QED BY <1>2, <2>1, RelayAttended
<1>3. CASE Configure \/ UNCHANGED vars
  BY <1>3 DEF Configure, RotateSecret, UpdateRelaySecret, ChangeAccount, ChangeRelayUser, vars,
     dbVars, relayVars, Attended, DeliveredIsFollowedUp, Followed, Pending
<1>4. \A w \in Workers : ~Crash(w)
  BY DEF Crash, Undisturbed
<1> QED BY <1>1, <1>2, <1>3, <1>4, HandleAttended, RelayAttended DEF Next, Done

(* What loses follow-ups is a follow-up that fails, a worker that dies between *)
(* the two commits, a relay that does not wait, or a second delivery of the   *)
(* message: without these, whatever else fails, is retried or reconfigured, a *)
(* message the relay calls delivered has been followed up.                    *)
THEOREM FollowedUp ==
    ASSUME Undisturbed
    PROVE  Spec => []DeliveredIsFollowedUp
<1>1. IInv /\ Attended /\ [Next]_vars => Attended'
  BY NextAttended
<1>2. Attended => DeliveredIsFollowedUp
  BY DEF Attended
<1> QED BY <1>1, <1>2, InitAttended, Invariance, PTL DEF Spec
=============================================================================
