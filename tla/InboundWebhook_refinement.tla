--------------------- MODULE InboundWebhook_refinement ----------------------
(***************************************************************************)
(* The webhook keeps the promise of MailDelivery: every step of a request,  *)
(* of the relay or of the configuration is a step of it or invisible.  That *)
(* the promise to a patient relay is kept needs that a delivery answered    *)
(* for good has no request left, Finished.                                  *)
(***************************************************************************)
EXTENDS InboundWebhook_proofs

\* The state of the promise, as InboundWebhook maps it.
Copies == [d \in Deliveries |-> {c \in comms : c.of = d}]

Outcome == [d \in Deliveries |->
              IF status[d] \in {"delivered", "rejected"} THEN status[d]
              ELSE IF status[d] = "exhausted" THEN "abandoned" ELSE "open"]

\* Once a delivery is answered for good, no request of it is left that could
\* still store something.
Finished == \A d \in Deliveries : status[d] \in {"delivered", "rejected"} => ~Busy(d)

(* Nothing is stored or settled at first.                                     *)
LEMMA PromiseInit == Init => Promise!Init
BY DEF Init, Promise!Init

(* At first nothing is answered.                                              *)
LEMMA InitFinished == Init => Finished
BY DEF Init, Finished

(* A delivery is answered to its one request, which ends with the answer, and *)
(* posted again only when it has none.                                        *)
LEMMA NextFinished ==
    ASSUME RelayWaits, IInv, Finished, [Next]_vars
    PROVE  Finished'
<1>0. TypeOK /\ Apart
  BY DEF IInv
<1> USE DEF Finished, Busy
<1>1. ASSUME NEW d \in Deliveries, NEW w \in Workers, Post(d, w) PROVE Finished'
  BY <1>0, <1>1 DEF Post, TypeOK
<1>2. ASSUME NEW d \in Deliveries, TimeOut(d) \/ GiveUp(d) PROVE Finished'
  BY <1>0, <1>2 DEF TimeOut, GiveUp, TypeOK
<1>3. ASSUME NEW w \in Workers, Receive(w) PROVE Finished'
  <2>1. /\ pc[w] # "idle" /\ pc'[w] = "idle"
        /\ \A v \in Workers : v # w => pc'[v] = pc[v] /\ req'[v] = req[v]
        /\ \A e \in Deliveries : e # req[w].of => status'[e] = status[e]
    BY <1>0, <1>3 DEF Receive, TypeOK
  <2>2. \A v \in Workers : v # w /\ pc[v] # "idle" => req[v].of # req[w].of
    BY <1>0, <2>1 DEF Apart
  <2> QED BY <2>1, <2>2
<1>4. ASSUME NEW w \in Workers, Crash(w) PROVE Finished'
  <2>1. /\ pc[w] # "idle" /\ pc'[w] = "idle"
        /\ \A v \in Workers : v # w => pc'[v] = pc[v] /\ req'[v] = req[v]
        /\ \A e \in Deliveries : status'[e] \in {status[e], "queued"}
    BY <1>0, <1>4 DEF Crash, TypeOK
  <2> QED BY <2>1
<1>5. ASSUME NEW w \in Workers, Handle(w) PROVE Finished'
  <2>1. /\ pc[w] # "idle" /\ status' = status
        /\ \A v \in Workers : v # w => pc'[v] = pc[v] /\ req'[v] = req[v]
        /\ req'[w].of = req[w].of
    BY <1>0, <1>5 DEF Handle, Refuse, RefuseLate, Escape, NotReady, AnswerExisting, IgnoreOwnMail, ProcessKnown,
       ProcessNew, DocumentRefuses, ProcessFails, Commit, FollowUp, FollowUpRefused, FollowUpFails,
       StoreUnhandled, StoreUnhandledFails, Fail, Respond, Accepted, Delivering, Processing, relayVars,
       TypeOK, Request
  <2> QED BY <2>1
<1>6. CASE Configure
  BY <1>6 DEF Configure, RotateSecret, UpdateRelaySecret, ChangeAccount, ChangeRelayUser, relayVars
<1>7. CASE UNCHANGED vars
  BY <1>7 DEF vars, relayVars
<1> QED BY <1>1, <1>2, <1>3, <1>4, <1>5, <1>6, <1>7 DEF Next, Done

(* A step that stores nothing and leaves the status alone does not show.      *)
LEMMA Invisible ==
    ASSUME UNCHANGED <<comms, status>>
    PROVE  UNCHANGED Promise!vars
BY DEF Promise!vars

(* The commit that stores a Communication is the promise's Store: if the relay *)
(* waits the delivery is not answered yet and, when it can be                 *)
(* recognised, has no other copy.  A commit of what was there is invisible.   *)
LEMMA CommitStores ==
    ASSUME IInv, RelayWaits => Finished, NEW w \in Workers, Commit(w)
    PROVE  [Promise!Next]_(Promise!vars)
<1> DEFINE c == Stamped(w)
<1>0. PICK d \in Deliveries : d = req[w].of
  BY DEF IInv, TypeOK, Commit, Request
<1>1. /\ pc[w] = "processed" /\ req[w] \in Request
      /\ req[w].comm \in Comm /\ Sound(w) /\ Recorded
  BY DEF IInv, TypeOK, Commit
<1>2. comms' = comms \cup {c} /\ status' = status
  BY DEF Commit, relayVars
<1>3. CASE ~req[w].new
  <2>1. c \in comms
    BY <1>1, <1>3 DEF Sound, Stamped
  <2> QED BY <1>2, <2>1, Invisible
<1>4. CASE req[w].new
  <2>1. c.of = d /\ c \notin comms
    BY <1>0, <1>1, <1>4 DEF Sound, Stamped, SameAttempt, Comm, Request
  <2>2. RelayWaits /\ d \in Traceable => \A e \in comms : e.of # d
    BY <1>0, <1>1, <1>4 DEF Sound
  <2>3. RelayWaits => status[d] \notin {"delivered", "rejected"}
    BY <1>0, <1>1 DEF Finished, Busy
  <2> HIDE DEF c
  <2>4. /\ c \in Copies'[d] \ Copies[d]
        /\ Copies' = [Copies EXCEPT ![d] = @ \cup {c}]
        /\ RelayWaits /\ d \in Traceable => Copies[d] = {}
    BY <1>1, <1>2, <2>1, <2>2 DEF Copies
  <2>5. (RelayWaits => Outcome[d] \in {"open", "abandoned"}) /\ Outcome' = Outcome
    BY <1>1, <1>2, <2>3 DEF Outcome
  <2>6. /\ RelayWaits => /\ Outcome[d] \in {"open", "abandoned"}
                         /\ d \in Traceable => Copies[d] = {}
        /\ \E e \in Copies'[d] \ Copies[d] : Copies' = [Copies EXCEPT ![d] = @ \cup {e}]
        /\ UNCHANGED Outcome
    BY <2>4, <2>5
  <2>7. Promise!Store(d)
    BY <2>6 DEF Promise!Store, Copies, Outcome
  <2> QED BY <2>7 DEF Promise!Next
<1> QED BY <1>3, <1>4

(* An answer settles its delivery: a 200 delivers what is on record, or own    *)
(* mail; a 4xx rejects it; all else leaves it open.                           *)
LEMMA ReceiveSettles ==
    ASSUME IInv, NEW w \in Workers, Receive(w)
    PROVE  [Promise!Next]_(Promise!vars)
<1> DEFINE d == req[w].of
           code == req[w].answer.code
           ref == req[w].answer.ref
<1>1. /\ pc[w] = "answered" /\ d \in Deliveries /\ Sound(w) /\ TypeOK
      /\ UNCHANGED comms
  BY DEF IInv, TypeOK, Receive, Request, dbVars
<1>2. CASE ~Awaited(w)
  BY <1>1, <1>2, Invisible DEF Receive
<1>3. CASE Awaited(w)
  <2>1. status[d] = "waiting" /\ status' = [status EXCEPT ![d] = OutcomeOf(code)]
    BY <1>3 DEF Receive, Awaited
  <2>2. UNCHANGED Copies
    BY <1>1 DEF Copies
  <2>3. Outcome[d] = "open"
    BY <1>1, <2>1 DEF Outcome
  <2>4. CASE OutcomeOf(code) = "delivered"
    <3>1. code = 200
      BY <2>4 DEF OutcomeOf
    <3>2. IF Kind[d] = "ownMail" THEN ref = None
          ELSE ref \in comms /\ (ref.of = d \/ SameMessage(d, ref.of))
      BY <1>1, <3>1 DEF Sound
    <3>3. CASE Kind[d] = "ownMail"
      <4>1. Outcome' = [Outcome EXCEPT ![d] = "delivered"]
        BY <1>1, <2>1, <2>4 DEF Outcome, TypeOK
      <4> QED BY <1>1, <2>2, <2>3, <3>3, <4>1 DEF Promise!Next, Promise!Deliver, Promise!Settle, Copies, Outcome
    <3>4. CASE Kind[d] # "ownMail"
      <4>1. Outcome' = [Outcome EXCEPT ![d] = "delivered"]
        BY <1>1, <2>1, <2>4 DEF Outcome, TypeOK
      <4>2. ref \in comms /\ ref.of \in Deliveries /\ (ref.of = d \/ SameMessage(d, ref.of))
        BY <1>1, <3>2, <3>4 DEF TypeOK, Comm
      <4>3. Promise!OnRecord(d)
        BY <1>1, <4>2 DEF Promise!OnRecord
      <4> QED BY <1>1, <2>2, <2>3, <4>1, <4>3 DEF Promise!Next, Promise!Deliver, Promise!Settle, Copies, Outcome
    <3> QED BY <3>3, <3>4
  <2>5. CASE OutcomeOf(code) = "rejected"
    <3>1. Outcome' = [Outcome EXCEPT ![d] = "rejected"]
      BY <1>1, <2>1, <2>5 DEF Outcome, TypeOK
    <3> QED BY <1>1, <2>2, <2>3, <3>1 DEF Promise!Next, Promise!Settle, Copies, Outcome
  <2>6. CASE OutcomeOf(code) = "queued"
    <3>1. UNCHANGED Outcome
      BY <1>1, <2>1, <2>6 DEF Outcome, TypeOK
    <3> QED BY <2>2, <3>1 DEF Promise!vars, Copies, Outcome
  <2> QED BY <2>4, <2>5, <2>6 DEF OutcomeOf
<1> QED BY <1>2, <1>3

(* Every step is a step of the promise or does not show in it.                *)
LEMMA NextPromise ==
    ASSUME IInv, RelayWaits => Finished, [Next]_vars
    PROVE  [Promise!Next]_(Promise!vars)
<1>0. TypeOK
  BY DEF IInv
<1>1. ASSUME NEW d \in Deliveries, NEW w \in Workers, Post(d, w) PROVE UNCHANGED Promise!vars
  <2>1. comms' = comms /\ status[d] = "queued" /\ status' = [status EXCEPT ![d] = "waiting"]
    BY <1>1 DEF Post, dbVars
  <2>2. UNCHANGED <<Copies, Outcome>>
    BY <1>0, <2>1 DEF Copies, Outcome, TypeOK
  <2> QED BY <2>2 DEF Promise!vars, Copies, Outcome
<1>2. ASSUME NEW d \in Deliveries, TimeOut(d) PROVE UNCHANGED Promise!vars
  <2>1. comms' = comms /\ status[d] = "waiting" /\ status' = [status EXCEPT ![d] = "queued"]
    BY <1>2 DEF TimeOut, dbVars
  <2>2. UNCHANGED <<Copies, Outcome>>
    BY <1>0, <2>1 DEF Copies, Outcome, TypeOK
  <2> QED BY <2>2 DEF Promise!vars, Copies, Outcome
<1>3. ASSUME NEW d \in Deliveries, GiveUp(d) PROVE Promise!Next
  <2>1. comms' = comms /\ status[d] = "queued" /\ status' = [status EXCEPT ![d] = "exhausted"]
    BY <1>3 DEF GiveUp, dbVars
  <2>2. /\ UNCHANGED Copies
        /\ Outcome[d] = "open" /\ Outcome' = [Outcome EXCEPT ![d] = "abandoned"]
    BY <1>0, <2>1 DEF Copies, Outcome, TypeOK
  <2> QED BY <2>2 DEF Promise!Next, Promise!Settle, Copies, Outcome
<1>4. ASSUME NEW w \in Workers, Crash(w) PROVE UNCHANGED Promise!vars
  <2>1. /\ comms' = comms
        /\ \/ status' = status
           \/ status[req[w].of] = "waiting" /\ status' = [status EXCEPT ![req[w].of] = "queued"]
    BY <1>4 DEF Crash, Awaited, dbVars
  <2>2. UNCHANGED <<Copies, Outcome>>
    BY <1>0, <2>1 DEF Copies, Outcome, TypeOK
  <2> QED BY <2>2 DEF Promise!vars, Copies, Outcome
<1>5. ASSUME NEW w \in Workers, Handle(w) PROVE [Promise!Next]_(Promise!vars)
  <2>1. CASE Commit(w)
    BY <2>1, CommitStores
  <2>2. CASE StoreUnhandled(w)
    <3>1. Created(w) = {}
      BY <2>2 DEF IInv, Sound, StoreUnhandled, Created
    <3> QED BY <2>2, <3>1, Invisible DEF StoreUnhandled, relayVars
  <2>3. CASE ~Commit(w) /\ ~StoreUnhandled(w)
    BY <1>5, <2>3, Invisible
       DEF Handle, Refuse, RefuseLate, Escape, NotReady, AnswerExisting, IgnoreOwnMail, ProcessKnown,
           ProcessNew, DocumentRefuses, ProcessFails, FollowUp, FollowUpRefused, FollowUpFails,
           StoreUnhandledFails, Fail, dbVars, relayVars
  <2> QED BY <2>1, <2>2, <2>3
<1>6. CASE Configure \/ UNCHANGED vars
  BY <1>6, Invisible DEF Configure, RotateSecret, UpdateRelaySecret, ChangeAccount, ChangeRelayUser,
     vars, dbVars, relayVars
<1> QED BY <1>1, <1>2, <1>3, <1>4, <1>5, <1>6, ReceiveSettles DEF Next, Done

(* The webhook implements MailDelivery: whatever fails, a delivery is called   *)
(* delivered only when it is on record, and settled once; with a relay that   *)
(* waits for the previous attempt to end it is stored at most once and never  *)
(* after an answer.                                                           *)
THEOREM Implements == Spec => KeepsPromise
<1>1. Init => Promise!Init /\ (RelayWaits => Finished)
  BY PromiseInit, InitFinished
<1>2. IInv /\ (RelayWaits => Finished) /\ [Next]_vars =>
        (RelayWaits => Finished)' /\ [Promise!Next]_(Promise!vars)
  BY NextFinished, NextPromise
<1> QED BY <1>1, <1>2, Invariance, PTL DEF Spec, KeepsPromise, Promise!Spec
=============================================================================
