-------------------------- MODULE RelayUser_proofs ---------------------------
(***************************************************************************)
(* Theorems about RelayUser, for any roles, rights and standard rules and   *)
(* any changes by administrators: a reset leaves the relay user its own     *)
(* Communications and no more, nobody else's rights change, and requests    *)
(* get their session back.                                                  *)
(***************************************************************************)
EXTENDS RelayUser, TLAPS

\* What a reset leaves, until an administrator changes it.
Shape ==
    drifts = 0 /\ user # None =>
        /\ user = ProperUser(None) /\ role = ProperRole
        /\ OwnerRule \in rules
        /\ \A rule \in rules : rule.role = RelayRole => rule = OwnerRule

\* What the block will hand back.
Kept ==
    request # None =>
        IF request.at = "inside" THEN request.previous = OwnSession(request.caller)
        ELSE request.session = OwnSession(request.caller)

\* The inductive invariant.
Inv == TypeOK /\ Shape /\ Kept

-----------------------------------------------------------------------------
(* Lemmas about the operators.                                              *)

\* The rule of the relay role is a rule.
LEMMA OwnerRuleType == OwnerRule \in Rule
BY RelayUserAssumption DEF OwnerRule, Rule

\* A reset leaves the same user, whatever it was.
LEMMA ProperUserIs ==
    ASSUME NEW old
    PROVE  /\ ProperUser(old) = [enabled |-> FALSE, roles |-> {RelayRole}, apiKey |-> FALSE,
                                 shared |-> FALSE, profile |-> {}]
           /\ ProperUser(old) \in User
BY DEF ProperUser, UserSaved, User

\* Saving a user keeps its type.
LEMMA UserSavedType ==
    ASSUME NEW u \in User
    PROVE  UserSaved(u) \in User
BY DEF UserSaved, User

\* With the rules of a role its rights stay.
LEMMA MayKept ==
    ASSUME NEW r, NEW own \in BOOLEAN,
           \A rule : rule.role = r => (rule \in Effective' <=> rule \in Effective)
    PROVE  May({r}, own)' = May({r}, own)
<1>1. {rule \in Effective' : rule.role \in {r} /\ (own \/ ~rule.owner)}
        = {rule \in Effective : rule.role \in {r} /\ (own \/ ~rule.owner)}
  OBVIOUS
<1> QED BY <1>1 DEF May

\* Sessions are typed, and handed back as they came.
LEMMA Sessions ==
    ASSUME NEW c \in Callers \cup {"relay"}
    PROVE  /\ SetUser(c) \in Session
           /\ c \in Callers => OwnSession(c) \in Session /\ HandBack(OwnSession(c)) = OwnSession(c)
<1>1. SetUser(c) \in Session
  BY DEF SetUser, Session
<1>2. ASSUME c \in Callers
      PROVE  OwnSession(c) \in Session /\ HandBack(OwnSession(c)) = OwnSession(c)
  <2>1. OwnSession(c) \in Session
    BY <1>2 DEF OwnSession, Session
  <2>2. HandBack(OwnSession(c)) = OwnSession(c)
    <3>1. PICK p : p = OwnSession(c)
      OBVIOUS
    <3>2. p = [user |-> c, sid |-> "own", data |-> "own", form |-> "own"]
      BY <3>1 DEF OwnSession
    <3>3. HandBack(p) = [user |-> p.user, sid |-> p.sid, data |-> p.data, form |-> p.form]
      BY DEF HandBack, SetUser
    <3> QED BY <3>1, <3>2, <3>3
  <2> QED BY <2>1, <2>2
<1> QED BY <1>1, <1>2

-----------------------------------------------------------------------------
(* The invariant.                                                           *)

\* The initial states.
LEMMA InitInv == Init => Inv
<1> SUFFICES ASSUME Init PROVE Inv
  OBVIOUS
<1>1. rules \subseteq Rule
  BY RelayUserAssumption DEF Init
<1>2. TypeOK
  BY <1>1, RelayUserAssumption DEF Init, TypeOK
<1> QED BY <1>2 DEF Init, Inv, Shape, Kept

\* A step of a request leaves the documents alone.
LEMMA RequestInv ==
    ASSUME Inv, Begin \/ Missing \/ Enter \/ Switch \/ Leave \/ End
    PROVE  Inv'
<1>1. UNCHANGED documents
  BY DEF Begin, Missing, Enter, Switch, Leave, End
<1>2. UNCHANGED <<role, user, rules, drifts>>
  BY <1>1 DEF documents
<1>3. Shape'
  BY <1>2 DEF Inv, Shape
<1>4. /\ request' \in Request \cup {None}
      /\ request' # None => (request'.at = "inside" <=> request'.previous # None)
      /\ Kept'
  <2>1. CASE Begin
    <3>1. PICK c \in Callers :
            request' = [caller |-> c, session |-> OwnSession(c), previous |-> None, at |-> "before"]
      BY <2>1 DEF Begin
    <3>2. OwnSession(c) \in Session
      BY Sessions
    <3> QED BY <3>1, <3>2 DEF Request, Kept
  <2>2. CASE Missing
    <3>1. request \in Request /\ request.at = "before" /\ request' = [request EXCEPT !.at = "after"]
          /\ request.previous = None /\ request.session = OwnSession(request.caller)
      BY <2>2 DEF Missing, Inv, TypeOK, Kept
    <3> QED BY <3>1 DEF Request, Kept
  <2>3. CASE Enter
    <3>1. /\ request \in Request /\ request.session = OwnSession(request.caller)
          /\ request' = [request EXCEPT !.at = "inside", !.previous = request.session,
                                        !.session = SetUser("relay")]
      BY <2>3 DEF Enter, Inv, TypeOK, Kept
    <3>2. SetUser("relay") \in Session
      BY Sessions
    <3>3. request.session # None
      BY <3>1, NoneAssumption DEF Request
    <3> QED BY <3>1, <3>2, <3>3 DEF Request, Kept
  <2>4. CASE Switch
    <3>1. request \in Request /\ request.at = "inside" /\ request.previous # None
          /\ request.previous = OwnSession(request.caller)
      BY <2>4 DEF Switch, Inv, TypeOK, Kept
    <3>2. PICK s \in Session : request' = [request EXCEPT !.session = s]
      <4>1. ASSUME NEW u \in Callers, request' = [request EXCEPT !.session = SetUser(u)]
            PROVE  \E s \in Session : request' = [request EXCEPT !.session = s]
        BY <4>1, Sessions
      <4>2. ASSUME request' = [request EXCEPT !.session.form = "own"]
            PROVE  \E s \in Session : request' = [request EXCEPT !.session = s]
        <5>1. [request.session EXCEPT !.form = "own"] \in Session
          BY <3>1 DEF Request, Session
        <5> QED BY <4>2, <5>1
      <4> QED BY <2>4, <4>1, <4>2 DEF Switch
    <3> QED BY <3>1, <3>2 DEF Request, Kept
  <2>5. CASE Leave
    <3>1. /\ request \in Request /\ request.previous = OwnSession(request.caller)
          /\ request' = [request EXCEPT !.at = "after", !.session = HandBack(request.previous),
                                        !.previous = None]
      BY <2>5 DEF Leave, Inv, TypeOK, Kept
    <3>2. request.caller \in Callers
      BY <3>1 DEF Request
    <3>3. HandBack(request.previous) = OwnSession(request.caller) /\ OwnSession(request.caller) \in Session
      BY <3>1, <3>2, Sessions
    <3> QED BY <3>1, <3>3 DEF Request, Kept
  <2>6. CASE End
    BY <2>6 DEF End, Kept
  <2> QED BY <2>1, <2>2, <2>3, <2>4, <2>5, <2>6
<1>5. TypeOK'
  BY <1>2, <1>4 DEF Inv, TypeOK
<1> QED BY <1>3, <1>4, <1>5 DEF Inv

\* A change by an administrator, as long as it leaves documents.
LEMMA DriftInv ==
    ASSUME Inv, ChangeUser \/ ChangeRole \/ ChangeRule \/ Restore
    PROVE  Inv'
<1>1. Drifts /\ drifts \in 0 .. MaxDrifts
  BY DEF ChangeUser, ChangeRole, ChangeRule, Restore, Inv, TypeOK
<1>2. drifts' \in 0 .. MaxDrifts /\ drifts' # 0 /\ request' = request
  BY <1>1, RelayUserAssumption DEF Drifts
<1>3. Shape' /\ Kept'
  BY <1>2 DEF Shape, Kept, Inv
<1>4. CASE ChangeUser
  <2>1. user # None /\ user \in User /\ role' = role /\ rules' = rules
    BY <1>4 DEF ChangeUser, Inv, TypeOK
  <2>2. ASSUME NEW r \in Roles, NEW u \in { [user EXCEPT !.enabled = TRUE],
                                           [user EXCEPT !.apiKey = TRUE],
                                           [user EXCEPT !.roles = @ \cup {r}],
                                           [user EXCEPT !.roles = @ \ {RelayRole}],
                                           [user EXCEPT !.profile = @ \cup {r}] }
        PROVE  u \in User
    <3>1. [user EXCEPT !.enabled = TRUE] \in User /\ [user EXCEPT !.apiKey = TRUE] \in User
      BY <2>1 DEF User
    <3>2. [user EXCEPT !.roles = @ \cup {r}] \in User /\ [user EXCEPT !.roles = @ \ {RelayRole}] \in User
      BY <2>1 DEF User
    <3>3. [user EXCEPT !.profile = @ \cup {r}] \in User
      BY <2>1 DEF User
    <3> QED BY <2>2, <3>1, <3>2, <3>3
  <2>3. user' \in User \cup {None}
    <3>1. [user EXCEPT !.shared = TRUE] \in User
      BY <2>1 DEF User
    <3> QED BY <1>4, <2>2, <3>1, UserSavedType DEF ChangeUser
  <2> QED BY <1>2, <1>3, <2>1, <2>3 DEF Inv, TypeOK
<1>5. CASE ChangeRole
  <2>1. role # None /\ role \in Role /\ user' = user /\ rules' = rules
    BY <1>5 DEF ChangeRole, Inv, TypeOK
  <2>2. role' \in Role
    BY <1>5, <2>1 DEF ChangeRole, Role
  <2>3. role' # None
    BY <2>2, NoneAssumption
  <2> QED BY <1>2, <1>3, <2>1, <2>2, <2>3 DEF Inv, TypeOK
<1>6. CASE ChangeRule
  <2>1. rules' \subseteq Rule
    BY <1>6, RelayUserAssumption DEF ChangeRule, Inv, TypeOK, Rule
  <2> QED BY <1>2, <1>3, <1>6, <2>1 DEF ChangeRule, Inv, TypeOK
<1>7. CASE Restore
  BY <1>2, <1>3, <1>7 DEF Restore, Inv, TypeOK
<1> QED BY <1>4, <1>5, <1>6, <1>7

\* A reset makes the shape, whatever there was.
LEMMA EnsureInv ==
    ASSUME Inv, Ensure
    PROVE  Inv'
<1>1. role' = ProperRole /\ user' = ProperUser(None) /\ drifts' = 0 /\ request' = request
  BY ProperUserIs DEF Ensure
<1>2. rules' \subseteq Rule /\ OwnerRule \in rules' /\ \A rule \in rules' : rule.role = RelayRole => rule = OwnerRule
  BY OwnerRuleType, RelayUserAssumption DEF Ensure, ProperRules, Inv, TypeOK
<1>3. ProperRole \in Role /\ ProperRole # None
  <2>1. ProperRole \in Role
    BY DEF ProperRole, Role
  <2> QED BY <2>1, NoneAssumption
<1>4. TypeOK'
  BY <1>1, <1>2, <1>3, ProperUserIs, RelayUserAssumption DEF Inv, TypeOK
<1>5. Shape' /\ Kept'
  BY <1>1, <1>2 DEF Inv, Shape, Kept, ProperRole
<1> QED BY <1>4, <1>5 DEF Inv

\* An uninstall, or a change of somebody else's rule, leaves the shape.
LEMMA OtherInv ==
    ASSUME Inv, Remove \/ ChangeOthers \/ UNCHANGED vars
    PROVE  Inv'
<1>1. CASE Remove
  BY <1>1 DEF Remove, Inv, TypeOK, Shape, Kept
<1>2. CASE ChangeOthers
  <2>1. PICK rule \in Effective : rule.role # RelayRole /\ rules' = Effective \ {rule}
    BY <1>2 DEF ChangeOthers
  <2>2. UNCHANGED <<role, user, drifts, request>>
    BY <1>2 DEF ChangeOthers
  <2>3. rules' \subseteq Rule
    BY <2>1, RelayUserAssumption DEF Effective, Inv, TypeOK
  <2>4. Shape'
    <3> SUFFICES ASSUME drifts = 0, user # None PROVE Shape'
      BY <2>2 DEF Shape
    <3>1. OwnerRule \in rules /\ Effective = rules
      BY DEF Inv, Shape, Effective
    <3>2. OwnerRule.role = RelayRole
      BY DEF OwnerRule
    <3> QED BY <2>1, <2>2, <3>1, <3>2 DEF Inv, Shape, ProperUser, ProperRole, UserSaved
  <2> QED BY <2>2, <2>3, <2>4 DEF Inv, TypeOK, Kept
<1>3. CASE UNCHANGED vars
  BY <1>3 DEF vars, Inv, TypeOK, Shape, Kept
<1> QED BY <1>1, <1>2, <1>3

-----------------------------------------------------------------------------
(* The theorems.                                                            *)

\* The invariant holds in every reachable state.
THEOREM Invariance == Spec => []Inv
<1>1. Inv /\ [Next]_vars => Inv'
  BY RequestInv, DriftInv, EnsureInv, OtherInv DEF Next
<1> QED BY <1>1, InitInv, PTL DEF Spec

\* Every variable keeps its type.
THEOREM TypeCorrect == Spec => []TypeOK
<1>1. Inv => TypeOK
  BY DEF Inv
<1> QED BY <1>1, Invariance, PTL

\* After every install and migrate the relay user may do no more with
\* Communications than read and write its own, over what every user may; it has
\* no other role and can't log in.
THEOREM LeastPrivileged == Spec => []LeastPrivilege
<1>1. Inv => LeastPrivilege
  <2> SUFFICES ASSUME Inv, drifts = 0, user # None
               PROVE  /\ ~user.enabled /\ ~user.apiKey /\ ~user.shared
                      /\ user.roles \cap Roles = {} /\ ~role.desk
                      /\ May(Held, FALSE) = May({All}, FALSE)
                      /\ May(Held, TRUE) \subseteq May({All}, TRUE) \cup {"read", "write"}
    BY DEF LeastPrivilege
  <2>1. /\ user = [enabled |-> FALSE, roles |-> {RelayRole}, apiKey |-> FALSE, shared |-> FALSE,
                   profile |-> {}]
        /\ role = [disabled |-> FALSE, desk |-> FALSE]
    BY ProperUserIs DEF Inv, Shape, ProperRole
  <2>2. Held = {RelayRole, All}
    BY <2>1 DEF Held
  <2>3. \A rule \in Effective : rule.role = RelayRole => rule.owner /\ rule.rights = {"read", "write"}
    BY DEF Inv, Shape, Effective, OwnerRule
  <2>4. {rule \in Effective : rule.role \in {RelayRole, All} /\ (FALSE \/ ~rule.owner)}
          = {rule \in Effective : rule.role \in {All} /\ (FALSE \/ ~rule.owner)}
    BY <2>3
  <2>5. May(Held, FALSE) = May({All}, FALSE)
    BY <2>2, <2>4 DEF May
  <2>6. May(Held, TRUE) \subseteq May({All}, TRUE) \cup {"read", "write"}
    BY <2>2, <2>3 DEF May
  <2> QED BY <2>1, <2>5, <2>6, RelayUserAssumption
<1> QED BY <1>1, Invariance, PTL

\* ... and it may do that.
THEOREM Deliverable == Spec => []CanDeliver
<1>1. Inv => CanDeliver
  <2> SUFFICES ASSUME Inv, drifts = 0, user # None
               PROVE  {"read", "write"} \subseteq May(Held, TRUE)
    BY DEF CanDeliver
  <2>1. OwnerRule \in Effective /\ OwnerRule.role = RelayRole /\ OwnerRule.rights = {"read", "write"}
    BY DEF Inv, Shape, Effective, OwnerRule
  <2>2. RelayRole \in Held
    BY ProperUserIs DEF Inv, Shape, ProperRole, Held
  <2> QED BY <2>1, <2>2 DEF May
<1> QED BY <1>1, Invariance, PTL

\* Requests go on with the session they had.
THEOREM SessionsHandedBack == Spec => []SessionHandedBack
<1>1. Inv => SessionHandedBack
  BY DEF Inv, Kept, SessionHandedBack
<1> QED BY <1>1, Invariance, PTL

\* Install, migrate and uninstall change nobody else's rights, unless only the
\* relay role's rules are left when the app is uninstalled.
THEOREM OthersUnchanged == Spec => OthersKeepAccess
<1>1. ASSUME Ensure, NEW r \in Roles \cup {All}, NEW own \in BOOLEAN
      PROVE  May({r}, own)' = May({r}, own)
  <2>1. OwnerRule.role # r
    BY RelayUserAssumption DEF OwnerRule
  <2>2. Effective' = {rule \in Effective : rule.role # RelayRole} \cup {OwnerRule}
    BY <1>1 DEF Ensure, ProperRules, Effective
  <2> QED BY <2>1, <2>2, MayKept, RelayUserAssumption
<1>2. ASSUME Remove, ~\A rule \in rules : rule.role = RelayRole, NEW r \in Roles \cup {All}, NEW own \in BOOLEAN
      PROVE  May({r}, own)' = May({r}, own)
  <2>1. Effective' = {rule \in rules : rule.role # RelayRole} /\ Effective = rules
    BY <1>2 DEF Remove, Effective
  <2> QED BY <2>1, MayKept, RelayUserAssumption
<1>3. [Next]_vars =>
        [Ensure \/ Remove =>
           \/ \A r \in Roles \cup {All}, own \in BOOLEAN : May({r}, own)' = May({r}, own)
           \/ Remove /\ \A rule \in rules : rule.role = RelayRole]_vars
  BY <1>1, <1>2
<1> QED BY <1>3, PTL DEF Spec, OthersKeepAccess
=============================================================================
