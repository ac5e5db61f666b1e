----------------------------- MODULE RelayUser ------------------------------
(***************************************************************************)
(* The relay user, the least-privilege user the webhook processes mail as:  *)
(* installed, reset by every migrate and removed by the app, changed by     *)
(* administrators in between, and lent to requests by acting_as_relay_user. *)
(*                                                                          *)
(* What a user may do with Communications follows from the Custom DocPerm   *)
(* rules, which replace the doctype's standard ones wholesale, and from the *)
(* roles the user has.  Communication is the one doctype the app gives the  *)
(* relay role rules for (OWNER_PERMISSIONS); what administrators add to the *)
(* role on another is outside the module.  `ensure_relay_user` and          *)
(* `remove_relay_user` run in the one transaction of an install, a migrate  *)
(* or an uninstall: a step each, as no administrator is assumed to change   *)
(* these rules meanwhile.                                                   *)
(***************************************************************************)
EXTENDS Naturals

CONSTANTS
    Roles,      \* roles of other users, with access to the desk
    RelayRole, All,   \* All: the role every user has
    Rights,     \* permissions on Communications
    Standard,   \* the standard rules of Communication
    Callers,    \* users requests come from
    MaxDrifts,  \* changes by administrators between two resets (a bound)
    None

Rule == [role : Roles \cup {RelayRole, All}, rights : SUBSET Rights, owner : BOOLEAN]

ASSUME RelayUserAssumption ==
    /\ {"read", "write"} \subseteq Rights
    /\ RelayRole \notin Roles \cup {All} /\ All \notin Roles
    /\ Standard \subseteq Rule /\ Standard # {}
    /\ \A rule \in Standard : rule.role # RelayRole
    /\ MaxDrifts \in Nat
    /\ "relay" \notin Callers

VARIABLES
    role,     \* the Role document of the relay role
    user,     \* the User document of the relay user, with the shares it has
    rules,    \* the Custom DocPerm rules of Communication
    drifts,   \* changes since the last ensure_relay_user
    request   \* a request that uses the relay user

vars == <<role, user, rules, drifts, request>>
documents == <<role, user, rules, drifts>>
-----------------------------------------------------------------------------
Role == [disabled : BOOLEAN, desk : BOOLEAN]

\* profile: the roles of the role profiles the user is assigned.
User == [enabled : BOOLEAN, roles : SUBSET (Roles \cup {RelayRole}), profile : SUBSET Roles,
         apiKey : BOOLEAN, shared : BOOLEAN]

\* frappe.session and form_dict: "own" as the request came with them.
Session == [user : Callers \cup {"relay"}, sid : {"own"} \cup Callers \cup {"relay"},
            data : {"own", "empty"}, form : {"own", "empty"}]

Request == [caller : Callers, session : Session, previous : Session \cup {None},
            at : {"before", "inside", "after"}]

ASSUME NoneAssumption == None \notin Role \cup Session

TypeOK ==
    /\ role \in Role \cup {None}
    /\ user \in User \cup {None}
    /\ rules \subseteq Rule
    /\ drifts \in 0 .. MaxDrifts
    /\ request \in Request \cup {None}
    /\ user # None => role # None
    /\ request # None => (request.at = "inside" <=> request.previous # None)

\* Before the app is installed; the site may have rules of its own.
Init ==
    /\ role = None /\ user = None
    /\ rules \in {{}} \cup {Standard \ {rule} : rule \in Standard}
    /\ drifts = 0 /\ request = None
-----------------------------------------------------------------------------
(* What the documents grant (Frappe).                                       *)

Effective == IF rules = {} THEN Standard ELSE rules

\* The rights on Communications of a user with these roles: on its own, or on
\* those of others.
May(roles, own) ==
    UNION {rule.rights : rule \in {r \in Effective : r.role \in roles /\ (own \/ ~r.owner)}}

\* The relay user's roles.
Held == {r \in user.roles : r = RelayRole => ~role.disabled} \cup {All}

\* User.validate adds the roles of the assigned profiles.
UserSaved(u) == [u EXCEPT !.roles = u.roles \cup u.profile]
-----------------------------------------------------------------------------
(* ensure_relay_user and remove_relay_user.                                 *)

\* The relay role's own rule: its Communications, read and write.
OwnerRule == [role |-> RelayRole, rights |-> {"read", "write"}, owner |-> TRUE]

\* As if a role that exists were not enabled again.
RoleLeftDisabled == [disabled |-> role # None /\ role.disabled, desk |-> FALSE]

\* _ensure_role.
ProperRole == [disabled |-> FALSE, desk |-> FALSE]

\* As if the roles were reset and the profiles kept.
ProperRolesOnly(old) ==
    UserSaved([enabled |-> FALSE, roles |-> {RelayRole}, apiKey |-> FALSE, shared |-> FALSE,
               profile |-> IF old = None THEN {} ELSE old.profile])

\* _ensure_user, whatever the user was.
ProperUser(old) ==
    UserSaved([enabled |-> FALSE, roles |-> {RelayRole}, apiKey |-> FALSE, shared |-> FALSE,
               profile |-> {}])

\* As if the standard rules were not copied first.
RuleAdded(old) == {rule \in old : rule.role # RelayRole} \cup {OwnerRule}

\* _ensure_permissions, for Communication: the standard rules are copied when
\* there is no custom one, and one rule of the role is left.
ProperRules(old) ==
    {rule \in (IF old = {} THEN Standard ELSE old) : rule.role # RelayRole} \cup {OwnerRule}

Ensure ==
    /\ role' = ProperRole
    /\ user' = ProperUser(user)
    /\ rules' = ProperRules(rules)
    /\ drifts' = 0
    /\ UNCHANGED request

\* As if the user were left.
RemoveRole ==
    /\ user # None \/ role # None
    /\ rules' = {rule \in rules : rule.role # RelayRole}
    /\ role' = None
    /\ UNCHANGED <<user, drifts, request>>

\* The copied standard rules stay.
Remove ==
    /\ user # None \/ role # None
    /\ rules' = {rule \in rules : rule.role # RelayRole}
    /\ user' = None /\ role' = None
    /\ UNCHANGED <<drifts, request>>
-----------------------------------------------------------------------------
(* Administrators (external).                                               *)

Drifts ==
    /\ drifts < MaxDrifts
    /\ drifts' = drifts + 1
    /\ UNCHANGED request

\* The user is saved with one field changed, is shared a document or deleted.
ChangeUser ==
    /\ user # None
    /\ \/ \E r \in Roles : \E u \in { [user EXCEPT !.enabled = TRUE],
                                      [user EXCEPT !.apiKey = TRUE],
                                      [user EXCEPT !.roles = @ \cup {r}],
                                      [user EXCEPT !.roles = @ \ {RelayRole}],
                                      [user EXCEPT !.profile = @ \cup {r}] } : user' = UserSaved(u)
       \/ user' = [user EXCEPT !.shared = TRUE]
       \/ user' = None
    /\ Drifts /\ UNCHANGED <<role, rules>>

\* The role is disabled or given the desk.
ChangeRole ==
    /\ role # None
    /\ role' \in {[role EXCEPT !.disabled = TRUE], [role EXCEPT !.desk = TRUE]}
    /\ Drifts /\ UNCHANGED <<user, rules>>

\* The role gets another rule on Communication, or loses one.
ChangeRule ==
    /\ role # None
    /\ \/ \E rights \in SUBSET Rights, owner \in BOOLEAN :
            rules' = (IF rules = {} THEN Standard ELSE rules)
                       \cup {[role |-> RelayRole, rights |-> rights, owner |-> owner]}
       \/ \E rule \in rules : rule.role = RelayRole /\ rules \ {rule} # {} /\ rules' = rules \ {rule}
    /\ Drifts /\ UNCHANGED <<role, user>>

\* The original permissions of Communication are restored.
Restore ==
    /\ rules # {} /\ rules' = {}
    /\ Drifts /\ UNCHANGED <<role, user>>

\* Somebody else's rule is removed, never the last of all.
ChangeOthers ==
    /\ \E rule \in Effective :
         /\ rule.role # RelayRole /\ Effective # {rule}
         /\ rules' = Effective \ {rule}
    /\ UNCHANGED <<role, user, drifts, request>>
-----------------------------------------------------------------------------
(* Requests: api.inbound, and the demo's setup.                             *)

\* frappe.set_user: the session id, data and form dict are reset with the user.
SetUser(u) == [user |-> u, sid |-> u, data |-> "empty", form |-> "empty"]

OwnSession(caller) == [user |-> caller, sid |-> "own", data |-> "own", form |-> "own"]

Begin ==
    /\ request = None
    /\ \E c \in Callers :
         request' = [caller |-> c, session |-> OwnSession(c), previous |-> None, at |-> "before"]
    /\ UNCHANGED documents

\* RelayUserMissing.
Missing ==
    /\ request # None /\ request.at = "before" /\ user = None
    /\ request' = [request EXCEPT !.at = "after"]
    /\ UNCHANGED documents

Enter ==
    /\ request # None /\ request.at = "before" /\ user # None
    /\ request' = [request EXCEPT !.at = "inside", !.previous = request.session,
                                  !.session = SetUser("relay")]
    /\ UNCHANGED documents

\* What runs in the block may switch users itself, or fill the form dict.
Switch ==
    /\ request # None /\ request.at = "inside"
    /\ \/ \E u \in Callers : request' = [request EXCEPT !.session = SetUser(u)]
       \/ request' = [request EXCEPT !.session.form = "own"]
    /\ UNCHANGED documents

\* As if only the user were handed back.
HandBackUser(previous) == SetUser(previous.user)

\* set_user, and then what it has reset.
HandBack(previous) ==
    [user |-> SetUser(previous.user).user,
     sid |-> previous.sid, data |-> previous.data, form |-> previous.form]

\* The block ends, by a return or an exception.
Leave ==
    /\ request # None /\ request.at = "inside"
    /\ request' = [request EXCEPT !.at = "after", !.session = HandBack(request.previous),
                                  !.previous = None]
    /\ UNCHANGED documents

End ==
    /\ request # None /\ request.at = "after"
    /\ request' = None
    /\ UNCHANGED documents

Next ==
    \/ Ensure \/ Remove
    \/ ChangeUser \/ ChangeRole \/ ChangeRule \/ Restore \/ ChangeOthers
    \/ Begin \/ Missing \/ Enter \/ Switch \/ Leave \/ End

Spec == Init /\ [][Next]_vars
-----------------------------------------------------------------------------
(* Properties.                                                              *)

\* Whatever administrators gave the relay user before - roles, role profiles,
\* shares, rules for its role on Communication -, after an install or migrate it
\* has no other role, can't log in ("a role added by hand does not survive a
\* migrate", relay_user.py:22), and may do no more with Communications than any
\* user, but read and write those it owns.  This says nothing of other doctypes:
\* rules for its role there are in no variable, and the code leaves them as they are.
LeastPrivilege ==
    drifts = 0 /\ user # None =>
        /\ ~user.enabled /\ ~user.apiKey /\ ~user.shared
        /\ user.roles \cap Roles = {} /\ ~role.desk
        /\ May(Held, FALSE) = May({All}, FALSE)
        /\ May(Held, TRUE) \subseteq May({All}, TRUE) \cup {"read", "write"}

\* ... and no less: mail can be processed after every migrate, also when the
\* role was disabled, its rule deleted or the user removed before.
CanDeliver ==
    drifts = 0 /\ user # None => {"read", "write"} \subseteq May(Held, TRUE)

\* Install, migrate and uninstall change nobody else's rights on Communications,
\* whether these came from the standard rules or from custom ones - unless an
\* administrator has removed every rule but the relay role's, when an uninstall
\* brings the standard rules back.
OthersKeepAccess ==
    [][Ensure \/ Remove =>
         \/ \A r \in Roles \cup {All}, own \in BOOLEAN : May({r}, own)' = May({r}, own)
         \/ Remove /\ \A rule \in rules : rule.role = RelayRole]_vars

\* A request goes on after the block with the user, session id, data and form
\* dict it had before, whatever ran in the block and however it ended
\* ("the request ends exactly as it started", relay_user.py:146).
SessionHandedBack ==
    request # None /\ request.at # "inside" => request.session = OwnSession(request.caller)
=============================================================================
