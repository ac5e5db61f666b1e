------------------------ MODULE WebhookAccount_proofs ------------------------
(***************************************************************************)
(* Theorems about WebhookAccount, for any number of accounts, domains and   *)
(* requests: keys stay, at most one account is the default and gets to be   *)
(* it by somebody's choice, and no domain is left with an expired token.    *)
(*                                                                          *)
(* They rest on what makes Frappe's comparison of the time of change work:  *)
(* a row read earlier that still has the time of change of the stored one   *)
(* agrees with it, save for the mask of its secret.                         *)
(***************************************************************************)
EXTENDS WebhookAccount, TLAPS

\* A row of account a read earlier, against the stored one.
Agrees(row, a) ==
    /\ row.modified <= writes
    /\ row.modified = account[a].modified =>
         row.key = account[a].key /\ row.default = account[a].default

\* The rows that a request may write again.
RowsAgree(r) ==
    /\ r.task = "account" => Agrees(r.form, r.of)
    /\ r.task = "domain" => \A a \in Accounts : Agrees(r.snap.account[a], a)

Agree ==
    /\ \A a \in Accounts : account[a].modified <= writes
    /\ \A u \in Editors : editor[u] # None => RowsAgree(editor[u])

\* The inductive invariant.
Inv == TypeOK /\ Agree /\ OneDefault /\ TokenWorks

-----------------------------------------------------------------------------
(* Lemmas about what a save writes.                                         *)

\* A credential made by a save within the bound is one.
LEMMA FreshType ==
    ASSUME TypeOK, writes < MaxWrites, NEW a \in Accounts
    PROVE  Fresh(a) \in Credential
BY AccountsAssumption DEF TypeOK, Fresh, Credential

\* Nothing but the row's form, its key, URL, mask and time of change is written.
LEMMA RowType ==
    ASSUME TypeOK, writes < MaxWrites, NEW s \in Database, NEW a \in Accounts, NEW form \in Account
    PROVE  Row(s, a, form) \in Account
<1>1. writes + 1 \in 0 .. MaxWrites
  BY AccountsAssumption DEF TypeOK
<1>2. KeyOf(a, form) \in Credential \cup {None}
  BY FreshType DEF KeyOf, Account
<1>3. form.incoming => UrlOf(s, a, form) \in Url \cup {None}
  <2>1. CASE form.key # None
    BY <2>1 DEF KeyOf, UrlOf, Url, Account, Database
  <2>2. CASE form.key = None
    BY <2>2, FreshType DEF KeyOf, UrlOf, Url, Account, Database
  <2> QED BY <2>1, <2>2
<1>4. UrlOf(s, a, form) \in Url \cup {None}
  BY <1>3 DEF UrlOf
<1>5. (form.masked \/ s.auth[a] = None) \in BOOLEAN
  OBVIOUS
<1> QED BY <1>1, <1>2, <1>4, <1>5 DEF Row, Account

\* A saved row carries the save's time of change, the flags of the form, and its
\* key if it has one.
LEMMA RowFields ==
    ASSUME NEW s, NEW a \in Accounts, NEW form \in Account
    PROVE  /\ Row(s, a, form).modified = writes + 1
           /\ Row(s, a, form).default = form.default
           /\ form.key # None => Row(s, a, form).key = form.key
BY DEF Row, KeyOf, Account

\* Undefault writes accounts.
LEMMA UndefaultType ==
    ASSUME TypeOK, writes < MaxWrites, NEW rows \in [Accounts -> Account], NEW saved
    PROVE  Undefault(rows, saved) \in [Accounts -> Account]
<1>1. writes + 1 \in 0 .. MaxWrites
  BY AccountsAssumption DEF TypeOK
<1>2. \A b \in Accounts : [rows[b] EXCEPT !.default = FALSE, !.modified = writes + 1] \in Account
  BY <1>1 DEF Account
<1> QED BY <1>2 DEF Undefault

\* Undefault only takes a flag away, and then counts as a change.
LEMMA UndefaultFields ==
    ASSUME NEW rows \in [Accounts -> Account], NEW saved, NEW b \in Accounts
    PROVE  /\ Undefault(rows, saved)[b].key = rows[b].key
           /\ Undefault(rows, saved)[b].default => rows[b].default
           /\ \/ Undefault(rows, saved)[b] = rows[b]
              \/ Undefault(rows, saved)[b].modified = writes + 1
           /\ Undefault(rows, saved)[b].default => \A a \in saved \ {b} : ~rows[a].default
BY DEF Undefault, Account

\* A form that an editor has changed in one field keeps the key it has, and its type.
LEMMA EditedForm ==
    ASSUME NEW row \in Account, NEW s \in Database, NEW form \in Edited(row, s)
    PROVE  /\ form \in Account
           /\ row.key # None => form.key = row.key
<1>1. CASE form \in {row, [row EXCEPT !.incoming = ~row.incoming], [row EXCEPT !.default = ~row.default]}
  BY <1>1 DEF Account
<1>2. ASSUME NEW d \in Domains \cup {None}, form = [row EXCEPT !.domain = d]
      PROVE  /\ form \in Account
             /\ row.key # None => form.key = row.key
  BY <1>2 DEF Account
<1>3. ASSUME NEW b \in Accounts, row.key = None, form = [row EXCEPT !.key = s.account[b].key]
      PROVE  /\ form \in Account
             /\ row.key # None => form.key = row.key
  BY <1>3 DEF Account, Database
<1> QED BY <1>1, <1>2, <1>3 DEF Edited

\* What a save makes of a secret is one.
LEMMA SecretType ==
    ASSUME TypeOK, writes < MaxWrites, NEW s, NEW a \in Accounts, NEW form
    PROVE  SecretOf(s, a, form) \in Credential \cup {None}
BY FreshType DEF SecretOf, TypeOK

-----------------------------------------------------------------------------
(* What the two saves do to the accounts, told alike for both.              *)

\* The accounts that are saved, each with its form's key and flag.
Saved(saved, rows) ==
    /\ rows \in [Accounts -> Account]
    /\ saved \subseteq Accounts
    /\ account' = Undefault(rows, saved)
    /\ \A a \in saved : /\ rows[a].modified = writes + 1
                        /\ account[a].key # None => rows[a].key = account[a].key
    /\ \A a \in Accounts \ saved : rows[a] = account[a]

\* SaveAccount is such a save of one account; only its flag may be set, if the
\* form shows it unset.
LEMMA SaveAccountSaves ==
    ASSUME Inv, NEW u \in Editors, SaveAccount(u)
    PROVE  /\ editor[u].of \in Accounts
           /\ \E rows : /\ Saved({editor[u].of}, rows)
                        /\ rows[editor[u].of].default /\ ~account[editor[u].of].default
                             => ~editor[u].form.default
           /\ auth' \in [Accounts -> Credential \cup {None}]
<1> DEFINE a == editor[u].of
           s == editor[u].snap
<1>1. editor[u] # None /\ editor[u] \in Editor /\ editor[u].task = "account" /\ s # None
  BY DEF SaveAccount, Saves, Inv, TypeOK
<1>2. a \in Accounts /\ s \in Database /\ editor[u].form \in Account
  BY <1>1 DEF Editor
<1>3. writes < MaxWrites /\ TypeOK
  BY DEF SaveAccount, Saves, Inv
<1>4. PICK form \in Edited(editor[u].form, s) :
        /\ account' = Undefault([account EXCEPT ![a] = Row(s, a, form)], {a})
        /\ auth' = [auth EXCEPT ![a] = SecretOf(s, a, form)]
  BY DEF SaveAccount
<1>5. form \in Account /\ (editor[u].form.key # None => form.key = editor[u].form.key)
  BY <1>2, EditedForm
<1>6. editor[u].form.key = account[a].key /\ editor[u].form.default = account[a].default
  BY <1>1 DEF SaveAccount, UpToDate, Inv, Agree, RowsAgree, Agrees
<1> DEFINE rows == [account EXCEPT ![a] = Row(s, a, form)]
<1>7. Row(s, a, form) \in Account
  BY <1>2, <1>3, <1>5, RowType
<1>8. rows \in [Accounts -> Account] /\ rows[a] = Row(s, a, form)
  BY <1>2, <1>3, <1>7 DEF TypeOK
<1>9. rows[a].modified = writes + 1 /\ (account[a].key # None => rows[a].key = account[a].key)
  BY <1>2, <1>5, <1>6, <1>8, RowFields
<1>10. \A b \in Accounts \ {a} : rows[b] = account[b]
  BY <1>3 DEF TypeOK
<1>11. Saved({a}, rows)
  BY <1>2, <1>4, <1>8, <1>9, <1>10 DEF Saved
<1>12. ~account[a].default => ~editor[u].form.default
  BY <1>6
<1>13. auth' \in [Accounts -> Credential \cup {None}]
  BY <1>2, <1>3, <1>4, SecretType DEF TypeOK
<1> QED BY <1>2, <1>11, <1>12, <1>13

\* SaveDomain is such a save of the linked accounts, whose flags stay.
LEMMA SaveDomainSaves ==
    ASSUME Inv, NEW u \in Editors, SaveDomain(u)
    PROVE  /\ \E saved, rows : /\ Saved(saved, rows)
                               /\ \A a \in saved : rows[a].default = account[a].default
           /\ auth' \in [Accounts -> Credential \cup {None}]
           /\ domain' \in [Domains -> Domain]
           /\ TokenWorks'
<1> DEFINE d == editor[u].of
           old == editor[u].snap
           linked == {a \in Accounts : old.account[a].domain = d}
<1>1. editor[u] # None /\ editor[u] \in Editor /\ editor[u].task = "domain"
  BY DEF SaveDomain, Saves, Inv, TypeOK
<1>2. d \in Domains /\ old \in Database
  BY <1>1 DEF Editor
<1>3. writes < MaxWrites /\ TypeOK /\ writes + 1 \in 0 .. MaxWrites
  <2>1. writes < MaxWrites /\ TypeOK
    BY DEF SaveDomain, Saves, Inv
  <2> QED BY <2>1, AccountsAssumption DEF TypeOK
<1>4. PICK cloudflare \in BOOLEAN, token \in Tokens :
        LET row == [cloudflare |-> cloudflare, token |-> token, modified |-> writes + 1]
            s == [old EXCEPT !.domain[d] = row]
        IN /\ cloudflare => TokenPasses(token)
           /\ \A a \in linked : UpToDate(a, s.account[a])
           /\ domain' = [domain EXCEPT ![d] = row]
           /\ account' = Undefault([a \in Accounts |->
                IF a \in linked THEN Row(s, a, s.account[a]) ELSE account[a]], linked)
           /\ auth' = [a \in Accounts |->
                IF a \in linked THEN SecretOf(s, a, s.account[a]) ELSE auth[a]]
  BY DEF SaveDomain
<1> DEFINE row == [cloudflare |-> cloudflare, token |-> token, modified |-> writes + 1]
           s == [old EXCEPT !.domain[d] = row]
           rows == [a \in Accounts |-> IF a \in linked THEN Row(s, a, s.account[a]) ELSE account[a]]
<1>5. row \in Domain
  BY <1>3 DEF Domain
<1>6. s \in Database /\ s.account = old.account
  BY <1>2, <1>5 DEF Database
<1>7. \A a \in Accounts : s.account[a] \in Account
  BY <1>6 DEF Database
<1>8. \A a \in linked : s.account[a].key = account[a].key /\ s.account[a].default = account[a].default
  BY <1>1, <1>4, <1>6 DEF UpToDate, Inv, Agree, RowsAgree, Agrees
<1> HIDE DEF s
<1>9. \A a \in Accounts : rows[a] \in Account
  BY <1>3, <1>6, <1>7, RowType DEF TypeOK
<1>10. \A a \in linked :
         /\ rows[a].modified = writes + 1
         /\ account[a].key # None => rows[a].key = account[a].key
         /\ rows[a].default = account[a].default
  BY <1>7, <1>8, RowFields
<1>11. Saved(linked, rows)
  BY <1>4, <1>9, <1>10 DEF Saved, s
<1>12. auth' \in [Accounts -> Credential \cup {None}]
  BY <1>3, <1>4, SecretType DEF TypeOK, s
<1>13. domain' \in [Domains -> Domain]
  BY <1>3, <1>4, <1>5 DEF TypeOK
<1>14. TokenWorks'
  <2>1. cloudflare => Nature[token] # "dead"
    BY <1>4 DEF TokenPasses, AnswersFor, Verdict, Final
  <2> QED BY <1>2, <1>3, <1>4, <2>1 DEF TokenWorks, Inv, TypeOK
<1> QED BY <1>10, <1>11, <1>12, <1>13, <1>14

\* What such a save leaves of keys, flags and times of change.
LEMMA SavedFields ==
    ASSUME TypeOK, OneDefault, writes < MaxWrites, NEW saved, NEW rows, Saved(saved, rows)
    PROVE  /\ account' \in [Accounts -> Account]
           /\ \A a \in Accounts :
                /\ account[a].key # None => account'[a].key = account[a].key
                /\ account'[a] = account[a] \/ account'[a].modified = writes + 1
                /\ account'[a].default => rows[a].default
           /\ OneDefault'
<1>1. account' \in [Accounts -> Account]
  BY UndefaultType DEF Saved
<1>2. \A a \in Accounts : /\ account'[a].key = rows[a].key
                          /\ account'[a].default => rows[a].default
                          /\ account'[a] = rows[a] \/ account'[a].modified = writes + 1
                          /\ account'[a].default => \A b \in saved \ {a} : ~rows[b].default
  BY UndefaultFields DEF Saved
<1>3. ASSUME NEW a \in Accounts
      PROVE  /\ account[a].key # None => account'[a].key = account[a].key
             /\ account'[a] = account[a] \/ account'[a].modified = writes + 1
  <2>1. CASE a \in saved
    <3>1. rows[a].modified = writes + 1 /\ (account[a].key # None => rows[a].key = account[a].key)
      BY <2>1 DEF Saved
    <3>2. account'[a].key = rows[a].key /\ (account'[a] = rows[a] \/ account'[a].modified = writes + 1)
      BY <1>2
    <3> QED BY <3>1, <3>2
  <2>2. CASE a \notin saved
    BY <1>2, <2>2 DEF Saved
  <2> QED BY <2>1, <2>2
<1>4. OneDefault'
  <2> SUFFICES ASSUME NEW a \in Accounts, NEW b \in Accounts, account'[a].default, account'[b].default, a # b
               PROVE  FALSE
    BY DEF OneDefault
  <2>1. rows[a].default /\ rows[b].default /\ a \notin saved /\ b \notin saved
    BY <1>2
  <2>2. account[a].default /\ account[b].default
    BY <2>1 DEF Saved
  <2> QED BY <2>2 DEF OneDefault
<1> QED BY <1>1, <1>2, <1>3, <1>4

-----------------------------------------------------------------------------
(* The invariant.                                                           *)

\* The accounts of the initial state.
LEMMA InitInv == Init => Inv
<1> SUFFICES ASSUME Init PROVE Inv
  OBVIOUS
<1>1. TypeOK
  <2>1. account \in [Accounts -> Account]
    <3>1. [domain : Domains \cup {None}, incoming : {TRUE}, default : {FALSE}, key : {None},
           url : {None}, masked : {FALSE}, modified : {0}] \subseteq Account
      <4> SUFFICES ASSUME NEW r \in [domain : Domains \cup {None}, incoming : {TRUE}, default : {FALSE},
                             key : {None}, url : {None}, masked : {FALSE}, modified : {0}]
                   PROVE  r \in Account
        OBVIOUS
      <4>1. 0 \in 0 .. MaxWrites
        BY AccountsAssumption
      <4> QED BY <4>1 DEF Account
    <3> QED BY <3>1 DEF Init
  <2>2. domain \in [Domains -> Domain] /\ host \in Hosts
    BY AccountsAssumption DEF Init, Domain
  <2>3. /\ auth \in [Accounts -> Credential \cup {None}]
        /\ editor \in [Editors -> Editor \cup {None}]
        /\ relay \in [Accounts -> [url : Url, secret : Credential] \cup {None}]
    BY DEF Init
  <2>4. writes \in 0 .. MaxWrites /\ moves \in 0 .. MaxMoves
    BY AccountsAssumption DEF Init
  <2> QED BY <2>1, <2>2, <2>3, <2>4 DEF TypeOK
<1>2. OneDefault
  BY DEF Init, OneDefault
<1>3. Agree
  <2>1. \A a \in Accounts : account[a].modified = 0
    BY DEF Init
  <2> QED BY <2>1 DEF Init, Agree
<1>4. TokenWorks
  BY DEF Init, TokenWorks
<1> QED BY <1>1, <1>2, <1>3, <1>4 DEF Inv

\* A step of the desk that only opens or closes a request.
LEMMA StartsInv ==
    ASSUME Inv, NEW u \in Editors, NEW r \in Editor \cup {None}, Starts(u, r),
           r # None => RowsAgree(r)
    PROVE  Inv'
<1>1. TypeOK'
  BY DEF Starts, Inv, TypeOK
<1>2. OneDefault' /\ TokenWorks'
  BY DEF Starts, Inv, OneDefault, TokenWorks
<1>3. \A a \in Accounts : account'[a].modified <= writes'
  BY DEF Starts, Inv, Agree
<1>4. \A v \in Editors : (editor[v] # None => RowsAgree(editor[v]))'
  <2> SUFFICES ASSUME NEW v \in Editors, editor'[v] # None
               PROVE  RowsAgree(editor[v])'
    OBVIOUS
  <2>1. editor'[v] = r \/ editor'[v] = editor[v]
    BY DEF Starts, Inv, TypeOK
  <2>2. account' = account /\ writes' = writes
    BY DEF Starts
  <2>3. RowsAgree(editor'[v])
    BY <2>1 DEF Inv, Agree
  <2> QED BY <2>2, <2>3 DEF RowsAgree, Agrees
<1>5. Agree'
  BY <1>3, <1>4 DEF Agree
<1> QED BY <1>1, <1>2, <1>5 DEF Inv

\* The database as it is agrees with itself.
LEMMA CurrentRows ==
    ASSUME Inv
    PROVE  /\ Current \in Database
           /\ \A a \in Accounts : Agrees(account[a], a)
BY DEF Inv, TypeOK, Agree, Agrees, Current, Database

\* Loading, submitting and giving up preserve the invariant.
LEMMA DeskInv ==
    ASSUME Inv, NEW u \in Editors, Load(u) \/ Submit(u) \/ Request(u) \/ GiveUp(u)
    PROVE  Inv'
<1>1. CASE Load(u)
  <2>1. PICK a \in Accounts :
          Starts(u, [task |-> "account", of |-> a, form |-> account[a], snap |-> None])
    BY <1>1 DEF Load
  <2> DEFINE r == [task |-> "account", of |-> a, form |-> account[a], snap |-> None]
  <2>2. r \in Editor
    BY DEF Editor, Inv, TypeOK
  <2>3. RowsAgree(r)
    BY CurrentRows DEF RowsAgree
  <2> QED BY <2>1, <2>2, <2>3, StartsInv
<1>2. CASE Submit(u)
  <2> DEFINE r == [editor[u] EXCEPT !.snap = Current]
  <2>1. editor[u] # None /\ editor[u] \in Editor
    BY <1>2 DEF Submit, Inv, TypeOK
  <2>2. r \in Editor
    BY <2>1, CurrentRows DEF Editor
  <2>3. r.task = editor[u].task /\ r.snap = Current
        /\ (r.task = "account" => r.form = editor[u].form /\ r.of = editor[u].of)
    BY <2>1 DEF Editor
  <2>4. r.task = "account" => Agrees(r.form, r.of)
    BY <2>1, <2>3 DEF Inv, Agree, RowsAgree
  <2>5. \A a \in Accounts : Agrees(r.snap.account[a], a)
    BY <2>3, CurrentRows DEF Current
  <2>6. Starts(u, r)
    BY <1>2 DEF Submit
  <2>7. RowsAgree(r)
    BY <2>4, <2>5 DEF RowsAgree
  <2> QED BY <2>2, <2>6, <2>7, StartsInv
<1>3. CASE Request(u)
  <2>1. ASSUME NEW d \in Domains, Starts(u, [task |-> "domain", of |-> d, snap |-> Current])
        PROVE  Inv'
    <3> DEFINE r == [task |-> "domain", of |-> d, snap |-> Current]
    <3>1. r \in Editor
      BY CurrentRows DEF Editor
    <3>2. RowsAgree(r)
      BY CurrentRows DEF Current, RowsAgree
    <3> QED BY <2>1, <3>1, <3>2, StartsInv
  <2>2. ASSUME NEW a \in Accounts, Starts(u, [task |-> "secret", of |-> a, snap |-> Current])
        PROVE  Inv'
    <3> DEFINE r == [task |-> "secret", of |-> a, snap |-> Current]
    <3>1. r \in Editor
      BY CurrentRows DEF Editor
    <3>2. RowsAgree(r)
      BY DEF RowsAgree
    <3> QED BY <2>2, <3>1, <3>2, StartsInv
  <2> QED BY <1>3, <2>1, <2>2 DEF Request
<1>4. CASE GiveUp(u)
  BY <1>4, StartsInv DEF GiveUp
<1> QED BY <1>1, <1>2, <1>3, <1>4

\* A save of accounts preserves the agreement of every request with the accounts.
LEMMA SavedAgree ==
    ASSUME Inv, NEW u \in Editors, Commits(u), writes < MaxWrites,
           \A a \in Accounts : account'[a] = account[a] \/ account'[a].modified = writes + 1
    PROVE  Agree'
<1>1. writes' = writes + 1 /\ writes \in Nat
  BY AccountsAssumption DEF Commits, Inv, TypeOK
<1>2. \A v \in Editors : editor'[v] = None \/ editor'[v] = editor[v]
  BY DEF Commits, Inv, TypeOK
<1>3. \A a \in Accounts : account[a].modified \in Nat /\ account[a].modified <= writes
  BY AccountsAssumption DEF Inv, Agree, TypeOK, Account
<1>4. \A a \in Accounts : account'[a].modified <= writes'
  BY <1>1, <1>3
<1>5. \A a \in Accounts, row \in Account : Agrees(row, a) => Agrees(row, a)'
  <2> SUFFICES ASSUME NEW a \in Accounts, NEW row \in Account, Agrees(row, a)
               PROVE  Agrees(row, a)'
    OBVIOUS
  <2>1. row.modified \in Nat /\ row.modified <= writes
    BY AccountsAssumption DEF Account, Agrees
  <2>2. row.modified <= writes' /\ row.modified # writes + 1
    BY <1>1, <2>1
  <2> QED BY <2>1, <2>2 DEF Agrees
<1>6. ASSUME NEW v \in Editors, editor'[v] # None
      PROVE  RowsAgree(editor[v])'
  <2>1. editor'[v] = editor[v] /\ editor[v] \in Editor /\ RowsAgree(editor[v])
    BY <1>2, <1>6 DEF Inv, Agree, TypeOK
  <2>2. editor[v].task = "account" => editor[v].form \in Account /\ editor[v].of \in Accounts
    BY <2>1 DEF Editor
  <2>3. editor[v].task = "domain" => \A a \in Accounts : editor[v].snap.account[a] \in Account
    BY <2>1 DEF Editor, Database
  <2> QED BY <1>5, <2>1, <2>2, <2>3 DEF RowsAgree
<1> QED BY <1>4, <1>6 DEF Agree

\* The two saves preserve the invariant.
LEMMA SaveInv ==
    ASSUME Inv, NEW u \in Editors, SaveAccount(u) \/ SaveDomain(u)
    PROVE  Inv'
<1>1. writes < MaxWrites /\ Commits(u) /\ TypeOK /\ OneDefault /\ TokenWorks
  BY DEF SaveAccount, SaveDomain, Saves, Inv
<1>2. /\ \E saved, rows : Saved(saved, rows)
      /\ auth' \in [Accounts -> Credential \cup {None}]
      /\ domain' \in [Domains -> Domain]
      /\ TokenWorks'
  <2>1. CASE SaveAccount(u)
    <3>1. domain' = domain
      BY <2>1 DEF SaveAccount
    <3>2. TokenWorks' /\ domain' \in [Domains -> Domain]
      BY <1>1, <3>1 DEF TokenWorks, TypeOK
    <3> QED BY <2>1, <3>2, SaveAccountSaves
  <2>2. CASE SaveDomain(u)
    BY <2>2, SaveDomainSaves
  <2> QED BY <2>1, <2>2
<1>3. /\ account' \in [Accounts -> Account] /\ OneDefault'
      /\ \A a \in Accounts : account'[a] = account[a] \/ account'[a].modified = writes + 1
  BY <1>1, <1>2, SavedFields
<1>4. Agree'
  BY <1>1, <1>3, SavedAgree
<1>5. writes' \in 0 .. MaxWrites
  BY <1>1, AccountsAssumption DEF Commits, TypeOK
<1>6. TypeOK'
  BY <1>1, <1>2, <1>3, <1>5 DEF Commits, TypeOK
<1> QED BY <1>2, <1>3, <1>4, <1>6 DEF Inv

\* A regenerated secret changes nothing that a comparison of rows looks at.
LEMMA RegenerateInv ==
    ASSUME Inv, NEW u \in Editors, Regenerate(u)
    PROVE  Inv'
<1> DEFINE a == editor[u].of
<1>1. writes < MaxWrites /\ TypeOK /\ writes \in Nat /\ writes' = writes + 1
  BY AccountsAssumption DEF Regenerate, Saves, Commits, Inv, TypeOK
<1>2. a \in Accounts
  BY DEF Regenerate, Saves, Inv, TypeOK, Editor
<1>3. [account[a] EXCEPT !.masked = TRUE] \in Account
  <2>1. account[a] \in Account
    BY <1>1, <1>2 DEF TypeOK
  <2> QED BY <2>1 DEF Account
<1>4. account' = [account EXCEPT ![a] = [account[a] EXCEPT !.masked = TRUE]]
  BY DEF Regenerate
<1>5. account' \in [Accounts -> Account]
  BY <1>1, <1>2, <1>3, <1>4 DEF TypeOK
<1>6. \A b \in Accounts : /\ account'[b].key = account[b].key
                          /\ account'[b].default = account[b].default
                          /\ account'[b].modified = account[b].modified
  BY <1>1, <1>4 DEF TypeOK, Account
<1>7. TypeOK'
  <2>1. auth' \in [Accounts -> Credential \cup {None}]
    BY <1>1, <1>2, FreshType DEF Regenerate, TypeOK
  <2>2. writes' \in 0 .. MaxWrites
    BY <1>1, AccountsAssumption
  <2> QED BY <1>1, <1>5, <2>1, <2>2 DEF Regenerate, Commits, TypeOK
<1>8. OneDefault'
  BY <1>6 DEF OneDefault, Inv
<1>9. TokenWorks'
  BY DEF TokenWorks, Inv, Regenerate
<1>10. Agree'
  <2>1. \A b \in Accounts : account[b].modified \in Nat /\ account[b].modified <= writes
    BY <1>1, AccountsAssumption DEF Inv, Agree, TypeOK, Account
  <2>2. \A b \in Accounts : account'[b].modified <= writes'
    BY <1>1, <1>6, <2>1
  <2>3. \A b \in Accounts, row \in Account : Agrees(row, b) => Agrees(row, b)'
    <3> SUFFICES ASSUME NEW b \in Accounts, NEW row \in Account, Agrees(row, b)
                 PROVE  Agrees(row, b)'
      OBVIOUS
    <3>1. row.modified \in Nat /\ row.modified <= writes
      BY AccountsAssumption DEF Account, Agrees
    <3>2. row.modified <= writes'
      BY <1>1, <3>1
    <3> QED BY <1>6, <3>2 DEF Agrees
  <2>4. ASSUME NEW v \in Editors, editor'[v] # None
        PROVE  RowsAgree(editor[v])'
    <3>1. editor'[v] = editor[v] /\ editor[v] \in Editor /\ RowsAgree(editor[v])
      BY <2>4 DEF Regenerate, Commits, Inv, Agree, TypeOK
    <3>2. editor[v].task = "account" => editor[v].form \in Account /\ editor[v].of \in Accounts
      BY <3>1 DEF Editor
    <3>3. editor[v].task = "domain" => \A b \in Accounts : editor[v].snap.account[b] \in Account
      BY <3>1 DEF Editor, Database
    <3> QED BY <2>3, <3>1, <3>2, <3>3 DEF RowsAgree
  <2> QED BY <2>2, <2>4 DEF Agree
<1> QED BY <1>7, <1>8, <1>9, <1>10 DEF Inv

\* What the relay is given, and where the site is, the invariant does not mention
\* but for their types.
LEMMA OutsideInv ==
    ASSUME Inv, (\E a \in Accounts : Copy(a)) \/ Move \/ UNCHANGED vars
    PROVE  Inv'
<1>1. UNCHANGED <<account, auth, domain, editor, writes>>
  BY DEF Copy, Move, vars
<1>2. OneDefault' /\ TokenWorks' /\ Agree'
  BY <1>1 DEF Inv, OneDefault, TokenWorks, Agree, RowsAgree, Agrees
<1>3. relay' \in [Accounts -> [url : Url, secret : Credential] \cup {None}]
      /\ host' \in Hosts /\ moves' \in 0 .. MaxMoves
  <2>1. ASSUME NEW a \in Accounts, Copy(a)
        PROVE  relay' \in [Accounts -> [url : Url, secret : Credential] \cup {None}]
    <3>1. account[a].url \in Url
      <4>1. account[a] \in Account
        BY DEF Inv, TypeOK
      <4> QED BY <2>1, <4>1 DEF Copy, Account
    <3>2. auth[a] \in Credential
      BY <2>1 DEF Copy, Inv, TypeOK
    <3> QED BY <2>1, <3>1, <3>2 DEF Copy, Inv, TypeOK
  <2>2. (\E a \in Accounts : Copy(a)) => host' = host /\ moves' = moves
    BY DEF Copy
  <2>3. CASE Move
    BY <2>3, AccountsAssumption DEF Move, Inv, TypeOK
  <2>4. CASE UNCHANGED vars
    BY <2>4 DEF vars, Inv, TypeOK
  <2> QED BY <2>1, <2>2, <2>3, <2>4 DEF Inv, TypeOK
<1> QED BY <1>1, <1>2, <1>3 DEF Inv, TypeOK

-----------------------------------------------------------------------------
(* The theorems.                                                            *)

\* The invariant holds in every reachable state.
THEOREM Invariance == Spec => []Inv
<1>1. Inv /\ [Next]_vars => Inv'
  <2> SUFFICES ASSUME Inv, [Next]_vars PROVE Inv'
    OBVIOUS
  <2>1. ASSUME NEW u \in Editors, Load(u) \/ Submit(u) \/ Request(u) \/ GiveUp(u) PROVE Inv'
    BY <2>1, DeskInv
  <2>2. ASSUME NEW u \in Editors, SaveAccount(u) \/ SaveDomain(u) PROVE Inv'
    BY <2>2, SaveInv
  <2>3. ASSUME NEW u \in Editors, Regenerate(u) PROVE Inv'
    BY <2>3, RegenerateInv
  <2>4. CASE (\E a \in Accounts : Copy(a)) \/ Move \/ UNCHANGED vars
    BY <2>4, OutsideInv
  <2> QED BY <2>1, <2>2, <2>3, <2>4 DEF Next
<1> QED BY <1>1, InitInv, PTL DEF Spec

\* Every variable keeps its type.
THEOREM TypeCorrect == Spec => []TypeOK
<1>1. Inv => TypeOK
  BY DEF Inv
<1> QED BY <1>1, Invariance, PTL

\* At most one account is the default, however saves of accounts and domains
\* overlap.
THEOREM DefaultIsOne == Spec => []OneDefault
<1>1. Inv => OneDefault
  BY DEF Inv
<1> QED BY <1>1, Invariance, PTL

\* A domain that sends via Cloudflare was saved with a token that was valid then.
THEOREM TokenWasValid == Spec => []TokenWorks
<1>1. Inv => TokenWorks
  BY DEF Inv
<1> QED BY <1>1, Invariance, PTL

\* The steps that are no save leave keys as they are and make nothing the default.
LEMMA NoSave ==
    ASSUME Inv, [Next]_vars, \A u \in Editors : ~SaveAccount(u) /\ ~SaveDomain(u), NEW a \in Accounts
    PROVE  account'[a].key = account[a].key /\ account'[a].default = account[a].default
<1>1. ASSUME NEW u \in Editors, Load(u) \/ Submit(u) \/ Request(u) \/ GiveUp(u)
      PROVE  account' = account
  BY <1>1 DEF Load, Submit, Request, GiveUp, Starts
<1>2. ASSUME NEW u \in Editors, Regenerate(u)
      PROVE  account'[a].key = account[a].key /\ account'[a].default = account[a].default
  BY <1>2 DEF Regenerate, Inv, TypeOK, Account
<1>3. CASE (\E b \in Accounts : Copy(b)) \/ Move \/ UNCHANGED vars
  BY <1>3 DEF Copy, Move, vars
<1> QED BY <1>1, <1>2, <1>3 DEF Next

\* No key that an account has is ever replaced or lost, whatever older forms and
\* snapshots are saved later.
THEOREM KeysStay == Spec => KeyStays
<1>1. Inv /\ [Next]_vars => [\A a \in Accounts : account[a].key # None => account'[a].key = account[a].key]_vars
  <2> SUFFICES ASSUME Inv, [Next]_vars, NEW a \in Accounts, account[a].key # None
               PROVE  account'[a].key = account[a].key
    OBVIOUS
  <2>1. ASSUME NEW u \in Editors, SaveAccount(u) \/ SaveDomain(u)
        PROVE  account'[a].key = account[a].key
    <3>1. TypeOK /\ OneDefault /\ writes < MaxWrites
      BY <2>1 DEF SaveAccount, SaveDomain, Saves, Inv
    <3>2. \E saved, rows : Saved(saved, rows)
      BY <2>1, SaveAccountSaves, SaveDomainSaves
    <3> QED BY <3>1, <3>2, SavedFields
  <2> QED BY <2>1, NoSave
<1> QED BY <1>1, Invariance, PTL DEF Spec, KeyStays

\* Only a save of the account itself, from a form that shows it is not the
\* default, makes it the default.
THEOREM DefaultsAreChosen == Spec => DefaultIsChosen
<1>1. Inv /\ [Next]_vars =>
        [\A a \in Accounts : ~account[a].default /\ account'[a].default =>
           \E u \in Editors : SaveAccount(u) /\ editor[u].of = a /\ ~editor[u].form.default]_vars
  <2> SUFFICES ASSUME Inv, [Next]_vars, NEW a \in Accounts, ~account[a].default, account'[a].default
               PROVE  \E u \in Editors : SaveAccount(u) /\ editor[u].of = a /\ ~editor[u].form.default
    OBVIOUS
  <2>1. PICK u \in Editors : SaveAccount(u) \/ SaveDomain(u)
    BY NoSave
  <2>2. TypeOK /\ OneDefault /\ writes < MaxWrites
    BY <2>1 DEF SaveAccount, SaveDomain, Saves, Inv
  <2>3. CASE SaveAccount(u)
    <3>1. PICK rows : /\ Saved({editor[u].of}, rows)
                      /\ rows[editor[u].of].default /\ ~account[editor[u].of].default
                           => ~editor[u].form.default
      BY <2>3, SaveAccountSaves
    <3>2. rows[a].default
      BY <2>2, <3>1, SavedFields
    <3>3. a = editor[u].of
      BY <3>1, <3>2 DEF Saved
    <3> QED BY <2>3, <3>1, <3>2, <3>3
  <2>4. CASE SaveDomain(u)
    <3>1. PICK saved, rows : Saved(saved, rows) /\ \A b \in saved : rows[b].default = account[b].default
      BY <2>4, SaveDomainSaves
    <3>2. rows[a].default
      BY <2>2, <3>1, SavedFields
    <3> QED BY <3>1, <3>2 DEF Saved
  <2> QED BY <2>1, <2>3, <2>4
<1> QED BY <1>1, Invariance, PTL DEF Spec, DefaultIsChosen
=============================================================================
