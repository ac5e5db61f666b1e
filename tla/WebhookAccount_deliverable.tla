---------------------- MODULE WebhookAccount_deliverable ----------------------
(***************************************************************************)
(* Theorems about WebhookAccount, as long as no account is put on a domain  *)
(* while the domain is saved (LinksWait): every account on a Cloudflare     *)
(* domain has a key, a secret and the right URL, no two have one key, and   *)
(* the relay is cut off only by what StaysDeliverable names.                *)
(*                                                                          *)
(* A request computes all it writes from its form and its snapshot, so the  *)
(* invariant says how these are related to what is stored by then.          *)
(***************************************************************************)
EXTENDS WebhookAccount_proofs

\* A row of account a on a Cloudflare domain: with a key of its own, a stored
\* secret, and a URL if it receives.
Provided(row, a) ==
    /\ row.masked /\ row.key # None /\ row.key[1] = a
    /\ IF row.incoming THEN row.url # None /\ row.url.key = row.key ELSE row.url = None

\* An account as a save leaves it: the field of its secret holds a mask if and
\* only if the secret is there.
Sound(s, a) ==
    /\ s.account[a].masked <=> s.auth[a] # None
    /\ OnCloudflare(s, s.account[a].domain) => Provided(s.account[a], a)

\* Whoever has a key, the account it was made for has it too.
Owned(s, a) ==
    s.account[a].key # None => s.account[s.account[a].key[1]].key = s.account[a].key

\* A row of account a read earlier: the stored one, or an older one.
Older(row, a) ==
    /\ row.modified <= writes
    /\ row.modified = account[a].modified => row = account[a]
    /\ row.key # None => account[a].key = row.key
    /\ row.masked => account[a].masked

\* A row of domain d read earlier.
OlderDomain(row, d) ==
    /\ row.modified <= writes
    /\ row.modified = domain[d].modified => row = domain[d]

\* A snapshot, against what is stored.
Past(s) ==
    /\ \A a \in Accounts : Sound(s, a) /\ Owned(s, a) /\ Older(s.account[a], a)
    /\ \A d \in Domains : OlderDomain(s.domain[d], d)

\* A submitted form was loaded before its request's snapshot, in which its domain
\* is as it is stored if the form is up to date.
Follows(s, form, a) ==
    /\ form.key # None => s.account[a].key = form.key
    /\ form.masked => s.account[a].masked
    /\ UpToDate(a, form) /\ form.domain # None => s.domain[form.domain] = domain[form.domain]

\* A domain that is being saved has no account its snapshot does not show there.
Linked(s, d) == \A a \in Accounts : account[a].domain = d => s.account[a].domain = d

Pending(r) ==
    /\ r.snap # None => Past(r.snap)
    /\ r.task = "account" => /\ Older(r.form, r.of)
                             /\ r.snap # None => Follows(r.snap, r.form, r.of)
    /\ r.task = "domain" => Linked(r.snap, r.of)

Stored ==
    /\ \A a \in Accounts : Sound(Current, a) /\ Owned(Current, a)
    /\ \A d \in Domains : domain[d].modified <= writes

\* The inductive invariant.
IInv == Inv /\ Stored /\ \A u \in Editors : editor[u] # None => Pending(editor[u])

-----------------------------------------------------------------------------
(* What one save writes.                                                    *)

\* An up-to-date form of a: in the mask and the key it has as the stored row, and
\* as the snapshot s of its request shows them.
Fits(s, a, form) ==
    /\ form.masked <=> account[a].masked
    /\ account[a].key # None => form.key = account[a].key
    /\ form.masked <=> s.auth[a] # None

\* The row and the secret that a save writes.
LEMMA RowIsSound ==
    ASSUME TypeOK, writes < MaxWrites, NEW a \in Accounts, NEW s \in Database,
           NEW form \in Account, Fits(s, a, form), account[a].masked <=> auth[a] # None,
           OnCloudflare(s, form.domain) /\ form.key # None => form.key[1] = a
    PROVE  /\ Row(s, a, form).masked <=> SecretOf(s, a, form) # None
           /\ OnCloudflare(s, form.domain) => Provided(Row(s, a, form), a)
           /\ Row(s, a, form).domain = form.domain
           /\ Row(s, a, form).key = form.key \/ Row(s, a, form).key = Fresh(a)
           /\ account[a].masked => Row(s, a, form).masked /\ SecretOf(s, a, form) = auth[a]
<1>1. Fresh(a) # None /\ Fresh(a)[1] = a
  BY FreshType, NoneAssumption DEF Fresh
<1>2. KeyOf(a, form) # None /\ (KeyOf(a, form) = form.key \/ KeyOf(a, form) = Fresh(a))
  BY <1>1 DEF KeyOf
<1>3. OnCloudflare(s, form.domain) => KeyOf(a, form)[1] = a
  BY <1>1 DEF KeyOf
<1>4. form.incoming => UrlOf(s, a, form) # None /\ UrlOf(s, a, form).key = KeyOf(a, form)
  <2>1. KeyOf(a, form) \in Credential
    BY FreshType DEF KeyOf, Account
  <2>2. s.host \in Hosts
    BY DEF Database
  <2>3. [host |-> s.host, key |-> KeyOf(a, form)] \in Url
    BY <2>1, <2>2 DEF Url
  <2> QED BY <2>3, NoneAssumption DEF UrlOf
<1>5. ~form.incoming => UrlOf(s, a, form) = None
  BY DEF UrlOf
<1> DEFINE r == Row(s, a, form)
<1>6. CASE OnCloudflare(s, form.domain)
  <2>1. /\ r.key = KeyOf(a, form) /\ r.url = UrlOf(s, a, form) /\ r.incoming = form.incoming
        /\ r.domain = form.domain /\ r.masked = (form.masked \/ s.auth[a] = None)
    BY <1>6 DEF Row, Account
  <2>2. r.masked
    BY <2>1 DEF Fits
  <2>3. Provided(r, a)
    BY <1>2, <1>3, <1>4, <1>5, <1>6, <2>1, <2>2 DEF Provided
  <2>4. SecretOf(s, a, form) = IF s.auth[a] = None THEN Fresh(a) ELSE auth[a]
    BY <1>6 DEF SecretOf, Fits
  <2>5. SecretOf(s, a, form) # None /\ (account[a].masked => SecretOf(s, a, form) = auth[a])
    BY <1>1, <2>4 DEF Fits
  <2> QED BY <1>2, <2>1, <2>2, <2>3, <2>5
<1>7. CASE ~OnCloudflare(s, form.domain)
  <2>1. r.masked = form.masked /\ r.key = form.key /\ r.domain = form.domain
    BY <1>7 DEF Row, Account
  <2>2. SecretOf(s, a, form) = IF form.masked THEN auth[a] ELSE None
    BY <1>7 DEF SecretOf
  <2> QED BY <1>7, <2>1, <2>2 DEF Fits
<1> QED BY <1>6, <1>7

-----------------------------------------------------------------------------
(* What a save of accounts does, told alike for both kinds.                 *)

\* Only the accounts that are saved change in more than their flag, and only the
\* domain that is saved; what was provisioned stays as the relay knows it.
Provisions(saved, rows) ==
    /\ rows \in [Accounts -> Account]
    /\ account' = Undefault(rows, saved)
    /\ \A a \in Accounts \ saved :
         /\ rows[a] = account[a] /\ auth'[a] = auth[a]
         /\ account[a].domain # None => domain'[account[a].domain] = domain[account[a].domain]
    /\ \A a \in saved :
         /\ rows[a].modified = writes + 1
         /\ rows[a].masked <=> auth'[a] # None
         /\ account[a].masked => rows[a].masked /\ auth'[a] = auth[a]
         /\ rows[a].domain # None /\ domain'[rows[a].domain].cloudflare => Provided(rows[a], a)
    /\ \A a \in Accounts :
         /\ account[a].key # None => rows[a].key = account[a].key
         /\ rows[a].key # None =>
              \/ rows[a].key[1] = a
              \/ rows[a].key[1] \in Accounts /\ account[rows[a].key[1]].key = rows[a].key
         /\ rows[a].domain = account[a].domain \/ Apart(rows[a].domain, Current)
    /\ \A d \in Domains : domain'[d] = domain[d] \/ domain'[d].modified = writes + 1

\* The fields that Undefault leaves alone.
LEMMA UndefaultKeeps ==
    ASSUME NEW rows \in [Accounts -> Account], NEW saved, NEW b \in Accounts
    PROVE  LET row == Undefault(rows, saved)[b] IN
           /\ row.key = rows[b].key /\ row.domain = rows[b].domain
           /\ row.incoming = rows[b].incoming /\ row.url = rows[b].url
           /\ row.masked = rows[b].masked
           /\ row = rows[b] \/ row.modified = writes + 1
BY DEF Undefault, Account

\* An editor's request, with its types and what the invariant says of it.
LEMMA RequestIs ==
    ASSUME IInv, NEW u \in Editors, editor[u] # None
    PROVE  /\ editor[u] \in Editor /\ Pending(editor[u])
           /\ editor[u].task \in {"account", "domain", "secret"}
           /\ editor[u].task = "account" =>
                /\ editor[u].of \in Accounts /\ editor[u].form \in Account
                /\ editor[u].snap \in Database \cup {None}
           /\ editor[u].task = "domain" => editor[u].of \in Domains /\ editor[u].snap \in Database
           /\ editor[u].task = "secret" => editor[u].of \in Accounts /\ editor[u].snap \in Database
<1>1. editor[u] \in Editor
  BY DEF IInv, Inv, TypeOK
<1>2. Pending(editor[u])
  BY DEF IInv
<1> QED BY <1>1, <1>2 DEF Editor

\* In a snapshot, the account that a key was made for.
LEMMA OwnerIs ==
    ASSUME IInv, NEW s \in Database, Past(s), NEW a \in Accounts, s.account[a].key # None
    PROVE  /\ s.account[a].key[1] \in Accounts
           /\ s.account[s.account[a].key[1]].key = s.account[a].key
           /\ account[s.account[a].key[1]].key = s.account[a].key
<1>1. s.account[a].key \in Credential
  BY DEF Database, Account
<1>2. s.account[a].key[1] \in Accounts
  BY <1>1 DEF Credential
<1>3. s.account[s.account[a].key[1]].key = s.account[a].key
  BY DEF Past, Owned
<1>4. \A b \in Accounts : s.account[b].key # None => account[b].key = s.account[b].key
  BY DEF Past, Older
<1> QED BY <1>2, <1>3, <1>4

\* The domains, masks and keys of what an editor may make of a loaded row.
LEMMA EditedFields ==
    ASSUME LinksWait, NEW row \in Account, NEW s \in Database, NEW form \in Edited(row, s)
    PROVE  /\ form.masked = row.masked
           /\ \/ form.domain = row.domain
              \/ form.domain \in Domains \cup {None} /\ Apart(form.domain, s)
           /\ \/ form.key = row.key
              \/ row.key = None /\ \E b \in Accounts : form.key = s.account[b].key
<1>1. ASSUME \/ form = row
             \/ form = [row EXCEPT !.incoming = ~row.incoming]
             \/ form = [row EXCEPT !.default = ~row.default]
      PROVE  form.masked = row.masked /\ form.key = row.key /\ form.domain = row.domain
  BY <1>1 DEF Account
<1>2. ASSUME NEW d \in Domains \cup {None}, form = [row EXCEPT !.domain = d]
      PROVE  form.masked = row.masked /\ form.key = row.key /\ form.domain = d
  BY <1>2 DEF Account
<1>3. ASSUME NEW b \in Accounts, form = [row EXCEPT !.key = s.account[b].key]
      PROVE  form.masked = row.masked /\ form.key = s.account[b].key /\ form.domain = row.domain
  BY <1>3 DEF Account
<1>4. \/ form = row
      \/ form = [row EXCEPT !.incoming = ~row.incoming]
      \/ form = [row EXCEPT !.default = ~row.default]
      \/ \E d \in Domains \cup {None} : Apart(d, s) /\ form = [row EXCEPT !.domain = d]
      \/ row.key = None /\ \E b \in Accounts : form = [row EXCEPT !.key = s.account[b].key]
  BY DEF Edited
<1>5. CASE \/ form = row
           \/ form = [row EXCEPT !.incoming = ~row.incoming]
           \/ form = [row EXCEPT !.default = ~row.default]
  BY <1>1, <1>5, Zenon
<1>6. CASE \E d \in Domains \cup {None} : Apart(d, s) /\ form = [row EXCEPT !.domain = d]
  BY <1>2, <1>6, Zenon
<1>7. CASE row.key = None /\ \E b \in Accounts : form = [row EXCEPT !.key = s.account[b].key]
  BY <1>3, <1>7, Zenon
<1> QED BY <1>4, <1>5, <1>6, <1>7

\* The key of an account that passes as one on a Cloudflare domain is its own:
\* the account it was made for shows in the snapshot with it.
LEMMA KeyIsOwn ==
    ASSUME IInv, NEW s \in Database, NEW a \in Accounts, NEW form \in Account, NEW c \in Accounts,
           Past(s), Valid(s, a, form), OnCloudflare(s, form.domain),
           form.key # None, form.key = s.account[c].key
    PROVE  form.key[1] = a
<1> SUFFICES ASSUME form.key[1] # a PROVE FALSE
  OBVIOUS
<1>1. form.key[1] \in Accounts \ {a} /\ s.account[form.key[1]].key = form.key
  BY OwnerIs
<1>2. KeyOf(a, form) = form.key
  BY DEF KeyOf
<1> QED BY <1>1, <1>2 DEF Valid

\* An up-to-date form of a submitted request, and a row of a snapshot that is up
\* to date, fit.
LEMMA FormFits ==
    ASSUME IInv, NEW s \in Database, Past(s), NEW a \in Accounts, NEW row,
           row = account[a], row.masked => s.account[a].masked, NEW form,
           form.masked = row.masked, row.key # None => form.key = row.key
    PROVE  Fits(s, a, form)
<1>1. s.account[a].masked => account[a].masked
  BY DEF Past, Older
<1>2. s.account[a].masked <=> s.auth[a] # None
  BY DEF Past, Sound
<1> QED BY <1>1, <1>2 DEF Fits

\* SaveAccount is such a save of one account.
LEMMA SaveAccountProvisions ==
    ASSUME LinksWait, IInv, NEW u \in Editors, SaveAccount(u)
    PROVE  \E rows : Provisions({editor[u].of}, rows)
<1> DEFINE a == editor[u].of
           s == editor[u].snap
           loaded == editor[u].form
<1>1. editor[u] # None /\ editor[u].task = "account" /\ s # None /\ writes < MaxWrites
  BY DEF SaveAccount, Saves
<1>2. Pending(editor[u]) /\ a \in Accounts /\ loaded \in Account
  BY <1>1, RequestIs
<1>3. s \in Database
  BY <1>1, RequestIs
<1>4. Past(s) /\ Older(loaded, a) /\ Follows(s, loaded, a)
  BY <1>1, <1>2 DEF Pending
<1>5. PICK form \in Edited(loaded, s) :
        /\ Valid(s, a, form)
        /\ account' = Undefault([account EXCEPT ![a] = Row(s, a, form)], {a})
        /\ auth' = [auth EXCEPT ![a] = SecretOf(s, a, form)]
  BY DEF SaveAccount
<1>6. UpToDate(a, loaded) /\ domain' = domain
  BY DEF SaveAccount
<1>7. loaded = account[a]
  BY <1>4, <1>6 DEF Older, UpToDate
<1>8. form \in Account /\ (loaded.key # None => form.key = loaded.key)
  BY <1>2, <1>3, EditedForm
<1>9. /\ form.masked = loaded.masked
      /\ \/ form.domain = loaded.domain
         \/ form.domain \in Domains \cup {None} /\ Apart(form.domain, s)
      /\ \/ form.key = loaded.key
         \/ \E b \in Accounts : form.key = s.account[b].key
  BY <1>2, <1>3, EditedFields
<1>10. Fits(s, a, form)
  <2>1. loaded.masked => s.account[a].masked
    BY <1>4 DEF Follows
  <2> HIDE DEF a, s, loaded
  <2> QED BY <1>2, <1>3, <1>4, <1>7, <1>8, <1>9, <2>1, FormFits
<1>11. form.key # None => \E c \in Accounts : form.key = s.account[c].key
  BY <1>2, <1>4, <1>9 DEF Follows
<1>12. OnCloudflare(s, form.domain) /\ form.key # None => form.key[1] = a
  BY <1>2, <1>3, <1>4, <1>5, <1>8, <1>11, KeyIsOwn
<1>13. TypeOK /\ (account[a].masked <=> auth[a] # None)
  BY <1>2 DEF IInv, Inv, Stored, Sound, Current
<1>14. /\ Row(s, a, form).masked <=> SecretOf(s, a, form) # None
       /\ OnCloudflare(s, form.domain) => Provided(Row(s, a, form), a)
       /\ Row(s, a, form).domain = form.domain
       /\ Row(s, a, form).key = form.key \/ Row(s, a, form).key = Fresh(a)
       /\ account[a].masked => Row(s, a, form).masked /\ SecretOf(s, a, form) = auth[a]
  BY <1>1, <1>2, <1>3, <1>8, <1>10, <1>12, <1>13, RowIsSound
<1>15. Row(s, a, form) \in Account /\ Row(s, a, form).modified = writes + 1
       /\ (form.key # None => Row(s, a, form).key = form.key)
  BY <1>1, <1>2, <1>3, <1>8, <1>13, RowType, RowFields
<1> DEFINE rows == [account EXCEPT ![a] = Row(s, a, form)]
<1>16. rows \in [Accounts -> Account] /\ rows[a] = Row(s, a, form)
       /\ \A b \in Accounts \ {a} : rows[b] = account[b]
  BY <1>2, <1>13, <1>15 DEF TypeOK
<1>17. auth'[a] = SecretOf(s, a, form) /\ \A b \in Accounts \ {a} : auth'[b] = auth[b]
  BY <1>2, <1>5, <1>13 DEF TypeOK
<1>18. form.domain # None => s.domain[form.domain] = domain[form.domain]
  <2>1. CASE form.domain = loaded.domain
    BY <1>4, <1>6, <2>1 DEF Follows
  <2>2. CASE form.domain \in Domains \cup {None} /\ Apart(form.domain, s)
    BY <1>4, <2>2 DEF Apart, Past, OlderDomain
  <2> QED BY <1>9, <2>1, <2>2
<1>19. rows[a].domain # None /\ domain'[rows[a].domain].cloudflare => Provided(rows[a], a)
  BY <1>6, <1>14, <1>16, <1>18 DEF OnCloudflare
<1>20. ASSUME NEW b \in Accounts
       PROVE  /\ account[b].key # None => rows[b].key = account[b].key
              /\ rows[b].key # None =>
                   \/ rows[b].key[1] = b
                   \/ rows[b].key[1] \in Accounts /\ account[rows[b].key[1]].key = rows[b].key
              /\ rows[b].domain = account[b].domain \/ Apart(rows[b].domain, Current)
  <2>1. CASE b # a
    <3>1. account[b].key # None => account[b].key[1] \in Accounts /\ account[account[b].key[1]].key = account[b].key
      <4>1. account[b].key # None => account[b].key[1] \in Accounts
        BY DEF IInv, Inv, TypeOK, Account, Credential
      <4> QED BY <4>1 DEF IInv, Stored, Owned, Current
    <3> QED BY <1>16, <2>1, <3>1
  <2>2. CASE b = a
    <3>1. account[a].key # None => rows[a].key = account[a].key
      BY <1>7, <1>8, <1>15, <1>16
    <3>2. rows[a].key = Fresh(a) => rows[a].key[1] = a
      BY DEF Fresh
    <3>3. form.key # None => form.key[1] \in Accounts /\ account[form.key[1]].key = form.key
      BY <1>3, <1>4, <1>11, OwnerIs
    <3>4. Apart(form.domain, s) => Apart(form.domain, Current)
      BY DEF Apart, Current
    <3> QED BY <1>7, <1>9, <1>14, <1>16, <2>2, <3>1, <3>2, <3>3, <3>4
  <2> QED BY <2>1, <2>2
<1>21. \A b \in Accounts \ {a} : /\ rows[b] = account[b] /\ auth'[b] = auth[b]
                                 /\ account[b].domain # None => domain'[account[b].domain] = domain[account[b].domain]
  BY <1>6, <1>16, <1>17
<1>22. /\ rows[a].modified = writes + 1
       /\ rows[a].masked <=> auth'[a] # None
       /\ account[a].masked => rows[a].masked /\ auth'[a] = auth[a]
  BY <1>14, <1>15, <1>16, <1>17
<1> HIDE DEF rows
<1>23. account' = Undefault(rows, {a})
  BY <1>5 DEF rows
<1>24. Provisions({a}, rows)
  BY <1>6, <1>16, <1>19, <1>20, <1>21, <1>22, <1>23 DEF Provisions
<1> QED BY <1>24

\* SaveDomain is such a save of the accounts it finds on the domain, which are all
\* that are there.
LEMMA SaveDomainProvisions ==
    ASSUME IInv, NEW u \in Editors, SaveDomain(u)
    PROVE  \E saved, rows : saved \in SUBSET Accounts /\ Provisions(saved, rows)
<1> DEFINE d == editor[u].of
           old == editor[u].snap
           linked == {a \in Accounts : old.account[a].domain = d}
<1>1. editor[u] # None /\ editor[u].task = "domain" /\ writes < MaxWrites
  BY DEF SaveDomain, Saves
<1>2. d \in Domains /\ old \in Database /\ old # None /\ Pending(editor[u])
  BY <1>1, RequestIs DEF SaveDomain, Saves
<1>3. Past(old) /\ Linked(old, d)
  BY <1>1, <1>2 DEF Pending
<1>4. TypeOK /\ writes + 1 \in 0 .. MaxWrites
  BY <1>1, AccountsAssumption DEF IInv, Inv, TypeOK
<1>5. PICK cloudflare \in BOOLEAN, token \in Tokens :
        LET row == [cloudflare |-> cloudflare, token |-> token, modified |-> writes + 1]
            s == [old EXCEPT !.domain[d] = row]
        IN /\ \A a \in linked : UpToDate(a, s.account[a]) /\ Valid(s, a, s.account[a])
           /\ domain' = [domain EXCEPT ![d] = row]
           /\ account' = Undefault([a \in Accounts |->
                IF a \in linked THEN Row(s, a, s.account[a]) ELSE account[a]], linked)
           /\ auth' = [a \in Accounts |->
                IF a \in linked THEN SecretOf(s, a, s.account[a]) ELSE auth[a]]
  BY DEF SaveDomain
<1> DEFINE row == [cloudflare |-> cloudflare, token |-> token, modified |-> writes + 1]
           s == [old EXCEPT !.domain[d] = row]
           rows == [a \in Accounts |-> IF a \in linked THEN Row(s, a, s.account[a]) ELSE account[a]]
<1>6. row \in Domain /\ row.cloudflare = cloudflare /\ row.modified = writes + 1
  BY <1>4 DEF Domain
<1>7. s \in Database /\ s.account = old.account /\ s.auth = old.auth /\ s.domain[d] = row
  BY <1>2, <1>6 DEF Database
<1>8. domain'[d] = row /\ \A e \in Domains \ {d} : domain'[e] = domain[e]
  BY <1>2, <1>4, <1>5 DEF TypeOK
<1> HIDE DEF s, row
<1>9. \A a \in linked : UpToDate(a, s.account[a]) /\ Valid(s, a, s.account[a])
  BY <1>5 DEF s, row
<1>10. account' = Undefault(rows, linked)
  BY <1>5 DEF s, row
<1>11. \A a \in Accounts : auth'[a] = IF a \in linked THEN SecretOf(s, a, s.account[a]) ELSE auth[a]
  BY <1>5 DEF s, row
<1>12. \A a \in Accounts : s.account[a] \in Account /\ (s.account[a].key # None =>
         s.account[a].key[1] \in Accounts /\ s.account[s.account[a].key[1]].key = s.account[a].key)
  <2>1. \A a \in Accounts : old.account[a].key # None =>
          old.account[a].key[1] \in Accounts /\ old.account[old.account[a].key[1]].key = old.account[a].key
    BY <1>2, <1>3, OwnerIs
  <2>2. \A a \in Accounts : s.account[a] \in Account
    BY <1>7 DEF Database
  <2> QED BY <1>7, <2>1, <2>2
<1>13. ASSUME NEW a \in linked
       PROVE  /\ rows[a] \in Account
              /\ rows[a].modified = writes + 1
              /\ rows[a].masked <=> auth'[a] # None
              /\ account[a].masked => rows[a].masked /\ auth'[a] = auth[a]
              /\ rows[a].domain = account[a].domain
              /\ rows[a].domain # None /\ domain'[rows[a].domain].cloudflare => Provided(rows[a], a)
              /\ account[a].key # None => rows[a].key = account[a].key
              /\ rows[a].key = account[a].key \/ rows[a].key = Fresh(a)
  <2> DEFINE form == s.account[a]
  <2>1. a \in Accounts /\ form \in Account /\ form.domain = d /\ rows[a] = Row(s, a, form)
    BY <1>7, <1>12
  <2>2. form = account[a] /\ form = old.account[a]
    BY <1>3, <1>7, <1>9, <2>1 DEF UpToDate, Past, Older
  <2>3. Fits(old, a, form)
    BY <1>2, <1>3, <2>1, <2>2, FormFits
  <2>4. Fits(s, a, form)
    BY <1>7, <2>3 DEF Fits
  <2>5. OnCloudflare(s, form.domain) /\ form.key # None => form.key[1] = a
    <3> SUFFICES ASSUME OnCloudflare(s, form.domain), form.key # None, form.key[1] # a PROVE FALSE
      OBVIOUS
    <3>1. form.key[1] \in Accounts \ {a} /\ s.account[form.key[1]].key = form.key
      BY <1>12, <2>1
    <3>2. KeyOf(a, form) = form.key
      BY DEF KeyOf
    <3> QED BY <1>9, <3>1, <3>2 DEF Valid
  <2>6. account[a].masked <=> auth[a] # None
    BY <2>1 DEF IInv, Stored, Sound, Current
  <2> HIDE DEF form
  <2>7. /\ Row(s, a, form).masked <=> SecretOf(s, a, form) # None
        /\ OnCloudflare(s, form.domain) => Provided(Row(s, a, form), a)
        /\ Row(s, a, form).domain = form.domain
        /\ Row(s, a, form).key = form.key \/ Row(s, a, form).key = Fresh(a)
        /\ account[a].masked => Row(s, a, form).masked /\ SecretOf(s, a, form) = auth[a]
    BY <1>1, <1>4, <1>7, <2>1, <2>4, <2>5, <2>6, RowIsSound
  <2>8. Row(s, a, form) \in Account /\ Row(s, a, form).modified = writes + 1
        /\ (form.key # None => Row(s, a, form).key = form.key)
    BY <1>1, <1>4, <1>7, <2>1, RowType, RowFields
  <2>9. auth'[a] = SecretOf(s, a, form)
    BY <1>11, <2>1 DEF form
  <2>10. domain'[d].cloudflare => OnCloudflare(s, d)
    BY <1>2, <1>7, <1>8, AccountsAssumption DEF OnCloudflare
  <2> HIDE DEF rows
  <2> QED BY <2>1, <2>2, <2>7, <2>8, <2>9, <2>10
<1>14. \A a \in Accounts \ linked : /\ rows[a] = account[a] /\ auth'[a] = auth[a]
                                    /\ account[a].domain # d
  BY <1>3, <1>11 DEF Linked
<1> HIDE DEF rows
<1>15. rows \in [Accounts -> Account]
  <2>1. \A a \in Accounts : rows[a] \in Account
    BY <1>4, <1>13, <1>14 DEF TypeOK
  <2> QED BY <2>1 DEF rows
<1>16. \A a \in Accounts \ linked :
         account[a].domain # None => domain'[account[a].domain] = domain[account[a].domain]
  BY <1>4, <1>8, <1>14 DEF TypeOK, Account
<1>17. ASSUME NEW a \in Accounts
       PROVE  /\ account[a].key # None => rows[a].key = account[a].key
              /\ rows[a].key # None =>
                   \/ rows[a].key[1] = a
                   \/ rows[a].key[1] \in Accounts /\ account[rows[a].key[1]].key = rows[a].key
              /\ rows[a].domain = account[a].domain
  <2>1. account[a].key # None => account[a].key[1] \in Accounts /\ account[account[a].key[1]].key = account[a].key
    <3>1. account[a].key # None => account[a].key[1] \in Accounts
      BY <1>4 DEF TypeOK, Account, Credential
    <3> QED BY <3>1 DEF IInv, Stored, Owned, Current
  <2>2. Fresh(a)[1] = a
    BY DEF Fresh
  <2>3. /\ account[a].key # None => rows[a].key = account[a].key
        /\ rows[a].key = account[a].key \/ rows[a].key = Fresh(a)
        /\ rows[a].domain = account[a].domain
    BY <1>13, <1>14
  <2> QED BY <2>1, <2>2, <2>3
<1>18. \A e \in Domains : domain'[e] = domain[e] \/ domain'[e].modified = writes + 1
  BY <1>6, <1>8
<1>19. Provisions(linked, rows)
  BY <1>10, <1>13, <1>14, <1>15, <1>16, <1>17, <1>18 DEF Provisions
<1> QED BY <1>19

-----------------------------------------------------------------------------
(* Saves preserve the invariant.                                            *)

\* The accounts after a save, field by field.
LEMMA AfterSave ==
    ASSUME TypeOK, NEW saved \in SUBSET Accounts, NEW rows, Provisions(saved, rows), NEW a \in Accounts
    PROVE  /\ account'[a].key = rows[a].key /\ account'[a].domain = rows[a].domain
           /\ account'[a].incoming = rows[a].incoming /\ account'[a].url = rows[a].url
           /\ account'[a].masked = rows[a].masked
           /\ \/ a \notin saved /\ account'[a] = account[a]
              \/ account'[a].modified = writes + 1
           /\ account[a].key # None => account'[a].key = account[a].key
           /\ account[a].masked => account'[a].masked
<1>1. rows \in [Accounts -> Account] /\ account' = Undefault(rows, saved)
  BY DEF Provisions
<1>2. /\ account'[a].key = rows[a].key /\ account'[a].domain = rows[a].domain
      /\ account'[a].incoming = rows[a].incoming /\ account'[a].url = rows[a].url
      /\ account'[a].masked = rows[a].masked
      /\ account'[a] = rows[a] \/ account'[a].modified = writes + 1
  BY <1>1, UndefaultKeeps
<1>3. a \in saved => rows[a].modified = writes + 1 /\ (account[a].masked => rows[a].masked)
  BY DEF Provisions
<1>4. a \notin saved => rows[a] = account[a]
  BY DEF Provisions
<1>5. account[a].key # None => rows[a].key = account[a].key
  BY DEF Provisions
<1> QED BY <1>2, <1>3, <1>4, <1>5

\* What a save leaves is sound.
LEMMA SaveSound ==
    ASSUME IInv, NEW saved \in SUBSET Accounts, NEW rows, Provisions(saved, rows), NEW a \in Accounts
    PROVE  Sound(Current, a)' /\ Owned(Current, a)'
<1>1. TypeOK /\ Sound(Current, a)
  BY DEF IInv, Inv, Stored
<1>2. /\ account'[a].key = rows[a].key /\ account'[a].domain = rows[a].domain
      /\ account'[a].incoming = rows[a].incoming /\ account'[a].url = rows[a].url
      /\ account'[a].masked = rows[a].masked
  BY <1>1, AfterSave
<1>3. Provided(rows[a], a) => Provided(account'[a], a)
  BY <1>2 DEF Provided
<1>4. account'[a].masked <=> auth'[a] # None
  <2>1. CASE a \in saved
    BY <1>2, <2>1 DEF Provisions
  <2>2. CASE a \notin saved
    <3>1. rows[a] = account[a] /\ auth'[a] = auth[a]
      BY <2>2 DEF Provisions
    <3> QED BY <1>1, <1>2, <3>1 DEF Sound, Current
  <2> QED BY <2>1, <2>2
<1>5. account'[a].domain # None /\ domain'[account'[a].domain].cloudflare => Provided(account'[a], a)
  <2>1. CASE a \in saved
    BY <1>2, <1>3, <2>1 DEF Provisions
  <2>2. CASE a \notin saved
    <3>1. rows[a] = account[a] /\ (account[a].domain # None => domain'[account[a].domain] = domain[account[a].domain])
      BY <2>2 DEF Provisions
    <3> QED BY <1>1, <1>2, <1>3, <3>1 DEF Sound, Current, OnCloudflare
  <2> QED BY <2>1, <2>2
<1>6. Sound(Current, a)'
  BY <1>4, <1>5 DEF Sound, Current, OnCloudflare
<1>7. ASSUME account'[a].key # None
      PROVE  account'[account'[a].key[1]].key = account'[a].key
  <2>1. CASE account'[a].key[1] = a
    BY <2>1
  <2>2. CASE account'[a].key[1] # a
    <3> DEFINE o == account'[a].key[1]
    <3>1. o \in Accounts /\ account[o].key = account'[a].key
      BY <1>2, <1>7, <2>2 DEF Provisions
    <3> HIDE DEF o
    <3>2. account[o].key # None => account'[o].key = account[o].key
      BY <1>1, <3>1, AfterSave
    <3>3. account'[o].key = account'[a].key
      BY <1>7, <3>1, <3>2
    <3> QED BY <3>3 DEF o
  <2> QED BY <2>1, <2>2
<1>8. Owned(Current, a)'
  BY <1>7 DEF Owned, Current
<1> QED BY <1>6, <1>8

\* What was read before a save is older after it.
LEMMA SaveOlder ==
    ASSUME IInv, writes' = writes + 1,
           NEW saved \in SUBSET Accounts, NEW rows, Provisions(saved, rows)
    PROVE  /\ \A a \in Accounts, row \in Account : Older(row, a) => Older(row, a)'
           /\ \A d \in Domains, row \in Domain : OlderDomain(row, d) => OlderDomain(row, d)'
<1>1. TypeOK /\ writes \in Nat
  BY AccountsAssumption DEF IInv, Inv, TypeOK
<1>2. ASSUME NEW a \in Accounts, NEW row \in Account, Older(row, a)
      PROVE  Older(row, a)'
  <2>1. row.modified \in Nat /\ row.modified <= writes
    BY <1>2, AccountsAssumption DEF Account, Older
  <2>2. row.modified <= writes' /\ row.modified # writes + 1
    BY <1>1, <2>1
  <2>3. /\ account'[a] = account[a] \/ account'[a].modified = writes + 1
        /\ account[a].key # None => account'[a].key = account[a].key
        /\ account[a].masked => account'[a].masked
    BY <1>1, AfterSave
  <2> QED BY <1>2, <2>2, <2>3 DEF Older
<1>3. ASSUME NEW d \in Domains, NEW row \in Domain, OlderDomain(row, d)
      PROVE  OlderDomain(row, d)'
  <2>1. row.modified \in Nat /\ row.modified <= writes
    BY <1>3, AccountsAssumption DEF Domain, OlderDomain
  <2>2. row.modified <= writes' /\ row.modified # writes + 1
    BY <1>1, <2>1
  <2>3. domain'[d] = domain[d] \/ domain'[d].modified = writes + 1
    BY DEF Provisions
  <2> QED BY <1>3, <2>2, <2>3 DEF OlderDomain
<1> QED BY <1>2, <1>3

\* A request under way is still what the invariant says.
LEMMA SavePending ==
    ASSUME IInv, writes' = writes + 1, NEW v \in Editors, NEW t, t = editor[v], t # None,
           NEW saved \in SUBSET Accounts, NEW rows, Provisions(saved, rows)
    PROVE  Pending(t)'
<1> DEFINE s == t.snap
           form == t.form
           a == t.of
<1>1. TypeOK /\ writes \in Nat /\ Pending(t) /\ t \in Editor
  BY RequestIs, AccountsAssumption DEF IInv, Inv, TypeOK
<1>2. s # None => s \in Database
  BY <1>1 DEF Editor
<1>3. ASSUME s # None PROVE Past(s)'
  <2>1. Past(s) /\ s \in Database
    BY <1>1, <1>2, <1>3 DEF Pending
  <2>2. \A b \in Accounts : s.account[b] \in Account /\ Older(s.account[b], b)
    BY <2>1 DEF Past, Database
  <2>3. \A d \in Domains : s.domain[d] \in Domain /\ OlderDomain(s.domain[d], d)
    BY <2>1 DEF Past, Database
  <2>4. \A b \in Accounts : Older(s.account[b], b)'
    BY <2>2, SaveOlder
  <2>5. \A d \in Domains : OlderDomain(s.domain[d], d)'
    BY <2>3, SaveOlder
  <2>6. \A b \in Accounts : (Sound(s, b) /\ Owned(s, b))'
    BY <2>1 DEF Past, Sound, Owned, OnCloudflare, Provided
  <2> QED BY <2>4, <2>5, <2>6 DEF Past
<1>4. ASSUME t.task = "account" PROVE Older(form, a)'
  <2>1. a \in Accounts /\ form \in Account /\ Older(form, a)
    BY <1>1, <1>4 DEF Pending, Editor
  <2> QED BY <2>1, SaveOlder
<1>5. ASSUME t.task = "account", s # None PROVE Follows(s, form, a)'
  <2>1. a \in Accounts /\ form \in Account /\ Older(form, a) /\ Follows(s, form, a)
    BY <1>1, <1>5 DEF Pending, Editor
  <2>2. ASSUME account'[a].modified = form.modified, form.domain # None
        PROVE  s.domain[form.domain] = domain'[form.domain]
    <3>1. form.modified \in Nat /\ form.modified <= writes
      BY <2>1, AccountsAssumption DEF Account, Older
    <3>2. form.modified # writes + 1
      BY <1>1, <3>1
    <3>3. a \notin saved /\ account'[a] = account[a]
      BY <1>1, <2>1, <2>2, <3>2, AfterSave
    <3>4. form = account[a] /\ UpToDate(a, form)
      BY <2>1, <2>2, <3>3 DEF Older, UpToDate
    <3>5. domain'[form.domain] = domain[form.domain]
      BY <2>1, <2>2, <3>3, <3>4 DEF Provisions
    <3>6. s.domain[form.domain] = domain[form.domain]
      BY <2>1, <2>2, <3>4 DEF Follows
    <3> QED BY <3>5, <3>6
  <2> QED BY <2>1, <2>2 DEF Follows, UpToDate
<1>6. ASSUME t.task = "domain" PROVE Linked(s, a)'
  <2>1. Linked(s, a)
    BY <1>1, <1>6 DEF Pending
  <2>2. ASSUME NEW b \in Accounts, account'[b].domain = a
        PROVE  s.account[b].domain = a
    <3>1. rows[b].domain = a
      BY <1>1, <2>2, AfterSave
    <3>2. rows[b].domain = account[b].domain \/ Apart(rows[b].domain, Current)
      BY DEF Provisions
    <3>3. ~Apart(a, Current)
      BY <1>6 DEF Apart
    <3> QED BY <2>1, <3>1, <3>2, <3>3 DEF Linked
  <2> QED BY <2>2 DEF Linked
<1> QED BY <1>3, <1>4, <1>5, <1>6 DEF Pending

\* Saves preserve the invariant.
LEMMA SaveKeeps ==
    ASSUME LinksWait, IInv, Inv', NEW u \in Editors, SaveAccount(u) \/ SaveDomain(u)
    PROVE  IInv'
<1>1. writes' = writes + 1 /\ editor' = [editor EXCEPT ![u] = None] /\ TypeOK /\ writes \in Nat
  <2>1. writes' = writes + 1 /\ editor' = [editor EXCEPT ![u] = None]
    BY DEF SaveAccount, SaveDomain, Commits
  <2>2. TypeOK /\ writes \in Nat
    BY AccountsAssumption DEF IInv, Inv, TypeOK
  <2> QED BY <2>1, <2>2
<1>2. PICK saved, rows : saved \in SUBSET Accounts /\ Provisions(saved, rows)
  <2>1. CASE SaveAccount(u)
    <3>1. editor[u].of \in Accounts
      BY <2>1, RequestIs DEF SaveAccount, Saves
    <3>2. {editor[u].of} \in SUBSET Accounts
      BY <3>1
    <3> QED BY <2>1, <3>2, SaveAccountProvisions
  <2>2. CASE SaveDomain(u)
    BY <2>2, SaveDomainProvisions
  <2> QED BY <2>1, <2>2
<1>3. \A a \in Accounts : (Sound(Current, a) /\ Owned(Current, a))'
  BY <1>2, SaveSound
<1>4. ASSUME NEW d \in Domains PROVE domain'[d].modified <= writes'
  <2>1. domain[d].modified \in Nat /\ domain[d].modified <= writes
    BY <1>1, AccountsAssumption DEF IInv, Stored, TypeOK, Domain
  <2>2. domain'[d] = domain[d] \/ domain'[d].modified = writes + 1
    BY <1>2 DEF Provisions
  <2> QED BY <1>1, <2>1, <2>2
<1>5. ASSUME NEW v \in Editors, editor'[v] # None PROVE Pending(editor[v])'
  <2>1. PICK t : t = editor'[v]
    OBVIOUS
  <2>2. t = editor[v] /\ t # None
    BY <1>1, <1>5, <2>1 DEF TypeOK
  <2>3. Pending(t)'
    BY <1>1, <1>2, <2>2, SavePending
  <2> QED BY <2>1, <2>3 DEF Pending
<1> QED BY <1>3, <1>4, <1>5 DEF IInv, Stored

-----------------------------------------------------------------------------
(* The other steps preserve the invariant.                                  *)

\* A request stays what it is while accounts and domains stay.
LEMMA PendingStays ==
    ASSUME NEW t \in Editor, Pending(t), t.snap \in Database \cup {None},
           account' = account, domain' = domain,
           writes \in Nat, writes' \in Nat, writes <= writes'
    PROVE  Pending(t)'
<1>1. \A a \in Accounts, row \in Account : Older(row, a) => Older(row, a)'
  <2> SUFFICES ASSUME NEW a \in Accounts, NEW row \in Account, Older(row, a) PROVE Older(row, a)'
    OBVIOUS
  <2>1. row.modified \in Nat /\ row.modified <= writes
    BY AccountsAssumption DEF Account, Older
  <2>2. row.modified <= writes'
    BY <2>1
  <2> QED BY <2>2 DEF Older
<1>2. \A d \in Domains, row \in Domain : OlderDomain(row, d) => OlderDomain(row, d)'
  <2> SUFFICES ASSUME NEW d \in Domains, NEW row \in Domain, OlderDomain(row, d) PROVE OlderDomain(row, d)'
    OBVIOUS
  <2>1. row.modified \in Nat /\ row.modified <= writes
    BY AccountsAssumption DEF Domain, OlderDomain
  <2>2. row.modified <= writes'
    BY <2>1
  <2> QED BY <2>2 DEF OlderDomain
<1>3. ASSUME t.snap # None PROVE Past(t.snap)'
  <2>1. Past(t.snap) /\ t.snap \in Database
    BY <1>3 DEF Pending
  <2>2. \A a \in Accounts : t.snap.account[a] \in Account /\ Older(t.snap.account[a], a)
    BY <2>1 DEF Past, Database
  <2>3. \A d \in Domains : t.snap.domain[d] \in Domain /\ OlderDomain(t.snap.domain[d], d)
    BY <2>1 DEF Past, Database
  <2>4. \A a \in Accounts : (Sound(t.snap, a) /\ Owned(t.snap, a))'
    BY <2>1 DEF Past, Sound, Owned, OnCloudflare, Provided
  <2> QED BY <1>1, <1>2, <2>2, <2>3, <2>4 DEF Past
<1>4. ASSUME t.task = "account"
      PROVE  Older(t.form, t.of)' /\ (t.snap # None => Follows(t.snap, t.form, t.of)')
  <2>1. t.of \in Accounts /\ t.form \in Account
    BY <1>4 DEF Editor
  <2>2. Older(t.form, t.of) /\ (t.snap # None => Follows(t.snap, t.form, t.of))
    BY <1>4 DEF Pending
  <2> QED BY <1>1, <2>1, <2>2 DEF Follows, UpToDate
<1>5. ASSUME t.task = "domain" PROVE Linked(t.snap, t.of)'
  BY <1>5 DEF Pending, Linked
<1> QED BY <1>3, <1>4, <1>5 DEF Pending

\* The stored rows as a snapshot of now.
LEMMA CurrentPast ==
    ASSUME IInv
    PROVE  Current \in Database /\ Past(Current) /\ \A d \in Domains : Linked(Current, d)
<1>1. Current \in Database
  BY CurrentRows DEF IInv
<1>2. \A a \in Accounts : account[a].modified <= writes
  BY DEF IInv, Inv, Agree
<1>3. \A a \in Accounts : Older(Current.account[a], a)
  BY <1>2 DEF Older, Current
<1>4. \A d \in Domains : OlderDomain(Current.domain[d], d)
  BY DEF OlderDomain, Current, IInv, Stored
<1>5. \A d \in Domains : Linked(Current, d)
  BY DEF Linked, Current
<1> QED BY <1>1, <1>3, <1>4, <1>5 DEF Past, IInv, Stored

\* Opening and closing requests.
LEMMA StartsKeeps ==
    ASSUME IInv, Inv', NEW u \in Editors, NEW r, Starts(u, r), r # None => Pending(r)
    PROVE  IInv'
<1>1. account' = account /\ auth' = auth /\ domain' = domain /\ host' = host /\ writes' = writes
      /\ editor' = [editor EXCEPT ![u] = r]
  BY DEF Starts
<1>2. Stored'
  BY <1>1 DEF IInv, Stored, Sound, Owned, Current, OnCloudflare, Provided
<1>3. ASSUME NEW v \in Editors, editor'[v] # None PROVE Pending(editor[v])'
  <2>1. PICK t : t = editor'[v]
    OBVIOUS
  <2>2. Pending(t)
    <3>1. t = r \/ t = editor[v]
      BY <1>1, <2>1 DEF IInv, Inv, TypeOK
    <3> QED BY <1>3, <2>1, <3>1 DEF IInv
  <2>3. t \in Editor /\ writes \in Nat
    BY <1>3, <2>1, AccountsAssumption DEF IInv, Inv, TypeOK
  <2>4. t.snap \in Database \cup {None}
    BY <2>3 DEF Editor
  <2>5. Pending(t)'
    BY <1>1, <2>2, <2>3, <2>4, PendingStays
  <2> QED BY <2>1, <2>5 DEF Pending
<1> QED BY <1>2, <1>3 DEF IInv

\* Loading, submitting and giving up preserve the invariant.
LEMMA DeskKeeps ==
    ASSUME IInv, Inv', NEW u \in Editors, Load(u) \/ Submit(u) \/ Request(u) \/ GiveUp(u)
    PROVE  IInv'
<1>0. PICK s : s = Current
  OBVIOUS
<1>1. s \in Database /\ Past(s) /\ \A d \in Domains : Linked(s, d)
  BY <1>0, CurrentPast
<1>2. CASE Load(u)
  <2>1. PICK a \in Accounts :
          Starts(u, [task |-> "account", of |-> a, form |-> account[a], snap |-> None])
    BY <1>2 DEF Load
  <2> DEFINE r == [task |-> "account", of |-> a, form |-> account[a], snap |-> None]
  <2>2. Older(account[a], a)
    BY DEF IInv, Inv, Agree, Older
  <2>3. Pending(r)
    BY <2>2 DEF Pending
  <2> QED BY <2>1, <2>3, StartsKeeps
<1>3. CASE Submit(u)
  <2> DEFINE r == [editor[u] EXCEPT !.snap = s]
  <2>1. editor[u] # None /\ editor[u] \in Editor /\ Pending(editor[u])
    BY <1>3, RequestIs DEF Submit
  <2>2. r.task = editor[u].task /\ r.of = editor[u].of /\ r.snap = s
        /\ (r.task = "account" => r.form = editor[u].form)
    BY <2>1 DEF Editor
  <2>3. ASSUME r.task = "account" PROVE Older(r.form, r.of) /\ Follows(s, r.form, r.of)
    <3>1. Older(r.form, r.of) /\ r.of \in Accounts
      BY <2>1, <2>2, <2>3 DEF Pending, Editor
    <3>2. Follows(Current, r.form, r.of)
      BY <3>1 DEF Follows, Older, Current
    <3> QED BY <1>0, <3>1, <3>2
  <2>4. ASSUME r.task = "domain" PROVE Linked(s, r.of)
    <3>1. r.of \in Domains
      BY <2>1, <2>2, <2>4 DEF Editor
    <3> QED BY <1>1, <3>1
  <2>5. Starts(u, r)
    BY <1>0, <1>3 DEF Submit
  <2> HIDE DEF r
  <2>6. Pending(r)
    BY <1>1, <2>2, <2>3, <2>4 DEF Pending
  <2> QED BY <2>5, <2>6, StartsKeeps
<1>4. CASE Request(u)
  <2>1. ASSUME NEW d \in Domains, Starts(u, [task |-> "domain", of |-> d, snap |-> Current])
        PROVE  IInv'
    <3> DEFINE r == [task |-> "domain", of |-> d, snap |-> s]
    <3>1. Pending(r)
      BY <1>1 DEF Pending
    <3> QED BY <1>0, <2>1, <3>1, StartsKeeps
  <2>2. ASSUME NEW a \in Accounts, Starts(u, [task |-> "secret", of |-> a, snap |-> Current])
        PROVE  IInv'
    <3> DEFINE r == [task |-> "secret", of |-> a, snap |-> s]
    <3>1. Pending(r)
      BY <1>1 DEF Pending
    <3> QED BY <1>0, <2>2, <3>1, StartsKeeps
  <2> QED BY <1>4, <2>1, <2>2 DEF Request
<1>5. CASE GiveUp(u)
  BY <1>5, StartsKeeps DEF GiveUp
<1> QED BY <1>2, <1>3, <1>4, <1>5

\* A secret is regenerated only where there is one: the row stays as it is.
LEMMA RegenerateOnly ==
    ASSUME IInv, NEW u \in Editors, Regenerate(u)
    PROVE  /\ editor[u].of \in Accounts /\ account' = account
           /\ account[editor[u].of].masked
           /\ auth' = [auth EXCEPT ![editor[u].of] = Fresh(editor[u].of)]
<1> DEFINE a == editor[u].of
           s == editor[u].snap
<1>1. editor[u] # None /\ editor[u].task = "secret" /\ s # None /\ OnCloudflare(s, s.account[a].domain)
  BY DEF Regenerate, Saves
<1>2. a \in Accounts /\ s \in Database /\ Past(s)
  BY <1>1, RequestIs DEF Pending
<1>3. account[a].masked
  BY <1>1, <1>2 DEF Past, Sound, Provided, Older
<1>4. account \in [Accounts -> Account] /\ account[a] \in Account
  BY <1>2 DEF IInv, Inv, TypeOK
<1>5. [account[a] EXCEPT !.masked = TRUE] = account[a]
  BY <1>3, <1>4 DEF Account
<1>6. account' = [account EXCEPT ![a] = [account[a] EXCEPT !.masked = TRUE]]
  BY DEF Regenerate
<1>7. account' = account
  BY <1>4, <1>5, <1>6
<1> QED BY <1>2, <1>3, <1>7 DEF Regenerate

\* ... and preserves the invariant.
LEMMA RegenerateKeeps ==
    ASSUME IInv, Inv', NEW u \in Editors, Regenerate(u)
    PROVE  IInv'
<1> DEFINE a == editor[u].of
<1>1. a \in Accounts /\ account' = account /\ account[a].masked /\ auth' = [auth EXCEPT ![a] = Fresh(a)]
  BY RegenerateOnly
<1>2. /\ writes < MaxWrites /\ TypeOK /\ writes \in Nat /\ writes' = writes + 1
      /\ domain' = domain /\ host' = host /\ editor' = [editor EXCEPT ![u] = None]
  BY AccountsAssumption DEF Regenerate, Saves, Commits, IInv, Inv, TypeOK
<1>3. Fresh(a) # None
  BY <1>1, <1>2, FreshType, NoneAssumption
<1>4. ASSUME NEW b \in Accounts PROVE (Sound(Current, b) /\ Owned(Current, b))'
  <2>1. Sound(Current, b) /\ Owned(Current, b)
    BY DEF IInv, Stored
  <2>2. account[b].masked <=> auth'[b] # None
    BY <1>1, <1>2, <1>3, <2>1 DEF Sound, Current, TypeOK
  <2> QED BY <1>1, <1>2, <2>1, <2>2 DEF Sound, Owned, Current, OnCloudflare, Provided
<1>5. ASSUME NEW d \in Domains PROVE domain'[d].modified <= writes'
  <2>1. domain[d].modified \in Nat /\ domain[d].modified <= writes
    BY <1>2, AccountsAssumption DEF IInv, Stored, TypeOK, Domain
  <2> QED BY <1>2, <2>1
<1>6. ASSUME NEW v \in Editors, editor'[v] # None PROVE Pending(editor[v])'
  <2>1. PICK t : t = editor'[v]
    OBVIOUS
  <2>2. t = editor[v] /\ t # None
    BY <1>2, <1>6, <2>1 DEF TypeOK
  <2>3. t \in Editor /\ Pending(t)
    BY <2>2 DEF IInv, Inv, TypeOK
  <2>4. t.snap \in Database \cup {None}
    BY <2>3 DEF Editor
  <2>5. writes' \in Nat /\ writes <= writes'
    BY <1>2
  <2>6. Pending(t)'
    BY <1>1, <1>2, <2>3, <2>4, <2>5, PendingStays
  <2> QED BY <2>1, <2>6 DEF Pending
<1> QED BY <1>4, <1>5, <1>6 DEF IInv, Stored

\* What the relay is given, and where the site is, the invariant leaves open.
LEMMA OutsideKeeps ==
    ASSUME IInv, Inv', (\E a \in Accounts : Copy(a)) \/ Move \/ UNCHANGED vars
    PROVE  IInv'
<1>1. UNCHANGED <<account, auth, domain, editor, writes>>
  BY DEF Copy, Move, vars
<1>2. Stored'
  BY <1>1 DEF IInv, Stored, Sound, Owned, Current, OnCloudflare, Provided
<1>3. ASSUME NEW v \in Editors, editor'[v] # None PROVE Pending(editor[v])'
  <2>1. PICK t : t = editor'[v]
    OBVIOUS
  <2>2. t \in Editor /\ Pending(t) /\ writes \in Nat /\ writes' = writes
    BY <1>1, <1>3, <2>1, AccountsAssumption DEF IInv, Inv, TypeOK
  <2>3. t.snap \in Database \cup {None}
    BY <2>2 DEF Editor
  <2>4. Pending(t)'
    BY <1>1, <2>2, <2>3, PendingStays
  <2> QED BY <2>1, <2>4 DEF Pending
<1> QED BY <1>2, <1>3 DEF IInv

\* The accounts of the initial state.
LEMMA InitHolds == Init => IInv
<1> SUFFICES ASSUME Init PROVE IInv
  OBVIOUS
<1>1. \A a \in Accounts : account[a].key = None /\ account[a].masked = FALSE /\ auth[a] = None
                          /\ account[a].domain \in Domains \cup {None}
  BY DEF Init
<1>2. \A d \in Domains : domain[d].cloudflare = FALSE /\ domain[d].modified = 0
  BY DEF Init
<1>3. \A a \in Accounts : Sound(Current, a) /\ Owned(Current, a)
  BY <1>1, <1>2 DEF Sound, Owned, Current, OnCloudflare
<1>4. \A d \in Domains : domain[d].modified <= writes
  BY <1>2 DEF Init
<1>5. \A u \in Editors : editor[u] = None
  BY DEF Init
<1> QED BY <1>3, <1>4, <1>5, InitInv DEF IInv, Stored

-----------------------------------------------------------------------------
(* The theorems.                                                            *)

\* The invariant holds in every reachable state, if no account is put on a domain
\* while the domain is saved.
THEOREM ProvisionInvariance == LinksWait => (Spec => []IInv)
<1> SUFFICES ASSUME LinksWait PROVE Spec => []IInv
  OBVIOUS
<1>1. IInv /\ Inv' /\ [Next]_vars => IInv'
  <2> SUFFICES ASSUME IInv, Inv', [Next]_vars PROVE IInv'
    OBVIOUS
  <2>1. ASSUME NEW u \in Editors, Load(u) \/ Submit(u) \/ Request(u) \/ GiveUp(u) PROVE IInv'
    BY <2>1, DeskKeeps
  <2>2. ASSUME NEW u \in Editors, SaveAccount(u) \/ SaveDomain(u) PROVE IInv'
    BY <2>2, SaveKeeps
  <2>3. ASSUME NEW u \in Editors, Regenerate(u) PROVE IInv'
    BY <2>3, RegenerateKeeps
  <2>4. CASE (\E a \in Accounts : Copy(a)) \/ Move \/ UNCHANGED vars
    BY <2>4, OutsideKeeps
  <2> QED BY <2>1, <2>2, <2>3, <2>4 DEF Next
<1> QED BY <1>1, InitHolds, Invariance, PTL DEF Spec

\* Every account on a Cloudflare domain has a key and a secret, and the URL of its
\* key if and only if it receives, whoever saved last.
THEOREM AlwaysProvisioned == LinksWait => (Spec => []Provisioned)
<1>1. IInv => Provisioned
  <2> SUFFICES ASSUME IInv, NEW a \in Accounts, Cloudflare(a)
               PROVE  /\ account[a].key # None /\ auth[a] # None
                      /\ IF account[a].incoming
                           THEN account[a].url # None /\ account[a].url.key = account[a].key
                           ELSE account[a].url = None
    BY DEF Provisioned
  <2>1. Sound(Current, a)
    BY DEF IInv, Stored
  <2> QED BY <2>1 DEF Sound, Provided, Cloudflare, Current
<1> QED BY <1>1, ProvisionInvariance, PTL

\* A key on a Cloudflare domain is the account's own, so no two have the same.
THEOREM KeysAreOwn == LinksWait => (Spec => []KeyOfOne)
<1>1. IInv => KeyOfOne
  <2>1. ASSUME IInv PROVE \A a \in Accounts : Cloudflare(a) => account[a].key[1] = a
    BY <2>1 DEF IInv, Stored, Sound, Provided, Cloudflare, Current
  <2> QED BY <2>1 DEF KeyOfOne
<1> QED BY <1>1, ProvisionInvariance, PTL


\* Nothing but Regenerate replaces the secret, and nothing the key, of an account
\* that has them.
LEMMA CredentialsStay ==
    ASSUME LinksWait, IInv, [Next]_vars, NEW a \in Accounts, account[a].masked, account[a].key # None,
           ~\E u \in Editors : Regenerate(u) /\ editor[u].of = a
    PROVE  account'[a].key = account[a].key /\ auth'[a] = auth[a]
<1>1. ASSUME NEW u \in Editors, Load(u) \/ Submit(u) \/ Request(u) \/ GiveUp(u)
      PROVE  account' = account /\ auth' = auth
  BY <1>1 DEF Load, Submit, Request, GiveUp, Starts
<1>2. ASSUME NEW u \in Editors, SaveAccount(u) \/ SaveDomain(u)
      PROVE  account'[a].key = account[a].key /\ auth'[a] = auth[a]
  <2>1. PICK saved, rows : saved \in SUBSET Accounts /\ Provisions(saved, rows)
    <3>1. CASE SaveAccount(u)
      <4>1. editor[u].of \in Accounts
        BY <3>1, RequestIs DEF SaveAccount, Saves
      <4>2. {editor[u].of} \in SUBSET Accounts
        BY <4>1
      <4> QED BY <3>1, <4>2, SaveAccountProvisions
    <3>2. CASE SaveDomain(u)
      BY <3>2, SaveDomainProvisions
    <3> QED BY <1>2, <3>1, <3>2
  <2>2. account'[a].key = account[a].key
    BY <2>1, AfterSave DEF IInv, Inv
  <2>3. auth'[a] = auth[a]
    BY <2>1 DEF Provisions
  <2> QED BY <2>2, <2>3
<1>3. ASSUME NEW u \in Editors, Regenerate(u)
      PROVE  account'[a].key = account[a].key /\ auth'[a] = auth[a]
  <2>1. editor[u].of # a
    BY <1>3
  <2>2. account' = account /\ auth' = [auth EXCEPT ![editor[u].of] = Fresh(editor[u].of)]
    BY <1>3, RegenerateOnly
  <2> QED BY <2>1, <2>2 DEF IInv, Inv, TypeOK
<1>4. CASE (\E b \in Accounts : Copy(b)) \/ Move \/ UNCHANGED vars
  BY <1>4 DEF Copy, Move, vars
<1> QED BY <1>1, <1>2, <1>3, <1>4 DEF Next

\* The relay learns nothing but by Copy, which gives it the account's URL and
\* secret.
LEMMA RelayLearns ==
    ASSUME IInv, [Next]_vars, NEW a \in Accounts, relay'[a] # relay[a]
    PROVE  /\ relay'[a] = [url |-> account[a].url, secret |-> auth[a]]
           /\ account[a].url \in Url /\ auth[a] \in Credential
           /\ account' = account /\ auth' = auth
<1>1. PICK b \in Accounts : Copy(b)
  <2>1. \/ UNCHANGED relay
        \/ \E b \in Accounts : Copy(b)
    BY DEF Next, Load, Submit, Request, GiveUp, Starts, SaveAccount, SaveDomain, Regenerate, Commits, Move, vars
  <2> QED BY <2>1
<1>2. b = a
  BY <1>1 DEF Copy, IInv, Inv, TypeOK
<1>3. account[a] \in Account /\ auth[a] \in Credential \cup {None}
  BY DEF IInv, Inv, TypeOK
<1> QED BY <1>1, <1>2, <1>3 DEF Copy, IInv, Inv, TypeOK, Account

\* What the relay was set up for gets in until somebody does what StaysDeliverable
\* names: no save, of whatever form and however it overlaps others, cuts it off.
THEOREM NeverCutOff == LinksWait => (Spec => StaysDeliverable)
<1> SUFFICES ASSUME LinksWait PROVE Spec => StaysDeliverable
  OBVIOUS
<1>1. IInv /\ [Next]_vars => [\A a \in Accounts : Deliverable(a) =>
         \/ Deliverable(a)'
         \/ host' # host \/ ~account'[a].incoming \/ ~Cloudflare(a)'
         \/ relay'[a] # relay[a] /\ account[a].url.host # host
         \/ \E u \in Editors : Regenerate(u) /\ editor[u].of = a
         \/ \E b \in Accounts \ {a} : account'[b].key = account[a].key]_vars
  <2> SUFFICES ASSUME IInv, [Next]_vars, NEW a \in Accounts, Deliverable(a),
                      host' = host, account'[a].incoming, Cloudflare(a)',
                      relay'[a] = relay[a] \/ account[a].url.host = host,
                      ~\E u \in Editors : Regenerate(u) /\ editor[u].of = a,
                      \A b \in Accounts \ {a} : account'[b].key # account[a].key
               PROVE  Deliverable(a)'
    OBVIOUS
  <2>1. /\ relay[a] # None /\ relay[a].url.host = host /\ Cloudflare(a) /\ relay[a].secret = auth[a]
        /\ {b \in Accounts : account[b].key = relay[a].url.key /\ account[b].incoming} = {a}
    BY DEF Deliverable
  <2>2. account[a].key = relay[a].url.key /\ account[a].incoming
    BY <2>1
  <2>3. account[a].masked /\ account[a].key # None /\ account[a].url.key = account[a].key
    BY <2>1, <2>2 DEF IInv, Stored, Sound, Provided, Cloudflare, Current
  <2>4. account'[a].key = account[a].key /\ auth'[a] = auth[a]
    BY <2>3, CredentialsStay
  <2>5. /\ relay'[a] # None /\ relay'[a].url.host = host
        /\ relay'[a].url.key = account[a].key /\ relay'[a].secret = auth[a]
    <3>1. CASE relay'[a] = relay[a]
      BY <2>1, <2>2, <3>1
    <3>2. CASE relay'[a] # relay[a]
      <4>1. relay'[a] = [url |-> account[a].url, secret |-> auth[a]]
            /\ account[a].url \in Url /\ auth[a] \in Credential
        BY <3>2, RelayLearns
      <4>2. relay'[a] # None
        BY <4>1, NoneAssumption
      <4> QED BY <2>3, <3>2, <4>1, <4>2
    <3> QED BY <3>1, <3>2
  <2>6. {b \in Accounts : account'[b].key = relay'[a].url.key /\ account'[b].incoming} = {a}
    BY <2>4, <2>5
  <2> QED BY <2>4, <2>5, <2>6 DEF Deliverable
<1> QED BY <1>1, ProvisionInvariance, PTL DEF Spec, StaysDeliverable
=============================================================================
