--------------------------- MODULE WebhookAccount ---------------------------
(***************************************************************************)
(* Email Accounts and Email Domains as they are saved from the desk: an     *)
(* account on a Cloudflare domain gets a webhook key, secret and URL, which *)
(* the relay is given; a domain re-saves its accounts; a secret is          *)
(* regenerated past the document; one account is the default.               *)
(*                                                                          *)
(* A request works on a form that was loaded earlier, reads the snapshot    *)
(* its first query opens (MariaDB's repeatable read) and commits in one     *)
(* step.  Only three things are read as they are then: the row it saves,    *)
(* which Frappe locks and compares with the form by its time of change, the *)
(* other accounts' default flags, and the stored passwords it leaves alone. *)
(***************************************************************************)
EXTENDS Naturals, FiniteSets, TokenVerification

CONSTANTS
    Accounts, Domains, Hosts,
    Editors,     \* requests of the desk under way at a time
    SecureHosts, \* the hosts with https (or a loopback host)
    Tokens,      \* Cloudflare API tokens
    Nature,      \* what a token is
    LinksWait,   \* no account is put on a domain while the domain is saved
    MaxWrites,   \* saves (a bound of the model)
    MaxMoves,    \* changes of host_name (a bound of the model)
    None

ASSUME AccountsAssumption ==
    /\ SecureHosts \subseteq Hosts
    /\ Nature \in [Tokens -> Natures]
    /\ LinksWait \in BOOLEAN
    /\ MaxWrites \in Nat /\ MaxMoves \in Nat
    /\ None \notin Domains \cup Tokens \cup Accounts

VARIABLES
    account,  \* the Email Accounts
    auth,     \* their webhook secrets in __Auth
    domain,   \* the Email Domains
    host,     \* host_name
    editor,   \* the requests under way
    relay,    \* what the relay was given for an account
    writes,   \* the saves so far: the time of change, and what makes a new key new
    moves

vars == <<account, auth, domain, host, editor, relay, writes, moves>>
-----------------------------------------------------------------------------
\* Keys and secrets made for an account by the n-th save.
Credential == Accounts \X (1 .. MaxWrites)

Url == [host : Hosts, key : Credential]

\* default stands for default_incoming and default_outgoing; masked: the
\* document's secret field holds the placeholder of a stored secret.
Account == [domain : Domains \cup {None}, incoming : BOOLEAN, default : BOOLEAN,
            key : Credential \cup {None}, url : Url \cup {None}, masked : BOOLEAN,
            modified : 0 .. MaxWrites]

ASSUME NoneAssumption == None \notin Credential \cup Url \cup [url : Url, secret : Credential]

Domain == [cloudflare : BOOLEAN, token : Tokens \cup {None}, modified : 0 .. MaxWrites]

Database == [account : [Accounts -> Account], auth : [Accounts -> Credential \cup {None}],
             domain : [Domains -> Domain], host : Hosts]

\* A request, or before it the form it will save: form is the row that was loaded,
\* snap the snapshot of the request.
Editor == [task : {"account"}, of : Accounts, form : Account, snap : Database \cup {None}]
          \cup [task : {"domain"}, of : Domains, snap : Database]
          \cup [task : {"secret"}, of : Accounts, snap : Database]

TypeOK ==
    /\ account \in [Accounts -> Account]
    /\ auth \in [Accounts -> Credential \cup {None}]
    /\ domain \in [Domains -> Domain]
    /\ host \in Hosts
    /\ editor \in [Editors -> Editor \cup {None}]
    /\ relay \in [Accounts -> [url : Url, secret : Credential] \cup {None}]
    /\ writes \in 0 .. MaxWrites /\ moves \in 0 .. MaxMoves

\* Accounts set up before, none of them on a Cloudflare domain yet; host_name is
\* set (docs/receiving.md).
Init ==
    /\ account \in [Accounts ->
         [domain : Domains \cup {None}, incoming : {TRUE}, default : {FALSE},
          key : {None}, url : {None}, masked : {FALSE}, modified : {0}]]
    /\ auth = [a \in Accounts |-> None]
    /\ domain = [d \in Domains |-> [cloudflare |-> FALSE, token |-> None, modified |-> 0]]
    /\ host \in SecureHosts
    /\ editor = [u \in Editors |-> None]
    /\ relay = [a \in Accounts |-> None]
    /\ writes = 0 /\ moves = 0
-----------------------------------------------------------------------------
(* The desk (external): forms are loaded, submitted and given up.           *)

Current == [account |-> account, auth |-> auth, domain |-> domain, host |-> host]

Starts(u, request) ==
    /\ editor' = [editor EXCEPT ![u] = request]
    /\ UNCHANGED <<account, auth, domain, host, relay, writes, moves>>

\* An account's form is loaded.
Load(u) ==
    /\ editor[u] = None
    /\ \E a \in Accounts :
         Starts(u, [task |-> "account", of |-> a, form |-> account[a], snap |-> None])

\* The form is submitted: the request's first query opens its snapshot.
Submit(u) ==
    /\ editor[u] # None /\ editor[u].snap = None
    /\ Starts(u, [editor[u] EXCEPT !.snap = Current])

\* A domain is submitted, or Regenerate Webhook Secret confirmed.
Request(u) ==
    /\ editor[u] = None
    /\ \/ \E d \in Domains : Starts(u, [task |-> "domain", of |-> d, snap |-> Current])
       \/ \E a \in Accounts : Starts(u, [task |-> "secret", of |-> a, snap |-> Current])

\* A check throws, permission is missing, the form is out of date, the database
\* ends a deadlock, or the form is closed: nothing is written.
GiveUp(u) ==
    /\ editor[u] # None
    /\ Starts(u, None)

Saves(u, task) ==
    /\ editor[u] # None /\ editor[u].task = task /\ editor[u].snap # None
    /\ writes < MaxWrites

\* No save of domain d has overlapped a request with snapshot s.
Apart(d, s) ==
    /\ \A u \in Editors : ~(editor[u] # None /\ editor[u].task = "domain" /\ editor[u].of = d)
    /\ d # None => s.domain[d].modified = domain[d].modified

\* What an editor may make of a loaded row, one field at a time.  A key is put in
\* by an import: the field is read-only on the form.  That an import brings a key
\* for an account that has none is an assumption; one that replaces a key would
\* change it, and nothing in the code prevents that.
Edited(row, s) ==
    {row, [row EXCEPT !.incoming = ~row.incoming], [row EXCEPT !.default = ~row.default]}
      \cup {[row EXCEPT !.domain = d] : d \in {e \in Domains \cup {None} : LinksWait => Apart(e, s)}}
      \cup {[row EXCEPT !.key = s.account[b].key] : b \in {c \in Accounts : row.key = None}}
-----------------------------------------------------------------------------
(* CloudflareEmailAccount.validate and what Frappe writes after it.         *)

\* _is_cloudflare_domain, for a document with this domain.
OnCloudflare(s, d) == d # None /\ s.domain[d].cloudflare

Fresh(a) == <<a, writes + 1>>

\* As if a save made a new key.
NewKey(a, form) == Fresh(a)

\* ensure_webhook_credentials: the key is made once.
KeyOf(a, form) == IF form.key = None THEN Fresh(a) ELSE form.key

\* As if the secret were looked for in the document, which only holds its mask.
SecretByMask(s, a, form) ==
    IF OnCloudflare(s, form.domain) THEN Fresh(a) ELSE IF form.masked THEN auth[a] ELSE None

\* ... and so is the secret.  Frappe leaves a masked password alone and removes
\* one whose field is empty.
SecretOf(s, a, form) ==
    IF OnCloudflare(s, form.domain) /\ s.auth[a] = None THEN Fresh(a)
    ELSE IF form.masked THEN auth[a] ELSE None

\* As if the URL were made before the key.
UrlFirst(s, a, form) == IF form.incoming THEN [host |-> s.host, key |-> form.key] ELSE None

\* As if the account were taken for receiving by its old URL.
UrlKept(s, a, form) == IF form.url # None \/ ~form.incoming THEN form.url
                       ELSE [host |-> s.host, key |-> KeyOf(a, form)]

\* set_webhook_url, for an account on a Cloudflare domain.
UrlOf(s, a, form) ==
    IF form.incoming THEN [host |-> s.host, key |-> KeyOf(a, form)] ELSE None

\* As if a key were not compared with the other accounts'.
ValidUrl(s, a, form) ==
    OnCloudflare(s, form.domain) => (form.incoming => s.host \in SecureHosts)

\* validate_webhook_key_unique, validate_webhook_url_scheme.
Valid(s, a, form) ==
    OnCloudflare(s, form.domain) =>
        /\ \A b \in Accounts \ {a} : s.account[b].key # KeyOf(a, form)
        /\ form.incoming => s.host \in SecureHosts

\* The row a save writes.  Off Cloudflare it is core's: key and URL stay.
Row(s, a, form) ==
    IF OnCloudflare(s, form.domain)
      THEN [form EXCEPT !.key = KeyOf(a, form), !.url = UrlOf(s, a, form),
                        !.masked = form.masked \/ s.auth[a] = None, !.modified = writes + 1]
      ELSE [form EXCEPT !.modified = writes + 1]

\* As if the flag were cleared without a new time of change.
UndefaultQuietly(rows, saved) ==
    [b \in Accounts |->
       IF rows[b].default /\ \E a \in saved \ {b} : rows[a].default
         THEN [rows[b] EXCEPT !.default = FALSE] ELSE rows[b]]

\* As if an account that is not saved kept the flag.
UndefaultNone(rows, saved) == rows

\* there_must_be_only_one_default: the other accounts lose the flag by a direct
\* update, which counts as a change of theirs.
Undefault(rows, saved) ==
    [b \in Accounts |->
       IF rows[b].default /\ \E a \in saved \ {b} : rows[a].default
         THEN [rows[b] EXCEPT !.default = FALSE, !.modified = writes + 1] ELSE rows[b]]

UpToDate(a, form) == form.modified = account[a].modified

\* The request commits.
Commits(u) ==
    /\ writes' = writes + 1
    /\ editor' = [editor EXCEPT ![u] = None]
    /\ UNCHANGED <<host, relay, moves>>

SaveAccount(u) ==
    LET a == editor[u].of
        s == editor[u].snap
    IN /\ Saves(u, "account")
       /\ UpToDate(a, editor[u].form)
       /\ \E form \in Edited(editor[u].form, s) :
            /\ Valid(s, a, form)
            /\ account' = Undefault([account EXCEPT ![a] = Row(s, a, form)], {a})
            /\ auth' = [auth EXCEPT ![a] = SecretOf(s, a, form)]
       /\ Commits(u) /\ UNCHANGED domain

\* validate_outgoing_server_conn: with a token, and only if it is verified.
TokenPasses(token) ==
    \E a \in AnswersFor("account", Nature[token]), p \in AnswersFor("personal", Nature[token]) : Verdict(a, p) = "verified"

\* The domain is saved and then, as they were in the snapshot, its accounts, each
\* of which must be up to date and pass: else nothing is saved.
SaveDomain(u) ==
    LET d == editor[u].of
        old == editor[u].snap
        linked == {a \in Accounts : old.account[a].domain = d}
    IN /\ Saves(u, "domain")
       /\ old.domain[d].modified = domain[d].modified
       /\ \E cloudflare \in BOOLEAN, token \in Tokens :
            LET row == [cloudflare |-> cloudflare, token |-> token, modified |-> writes + 1]
                s == [old EXCEPT !.domain[d] = row]
            IN /\ cloudflare => TokenPasses(token)
               /\ \A a \in linked : UpToDate(a, s.account[a]) /\ Valid(s, a, s.account[a])
               /\ domain' = [domain EXCEPT ![d] = row]
               /\ account' = Undefault([a \in Accounts |->
                    IF a \in linked THEN Row(s, a, s.account[a]) ELSE account[a]], linked)
               /\ auth' = [a \in Accounts |->
                    IF a \in linked THEN SecretOf(s, a, s.account[a]) ELSE auth[a]]
       /\ Commits(u)

\* regenerate_webhook_secret: past the document, and no change of it.
Regenerate(u) ==
    LET a == editor[u].of
        s == editor[u].snap
    IN /\ Saves(u, "secret")
       /\ OnCloudflare(s, s.account[a].domain)
       /\ auth' = [auth EXCEPT ![a] = Fresh(a)]
       /\ account' = [account EXCEPT ![a].masked = TRUE]
       /\ Commits(u) /\ UNCHANGED domain
-----------------------------------------------------------------------------
\* Copy Webhook URL and get_webhook_secret, pasted into the relay.
Copy(a) ==
    /\ account[a].url # None /\ auth[a] # None
    /\ relay' = [relay EXCEPT ![a] = [url |-> account[a].url, secret |-> auth[a]]]
    /\ UNCHANGED <<account, auth, domain, host, editor, writes, moves>>

\* The site gets another host_name.
Move ==
    /\ moves < MaxMoves
    /\ host' \in Hosts \ {host}
    /\ moves' = moves + 1
    /\ UNCHANGED <<account, auth, domain, editor, relay, writes>>

Next ==
    \/ \E u \in Editors : \/ Load(u) \/ Submit(u) \/ Request(u) \/ GiveUp(u)
                          \/ SaveAccount(u) \/ SaveDomain(u) \/ Regenerate(u)
    \/ \E a \in Accounts : Copy(a)
    \/ Move

Spec == Init /\ [][Next]_vars
-----------------------------------------------------------------------------
(* Properties.                                                              *)

Cloudflare(a) == OnCloudflare(Current, account[a].domain)

\* `_find_account` with the row's own key, if every account with the key that
\* receives is this one; and the signature verifies.
Deliverable(a) ==
    /\ relay[a] # None /\ relay[a].url.host = host
    /\ {b \in Accounts : account[b].key = relay[a].url.key /\ account[b].incoming} = {a}
    /\ Cloudflare(a)
    /\ relay[a].secret = auth[a]

\* Once the relay has an account's URL and secret, mail gets in until somebody
\* moves the site, gives the relay a URL from before a move, stops the account
\* from receiving, regenerates its secret or imports its key for another account.
\* No save of a form opened earlier, of the domain or of a new default cuts the
\* relay off ("Never rotate here", email_account.py:75).
StaysDeliverable ==
    [][\A a \in Accounts : Deliverable(a) =>
         \/ Deliverable(a)'
         \/ host' # host \/ ~account'[a].incoming \/ ~Cloudflare(a)'
         \/ relay'[a] # relay[a] /\ account[a].url.host # host
         \/ \E u \in Editors : Regenerate(u) /\ editor[u].of = a
         \/ \E b \in Accounts \ {a} : account'[b].key = account[a].key]_vars

\* A key is "never changed once set" (docs/configuration.md), whatever was saved
\* in between by others.
KeyStays == [][\A a \in Accounts : account[a].key # None => account'[a].key = account[a].key]_vars

\* Whoever saved last, account or domain: an account on a Cloudflare domain has a
\* key and a secret, and the URL of its key if and only if it receives.  It holds
\* with LinksWait only: an account put on a domain while a save switches that domain
\* to Cloudflare gets neither key nor secret, and the code does not exclude it.
Provisioned ==
    \A a \in Accounts : Cloudflare(a) =>
        /\ account[a].key # None /\ auth[a] # None
        /\ IF account[a].incoming
             THEN account[a].url # None /\ account[a].url.key = account[a].key
             ELSE account[a].url = None

\* Two accounts on Cloudflare domains never have the same key.
KeyOfOne ==
    \A a, b \in Accounts : a # b /\ Cloudflare(a) /\ Cloudflare(b) => account[a].key # account[b].key

\* Two accounts made the default at once do not both stay it.
OneDefault ==
    \A a, b \in Accounts : account[a].default /\ account[b].default => a = b

\* An account that lost the default to another does not get it back by a form
\* loaded before: only a save whose form shows it without the flag sets it.
DefaultIsChosen ==
    [][\A a \in Accounts : ~account[a].default /\ account'[a].default =>
         \E u \in Editors : SaveAccount(u) /\ editor[u].of = a /\ ~editor[u].form.default]_vars

\* A domain that sends via Cloudflare has a token that was valid when it was saved.
TokenWorks == \A d \in Domains : domain[d].cloudflare => Nature[domain[d].token] # "dead"
=============================================================================
