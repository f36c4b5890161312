------------------------------ MODULE Directory ------------------------------
(***************************************************************************)
(* The domains, login aliases and mailboxes of the panel, and their copies *)
(* behind the provisioning API of VM2.                                     *)
(*                                                                         *)
(* Every operation of an administrator reads the tables of VM1, calls VM2  *)
(* (aliases, quotas, a new mailbox) and commits what it learned; nothing   *)
(* spans the two machines, the request of another administrator may run in *)
(* between, a call may fail before VM2 carried it out or after, and the    *)
(* transaction may be rolled back after VM2 was told.  The import has no   *)
(* call, but it looks up and inserts without a lock and relies on what the *)
(* schema declares unique.                                                 *)
(*                                                                         *)
(* Abstractions: the logins of Users have distinct local parts; passwords, *)
(* hosts, ports, is_active and total_quota_mb of a domain are left out, as *)
(* is the deletion of a mailbox (Provisioning).                            *)
(***************************************************************************)
EXTENDS Naturals, Sequences

CONSTANTS
    Sources,     \* domains.source_domain
    Names,       \* names of domains: destinations, aliases; a source is one too
    Users,       \* credentials.source_username
    Quotas,      \* megabytes; the first default of a domain is 0
    File,        \* the rows of the uploaded file: [src, user, ok]
    Admins,      \* panel requests that can be open at once
    Worker,      \* the provision handler
    None,
    MaxMail,     \* bound: mailboxes
    MaxFaults,   \* bound: calls that fail or whose answer is lost, rolled back transactions
    MaxRenames,  \* bound: changes of a destination domain
    MaxRequests  \* bound: administrators' operations

ASSUME DirectoryAssumption ==
    /\ Sources \subseteq Names /\ Names \cap Nat = {} /\ 0 \in Quotas /\ Quotas \subseteq Nat
    /\ File \in Seq([src : Sources, user : Users, ok : BOOLEAN])
    /\ Worker \notin Admins /\ None \notin Names
    /\ MaxMail \in Nat /\ MaxFaults \in Nat /\ MaxRenames \in Nat /\ MaxRequests \in Nat

VARIABLES
    dom,      \* the row of each source domain
    alias,    \* domain_login_aliases: the source domain a name belongs to
    mail,     \* mailboxes with their credential, by id
    batch,    \* the staged import
    vm2,      \* virtual_domains, virtual_domain_aliases, virtual_mailboxes
    req,      \* what each request is doing
    doubt,    \* history: names and mailboxes a lost answer, a roll-back or an overlap left open
    moved,    \* history: aliases whose domain was renamed
    twice,    \* history: logins two requests looked up at once in a known domain
    made,     \* history: mailboxes VM2 was made to have, with the domain
    faults, renames, requests

vars == <<dom, alias, mail, batch, vm2, req, doubt, moved, twice, made, faults, renames, requests>>
rows == <<dom, alias, mail, batch>>
history == <<doubt, moved, twice, made>>

-----------------------------------------------------------------------------
Callers == Admins \cup {Worker}
Key == Sources \X Users

Domain == [dest : Names \cup {None}, quota : Quotas]     \* dest None: no such row
Mailbox == [src : Sources, user : Users, st : {"pending", "active"},
            addr : Names, at : Names \cup {None}, quota : Quotas]
Batch == [st : {"none", "parsed", "committed"}, chosen : SUBSET (1..Len(File))]
Vm2 == [doms : SUBSET Names, alias : [Names -> Names \cup {None}],
        box : [Names \X Users -> Quotas \cup {None}]]

\* pc: "call" VM2 is asked next, "commit" the local commit is next, "look" and
\* "insert" the rows of an import.  src, dest: the domain and destination_domain
\* read; name: the alias, or a domain's new destination; writes: the domain's row
\* changes; gone: the alias row read was deleted since; todo, done, here: mailboxes
\* to call VM2 for, those it answered for, those it does not know; ids, left, now,
\* look: the rows chosen, their logins not yet handled, the one in hand and what the
\* look-up found; seen: the domains read; opens, added: the domains and mailboxes not
\* yet committed; torn: things another request handles meanwhile.
Request == [op : {"none", "add", "delete", "quota", "domain", "provision", "import"},
            pc : {"idle", "call", "commit", "look", "insert"},
            src : Sources \cup {None}, dest : Names \cup {None},
            name : Names \cup {None}, quota : Quotas, writes : BOOLEAN, gone : BOOLEAN,
            todo : SUBSET (1..MaxMail), done : SUBSET (1..MaxMail), here : SUBSET (1..MaxMail),
            ids : SUBSET (1..Len(File)), left : SUBSET Key, now : Key \cup {None},
            look : {"none", "domain", "login"},
            seen : [Sources -> Domain], opens : SUBSET Sources, added : Seq(Mailbox),
            torn : SUBSET (Names \cup 1..MaxMail)]
NoDomain == [dest |-> None, quota |-> 0]
Idle == [op |-> "none", pc |-> "idle", src |-> None, dest |-> None, name |-> None,
         quota |-> 0, writes |-> FALSE, gone |-> FALSE, todo |-> {}, done |-> {}, here |-> {},
         ids |-> {}, left |-> {}, now |-> None, look |-> "none", seen |-> [s \in Sources |-> NoDomain],
         opens |-> {}, added |-> <<>>, torn |-> {}]

Init ==
    /\ dom = [s \in Sources |-> NoDomain]
    /\ alias = [n \in Names |-> None]
    /\ mail = <<>>
    /\ batch = [st |-> "none", chosen |-> {}]
    /\ vm2 = [doms |-> {}, alias |-> [n \in Names |-> None], box |-> [b \in Names \X Users |-> None]]
    /\ req = [a \in Callers |-> Idle]
    /\ doubt = {} /\ moved = {} /\ twice = {} /\ made = {}
    /\ faults = 0 /\ renames = 0 /\ requests = 0

-----------------------------------------------------------------------------
(* Requests in general *)

IsOpen(a) == req[a].pc # "idle"

\* What a request changes on both machines: an alias, or mailboxes.
Things(r) == (IF r.op \in {"add", "delete"} THEN {r.name} ELSE {}) \cup r.todo \cup r.done \cup r.here

\* An administrator's request starts; the ones that meet on a thing are all torn.
Begin(a, r) ==
    /\ ~IsOpen(a)
    /\ requests' = IF a = Worker THEN requests ELSE requests + 1
    /\ requests' <= MaxRequests
    /\ LET Met(b) == IF b # a /\ IsOpen(b) THEN Things(r) \cap Things(req[b]) ELSE {}
       IN  req' = [b \in Callers |->
                     IF b = a THEN [r EXCEPT !.torn = UNION {Met(c) : c \in Callers}]
                              ELSE [req[b] EXCEPT !.torn = @ \cup Met(b)]]

\* The transaction ends; what VM2 was told without another request in between
\* agrees again, what requests tore is in doubt.  A deletion leaves in doubt an alias
\* that VM2 has for another domain than the one it was asked about.
Settle(a) ==
    LET r == req[a]
        settled == CASE r.op = "add" -> {r.name}
                     [] r.op = "delete" -> IF vm2.alias[r.name] \in {None, r.dest} THEN {r.name} ELSE {}
                     [] r.op = "provision" -> {}     \* VM2 keeps a mailbox it has
                     [] OTHER -> r.done
    IN  doubt' = (doubt \ (settled \ r.torn)) \cup (Things(r) \cap r.torn)
Close(a) == req' = [req EXCEPT ![a] = Idle]

-----------------------------------------------------------------------------
(* What an administrator starts *)

AddAlias(a, s, n) ==
    /\ dom[s].dest # None                            \* db.get(Domain, domain_id)
    /\ n # dom[s].dest
    /\ alias[n] = None
    /\ Begin(a, [Idle EXCEPT !.op = "add", !.pc = "call", !.src = s, !.dest = dom[s].dest, !.name = n])
    /\ UNCHANGED <<rows, vm2, history, faults, renames>>

DeleteAlias(a, s, n) ==
    /\ alias[n] = s
    /\ Begin(a, [Idle EXCEPT !.op = "delete", !.pc = "call", !.src = s, !.dest = dom[s].dest, !.name = n])
    /\ UNCHANGED <<rows, vm2, history, faults, renames>>

UpdateQuota(a, i, q) ==
    /\ mail[i].at # None                             \* vm2_mailbox_id
    /\ Begin(a, [Idle EXCEPT !.op = "quota", !.pc = "call", !.todo = {i}, !.quota = q])
    /\ UNCHANGED <<rows, vm2, history, faults, renames>>

\* An UPDATE of the domain is sent before its mailboxes are read, so a second
\* request that changes the same row waits for the first one's transaction.
RowLocked(s) == \E b \in Admins : req[b].op = "domain" /\ req[b].src = s /\ req[b].writes

UpdateDomain(a, s, d, q, all) ==
    LET writes == dom[s] # [dest |-> d, quota |-> q]
        listed == IF all THEN {i \in DOMAIN mail : mail[i].src = s} ELSE {}
        known == {i \in listed : mail[i].at # None}
    IN  /\ dom[s].dest # None
        /\ writes => ~RowLocked(s)
        /\ renames' = IF d = dom[s].dest THEN renames ELSE renames + 1
        /\ renames' <= MaxRenames
        /\ Begin(a, [Idle EXCEPT !.op = "domain", !.pc = IF known = {} THEN "commit" ELSE "call",
                       !.src = s, !.name = d, !.quota = q, !.writes = writes,
                       !.todo = known, !.here = listed \ known])
        /\ UNCHANGED <<rows, vm2, history, faults>>

\* The handler reads the domain, the credential and the quota; a mailbox that is
\* already active is left alone.
Provision(i) ==
    /\ mail[i].st = "pending"
    /\ Begin(Worker, [Idle EXCEPT !.op = "provision", !.pc = "call", !.todo = {i},
                                  !.dest = dom[mail[i].src].dest, !.quota = mail[i].quota])
    /\ UNCHANGED <<rows, vm2, history, faults, renames>>

-----------------------------------------------------------------------------
(* The provisioning API *)

Refused(r) == r.op = "add" /\ (r.dest \notin vm2.doms \/ vm2.alias[r.name] \notin {None, r.dest})

\* What VM2 does for one call; i is the mailbox it is about, if any.
Served(r, i) ==
    CASE r.op = "add" -> [vm2 EXCEPT !.alias[r.name] = r.dest]
      [] r.op = "delete" -> [vm2 EXCEPT !.alias[r.name] = IF @ = r.dest THEN None ELSE @]
      [] r.op \in {"quota", "domain"} -> [vm2 EXCEPT !.box[<<mail[i].at, mail[i].user>>] = r.quota]
      [] r.op = "provision" -> [vm2 EXCEPT !.doms = @ \cup {r.dest},
                                           !.box[<<r.dest, mail[i].user>>] = IF @ = None THEN r.quota ELSE @]

MadeBy(r, i) == IF r.op = "provision" THEN made \cup {<<i, r.dest>>} ELSE made

Subjects(r) == IF r.op \in {"add", "delete"} THEN {r.name} ELSE r.todo

\* One call is over for the caller; ok: i was done.
Called(r, i, ok) ==
    [r EXCEPT !.todo = @ \ {i}, !.done = IF ok /\ i \in r.todo THEN @ \cup {i} ELSE @,
              !.pc = IF Subjects(r) = {i} THEN "commit" ELSE "call"]

\* A failure ends the request, that of the worker too; only update_domain goes on
\* with the next mailbox.
FailedGoesOn(a, i) ==                                \* mistake: the error only logged
    req' = [req EXCEPT ![a] = Called(@, i, FALSE)]
Failed(a, i) ==
    req' = [req EXCEPT ![a] = IF @.op = "domain" THEN Called(@, i, FALSE) ELSE Idle]

CallServed(a) ==
    /\ req[a].pc = "call"
    /\ \E i \in Subjects(req[a]) :
         /\ ~Refused(req[a])
         /\ vm2' = Served(req[a], i)
         /\ made' = MadeBy(req[a], i)
         /\ req' = [req EXCEPT ![a] = Called(@, i, TRUE)]
    /\ UNCHANGED <<rows, doubt, moved, twice, faults, renames, requests>>

CallRefused(a) ==
    /\ req[a].pc = "call"
    /\ Refused(req[a])
    /\ Close(a)
    /\ UNCHANGED <<rows, vm2, history, faults, renames, requests>>

\* The call does not reach VM2, or VM2 serves it and the answer does not return.
CallFails(a) ==
    /\ req[a].pc = "call"
    /\ faults < MaxFaults
    /\ faults' = faults + 1
    /\ \E i \in Subjects(req[a]) :
         /\ Failed(a, i)
         /\ \/ UNCHANGED <<vm2, doubt, made>>
            \/ /\ ~Refused(req[a])
               /\ vm2' = Served(req[a], i)
               /\ made' = MadeBy(req[a], i)
               /\ doubt' = doubt \cup {i}
    /\ UNCHANGED <<rows, moved, twice, renames, requests>>

-----------------------------------------------------------------------------
(* The commits of VM1 *)

\* What VM2 has carried out and the open transaction has not committed yet.
Told(r) == r.done \cup (IF r.op \in {"add", "delete"} /\ r.pc = "commit" THEN {r.name} ELSE {})

\* Up to its commit PostgreSQL may roll a transaction back (the connection is lost,
\* it is the victim of a deadlock, the watchdog of gunicorn ends its process): VM1
\* forgets it, VM2 does not.
RolledBack(a) ==
    /\ IsOpen(a)
    /\ faults < MaxFaults
    /\ faults' = faults + 1
    /\ doubt' = doubt \cup Told(req[a])
    /\ Close(a)
    /\ UNCHANGED <<rows, vm2, moved, twice, made, renames, requests>>

\* UNIQUE (alias_name): the slower of two requests for one name ends with 500.
AddAliasCommit(a) ==
    /\ req[a].op = "add" /\ req[a].pc = "commit"
    /\ IF alias[req[a].name] = None
       THEN alias' = [alias EXCEPT ![req[a].name] = req[a].src] /\ Settle(a)
       ELSE UNCHANGED <<alias, doubt>>
    /\ moved' = IF dom[req[a].src].dest = req[a].dest THEN moved ELSE moved \cup {req[a].name}
    /\ Close(a)
    /\ UNCHANGED <<dom, mail, batch, vm2, twice, made, faults, renames, requests>>

\* DELETE by id: nothing happens to a row added again under the same name.
DeleteAliasCommit(a) ==
    /\ req[a].op = "delete" /\ req[a].pc = "commit"
    /\ alias' = [alias EXCEPT ![req[a].name] = IF req[a].gone THEN @ ELSE None]
    /\ Settle(a)
    /\ req' = [b \in Callers |->
                 IF b = a THEN Idle
                 ELSE IF req[b].op = "delete" /\ req[b].name = req[a].name /\ ~req[a].gone
                 THEN [req[b] EXCEPT !.gone = TRUE] ELSE req[b]]
    /\ UNCHANGED <<dom, mail, batch, vm2, moved, twice, made, faults, renames, requests>>

UpdateQuotaCommit(a) ==
    /\ req[a].op = "quota" /\ req[a].pc = "commit"
    /\ mail' = [i \in DOMAIN mail |->
                  IF i \in req[a].done THEN [mail[i] EXCEPT !.quota = req[a].quota] ELSE mail[i]]
    /\ Settle(a)
    /\ Close(a)
    /\ UNCHANGED <<dom, alias, batch, vm2, moved, twice, made, faults, renames, requests>>

\* The mailboxes VM2 answered for get the quota, and those it does not know yet;
\* an alias keeps belonging to the domain, whose name on VM2 was another one.
UpdateDomainCommit(a) ==
    /\ req[a].op = "domain" /\ req[a].pc = "commit"
    /\ LET r == req[a] IN
         /\ dom' = IF r.writes THEN [dom EXCEPT ![r.src] = [dest |-> r.name, quota |-> r.quota]] ELSE dom
         /\ mail' = [i \in DOMAIN mail |->
                       IF i \in r.done \cup r.here THEN [mail[i] EXCEPT !.quota = r.quota] ELSE mail[i]]
         /\ moved' = IF dom'[r.src].dest = dom[r.src].dest THEN moved
                     ELSE moved \cup {n \in Names : alias[n] = r.src}
    /\ Settle(a)
    /\ Close(a)
    /\ UNCHANGED <<alias, batch, vm2, twice, made, faults, renames, requests>>

ProvisionCommit ==
    /\ req[Worker].op = "provision" /\ req[Worker].pc = "commit"
    /\ mail' = [i \in DOMAIN mail |->
                  IF i \in req[Worker].done
                  THEN [mail[i] EXCEPT !.st = "active", !.at = req[Worker].dest] ELSE mail[i]]
    /\ Settle(Worker)
    /\ Close(Worker)
    /\ UNCHANGED <<dom, alias, batch, vm2, moved, twice, made, faults, renames, requests>>

-----------------------------------------------------------------------------
(* The import *)

Login(k) == <<File[k].src, File[k].user>>
Repeated(k) == \E j \in 1..(k - 1) : Login(j) = Login(k)
Importable(ids) == {Login(k) : k \in {j \in ids : File[j].ok /\ ~Repeated(j)}}

Upload ==
    /\ batch.st = "none"
    /\ batch' = [batch EXCEPT !.st = "parsed"]
    /\ UNCHANGED <<dom, alias, mail, vm2, req, history, faults, renames, requests>>

\* Review and confirmation: the rows ticked; invalid and repeated ones are skipped.
Confirm(a, ids) ==
    /\ batch.st = "parsed"
    /\ Begin(a, [Idle EXCEPT !.op = "import", !.pc = "look", !.ids = ids, !.left = Importable(ids)])
    /\ UNCHANGED <<rows, vm2, history, faults, renames>>

AddMailbox(a, s, u) ==
    /\ Begin(a, [Idle EXCEPT !.op = "import", !.pc = "look", !.left = {<<s, u>>}])
    /\ UNCHANGED <<rows, vm2, history, faults, renames>>

Has(boxes, s, u) == \E i \in DOMAIN boxes : boxes[i].src = s /\ boxes[i].user = u
Looks(a, s, u) == Has(req[a].added, s, u) \/ (req[a].pc = "insert" /\ req[a].now = <<s, u>>)

\* The rows come in no order.  upsert_mailbox looks for the domain, then for the
\* login in it.  The session keeps the domain as it was first read.
LookUp(a) ==
    /\ req[a].pc = "look"
    /\ \E s \in Sources, u \in Users :
       LET known == dom[s].dest # None \/ s \in req[a].opens
       IN  /\ <<s, u>> \in req[a].left
           /\ req' = [req EXCEPT ![a].pc = "insert", ![a].now = <<s, u>>, ![a].left = @ \ {<<s, u>>},
                        ![a].look = IF ~known THEN "none"
                                    ELSE IF Has(mail, s, u) \/ Has(req[a].added, s, u) THEN "login"
                                    ELSE "domain",
                        ![a].seen[s] = IF @ = NoDomain THEN dom[s] ELSE @]
           /\ twice' = IF dom[s].dest # None /\ \E b \in Admins \ {a} : Looks(b, s, u)
                       THEN twice \cup {<<s, u>>} ELSE twice
    /\ UNCHANGED <<rows, vm2, doubt, moved, made, faults, renames, requests>>

\* A new domain keeps its name as its destination.
NewDomainBare(s) == NoDomain                         \* mistake: inserted without one
NewDomain(s) == [dest |-> s, quota |-> 0]

\* UNIQUE (source_domain).
TakenUnchecked(s) == FALSE                           \* mistake: not declared
Taken(s) == dom[s].dest # None

\* The insert of a domain waits for another transaction's uncommitted one; once
\* that is committed, UNIQUE (source_domain) ends this request and all it did.
Insert(a) ==
    /\ req[a].pc = "insert"
    /\ LET s == req[a].now[1]
           u == req[a].now[2]
           new == req[a].look = "none"
           d == IF new THEN NewDomain(s) ELSE req[a].seen[s]
           box == [src |-> s, user |-> u, st |-> "pending", at |-> None,
                   addr |-> d.dest, quota |-> d.quota]
       IN  /\ new => \A b \in Admins \ {a} : s \notin req[b].opens
           /\ IF new /\ Taken(s) THEN Close(a)
              ELSE req' = [req EXCEPT ![a].pc = "look", ![a].now = None, ![a].seen[s] = d,
                             ![a].opens = IF new THEN @ \cup {s} ELSE @,
                             ![a].added = IF req[a].look = "login" THEN @ ELSE Append(@, box)]
    /\ UNCHANGED <<rows, vm2, history, faults, renames, requests>>

ImportCommit(a) ==
    /\ req[a].pc = "look" /\ req[a].left = {}
    /\ Len(mail) + Len(req[a].added) <= MaxMail
    /\ mail' = mail \o req[a].added
    /\ dom' = [s \in Sources |-> IF s \in req[a].opens THEN NewDomain(s) ELSE dom[s]]
    /\ batch' = IF req[a].ids = {} THEN batch
                ELSE [st |-> "committed", chosen |-> batch.chosen \cup req[a].ids]
    /\ Close(a)
    /\ UNCHANGED <<alias, vm2, history, faults, renames, requests>>

-----------------------------------------------------------------------------
Edits(a) ==
    \/ \E s \in Sources, n \in Names : AddAlias(a, s, n) \/ DeleteAlias(a, s, n)
    \/ \E i \in DOMAIN mail, q \in Quotas : UpdateQuota(a, i, q)
    \/ \E s \in Sources, d \in Names, q \in Quotas, all \in BOOLEAN : UpdateDomain(a, s, d, q, all)
    \/ AddAliasCommit(a) \/ DeleteAliasCommit(a) \/ UpdateQuotaCommit(a) \/ UpdateDomainCommit(a)

Imports(a) ==
    \/ \E ids \in SUBSET (1..Len(File)) : ids # {} /\ Confirm(a, ids)
    \/ \E s \in Sources, u \in Users : AddMailbox(a, s, u)
    \/ LookUp(a) \/ Insert(a) \/ ImportCommit(a)

Calls(a) == CallServed(a) \/ CallRefused(a) \/ CallFails(a) \/ RolledBack(a)

Next ==
    \/ Upload
    \/ \E a \in Admins : Edits(a) \/ Imports(a) \/ Calls(a)
    \/ \E i \in DOMAIN mail : Provision(i)
    \/ Calls(Worker)
    \/ ProvisionCommit

Spec == Init /\ [][Next]_vars

-----------------------------------------------------------------------------
(* Properties *)

\* Every variable has its type: in particular a domain that exists has a destination,
\* so every mailbox an import adds has an address.
TypeOK ==
    /\ dom \in [Sources -> Domain]
    /\ alias \in [Names -> Sources \cup {None}]
    /\ mail \in Seq(Mailbox) /\ Len(mail) <= MaxMail
    /\ batch \in Batch
    /\ vm2 \in Vm2
    /\ req \in [Callers -> Request]
    /\ doubt \subseteq Names \cup 1..MaxMail /\ moved \subseteq Names /\ twice \subseteq Key
    /\ made \subseteq (1..MaxMail) \X Names
    /\ faults \in 0..MaxFaults /\ renames \in 0..MaxRenames /\ requests \in 0..MaxRequests

Busy(t) == \E a \in Callers : IsOpen(a) /\ t \in Things(req[a])

\* Nothing keeps two rows of the panel from one address: domains may have the same
\* destination, and VM2 answers the second with the mailbox of the first.
Sole(i) == \A j \in DOMAIN mail \ {i} : mail[j].user = mail[i].user => <<j, mail[i].at>> \notin made

\* A login alias of the panel is on VM2, for the same domain, and VM2 has no
\* other, and an active mailbox that is the only one of its address has the quota
\* VM2 enforces: at every moment nobody is changing them, and unless an answer was
\* lost, a transaction was rolled back after VM2 had been told, or two requests met
\* on this very alias or mailbox and none succeeded alone since, or the domain of
\* the alias was renamed (the code never renames it on VM2).
SidesAgree ==
    /\ \A n \in Names \ (doubt \cup moved) : ~Busy(n) =>
          vm2.alias[n] = IF alias[n] = None THEN None ELSE dom[alias[n]].dest
    /\ \A i \in DOMAIN mail : mail[i].st = "active" /\ ~Busy(i) /\ i \notin doubt /\ Sole(i) =>
          vm2.box[mail[i].at, mail[i].user] = mail[i].quota

\* Two confirmations of an import, or one and a mailbox added by hand, can run at
\* the same time: a login of a domain that was new to both gets one mailbox all the
\* same, and every row of a confirmed import that was ticked, complete and not a
\* repetition has its mailbox.  (Two requests that look up the same new login of a
\* known domain at once do create it twice: "twice".)
OneMailbox ==
    /\ \A i, j \in DOMAIN mail : i < j /\ <<mail[i].src, mail[i].user>> \notin twice =>
          <<mail[i].src, mail[i].user>> # <<mail[j].src, mail[j].user>>
    /\ \A k \in batch.chosen : File[k].ok /\ ~Repeated(k) => Has(mail, File[k].src, File[k].user)

-----------------------------------------------------------------------------
(* What the documentation says and these steps do not keep *)

\* "Login through this alias will stop working" (docs/user/login-aliases.md, on
\* deleting one): VM2 is asked to delete it from the domain's present destination,
\* finds no such alias after a rename, and the panel's row goes all the same.
DeletedAliasStops ==
    [][\A n \in Names : alias[n] # None /\ alias'[n] = None => vm2'.alias[n] = None]_vars

\* "We keep no alias that VM2 has not accepted" (docstring of add_alias): a deletion
\* whose answer is lost leaves one.
KeptAliasAccepted == \A n \in Names : alias[n] # None /\ ~Busy(n) => vm2.alias[n] # None

\* "The mailbox physically exists under the canonical domain, the destination on
\* VM2" (docs/user/login-aliases.md): a new destination_domain moves no mailbox, but
\* the next transfer logs in there (sync_job_handler.handle).
LivesAtDestination ==
    \A i \in DOMAIN mail : mail[i].st = "active" => mail[i].at = dom[mail[i].src].dest

=============================================================================
