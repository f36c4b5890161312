--------------------------- MODULE DirectoryProofs ---------------------------
(***************************************************************************)
(* Proofs about Directory, for every set of domains, names, logins and     *)
(* quotas, every file and every number of administrators' requests.        *)
(***************************************************************************)
EXTENDS Directory, TLAPS

Op(a) == req[a].op
Named(a, n) == Op(a) \in {"add", "delete"} /\ req[a].name = n
Sends(a, i) == Op(a) \in {"quota", "domain"} /\ i \in req[a].todo \cup req[a].done
Known(s) == dom[s].dest # None
Pending(i) == mail[i].st = "pending"

\* What each kind of request has read and holds.
FormOf(a, r) ==
    /\ r.op = "none" <=> r.pc = "idle"
    /\ r.op # "none" => (r.op = "provision" <=> a = Worker)
    /\ r.op \in {"add", "delete", "quota", "domain", "provision"} => r.pc \in {"call", "commit"}
    /\ r.op = "import" => r.pc \in {"look", "insert"}
    /\ r.op \in {"add", "delete"} => r.src \in Sources /\ r.name \in Names /\ r.dest \in Names
    /\ r.op = "domain" => r.src \in Sources /\ r.name \in Names
    /\ r.op = "provision" => r.dest \in Names
    /\ r.op \in {"quota", "provision"} => \E i \in 1..MaxMail : r.todo \cup r.done = {i}
    /\ r.op \notin {"quota", "domain", "provision"} => r.todo = {} /\ r.done = {}
    /\ r.op # "domain" => r.here = {}
    /\ r.op # "import" => r.ids = {} /\ r.left = {} /\ r.opens = {} /\ r.added = <<>>
    /\ r.pc = "insert" => r.now \in Key
    /\ r.pc = "commit" => r.todo = {}
    /\ r.pc = "call" /\ r.op \in {"quota", "provision"} => r.done = {}

FormInv ==
    \A a \in Callers :
       /\ FormOf(a, req[a])
       /\ req[a].todo \cup req[a].done \cup req[a].here \subseteq DOMAIN mail

\* The tables of VM1: a domain that exists has a name on VM2, aliases and mailboxes
\* belong to domains that exist, and an active mailbox is where VM2 was made to have it.
TablesInv ==
    /\ \A s \in Sources : ~Known(s) => dom[s] = NoDomain
    /\ \A n \in Names : alias[n] # None => Known(alias[n])
    /\ \A i \in DOMAIN mail : /\ Known(mail[i].src)
                              /\ Pending(i) <=> mail[i].at = None
                              /\ ~Pending(i) => <<i, mail[i].at>> \in made
    /\ made \subseteq (DOMAIN mail) \X Names
    /\ \A a \in Callers : Op(a) \in {"add", "delete"} \/ (Op(a) = "domain" /\ req[a].writes)
                            => Known(req[a].src)

\* Two requests that meet on a thing are torn.
TornInv ==
    \A a, b \in Callers : a # b => Things(req[a]) \cap Things(req[b]) \subseteq req[a].torn

\* An alias: where VM2 stands while nobody, or one request, is at it.
Target(n) == IF alias[n] = None THEN None ELSE dom[alias[n]].dest
AtCommit(a, n) == Named(a, n) /\ req[a].pc = "commit"
Clear(n) == n \notin doubt \cup moved

AliasPhase(a, n) ==
    /\ Op(a) = "add" => alias[n] = None
    /\ Op(a) = "add" /\ req[a].pc = "commit" => vm2.alias[n] = req[a].dest
    /\ Op(a) = "delete" => /\ alias[n] = req[a].src /\ ~req[a].gone
                           /\ n \notin moved => dom[req[a].src].dest = req[a].dest
    /\ Op(a) = "delete" /\ req[a].pc = "commit" =>
          /\ vm2.alias[n] # req[a].dest
          /\ Clear(n) => vm2.alias[n] = None

AliasInv ==
    \A n \in Names :
       /\ Clear(n) /\ (\A a \in Callers : ~AtCommit(a, n)) => vm2.alias[n] = Target(n)
       /\ \A a \in Callers : Named(a, n) /\ n \notin req[a].torn => AliasPhase(a, n)
       /\ \A a \in Callers : Named(a, n) /\ Op(a) = "add" /\ alias[n] # None => n \in doubt

\* A mailbox: the same.
SoleAt(i, d) == \A j \in DOMAIN mail \ {i} : mail[j].user = mail[i].user => <<j, d>> \notin made
QuotaOpen(i) == \E a \in Callers : Op(a) \in {"quota", "domain"} /\ i \in req[a].done

MailboxInv ==
    /\ \A d \in Names, u \in Users : vm2.box[d, u] # None =>
          \E i \in DOMAIN mail : mail[i].user = u /\ <<i, d>> \in made
    /\ \A i \in DOMAIN mail :
       /\ ~Pending(i) /\ i \notin doubt /\ ~QuotaOpen(i) /\ SoleAt(i, mail[i].at) =>
             vm2.box[mail[i].at, mail[i].user] = mail[i].quota
       /\ Pending(i) /\ i \notin doubt /\ i \notin req[Worker].done =>
             \A d \in Names : <<i, d>> \notin made

QuotaInv ==
    /\ \A a \in Callers, i \in DOMAIN mail : Sends(a, i) => ~Pending(i)
    /\ \A a \in Callers, i \in DOMAIN mail :
          Op(a) \in {"quota", "domain"} /\ i \in req[a].done \ req[a].torn /\ SoleAt(i, mail[i].at) =>
             vm2.box[mail[i].at, mail[i].user] = req[a].quota
    /\ \A a \in Callers, i \in DOMAIN mail : i \in req[a].here \ req[a].torn => Pending(i)

WorkerInv ==
    \A i \in req[Worker].todo \cup req[Worker].done :
       /\ Pending(i)
       /\ i \notin req[Worker].torn => req[Worker].quota = mail[i].quota
       /\ i \in req[Worker].done => <<i, req[Worker].dest>> \in made
       /\ /\ i \in req[Worker].done \ req[Worker].torn /\ i \notin doubt
          /\ SoleAt(i, req[Worker].dest)
          => vm2.box[req[Worker].dest, mail[i].user] = req[Worker].quota

\* An import: a new domain is nobody else's, and a login is added once, unless two
\* requests looked it up in a known domain.
Inserts(a, s, u) == req[a].pc = "insert" /\ req[a].now = <<s, u>>
Opened(a, s) == s \in req[a].opens \/ Known(s)

OpensInv ==
    /\ \A a \in Callers, s \in Sources : s \in req[a].opens => ~Known(s)
    /\ \A a, b \in Callers : a # b => req[a].opens \cap req[b].opens = {}
    /\ \A a \in Callers : \A i \in DOMAIN req[a].added :
          /\ Opened(a, req[a].added[i].src)
          /\ req[a].added[i].st = "pending" /\ req[a].added[i].at = None
    /\ \A a \in Callers, s \in Sources :
          /\ req[a].seen[s].dest = None => req[a].seen[s] = NoDomain
          /\ s \in req[a].opens => req[a].seen[s].dest # None
    /\ \A a \in Callers, s \in Sources, u \in Users : Inserts(a, s, u) =>
          /\ req[a].look = "none" => s \notin req[a].opens
          /\ req[a].look # "none" => Opened(a, s) /\ req[a].seen[s].dest # None

Claims(a, s, u) == Has(req[a].added, s, u) \/ (Inserts(a, s, u) /\ req[a].look = "domain")

LoginInv ==
    /\ \A i, j \in DOMAIN mail : i < j =>
          \/ <<mail[i].src, mail[i].user>> # <<mail[j].src, mail[j].user>>
          \/ <<mail[i].src, mail[i].user>> \in twice
    /\ \A a \in Callers : \A i, j \in DOMAIN req[a].added : i < j =>
          <<req[a].added[i].src, req[a].added[i].user>> # <<req[a].added[j].src, req[a].added[j].user>>
    /\ \A a \in Callers, s \in Sources, u \in Users :
          Claims(a, s, u) /\ Has(mail, s, u) => <<s, u>> \in twice
    /\ \A a, b \in Callers, s \in Sources, u \in Users :
          a # b /\ Claims(a, s, u) /\ Claims(b, s, u) => <<s, u>> \in twice
    /\ \A a \in Callers, s \in Sources, u \in Users :
          Inserts(a, s, u) /\ req[a].look = "domain" => ~Has(req[a].added, s, u)

RowsInv ==
    /\ \A k \in batch.chosen : File[k].ok /\ ~Repeated(k) => Has(mail, File[k].src, File[k].user)
    /\ \A a \in Callers : \A k \in req[a].ids : File[k].ok /\ ~Repeated(k) =>
          \/ Login(k) \in req[a].left
          \/ Inserts(a, File[k].src, File[k].user)
          \/ Has(mail, File[k].src, File[k].user)
          \/ Has(req[a].added, File[k].src, File[k].user)
    /\ \A a \in Callers, s \in Sources, u \in Users : Inserts(a, s, u) /\ req[a].look = "login" =>
          Has(mail, s, u) \/ Has(req[a].added, s, u)

IInv == /\ TypeOK /\ FormInv /\ TablesInv /\ TornInv /\ AliasInv /\ MailboxInv /\ QuotaInv
        /\ WorkerInv /\ OpensInv /\ LoginInv /\ RowsInv

-----------------------------------------------------------------------------
(* Records. *)

\* The same request, up to what tore it and whether its alias is gone.
Alike(r, e) ==
    /\ e.op = r.op /\ e.pc = r.pc /\ e.src = r.src /\ e.dest = r.dest /\ e.name = r.name
    /\ e.quota = r.quota /\ e.writes = r.writes
    /\ e.todo = r.todo /\ e.done = r.done /\ e.here = r.here
    /\ e.ids = r.ids /\ e.left = r.left /\ e.now = r.now /\ e.look = r.look
    /\ e.seen = r.seen /\ e.opens = r.opens /\ e.added = r.added

LEMMA AlikeThings == \A r, e : Alike(r, e) => Things(e) = Things(r)
BY DEF Alike, Things

LEMMA NoDomainIs == NoDomain \in Domain /\ NoDomain.dest = None /\ NoDomain.quota = 0
BY DirectoryAssumption DEF NoDomain, Domain

LEMMA IdleIs ==
    /\ Idle \in Request
    /\ Idle.op = "none" /\ Idle.pc = "idle" /\ Idle.src = None /\ Idle.dest = None
    /\ Idle.name = None /\ Idle.quota = 0 /\ Idle.writes = FALSE /\ Idle.gone = FALSE
    /\ Idle.todo = {} /\ Idle.done = {} /\ Idle.here = {} /\ Idle.ids = {} /\ Idle.left = {}
    /\ Idle.now = None /\ Idle.look = "none" /\ Idle.seen = [s \in Sources |-> NoDomain]
    /\ Idle.opens = {} /\ Idle.added = <<>> /\ Idle.torn = {}
<1>1. [s \in Sources |-> NoDomain] \in [Sources -> Domain]
  BY NoDomainIs
<1>2. <<>> \in Seq(Mailbox)
  OBVIOUS
<1>3. 0 \in Quotas
  BY DirectoryAssumption
<1> QED BY <1>1, <1>2, <1>3 DEF Idle, Request

LEMMA IdleRequest == Idle \in Request
BY IdleIs

LEMMA IdleThings == Things(Idle) = {}
BY IdleIs DEF Things

\* The types of what a request holds.
LEMMA RequestIs ==
    ASSUME TypeOK, NEW a \in Callers
    PROVE  /\ req[a] \in Request
           /\ req[a].op \in {"none", "add", "delete", "quota", "domain", "provision", "import"}
           /\ req[a].pc \in {"idle", "call", "commit", "look", "insert"}
           /\ req[a].src \in Sources \cup {None} /\ req[a].dest \in Names \cup {None}
           /\ req[a].name \in Names \cup {None} /\ req[a].quota \in Quotas
           /\ req[a].writes \in BOOLEAN /\ req[a].gone \in BOOLEAN
           /\ req[a].todo \subseteq 1..MaxMail /\ req[a].done \subseteq 1..MaxMail
           /\ req[a].here \subseteq 1..MaxMail
           /\ req[a].ids \subseteq 1..Len(File) /\ req[a].left \subseteq Key
           /\ req[a].now \in Key \cup {None} /\ req[a].look \in {"none", "domain", "login"}
           /\ req[a].seen \in [Sources -> Domain] /\ req[a].opens \subseteq Sources
           /\ req[a].added \in Seq(Mailbox) /\ req[a].torn \subseteq Names \cup 1..MaxMail
BY DEF TypeOK, Request

LEMMA CallersAre == Admins \subseteq Callers /\ Worker \in Callers /\ Worker \notin Admins
BY DirectoryAssumption DEF Callers

\* The step of one caller leaves the requests of the others as they are.
Elsewhere(a) ==
    /\ req' \in [Callers -> Request]
    /\ \A b \in Callers \ {a} : Alike(req[b], req'[b]) /\ req[b].torn \subseteq req'[b].torn
Unasked(a) == \A b \in Callers \ {a} : req'[b].gone = req[b].gone

Ends(a) == Elsewhere(a) /\ Unasked(a) /\ req'[a] = Idle

LEMMA ReqSet ==
    ASSUME TypeOK, NEW a \in Callers, NEW r \in Request, req' = [req EXCEPT ![a] = r]
    PROVE  Elsewhere(a) /\ Unasked(a) /\ req'[a] = r
<1>1. req' \in [Callers -> Request] /\ req'[a] = r /\ \A b \in Callers \ {a} : req'[b] = req[b]
  BY DEF TypeOK
<1>2. \A b \in Callers \ {a} : Alike(req[b], req'[b]) /\ req[b].torn \subseteq req'[b].torn
  BY <1>1 DEF Alike
<1> QED BY <1>1, <1>2 DEF Elsewhere, Unasked

LEMMA ReqCloses ==
    ASSUME TypeOK, NEW a \in Callers, Close(a)
    PROVE  Ends(a)
BY IdleIs, ReqSet DEF Close, Ends

\* Things are names and mailboxes.
LEMMA ThingsType ==
    ASSUME TypeOK, FormInv, NEW a \in Callers
    PROVE  Things(req[a]) \subseteq Names \cup 1..MaxMail
BY RequestIs DEF FormInv, FormOf, Things

\* A request starts: what it shares with an open one is torn for both.
Meets(a, r) ==
    /\ ~IsOpen(a)
    /\ Elsewhere(a) /\ Unasked(a) /\ Alike(r, req'[a]) /\ req'[a].gone = r.gone
    /\ \A b \in Callers \ {a} :
          IsOpen(b) => Things(r) \cap Things(req[b]) \subseteq req'[a].torn \cap req'[b].torn
    /\ requests' \in 0..MaxRequests

LEMMA BeginMeets ==
    ASSUME TypeOK, NEW a \in Callers, NEW r \in Request,
           Things(r) \subseteq Names \cup 1..MaxMail, Begin(a, r)
    PROVE  Meets(a, r)
<1> DEFINE Met(b) == IF b # a /\ IsOpen(b) THEN Things(r) \cap Things(req[b]) ELSE {}
           all == UNION {Met(c) : c \in Callers}
           mine == [r EXCEPT !.torn = all]
           other(b) == [req[b] EXCEPT !.torn = @ \cup Met(b)]
<1>1. req' = [b \in Callers |-> IF b = a THEN mine ELSE other(b)]
  BY DEF Begin
<1>2. ~IsOpen(a) /\ requests' \in 0..MaxRequests
  BY DirectoryAssumption DEF Begin, TypeOK
<1>3. \A b : Met(b) \subseteq Names \cup 1..MaxMail
  OBVIOUS
<1>4. all \subseteq Names \cup 1..MaxMail
  BY <1>3
<1>5. \A b \in Callers : Met(b) \subseteq all
  OBVIOUS
<1> HIDE DEF all
<1>6. mine \in Request /\ mine.torn = all /\ mine.gone = r.gone /\ Alike(r, mine)
  BY <1>4 DEF Request, Alike
<1>7. ASSUME NEW b \in Callers
      PROVE  /\ other(b) \in Request /\ Alike(req[b], other(b)) /\ other(b).gone = req[b].gone
             /\ other(b).torn = req[b].torn \cup Met(b)
  <2>1. req[b] \in Request
    BY DEF TypeOK
  <2> DEFINE m == Met(b)
  <2>2. m \subseteq Names \cup 1..MaxMail
    BY <1>3
  <2> HIDE DEF m
  <2>3. /\ [req[b] EXCEPT !.torn = @ \cup m] \in Request
        /\ Alike(req[b], [req[b] EXCEPT !.torn = @ \cup m])
        /\ [req[b] EXCEPT !.torn = @ \cup m].torn = req[b].torn \cup m
        /\ [req[b] EXCEPT !.torn = @ \cup m].gone = req[b].gone
    BY <2>1, <2>2 DEF Request, Alike
  <2> QED BY <2>3 DEF m
<1> HIDE DEF mine, other
<1>8. req' \in [Callers -> Request] /\ req'[a] = mine
      /\ \A b \in Callers \ {a} : req'[b] = other(b)
  BY <1>1, <1>6, <1>7
<1>9. ASSUME NEW b \in Callers \ {a}
      PROVE  /\ Alike(req[b], req'[b]) /\ req[b].torn \subseteq req'[b].torn
             /\ req'[b].gone = req[b].gone
             /\ IsOpen(b) => Things(r) \cap Things(req[b]) \subseteq req'[a].torn \cap req'[b].torn
  BY <1>5, <1>6, <1>7, <1>8
<1>10. Elsewhere(a) /\ Unasked(a)
  BY <1>8, <1>9 DEF Elsewhere, Unasked
<1>11. Alike(r, req'[a]) /\ req'[a].gone = r.gone
  BY <1>6, <1>8
<1> QED BY <1>2, <1>9, <1>10, <1>11 DEF Meets

-----------------------------------------------------------------------------
(* What steps there are. *)

RowsKept == dom' = dom /\ alias' = alias /\ mail' = mail /\ batch' = batch
HistoryKept == doubt' = doubt /\ moved' = moved /\ twice' = twice /\ made' = made

NewAlias(a, r) ==
    /\ r.op \in {"add", "delete"} /\ a \in Admins /\ r.pc = "call"
    /\ r.src \in Sources /\ Known(r.src) /\ r.dest = dom[r.src].dest /\ r.dest \in Names
    /\ r.name \in Names /\ r.gone = FALSE
    /\ alias[r.name] = IF r.op = "add" THEN None ELSE r.src
    /\ r.todo = {} /\ r.here = {} /\ r.ids = {} /\ r.left = {}

NewQuota(a, r) ==
    /\ r.op = "quota" /\ a \in Admins /\ r.pc = "call"
    /\ \E i \in DOMAIN mail : r.todo = {i} /\ mail[i].at # None
    /\ r.here = {} /\ r.ids = {} /\ r.left = {}

NewEdit(a, r) ==
    /\ r.op = "domain" /\ a \in Admins /\ r.src \in Sources /\ Known(r.src) /\ r.name \in Names
    /\ r.pc = IF r.todo = {} THEN "commit" ELSE "call"
    /\ r.todo \subseteq {i \in DOMAIN mail : mail[i].at # None}
    /\ r.here \subseteq {i \in DOMAIN mail : mail[i].at = None}
    /\ r.ids = {} /\ r.left = {}

NewProvision(a, r) ==
    /\ r.op = "provision" /\ a = Worker /\ r.pc = "call" /\ r.dest \in Names
    /\ \E i \in DOMAIN mail : r.todo = {i} /\ Pending(i) /\ r.quota = mail[i].quota
    /\ r.here = {} /\ r.ids = {} /\ r.left = {}

NewImport(a, r) ==
    /\ r.op = "import" /\ a \in Admins /\ r.pc = "look" /\ r.todo = {} /\ r.here = {}
    /\ \A k \in r.ids : File[k].ok /\ ~Repeated(k) => Login(k) \in r.left

New(a, r) ==
    /\ r.done = {} /\ r.opens = {} /\ r.added = <<>> /\ r.seen = [s \in Sources |-> NoDomain]
    /\ \/ NewAlias(a, r) \/ NewQuota(a, r) \/ NewEdit(a, r)
       \/ NewProvision(a, r) \/ NewImport(a, r)

\* A request starts.
Starts(a) ==
    /\ Elsewhere(a) /\ Unasked(a) /\ ~IsOpen(a) /\ New(a, req'[a])
    /\ \A b \in Callers \ {a} :
          IsOpen(b) => Things(req'[a]) \cap Things(req[b]) \subseteq req'[a].torn \cap req'[b].torn
    /\ RowsKept /\ vm2' = vm2 /\ HistoryKept

\* VM2 carries a call out.
Serving(a, i) ==
    /\ req[a].pc = "call" /\ i \in Subjects(req[a]) /\ ~Refused(req[a])
    /\ \A n \in Names : vm2'.alias[n] =
          IF ~Named(a, n) THEN vm2.alias[n]
          ELSE IF Op(a) = "add" THEN req[a].dest
          ELSE IF vm2.alias[n] = req[a].dest THEN None ELSE vm2.alias[n]
    /\ \A d \in Names, u \in Users : vm2'.box[d, u] =
          IF \/ Op(a) \in {"quota", "domain"} /\ d = mail[i].at /\ u = mail[i].user
             \/ /\ Op(a) = "provision" /\ d = req[a].dest /\ u = mail[i].user
                /\ vm2.box[d, u] = None
          THEN req[a].quota ELSE vm2.box[d, u]
    /\ made' = MadeBy(req[a], i)

\* One call is over.
Goes(a, i, ok) == Elsewhere(a) /\ Unasked(a) /\ req'[a] = Called(req[a], i, ok)

Serves(a, i) ==
    /\ Serving(a, i) /\ Goes(a, i, TRUE)
    /\ RowsKept /\ doubt' = doubt /\ moved' = moved /\ twice' = twice

\* The answer is lost.
Loses(a, i) ==
    /\ Serving(a, i) /\ (IF Op(a) = "domain" THEN Goes(a, i, FALSE) ELSE Ends(a))
    /\ RowsKept /\ doubt' = doubt \cup {i} /\ moved' = moved /\ twice' = twice

Skips(a, i) ==
    /\ Op(a) = "domain" /\ req[a].pc = "call" /\ i \in req[a].todo /\ Goes(a, i, FALSE)
    /\ RowsKept /\ vm2' = vm2 /\ HistoryKept

\* A request ends without a commit.
Drops(a) ==
    /\ req[a].pc # "idle" /\ Ends(a)
    /\ RowsKept /\ vm2' = vm2 /\ doubt' = doubt \cup Told(req[a])
    /\ moved' = moved /\ twice' = twice /\ made' = made

\* What VM2 carried out of it is one of its mailboxes or its alias; nothing is, while
\* it waits for its only answer or inserts.
LEMMA ToldIs ==
    ASSUME TypeOK, FormInv, NEW a \in Callers
    PROVE  /\ Told(req[a]) \subseteq Names \cup 1..MaxMail
           /\ Op(a) # "domain" /\ req[a].pc \in {"call", "insert"} => Told(req[a]) = {}
<1>1. FormOf(a, req[a]) /\ req[a] \in Request
  BY DEF FormInv, TypeOK
<1>2. req[a].op \in {"none", "add", "delete", "quota", "domain", "provision", "import"}
      /\ req[a].done \subseteq 1..MaxMail
  BY <1>1 DEF Request
<1>3. req[a].op \in {"add", "delete"} => req[a].name \in Names
  BY <1>1 DEF FormOf
<1>4. Op(a) # "domain" /\ req[a].pc \in {"call", "insert"} => req[a].done = {}
  BY <1>1, <1>2 DEF FormOf, Op
<1> QED BY <1>2, <1>3, <1>4 DEF Told, Op

LEMMA DropsNothing ==
    ASSUME TypeOK, FormInv, NEW a \in Callers, Op(a) # "domain", req[a].pc \in {"call", "insert"},
           Ends(a), RowsKept, vm2' = vm2, HistoryKept
    PROVE  Drops(a)
<1>1. Told(req[a]) = {}
  BY ToldIs
<1> QED BY <1>1 DEF Drops, HistoryKept

LEMMA NewAlike ==
    ASSUME NEW a, NEW r, NEW e, Alike(r, e), e.gone = r.gone, New(a, r)
    PROVE  New(a, e)
BY DEF Alike, New, NewAlias, NewQuota, NewEdit, NewProvision, NewImport

LEMMA NewThings ==
    ASSUME TypeOK, NEW a, NEW r, New(a, r)
    PROVE  Things(r) \subseteq Names \cup 1..MaxMail
<1>1. DOMAIN mail \subseteq 1..MaxMail
  BY DirectoryAssumption DEF TypeOK
<1> QED BY <1>1 DEF New, NewAlias, NewQuota, NewEdit, NewProvision, NewImport, Things

\* A new request, as Begin leaves it.
LEMMA BeginStarts ==
    ASSUME TypeOK, NEW a \in Callers, NEW r \in Request, New(a, r), Begin(a, r),
           UNCHANGED <<rows, vm2, history, faults>>, renames' \in 0..MaxRenames
    PROVE  TypeOK' /\ Starts(a)
<1>1. Meets(a, r)
  BY NewThings, BeginMeets
<1>2. New(a, req'[a])
  BY <1>1, NewAlike DEF Meets
<1>3. Things(req'[a]) = Things(r)
  BY <1>1, AlikeThings DEF Meets
<1>4. RowsKept /\ vm2' = vm2 /\ HistoryKept /\ faults' = faults
  BY DEF rows, history, RowsKept, HistoryKept
<1>5. Starts(a)
  BY <1>1, <1>2, <1>3, <1>4 DEF Meets, Starts
<1>6. TypeOK'
  BY <1>1, <1>4 DEF TypeOK, Meets, Elsewhere, RowsKept, HistoryKept
<1> QED BY <1>5, <1>6

LEMMA AddAliasStarts ==
    ASSUME IInv, NEW a \in Admins, NEW s \in Sources, NEW n \in Names, AddAlias(a, s, n)
    PROVE  TypeOK' /\ Starts(a)
<1> DEFINE r == [Idle EXCEPT !.op = "add", !.pc = "call", !.src = s, !.dest = dom[s].dest, !.name = n]
<1>1. TypeOK /\ a \in Callers
  BY CallersAre DEF IInv
<1>2. dom[s] \in Domain /\ dom[s].dest # None /\ alias[n] = None
  BY <1>1 DEF TypeOK, AddAlias
<1>3. dom[s].dest \in Names
  BY <1>2 DEF Domain
<1>4. r \in Request /\ Alike(r, r)
  BY <1>3, IdleRequest DEF Request, Alike
<1>5. /\ r.op = "add" /\ r.pc = "call" /\ r.src = s /\ r.dest = dom[s].dest /\ r.name = n
      /\ r.gone = FALSE /\ r.todo = {} /\ r.done = {} /\ r.here = {} /\ r.ids = {} /\ r.left = {}
      /\ r.opens = {} /\ r.added = <<>> /\ r.seen = [t \in Sources |-> NoDomain]
  BY DEF Idle
<1>6. Begin(a, r) /\ UNCHANGED <<rows, vm2, history, faults>> /\ renames' = renames
  BY DEF AddAlias
<1> HIDE DEF r
<1>7. New(a, r)
  BY <1>2, <1>3, <1>5 DEF New, NewAlias, Known
<1>8. renames' \in 0..MaxRenames
  BY <1>1, <1>6 DEF TypeOK
<1> QED BY <1>1, <1>4, <1>6, <1>7, <1>8, BeginStarts

LEMMA DeleteAliasStarts ==
    ASSUME IInv, NEW a \in Admins, NEW s \in Sources, NEW n \in Names, DeleteAlias(a, s, n)
    PROVE  TypeOK' /\ Starts(a)
<1> DEFINE r == [Idle EXCEPT !.op = "delete", !.pc = "call", !.src = s, !.dest = dom[s].dest, !.name = n]
<1>1. TypeOK /\ TablesInv /\ a \in Callers
  BY CallersAre DEF IInv
<1>2. dom[s] \in Domain /\ alias[n] = s /\ s # None
  BY <1>1, DirectoryAssumption DEF TypeOK, DeleteAlias
<1>3. dom[s].dest # None
  BY <1>1, <1>2 DEF TablesInv, Known
<1>4. dom[s].dest \in Names
  BY <1>2, <1>3 DEF Domain
<1>5. r \in Request
  BY <1>4, IdleRequest DEF Request
<1>6. /\ r.op = "delete" /\ r.pc = "call" /\ r.src = s /\ r.dest = dom[s].dest /\ r.name = n
      /\ r.gone = FALSE /\ r.todo = {} /\ r.done = {} /\ r.here = {} /\ r.ids = {} /\ r.left = {}
      /\ r.opens = {} /\ r.added = <<>> /\ r.seen = [t \in Sources |-> NoDomain]
  BY DEF Idle
<1>7. Begin(a, r) /\ UNCHANGED <<rows, vm2, history, faults>> /\ renames' = renames
  BY DEF DeleteAlias
<1> HIDE DEF r
<1>8. New(a, r)
  BY <1>2, <1>3, <1>4, <1>6 DEF New, NewAlias, Known
<1>9. renames' \in 0..MaxRenames
  BY <1>1, <1>7 DEF TypeOK
<1> QED BY <1>1, <1>5, <1>7, <1>8, <1>9, BeginStarts

LEMMA UpdateQuotaStarts ==
    ASSUME IInv, NEW a \in Admins, NEW i \in DOMAIN mail, NEW q \in Quotas, UpdateQuota(a, i, q)
    PROVE  TypeOK' /\ Starts(a)
<1> DEFINE r == [Idle EXCEPT !.op = "quota", !.pc = "call", !.todo = {i}, !.quota = q]
<1>1. TypeOK /\ a \in Callers
  BY CallersAre DEF IInv
<1>2. {i} \in SUBSET (1..MaxMail)
  BY <1>1, DirectoryAssumption DEF TypeOK
<1>3. r \in Request
  <2> DEFINE todo == {i}
  <2>1. todo \in SUBSET (1..MaxMail)
    BY <1>2
  <2> HIDE DEF todo
  <2>2. [Idle EXCEPT !.op = "quota", !.pc = "call", !.todo = todo, !.quota = q] \in Request
    BY <2>1, IdleRequest DEF Request
  <2> QED BY <2>2 DEF todo
<1>4. /\ r.op = "quota" /\ r.pc = "call" /\ r.todo = {i}
      /\ r.done = {} /\ r.here = {} /\ r.ids = {} /\ r.left = {}
      /\ r.opens = {} /\ r.added = <<>> /\ r.seen = [t \in Sources |-> NoDomain]
  BY DEF Idle
<1>5. Begin(a, r) /\ UNCHANGED <<rows, vm2, history, faults>> /\ renames' = renames /\ mail[i].at # None
  BY DEF UpdateQuota
<1> HIDE DEF r
<1>6. New(a, r)
  BY <1>4, <1>5 DEF New, NewQuota
<1>7. renames' \in 0..MaxRenames
  BY <1>1, <1>5 DEF TypeOK
<1> QED BY <1>1, <1>3, <1>5, <1>6, <1>7, BeginStarts

LEMMA UpdateDomainStarts ==
    ASSUME IInv, NEW a \in Admins, NEW s \in Sources, NEW d \in Names, NEW q \in Quotas,
           NEW all \in BOOLEAN, UpdateDomain(a, s, d, q, all)
    PROVE  TypeOK' /\ Starts(a)
<1> DEFINE writes == dom[s] # [dest |-> d, quota |-> q]
           listed == IF all THEN {i \in DOMAIN mail : mail[i].src = s} ELSE {}
           known == {i \in listed : mail[i].at # None}
           rest == listed \ known
           pc == IF known = {} THEN "commit" ELSE "call"
           r == [Idle EXCEPT !.op = "domain", !.pc = pc, !.src = s, !.name = d, !.quota = q,
                             !.writes = writes, !.todo = known, !.here = rest]
<1>1. TypeOK /\ a \in Callers
  BY CallersAre DEF IInv
<1>2. DOMAIN mail \subseteq 1..MaxMail
  BY <1>1, DirectoryAssumption DEF TypeOK
<1>3. /\ known \subseteq {i \in DOMAIN mail : mail[i].at # None}
      /\ rest \subseteq {i \in DOMAIN mail : mail[i].at = None}
      /\ writes \in BOOLEAN
  OBVIOUS
<1>4. /\ Begin(a, r) /\ UNCHANGED <<rows, vm2, history, faults>> /\ dom[s].dest # None
      /\ renames' = (IF d = dom[s].dest THEN renames ELSE renames + 1) /\ renames' <= MaxRenames
  BY DEF UpdateDomain
<1> HIDE DEF writes, known, rest
<1>5. pc \in {"commit", "call"}
  OBVIOUS
<1>6. r \in Request
  <2>1. known \in SUBSET (1..MaxMail) /\ rest \in SUBSET (1..MaxMail)
    BY <1>2, <1>3
  <2>2. pc \in {"idle", "call", "commit", "look", "insert"}
    BY <1>5
  <2> HIDE DEF pc
  <2>3. [Idle EXCEPT !.op = "domain", !.pc = pc, !.src = s, !.name = d, !.quota = q,
                     !.writes = writes, !.todo = known, !.here = rest] \in Request
    BY <1>3, <2>1, <2>2, IdleRequest DEF Request
  <2> QED BY <2>3
<1>7. /\ r.op = "domain" /\ r.pc = pc /\ r.src = s /\ r.name = d
      /\ r.todo = known /\ r.here = rest /\ r.done = {} /\ r.ids = {} /\ r.left = {}
      /\ r.opens = {} /\ r.added = <<>> /\ r.seen = [t \in Sources |-> NoDomain]
  BY DEF Idle
<1> HIDE DEF r
<1>8. NewEdit(a, r)
  BY <1>3, <1>4, <1>7 DEF NewEdit, Known
<1>9. New(a, r)
  BY <1>7, <1>8 DEF New
<1>10. renames' \in 0..MaxRenames
  BY <1>1, <1>4, DirectoryAssumption DEF TypeOK
<1> QED BY <1>1, <1>4, <1>6, <1>9, <1>10, BeginStarts

LEMMA ProvisionStarts ==
    ASSUME IInv, NEW i \in DOMAIN mail, Provision(i)
    PROVE  TypeOK' /\ Starts(Worker)
<1> DEFINE t == dom[mail[i].src].dest
           q == mail[i].quota
           r == [Idle EXCEPT !.op = "provision", !.pc = "call", !.todo = {i}, !.dest = t, !.quota = q]
<1>1. TypeOK /\ TablesInv /\ Worker \in Callers
  BY CallersAre DEF IInv
<1>2. i \in 1..MaxMail /\ mail[i] \in Mailbox
  BY <1>1, DirectoryAssumption DEF TypeOK
<1>3. q \in Quotas /\ mail[i].src \in Sources /\ Known(mail[i].src)
  BY <1>1, <1>2 DEF Mailbox, TablesInv
<1>4. dom[mail[i].src] \in Domain
  BY <1>1, <1>3 DEF TypeOK
<1>5. t \in Names
  BY <1>3, <1>4 DEF Known, Domain
<1>6. /\ Begin(Worker, r) /\ UNCHANGED <<rows, vm2, history, faults>> /\ renames' = renames
      /\ Pending(i)
  BY DEF Provision, Pending
<1> HIDE DEF t, q
<1>7. r \in Request
  <2> DEFINE todo == {i}
  <2>1. todo \in SUBSET (1..MaxMail)
    BY <1>2
  <2> HIDE DEF todo
  <2>2. [Idle EXCEPT !.op = "provision", !.pc = "call", !.todo = todo, !.dest = t, !.quota = q]
          \in Request
    BY <1>3, <1>5, <2>1, IdleRequest DEF Request
  <2> QED BY <2>2 DEF todo
<1>8. /\ r.op = "provision" /\ r.pc = "call" /\ r.todo = {i} /\ r.dest = t /\ r.quota = q
      /\ r.done = {} /\ r.here = {} /\ r.ids = {} /\ r.left = {}
      /\ r.opens = {} /\ r.added = <<>> /\ r.seen = [s \in Sources |-> NoDomain]
  BY DEF Idle
<1> HIDE DEF r
<1>9. New(Worker, r)
  BY <1>5, <1>6, <1>8 DEF New, NewProvision, q
<1>10. renames' \in 0..MaxRenames
  BY <1>1, <1>6 DEF TypeOK
<1> QED BY <1>1, <1>6, <1>7, <1>9, <1>10, BeginStarts

\* The file's logins are logins.
LEMMA FileIs ==
    ASSUME NEW k \in 1..Len(File)
    PROVE  /\ File[k].src \in Sources /\ File[k].user \in Users /\ File[k].ok \in BOOLEAN
           /\ Login(k) = <<File[k].src, File[k].user>> /\ Login(k) \in Key
<1> DEFINE R == [src : Sources, user : Users, ok : BOOLEAN]
<1>1. File \in Seq(R)
  BY DirectoryAssumption
<1> HIDE DEF R
<1>2. File[k] \in R
  BY <1>1
<1> QED BY <1>2 DEF Login, Key, R

LEMMA ConfirmStarts ==
    ASSUME IInv, NEW a \in Admins, NEW ids \in SUBSET (1..Len(File)), Confirm(a, ids)
    PROVE  TypeOK' /\ Starts(a)
<1> DEFINE left == Importable(ids)
           r == [Idle EXCEPT !.op = "import", !.pc = "look", !.ids = ids, !.left = left]
<1>1. TypeOK /\ a \in Callers
  BY CallersAre DEF IInv
<1>2. left \subseteq Key
  BY FileIs DEF Importable
<1>3. \A k \in ids : File[k].ok /\ ~Repeated(k) => Login(k) \in left
  BY DEF Importable
<1>4. Begin(a, r) /\ UNCHANGED <<rows, vm2, history, faults>> /\ renames' = renames
  BY DEF Confirm
<1> HIDE DEF left
<1>5. r \in Request
  <2>1. left \in SUBSET Key
    BY <1>2
  <2>2. ids \in SUBSET (1..Len(File))
    OBVIOUS
  <2> QED BY <2>1, <2>2, IdleRequest DEF Request
<1>6. /\ r.op = "import" /\ r.pc = "look" /\ r.ids = ids /\ r.left = left
      /\ r.todo = {} /\ r.done = {} /\ r.here = {}
      /\ r.opens = {} /\ r.added = <<>> /\ r.seen = [s \in Sources |-> NoDomain]
  BY DEF Idle
<1> HIDE DEF r
<1>7. New(a, r)
  BY <1>3, <1>6 DEF New, NewImport
<1>8. renames' \in 0..MaxRenames
  BY <1>1, <1>4 DEF TypeOK
<1> QED BY <1>1, <1>4, <1>5, <1>7, <1>8, BeginStarts

LEMMA AddMailboxStarts ==
    ASSUME IInv, NEW a \in Admins, NEW s \in Sources, NEW u \in Users, AddMailbox(a, s, u)
    PROVE  TypeOK' /\ Starts(a)
<1> DEFINE left == {<<s, u>>}
           r == [Idle EXCEPT !.op = "import", !.pc = "look", !.left = left]
<1>1. TypeOK /\ a \in Callers
  BY CallersAre DEF IInv
<1>2. left \subseteq Key
  BY DEF Key
<1>3. Begin(a, r) /\ UNCHANGED <<rows, vm2, history, faults>> /\ renames' = renames
  BY DEF AddMailbox
<1> HIDE DEF left
<1>4. r \in Request
  <2>1. left \in SUBSET Key
    BY <1>2
  <2> QED BY <2>1, IdleRequest DEF Request
<1>5. /\ r.op = "import" /\ r.pc = "look" /\ r.ids = {} /\ r.left = left
      /\ r.todo = {} /\ r.done = {} /\ r.here = {}
      /\ r.opens = {} /\ r.added = <<>> /\ r.seen = [t \in Sources |-> NoDomain]
  BY DEF Idle
<1> HIDE DEF r
<1>6. New(a, r)
  BY <1>5 DEF New, NewImport
<1>7. renames' \in 0..MaxRenames
  BY <1>1, <1>3 DEF TypeOK
<1> QED BY <1>1, <1>3, <1>4, <1>6, <1>7, BeginStarts

-----------------------------------------------------------------------------
(* The calls. *)

CalledAt(r, i, ok, e) ==
    /\ e.op = r.op /\ e.src = r.src /\ e.dest = r.dest /\ e.name = r.name
    /\ e.quota = r.quota /\ e.writes = r.writes /\ e.gone = r.gone /\ e.here = r.here
    /\ e.ids = r.ids /\ e.left = r.left /\ e.now = r.now /\ e.look = r.look
    /\ e.seen = r.seen /\ e.opens = r.opens /\ e.added = r.added /\ e.torn = r.torn
    /\ e.todo = r.todo \ {i}
    /\ e.done = IF ok /\ i \in r.todo THEN r.done \cup {i} ELSE r.done
    /\ e.pc = IF Subjects(r) = {i} THEN "commit" ELSE "call"

LEMMA CalledIs ==
    ASSUME NEW r \in Request, NEW i, NEW ok \in BOOLEAN
    PROVE  Called(r, i, ok) \in Request /\ CalledAt(r, i, ok, Called(r, i, ok))
<1> DEFINE todo == r.todo \ {i}
           done == IF ok /\ i \in r.todo THEN r.done \cup {i} ELSE r.done
           pc == IF Subjects(r) = {i} THEN "commit" ELSE "call"
           e == [r EXCEPT !.todo = todo, !.done = done, !.pc = pc]
<1>1. r.todo \in SUBSET (1..MaxMail) /\ r.done \in SUBSET (1..MaxMail)
  BY DEF Request
<1>2. todo \in SUBSET (1..MaxMail) /\ done \in SUBSET (1..MaxMail)
  BY <1>1
<1>3. pc \in {"idle", "call", "commit", "look", "insert"}
  OBVIOUS
<1>4. Called(r, i, ok) = e
  BY DEF Called
<1> HIDE DEF todo, done, pc
<1>5. e \in Request
  BY <1>2, <1>3 DEF Request
<1>6. /\ e.op = r.op /\ e.src = r.src /\ e.dest = r.dest /\ e.name = r.name
      /\ e.quota = r.quota /\ e.writes = r.writes /\ e.gone = r.gone /\ e.here = r.here
      /\ e.ids = r.ids /\ e.left = r.left /\ e.now = r.now /\ e.look = r.look
      /\ e.seen = r.seen /\ e.opens = r.opens /\ e.added = r.added /\ e.torn = r.torn
      /\ e.todo = todo /\ e.done = done /\ e.pc = pc
  BY DEF Request
<1> HIDE DEF e
<1> QED BY <1>4, <1>5, <1>6 DEF todo, done, pc, CalledAt

\* What a request that asks VM2 has read.
LEMMA AskerIs ==
    ASSUME IInv, NEW a \in Callers, req[a].pc = "call", NEW i \in Subjects(req[a])
    PROVE  /\ Op(a) \in {"add", "delete", "quota", "domain", "provision"}
           /\ Op(a) \in {"add", "delete"} => i = req[a].name /\ i \in Names /\ req[a].dest \in Names
                                             /\ i \notin 1..MaxMail /\ req[a].todo = {} /\ Named(a, i)
           /\ Op(a) \in {"quota", "domain", "provision"} =>
                /\ i \in req[a].todo /\ i \in DOMAIN mail /\ i \in 1..MaxMail /\ i \notin Names
                /\ mail[i] \in Mailbox /\ \A n \in Names : ~Named(a, n)
           /\ Op(a) \in {"quota", "domain"} => ~Pending(i) /\ mail[i].at \in Names
           /\ Op(a) = "provision" => a = Worker /\ Pending(i) /\ req[a].dest \in Names /\ req[a].done = {}
<1>1. TypeOK /\ FormOf(a, req[a]) /\ req[a].todo \subseteq DOMAIN mail
  BY DEF IInv, FormInv
<1>2. DOMAIN mail \subseteq 1..MaxMail /\ \A j \in DOMAIN mail : mail[j] \in Mailbox
  BY <1>1, DirectoryAssumption DEF TypeOK
<1>3. Op(a) \in {"add", "delete", "quota", "domain", "provision"}
  BY <1>1, RequestIs DEF FormOf, Op
<1>4. ASSUME Op(a) \in {"add", "delete"}
      PROVE  /\ i = req[a].name /\ i \in Names /\ req[a].dest \in Names /\ req[a].todo = {}
             /\ Named(a, i)
  BY <1>1, <1>4 DEF FormOf, Op, Subjects, Named
<1>5. Names \cap (1..MaxMail) = {}
  BY DirectoryAssumption
<1>6. ASSUME Op(a) \in {"quota", "domain", "provision"}
      PROVE  /\ i \in req[a].todo /\ i \in DOMAIN mail /\ i \in 1..MaxMail /\ i \notin Names
             /\ mail[i] \in Mailbox /\ \A n \in Names : ~Named(a, n)
  BY <1>1, <1>2, <1>5, <1>6 DEF Op, Subjects, Named
<1>7. ASSUME Op(a) \in {"quota", "domain"}
      PROVE  ~Pending(i) /\ mail[i].at \in Names
  <2>1. ~Pending(i)
    BY <1>6, <1>7 DEF IInv, QuotaInv, Sends
  <2>2. mail[i].at # None
    BY <1>6, <1>7, <2>1 DEF IInv, TablesInv
  <2> QED BY <1>6, <1>7, <2>1, <2>2 DEF Mailbox
<1>8. ASSUME Op(a) = "provision"
      PROVE  a = Worker /\ Pending(i) /\ req[a].dest \in Names /\ req[a].done = {}
  <2>1. a = Worker /\ req[a].dest \in Names /\ req[a].done = {}
    BY <1>1, <1>8 DEF FormOf, Op
  <2>2. Pending(i)
    BY <1>6, <1>8, <2>1 DEF IInv, WorkerInv
  <2> QED BY <2>1, <2>2
<1> QED BY <1>3, <1>4, <1>5, <1>6, <1>7, <1>8

\* What the EXCEPTs of a call amount to.
AliasSet(v, w, n, x) ==
    /\ w \in Vm2 /\ w.box = v.box
    /\ \A k \in Names : w.alias[k] = IF k = n THEN x ELSE v.alias[k]
BoxSet(v, w, d, u, q) ==
    /\ w \in Vm2 /\ w.alias = v.alias
    /\ \A e \in Names, t \in Users : w.box[e, t] = IF e = d /\ t = u THEN q ELSE v.box[e, t]

LEMMA Vm2Alias ==
    ASSUME NEW v \in Vm2, NEW n \in Names, NEW x \in Names \cup {None}
    PROVE  AliasSet(v, [v EXCEPT !.alias[n] = x], n, x)
<1> DEFINE f == [v.alias EXCEPT ![n] = x]
           w == [v EXCEPT !.alias = f]
<1>1. v.alias \in [Names -> Names \cup {None}]
  BY DEF Vm2
<1>2. f \in [Names -> Names \cup {None}] /\ \A k \in Names : f[k] = IF k = n THEN x ELSE v.alias[k]
  BY <1>1
<1>3. [v EXCEPT !.alias[n] = x] = w
  OBVIOUS
<1> HIDE DEF f
<1>4. w \in Vm2 /\ w.box = v.box /\ w.alias = f
  BY <1>2 DEF Vm2
<1> HIDE DEF w
<1> QED BY <1>2, <1>3, <1>4 DEF AliasSet

LEMMA Vm2Box ==
    ASSUME NEW v \in Vm2, NEW d \in Names, NEW u \in Users, NEW q \in Quotas \cup {None},
           NEW ds \in SUBSET Names
    PROVE  BoxSet(v, [v EXCEPT !.doms = ds, !.box[<<d, u>>] = q], d, u, q)
<1> DEFINE f == [v.box EXCEPT ![<<d, u>>] = q]
           w == [v EXCEPT !.doms = ds, !.box = f]
<1>1. v.box \in [Names \X Users -> Quotas \cup {None}]
  BY DEF Vm2
<1>2. /\ f \in [Names \X Users -> Quotas \cup {None}]
      /\ \A e \in Names, t \in Users : f[e, t] = IF e = d /\ t = u THEN q ELSE v.box[e, t]
  BY <1>1
<1>3. [v EXCEPT !.doms = ds, !.box[<<d, u>>] = q] = w
  OBVIOUS
<1> HIDE DEF f
<1>4. w \in Vm2 /\ w.alias = v.alias /\ w.box = f
  BY <1>2 DEF Vm2
<1> HIDE DEF w
<1> QED BY <1>2, <1>3, <1>4 DEF BoxSet

LEMMA ServedIs ==
    ASSUME IInv, NEW a \in Callers, req[a].pc = "call", NEW i \in Subjects(req[a]),
           ~Refused(req[a]), vm2' = Served(req[a], i), made' = MadeBy(req[a], i)
    PROVE  Serving(a, i) /\ vm2' \in Vm2 /\ made' \subseteq (1..MaxMail) \X Names
<1> DEFINE r == req[a]
           m == mail[i]
<1>1. vm2 \in Vm2 /\ made \subseteq (1..MaxMail) \X Names /\ TypeOK
  BY DEF IInv, TypeOK
<1>2. r.quota \in Quotas
  BY <1>1, RequestIs
<1>3. Op(a) \in {"add", "delete", "quota", "domain", "provision"}
  BY AskerIs
<1>4. made' \subseteq (1..MaxMail) \X Names
  <2>1. CASE Op(a) = "provision"
    <3>1. i \in 1..MaxMail /\ req[a].dest \in Names
      BY <2>1, AskerIs
    <3> QED BY <1>1, <2>1, <3>1 DEF MadeBy, Op
  <2>2. CASE Op(a) # "provision"
    BY <1>1, <2>2 DEF MadeBy, Op
  <2> QED BY <2>1, <2>2
<1> DEFINE Aliases == \A n \in Names : vm2'.alias[n] =
                        IF ~Named(a, n) THEN vm2.alias[n]
                        ELSE IF Op(a) = "add" THEN req[a].dest
                        ELSE IF vm2.alias[n] = req[a].dest THEN None ELSE vm2.alias[n]
           Boxes == \A d \in Names, u \in Users : vm2'.box[d, u] =
                        IF \/ Op(a) \in {"quota", "domain"} /\ d = mail[i].at /\ u = mail[i].user
                           \/ /\ Op(a) = "provision" /\ d = req[a].dest /\ u = mail[i].user
                              /\ vm2.box[d, u] = None
                        THEN req[a].quota ELSE vm2.box[d, u]
<1>5. CASE Op(a) \in {"add", "delete"}
  <2>1. i = r.name /\ r.name \in Names /\ r.dest \in Names
    BY <1>5, AskerIs
  <2>2. CASE Op(a) = "add"
    <3>1. vm2' = [vm2 EXCEPT !.alias[r.name] = r.dest]
      BY <2>2 DEF Served, Op
    <3>2. /\ vm2' \in Vm2 /\ vm2'.box = vm2.box
          /\ \A n \in Names : vm2'.alias[n] = IF n = r.name THEN r.dest ELSE vm2.alias[n]
      <4>1. AliasSet(vm2, [vm2 EXCEPT !.alias[r.name] = r.dest], r.name, r.dest)
        BY <1>1, <2>1, Vm2Alias
      <4>2. AliasSet(vm2, vm2', r.name, r.dest)
        BY <3>1, <4>1
      <4> QED BY <4>2 DEF AliasSet
    <3>3. Aliases /\ Boxes
      BY <2>2, <3>2 DEF Named
    <3> QED BY <1>4, <3>2, <3>3 DEF Serving
  <2>3. CASE Op(a) = "delete"
    <3>1. vm2' = [vm2 EXCEPT !.alias[r.name] = IF @ = r.dest THEN None ELSE @]
      BY <2>3 DEF Served, Op
    <3> DEFINE v == IF vm2.alias[r.name] = r.dest THEN None ELSE vm2.alias[r.name]
    <3>2. vm2' = [vm2 EXCEPT !.alias[r.name] = v] /\ v \in Names \cup {None}
      BY <1>1, <2>1, <3>1 DEF Vm2
    <3> HIDE DEF v
    <3>3. /\ vm2' \in Vm2 /\ vm2'.box = vm2.box
          /\ \A n \in Names : vm2'.alias[n] = IF n = r.name THEN v ELSE vm2.alias[n]
      <4>1. AliasSet(vm2, [vm2 EXCEPT !.alias[r.name] = v], r.name, v)
        BY <1>1, <2>1, <3>2, Vm2Alias
      <4>2. AliasSet(vm2, vm2', r.name, v)
        BY <3>2, <4>1
      <4> QED BY <4>2 DEF AliasSet
    <3>4. Aliases
      BY <2>3, <3>3 DEF Named, v
    <3>5. Boxes
      BY <2>3, <3>3
    <3> QED BY <1>4, <3>3, <3>4, <3>5 DEF Serving
  <2> QED BY <1>5, <2>2, <2>3
<1>6. CASE Op(a) \in {"quota", "domain"}
  <2>1. m \in Mailbox /\ m.at \in Names /\ \A n \in Names : ~Named(a, n)
    BY <1>6, AskerIs
  <2>2. m.user \in Users
    BY <2>1 DEF Mailbox
  <2>3. vm2' = [vm2 EXCEPT !.box[<<m.at, m.user>>] = r.quota]
    BY <1>6 DEF Served, Op
  <2> HIDE DEF m
  <2>4. /\ vm2' \in Vm2 /\ vm2'.alias = vm2.alias
        /\ \A d \in Names, u \in Users :
              vm2'.box[d, u] = IF d = m.at /\ u = m.user THEN r.quota ELSE vm2.box[d, u]
    <3>1. vm2' = [vm2 EXCEPT !.doms = vm2.doms, !.box[<<m.at, m.user>>] = r.quota]
      BY <1>1, <2>3 DEF Vm2
    <3>2. vm2.doms \in SUBSET Names
      BY <1>1 DEF Vm2
    <3>3. r.quota \in Quotas \cup {None}
      BY <1>2
    <3> HIDE DEF r
    <3>4. BoxSet(vm2, [vm2 EXCEPT !.doms = vm2.doms, !.box[<<m.at, m.user>>] = r.quota],
                 m.at, m.user, r.quota)
      BY <1>1, <2>1, <2>2, <3>2, <3>3, Vm2Box
    <3>5. BoxSet(vm2, vm2', m.at, m.user, r.quota)
      BY <3>1, <3>4
    <3> QED BY <3>5 DEF BoxSet, r
  <2>5. Aliases
    BY <2>1, <2>4
  <2>6. Boxes
    BY <1>6, <2>4 DEF m
  <2> QED BY <1>4, <2>4, <2>5, <2>6 DEF Serving
<1>7. CASE Op(a) = "provision"
  <2>1. m \in Mailbox /\ r.dest \in Names /\ \A n \in Names : ~Named(a, n)
    BY <1>7, AskerIs
  <2>2. m.user \in Users
    BY <2>1 DEF Mailbox
  <2> DEFINE v == IF vm2.box[<<r.dest, m.user>>] = None THEN r.quota ELSE vm2.box[<<r.dest, m.user>>]
             ds == vm2.doms \cup {r.dest}
  <2>3. vm2' = [vm2 EXCEPT !.doms = ds, !.box[<<r.dest, m.user>>] = v]
    BY <1>1, <1>7 DEF Served, Op, Vm2
  <2>4. v \in Quotas \cup {None} /\ ds \in SUBSET Names
    BY <1>1, <1>2, <2>1, <2>2 DEF Vm2
  <2> HIDE DEF m, v, ds
  <2>5. /\ vm2' \in Vm2 /\ vm2'.alias = vm2.alias
        /\ \A d \in Names, u \in Users :
              vm2'.box[d, u] = IF d = r.dest /\ u = m.user THEN v ELSE vm2.box[d, u]
    <3>1. BoxSet(vm2, [vm2 EXCEPT !.doms = ds, !.box[<<r.dest, m.user>>] = v], r.dest, m.user, v)
      BY <1>1, <2>1, <2>2, <2>4, Vm2Box
    <3>2. BoxSet(vm2, vm2', r.dest, m.user, v)
      BY <2>3, <3>1
    <3> QED BY <3>2 DEF BoxSet
  <2>6. Aliases
    BY <2>1, <2>5
  <2>7. Boxes
    <3> SUFFICES ASSUME NEW d \in Names, NEW u \in Users
                 PROVE  vm2'.box[d, u] = IF d = r.dest /\ u = m.user /\ vm2.box[d, u] = None
                                         THEN r.quota ELSE vm2.box[d, u]
      BY <1>7 DEF m
    <3>1. CASE d = r.dest /\ u = m.user
      BY <2>5, <3>1 DEF v
    <3>2. CASE ~(d = r.dest /\ u = m.user)
      BY <2>5, <3>2
    <3> QED BY <3>1, <3>2
  <2> QED BY <1>4, <2>5, <2>6, <2>7 DEF Serving
<1> QED BY <1>3, <1>5, <1>6, <1>7

LEMMA CallServedServes ==
    ASSUME IInv, NEW a \in Callers, CallServed(a)
    PROVE  TypeOK' /\ \E i : Serves(a, i)
<1>1. TypeOK /\ req[a] \in Request /\ req[a].pc = "call"
  BY DEF IInv, TypeOK, CallServed
<1>2. PICK i \in Subjects(req[a]) : /\ ~Refused(req[a]) /\ vm2' = Served(req[a], i)
                                    /\ made' = MadeBy(req[a], i)
                                    /\ req' = [req EXCEPT ![a] = Called(@, i, TRUE)]
  BY DEF CallServed
<1>3. RowsKept /\ doubt' = doubt /\ moved' = moved /\ twice' = twice
  BY DEF CallServed, rows, RowsKept
<1>4. faults' = faults /\ renames' = renames /\ requests' = requests
  BY DEF CallServed
<1>5. Serving(a, i) /\ vm2' \in Vm2 /\ made' \subseteq (1..MaxMail) \X Names
  BY <1>1, <1>2, ServedIs
<1> DEFINE e == Called(req[a], i, TRUE)
<1>6. e \in Request
  BY <1>1, CalledIs
<1>7. req' = [req EXCEPT ![a] = e]
  BY <1>2
<1> HIDE DEF e
<1>8. Elsewhere(a) /\ Unasked(a) /\ req'[a] = e
  BY <1>1, <1>6, <1>7, ReqSet
<1>9. TypeOK'
  BY <1>1, <1>3, <1>4, <1>5, <1>8 DEF TypeOK, Elsewhere, RowsKept
<1>10. Serves(a, i)
  BY <1>3, <1>5, <1>8 DEF Serves, Goes, e
<1> QED BY <1>9, <1>10

LEMMA CallRefusedDrops ==
    ASSUME IInv, NEW a \in Callers, CallRefused(a)
    PROVE  TypeOK' /\ Drops(a)
<1>1. TypeOK /\ req[a].pc = "call" /\ Op(a) = "add"
  BY DEF IInv, CallRefused, Refused, Op
<1>2. RowsKept /\ vm2' = vm2 /\ HistoryKept
  BY DEF CallRefused, rows, history, RowsKept, HistoryKept
<1>3. faults' = faults /\ renames' = renames /\ requests' = requests
  BY DEF CallRefused
<1>4. Ends(a)
  BY <1>1, ReqCloses DEF CallRefused
<1>5. TypeOK'
  BY <1>1, <1>2, <1>3, <1>4 DEF TypeOK, Ends, Elsewhere, RowsKept, HistoryKept
<1> QED BY <1>1, <1>2, <1>4, <1>5, DropsNothing DEF IInv

LEMMA RolledBackDrops ==
    ASSUME IInv, NEW a \in Callers, RolledBack(a)
    PROVE  TypeOK' /\ Drops(a)
<1>1. TypeOK /\ Told(req[a]) \subseteq Names \cup 1..MaxMail
  BY ToldIs DEF IInv
<1>2. /\ RowsKept /\ vm2' = vm2 /\ moved' = moved /\ twice' = twice /\ made' = made
      /\ doubt' = doubt \cup Told(req[a]) /\ renames' = renames /\ requests' = requests
  BY DEF RolledBack, rows, RowsKept
<1>3. faults' \in 0..MaxFaults
  BY <1>1, DirectoryAssumption DEF RolledBack, TypeOK
<1>4. req[a].pc # "idle" /\ Ends(a)
  BY <1>1, ReqCloses DEF RolledBack, IsOpen
<1>5. TypeOK'
  BY <1>1, <1>2, <1>3, <1>4 DEF TypeOK, Ends, Elsewhere, RowsKept
<1> QED BY <1>2, <1>4, <1>5 DEF Drops

LEMMA CallFailsIs ==
    ASSUME IInv, NEW a \in Callers, CallFails(a)
    PROVE  TypeOK' /\ (Drops(a) \/ \E i : Skips(a, i) \/ Loses(a, i))
<1>1. TypeOK /\ req[a] \in Request /\ req[a].pc = "call"
  BY DEF IInv, TypeOK, CallFails
<1>2. PICK i \in Subjects(req[a]) :
        /\ Failed(a, i)
        /\ \/ UNCHANGED <<vm2, doubt, made>>
           \/ /\ ~Refused(req[a])
              /\ vm2' = Served(req[a], i)
              /\ made' = MadeBy(req[a], i)
              /\ doubt' = doubt \cup {i}
  BY DEF CallFails
<1>3. RowsKept /\ moved' = moved /\ twice' = twice
  BY DEF CallFails, rows, RowsKept
<1>4. faults' = faults + 1 /\ faults < MaxFaults /\ renames' = renames /\ requests' = requests
  BY DEF CallFails
<1>5. faults' \in 0..MaxFaults
  BY <1>1, <1>4, DirectoryAssumption DEF TypeOK
<1> DEFINE e == IF Op(a) = "domain" THEN Called(req[a], i, FALSE) ELSE Idle
<1>6. e \in Request
  BY <1>1, CalledIs, IdleRequest
<1>7. req' = [req EXCEPT ![a] = e]
  BY <1>2 DEF Failed, Op
<1> HIDE DEF e
<1>8. Elsewhere(a) /\ Unasked(a) /\ req'[a] = e
  BY <1>1, <1>6, <1>7, ReqSet
<1>9. IF Op(a) = "domain" THEN Goes(a, i, FALSE) ELSE Ends(a)
  BY <1>8 DEF Goes, Ends, e
<1>10. CASE UNCHANGED <<vm2, doubt, made>>
  <2>1. HistoryKept /\ vm2' = vm2
    BY <1>3, <1>10 DEF HistoryKept
  <2>2. TypeOK'
    BY <1>1, <1>3, <1>4, <1>5, <1>8, <2>1 DEF TypeOK, Elsewhere, RowsKept, HistoryKept
  <2>3. CASE Op(a) = "domain"
    <3>1. i \in req[a].todo
      BY <1>1, <2>3, AskerIs
    <3> QED BY <1>1, <1>3, <1>9, <2>1, <2>2, <2>3, <3>1 DEF Skips
  <2>4. CASE Op(a) # "domain"
    BY <1>1, <1>3, <1>9, <2>1, <2>2, <2>4, DropsNothing DEF IInv
  <2> QED BY <2>3, <2>4
<1>11. CASE /\ ~Refused(req[a]) /\ vm2' = Served(req[a], i)
            /\ made' = MadeBy(req[a], i) /\ doubt' = doubt \cup {i}
  <2>1. Serving(a, i) /\ vm2' \in Vm2 /\ made' \subseteq (1..MaxMail) \X Names
    BY <1>1, <1>11, ServedIs
  <2>2. i \in Names \cup 1..MaxMail
    BY <1>1, AskerIs
  <2>3. TypeOK'
    BY <1>1, <1>3, <1>4, <1>5, <1>8, <1>11, <2>1, <2>2 DEF TypeOK, Elsewhere, RowsKept
  <2> QED BY <1>3, <1>9, <1>11, <2>1, <2>3 DEF Loses
<1> QED BY <1>2, <1>10, <1>11

-----------------------------------------------------------------------------
(* The commits. *)

\* What a settled transaction leaves in doubt.
Doubts(a, settled, things) ==
    doubt' = (doubt \ (settled \ req[a].torn)) \cup (things \cap req[a].torn)

AddsAlias(a) ==
    /\ Op(a) = "add" /\ req[a].pc = "commit" /\ Ends(a)
    /\ dom' = dom /\ mail' = mail /\ batch' = batch /\ vm2' = vm2 /\ twice' = twice /\ made' = made
    /\ \/ /\ alias[req[a].name] = None
          /\ \A n \in Names : alias'[n] = IF n = req[a].name THEN req[a].src ELSE alias[n]
          /\ Doubts(a, {req[a].name}, {req[a].name})
       \/ alias[req[a].name] # None /\ alias' = alias /\ doubt' = doubt
    /\ moved' = IF dom[req[a].src].dest = req[a].dest THEN moved ELSE moved \cup {req[a].name}

DropsAlias(a) ==
    /\ Op(a) = "delete" /\ req[a].pc = "commit" /\ Elsewhere(a) /\ req'[a] = Idle
    /\ \A b \in Callers \ {a} : req'[b].gone = req[b].gone \/ req[b].name = req[a].name
    /\ dom' = dom /\ mail' = mail /\ batch' = batch /\ vm2' = vm2
    /\ moved' = moved /\ twice' = twice /\ made' = made
    /\ \A n \in Names : alias'[n] = IF n = req[a].name /\ ~req[a].gone THEN None ELSE alias[n]
    /\ Doubts(a, IF vm2.alias[req[a].name] \in {None, req[a].dest} THEN {req[a].name} ELSE {},
              {req[a].name})

\* The mailboxes of set get the quota q.
Resizes(set, q) ==
    /\ DOMAIN mail' = DOMAIN mail
    /\ \A i \in DOMAIN mail :
          /\ mail'[i].src = mail[i].src /\ mail'[i].user = mail[i].user
          /\ mail'[i].st = mail[i].st /\ mail'[i].at = mail[i].at
          /\ mail'[i].quota = IF i \in set THEN q ELSE mail[i].quota

ResizesBox(a) ==
    /\ Op(a) = "quota" /\ req[a].pc = "commit" /\ Ends(a)
    /\ dom' = dom /\ alias' = alias /\ batch' = batch /\ vm2' = vm2
    /\ moved' = moved /\ twice' = twice /\ made' = made
    /\ Resizes(req[a].done, req[a].quota)
    /\ Doubts(a, req[a].done, req[a].done)

EditsDomain(a) ==
    /\ Op(a) = "domain" /\ req[a].pc = "commit" /\ Ends(a)
    /\ alias' = alias /\ batch' = batch /\ vm2' = vm2 /\ twice' = twice /\ made' = made
    /\ \A s \in Sources : /\ s # req[a].src \/ ~req[a].writes => dom'[s] = dom[s]
                          /\ s = req[a].src /\ req[a].writes => dom'[s].dest = req[a].name
    /\ Resizes(req[a].done \cup req[a].here, req[a].quota)
    /\ moved \subseteq moved'
    /\ \A n \in Names \ moved' : alias[n] # None => dom'[alias[n]].dest = dom[alias[n]].dest
    /\ Doubts(a, req[a].done, req[a].done \cup req[a].here)

Activates ==
    /\ Op(Worker) = "provision" /\ req[Worker].pc = "commit" /\ Ends(Worker)
    /\ dom' = dom /\ alias' = alias /\ batch' = batch /\ vm2' = vm2
    /\ moved' = moved /\ twice' = twice /\ made' = made
    /\ DOMAIN mail' = DOMAIN mail
    /\ \A i \in DOMAIN mail :
          /\ mail'[i].src = mail[i].src /\ mail'[i].user = mail[i].user
          /\ mail'[i].quota = mail[i].quota
          /\ mail'[i].st = IF i \in req[Worker].done THEN "active" ELSE mail[i].st
          /\ mail'[i].at = IF i \in req[Worker].done THEN req[Worker].dest ELSE mail[i].at
    /\ Doubts(Worker, {}, req[Worker].done)

LEMMA FormIs ==
    ASSUME IInv, NEW a \in Callers
    PROVE  /\ TypeOK /\ FormOf(a, req[a]) /\ req[a] \in Request
           /\ req[a].todo \cup req[a].done \cup req[a].here \subseteq DOMAIN mail
           /\ DOMAIN mail \subseteq 1..MaxMail /\ DOMAIN mail \cap Names = {}
<1>1. TypeOK /\ FormOf(a, req[a]) /\ req[a].todo \cup req[a].done \cup req[a].here \subseteq DOMAIN mail
  BY DEF IInv, FormInv
<1>2. req[a] \in Request
  BY <1>1 DEF TypeOK
<1>3. DOMAIN mail \subseteq 1..MaxMail
  BY <1>1, DirectoryAssumption DEF TypeOK
<1> QED BY <1>1, <1>2, <1>3, DirectoryAssumption

LEMMA AddAliasAdds ==
    ASSUME IInv, NEW a \in Admins, AddAliasCommit(a)
    PROVE  TypeOK' /\ AddsAlias(a)
<1>1. TypeOK /\ a \in Callers /\ FormOf(a, req[a])
  BY CallersAre, FormIs
<1>2. Op(a) = "add" /\ req[a].pc = "commit"
  BY DEF AddAliasCommit, Op
<1>3. /\ req[a].name \in Names /\ req[a].src \in Sources /\ req[a].todo = {} /\ req[a].done = {}
      /\ req[a].here = {}
  BY <1>1, <1>2 DEF FormOf, Op
<1>4. Things(req[a]) = {req[a].name}
  BY <1>2, <1>3 DEF Things, Op
<1>5. Ends(a)
  BY <1>1, ReqCloses DEF AddAliasCommit
<1>6. /\ dom' = dom /\ mail' = mail /\ batch' = batch /\ vm2' = vm2 /\ twice' = twice /\ made' = made
      /\ faults' = faults /\ renames' = renames /\ requests' = requests
      /\ moved' = IF dom[req[a].src].dest = req[a].dest THEN moved ELSE moved \cup {req[a].name}
  BY DEF AddAliasCommit
<1>7. ASSUME alias[req[a].name] = None
      PROVE  /\ \A n \in Names : alias'[n] = IF n = req[a].name THEN req[a].src ELSE alias[n]
             /\ alias' \in [Names -> Sources \cup {None}]
             /\ Doubts(a, {req[a].name}, {req[a].name})
  <2>1. alias' = [alias EXCEPT ![req[a].name] = req[a].src] /\ Settle(a)
    BY <1>7 DEF AddAliasCommit
  <2>2. Doubts(a, {req[a].name}, {req[a].name})
    BY <1>2, <1>4, <2>1 DEF Settle, Doubts, Op
  <2> QED BY <1>1, <1>3, <2>1, <2>2 DEF TypeOK
<1>8. ASSUME alias[req[a].name] # None
      PROVE  alias' = alias /\ doubt' = doubt
  BY <1>8 DEF AddAliasCommit
<1>9. doubt' \subseteq Names \cup 1..MaxMail
  BY <1>1, <1>3, <1>7, <1>8 DEF TypeOK, Doubts
<1>10. TypeOK'
  BY <1>1, <1>3, <1>5, <1>6, <1>7, <1>8, <1>9 DEF TypeOK, Ends, Elsewhere
<1> QED BY <1>2, <1>5, <1>6, <1>7, <1>8, <1>10 DEF AddsAlias

LEMMA DeleteAliasDrops ==
    ASSUME IInv, NEW a \in Admins, DeleteAliasCommit(a)
    PROVE  TypeOK' /\ DropsAlias(a)
<1>1. TypeOK /\ a \in Callers /\ FormOf(a, req[a])
  BY CallersAre, FormIs
<1>2. Op(a) = "delete" /\ req[a].pc = "commit"
  BY DEF DeleteAliasCommit, Op
<1>3. /\ req[a].name \in Names /\ req[a].todo = {} /\ req[a].done = {} /\ req[a].here = {}
  BY <1>1, <1>2 DEF FormOf, Op
<1>4. Things(req[a]) = {req[a].name}
  BY <1>2, <1>3 DEF Things, Op
<1> DEFINE told(b) == IF req[b].op = "delete" /\ req[b].name = req[a].name /\ ~req[a].gone
                      THEN [req[b] EXCEPT !.gone = TRUE] ELSE req[b]
<1>5. req' = [b \in Callers |-> IF b = a THEN Idle ELSE told(b)]
  BY DEF DeleteAliasCommit
<1>6. ASSUME NEW b \in Callers
      PROVE  /\ told(b) \in Request /\ Alike(req[b], told(b)) /\ told(b).torn = req[b].torn
             /\ told(b).gone = req[b].gone \/ req[b].name = req[a].name
  <2>1. req[b] \in Request
    BY <1>1 DEF TypeOK
  <2> DEFINE e == [req[b] EXCEPT !.gone = TRUE]
  <2>2. e \in Request /\ Alike(req[b], e) /\ e.torn = req[b].torn
    BY <2>1 DEF Request, Alike
  <2>3. CASE told(b) = e /\ req[b].name = req[a].name
    <3> HIDE DEF told, e
    <3> QED BY <2>2, <2>3
  <2>4. CASE told(b) = req[b]
    <3> HIDE DEF told
    <3> QED BY <2>1, <2>4 DEF Alike
  <2> QED BY <2>3, <2>4
<1> HIDE DEF told
<1>7. req' \in [Callers -> Request] /\ req'[a] = Idle /\ \A b \in Callers \ {a} : req'[b] = told(b)
  BY <1>1, <1>5, <1>6, IdleRequest
<1>8. Elsewhere(a) /\ \A b \in Callers \ {a} : req'[b].gone = req[b].gone \/ req[b].name = req[a].name
  BY <1>6, <1>7 DEF Elsewhere
<1>9. /\ dom' = dom /\ mail' = mail /\ batch' = batch /\ vm2' = vm2 /\ twice' = twice /\ made' = made
      /\ faults' = faults /\ renames' = renames /\ requests' = requests /\ moved' = moved
  BY DEF DeleteAliasCommit
<1> DEFINE v == IF req[a].gone THEN alias[req[a].name] ELSE None
<1>10. v \in Sources \cup {None} /\ alias' = [alias EXCEPT ![req[a].name] = v]
  BY <1>1, <1>3 DEF TypeOK, DeleteAliasCommit
<1>11. alias' \in [Names -> Sources \cup {None}]
       /\ \A n \in Names : alias'[n] = IF n = req[a].name THEN v ELSE alias[n]
  <2>1. alias \in [Names -> Sources \cup {None}]
    BY <1>1 DEF TypeOK
  <2> HIDE DEF v
  <2> QED BY <1>3, <1>10, <2>1
<1>12. Doubts(a, IF vm2.alias[req[a].name] \in {None, req[a].dest} THEN {req[a].name} ELSE {},
              {req[a].name})
  <2>1. Settle(a)
    BY DEF DeleteAliasCommit
  <2> QED BY <1>2, <1>4, <2>1 DEF Settle, Doubts, Op
<1>13. doubt' \subseteq Names \cup 1..MaxMail
  BY <1>1, <1>3, <1>12 DEF TypeOK, Doubts
<1>14. TypeOK'
  BY <1>1, <1>7, <1>9, <1>11, <1>13 DEF TypeOK
<1> QED BY <1>2, <1>7, <1>8, <1>9, <1>11, <1>12, <1>14 DEF DropsAlias

\* The rows of the mailboxes change in place.
LEMMA MailMap ==
    ASSUME TypeOK, mail' \in [DOMAIN mail -> Mailbox]
    PROVE  mail' \in Seq(Mailbox) /\ Len(mail') <= MaxMail /\ DOMAIN mail' = DOMAIN mail
<1>1. DOMAIN mail = 1..Len(mail) /\ Len(mail) \in Nat /\ Len(mail) <= MaxMail
  BY DEF TypeOK
<1>2. mail' \in Seq(Mailbox) /\ Len(mail') = Len(mail)
  BY <1>1
<1> QED BY <1>1, <1>2

LEMMA ResizeIs ==
    ASSUME TypeOK, NEW set, NEW q \in Quotas,
           mail' = [i \in DOMAIN mail |->
                      IF i \in set THEN [mail[i] EXCEPT !.quota = q] ELSE mail[i]]
    PROVE  mail' \in Seq(Mailbox) /\ Len(mail') <= MaxMail /\ Resizes(set, q)
<1> DEFINE f(i) == IF i \in set THEN [mail[i] EXCEPT !.quota = q] ELSE mail[i]
<1>1. ASSUME NEW i \in DOMAIN mail
      PROVE  /\ f(i) \in Mailbox /\ f(i).src = mail[i].src /\ f(i).user = mail[i].user
             /\ f(i).st = mail[i].st /\ f(i).at = mail[i].at
             /\ f(i).quota = IF i \in set THEN q ELSE mail[i].quota
  <2>1. mail[i] \in Mailbox
    BY DEF TypeOK
  <2> QED BY <2>1 DEF Mailbox
<1>2. mail' = [i \in DOMAIN mail |-> f(i)]
  OBVIOUS
<1> HIDE DEF f
<1>3. /\ mail' \in Seq(Mailbox) /\ Len(mail') <= MaxMail /\ DOMAIN mail' = DOMAIN mail
      /\ \A i \in DOMAIN mail : mail'[i] = f(i)
  <2>1. mail' \in [DOMAIN mail -> Mailbox] /\ \A i \in DOMAIN mail : mail'[i] = f(i)
    BY <1>1, <1>2
  <2> QED BY <2>1, MailMap
<1> QED BY <1>1, <1>3 DEF Resizes

LEMMA UpdateQuotaResizes ==
    ASSUME IInv, NEW a \in Admins, UpdateQuotaCommit(a)
    PROVE  TypeOK' /\ ResizesBox(a)
<1>1. TypeOK /\ a \in Callers /\ FormOf(a, req[a]) /\ req[a] \in Request
  BY CallersAre, FormIs
<1>2. Op(a) = "quota" /\ req[a].pc = "commit"
  BY DEF UpdateQuotaCommit, Op
<1>3. req[a].here = {} /\ req[a].todo = {} /\ req[a].done \subseteq 1..MaxMail /\ req[a].quota \in Quotas
  BY <1>1, <1>2, RequestIs DEF FormOf, Op
<1>4. Things(req[a]) = req[a].done
  BY <1>2, <1>3 DEF Things, Op
<1>5. Ends(a)
  BY <1>1, ReqCloses DEF UpdateQuotaCommit
<1>6. /\ dom' = dom /\ alias' = alias /\ batch' = batch /\ vm2' = vm2 /\ twice' = twice /\ made' = made
      /\ faults' = faults /\ renames' = renames /\ requests' = requests /\ moved' = moved
  BY DEF UpdateQuotaCommit
<1>7. mail' \in Seq(Mailbox) /\ Len(mail') <= MaxMail /\ Resizes(req[a].done, req[a].quota)
  BY <1>1, <1>3, ResizeIs DEF UpdateQuotaCommit
<1>8. Doubts(a, req[a].done, req[a].done)
  <2>1. Settle(a)
    BY DEF UpdateQuotaCommit
  <2> QED BY <1>2, <1>4, <2>1 DEF Settle, Doubts, Op
<1>9. doubt' \subseteq Names \cup 1..MaxMail
  BY <1>1, <1>3, <1>8 DEF TypeOK, Doubts
<1>10. TypeOK'
  BY <1>1, <1>5, <1>6, <1>7, <1>9 DEF TypeOK, Ends, Elsewhere
<1> QED BY <1>2, <1>5, <1>6, <1>7, <1>8, <1>10 DEF ResizesBox

LEMMA UpdateDomainEdits ==
    ASSUME IInv, NEW a \in Admins, UpdateDomainCommit(a)
    PROVE  TypeOK' /\ EditsDomain(a)
<1>1. TypeOK /\ a \in Callers /\ FormOf(a, req[a]) /\ req[a] \in Request
  BY CallersAre, FormIs
<1>2. Op(a) = "domain" /\ req[a].pc = "commit"
  BY DEF UpdateDomainCommit, Op
<1>3. /\ req[a].todo = {} /\ req[a].done \subseteq 1..MaxMail /\ req[a].here \subseteq 1..MaxMail
      /\ req[a].quota \in Quotas /\ req[a].src \in Sources /\ req[a].name \in Names
  BY <1>1, <1>2, RequestIs DEF FormOf, Op
<1>4. Things(req[a]) = req[a].done \cup req[a].here
  BY <1>2, <1>3 DEF Things, Op
<1>5. Ends(a)
  BY <1>1, ReqCloses DEF UpdateDomainCommit
<1>6. /\ alias' = alias /\ batch' = batch /\ vm2' = vm2 /\ twice' = twice /\ made' = made
      /\ faults' = faults /\ renames' = renames /\ requests' = requests
  BY DEF UpdateDomainCommit
<1>7. /\ mail' \in Seq(Mailbox) /\ Len(mail') <= MaxMail
      /\ Resizes(req[a].done \cup req[a].here, req[a].quota)
  BY <1>1, <1>3, ResizeIs DEF UpdateDomainCommit
<1>8. /\ dom' \in [Sources -> Domain]
      /\ \A s \in Sources : /\ s # req[a].src \/ ~req[a].writes => dom'[s] = dom[s]
                            /\ s = req[a].src /\ req[a].writes => dom'[s].dest = req[a].name
  <2> DEFINE d == [dest |-> req[a].name, quota |-> req[a].quota]
  <2>1. d \in Domain /\ d.dest = req[a].name
    BY <1>3 DEF Domain
  <2>2. dom' = IF req[a].writes THEN [dom EXCEPT ![req[a].src] = d] ELSE dom
    BY DEF UpdateDomainCommit
  <2> HIDE DEF d
  <2> QED BY <1>1, <1>3, <2>1, <2>2 DEF TypeOK
<1>9. /\ moved \subseteq moved' /\ moved' \subseteq Names
      /\ \A n \in Names \ moved' : alias[n] # None => dom'[alias[n]].dest = dom[alias[n]].dest
  <2>1. moved' = IF dom'[req[a].src].dest = dom[req[a].src].dest THEN moved
                 ELSE moved \cup {n \in Names : alias[n] = req[a].src}
    BY DEF UpdateDomainCommit
  <2>2. moved \subseteq moved' /\ moved' \subseteq Names
    BY <1>1, <2>1 DEF TypeOK
  <2>3. ASSUME NEW n \in Names \ moved', alias[n] # None
        PROVE  dom'[alias[n]].dest = dom[alias[n]].dest
    <3>1. alias[n] \in Sources
      BY <1>1, <2>3 DEF TypeOK
    <3>2. CASE alias[n] = req[a].src
      BY <2>1, <2>3, <3>2
    <3>3. CASE alias[n] # req[a].src
      BY <1>8, <3>1, <3>3
    <3> QED BY <3>2, <3>3
  <2> QED BY <2>2, <2>3
<1>10. Doubts(a, req[a].done, req[a].done \cup req[a].here)
  <2>1. Settle(a)
    BY DEF UpdateDomainCommit
  <2> QED BY <1>2, <1>4, <2>1 DEF Settle, Doubts, Op
<1>11. doubt' \subseteq Names \cup 1..MaxMail
  BY <1>1, <1>3, <1>10 DEF TypeOK, Doubts
<1>12. TypeOK'
  BY <1>1, <1>5, <1>6, <1>7, <1>8, <1>9, <1>11 DEF TypeOK, Ends, Elsewhere
<1> QED BY <1>2, <1>5, <1>6, <1>7, <1>8, <1>9, <1>10, <1>12 DEF EditsDomain

LEMMA ProvisionActivates ==
    ASSUME IInv, ProvisionCommit
    PROVE  TypeOK' /\ Activates
<1>1. TypeOK /\ Worker \in Callers /\ FormOf(Worker, req[Worker])
  BY CallersAre, FormIs
<1>2. Op(Worker) = "provision" /\ req[Worker].pc = "commit"
  BY DEF ProvisionCommit, Op
<1>3. /\ req[Worker].todo = {} /\ req[Worker].here = {} /\ req[Worker].done \subseteq 1..MaxMail
      /\ req[Worker].dest \in Names
  BY <1>1, <1>2, RequestIs DEF FormOf, Op
<1>4. Things(req[Worker]) = req[Worker].done
  BY <1>2, <1>3 DEF Things, Op
<1>5. Ends(Worker)
  BY <1>1, ReqCloses DEF ProvisionCommit
<1>6. /\ dom' = dom /\ alias' = alias /\ batch' = batch /\ vm2' = vm2 /\ twice' = twice /\ made' = made
      /\ faults' = faults /\ renames' = renames /\ requests' = requests /\ moved' = moved
  BY DEF ProvisionCommit
<1> DEFINE f(i) == IF i \in req[Worker].done
                   THEN [mail[i] EXCEPT !.st = "active", !.at = req[Worker].dest] ELSE mail[i]
<1>7. ASSUME NEW i \in DOMAIN mail
      PROVE  /\ f(i) \in Mailbox /\ f(i).src = mail[i].src /\ f(i).user = mail[i].user
             /\ f(i).quota = mail[i].quota
             /\ f(i).st = IF i \in req[Worker].done THEN "active" ELSE mail[i].st
             /\ f(i).at = IF i \in req[Worker].done THEN req[Worker].dest ELSE mail[i].at
  <2>1. mail[i] \in Mailbox
    BY <1>1 DEF TypeOK
  <2> QED BY <1>3, <2>1 DEF Mailbox
<1>8. mail' = [i \in DOMAIN mail |-> f(i)]
  BY DEF ProvisionCommit
<1> HIDE DEF f
<1>9. /\ mail' \in Seq(Mailbox) /\ Len(mail') <= MaxMail /\ DOMAIN mail' = DOMAIN mail
      /\ \A i \in DOMAIN mail : mail'[i] = f(i)
  <2>1. mail' \in [DOMAIN mail -> Mailbox] /\ \A i \in DOMAIN mail : mail'[i] = f(i)
    BY <1>7, <1>8
  <2> QED BY <1>1, <2>1, MailMap
<1>10. Doubts(Worker, {}, req[Worker].done)
  <2>1. Settle(Worker)
    BY DEF ProvisionCommit
  <2> QED BY <1>2, <1>4, <2>1 DEF Settle, Doubts, Op
<1>11. doubt' \subseteq Names \cup 1..MaxMail
  BY <1>1, <1>3, <1>10 DEF TypeOK, Doubts
<1>12. TypeOK'
  BY <1>1, <1>5, <1>6, <1>9, <1>11 DEF TypeOK, Ends, Elsewhere
<1> QED BY <1>2, <1>5, <1>6, <1>7, <1>9, <1>10, <1>12 DEF Activates

-----------------------------------------------------------------------------
(* The import. *)

\* What a request has besides its import.
Keeps(r, e) ==
    /\ e.op = r.op /\ e.name = r.name /\ e.src = r.src /\ e.dest = r.dest /\ e.quota = r.quota
    /\ e.writes = r.writes /\ e.gone = r.gone /\ e.ids = r.ids
    /\ e.todo = r.todo /\ e.done = r.done /\ e.here = r.here /\ e.torn = r.torn

LooksUp(a, s, u) ==
    /\ req[a].pc = "look" /\ <<s, u>> \in req[a].left
    /\ Elsewhere(a) /\ Unasked(a) /\ Keeps(req[a], req'[a])
    /\ req'[a].pc = "insert" /\ req'[a].now = <<s, u>> /\ req'[a].left = req[a].left \ {<<s, u>>}
    /\ req'[a].look = IF dom[s].dest = None /\ s \notin req[a].opens THEN "none"
                      ELSE IF Has(mail, s, u) \/ Has(req[a].added, s, u) THEN "login" ELSE "domain"
    /\ \A t \in Sources : req'[a].seen[t] =
          IF t = s /\ req[a].seen[s] = NoDomain THEN dom[s] ELSE req[a].seen[t]
    /\ req'[a].opens = req[a].opens /\ req'[a].added = req[a].added
    /\ twice \subseteq twice'
    /\ dom[s].dest # None /\ (\E b \in Admins \ {a} : Looks(b, s, u)) => <<s, u>> \in twice'
    /\ RowsKept /\ vm2' = vm2 /\ doubt' = doubt /\ moved' = moved /\ made' = made

\* The mailbox that is added for a login, in the domain as it is known.
BoxOf(s, u, d) == [src |-> s, user |-> u, st |-> "pending", at |-> None, addr |-> d.dest, quota |-> d.quota]

Adds(a, s, u) ==
    /\ req[a].pc = "insert" /\ req[a].now = <<s, u>>
    /\ req[a].look = "none" =>
          dom[s].dest = None /\ \A b \in Callers \ {a} : s \notin req[b].opens
    /\ Elsewhere(a) /\ Unasked(a) /\ Keeps(req[a], req'[a])
    /\ req'[a].pc = "look" /\ req'[a].now = None /\ req'[a].left = req[a].left
    /\ \A t \in Sources : t # s => req'[a].seen[t] = req[a].seen[t]
    /\ req[a].look # "none" => req'[a].seen[s] = req[a].seen[s]
    /\ req'[a].seen[s].dest # None
    /\ req'[a].opens = IF req[a].look = "none" THEN req[a].opens \cup {s} ELSE req[a].opens
    /\ req'[a].added = IF req[a].look = "login" THEN req[a].added
                       ELSE Append(req[a].added, BoxOf(s, u, req'[a].seen[s]))
    /\ RowsKept /\ vm2' = vm2 /\ HistoryKept

CommitsImport(a) ==
    /\ Op(a) = "import" /\ req[a].pc = "look" /\ req[a].left = {} /\ Ends(a)
    /\ alias' = alias /\ vm2' = vm2 /\ HistoryKept
    /\ mail' = mail \o req[a].added
    /\ \A s \in Sources : /\ s \notin req[a].opens => dom'[s] = dom[s]
                          /\ s \in req[a].opens => dom'[s].dest # None
    /\ batch'.chosen \subseteq batch.chosen \cup req[a].ids

Uploads ==
    /\ req' = req /\ dom' = dom /\ alias' = alias /\ mail' = mail /\ vm2' = vm2 /\ HistoryKept
    /\ batch'.chosen = batch.chosen

LEMMA LookUpLooks ==
    ASSUME IInv, NEW a \in Admins, LookUp(a)
    PROVE  TypeOK' /\ \E s \in Sources, u \in Users : LooksUp(a, s, u)
<1>1. TypeOK /\ a \in Callers /\ req[a] \in Request
  BY CallersAre, FormIs
<1> DEFINE look(s, u) == IF ~(dom[s].dest # None \/ s \in req[a].opens) THEN "none"
                         ELSE IF Has(mail, s, u) \/ Has(req[a].added, s, u) THEN "login" ELSE "domain"
           seen(s) == [req[a].seen EXCEPT ![s] = IF @ = NoDomain THEN dom[s] ELSE @]
           left(s, u) == req[a].left \ {<<s, u>>}
           e(s, u) == [req[a] EXCEPT !.pc = "insert", !.now = <<s, u>>, !.left = left(s, u),
                                     !.look = look(s, u), !.seen = seen(s)]
<1>2. PICK s \in Sources, u \in Users :
        /\ <<s, u>> \in req[a].left
        /\ req' = [req EXCEPT ![a].pc = "insert", ![a].now = <<s, u>>, ![a].left = @ \ {<<s, u>>},
                     ![a].look = look(s, u), ![a].seen[s] = IF @ = NoDomain THEN dom[s] ELSE @]
        /\ twice' = IF dom[s].dest # None /\ \E b \in Admins \ {a} : Looks(b, s, u)
                    THEN twice \cup {<<s, u>>} ELSE twice
  BY DEF LookUp
<1>3. req' = [req EXCEPT ![a] = e(s, u)]
  <2> DEFINE l == look(s, u)
             n == <<s, u>>
             d == IF req[a].seen[s] = NoDomain THEN dom[s] ELSE req[a].seen[s]
  <2>1. req' = [req EXCEPT ![a].pc = "insert", ![a].now = n, ![a].left = @ \ {n},
                     ![a].look = l, ![a].seen[s] = d]
    BY <1>1, <1>2 DEF TypeOK, Request
  <2> DEFINE r == [req[a] EXCEPT !.pc = "insert", !.now = n, !.left = req[a].left \ {n},
                                 !.look = l, !.seen = [req[a].seen EXCEPT ![s] = d]]
  <2>2. e(s, u) = r
    BY <1>1 DEF Request
  <2>3. req' = [req EXCEPT ![a] = r]
    <3> HIDE DEF l, d, n
    <3> QED BY <1>1, <2>1 DEF TypeOK, Request
  <2> HIDE DEF e, r
  <2> QED BY <2>2, <2>3
<1>4. /\ look(s, u) \in {"none", "domain", "login"} /\ left(s, u) \in SUBSET Key /\ <<s, u>> \in Key
      /\ look(s, u) = IF dom[s].dest = None /\ s \notin req[a].opens THEN "none"
                      ELSE IF Has(mail, s, u) \/ Has(req[a].added, s, u) THEN "login" ELSE "domain"
  BY <1>1 DEF Request, Key
<1>5. /\ seen(s) \in [Sources -> Domain]
      /\ \A t \in Sources :
            seen(s)[t] = IF t = s /\ req[a].seen[s] = NoDomain THEN dom[s] ELSE req[a].seen[t]
  <2>1. dom[s] \in Domain /\ req[a].seen \in [Sources -> Domain]
    BY <1>1 DEF TypeOK, Request
  <2> QED BY <2>1
<1> DEFINE l == look(s, u)
           f == seen(s)
           m == left(s, u)
           n == <<s, u>>
           r == [req[a] EXCEPT !.pc = "insert", !.now = n, !.left = m, !.look = l, !.seen = f]
<1>6. e(s, u) = r
  OBVIOUS
<1> HIDE DEF e, look, seen, left
<1>7. r \in Request /\ Keeps(req[a], r) /\ r.pc = "insert" /\ r.now = n /\ r.left = m
      /\ r.look = l /\ r.seen = f /\ r.opens = req[a].opens /\ r.added = req[a].added
  <2>1. l \in {"none", "domain", "login"} /\ m \in SUBSET Key /\ n \in Key /\ f \in [Sources -> Domain]
    BY <1>4, <1>5
  <2>2. req[a] \in Request
    BY <1>1
  <2> HIDE DEF l, f, m, n
  <2>3. r \in Request
    BY <2>1, <2>2 DEF Request
  <2>4. /\ Keeps(req[a], r) /\ r.pc = "insert" /\ r.now = n /\ r.left = m
        /\ r.look = l /\ r.seen = f /\ r.opens = req[a].opens /\ r.added = req[a].added
    BY <2>2 DEF Request, Keeps
  <2> QED BY <2>3, <2>4
<1> HIDE DEF r
<1>8. Elsewhere(a) /\ Unasked(a) /\ req'[a] = r
  BY <1>1, <1>3, <1>6, <1>7, ReqSet
<1>9. /\ RowsKept /\ vm2' = vm2 /\ doubt' = doubt /\ moved' = moved /\ made' = made
      /\ faults' = faults /\ renames' = renames /\ requests' = requests
  BY DEF LookUp, rows, RowsKept
<1>10. req[a].pc = "look"
  BY DEF LookUp
<1>11. /\ twice \subseteq twice' /\ twice' \subseteq Key
       /\ dom[s].dest # None /\ (\E b \in Admins \ {a} : Looks(b, s, u)) => <<s, u>> \in twice'
  BY <1>1, <1>2, <1>4 DEF TypeOK
<1>12. TypeOK'
  BY <1>1, <1>8, <1>9, <1>11 DEF TypeOK, Elsewhere, RowsKept
<1>13. LooksUp(a, s, u)
  BY <1>2, <1>4, <1>5, <1>7, <1>8, <1>9, <1>10, <1>11 DEF LooksUp, left
<1> QED BY <1>12, <1>13

LEMMA InsertAdds ==
    ASSUME IInv, NEW a \in Admins, Insert(a)
    PROVE  TypeOK' /\ (Drops(a) \/ \E s \in Sources, u \in Users : Adds(a, s, u))
<1>1. TypeOK /\ a \in Callers /\ req[a] \in Request /\ FormOf(a, req[a])
  BY CallersAre, FormIs
<1> DEFINE s == req[a].now[1]
           u == req[a].now[2]
           new == req[a].look = "none"
           d == IF new THEN NewDomain(s) ELSE req[a].seen[s]
           box == [src |-> s, user |-> u, st |-> "pending", at |-> None,
                   addr |-> d.dest, quota |-> d.quota]
<1>2. /\ req[a].pc = "insert" /\ req[a].now \in Key
  BY <1>1 DEF Insert, FormOf
<1>3. s \in Sources /\ u \in Users /\ req[a].now = <<s, u>>
  BY <1>2 DEF Key
<1>4. /\ RowsKept /\ vm2' = vm2 /\ HistoryKept
      /\ faults' = faults /\ renames' = renames /\ requests' = requests
  BY DEF Insert, rows, history, RowsKept, HistoryKept
<1>5. Op(a) = "import"
  BY <1>1, <1>2, RequestIs DEF FormOf, Op
<1>6. CASE new /\ Taken(s)
  <2>1. Ends(a)
    BY <1>1, <1>6, ReqCloses DEF Insert
  <2>2. TypeOK'
    BY <1>1, <1>4, <2>1 DEF TypeOK, Ends, Elsewhere, RowsKept, HistoryKept
  <2> QED BY <1>1, <1>2, <1>4, <1>5, <2>1, <2>2, DropsNothing DEF IInv
<1>7. CASE ~(new /\ Taken(s))
  <2>1. new => \A b \in Admins \ {a} : s \notin req[b].opens
    BY DEF Insert
  <2>2. req' = [req EXCEPT ![a].pc = "look", ![a].now = None, ![a].seen[s] = d,
                           ![a].opens = IF new THEN @ \cup {s} ELSE @,
                           ![a].added = IF req[a].look = "login" THEN @ ELSE Append(@, box)]
    BY <1>7 DEF Insert
  <2> DEFINE seen == [req[a].seen EXCEPT ![s] = d]
             opens == IF new THEN req[a].opens \cup {s} ELSE req[a].opens
             added == IF req[a].look = "login" THEN req[a].added ELSE Append(req[a].added, box)
             r == [req[a] EXCEPT !.pc = "look", !.now = None, !.seen = seen, !.opens = opens,
                                 !.added = added]
  <2>3. req' = [req EXCEPT ![a] = r]
    <3> HIDE DEF d, box, new, s
    <3> QED BY <1>1, <2>2 DEF TypeOK, Request
  <2>4. d \in Domain /\ d.dest \in Names /\ d.quota \in Quotas
    <3>1. CASE new
      BY <1>3, <3>1, DirectoryAssumption DEF NewDomain, Domain
    <3>2. CASE ~new
      <4>1. Inserts(a, s, u)
        BY <1>2, <1>3 DEF Inserts
      <4>2. req[a].seen[s].dest # None
        BY <1>1, <1>3, <3>2, <4>1 DEF IInv, OpensInv
      <4>3. req[a].seen[s] \in Domain
        BY <1>1, <1>3 DEF Request
      <4> QED BY <3>2, <4>2, <4>3 DEF Domain
    <3> QED BY <3>1, <3>2
  <2>5. box \in Mailbox /\ box = BoxOf(s, u, d)
    <3> HIDE DEF d, s, u
    <3> QED BY <1>3, <2>4 DEF Mailbox, BoxOf
  <2>6. /\ seen \in [Sources -> Domain] /\ seen[s] = d
        /\ \A t \in Sources : t # s => seen[t] = req[a].seen[t]
    <3>1. req[a].seen \in [Sources -> Domain]
      BY <1>1 DEF Request
    <3> HIDE DEF d, s
    <3> QED BY <1>3, <2>4, <3>1
  <2>7. opens \in SUBSET Sources /\ added \in Seq(Mailbox)
    <3>1. req[a].opens \in SUBSET Sources /\ req[a].added \in Seq(Mailbox)
      BY <1>1 DEF Request
    <3> HIDE DEF box, s
    <3> QED BY <1>3, <2>5, <3>1
  <2>8. ~new => d = req[a].seen[s]
    OBVIOUS
  <2>9. new => dom[s].dest = None /\ \A b \in Callers \ {a} : s \notin req[b].opens
    <3>1. req[Worker].opens = {}
      BY CallersAre, FormIs DEF FormOf
    <3> QED BY <1>7, <2>1, <3>1 DEF Taken, Callers
  <2> HIDE DEF seen, opens, added
  <2>10. r \in Request /\ Keeps(req[a], r) /\ r.pc = "look" /\ r.now = None /\ r.left = req[a].left
         /\ r.seen = seen /\ r.opens = opens /\ r.added = added
    BY <1>1, <2>6, <2>7 DEF Request, Keeps
  <2> HIDE DEF r
  <2>11. Elsewhere(a) /\ Unasked(a) /\ req'[a] = r
    BY <1>1, <2>3, <2>10, ReqSet
  <2>12. TypeOK'
    BY <1>1, <1>4, <2>11 DEF TypeOK, Elsewhere, RowsKept, HistoryKept
  <2>13. added = IF req[a].look = "login" THEN req[a].added
                 ELSE Append(req[a].added, BoxOf(s, u, d))
    BY <2>5 DEF added
  <2>14. opens = IF req[a].look = "none" THEN req[a].opens \cup {s} ELSE req[a].opens
    BY DEF opens
  <2>15. d.dest # None
    BY <2>4, DirectoryAssumption
  <2> HIDE DEF d, box
  <2>16. Adds(a, s, u)
    BY <1>2, <1>3, <1>4, <2>6, <2>8, <2>9, <2>10, <2>11, <2>13, <2>14, <2>15 DEF Adds
  <2> QED BY <1>3, <2>12, <2>16
<1> QED BY <1>6, <1>7

LEMMA ImportCommits ==
    ASSUME IInv, NEW a \in Admins, ImportCommit(a)
    PROVE  TypeOK' /\ CommitsImport(a)
<1>1. TypeOK /\ a \in Callers /\ req[a] \in Request /\ FormOf(a, req[a])
  BY CallersAre, FormIs
<1>2. Op(a) = "import" /\ req[a].pc = "look" /\ req[a].left = {}
  BY <1>1, RequestIs DEF ImportCommit, FormOf, Op
<1>3. /\ alias' = alias /\ vm2' = vm2 /\ HistoryKept
      /\ faults' = faults /\ renames' = renames /\ requests' = requests
  BY DEF ImportCommit, history, HistoryKept
<1>4. Ends(a)
  BY <1>1, ReqCloses DEF ImportCommit
<1>5. mail' = mail \o req[a].added /\ Len(mail) + Len(req[a].added) <= MaxMail
  BY DEF ImportCommit
<1>6. mail' \in Seq(Mailbox) /\ Len(mail') <= MaxMail
  BY <1>1, <1>5 DEF TypeOK, Request
<1>7. /\ dom' \in [Sources -> Domain]
      /\ \A s \in Sources : /\ s \notin req[a].opens => dom'[s] = dom[s]
                            /\ s \in req[a].opens => dom'[s].dest # None
  <2>1. dom' = [s \in Sources |-> IF s \in req[a].opens THEN NewDomain(s) ELSE dom[s]]
    BY DEF ImportCommit
  <2>2. \A s \in Sources : NewDomain(s) \in Domain /\ NewDomain(s).dest # None
    BY DirectoryAssumption DEF NewDomain, Domain
  <2> QED BY <1>1, <2>1, <2>2 DEF TypeOK
<1>8. batch' \in Batch /\ batch'.chosen \subseteq batch.chosen \cup req[a].ids
  <2>1. batch' = IF req[a].ids = {} THEN batch
                 ELSE [st |-> "committed", chosen |-> batch.chosen \cup req[a].ids]
    BY DEF ImportCommit
  <2>2. batch \in Batch /\ req[a].ids \in SUBSET (1..Len(File))
    BY <1>1 DEF TypeOK, Request
  <2> QED BY <2>1, <2>2 DEF Batch
<1>9. TypeOK'
  BY <1>1, <1>3, <1>4, <1>6, <1>7, <1>8 DEF TypeOK, Ends, Elsewhere, HistoryKept
<1> QED BY <1>2, <1>3, <1>4, <1>5, <1>7, <1>8, <1>9 DEF CommitsImport

LEMMA UploadUploads ==
    ASSUME IInv, Upload
    PROVE  TypeOK' /\ Uploads
<1>1. TypeOK
  BY DEF IInv
<1>2. /\ dom' = dom /\ alias' = alias /\ mail' = mail /\ vm2' = vm2 /\ req' = req /\ HistoryKept
      /\ faults' = faults /\ renames' = renames /\ requests' = requests
  BY DEF Upload, history, HistoryKept
<1>3. batch' \in Batch /\ batch'.chosen = batch.chosen
  BY <1>1 DEF Upload, TypeOK, Batch
<1>4. TypeOK'
  BY <1>1, <1>2, <1>3 DEF TypeOK, HistoryKept
<1> QED BY <1>2, <1>3, <1>4 DEF Uploads

-----------------------------------------------------------------------------
(* Every step is of one of these kinds. *)

Calling(a) == \/ Drops(a) \/ \E i : Serves(a, i) \/ Skips(a, i) \/ Loses(a, i)
Committing(a) == AddsAlias(a) \/ DropsAlias(a) \/ ResizesBox(a) \/ EditsDomain(a)
Importing(a) == CommitsImport(a) \/ \E s \in Sources, u \in Users : LooksUp(a, s, u) \/ Adds(a, s, u)
Kinds ==
    \/ Uploads \/ Activates
    \/ \E a \in Callers : Starts(a) \/ Calling(a)
    \/ \E a \in Admins : Committing(a) \/ Importing(a)

LEMMA StepKinds ==
    ASSUME IInv, [Next]_vars
    PROVE  TypeOK' /\ Kinds
<1>1. ASSUME NEW a \in Callers, Calls(a)
      PROVE  TypeOK' /\ Calling(a)
  <2>1. CASE CallServed(a)
    BY <2>1, CallServedServes DEF Calling
  <2>2. CASE CallRefused(a)
    BY <2>2, CallRefusedDrops DEF Calling
  <2>3. CASE CallFails(a)
    BY <2>3, CallFailsIs DEF Calling
  <2>4. CASE RolledBack(a)
    BY <2>4, RolledBackDrops DEF Calling
  <2> QED BY <1>1, <2>1, <2>2, <2>3, <2>4 DEF Calls
<1>2. ASSUME NEW a \in Admins, Edits(a)
      PROVE  TypeOK' /\ (Starts(a) \/ Committing(a))
  <2>1. ASSUME NEW s \in Sources, NEW n \in Names, AddAlias(a, s, n) \/ DeleteAlias(a, s, n)
        PROVE  TypeOK' /\ Starts(a)
    BY <2>1, AddAliasStarts, DeleteAliasStarts
  <2>2. ASSUME NEW i \in DOMAIN mail, NEW q \in Quotas, UpdateQuota(a, i, q)
        PROVE  TypeOK' /\ Starts(a)
    BY <2>2, UpdateQuotaStarts
  <2>3. ASSUME NEW s \in Sources, NEW d \in Names, NEW q \in Quotas, NEW all \in BOOLEAN,
               UpdateDomain(a, s, d, q, all)
        PROVE  TypeOK' /\ Starts(a)
    BY <2>3, UpdateDomainStarts
  <2>4. ASSUME \/ AddAliasCommit(a) \/ DeleteAliasCommit(a)
               \/ UpdateQuotaCommit(a) \/ UpdateDomainCommit(a)
        PROVE  TypeOK' /\ Committing(a)
    BY <2>4, AddAliasAdds, DeleteAliasDrops, UpdateQuotaResizes, UpdateDomainEdits DEF Committing
  <2> QED BY <1>2, <2>1, <2>2, <2>3, <2>4 DEF Edits
<1>3. ASSUME NEW a \in Admins, Imports(a)
      PROVE  TypeOK' /\ (Starts(a) \/ Drops(a) \/ Importing(a))
  <2>1. ASSUME NEW ids \in SUBSET (1..Len(File)), Confirm(a, ids)
        PROVE  TypeOK' /\ Starts(a)
    BY <2>1, ConfirmStarts
  <2>2. ASSUME NEW s \in Sources, NEW u \in Users, AddMailbox(a, s, u)
        PROVE  TypeOK' /\ Starts(a)
    BY <2>2, AddMailboxStarts
  <2>3. CASE LookUp(a)
    BY <2>3, LookUpLooks DEF Importing
  <2>4. CASE Insert(a)
    BY <2>4, InsertAdds DEF Importing
  <2>5. CASE ImportCommit(a)
    BY <2>5, ImportCommits DEF Importing
  <2> QED BY <1>3, <2>1, <2>2, <2>3, <2>4, <2>5 DEF Imports
<1>4. CASE Upload
  BY <1>4, UploadUploads DEF Kinds
<1>5. CASE \E a \in Admins : Edits(a) \/ Imports(a) \/ Calls(a)
  <2>1. PICK a \in Admins : Edits(a) \/ Imports(a) \/ Calls(a)
    BY <1>5
  <2>2. a \in Callers
    BY CallersAre
  <2>3. TypeOK' /\ (Starts(a) \/ Calling(a) \/ Committing(a) \/ Importing(a))
    BY <1>1, <1>2, <1>3, <2>1, <2>2 DEF Calling
  <2> QED BY <2>2, <2>3 DEF Kinds
<1>6. CASE \E i \in DOMAIN mail : Provision(i)
  BY <1>6, ProvisionStarts, CallersAre DEF Kinds
<1>7. CASE Calls(Worker)
  BY <1>1, <1>7, CallersAre DEF Kinds
<1>8. CASE ProvisionCommit
  BY <1>8, ProvisionActivates DEF Kinds
<1>9. CASE UNCHANGED vars
  <2>1. /\ req' = req /\ dom' = dom /\ alias' = alias /\ mail' = mail /\ batch' = batch /\ vm2' = vm2
        /\ HistoryKept /\ faults' = faults /\ renames' = renames /\ requests' = requests
    BY <1>9 DEF vars, HistoryKept
  <2>2. TypeOK
    BY DEF IInv
  <2>3. TypeOK'
    BY <2>1, <2>2 DEF TypeOK, HistoryKept
  <2> QED BY <2>1, <2>3 DEF Kinds, Uploads
<1> QED BY <1>4, <1>5, <1>6, <1>7, <1>8, <1>9 DEF Next

-----------------------------------------------------------------------------
(* What the requests hold. *)

LEMMA AlikeForm ==
    ASSUME NEW a, NEW r, NEW e, Alike(r, e), FormOf(a, r)
    PROVE  FormOf(a, e)
BY DEF Alike, FormOf

LEMMA IdleForm == \A a : FormOf(a, Idle)
BY IdleIs DEF FormOf

LEMMA NewForm ==
    ASSUME TypeOK, NEW a \in Callers, NEW r, New(a, r)
    PROVE  FormOf(a, r) /\ r.todo \cup r.done \cup r.here \subseteq DOMAIN mail
<1>1. Worker \notin Admins /\ DOMAIN mail \subseteq 1..MaxMail
  BY CallersAre, DirectoryAssumption DEF TypeOK
<1>2. r.todo \cup r.done \cup r.here \subseteq DOMAIN mail
  BY DEF New, NewAlias, NewQuota, NewEdit, NewProvision, NewImport
<1>3. CASE NewAlias(a, r)
  BY <1>1, <1>3 DEF New, NewAlias, FormOf
<1>4. CASE NewQuota(a, r)
  BY <1>1, <1>4 DEF New, NewQuota, FormOf
<1>5. CASE NewEdit(a, r)
  BY <1>1, <1>5 DEF New, NewEdit, FormOf
<1>6. CASE NewProvision(a, r)
  BY <1>1, <1>6 DEF New, NewProvision, FormOf
<1>7. CASE NewImport(a, r)
  BY <1>1, <1>7 DEF New, NewImport, FormOf
<1> QED BY <1>2, <1>3, <1>4, <1>5, <1>6, <1>7 DEF New

LEMMA CalledAtForm ==
    ASSUME NEW a, NEW r \in Request, NEW e, NEW i \in Subjects(r), NEW ok \in BOOLEAN,
           FormOf(a, r), CalledAt(r, i, ok, e), r.pc = "call", ok \/ r.op = "domain",
           r.op \in {"add", "delete", "quota", "domain", "provision"}
    PROVE  FormOf(a, e)
<1>1. e.op = r.op /\ e.pc \in {"call", "commit"}
  BY DEF CalledAt
<1>2. /\ e.src = r.src /\ e.name = r.name /\ e.dest = r.dest /\ e.here = r.here
      /\ e.ids = r.ids /\ e.left = r.left /\ e.opens = r.opens /\ e.added = r.added
  BY DEF CalledAt
<1>3. /\ e.op # "none" => (e.op = "provision" <=> a = Worker)
      /\ e.op \in {"add", "delete"} => e.src \in Sources /\ e.name \in Names /\ e.dest \in Names
      /\ e.op = "domain" => e.src \in Sources /\ e.name \in Names
      /\ e.op = "provision" => e.dest \in Names
      /\ e.op # "domain" => e.here = {}
      /\ e.ids = {} /\ e.left = {} /\ e.opens = {} /\ e.added = <<>>
  BY <1>1, <1>2 DEF FormOf
<1>4. e.todo = r.todo \ {i} /\ (i \in r.todo /\ ok => e.done = r.done \cup {i})
      /\ (i \notin r.todo => e.done = r.done)
  BY DEF CalledAt
<1>5. CASE r.op \in {"add", "delete"}
  <2>1. e.todo = {} /\ e.done = {}
    BY <1>4, <1>5 DEF FormOf
  <2> QED BY <1>1, <1>3, <1>5, <2>1 DEF FormOf
<1>6. CASE r.op \in {"quota", "provision"}
  <2>1. r.done = {} /\ i \in r.todo /\ ok
    BY <1>6 DEF FormOf, Subjects
  <2>2. PICK k \in 1..MaxMail : r.todo = {k}
    BY <1>6, <2>1 DEF FormOf
  <2>3. e.todo = {} /\ e.done = {k} /\ Subjects(r) = {i}
    BY <1>4, <1>6, <2>1, <2>2 DEF Subjects
  <2>4. e.pc = "commit"
    BY <2>3 DEF CalledAt
  <2>5. e.todo \cup e.done = {k}
    BY <2>3
  <2> QED BY <1>1, <1>3, <1>6, <2>3, <2>4, <2>5 DEF FormOf
<1>7. CASE r.op = "domain"
  <2>1. e.pc = "commit" => e.todo = {}
    BY <1>4, <1>7 DEF Subjects, CalledAt
  <2> QED BY <1>1, <1>3, <1>7, <2>1 DEF FormOf
<1> QED BY <1>5, <1>6, <1>7

LEMMA CalledForm ==
    ASSUME IInv, NEW a \in Callers, req[a].pc = "call", NEW i \in Subjects(req[a]), NEW ok \in BOOLEAN,
           ok \/ Op(a) = "domain"
    PROVE  FormOf(a, Called(req[a], i, ok))
<1>1. req[a] \in Request /\ FormOf(a, req[a])
  BY FormIs
<1>2. CalledAt(req[a], i, ok, Called(req[a], i, ok))
  BY <1>1, CalledIs
<1>3. req[a].op \in {"add", "delete", "quota", "domain", "provision"}
  BY AskerIs DEF Op
<1>4. ok \/ req[a].op = "domain"
  BY DEF Op
<1> QED BY <1>1, <1>2, <1>3, <1>4, CalledAtForm

\* The mailboxes there are stay, with the login they belong to.
MailGrows ==
    /\ DOMAIN mail \subseteq DOMAIN mail'
    /\ \A i \in DOMAIN mail : mail'[i].src = mail[i].src /\ mail'[i].user = mail[i].user

LEMMA ConcatIs ==
    ASSUME NEW m \in Seq(Mailbox), NEW x \in Seq(Mailbox)
    PROVE  /\ DOMAIN m \subseteq DOMAIN (m \o x)
           /\ \A i \in DOMAIN m : (m \o x)[i] = m[i]
           /\ \A i \in DOMAIN (m \o x) : i \notin DOMAIN m =>
                 i - Len(m) \in DOMAIN x /\ (m \o x)[i] = x[i - Len(m)]
           /\ \A i \in DOMAIN x : i + Len(m) \in DOMAIN (m \o x) /\ (m \o x)[i + Len(m)] = x[i]
           /\ \A i \in DOMAIN (m \o x) : i \in Nat
OBVIOUS

LEMMA KindsGrow ==
    ASSUME IInv, Kinds
    PROVE  MailGrows
<1>1. CASE mail' = mail
  BY <1>1 DEF MailGrows
<1>2. ASSUME NEW set, NEW q, Resizes(set, q)
      PROVE  MailGrows
  BY <1>2 DEF MailGrows, Resizes
<1>3. CASE Activates
  BY <1>3 DEF MailGrows, Activates
<1>4. ASSUME NEW a \in Callers, CommitsImport(a)
      PROVE  MailGrows
  <2>1. mail \in Seq(Mailbox) /\ req[a].added \in Seq(Mailbox)
    BY FormIs DEF TypeOK, Request
  <2> QED BY <1>4, <2>1, ConcatIs DEF MailGrows, CommitsImport
<1>5. ASSUME NEW a \in Callers, Starts(a) \/ Calling(a)
      PROVE  mail' = mail
  BY <1>5 DEF Starts, Calling, Drops, Serves, Skips, Loses, RowsKept
<1>6. ASSUME NEW a \in Admins, Committing(a)
      PROVE  MailGrows
  BY <1>1, <1>2, <1>6 DEF Committing, AddsAlias, DropsAlias, ResizesBox, EditsDomain
<1>7. ASSUME NEW a \in Admins, Importing(a)
      PROVE  MailGrows
  BY <1>1, <1>4, <1>7, CallersAre DEF Importing, LooksUp, Adds, RowsKept
<1> QED BY <1>1, <1>3, <1>5, <1>6, <1>7 DEF Kinds, Uploads

\* What becomes of the request whose step it is.
Own(a, e) ==
    \/ e = Idle
    \/ New(a, e) /\ ~IsOpen(a)
    \/ /\ req[a].pc = "call"
       /\ \E i \in Subjects(req[a]), ok \in BOOLEAN :
             (ok \/ Op(a) = "domain") /\ e = Called(req[a], i, ok)
    \/ /\ Op(a) = "import" /\ Keeps(req[a], e) /\ e.pc \in {"look", "insert"}
       /\ e.pc = "insert" => e.now \in Key

LEMMA KindsOwn ==
    ASSUME IInv, Kinds
    PROVE  \/ req' = req
           \/ \E a \in Callers : Elsewhere(a) /\ Own(a, req'[a])
<1>1. ASSUME NEW a \in Callers, Ends(a)
      PROVE  Elsewhere(a) /\ Own(a, req'[a])
  BY <1>1 DEF Ends, Own
<1>2. ASSUME NEW a \in Callers, Starts(a)
      PROVE  Elsewhere(a) /\ Own(a, req'[a])
  BY <1>2 DEF Starts, Own
<1>3. ASSUME NEW a \in Callers, Calling(a)
      PROVE  Elsewhere(a) /\ Own(a, req'[a])
  <2>1. ASSUME NEW i, Serves(a, i)
        PROVE  Elsewhere(a) /\ Own(a, req'[a])
    BY <2>1 DEF Serves, Serving, Goes, Own
  <2>2. ASSUME NEW i, Skips(a, i)
        PROVE  Elsewhere(a) /\ Own(a, req'[a])
    <3>1. i \in Subjects(req[a])
      BY <2>2 DEF Skips, Subjects, Op
    <3> QED BY <2>2, <3>1 DEF Skips, Goes, Own
  <2>3. ASSUME NEW i, Loses(a, i)
        PROVE  Elsewhere(a) /\ Own(a, req'[a])
    <3>1. CASE Op(a) = "domain"
      BY <2>3, <3>1 DEF Loses, Serving, Goes, Own
    <3>2. CASE Op(a) # "domain"
      BY <1>1, <2>3, <3>2 DEF Loses
    <3> QED BY <3>1, <3>2
  <2> QED BY <1>1, <1>3, <2>1, <2>2, <2>3 DEF Calling, Drops
<1>4. ASSUME NEW a \in Admins, Committing(a)
      PROVE  Elsewhere(a) /\ Own(a, req'[a])
  BY <1>1, <1>4, CallersAre DEF Committing, AddsAlias, DropsAlias, ResizesBox, EditsDomain, Own
<1>5. ASSUME NEW a \in Admins, Importing(a)
      PROVE  Elsewhere(a) /\ Own(a, req'[a])
  <2>1. a \in Callers
    BY CallersAre
  <2>2. ASSUME req[a].pc \in {"look", "insert"}
        PROVE  Op(a) = "import"
    <3>1. TypeOK /\ FormOf(a, req[a])
      BY <2>1, FormIs
    <3> QED BY <2>1, <2>2, <3>1, RequestIs DEF FormOf, Op
  <2>3. ASSUME NEW s \in Sources, NEW u \in Users, LooksUp(a, s, u)
        PROVE  Elsewhere(a) /\ Own(a, req'[a])
    <3>1. <<s, u>> \in Key
      BY DEF Key
    <3> QED BY <2>2, <2>3, <3>1 DEF LooksUp, Own
  <2>4. ASSUME NEW s \in Sources, NEW u \in Users, Adds(a, s, u)
        PROVE  Elsewhere(a) /\ Own(a, req'[a])
    BY <2>2, <2>4 DEF Adds, Own
  <2>5. CASE CommitsImport(a)
    BY <1>1, <2>1, <2>5 DEF CommitsImport
  <2> QED BY <1>5, <2>3, <2>4, <2>5 DEF Importing
<1> QED BY <1>1, <1>2, <1>3, <1>4, <1>5, CallersAre DEF Kinds, Uploads, Activates

LEMMA FormNext ==
    ASSUME \A b \in Callers :
              /\ FormOf(b, req'[b])
              /\ req'[b].todo \cup req'[b].done \cup req'[b].here \subseteq DOMAIN mail'
    PROVE  FormInv'
BY DEF FormInv, FormOf

LEMMA FormStep ==
    ASSUME IInv, Kinds
    PROVE  FormInv'
<1>1. DOMAIN mail \subseteq DOMAIN mail'
  BY KindsGrow DEF MailGrows
<1>2. \A b \in Callers : /\ FormOf(b, req[b])
                         /\ req[b].todo \cup req[b].done \cup req[b].here \subseteq DOMAIN mail
  BY FormIs
<1>3. CASE req' = req
  <2>1. \A b \in Callers : /\ FormOf(b, req'[b])
                           /\ req'[b].todo \cup req'[b].done \cup req'[b].here \subseteq DOMAIN mail'
    BY <1>1, <1>2, <1>3
  <2> QED BY <2>1, FormNext
<1>4. ASSUME NEW a \in Callers, Elsewhere(a), Own(a, req'[a])
      PROVE  FormInv'
  <2> DEFINE e == req'[a]
  <2>1. TypeOK /\ req[a] \in Request
    BY FormIs
  <2>2. ASSUME NEW b \in Callers, b # a
        PROVE  /\ FormOf(b, req'[b])
               /\ req'[b].todo \cup req'[b].done \cup req'[b].here \subseteq DOMAIN mail'
    <3>1. Alike(req[b], req'[b])
      BY <1>4, <2>2 DEF Elsewhere
    <3>2. FormOf(b, req'[b])
      BY <1>2, <3>1, AlikeForm
    <3>3. req'[b].todo = req[b].todo /\ req'[b].done = req[b].done /\ req'[b].here = req[b].here
      BY <3>1 DEF Alike
    <3> QED BY <1>1, <1>2, <3>2, <3>3
  <2>3. FormOf(a, e) /\ e.todo \cup e.done \cup e.here \subseteq DOMAIN mail'
    <3>1. CASE e = Idle
      BY <3>1, IdleIs, IdleForm
    <3>2. CASE New(a, e)
      <4>1. FormOf(a, e) /\ e.todo \cup e.done \cup e.here \subseteq DOMAIN mail
        BY <2>1, <3>2, NewForm
      <4> QED BY <1>1, <4>1
    <3>3. ASSUME req[a].pc = "call", NEW i \in Subjects(req[a]), NEW ok \in BOOLEAN,
                 ok \/ Op(a) = "domain", e = Called(req[a], i, ok)
          PROVE  FormOf(a, e) /\ e.todo \cup e.done \cup e.here \subseteq DOMAIN mail'
      <4>1. FormOf(a, e)
        BY <3>3, CalledForm
      <4>2. /\ e.todo = req[a].todo \ {i} /\ e.here = req[a].here
            /\ e.done = IF ok /\ i \in req[a].todo THEN req[a].done \cup {i} ELSE req[a].done
        <5>1. CalledAt(req[a], i, ok, e)
          BY <2>1, <3>3, CalledIs
        <5> QED BY <5>1 DEF CalledAt
      <4> QED BY <1>1, <1>2, <4>1, <4>2
    <3>4. ASSUME Op(a) = "import", Keeps(req[a], e), e.pc \in {"look", "insert"},
                 e.pc = "insert" => e.now \in Key
          PROVE  FormOf(a, e) /\ e.todo \cup e.done \cup e.here \subseteq DOMAIN mail'
      <4>1. FormOf(a, req[a])
        BY <1>2
      <4>2. FormOf(a, e)
        BY <3>4, <4>1 DEF Keeps, FormOf, Op
      <4>3. e.todo = req[a].todo /\ e.here = req[a].here /\ e.done = req[a].done
        BY <3>4 DEF Keeps
      <4> QED BY <1>1, <1>2, <4>2, <4>3
    <3> QED BY <1>4, <3>1, <3>2, <3>3, <3>4 DEF Own
  <2>4. \A b \in Callers : /\ FormOf(b, req'[b])
                           /\ req'[b].todo \cup req'[b].done \cup req'[b].here \subseteq DOMAIN mail'
    BY <2>2, <2>3
  <2> QED BY <2>4, FormNext
<1> QED BY <1>3, <1>4, KindsOwn

\* Things.
LEMMA TornNext ==
    ASSUME \A b, c \in Callers : b # c => Things(req'[b]) \cap Things(req'[c]) \subseteq req'[b].torn
    PROVE  TornInv'
BY DEF TornInv, Things

LEMMA ClosedHasNothing ==
    ASSUME IInv, NEW a \in Callers, ~IsOpen(a)
    PROVE  Things(req[a]) = {} /\ req[a].todo = {} /\ req[a].done = {} /\ req[a].here = {}
           /\ Op(a) = "none"
BY FormIs DEF FormOf, IsOpen, Things, Op

LEMMA KeepsThings ==
    ASSUME NEW r, NEW e, Keeps(r, e)
    PROVE  Things(e) = Things(r)
BY DEF Keeps, Things

LEMMA CalledThings ==
    ASSUME NEW r \in Request, NEW i \in Subjects(r), NEW ok \in BOOLEAN
    PROVE  Things(Called(r, i, ok)) \subseteq Things(r) /\ Called(r, i, ok).torn = r.torn
<1> DEFINE e == Called(r, i, ok)
<1>1. CalledAt(r, i, ok, e)
  BY CalledIs
<1> HIDE DEF e
<1>2. Things(e) \subseteq Things(r) /\ e.torn = r.torn
  BY <1>1 DEF Things, CalledAt
<1> QED BY <1>2 DEF e

\* No step but a start lets a request handle more, or forgets what tore it.
LEMMA OwnThings ==
    ASSUME IInv, NEW a \in Callers, Own(a, req'[a])
    PROVE  \/ Things(req'[a]) = {}
           \/ New(a, req'[a]) /\ ~IsOpen(a)
           \/ Things(req'[a]) \subseteq Things(req[a]) /\ req'[a].torn = req[a].torn
<1>1. req[a] \in Request
  BY FormIs
<1>2. CASE req'[a] = Idle
  BY <1>2, IdleThings
<1>3. ASSUME NEW i \in Subjects(req[a]), NEW ok \in BOOLEAN, req'[a] = Called(req[a], i, ok)
      PROVE  Things(req'[a]) \subseteq Things(req[a]) /\ req'[a].torn = req[a].torn
  BY <1>1, <1>3, CalledThings
<1>4. ASSUME Keeps(req[a], req'[a])
      PROVE  Things(req'[a]) \subseteq Things(req[a]) /\ req'[a].torn = req[a].torn
  <2>1. Things(req'[a]) = Things(req[a])
    BY <1>4, KeepsThings
  <2> QED BY <1>4, <2>1 DEF Keeps
<1> QED BY <1>2, <1>3, <1>4 DEF Own

LEMMA KindsStart ==
    ASSUME IInv, Kinds, NEW a \in Callers, New(a, req'[a]), ~IsOpen(a)
    PROVE  Starts(a)
<1>1. req'[a].pc # "idle" /\ req[a].pc = "idle"
  BY DEF New, NewAlias, NewQuota, NewEdit, NewProvision, NewImport, IsOpen
<1>2. ASSUME NEW b \in Callers, Elsewhere(b)
      PROVE  b = a
  BY <1>1, <1>2 DEF Elsewhere, Alike
<1>3. req' # req
  BY <1>1
<1>4. ASSUME NEW b \in Callers, Ends(b)
      PROVE  FALSE
  BY <1>1, <1>2, <1>4, IdleIs DEF Ends
<1>5. ASSUME NEW b \in Callers, Starts(b)
      PROVE  Starts(a)
  BY <1>2, <1>5 DEF Starts
<1>6. ASSUME NEW b \in Callers, Calling(b)
      PROVE  FALSE
  <2>1. req[b].pc # "idle" /\ Elsewhere(b)
    BY <1>6 DEF Calling, Drops, Serves, Serving, Skips, Loses, Goes, Ends
  <2> QED BY <1>1, <1>2, <2>1
<1>7. ASSUME NEW b \in Callers, Committing(b)
      PROVE  FALSE
  <2>1. req[b].pc # "idle" /\ Elsewhere(b)
    BY <1>7 DEF Committing, AddsAlias, DropsAlias, ResizesBox, EditsDomain, Ends
  <2> QED BY <1>1, <1>2, <2>1
<1>8. ASSUME NEW b \in Callers, Importing(b)
      PROVE  FALSE
  <2>1. req[b].pc # "idle" /\ Elsewhere(b)
    BY <1>8 DEF Importing, LooksUp, Adds, CommitsImport, Ends
  <2> QED BY <1>1, <1>2, <2>1
<1> QED BY <1>3, <1>4, <1>5, <1>6, <1>7, <1>8, CallersAre DEF Kinds, Uploads, Activates

LEMMA TornStep ==
    ASSUME IInv, Kinds
    PROVE  TornInv'
<1>1. \A b, c \in Callers : b # c => Things(req[b]) \cap Things(req[c]) \subseteq req[b].torn
  BY DEF IInv, TornInv
<1>2. CASE req' = req
  <2>1. \A b, c \in Callers : b # c => Things(req'[b]) \cap Things(req'[c]) \subseteq req'[b].torn
    BY <1>1, <1>2
  <2> QED BY <2>1, TornNext
<1>3. ASSUME NEW a \in Callers, Elsewhere(a), Own(a, req'[a])
      PROVE  TornInv'
  <2>1. \A b \in Callers \ {a} : Things(req'[b]) = Things(req[b]) /\ req[b].torn \subseteq req'[b].torn
    BY <1>3, AlikeThings DEF Elsewhere
  <2>2. CASE Things(req'[a]) = {}
    <3>1. \A b, c \in Callers : b # c => Things(req'[b]) \cap Things(req'[c]) \subseteq req'[b].torn
      BY <1>1, <2>1, <2>2
    <3> QED BY <3>1, TornNext
  <2>3. CASE Things(req'[a]) \subseteq Things(req[a]) /\ req'[a].torn = req[a].torn
    <3>1. \A b, c \in Callers : b # c => Things(req'[b]) \cap Things(req'[c]) \subseteq req'[b].torn
      BY <1>1, <2>1, <2>3
    <3> QED BY <3>1, TornNext
  <2>4. CASE New(a, req'[a]) /\ ~IsOpen(a)
    <3>1. Starts(a)
      BY <2>4, KindsStart
    <3>2. \A b \in Callers \ {a} :
             Things(req'[a]) \cap Things(req'[b]) \subseteq req'[a].torn \cap req'[b].torn
      BY <2>1, <3>1, ClosedHasNothing DEF Starts
    <3>3. \A b, c \in Callers : b # c => Things(req'[b]) \cap Things(req'[c]) \subseteq req'[b].torn
      BY <1>1, <2>1, <3>2
    <3> QED BY <3>3, TornNext
  <2> QED BY <1>3, <2>2, <2>3, <2>4, OwnThings
<1> QED BY <1>2, <1>3, KindsOwn

-----------------------------------------------------------------------------
(* The tables of VM1. *)

LEMMA TablesNext ==
    ASSUME \A s \in Sources : dom'[s].dest = None => dom'[s] = NoDomain,
           \A n \in Names : alias'[n] # None => dom'[alias'[n]].dest # None,
           \A i \in DOMAIN mail' : /\ dom'[mail'[i].src].dest # None
                                   /\ mail'[i].st = "pending" <=> mail'[i].at = None
                                   /\ mail'[i].st # "pending" => <<i, mail'[i].at>> \in made',
           made' \subseteq (DOMAIN mail') \X Names,
           \A a \in Callers : \/ req'[a].op \in {"add", "delete"}
                              \/ req'[a].op = "domain" /\ req'[a].writes
                              => dom'[req'[a].src].dest # None
    PROVE  TablesInv'
BY DEF TablesInv, Known, Pending, Op

LEMMA TablesAre ==
    ASSUME IInv
    PROVE  /\ dom \in [Sources -> Domain] /\ alias \in [Names -> Sources \cup {None}]
           /\ \A s \in Sources : dom[s].dest = None => dom[s] = NoDomain
           /\ \A n \in Names : alias[n] # None => dom[alias[n]].dest # None
           /\ \A i \in DOMAIN mail : /\ mail[i] \in Mailbox /\ dom[mail[i].src].dest # None
                                     /\ mail[i].st = "pending" <=> mail[i].at = None
                                     /\ mail[i].st # "pending" => <<i, mail[i].at>> \in made
           /\ made \subseteq (DOMAIN mail) \X Names
           /\ \A a \in Callers : \/ req[a].op \in {"add", "delete"}
                                 \/ req[a].op = "domain" /\ req[a].writes
                                 => dom[req[a].src].dest # None
BY DEF IInv, TypeOK, TablesInv, Known, Pending, Op

\* A domain that exists keeps existing.
KnownGrows ==
    \A s \in Sources : /\ dom[s].dest # None => dom'[s].dest # None
                       /\ dom'[s].dest = None => dom'[s] = dom[s]

LEMMA KindsKnow ==
    ASSUME IInv, Kinds
    PROVE  KnownGrows
<1>1. CASE dom' = dom
  BY <1>1 DEF KnownGrows
<1>2. ASSUME NEW a \in Admins, EditsDomain(a)
      PROVE  KnownGrows
  <2>1. req[a].name \in Names
    BY <1>2, CallersAre, FormIs DEF EditsDomain, FormOf, Op
  <2>2. req[a].name # None
    BY <2>1, DirectoryAssumption
  <2> QED BY <1>2, <2>2 DEF EditsDomain, KnownGrows
<1>3. ASSUME NEW a \in Admins, CommitsImport(a)
      PROVE  KnownGrows
  BY <1>3 DEF CommitsImport, KnownGrows
<1>4. ASSUME NEW a \in Callers, Starts(a) \/ Calling(a)
      PROVE  dom' = dom
  BY <1>4 DEF Starts, Calling, Drops, Serves, Skips, Loses, RowsKept
<1>5. ASSUME NEW a \in Admins, Committing(a)
      PROVE  KnownGrows
  BY <1>1, <1>2, <1>5 DEF Committing, AddsAlias, DropsAlias, ResizesBox
<1>6. ASSUME NEW a \in Admins, Importing(a)
      PROVE  KnownGrows
  BY <1>1, <1>3, <1>6 DEF Importing, LooksUp, Adds, RowsKept
<1> QED BY <1>1, <1>4, <1>5, <1>6 DEF Kinds, Uploads, Activates

\* What VM2 was made to have was asked for by the worker.
LEMMA KindsMake ==
    ASSUME IInv, Kinds
    PROVE  made \subseteq made' /\ made' \subseteq (DOMAIN mail) \X Names
<1>1. made \subseteq (DOMAIN mail) \X Names
  BY TablesAre
<1>2. ASSUME NEW a \in Callers, NEW i, Serving(a, i)
      PROVE  made \subseteq made' /\ made' \subseteq (DOMAIN mail) \X Names
  <2>1. req[a].pc = "call" /\ i \in Subjects(req[a]) /\ made' = MadeBy(req[a], i)
    BY <1>2 DEF Serving
  <2>2. Op(a) = "provision" => i \in DOMAIN mail /\ req[a].dest \in Names
    BY <2>1, AskerIs
  <2> QED BY <1>1, <2>1, <2>2 DEF MadeBy, Op
<1>3. CASE made' = made
  BY <1>1, <1>3
<1>4. ASSUME NEW a \in Callers, Calling(a)
      PROVE  made' = made \/ \E i : Serving(a, i)
  BY <1>4 DEF Calling, Drops, Serves, Skips, Loses, HistoryKept
<1>5. ASSUME NEW a \in Callers, Starts(a) \/ Committing(a) \/ Importing(a)
      PROVE  made' = made
  BY <1>5 DEF Starts, Committing, Importing, AddsAlias, DropsAlias, ResizesBox, EditsDomain,
              LooksUp, Adds, CommitsImport, HistoryKept
<1>6. CASE Uploads \/ Activates
  BY <1>3, <1>6 DEF Uploads, Activates, HistoryKept
<1> QED BY <1>2, <1>3, <1>4, <1>5, <1>6, CallersAre DEF Kinds

LEMMA OpensAre ==
    ASSUME IInv, NEW a \in Callers, NEW i \in DOMAIN req[a].added
    PROVE  /\ req[a].added[i] \in Mailbox
           /\ req[a].added[i].src \in req[a].opens \/ dom[req[a].added[i].src].dest # None
           /\ req[a].added[i].st = "pending" /\ req[a].added[i].at = None
<1>1. req[a].added \in Seq(Mailbox)
  BY FormIs, RequestIs
<1> QED BY <1>1 DEF IInv, OpensInv, Opened, Known

\* The rows of the mailboxes.
LEMMA MailTables ==
    ASSUME IInv, Kinds, NEW i \in DOMAIN mail'
    PROVE  /\ dom'[mail'[i].src].dest # None
           /\ mail'[i].st = "pending" <=> mail'[i].at = None
           /\ mail'[i].st # "pending" => <<i, mail'[i].at>> \in made'
<1>1. KnownGrows /\ made \subseteq made'
  BY KindsKnow, KindsMake
<1> DEFINE Good == /\ dom'[mail'[i].src].dest # None
                   /\ mail'[i].st = "pending" <=> mail'[i].at = None
                   /\ mail'[i].st # "pending" => <<i, mail'[i].at>> \in made'
<1>2. ASSUME i \in DOMAIN mail, mail'[i].src = mail[i].src, mail'[i].st = mail[i].st,
             mail'[i].at = mail[i].at
      PROVE  Good
  <2>1. /\ mail[i].src \in Sources /\ dom[mail[i].src].dest # None
        /\ mail[i].st = "pending" <=> mail[i].at = None
        /\ mail[i].st # "pending" => <<i, mail[i].at>> \in made
    BY <1>2, TablesAre DEF Mailbox
  <2> QED BY <1>1, <1>2, <2>1 DEF KnownGrows
<1>3. ASSUME mail' = mail
      PROVE  Good
  BY <1>2, <1>3
<1>4. ASSUME NEW set, NEW q, Resizes(set, q)
      PROVE  Good
  BY <1>2, <1>4 DEF Resizes
<1>5. ASSUME Activates
      PROVE  Good
  <2>1. i \in DOMAIN mail
    BY <1>5 DEF Activates
  <2>2. CASE i \in req[Worker].done
    <3>1. mail'[i].st = "active" /\ mail'[i].at = req[Worker].dest /\ mail'[i].src = mail[i].src
      BY <1>5, <2>1, <2>2 DEF Activates
    <3>2. req[Worker].dest \in Names /\ req[Worker].dest # None
      BY <1>5, CallersAre, FormIs, DirectoryAssumption DEF Activates, FormOf, Op
    <3>3. <<i, req[Worker].dest>> \in made
      BY <2>2 DEF IInv, WorkerInv
    <3>4. mail[i].src \in Sources /\ dom[mail[i].src].dest # None
      BY <2>1, TablesAre DEF Mailbox
    <3> QED BY <1>1, <3>1, <3>2, <3>3, <3>4 DEF KnownGrows
  <2>3. CASE i \notin req[Worker].done
    BY <1>2, <1>5, <2>1, <2>3 DEF Activates
  <2> QED BY <2>2, <2>3
<1>6. ASSUME NEW a \in Callers, CommitsImport(a)
      PROVE  Good
  <2>1. /\ mail \in Seq(Mailbox) /\ req[a].added \in Seq(Mailbox) /\ mail' = mail \o req[a].added
    BY <1>6, FormIs DEF TypeOK, Request, CommitsImport
  <2>2. CASE i \in DOMAIN mail
    BY <1>2, <2>1, <2>2, ConcatIs
  <2>3. CASE i \notin DOMAIN mail
    <3> DEFINE j == i - Len(mail)
    <3>1. j \in DOMAIN req[a].added /\ mail'[i] = req[a].added[j]
      BY <2>1, <2>3, ConcatIs
    <3> HIDE DEF j
    <3>2. /\ req[a].added[j] \in Mailbox
          /\ req[a].added[j].src \in req[a].opens \/ dom[req[a].added[j].src].dest # None
          /\ req[a].added[j].st = "pending" /\ req[a].added[j].at = None
      BY <3>1, OpensAre
    <3>3. req[a].added[j].src \in Sources
      BY <3>2 DEF Mailbox
    <3>4. dom'[req[a].added[j].src].dest # None
      BY <1>1, <1>6, <3>2, <3>3 DEF CommitsImport, KnownGrows
    <3> QED BY <3>1, <3>2, <3>4
  <2> QED BY <2>2, <2>3
<1>7. ASSUME NEW a \in Callers, Starts(a) \/ Calling(a)
      PROVE  mail' = mail
  BY <1>7 DEF Starts, Calling, Drops, Serves, Skips, Loses, RowsKept
<1>8. ASSUME NEW a \in Admins, Committing(a)
      PROVE  Good
  BY <1>3, <1>4, <1>8 DEF Committing, AddsAlias, DropsAlias, ResizesBox, EditsDomain
<1>9. ASSUME NEW a \in Admins, Importing(a)
      PROVE  Good
  BY <1>3, <1>6, <1>9, CallersAre DEF Importing, LooksUp, Adds, RowsKept
<1>10. ASSUME Uploads
       PROVE  Good
  BY <1>3, <1>10 DEF Uploads
<1>11. ASSUME NEW a \in Callers, Starts(a) \/ Calling(a)
       PROVE  Good
  BY <1>3, <1>7, <1>11
<1> HIDE DEF Good
<1>12. Good
  BY <1>5, <1>8, <1>9, <1>10, <1>11 DEF Kinds
<1> QED BY <1>12 DEF Good

LEMMA AliasTables ==
    ASSUME IInv, Kinds, NEW n \in Names, alias'[n] # None
    PROVE  dom'[alias'[n]].dest # None
<1>1. KnownGrows
  BY KindsKnow
<1>2. ASSUME alias'[n] = alias[n]
      PROVE  dom'[alias'[n]].dest # None
  BY <1>1, <1>2, TablesAre DEF KnownGrows
<1>3. ASSUME NEW a \in Admins, AddsAlias(a)
      PROVE  dom'[alias'[n]].dest # None
  <2>1. req[a].src \in Sources
    BY <1>3, CallersAre, FormIs DEF AddsAlias, FormOf, Op
  <2>2. dom[req[a].src].dest # None
    BY <1>3, CallersAre, TablesAre DEF AddsAlias, Op
  <2>3. alias'[n] = alias[n] \/ alias'[n] = req[a].src
    BY <1>3 DEF AddsAlias
  <2> QED BY <1>1, <1>2, <2>1, <2>2, <2>3 DEF KnownGrows
<1>4. ASSUME NEW a \in Admins, DropsAlias(a)
      PROVE  dom'[alias'[n]].dest # None
  BY <1>2, <1>4 DEF DropsAlias
<1>5. ASSUME NEW a \in Callers, Starts(a) \/ Calling(a)
      PROVE  alias' = alias
  BY <1>5 DEF Starts, Calling, Drops, Serves, Skips, Loses, RowsKept
<1>6. ASSUME NEW a \in Admins, Committing(a)
      PROVE  dom'[alias'[n]].dest # None
  BY <1>2, <1>3, <1>4, <1>6 DEF Committing, ResizesBox, EditsDomain
<1>7. ASSUME NEW a \in Admins, Importing(a)
      PROVE  alias' = alias
  BY <1>7 DEF Importing, LooksUp, Adds, CommitsImport, RowsKept
<1>8. CASE alias' = alias
  BY <1>2, <1>8
<1> QED BY <1>5, <1>6, <1>7, <1>8 DEF Kinds, Uploads, Activates

LEMMA RequestTables ==
    ASSUME IInv, Kinds, NEW b \in Callers,
           \/ req'[b].op \in {"add", "delete"}
           \/ req'[b].op = "domain" /\ req'[b].writes
    PROVE  dom'[req'[b].src].dest # None
<1>1. KnownGrows
  BY KindsKnow
<1>2. ASSUME req'[b].op = req[b].op, req'[b].writes = req[b].writes, req'[b].src = req[b].src
      PROVE  dom'[req'[b].src].dest # None
  <2>1. FormOf(b, req[b]) /\ dom[req[b].src].dest # None
    BY <1>2, FormIs, TablesAre
  <2>2. req[b].src \in Sources
    BY <1>2, <2>1 DEF FormOf
  <2> QED BY <1>1, <1>2, <2>1, <2>2 DEF KnownGrows
<1>3. CASE req' = req
  BY <1>2, <1>3
<1>4. ASSUME NEW a \in Callers, Elsewhere(a), Own(a, req'[a])
      PROVE  dom'[req'[b].src].dest # None
  <2>1. CASE b # a
    <3>1. Alike(req[b], req'[b])
      BY <1>4, <2>1 DEF Elsewhere
    <3> QED BY <1>2, <3>1 DEF Alike
  <2>2. CASE b = a
    <3>1. req[a] \in Request
      BY FormIs
    <3>2. req'[a] # Idle
      BY <2>2, IdleIs
    <3>3. CASE New(a, req'[a])
      <4>1. req'[a].src \in Sources /\ Known(req'[a].src)
        BY <2>2, <3>3 DEF New, NewAlias, NewQuota, NewEdit, NewProvision, NewImport
      <4> QED BY <1>1, <2>2, <4>1 DEF KnownGrows, Known
    <3>4. ASSUME NEW i, NEW ok \in BOOLEAN, req'[a] = Called(req[a], i, ok)
          PROVE  dom'[req'[b].src].dest # None
      <4>1. CalledAt(req[a], i, ok, req'[a])
        BY <3>1, <3>4, CalledIs
      <4> QED BY <1>2, <2>2, <4>1 DEF CalledAt
    <3>5. ASSUME Keeps(req[a], req'[a])
          PROVE  dom'[req'[b].src].dest # None
      BY <1>2, <2>2, <3>5 DEF Keeps
    <3> QED BY <1>4, <3>2, <3>3, <3>4, <3>5 DEF Own
  <2> QED BY <2>1, <2>2
<1> QED BY <1>3, <1>4, KindsOwn

LEMMA TablesStep ==
    ASSUME IInv, Kinds
    PROVE  TablesInv'
<1>1. \A s \in Sources : dom'[s].dest = None => dom'[s] = NoDomain
  <2>1. KnownGrows
    BY KindsKnow
  <2> QED BY <2>1, TablesAre DEF KnownGrows
<1>2. made' \subseteq (DOMAIN mail') \X Names
  <2>1. DOMAIN mail \subseteq DOMAIN mail' /\ made' \subseteq (DOMAIN mail) \X Names
    BY KindsGrow, KindsMake DEF MailGrows
  <2> QED BY <2>1
<1> QED BY <1>1, <1>2, AliasTables, MailTables, RequestTables, TablesNext

-----------------------------------------------------------------------------
(* The aliases. *)

\* AliasInv after the step, name by name.
NamedNext(b, n) == req'[b].op \in {"add", "delete"} /\ req'[b].name = n
ClearNext(n) == n \notin doubt' \cup moved'
TargetNext(n) == IF alias'[n] = None THEN None ELSE dom'[alias'[n]].dest
PhaseNext(b, n) ==
    /\ req'[b].op = "add" => alias'[n] = None
    /\ req'[b].op = "add" /\ req'[b].pc = "commit" => vm2'.alias[n] = req'[b].dest
    /\ req'[b].op = "delete" => /\ alias'[n] = req'[b].src /\ ~req'[b].gone
                                /\ n \notin moved' => dom'[req'[b].src].dest = req'[b].dest
    /\ req'[b].op = "delete" /\ req'[b].pc = "commit" =>
          /\ vm2'.alias[n] # req'[b].dest
          /\ ClearNext(n) => vm2'.alias[n] = None
AliasNextAt(n) ==
    /\ ClearNext(n) /\ (\A b \in Callers : NamedNext(b, n) => req'[b].pc # "commit")
          => vm2'.alias[n] = TargetNext(n)
    /\ \A b \in Callers : NamedNext(b, n) /\ n \notin req'[b].torn => PhaseNext(b, n)
    /\ \A b \in Callers : NamedNext(b, n) /\ req'[b].op = "add" /\ alias'[n] # None => n \in doubt'

LEMMA AliasNext ==
    ASSUME \A n \in Names : AliasNextAt(n)
    PROVE  AliasInv'
BY DEF AliasInv, AliasNextAt, NamedNext, ClearNext, TargetNext, PhaseNext,
       Named, Clear, Target, AliasPhase, AtCommit, Op

LEMMA AliasNow ==
    ASSUME IInv, NEW n \in Names
    PROVE  /\ /\ n \notin doubt \cup moved
              /\ \A b \in Callers : Named(b, n) => req[b].pc # "commit"
              => vm2.alias[n] = Target(n)
           /\ \A b \in Callers : Named(b, n) /\ n \notin req[b].torn => AliasPhase(b, n)
           /\ \A b \in Callers : Named(b, n) /\ Op(b) = "add" /\ alias[n] # None => n \in doubt
BY DEF IInv, AliasInv, AtCommit, Clear

SameAlias(b) ==
    /\ req'[b].op = req[b].op /\ req'[b].name = req[b].name /\ req'[b].src = req[b].src
    /\ req'[b].dest = req[b].dest /\ req'[b].pc = req[b].pc /\ req'[b].gone = req[b].gone
    /\ req[b].torn \subseteq req'[b].torn

LEMMA OthersSame ==
    ASSUME NEW a, Elsewhere(a), Unasked(a)
    PROVE  \A b \in Callers \ {a} : SameAlias(b)
BY DEF Elsewhere, Unasked, Alike, SameAlias

\* A name whose alias, whose requests and whose copy on VM2 the step leaves alone.
Untouched(n) ==
    /\ alias'[n] = alias[n] /\ vm2'.alias[n] = vm2.alias[n]
    /\ n \notin moved' /\ alias[n] # None => dom'[alias[n]].dest = dom[alias[n]].dest
    /\ n \in moved => n \in moved'
    /\ n \in doubt => n \in doubt'
    /\ \A b \in Callers : \/ SameAlias(b)
                          \/ ~NamedNext(b, n) /\ (Named(b, n) => req[b].pc # "commit")

LEMMA UntouchedStays ==
    ASSUME IInv, NEW n \in Names, Untouched(n)
    PROVE  AliasNextAt(n)
<1>1. ClearNext(n) => n \notin doubt \cup moved
  BY DEF Untouched, ClearNext
<1>2. ASSUME ClearNext(n), \A b \in Callers : NamedNext(b, n) => req'[b].pc # "commit"
      PROVE  vm2'.alias[n] = TargetNext(n)
  <2>1. \A b \in Callers : Named(b, n) => req[b].pc # "commit"
    BY <1>2 DEF Untouched, SameAlias, NamedNext, Named, Op
  <2>2. vm2.alias[n] = Target(n)
    BY <1>1, <1>2, <2>1, AliasNow
  <2>3. TargetNext(n) = Target(n)
    BY <1>2 DEF Untouched, ClearNext, TargetNext, Target
  <2> QED BY <2>2, <2>3 DEF Untouched
<1>3. ASSUME NEW b \in Callers, NamedNext(b, n), n \notin req'[b].torn
      PROVE  PhaseNext(b, n)
  <2>1. SameAlias(b)
    BY <1>3 DEF Untouched
  <2>2. Named(b, n) /\ n \notin req[b].torn
    BY <1>3, <2>1 DEF SameAlias, NamedNext, Named, Op
  <2>3. AliasPhase(b, n)
    BY <2>2, AliasNow
  <2>4. CASE req[b].op = "add"
    BY <2>1, <2>3, <2>4 DEF SameAlias, Untouched, AliasPhase, PhaseNext, Op
  <2>5. CASE req[b].op = "delete"
    <3>1. alias[n] = req[b].src /\ ~req[b].gone
      BY <2>3, <2>5 DEF AliasPhase, Op
    <3>2. alias[n] # None
      <4>1. req[b].src \in Sources
        BY <2>5, FormIs DEF FormOf
      <4> QED BY <3>1, <4>1, DirectoryAssumption
    <3>3. n \notin moved' => dom'[req[b].src].dest = req[b].dest
      BY <2>3, <2>5, <3>1, <3>2 DEF Untouched, AliasPhase, Op
    <3>4. req[b].pc = "commit" => /\ vm2'.alias[n] # req[b].dest
                                  /\ ClearNext(n) => vm2'.alias[n] = None
      BY <1>1, <2>3, <2>5 DEF Untouched, AliasPhase, Op, Clear
    <3> QED BY <2>1, <2>5, <3>1, <3>3, <3>4 DEF SameAlias, Untouched, PhaseNext
  <2> QED BY <2>2, <2>4, <2>5 DEF Named, Op
<1>4. ASSUME NEW b \in Callers, NamedNext(b, n), req'[b].op = "add", alias'[n] # None
      PROVE  n \in doubt'
  <2>1. SameAlias(b)
    BY <1>4 DEF Untouched
  <2>2. Named(b, n) /\ Op(b) = "add" /\ alias[n] # None
    BY <1>4, <2>1 DEF SameAlias, Untouched, NamedNext, Named, Op
  <2> QED BY <2>2, AliasNow DEF Untouched
<1> QED BY <1>2, <1>3, <1>4 DEF AliasNextAt

\* Two requests for one name are torn.
LEMMA NamedAlone ==
    ASSUME IInv, NEW a \in Callers, NEW b \in Callers, a # b, NEW n, Named(a, n), Named(b, n)
    PROVE  n \in req[a].torn /\ n \in req[b].torn
BY DEF IInv, TornInv, Things, Named, Op

\* A request for another alias, or for none.
LEMMA NamedApart ==
    ASSUME IInv, NEW a \in Callers, Op(a) \in {"add", "delete"}, NEW n, n # req[a].name
    PROVE  ~Named(a, n)
BY DEF Named

LEMMA StartAlias ==
    ASSUME IInv, NEW a \in Callers, Starts(a)
    PROVE  AliasInv'
<1>1. /\ Elsewhere(a) /\ Unasked(a) /\ ~IsOpen(a) /\ New(a, req'[a])
      /\ dom' = dom /\ alias' = alias /\ vm2' = vm2 /\ doubt' = doubt /\ moved' = moved
  BY DEF Starts, RowsKept, HistoryKept
<1>2. \A b \in Callers \ {a} : SameAlias(b)
  BY <1>1, OthersSame
<1>3. \A n : ~Named(a, n)
  BY <1>1, ClosedHasNothing DEF Named
<1>4. ASSUME NEW n \in Names, ~NamedNext(a, n)
      PROVE  AliasNextAt(n)
  <2>1. Untouched(n)
    BY <1>1, <1>2, <1>3, <1>4 DEF Untouched
  <2> QED BY <2>1, UntouchedStays
<1>5. ASSUME NEW n \in Names, NamedNext(a, n)
      PROVE  AliasNextAt(n)
  <2>1. NewAlias(a, req'[a]) /\ req'[a].name = n
    BY <1>1, <1>5 DEF New, NewQuota, NewEdit, NewProvision, NewImport, NamedNext
  <2>2. req'[a].pc = "call"
    BY <2>1 DEF NewAlias
  <2>3. ASSUME ClearNext(n), \A b \in Callers : NamedNext(b, n) => req'[b].pc # "commit"
        PROVE  vm2'.alias[n] = TargetNext(n)
    <3>1. \A b \in Callers : Named(b, n) => req[b].pc # "commit"
      BY <1>2, <1>3, <2>3 DEF SameAlias, NamedNext, Named, Op
    <3>2. vm2.alias[n] = Target(n)
      BY <1>1, <2>3, <3>1, AliasNow DEF ClearNext
    <3> QED BY <1>1, <3>2 DEF TargetNext, Target
  <2>4. ASSUME NEW b \in Callers \ {a}, NamedNext(b, n)
        PROVE  /\ Named(b, n) /\ req[b].torn \subseteq req'[b].torn
               /\ AliasPhase(b, n) => PhaseNext(b, n)
    <3>1. SameAlias(b)
      BY <1>2
    <3> QED BY <1>1, <2>4, <3>1 DEF SameAlias, NamedNext, Named, Op, AliasPhase, PhaseNext,
                                    ClearNext, Clear
  <2>5. PhaseNext(a, n)
    BY <1>1, <1>5, <2>1, <2>2 DEF NewAlias, PhaseNext, NamedNext
  <2>6. \A b \in Callers : NamedNext(b, n) /\ n \notin req'[b].torn => PhaseNext(b, n)
    BY <2>4, <2>5, AliasNow
  <2>7. \A b \in Callers : NamedNext(b, n) /\ req'[b].op = "add" /\ alias'[n] # None => n \in doubt'
    <3>1. ASSUME NEW b \in Callers \ {a}, NamedNext(b, n), req'[b].op = "add", alias'[n] # None
          PROVE  n \in doubt'
      <4>1. SameAlias(b)
        BY <1>2
      <4>2. Named(b, n) /\ Op(b) = "add" /\ alias[n] # None
        BY <1>1, <3>1, <4>1 DEF SameAlias, NamedNext, Named, Op
      <4> QED BY <1>1, <4>2, AliasNow
    <3>2. req'[a].op = "add" => alias'[n] = None
      BY <1>1, <2>1 DEF NewAlias
    <3> QED BY <3>1, <3>2
  <2> QED BY <2>3, <2>6, <2>7 DEF AliasNextAt
<1> QED BY <1>4, <1>5, AliasNext

LEMMA ServeAlias ==
    ASSUME IInv, NEW a \in Callers, NEW i, Serves(a, i) \/ Loses(a, i)
    PROVE  AliasInv'
<1>1. /\ Serving(a, i) /\ req[a].pc = "call" /\ i \in Subjects(req[a])
      /\ dom' = dom /\ alias' = alias /\ moved' = moved
      /\ Elsewhere(a) /\ Unasked(a) /\ \A n \in Names : n \in doubt => n \in doubt'
  BY DEF Serves, Loses, Serving, Goes, Ends, RowsKept
<1>2. \A b \in Callers \ {a} : SameAlias(b)
  BY <1>1, OthersSame
<1>3. \/ req'[a] = Idle /\ Op(a) # "domain" /\ i \in doubt'
      \/ \E ok \in BOOLEAN : req'[a] = Called(req[a], i, ok)
  BY DEF Serves, Loses, Goes, Ends
<1>4. req[a] \in Request
  BY FormIs
<1>5. ASSUME NEW n \in Names, ~Named(a, n)
      PROVE  AliasNextAt(n)
  <2>1. vm2'.alias[n] = vm2.alias[n]
    BY <1>1, <1>5 DEF Serving
  <2>2. ~NamedNext(a, n)
    <3>1. ASSUME NEW ok \in BOOLEAN, req'[a] = Called(req[a], i, ok)
          PROVE  req'[a].op = req[a].op /\ req'[a].name = req[a].name
      <4>1. CalledAt(req[a], i, ok, req'[a])
        BY <1>4, <3>1, CalledIs
      <4> QED BY <4>1 DEF CalledAt
    <3> QED BY <1>3, <1>5, <3>1, IdleIs DEF Named, NamedNext, Op
  <2>3. Untouched(n)
    BY <1>1, <1>2, <1>5, <2>1, <2>2 DEF Untouched
  <2> QED BY <2>3, UntouchedStays
<1>6. ASSUME NEW n \in Names, Named(a, n)
      PROVE  AliasNextAt(n)
  <2>1. Op(a) \in {"add", "delete"} /\ i = n /\ req[a].dest \in Names /\ req[a].dest # None
    BY <1>1, <1>6, AskerIs, DirectoryAssumption DEF Named
  <2>2. vm2'.alias[n] = IF Op(a) = "add" THEN req[a].dest
                        ELSE IF vm2.alias[n] = req[a].dest THEN None ELSE vm2.alias[n]
    BY <1>1, <1>6 DEF Serving
  <2>3. ASSUME NEW b \in Callers \ {a}, NamedNext(b, n)
        PROVE  /\ n \in req'[b].torn
               /\ req'[b].op = "add" /\ alias'[n] # None => n \in doubt'
    <3>1. SameAlias(b)
      BY <1>2
    <3>2. Named(b, n) /\ Op(b) = req'[b].op
      BY <2>3, <3>1 DEF SameAlias, NamedNext, Named, Op
    <3>3. n \in req[b].torn
      BY <1>6, <3>2, NamedAlone
    <3> QED BY <1>1, <3>1, <3>2, <3>3, AliasNow DEF SameAlias
  <2>4. CASE req'[a] = Idle /\ i \in doubt'
    <3>1. ~NamedNext(a, n) /\ ~ClearNext(n)
      BY <2>1, <2>4, IdleIs DEF NamedNext, ClearNext
    <3> QED BY <2>3, <3>1 DEF AliasNextAt
  <2>5. ASSUME NEW ok \in BOOLEAN, req'[a] = Called(req[a], i, ok)
        PROVE  AliasNextAt(n)
    <3>1. CalledAt(req[a], i, ok, req'[a])
      BY <1>4, <2>5, CalledIs
    <3>2. Subjects(req[a]) = {i}
      BY <2>1, <1>6 DEF Subjects, Named, Op
    <3>3. /\ req'[a].pc = "commit" /\ req'[a].op = req[a].op /\ req'[a].name = n
          /\ req'[a].src = req[a].src /\ req'[a].dest = req[a].dest
          /\ req'[a].gone = req[a].gone /\ req'[a].torn = req[a].torn
      BY <1>6, <3>1, <3>2 DEF CalledAt, Named
    <3>4. NamedNext(a, n)
      BY <2>1, <3>3 DEF NamedNext, Op
    <3>5. ASSUME n \notin req[a].torn
          PROVE  PhaseNext(a, n)
      <4>1. AliasPhase(a, n)
        BY <1>6, <3>5, AliasNow
      <4>2. CASE Op(a) = "add"
        BY <1>1, <2>2, <3>3, <4>1, <4>2 DEF AliasPhase, PhaseNext, Op
      <4>3. CASE Op(a) = "delete"
        <5>1. alias[n] = req[a].src /\ ~req[a].gone
              /\ (n \notin moved => dom[req[a].src].dest = req[a].dest)
          BY <4>1, <4>3 DEF AliasPhase
        <5>2. vm2'.alias[n] # req[a].dest
          BY <2>1, <2>2, <4>3
        <5>3. ASSUME ClearNext(n)
              PROVE  vm2'.alias[n] = None
          <6>1. n \notin doubt \cup moved
            BY <1>1, <5>3 DEF ClearNext
          <6>2. \A b \in Callers : Named(b, n) => req[b].pc # "commit"
            BY <1>1, <1>6, <3>5, NamedAlone
          <6>3. vm2.alias[n] = Target(n)
            BY <6>1, <6>2, AliasNow
          <6>4. alias[n] # None
            <7>1. req[a].src \in Sources
              BY <4>3, FormIs DEF FormOf, Op
            <7> QED BY <5>1, <7>1, DirectoryAssumption
          <6>5. vm2.alias[n] = req[a].dest
            BY <5>1, <6>1, <6>3, <6>4 DEF Target
          <6> QED BY <2>2, <4>3, <6>5
        <5> QED BY <1>1, <3>3, <4>3, <5>1, <5>2, <5>3 DEF PhaseNext, Op
      <4> QED BY <2>1, <4>2, <4>3
    <3>6. req'[a].op = "add" /\ alias'[n] # None => n \in doubt'
      BY <1>1, <1>6, <3>3, AliasNow DEF Op
    <3> QED BY <2>3, <3>3, <3>4, <3>5, <3>6 DEF AliasNextAt
  <2> QED BY <1>3, <2>4, <2>5
<1> QED BY <1>5, <1>6, AliasNext

LEMMA AddAliasKeeps ==
    ASSUME IInv, NEW a \in Callers, AddsAlias(a)
    PROVE  AliasInv'
<1>1. /\ Op(a) = "add" /\ req[a].pc = "commit" /\ Elsewhere(a) /\ Unasked(a) /\ req'[a] = Idle
      /\ dom' = dom /\ vm2' = vm2 /\ moved \subseteq moved'
  BY DEF AddsAlias, Ends
<1>2. \A b \in Callers \ {a} : SameAlias(b)
  BY <1>1, OthersSame
<1>3. req[a].name \in Names /\ req[a].src \in Sources /\ req[a].src # None
  BY <1>1, FormIs, DirectoryAssumption DEF FormOf, Op
<1>4. \A n : ~NamedNext(a, n)
  BY <1>1, IdleIs DEF NamedNext
<1>5. Named(a, req[a].name)
  BY <1>1 DEF Named
<1>6. ASSUME NEW n \in Names, n # req[a].name
      PROVE  AliasNextAt(n)
  <2>1. ~Named(a, n)
    BY <1>1, <1>6, NamedApart
  <2>2. alias'[n] = alias[n] /\ (n \in doubt => n \in doubt')
    BY <1>6 DEF AddsAlias, Doubts
  <2>3. Untouched(n)
    BY <1>1, <1>2, <1>4, <2>1, <2>2 DEF Untouched
  <2> QED BY <2>3, UntouchedStays
<1>7. ASSUME NEW n \in Names, n = req[a].name
      PROVE  AliasNextAt(n)
  <2>1. ASSUME NEW b \in Callers, NamedNext(b, n)
        PROVE  b # a /\ Named(b, n) /\ n \in req'[b].torn /\ n \in req[a].torn /\ Op(b) = req'[b].op
    <3>1. b # a
      BY <1>4, <2>1
    <3>2. SameAlias(b)
      BY <1>2, <3>1
    <3>3. Named(b, n) /\ Op(b) = req'[b].op
      BY <2>1, <3>2 DEF SameAlias, NamedNext, Named, Op
    <3>4. n \in req[b].torn /\ n \in req[a].torn
      BY <1>5, <1>7, <3>1, <3>3, NamedAlone
    <3> QED BY <3>1, <3>2, <3>3, <3>4 DEF SameAlias
  <2>2. CASE alias[n] = None
    <3>1. alias'[n] = req[a].src /\ Doubts(a, {n}, {n})
      BY <1>7, <2>2 DEF AddsAlias
    <3>2. n \in req[a].torn => n \in doubt'
      BY <3>1 DEF Doubts
    <3>3. ASSUME ClearNext(n)
          PROVE  vm2'.alias[n] = TargetNext(n)
      <4>1. n \notin req[a].torn /\ dom[req[a].src].dest = req[a].dest
        BY <1>7, <3>2, <3>3 DEF ClearNext, AddsAlias
      <4>2. AliasPhase(a, n)
        BY <1>5, <1>7, <4>1, AliasNow
      <4>3. vm2.alias[n] = req[a].dest
        BY <1>1, <4>2 DEF AliasPhase
      <4> QED BY <1>1, <1>3, <3>1, <4>1, <4>3 DEF TargetNext
    <3> QED BY <2>1, <3>2, <3>3 DEF AliasNextAt
  <2>3. CASE alias[n] # None
    <3>1. doubt' = doubt /\ alias' = alias
      BY <1>7, <2>3 DEF AddsAlias
    <3>2. n \in doubt
      BY <1>1, <1>5, <1>7, <2>3, AliasNow
    <3> QED BY <2>1, <3>1, <3>2 DEF AliasNextAt, ClearNext
  <2> QED BY <2>2, <2>3
<1> QED BY <1>6, <1>7, AliasNext

LEMMA DropAliasKeeps ==
    ASSUME IInv, NEW a \in Callers, DropsAlias(a)
    PROVE  AliasInv'
<1>1. /\ Op(a) = "delete" /\ req[a].pc = "commit" /\ Elsewhere(a) /\ req'[a] = Idle
      /\ dom' = dom /\ vm2' = vm2 /\ moved' = moved
      /\ Doubts(a, IF vm2.alias[req[a].name] \in {None, req[a].dest} THEN {req[a].name} ELSE {},
                {req[a].name})
  BY DEF DropsAlias
<1>2. req[a].name \in Names
  BY <1>1, FormIs DEF FormOf, Op
<1>3. \A n : ~NamedNext(a, n)
  BY <1>1, IdleIs DEF NamedNext
<1>4. Named(a, req[a].name)
  BY <1>1 DEF Named
<1>5. ASSUME NEW b \in Callers \ {a}
      PROVE  /\ req'[b].op = req[b].op /\ req'[b].name = req[b].name
             /\ req[b].torn \subseteq req'[b].torn
             /\ SameAlias(b) \/ req[b].name = req[a].name
  <2>1. Alike(req[b], req'[b]) /\ req[b].torn \subseteq req'[b].torn
    BY <1>1 DEF Elsewhere
  <2>2. req'[b].gone = req[b].gone \/ req[b].name = req[a].name
    BY DEF DropsAlias
  <2> QED BY <2>1, <2>2 DEF Alike, SameAlias
<1>6. ASSUME NEW n \in Names, n # req[a].name
      PROVE  AliasNextAt(n)
  <2>1. ~Named(a, n)
    BY <1>1, <1>6, NamedApart
  <2>2. alias'[n] = alias[n]
    BY <1>6 DEF DropsAlias
  <2>3. n \in doubt => n \in doubt'
    BY <1>1, <1>6 DEF Doubts
  <2>4. ASSUME NEW b \in Callers \ {a}, ~SameAlias(b)
        PROVE  ~NamedNext(b, n) /\ ~Named(b, n)
    BY <1>5, <1>6, <2>4 DEF NamedNext, Named
  <2>5. Untouched(n)
    BY <1>1, <1>3, <2>1, <2>2, <2>3, <2>4 DEF Untouched
  <2> QED BY <2>5, UntouchedStays
<1>7. ASSUME NEW n \in Names, n = req[a].name
      PROVE  AliasNextAt(n)
  <2>1. ASSUME NEW b \in Callers, NamedNext(b, n)
        PROVE  n \in req'[b].torn /\ n \in req[a].torn
    <3>1. b # a
      BY <1>3, <2>1
    <3>2. Named(b, n)
      BY <1>5, <2>1, <3>1 DEF NamedNext, Named, Op
    <3>3. n \in req[b].torn /\ n \in req[a].torn
      BY <1>4, <1>7, <3>1, <3>2, NamedAlone
    <3> QED BY <1>5, <3>1, <3>3
  <2>2. n \in req[a].torn => n \in doubt'
    BY <1>1, <1>7 DEF Doubts
  <2>3. ASSUME ClearNext(n)
        PROVE  vm2'.alias[n] = TargetNext(n)
    <3>1. n \notin req[a].torn /\ n \notin doubt' /\ n \notin moved
      BY <1>1, <2>2, <2>3 DEF ClearNext
    <3>2. AliasPhase(a, n)
      BY <1>4, <1>7, <3>1, AliasNow
    <3>3. /\ ~req[a].gone /\ vm2.alias[n] # req[a].dest
          /\ n \notin doubt => vm2.alias[n] = None
      BY <1>1, <3>1, <3>2 DEF AliasPhase, Clear
    <3>4. alias'[n] = None
      BY <1>7, <3>3 DEF DropsAlias
    <3>5. ASSUME n \in doubt
          PROVE  vm2.alias[n] = None
      BY <1>1, <1>7, <3>1, <3>3, <3>5 DEF Doubts
    <3> QED BY <1>1, <3>3, <3>4, <3>5 DEF TargetNext
  <2> QED BY <2>1, <2>2, <2>3 DEF AliasNextAt
<1> QED BY <1>6, <1>7, AliasNext

\* The other steps leave the aliases alone.
LEMMA AliasFrame ==
    ASSUME IInv, alias' = alias, vm2' = vm2, moved \subseteq moved',
           \A n \in Names : n \in doubt => n \in doubt',
           \A n \in Names \ moved' : alias[n] # None => dom'[alias[n]].dest = dom[alias[n]].dest,
           \A b \in Callers : \/ SameAlias(b)
                              \/ /\ req'[b].op \notin {"add", "delete"}
                                 /\ Op(b) \in {"add", "delete"} => req[b].pc # "commit"
    PROVE  AliasInv'
<1>1. ASSUME NEW n \in Names
      PROVE  Untouched(n)
  BY <1>1 DEF Untouched, NamedNext, Named
<1> QED BY <1>1, UntouchedStays, AliasNext

\* A request that ends without a commit: an alias VM2 was told about is in doubt.
LEMMA DropsKeep ==
    ASSUME IInv, NEW a \in Callers, Drops(a)
    PROVE  AliasInv'
<1>1. /\ Elsewhere(a) /\ Unasked(a) /\ req'[a].op = "none" /\ doubt' = doubt \cup Told(req[a])
      /\ alias' = alias /\ dom' = dom /\ vm2' = vm2 /\ moved' = moved
  BY IdleIs DEF Drops, Ends, RowsKept
<1>2. \A b \in Callers \ {a} : SameAlias(b)
  BY <1>1, OthersSame
<1>3. CASE ~(Op(a) \in {"add", "delete"} /\ req[a].pc = "commit")
  BY <1>1, <1>2, <1>3, AliasFrame
<1>4. CASE Op(a) \in {"add", "delete"} /\ req[a].pc = "commit"
  <2>1. req[a].name \in doubt'
    BY <1>1, <1>4 DEF Told, Op
  <2>2. \A n : ~NamedNext(a, n)
    BY <1>1 DEF NamedNext
  <2>3. ASSUME NEW n \in Names, n # req[a].name
        PROVE  AliasNextAt(n)
    <3>1. ~Named(a, n)
      BY <2>3 DEF Named
    <3>2. Untouched(n)
      BY <1>1, <1>2, <2>2, <3>1 DEF Untouched
    <3> QED BY <3>2, UntouchedStays
  <2>4. ASSUME NEW n \in Names, n = req[a].name
        PROVE  AliasNextAt(n)
    <3>1. ASSUME NEW b \in Callers, NamedNext(b, n)
          PROVE  n \in req'[b].torn
      <4>1. b # a /\ SameAlias(b)
        BY <1>2, <2>2, <3>1
      <4>2. Named(a, n) /\ Named(b, n)
        BY <1>4, <2>4, <3>1, <4>1 DEF SameAlias, NamedNext, Named, Op
      <4>3. n \in req[b].torn
        BY <4>1, <4>2, NamedAlone
      <4> QED BY <4>1, <4>3 DEF SameAlias
    <3> QED BY <2>1, <2>4, <3>1 DEF AliasNextAt, ClearNext
  <2> QED BY <2>3, <2>4, AliasNext
<1> QED BY <1>3, <1>4

LEMMA AliasStep ==
    ASSUME IInv, Kinds
    PROVE  AliasInv'
<1>1. \A a \in Callers : FormOf(a, req[a]) /\ DOMAIN mail \cap Names = {}
                         /\ req[a].done \cup req[a].here \subseteq DOMAIN mail /\ req[a] \in Request
  BY FormIs
<1>2. CASE Uploads
  <2>1. \A b \in Callers : SameAlias(b)
    BY <1>2 DEF Uploads, SameAlias
  <2> QED BY <1>2, <2>1, AliasFrame DEF Uploads, HistoryKept
\* A request that is not about an alias ends, or one that has nothing on VM2 yet.
<1>3. ASSUME NEW a \in Callers, Ends(a), Op(a) \in {"add", "delete"} => req[a].pc # "commit"
      PROVE  \A b \in Callers : \/ SameAlias(b)
                                \/ /\ req'[b].op \notin {"add", "delete"}
                                   /\ Op(b) \in {"add", "delete"} => req[b].pc # "commit"
  <2>1. req'[a].op = "none"
    BY <1>3, IdleIs DEF Ends
  <2> QED BY <1>3, <2>1, OthersSame DEF Ends
<1>4. CASE Activates
  <2>1. Op(Worker) = "provision" /\ Ends(Worker)
    BY <1>4 DEF Activates
  <2>2. \A n \in Names : n \in doubt => n \in doubt'
    BY <1>4 DEF Activates, Doubts
  <2> QED BY <1>3, <1>4, <2>1, <2>2, CallersAre, AliasFrame DEF Activates
<1>5. ASSUME NEW a \in Callers, Calling(a)
      PROVE  AliasInv'
  <2>1. CASE Drops(a)
    BY <2>1, DropsKeep
  <2>2. ASSUME NEW i, Skips(a, i)
        PROVE  AliasInv'
    <3>1. Op(a) = "domain" /\ req'[a] = Called(req[a], i, FALSE) /\ Elsewhere(a) /\ Unasked(a)
      BY <2>2 DEF Skips, Goes
    <3>2. CalledAt(req[a], i, FALSE, req'[a])
      BY <1>1, <3>1, CalledIs
    <3>3. req'[a].op = "domain"
      BY <3>1, <3>2 DEF CalledAt, Op
    <3>4. \A b \in Callers \ {a} : SameAlias(b)
      BY <3>1, OthersSame
    <3> QED BY <2>2, <3>1, <3>3, <3>4, AliasFrame DEF Skips, RowsKept, HistoryKept
  <2> QED BY <1>5, <2>1, <2>2, ServeAlias DEF Calling
<1>6. ASSUME NEW a \in Callers, ResizesBox(a) \/ EditsDomain(a)
      PROVE  AliasInv'
  <2>1. Op(a) \in {"quota", "domain"} /\ Ends(a)
    BY <1>6 DEF ResizesBox, EditsDomain
  <2>2. \A n \in Names : n \in doubt => n \in doubt'
    <3>1. req[a].done \cap Names = {}
      BY <1>1
    <3> QED BY <1>6, <3>1 DEF ResizesBox, EditsDomain, Doubts
  <2>3. alias' = alias /\ vm2' = vm2 /\ moved \subseteq moved'
        /\ \A n \in Names \ moved' : alias[n] # None => dom'[alias[n]].dest = dom[alias[n]].dest
    BY <1>6 DEF ResizesBox, EditsDomain
  <2> QED BY <1>3, <2>1, <2>2, <2>3, AliasFrame
<1>7. ASSUME NEW a \in Callers, CommitsImport(a)
      PROVE  AliasInv'
  <2>1. Op(a) = "import" /\ Ends(a)
    BY <1>7 DEF CommitsImport
  <2>2. \A n \in Names : alias[n] # None => dom'[alias[n]].dest = dom[alias[n]].dest
    <3>1. ASSUME NEW n \in Names, alias[n] # None
          PROVE  alias[n] \in Sources /\ alias[n] \notin req[a].opens
      BY <3>1, TablesAre DEF IInv, OpensInv, Known
    <3> QED BY <1>7, <3>1 DEF CommitsImport
  <2> QED BY <1>3, <1>7, <2>1, <2>2, AliasFrame DEF CommitsImport, HistoryKept
<1>8. ASSUME NEW a \in Callers, NEW s \in Sources, NEW u \in Users, LooksUp(a, s, u) \/ Adds(a, s, u)
      PROVE  AliasInv'
  <2>1. /\ Elsewhere(a) /\ Unasked(a) /\ Keeps(req[a], req'[a]) /\ req[a].pc \in {"look", "insert"}
        /\ RowsKept /\ vm2' = vm2 /\ doubt' = doubt /\ moved' = moved
    BY <1>8 DEF LooksUp, Adds, HistoryKept
  <2>2. Op(a) \notin {"add", "delete"}
    BY <1>1, <2>1 DEF FormOf, Op
  <2>3. req'[a].op = Op(a)
    BY <2>1 DEF Keeps, Op
  <2>4. \A b \in Callers \ {a} : SameAlias(b)
    BY <2>1, OthersSame
  <2> QED BY <2>1, <2>2, <2>3, <2>4, AliasFrame DEF RowsKept
<1> QED BY <1>2, <1>4, <1>5, <1>6, <1>7, <1>8, StartAlias, AddAliasKeeps, DropAliasKeeps, CallersAre
        DEF Kinds, Committing, Importing

-----------------------------------------------------------------------------
(* The mailboxes. *)

\* MailboxInv, QuotaInv and WorkerInv after the step, mailbox by mailbox.
SoleNext(i, d) == \A j \in DOMAIN mail' \ {i} : mail'[j].user = mail'[i].user => <<j, d>> \notin made'
SlotsNext ==
    \A d \in Names, u \in Users : vm2'.box[d, u] # None =>
       \E i \in DOMAIN mail' : mail'[i].user = u /\ <<i, d>> \in made'
StandsNext(i) ==
    /\ /\ mail'[i].st # "pending" /\ i \notin doubt' /\ SoleNext(i, mail'[i].at)
       /\ \A b \in Callers : ~(req'[b].op \in {"quota", "domain"} /\ i \in req'[b].done)
       => vm2'.box[mail'[i].at, mail'[i].user] = mail'[i].quota
    /\ mail'[i].st = "pending" /\ i \notin doubt' /\ i \notin req'[Worker].done =>
          \A d \in Names : <<i, d>> \notin made'
SentNext(b, i) ==
    /\ req'[b].op \in {"quota", "domain"} /\ i \in req'[b].todo \cup req'[b].done =>
          mail'[i].st # "pending"
    /\ req'[b].op \in {"quota", "domain"} /\ i \in req'[b].done \ req'[b].torn
          /\ SoleNext(i, mail'[i].at) =>
          vm2'.box[mail'[i].at, mail'[i].user] = req'[b].quota
    /\ i \in req'[b].here \ req'[b].torn => mail'[i].st = "pending"
WorkedNext(i) ==
    i \in req'[Worker].todo \cup req'[Worker].done =>
       /\ mail'[i].st = "pending"
       /\ i \notin req'[Worker].torn => req'[Worker].quota = mail'[i].quota
       /\ i \in req'[Worker].done => <<i, req'[Worker].dest>> \in made'
       /\ /\ i \in req'[Worker].done \ req'[Worker].torn /\ i \notin doubt'
          /\ SoleNext(i, req'[Worker].dest)
          => vm2'.box[req'[Worker].dest, mail'[i].user] = req'[Worker].quota
HeldNext(b, i) == SentNext(b, i) /\ (b = Worker => WorkedNext(i))
MailNextAt(i) == StandsNext(i) /\ \A b \in Callers : HeldNext(b, i)

LEMMA MailboxNext ==
    ASSUME SlotsNext, \A i \in DOMAIN mail' : StandsNext(i)
    PROVE  MailboxInv'
BY DEF MailboxInv, SlotsNext, StandsNext, SoleNext, SoleAt, QuotaOpen, Pending, Op

LEMMA QuotaNext ==
    ASSUME \A i \in DOMAIN mail' : \A b \in Callers : SentNext(b, i),
           \A b \in Callers : req'[b].here \subseteq DOMAIN mail'
    PROVE  QuotaInv'
<1>1. \A b \in Callers, i \in DOMAIN mail' :
         req'[b].op \in {"quota", "domain"} /\ i \in req'[b].todo \cup req'[b].done => mail'[i].st # "pending"
  BY DEF SentNext
<1>2. \A b \in Callers, i \in DOMAIN mail' :
         req'[b].op \in {"quota", "domain"} /\ i \in req'[b].done \ req'[b].torn
            /\ SoleNext(i, mail'[i].at) => vm2'.box[mail'[i].at, mail'[i].user] = req'[b].quota
  BY DEF SentNext
<1>3. \A b \in Callers, i \in DOMAIN mail' :
         i \in req'[b].here \ req'[b].torn => mail'[i].st = "pending"
  BY DEF SentNext
<1> QED BY <1>1, <1>2, <1>3 DEF QuotaInv, SoleNext, SoleAt, Sends, Pending, Op

LEMMA WorkerNext ==
    ASSUME \A i \in DOMAIN mail' : WorkedNext(i),
           req'[Worker].todo \cup req'[Worker].done \subseteq DOMAIN mail'
    PROVE  WorkerInv'
<1>1. \A i \in req'[Worker].todo \cup req'[Worker].done : i \in DOMAIN mail' /\ WorkedNext(i)
  OBVIOUS
<1> QED BY <1>1 DEF WorkerInv, WorkedNext, SoleNext, SoleAt, Pending

\* The same before the step.
LEMMA MailNow ==
    ASSUME IInv, NEW i \in DOMAIN mail
    PROVE  /\ /\ mail[i].st # "pending" /\ i \notin doubt /\ SoleAt(i, mail[i].at)
              /\ \A b \in Callers : ~(req[b].op \in {"quota", "domain"} /\ i \in req[b].done)
              => vm2.box[mail[i].at, mail[i].user] = mail[i].quota
           /\ mail[i].st = "pending" /\ i \notin doubt /\ i \notin req[Worker].done =>
                 \A d \in Names : <<i, d>> \notin made
           /\ mail[i].st # "pending" => mail[i].at \in Names /\ <<i, mail[i].at>> \in made
           /\ mail[i].user \in Users
<1>1. mail[i] \in Mailbox
  BY TablesAre
<1>2. mail[i].st # "pending" => mail[i].at \in Names /\ <<i, mail[i].at>> \in made
  BY <1>1, TablesAre DEF Mailbox
<1> QED BY <1>1, <1>2 DEF IInv, MailboxInv, QuotaOpen, Pending, Op, Mailbox

LEMMA HeldNow ==
    ASSUME IInv, NEW i \in DOMAIN mail, NEW b \in Callers
    PROVE  /\ req[b].op \in {"quota", "domain"} /\ i \in req[b].todo \cup req[b].done =>
                 mail[i].st # "pending"
           /\ req[b].op \in {"quota", "domain"} /\ i \in req[b].done \ req[b].torn
                 /\ SoleAt(i, mail[i].at) => vm2.box[mail[i].at, mail[i].user] = req[b].quota
           /\ i \in req[b].here \ req[b].torn => mail[i].st = "pending"
BY DEF IInv, QuotaInv, Sends, Pending, Op

LEMMA WorkerNow ==
    ASSUME IInv, NEW i \in req[Worker].todo \cup req[Worker].done
    PROVE  /\ i \in DOMAIN mail /\ mail[i].st = "pending"
           /\ i \notin req[Worker].torn => req[Worker].quota = mail[i].quota
           /\ i \in req[Worker].done => <<i, req[Worker].dest>> \in made
           /\ /\ i \in req[Worker].done \ req[Worker].torn /\ i \notin doubt
              /\ SoleAt(i, req[Worker].dest)
              => vm2.box[req[Worker].dest, mail[i].user] = req[Worker].quota
           /\ req[Worker].dest \in Names
<1>1. i \in DOMAIN mail /\ FormOf(Worker, req[Worker])
  BY CallersAre, FormIs
<1>2. req[Worker].op = "provision"
  BY <1>1, CallersAre, FormIs, RequestIs DEF FormOf
<1> QED BY <1>1, <1>2 DEF IInv, WorkerInv, Pending, FormOf

\* A mailbox that is the only one of an address was so before.
LEMMA SoleWas ==
    ASSUME IInv, Kinds, NEW i \in DOMAIN mail, NEW d, SoleNext(i, d)
    PROVE  SoleAt(i, d)
<1>1. MailGrows /\ made \subseteq made'
  BY KindsGrow, KindsMake
<1> QED BY <1>1 DEF MailGrows, SoleNext, SoleAt

\* A row that is left alone, and VM2's copy of it.
Calm(i) ==
    /\ mail'[i].user = mail[i].user /\ mail'[i].st = mail[i].st
    /\ mail'[i].at = mail[i].at /\ mail'[i].quota = mail[i].quota
    /\ i \in doubt => i \in doubt'
    /\ \A d \in Names : SoleNext(i, d) => vm2'.box[d, mail[i].user] = vm2.box[d, mail[i].user]
    /\ \A d \in Names : <<i, d>> \in made' => <<i, d>> \in made
SameDone(b, i) == i \in req[b].done => i \in req'[b].done /\ req'[b].op = req[b].op
SameHeld(b, i) ==
    \/ /\ req'[b].op = req[b].op /\ req'[b].dest = req[b].dest /\ req'[b].quota = req[b].quota
       /\ i \in req'[b].todo => i \in req[b].todo
       /\ i \in req'[b].done <=> i \in req[b].done
       /\ i \in req'[b].here => i \in req[b].here
       /\ i \in req[b].torn => i \in req'[b].torn
    \/ i \notin req'[b].todo \cup req'[b].done \cup req'[b].here \cup req[b].done

LEMMA SameHeldDone == \A b, i : SameHeld(b, i) => SameDone(b, i)
BY DEF SameHeld, SameDone

LEMMA CalmStands ==
    ASSUME IInv, Kinds, NEW i \in DOMAIN mail, Calm(i), \A b \in Callers : SameDone(b, i)
    PROVE  StandsNext(i)
<1>1. ASSUME mail'[i].st # "pending", i \notin doubt', SoleNext(i, mail'[i].at),
             \A b \in Callers : ~(req'[b].op \in {"quota", "domain"} /\ i \in req'[b].done)
      PROVE  vm2'.box[mail'[i].at, mail'[i].user] = mail'[i].quota
  <2>1. \A b \in Callers : ~(req[b].op \in {"quota", "domain"} /\ i \in req[b].done)
    BY <1>1 DEF SameDone
  <2>2. mail[i].st # "pending" /\ i \notin doubt /\ SoleAt(i, mail[i].at)
    BY <1>1, SoleWas DEF Calm
  <2>3. vm2.box[mail[i].at, mail[i].user] = mail[i].quota /\ mail[i].at \in Names
    BY <2>1, <2>2, MailNow
  <2> QED BY <1>1, <2>3 DEF Calm
<1>2. ASSUME mail'[i].st = "pending", i \notin doubt', i \notin req'[Worker].done
      PROVE  \A d \in Names : <<i, d>> \notin made'
  <2>1. mail[i].st = "pending" /\ i \notin doubt /\ i \notin req[Worker].done
    BY <1>2, CallersAre DEF Calm, SameDone
  <2> QED BY <2>1, MailNow DEF Calm
<1> QED BY <1>1, <1>2 DEF StandsNext

LEMMA CalmHeld ==
    ASSUME IInv, Kinds, NEW i \in DOMAIN mail, Calm(i), NEW b \in Callers, SameHeld(b, i)
    PROVE  HeldNext(b, i)
<1>1. CASE i \notin req'[b].todo \cup req'[b].done \cup req'[b].here
  BY <1>1 DEF HeldNext, SentNext, WorkedNext
<1>2. ASSUME req'[b].op = req[b].op, req'[b].dest = req[b].dest, req'[b].quota = req[b].quota,
             i \in req'[b].todo => i \in req[b].todo, i \in req'[b].done <=> i \in req[b].done,
             i \in req'[b].here => i \in req[b].here, i \in req[b].torn => i \in req'[b].torn
      PROVE  HeldNext(b, i)
  <2>1. SentNext(b, i)
    <3>1. req'[b].op \in {"quota", "domain"} /\ i \in req'[b].todo \cup req'[b].done =>
             mail'[i].st # "pending"
      BY <1>2, HeldNow DEF Calm
    <3>2. ASSUME req'[b].op \in {"quota", "domain"}, i \in req'[b].done \ req'[b].torn,
                 SoleNext(i, mail'[i].at)
          PROVE  vm2'.box[mail'[i].at, mail'[i].user] = req'[b].quota
      <4>1. mail[i].st # "pending" /\ SoleAt(i, mail[i].at)
        BY <1>2, <3>2, HeldNow, SoleWas DEF Calm
      <4>2. vm2.box[mail[i].at, mail[i].user] = req[b].quota /\ mail[i].at \in Names
        BY <1>2, <3>2, <4>1, HeldNow, MailNow
      <4> QED BY <1>2, <3>2, <4>2 DEF Calm
    <3>3. i \in req'[b].here \ req'[b].torn => mail'[i].st = "pending"
      BY <1>2, HeldNow DEF Calm
    <3> QED BY <3>1, <3>2, <3>3 DEF SentNext
  <2>2. ASSUME b = Worker, i \in req'[Worker].todo \cup req'[Worker].done
        PROVE  WorkedNext(i)
    <3>1. i \in req[Worker].todo \cup req[Worker].done /\ made \subseteq made'
      BY <1>2, <2>2, KindsMake
    <3>2. /\ mail'[i].st = "pending"
          /\ i \notin req'[Worker].torn => req'[Worker].quota = mail'[i].quota
          /\ i \in req'[Worker].done => <<i, req'[Worker].dest>> \in made'
      BY <1>2, <2>2, <3>1, WorkerNow DEF Calm
    <3>3. ASSUME i \in req'[Worker].done \ req'[Worker].torn, i \notin doubt',
                 SoleNext(i, req'[Worker].dest)
          PROVE  vm2'.box[req'[Worker].dest, mail'[i].user] = req'[Worker].quota
      <4>1. SoleAt(i, req[Worker].dest) /\ i \notin doubt /\ i \in req[Worker].done \ req[Worker].torn
        BY <1>2, <2>2, <3>3, SoleWas DEF Calm
      <4>2. vm2.box[req[Worker].dest, mail[i].user] = req[Worker].quota /\ req[Worker].dest \in Names
        BY <3>1, <4>1, WorkerNow
      <4> QED BY <1>2, <2>2, <3>3, <4>2 DEF Calm
    <3> QED BY <3>2, <3>3 DEF WorkedNext
  <2>3. b = Worker => WorkedNext(i)
    BY <2>2 DEF WorkedNext
  <2> QED BY <2>1, <2>3 DEF HeldNext
<1> QED BY <1>1, <1>2 DEF SameHeld

LEMMA CalmStays ==
    ASSUME IInv, Kinds, NEW i \in DOMAIN mail, Calm(i), \A b \in Callers : SameHeld(b, i)
    PROVE  MailNextAt(i)
BY SameHeldDone, CalmStands, CalmHeld DEF MailNextAt

LEMMA OthersHeld ==
    ASSUME NEW a, Elsewhere(a)
    PROVE  \A b \in Callers \ {a} : \A i : SameHeld(b, i)
BY DEF Elsewhere, Alike, SameHeld

\* A mailbox another request handles too is torn.
LEMMA HeldTorn ==
    ASSUME IInv, Kinds, NEW i \in DOMAIN mail, NEW a \in Callers, Elsewhere(a),
           i \in req[a].todo \cup req[a].done \cup req[a].here, NEW b \in Callers, b # a,
           mail'[i].st = mail[i].st \/ (mail'[i].st # "pending" /\ b # Worker)
    PROVE  HeldNext(b, i)
<1>1. Alike(req[b], req'[b]) /\ req[b].torn \subseteq req'[b].torn /\ made \subseteq made'
  BY KindsMake DEF Elsewhere
<1>2. i \in req[b].todo \cup req[b].done \cup req[b].here => i \in req[b].torn
  BY DEF IInv, TornInv, Things
<1>3. req'[b].todo = req[b].todo /\ req'[b].done = req[b].done /\ req'[b].here = req[b].here
      /\ req'[b].op = req[b].op /\ req'[b].dest = req[b].dest
  BY <1>1 DEF Alike
<1>4. SentNext(b, i)
  BY <1>1, <1>2, <1>3, HeldNow DEF SentNext
<1>5. b = Worker => WorkedNext(i)
  BY <1>1, <1>2, <1>3, WorkerNow DEF WorkedNext
<1> QED BY <1>4, <1>5 DEF HeldNext

LEMMA IdleHolds ==
    ASSUME NEW a, NEW i, req'[a] = Idle
    PROVE  HeldNext(a, i)
BY IdleIs DEF HeldNext, SentNext, WorkedNext

LEMMA SlotsStep ==
    ASSUME IInv, Kinds
    PROVE  SlotsNext
<1>1. MailGrows /\ made \subseteq made'
  BY KindsGrow, KindsMake
<1>2. \A d \in Names, u \in Users : vm2.box[d, u] # None =>
         \E i \in DOMAIN mail' : mail'[i].user = u /\ <<i, d>> \in made'
  BY <1>1 DEF IInv, MailboxInv, MailGrows
<1>3. CASE vm2' = vm2
  BY <1>2, <1>3 DEF SlotsNext
<1>4. ASSUME NEW a \in Callers, NEW i, Serving(a, i)
      PROVE  SlotsNext
  <2>1. req[a].pc = "call" /\ i \in Subjects(req[a]) /\ made' = MadeBy(req[a], i)
    BY <1>4 DEF Serving
  <2>2. ASSUME NEW d \in Names, NEW u \in Users, vm2'.box[d, u] # None
        PROVE  \E k \in DOMAIN mail' : mail'[k].user = u /\ <<k, d>> \in made'
    <3>1. CASE vm2'.box[d, u] = vm2.box[d, u]
      BY <1>2, <2>2, <3>1
    <3>2. CASE Op(a) \in {"quota", "domain"} /\ d = mail[i].at /\ u = mail[i].user
      <4>1. i \in DOMAIN mail /\ mail[i].st # "pending"
        BY <2>1, <3>2, AskerIs DEF Pending
      <4>2. <<i, mail[i].at>> \in made
        BY <4>1, MailNow
      <4> QED BY <1>1, <3>2, <4>1, <4>2 DEF MailGrows
    <3>3. CASE Op(a) = "provision" /\ d = req[a].dest /\ u = mail[i].user
      <4>1. i \in DOMAIN mail /\ <<i, req[a].dest>> \in made'
        BY <2>1, <3>3, AskerIs DEF MadeBy, Op
      <4> QED BY <1>1, <3>3, <4>1 DEF MailGrows
    <3> QED BY <1>4, <3>1, <3>2, <3>3 DEF Serving
  <2> QED BY <2>2 DEF SlotsNext
<1>5. ASSUME NEW a \in Callers, Calling(a)
      PROVE  vm2' = vm2 \/ \E i : Serving(a, i)
  BY <1>5 DEF Calling, Drops, Serves, Skips, Loses
<1>6. ASSUME NEW a \in Callers, Starts(a) \/ Committing(a) \/ Importing(a)
      PROVE  vm2' = vm2
  BY <1>6 DEF Starts, Committing, Importing, AddsAlias, DropsAlias, ResizesBox, EditsDomain,
              LooksUp, Adds, CommitsImport
<1>7. CASE Uploads \/ Activates
  BY <1>3, <1>7 DEF Uploads, Activates
<1> QED BY <1>3, <1>4, <1>5, <1>6, <1>7, CallersAre DEF Kinds

\* A step that leaves the mailboxes, VM2's copies and what it was made to have.
LEMMA MailFrame ==
    ASSUME IInv, Kinds, mail' = mail, made' = made,
           \A d \in Names, u \in Users : vm2'.box[d, u] = vm2.box[d, u],
           \A i \in DOMAIN mail : i \in doubt => i \in doubt'
    PROVE  \A i \in DOMAIN mail : Calm(i)
<1>1. ASSUME NEW i \in DOMAIN mail
      PROVE  Calm(i)
  <2>1. mail[i].user \in Users
    BY MailNow
  <2> QED BY <2>1 DEF Calm
<1> QED BY <1>1

LEMMA StartMail ==
    ASSUME IInv, Kinds, NEW a \in Callers, Starts(a)
    PROVE  \A i \in DOMAIN mail' : MailNextAt(i)
<1>1. /\ Elsewhere(a) /\ ~IsOpen(a) /\ New(a, req'[a]) /\ req'[a].done = {}
      /\ mail' = mail /\ vm2' = vm2 /\ made' = made /\ doubt' = doubt
  BY DEF Starts, RowsKept, HistoryKept, New
<1>2. \A i \in DOMAIN mail : Calm(i)
  BY <1>1, MailFrame
<1>3. req[a].done = {}
  BY <1>1, ClosedHasNothing
<1>4. ASSUME NEW i \in DOMAIN mail
      PROVE  MailNextAt(i)
  <2>1. \A b \in Callers \ {a} : SameHeld(b, i)
    BY <1>1, OthersHeld
  <2>2. \A b \in Callers : SameDone(b, i)
    BY <1>3, <2>1, SameHeldDone DEF SameDone
  <2>3. \A b \in Callers \ {a} : HeldNext(b, i)
    BY <1>2, <2>1, CalmHeld
  <2>4. mail[i].st = "pending" <=> mail[i].at = None
    BY TablesAre
  <2>5. HeldNext(a, i)
    <3>1. CASE i \notin req'[a].todo \cup req'[a].here
      BY <1>1, <3>1 DEF HeldNext, SentNext, WorkedNext
    <3>2. CASE NewAlias(a, req'[a]) \/ NewImport(a, req'[a])
      BY <3>1, <3>2 DEF NewAlias, NewImport
    <3>3. CASE NewQuota(a, req'[a]) \/ NewEdit(a, req'[a])
      <4>1. a # Worker
        BY <3>3, CallersAre DEF NewQuota, NewEdit
      <4>2. /\ i \in req'[a].todo => mail[i].at # None
            /\ i \in req'[a].here => mail[i].at = None
        BY <3>3 DEF NewQuota, NewEdit
      <4> QED BY <1>1, <2>4, <4>1, <4>2 DEF HeldNext, SentNext
    <3>4. CASE NewProvision(a, req'[a])
      <4>1. /\ req'[a].op = "provision" /\ req'[a].here = {} /\ a = Worker
            /\ i \in req'[a].todo => mail[i].st = "pending" /\ req'[a].quota = mail[i].quota
        BY <3>4 DEF NewProvision, Pending
      <4> QED BY <1>1, <4>1 DEF HeldNext, SentNext, WorkedNext
    <3> QED BY <1>1, <3>2, <3>3, <3>4 DEF New
  <2>6. StandsNext(i)
    BY <1>2, <2>2, CalmStands
  <2> QED BY <2>3, <2>5, <2>6 DEF MailNextAt
<1> QED BY <1>1, <1>4

\* A call about an alias.
LEMMA ServeNoMail ==
    ASSUME IInv, Kinds, NEW a \in Callers, NEW k, Serves(a, k) \/ Loses(a, k),
           Op(a) \in {"add", "delete"}
    PROVE  \A i \in DOMAIN mail' : MailNextAt(i)
<1>1. /\ Serving(a, k) /\ Elsewhere(a) /\ mail' = mail
      /\ \A i \in DOMAIN mail : i \in doubt => i \in doubt'
  BY DEF Serves, Loses, Goes, Ends, RowsKept
<1>2. /\ \A d \in Names, u \in Users : vm2'.box[d, u] = vm2.box[d, u]
      /\ made' = made
  BY <1>1 DEF Serving, MadeBy, Op
<1>3. \A i \in DOMAIN mail : Calm(i)
  BY <1>1, <1>2, MailFrame
<1>4. req[a].done = {} /\ req[a].todo = {} /\ req[a].here = {} /\ req[a] \in Request
  BY FormIs DEF FormOf, Op
<1>5. req'[a].done = {} /\ req'[a].todo = {} /\ req'[a].here = {}
  <2>1. CASE req'[a] = Idle
    BY <2>1, IdleIs
  <2>2. ASSUME NEW ok \in BOOLEAN, req'[a] = Called(req[a], k, ok)
        PROVE  req'[a].done = {} /\ req'[a].todo = {} /\ req'[a].here = {}
    <3>1. CalledAt(req[a], k, ok, req'[a])
      BY <1>4, <2>2, CalledIs
    <3> QED BY <1>4, <3>1 DEF CalledAt
  <2> QED BY <2>1, <2>2 DEF Serves, Loses, Goes, Ends
<1>6. ASSUME NEW i \in DOMAIN mail
      PROVE  MailNextAt(i)
  <2>1. \A b \in Callers : SameHeld(b, i)
    BY <1>1, <1>4, <1>5, OthersHeld DEF SameHeld
  <2> QED BY <1>3, <2>1, CalmStays
<1> QED BY <1>1, <1>6

\* A call that sets the quota of a mailbox VM2 has.
LEMMA ServeQuota ==
    ASSUME IInv, Kinds, NEW a \in Callers, NEW k, Serves(a, k) \/ Loses(a, k),
           Op(a) \in {"quota", "domain"}
    PROVE  \A i \in DOMAIN mail' : MailNextAt(i)
<1>1. /\ Serving(a, k) /\ Elsewhere(a) /\ mail' = mail /\ req[a].pc = "call" /\ k \in Subjects(req[a])
      /\ \A i : i \in doubt => i \in doubt'
  BY DEF Serves, Loses, Serving, Goes, Ends, RowsKept
<1>2. /\ k \in req[a].todo /\ k \in DOMAIN mail /\ mail[k].st # "pending" /\ mail[k].at \in Names
      /\ <<k, mail[k].at>> \in made /\ mail[k].user \in Users
  <2>1. k \in req[a].todo /\ k \in DOMAIN mail /\ ~Pending(k)
    BY <1>1, AskerIs
  <2> QED BY <2>1, MailNow DEF Pending
<1>3. /\ made' = made
      /\ \A d \in Names, u \in Users : vm2'.box[d, u] =
            IF d = mail[k].at /\ u = mail[k].user THEN req[a].quota ELSE vm2.box[d, u]
  BY <1>1 DEF Serving, MadeBy, Op
<1>4. a # Worker
  BY FormIs DEF FormOf, Op
<1>5. /\ req'[a].op = "none" \/ (req'[a].op = req[a].op /\ req'[a].quota = req[a].quota)
      /\ req'[a].todo \subseteq req[a].todo /\ req'[a].here \subseteq req[a].here
      /\ req'[a].done \ {k} = req[a].done \ {k}
      /\ k \in doubt' \/ (k \in req'[a].done /\ req'[a].op = req[a].op)
      /\ req'[a].op # "none" => req'[a].torn = req[a].torn /\ req'[a].dest = req[a].dest
      /\ req'[a].op = "none" => req'[a].done = {} /\ req'[a].todo = {} /\ req'[a].here = {}
  <2>1. CASE Ends(a) /\ Loses(a, k) /\ Op(a) = "quota"
    <3>1. req'[a].op = "none" /\ req'[a].done = {} /\ req'[a].todo = {} /\ req'[a].here = {}
      BY <2>1, IdleIs DEF Ends
    <3>2. req[a].done = {} /\ k \in doubt'
      BY <1>1, <2>1, FormIs DEF FormOf, Op, Loses
    <3> QED BY <3>1, <3>2
  <2>2. ASSUME NEW ok \in BOOLEAN, req'[a] = Called(req[a], k, ok), ok \/ k \in doubt'
        PROVE  /\ req'[a].op = req[a].op /\ req'[a].quota = req[a].quota /\ req'[a].torn = req[a].torn
               /\ req'[a].todo \subseteq req[a].todo /\ req'[a].here \subseteq req[a].here
               /\ req'[a].done \ {k} = req[a].done \ {k}
               /\ k \in doubt' \/ k \in req'[a].done
               /\ req'[a].dest = req[a].dest /\ req'[a].op # "none"
    <3>1. CalledAt(req[a], k, ok, req'[a])
      BY <2>2, FormIs, CalledIs
    <3> QED BY <1>2, <2>2, <3>1 DEF CalledAt, Op
  <2>3. (Ends(a) /\ Loses(a, k) /\ Op(a) = "quota")
        \/ \E ok \in BOOLEAN : req'[a] = Called(req[a], k, ok) /\ (ok \/ k \in doubt')
    BY DEF Serves, Loses, Goes
  <2> QED BY <2>1, <2>2, <2>3
<1>6. ASSUME NEW i \in DOMAIN mail, i # k
      PROVE  MailNextAt(i)
  <2>1. Calm(i)
    <3>1. ASSUME NEW d \in Names, SoleNext(i, d)
          PROVE  vm2'.box[d, mail[i].user] = vm2.box[d, mail[i].user]
      <4>1. mail[i].user \in Users
        BY MailNow
      <4>2. ~(d = mail[k].at /\ mail[i].user = mail[k].user)
        BY <1>1, <1>2, <1>3, <1>6, <3>1 DEF SoleNext
      <4> QED BY <1>3, <4>1, <4>2
    <3> QED BY <1>1, <1>3, <3>1 DEF Calm
  <2>2. SameHeld(a, i)
    BY <1>5, <1>6 DEF SameHeld
  <2>3. \A b \in Callers : SameHeld(b, i)
    BY <1>1, <2>2, OthersHeld
  <2> QED BY <2>1, <2>3, CalmStays
<1>7. MailNextAt(k)
  <2>1. StandsNext(k)
    <3>1. mail'[k].st # "pending"
      BY <1>1, <1>2
    <3>2. k \in doubt' \/ \E b \in Callers : req'[b].op \in {"quota", "domain"} /\ k \in req'[b].done
      BY <1>5 DEF Op
    <3> QED BY <3>1, <3>2 DEF StandsNext
  <2>2. \A b \in Callers : b # a => HeldNext(b, k)
    BY <1>1, <1>2, HeldTorn
  <2>3. HeldNext(a, k)
    <3>1. vm2'.box[mail[k].at, mail[k].user] = req[a].quota
      BY <1>2, <1>3
    <3>2. k \in req'[a].here \ req'[a].torn => mail[k].st = "pending"
      BY <1>2, <1>5, HeldNow
    <3>3. SentNext(a, k)
      BY <1>1, <1>2, <1>5, <3>1, <3>2 DEF SentNext
    <3> QED BY <1>4, <3>3 DEF HeldNext
  <2> QED BY <2>1, <2>2, <2>3 DEF MailNextAt
<1> QED BY <1>1, <1>6, <1>7

\* A call that creates a mailbox VM2 does not have.
LEMMA ServeProvision ==
    ASSUME IInv, Kinds, NEW a \in Callers, NEW k, Serves(a, k) \/ Loses(a, k), Op(a) = "provision"
    PROVE  \A i \in DOMAIN mail' : MailNextAt(i)
<1>1. /\ Serving(a, k) /\ Elsewhere(a) /\ mail' = mail /\ req[a].pc = "call" /\ k \in Subjects(req[a])
      /\ \A i : i \in doubt => i \in doubt'
  BY DEF Serves, Loses, Serving, Goes, Ends, RowsKept
<1>2. /\ a = Worker /\ k \in req[a].todo /\ k \in DOMAIN mail /\ mail[k].st = "pending"
      /\ req[a].dest \in Names /\ req[a].done = {} /\ mail[k].user \in Users
  <2>1. /\ a = Worker /\ k \in req[a].todo /\ k \in DOMAIN mail /\ Pending(k)
        /\ req[a].dest \in Names /\ req[a].done = {}
    BY <1>1, AskerIs
  <2> QED BY <2>1, MailNow DEF Pending
<1>3. /\ made' = made \cup {<<k, req[a].dest>>}
      /\ \A d \in Names, u \in Users : vm2'.box[d, u] =
            IF d = req[a].dest /\ u = mail[k].user /\ vm2.box[d, u] = None
            THEN req[a].quota ELSE vm2.box[d, u]
  BY <1>1 DEF Serving, MadeBy, Op
<1>4. req[a].todo = {k} /\ req[a].here = {}
  <2>1. FormOf(a, req[a]) /\ req[a].op = "provision"
    BY FormIs DEF Op
  <2>2. \E i \in 1..MaxMail : req[a].todo = {i}
    BY <1>2, <2>1 DEF FormOf
  <2> QED BY <1>2, <2>1, <2>2 DEF FormOf
<1>5. \/ req'[a] = Idle /\ k \in doubt'
      \/ /\ req'[a].op = "provision" /\ req'[a].quota = req[a].quota /\ req'[a].dest = req[a].dest
         /\ req'[a].todo = {} /\ req'[a].done = {k} /\ req'[a].here = {}
         /\ req'[a].torn = req[a].torn
  <2>1. CASE Loses(a, k)
    BY <2>1 DEF Loses, Ends
  <2>2. CASE Serves(a, k)
    <3>1. req'[a] = Called(req[a], k, TRUE)
      BY <2>2 DEF Serves, Goes
    <3>2. CalledAt(req[a], k, TRUE, req'[a])
      BY <3>1, FormIs, CalledIs
    <3> QED BY <1>2, <1>4, <3>2 DEF CalledAt, Op
  <2> QED BY <2>1, <2>2
<1>6. ASSUME NEW i \in DOMAIN mail, i # k
      PROVE  MailNextAt(i)
  <2>1. Calm(i)
    <3>1. ASSUME NEW d \in Names, SoleNext(i, d)
          PROVE  vm2'.box[d, mail[i].user] = vm2.box[d, mail[i].user]
      <4>1. mail[i].user \in Users
        BY MailNow
      <4>2. ~(d = req[a].dest /\ mail[i].user = mail[k].user)
        BY <1>1, <1>2, <1>3, <1>6, <3>1 DEF SoleNext
      <4> QED BY <1>3, <4>1, <4>2
    <3> QED BY <1>1, <1>3, <1>6, <3>1 DEF Calm
  <2>2. SameHeld(a, i)
    BY <1>2, <1>5, <1>6, IdleIs DEF SameHeld
  <2>3. \A b \in Callers : SameHeld(b, i)
    BY <1>1, <2>2, OthersHeld
  <2> QED BY <2>1, <2>3, CalmStays
<1>7. MailNextAt(k)
  <2>1. StandsNext(k)
    BY <1>1, <1>2, <1>5 DEF StandsNext
  <2>2. \A b \in Callers : b # a => HeldNext(b, k)
    BY <1>1, <1>2, HeldTorn
  <2>3. CASE req'[a] = Idle
    BY <2>1, <2>2, <2>3, IdleHolds DEF MailNextAt
  <2>4. CASE req'[a] # Idle
    <3>1. SentNext(a, k)
      BY <1>5, <2>4 DEF SentNext
    <3>2. k \notin req'[a].torn => req'[a].quota = mail'[k].quota
      BY <1>1, <1>2, <1>5, <2>4, WorkerNow
    <3>3. ASSUME k \notin doubt', SoleNext(k, req[a].dest)
          PROVE  vm2'.box[req[a].dest, mail[k].user] = req[a].quota
      <4>1. SoleAt(k, req[a].dest) /\ k \notin doubt
        BY <1>1, <1>2, <3>3, SoleWas
      <4>2. <<k, req[a].dest>> \notin made
        BY <1>2, <4>1, MailNow
      <4>3. vm2.box[req[a].dest, mail[k].user] = None
        BY <1>2, <4>1, <4>2 DEF IInv, MailboxInv, SoleAt
      <4> QED BY <1>2, <1>3, <4>3
    <3>4. WorkedNext(k)
      BY <1>1, <1>2, <1>3, <1>5, <2>4, <3>2, <3>3 DEF WorkedNext
    <3>5. HeldNext(a, k)
      BY <3>1, <3>4 DEF HeldNext
    <3> QED BY <2>1, <2>2, <3>5 DEF MailNextAt
  <2> QED BY <2>3, <2>4
<1> QED BY <1>1, <1>6, <1>7

\* A step of a request that holds no answer for a mailbox, or keeps what it holds.
LEMMA MailApart ==
    ASSUME IInv, Kinds, NEW a \in Callers, Elsewhere(a), mail' = mail, made' = made, vm2' = vm2,
           \A i \in DOMAIN mail : i \in doubt => i \in doubt',
           \A i \in DOMAIN mail : SameHeld(a, i)
    PROVE  \A i \in DOMAIN mail' : MailNextAt(i)
<1>1. \A i \in DOMAIN mail : Calm(i)
  BY MailFrame
<1>2. \A i \in DOMAIN mail : \A b \in Callers : SameHeld(b, i)
  BY OthersHeld
<1> QED BY <1>1, <1>2, CalmStays

LEMMA DropMail ==
    ASSUME IInv, Kinds, NEW a \in Callers, Drops(a)
    PROVE  \A i \in DOMAIN mail' : MailNextAt(i)
<1>1. /\ Elsewhere(a) /\ req'[a] = Idle /\ mail' = mail /\ made' = made /\ vm2' = vm2
      /\ doubt' = doubt \cup Told(req[a])
  BY DEF Drops, Ends, RowsKept
<1>2. ASSUME NEW i \in DOMAIN mail
      PROVE  MailNextAt(i)
  <2>1. Calm(i)
    BY <1>1, MailFrame
  <2>2. \A b \in Callers \ {a} : SameHeld(b, i)
    BY <1>1, OthersHeld
  <2>3. \A b \in Callers : HeldNext(b, i)
    BY <1>1, <2>1, <2>2, CalmHeld, IdleHolds
  <2>4. StandsNext(i)
    <3>1. CASE i \in req[a].done
      BY <1>1, <3>1 DEF Told, StandsNext
    <3>2. CASE i \notin req[a].done
      <4>1. \A b \in Callers : SameDone(b, i)
        BY <2>2, <3>2, SameHeldDone DEF SameDone
      <4> QED BY <2>1, <4>1, CalmStands
    <3> QED BY <3>1, <3>2
  <2> QED BY <2>3, <2>4 DEF MailNextAt
<1> QED BY <1>1, <1>2

LEMMA CallMail ==
    ASSUME IInv, Kinds, NEW a \in Callers, Calling(a)
    PROVE  \A i \in DOMAIN mail' : MailNextAt(i)
<1>1. CASE Drops(a)
  BY <1>1, DropMail
<1>2. ASSUME NEW k, Skips(a, k)
      PROVE  \A i \in DOMAIN mail' : MailNextAt(i)
  <2>1. /\ Elsewhere(a) /\ mail' = mail /\ made' = made /\ vm2' = vm2 /\ doubt' = doubt
        /\ req'[a] = Called(req[a], k, FALSE)
    BY <1>2 DEF Skips, Goes, RowsKept, HistoryKept
  <2>2. CalledAt(req[a], k, FALSE, req'[a])
    BY <2>1, FormIs, CalledIs
  <2>3. \A i : SameHeld(a, i)
    BY <2>2 DEF CalledAt, SameHeld
  <2> QED BY <2>1, <2>3, MailApart
<1>3. ASSUME NEW k, Serves(a, k) \/ Loses(a, k)
      PROVE  \A i \in DOMAIN mail' : MailNextAt(i)
  <2>1. Op(a) \in {"add", "delete", "quota", "domain", "provision"}
    BY <1>3, AskerIs DEF Serves, Loses, Serving
  <2> QED BY <1>3, <2>1, ServeNoMail, ServeQuota, ServeProvision
<1> QED BY <1>1, <1>2, <1>3 DEF Calling

LEMMA AliasCommitMail ==
    ASSUME IInv, Kinds, NEW a \in Callers, AddsAlias(a) \/ DropsAlias(a)
    PROVE  \A i \in DOMAIN mail' : MailNextAt(i)
<1>1. /\ Elsewhere(a) /\ req'[a] = Idle /\ mail' = mail /\ made' = made /\ vm2' = vm2
      /\ Op(a) \in {"add", "delete"}
  BY DEF AddsAlias, DropsAlias, Ends
<1>2. req[a].done = {} /\ req[a].name \in Names /\ DOMAIN mail \cap Names = {}
  BY <1>1, FormIs DEF FormOf, Op
<1>3. \A i \in DOMAIN mail : i \in doubt => i \in doubt'
  BY <1>2 DEF AddsAlias, DropsAlias, Doubts
<1>4. \A i : SameHeld(a, i)
  BY <1>1, <1>2, IdleIs DEF SameHeld
<1> QED BY <1>1, <1>3, <1>4, MailApart

\* The commit of a new quota, for the mailboxes VM2 answered for.
LEMMA ResizeMail ==
    ASSUME IInv, Kinds, NEW a \in Callers, ResizesBox(a) \/ EditsDomain(a)
    PROVE  \A i \in DOMAIN mail' : MailNextAt(i)
<1> DEFINE r == req[a]
<1>1. /\ r.op \in {"quota", "domain"} /\ r.pc = "commit" /\ Elsewhere(a) /\ req'[a] = Idle
      /\ vm2' = vm2 /\ made' = made
      /\ Resizes(r.done \cup r.here, r.quota)
      /\ Doubts(a, r.done, r.done \cup r.here)
  <2>1. FormOf(a, r)
    BY FormIs
  <2>2. Op(a) = "quota" => r.here = {}
    BY <2>1 DEF FormOf, Op
  <2> QED BY <2>2 DEF ResizesBox, EditsDomain, Ends, Op
<1>2. r.todo = {} /\ a # Worker
  BY <1>1, FormIs DEF FormOf
<1>3. DOMAIN mail' = DOMAIN mail
      /\ \A i \in DOMAIN mail :
            /\ mail'[i].user = mail[i].user /\ mail'[i].st = mail[i].st /\ mail'[i].at = mail[i].at
            /\ mail'[i].quota = IF i \in r.done \cup r.here THEN r.quota ELSE mail[i].quota
  BY <1>1 DEF Resizes
<1>4. \A i \in r.done \cup r.here : i \in r.torn => i \in doubt'
  BY <1>1 DEF Doubts
<1>5. \A i : i \notin r.done /\ i \in doubt => i \in doubt'
  BY <1>1 DEF Doubts
<1>6. ASSUME NEW i \in DOMAIN mail, i \notin r.done \cup r.here
      PROVE  MailNextAt(i)
  <2>1. Calm(i)
    BY <1>1, <1>3, <1>5, <1>6 DEF Calm
  <2>2. SameHeld(a, i)
    BY <1>1, <1>6, IdleIs DEF SameHeld
  <2>3. \A b \in Callers : SameHeld(b, i)
    BY <1>1, <2>2, OthersHeld
  <2> QED BY <2>1, <2>3, CalmStays
<1>7. ASSUME NEW i \in DOMAIN mail, i \in r.done \cup r.here
      PROVE  MailNextAt(i)
  <2>1. \A b \in Callers : HeldNext(b, i)
    BY <1>1, <1>3, <1>7, HeldTorn, IdleHolds
  <2>2. ASSUME mail'[i].st # "pending", i \notin doubt', SoleNext(i, mail'[i].at)
        PROVE  vm2'.box[mail'[i].at, mail'[i].user] = mail'[i].quota
    <3>1. i \notin r.torn /\ mail[i].st # "pending" /\ SoleAt(i, mail[i].at)
      BY <1>3, <1>4, <1>7, <2>2, SoleWas
    <3>2. i \in r.done
      BY <1>7, <3>1, HeldNow
    <3>3. vm2.box[mail[i].at, mail[i].user] = r.quota
      BY <1>1, <3>1, <3>2, HeldNow
    <3> QED BY <1>1, <1>3, <3>2, <3>3
  <2>3. ASSUME mail'[i].st = "pending", i \notin doubt', i \notin req'[Worker].done
        PROVE  \A d \in Names : <<i, d>> \notin made'
    <3>1. mail[i].st = "pending"
      BY <1>3, <2>3
    <3>2. i \notin r.done
      BY <1>1, <3>1, HeldNow
    <3>3. i \notin doubt
      BY <1>5, <2>3, <3>2
    <3>4. i \notin req[Worker].done
      BY <1>1, <1>2, <2>3, CallersAre DEF Elsewhere, Alike
    <3> QED BY <1>1, <3>1, <3>3, <3>4, MailNow
  <2>4. StandsNext(i)
    BY <2>2, <2>3 DEF StandsNext
  <2> QED BY <2>1, <2>4 DEF MailNextAt
<1> QED BY <1>3, <1>6, <1>7

\* The commit of the provisioning.
LEMMA ActivateMail ==
    ASSUME IInv, Kinds, Activates
    PROVE  \A i \in DOMAIN mail' : MailNextAt(i)
<1> DEFINE r == req[Worker]
<1>1. /\ r.op = "provision" /\ r.pc = "commit" /\ Elsewhere(Worker) /\ req'[Worker] = Idle
      /\ vm2' = vm2 /\ made' = made /\ Worker \in Callers
      /\ Doubts(Worker, {}, r.done)
  BY CallersAre DEF Activates, Ends, Op
<1>2. DOMAIN mail' = DOMAIN mail
      /\ \A i \in DOMAIN mail :
            /\ mail'[i].user = mail[i].user /\ mail'[i].quota = mail[i].quota
            /\ i \in r.done => mail'[i].st = "active" /\ mail'[i].at = r.dest
            /\ i \notin r.done => mail'[i].st = mail[i].st /\ mail'[i].at = mail[i].at
  BY DEF Activates
<1>3. r.todo = {} /\ r.here = {}
  BY <1>1, FormIs DEF FormOf
<1>4. \A i : i \in doubt => i \in doubt'
  BY <1>1 DEF Doubts
<1>5. ASSUME NEW i \in DOMAIN mail, i \notin r.done
      PROVE  MailNextAt(i)
  <2>1. Calm(i)
    BY <1>1, <1>2, <1>4, <1>5 DEF Calm
  <2>2. SameHeld(Worker, i)
    BY <1>1, <1>5, IdleIs DEF SameHeld
  <2>3. \A b \in Callers : SameHeld(b, i)
    BY <1>1, <2>2, OthersHeld
  <2> QED BY <2>1, <2>3, CalmStays
<1>6. ASSUME NEW i \in DOMAIN mail, i \in r.done
      PROVE  MailNextAt(i)
  <2>1. mail'[i].st # "pending" /\ mail'[i].at = r.dest
    BY <1>2, <1>6
  <2>2. \A b \in Callers : b # Worker => HeldNext(b, i)
    BY <1>1, <1>6, <2>1, HeldTorn
  <2>3. HeldNext(Worker, i)
    BY <1>1, IdleHolds
  <2>4. ASSUME i \notin doubt', SoleNext(i, mail'[i].at)
        PROVE  vm2'.box[mail'[i].at, mail'[i].user] = mail'[i].quota
    <3>1. i \notin doubt /\ i \notin r.torn /\ SoleAt(i, r.dest)
      BY <1>1, <1>6, <2>1, <2>4, SoleWas DEF Doubts
    <3>2. vm2.box[r.dest, mail[i].user] = r.quota /\ r.quota = mail[i].quota
      BY <1>6, <3>1, WorkerNow
    <3> QED BY <1>1, <1>2, <2>1, <3>2
  <2>5. StandsNext(i)
    BY <2>1, <2>4 DEF StandsNext
  <2> QED BY <2>2, <2>3, <2>5 DEF MailNextAt
<1> QED BY <1>2, <1>5, <1>6

\* The commit of an import: the mailboxes it adds are nobody's work yet.
LEMMA CommitMail ==
    ASSUME IInv, Kinds, NEW a \in Callers, CommitsImport(a)
    PROVE  \A i \in DOMAIN mail' : MailNextAt(i)
<1>1. /\ Op(a) = "import" /\ Elsewhere(a) /\ req'[a] = Idle /\ vm2' = vm2 /\ HistoryKept
      /\ mail' = mail \o req[a].added
  BY DEF CommitsImport, Ends
<1>2. mail \in Seq(Mailbox) /\ req[a].added \in Seq(Mailbox) /\ req[a].done = {}
  BY <1>1, FormIs DEF TypeOK, Request, FormOf, Op
<1>3. ASSUME NEW i \in DOMAIN mail
      PROVE  MailNextAt(i)
  <2>1. mail'[i] = mail[i]
    BY <1>1, <1>2, ConcatIs
  <2>2. Calm(i)
    BY <1>1, <2>1 DEF Calm, HistoryKept
  <2>3. SameHeld(a, i)
    BY <1>1, <1>2, IdleIs DEF SameHeld
  <2>4. \A b \in Callers : SameHeld(b, i)
    BY <1>1, <2>3, OthersHeld
  <2> QED BY <2>2, <2>4, CalmStays
<1>4. ASSUME NEW i \in DOMAIN mail', i \notin DOMAIN mail
      PROVE  MailNextAt(i)
  <2>1. mail'[i].st = "pending"
    <3> DEFINE j == i - Len(mail)
    <3>1. j \in DOMAIN req[a].added /\ mail'[i] = req[a].added[j]
      BY <1>1, <1>2, <1>4, ConcatIs
    <3> HIDE DEF j
    <3> QED BY <3>1, OpensAre
  <2>2. \A b \in Callers : i \notin req'[b].todo \cup req'[b].done \cup req'[b].here
    BY <1>1, <1>4, FormIs, IdleIs DEF Elsewhere, Alike
  <2>3. \A d \in Names : <<i, d>> \notin made'
    BY <1>1, <1>4, TablesAre DEF HistoryKept
  <2> QED BY <2>1, <2>2, <2>3 DEF MailNextAt, StandsNext, HeldNext, SentNext, WorkedNext
<1> QED BY <1>3, <1>4

LEMMA ImportMail ==
    ASSUME IInv, Kinds, NEW a \in Callers, NEW s \in Sources, NEW u \in Users,
           LooksUp(a, s, u) \/ Adds(a, s, u)
    PROVE  \A i \in DOMAIN mail' : MailNextAt(i)
<1>1. /\ Elsewhere(a) /\ Keeps(req[a], req'[a])
      /\ mail' = mail /\ made' = made /\ vm2' = vm2 /\ doubt' = doubt
  BY DEF LooksUp, Adds, RowsKept, HistoryKept
<1>2. \A i : SameHeld(a, i)
  BY <1>1 DEF Keeps, SameHeld
<1> QED BY <1>1, <1>2, MailApart

LEMMA MailStep ==
    ASSUME IInv, Kinds
    PROVE  MailboxInv' /\ QuotaInv' /\ WorkerInv'
<1>1. \A i \in DOMAIN mail' : MailNextAt(i)
  <2>1. CASE Uploads
    <3>1. \A i \in DOMAIN mail : Calm(i)
      BY <2>1, MailFrame DEF Uploads, HistoryKept
    <3>2. \A b \in Callers : \A i : SameHeld(b, i)
      BY <2>1 DEF Uploads, SameHeld
    <3> QED BY <2>1, <3>1, <3>2, CalmStays DEF Uploads
  <2> QED BY <2>1, StartMail, CallMail, AliasCommitMail, ResizeMail, ActivateMail, CommitMail,
             ImportMail, CallersAre DEF Kinds, Committing, Importing
<1>2. \A b \in Callers : req'[b].todo \cup req'[b].done \cup req'[b].here \subseteq DOMAIN mail'
  BY FormStep DEF FormInv
<1>3. \A i \in DOMAIN mail' : /\ StandsNext(i) /\ WorkedNext(i)
                              /\ \A b \in Callers : SentNext(b, i)
  BY <1>1, CallersAre DEF MailNextAt, HeldNext
<1> QED BY <1>2, <1>3, SlotsStep, MailboxNext, QuotaNext, WorkerNext, CallersAre

-----------------------------------------------------------------------------
(* The steps of an import. *)

\* OpensInv, LoginInv and RowsInv after the step.
InsertsNext(b, s, u) == req'[b].pc = "insert" /\ req'[b].now = <<s, u>>
OpensAt(b) ==
    /\ \A s \in Sources : s \in req'[b].opens => dom'[s].dest = None
    /\ \A i \in DOMAIN req'[b].added :
          /\ req'[b].added[i].src \in req'[b].opens \/ dom'[req'[b].added[i].src].dest # None
          /\ req'[b].added[i].st = "pending" /\ req'[b].added[i].at = None
    /\ \A s \in Sources :
          /\ req'[b].seen[s].dest = None => req'[b].seen[s] = NoDomain
          /\ s \in req'[b].opens => req'[b].seen[s].dest # None
    /\ \A s \in Sources, u \in Users : InsertsNext(b, s, u) =>
          /\ req'[b].look = "none" => s \notin req'[b].opens
          /\ req'[b].look # "none" =>
                (s \in req'[b].opens \/ dom'[s].dest # None) /\ req'[b].seen[s].dest # None

LEMMA OpensNext ==
    ASSUME \A b \in Callers : OpensAt(b),
           \A b, c \in Callers : b # c => req'[b].opens \cap req'[c].opens = {}
    PROVE  OpensInv'
BY DEF OpensInv, OpensAt, InsertsNext, Inserts, Opened, Known

ClaimsNext(b, s, u) ==
    Has(req'[b].added, s, u) \/ (InsertsNext(b, s, u) /\ req'[b].look = "domain")
Distinct(boxes) ==
    \A i, j \in DOMAIN boxes : i < j =>
       <<boxes[i].src, boxes[i].user>> # <<boxes[j].src, boxes[j].user>>
LoginsAt(b) ==
    /\ Distinct(req'[b].added)
    /\ \A s \in Sources, u \in Users :
          InsertsNext(b, s, u) /\ req'[b].look = "domain" => ~Has(req'[b].added, s, u)

LEMMA LoginNext ==
    ASSUME \A i, j \in DOMAIN mail' : i < j =>
              \/ <<mail'[i].src, mail'[i].user>> # <<mail'[j].src, mail'[j].user>>
              \/ <<mail'[i].src, mail'[i].user>> \in twice',
           \A b \in Callers : LoginsAt(b),
           \A b \in Callers, s \in Sources, u \in Users :
              ClaimsNext(b, s, u) /\ Has(mail', s, u) => <<s, u>> \in twice',
           \A b, c \in Callers, s \in Sources, u \in Users :
              b # c /\ ClaimsNext(b, s, u) /\ ClaimsNext(c, s, u) => <<s, u>> \in twice'
    PROVE  LoginInv'
BY DEF LoginInv, LoginsAt, Distinct, ClaimsNext, InsertsNext, Claims, Inserts, Has

RowsAt(b) ==
    /\ \A k \in req'[b].ids : File[k].ok /\ ~Repeated(k) =>
          \/ Login(k) \in req'[b].left
          \/ InsertsNext(b, File[k].src, File[k].user)
          \/ Has(mail', File[k].src, File[k].user)
          \/ Has(req'[b].added, File[k].src, File[k].user)
    /\ \A s \in Sources, u \in Users : InsertsNext(b, s, u) /\ req'[b].look = "login" =>
          Has(mail', s, u) \/ Has(req'[b].added, s, u)

LEMMA RowsNext ==
    ASSUME \A k \in batch'.chosen : File[k].ok /\ ~Repeated(k) =>
              Has(mail', File[k].src, File[k].user),
           \A b \in Callers : RowsAt(b)
    PROVE  RowsInv'
BY DEF RowsInv, RowsAt, InsertsNext, Inserts, Has

\* A request that imports as it did, or nothing yet.
SameImport(b) ==
    /\ req'[b].pc = req[b].pc /\ req'[b].now = req[b].now /\ req'[b].look = req[b].look
    /\ req'[b].seen = req[b].seen /\ req'[b].opens = req[b].opens /\ req'[b].added = req[b].added
    /\ req'[b].ids = req[b].ids /\ req'[b].left = req[b].left
Blank(b) ==
    /\ req'[b].pc # "insert" /\ req'[b].opens = {} /\ req'[b].added = <<>>
    /\ \A s \in Sources : req'[b].seen[s].dest = None => req'[b].seen[s] = NoDomain
    /\ \A k \in req'[b].ids : File[k].ok /\ ~Repeated(k) => Login(k) \in req'[b].left

LEMMA HasGrows ==
    ASSUME IInv, Kinds, NEW s, NEW u, Has(mail, s, u)
    PROVE  Has(mail', s, u)
BY KindsGrow DEF MailGrows, Has

LEMMA OpensNow ==
    ASSUME IInv, NEW b \in Callers
    PROVE  /\ req[b].opens \subseteq Sources /\ req[b].added \in Seq(Mailbox)
           /\ \A s \in Sources : s \in req[b].opens => dom[s].dest = None
           /\ \A s \in Sources : req[b].seen[s].dest = None => req[b].seen[s] = NoDomain
           /\ \A s \in Sources : s \in req[b].opens => req[b].seen[s].dest # None
           /\ \A s \in Sources, u \in Users : Inserts(b, s, u) =>
                 /\ req[b].look = "none" => s \notin req[b].opens
                 /\ req[b].look # "none" => Opened(b, s) /\ req[b].seen[s].dest # None
           /\ \A c \in Callers : c # b => req[b].opens \cap req[c].opens = {}
BY FormIs, RequestIs DEF IInv, OpensInv, Known

LEMMA OthersImport ==
    ASSUME NEW a, Elsewhere(a)
    PROVE  \A b \in Callers \ {a} : SameImport(b)
BY DEF Elsewhere, Alike, SameImport

LEMMA IdleBlank ==
    ASSUME NEW a, req'[a] = Idle
    PROVE  Blank(a)
BY IdleIs DEF Blank

LEMMA SameOpens ==
    ASSUME IInv, Kinds, NEW b \in Callers, SameImport(b),
           \A s \in Sources : s \in req[b].opens => dom'[s].dest = None
    PROVE  OpensAt(b)
<1>1. \A s \in Sources : dom[s].dest # None => dom'[s].dest # None
  BY KindsKnow DEF KnownGrows
<1>2. \A i \in DOMAIN req[b].added :
         /\ req[b].added[i].src \in req[b].opens \/ dom'[req[b].added[i].src].dest # None
         /\ req[b].added[i].st = "pending" /\ req[b].added[i].at = None
  BY <1>1, OpensAre DEF Mailbox
<1>3. \A s \in Sources, u \in Users : Inserts(b, s, u) =>
         /\ req[b].look = "none" => s \notin req[b].opens
         /\ req[b].look # "none" =>
               (s \in req[b].opens \/ dom'[s].dest # None) /\ req[b].seen[s].dest # None
  BY <1>1, OpensNow DEF Opened, Known
<1> QED BY <1>2, <1>3, OpensNow DEF SameImport, OpensAt, InsertsNext, Inserts

LEMMA BlankOpens ==
    ASSUME NEW b, Blank(b)
    PROVE  OpensAt(b)
BY DEF Blank, OpensAt, InsertsNext

LEMMA SameLogins ==
    ASSUME IInv, NEW b \in Callers, SameImport(b)
    PROVE  /\ LoginsAt(b)
           /\ \A s, u : ClaimsNext(b, s, u) <=> Claims(b, s, u)
<1>1. /\ Distinct(req[b].added)
      /\ \A s \in Sources, u \in Users :
            Inserts(b, s, u) /\ req[b].look = "domain" => ~Has(req[b].added, s, u)
  BY DEF IInv, LoginInv, Distinct
<1> QED BY <1>1 DEF SameImport, LoginsAt, ClaimsNext, Claims, InsertsNext, Inserts

LEMMA BlankLogins ==
    ASSUME NEW b, Blank(b)
    PROVE  LoginsAt(b) /\ \A s, u : ~ClaimsNext(b, s, u)
<1>1. req'[b].added = <<>> /\ req'[b].pc # "insert"
  BY DEF Blank
<1>2. \A s, u : ~Has(req'[b].added, s, u)
  BY <1>1 DEF Has
<1> QED BY <1>1, <1>2 DEF LoginsAt, ClaimsNext, InsertsNext, Distinct

LEMMA SameRows ==
    ASSUME IInv, Kinds, NEW b \in Callers, SameImport(b)
    PROVE  RowsAt(b)
<1>1. \A s, u : Has(mail, s, u) => Has(mail', s, u)
  BY HasGrows
<1>2. /\ \A k \in req[b].ids : File[k].ok /\ ~Repeated(k) =>
            \/ Login(k) \in req[b].left
            \/ Inserts(b, File[k].src, File[k].user)
            \/ Has(mail, File[k].src, File[k].user)
            \/ Has(req[b].added, File[k].src, File[k].user)
      /\ \A s \in Sources, u \in Users : Inserts(b, s, u) /\ req[b].look = "login" =>
            Has(mail, s, u) \/ Has(req[b].added, s, u)
  BY DEF IInv, RowsInv
<1> QED BY <1>1, <1>2 DEF SameImport, RowsAt, InsertsNext, Inserts

LEMMA BlankRows ==
    ASSUME NEW b, Blank(b)
    PROVE  RowsAt(b)
BY DEF Blank, RowsAt, InsertsNext

LEMMA LoginNow ==
    ASSUME IInv
    PROVE  /\ \A i, j \in DOMAIN mail : i < j =>
                 \/ <<mail[i].src, mail[i].user>> # <<mail[j].src, mail[j].user>>
                 \/ <<mail[i].src, mail[i].user>> \in twice
           /\ \A b \in Callers, s \in Sources, u \in Users :
                 Claims(b, s, u) /\ Has(mail, s, u) => <<s, u>> \in twice
           /\ \A b, c \in Callers, s \in Sources, u \in Users :
                 b # c /\ Claims(b, s, u) /\ Claims(c, s, u) => <<s, u>> \in twice
BY DEF IInv, LoginInv

\* The steps that add no login.
LEMMA ImportFrame ==
    ASSUME IInv, Kinds, DOMAIN mail' = DOMAIN mail, twice' = twice, batch'.chosen = batch.chosen,
           \A s \in Sources : dom[s].dest = None => dom'[s].dest = None,
           \A b \in Callers : SameImport(b) \/ Blank(b)
    PROVE  OpensInv' /\ LoginInv' /\ RowsInv'
<1>1. OpensInv'
  <2>1. \A b \in Callers : OpensAt(b)
    BY OpensNow, SameOpens, BlankOpens
  <2>2. \A b, c \in Callers : b # c => req'[b].opens \cap req'[c].opens = {}
    BY OpensNow DEF SameImport, Blank
  <2> QED BY <2>1, <2>2, OpensNext
<1>2. MailGrows
  BY KindsGrow
<1>3. LoginInv'
  <2>1. \A b \in Callers : LoginsAt(b) /\ \A s, u : ClaimsNext(b, s, u) => Claims(b, s, u)
    BY SameLogins, BlankLogins
  <2>2. \A s, u : Has(mail', s, u) => Has(mail, s, u)
    BY <1>2 DEF MailGrows, Has
  <2>3. \A i, j \in DOMAIN mail' : i < j =>
           \/ <<mail'[i].src, mail'[i].user>> # <<mail'[j].src, mail'[j].user>>
           \/ <<mail'[i].src, mail'[i].user>> \in twice'
    BY <1>2, LoginNow DEF MailGrows
  <2> QED BY <2>1, <2>2, <2>3, LoginNow, LoginNext
<1>4. RowsInv'
  <2>1. \A b \in Callers : RowsAt(b)
    BY SameRows, BlankRows
  <2>2. \A k \in batch'.chosen : File[k].ok /\ ~Repeated(k) => Has(mail', File[k].src, File[k].user)
    BY HasGrows DEF IInv, RowsInv
  <2> QED BY <2>1, <2>2, RowsNext
<1> QED BY <1>1, <1>3, <1>4

LEMMA CalledBlank ==
    ASSUME IInv, NEW a \in Callers, req[a].pc = "call", NEW i \in Subjects(req[a]),
           NEW ok \in BOOLEAN, req'[a] = Called(req[a], i, ok)
    PROVE  Blank(a)
<1>1. CalledAt(req[a], i, ok, req'[a])
  BY FormIs, CalledIs
<1>2. req[a].op # "import"
  BY FormIs DEF FormOf
<1>3. req[a].opens = {} /\ req[a].added = <<>> /\ req[a].ids = {}
  BY <1>2, FormIs DEF FormOf
<1>4. \A s \in Sources : req[a].seen[s].dest = None => req[a].seen[s] = NoDomain
  BY OpensNow
<1> QED BY <1>1, <1>3, <1>4 DEF CalledAt, Blank

LEMMA CallBlank ==
    ASSUME IInv, NEW a \in Callers, Calling(a)
    PROVE  Blank(a)
<1>1. CASE req'[a] = Idle
  BY <1>1, IdleBlank
<1>2. ASSUME NEW i, Serves(a, i)
      PROVE  Blank(a)
  BY <1>2, CalledBlank DEF Serves, Serving, Goes
<1>3. ASSUME NEW i, Skips(a, i)
      PROVE  Blank(a)
  <2>1. i \in Subjects(req[a])
    BY <1>3 DEF Skips, Subjects, Op
  <2> QED BY <1>3, <2>1, CalledBlank DEF Skips, Goes
<1>4. ASSUME NEW i, Loses(a, i)
      PROVE  Blank(a)
  BY <1>1, <1>4, CalledBlank DEF Loses, Serving, Goes, Ends
<1> QED BY <1>1, <1>2, <1>3, <1>4 DEF Calling, Drops, Ends

LEMMA NewBlank ==
    ASSUME NEW a \in Callers, New(a, req'[a])
    PROVE  Blank(a)
<1>1. /\ req'[a].opens = {} /\ req'[a].added = <<>>
      /\ \A s \in Sources : req'[a].seen[s] = NoDomain
  BY DEF New
<1>2. /\ req'[a].pc # "insert"
      /\ \A k \in req'[a].ids : File[k].ok /\ ~Repeated(k) => Login(k) \in req'[a].left
  BY DEF New, NewAlias, NewQuota, NewEdit, NewProvision, NewImport
<1> QED BY <1>1, <1>2 DEF Blank

LEMMA QuietStep ==
    ASSUME IInv, Kinds,
           \/ Uploads \/ Activates
           \/ \E a \in Callers : Starts(a) \/ Calling(a) \/ Committing(a)
    PROVE  OpensInv' /\ LoginInv' /\ RowsInv'
<1>1. CASE Uploads
  <2>1. \A b \in Callers : SameImport(b)
    BY <1>1 DEF Uploads, SameImport
  <2> QED BY <1>1, <2>1, ImportFrame DEF Uploads, HistoryKept
<1>2. ASSUME NEW a \in Callers, Elsewhere(a), Blank(a), DOMAIN mail' = DOMAIN mail,
             twice' = twice, batch' = batch,
             \A s \in Sources : dom[s].dest = None => dom'[s].dest = None
      PROVE  OpensInv' /\ LoginInv' /\ RowsInv'
  <2>1. \A b \in Callers : SameImport(b) \/ Blank(b)
    BY <1>2, OthersImport
  <2> QED BY <1>2, <2>1, ImportFrame
<1>3. CASE Activates
  <2>1. Elsewhere(Worker) /\ Blank(Worker)
    BY <1>3, IdleBlank DEF Activates, Ends
  <2> QED BY <1>2, <1>3, <2>1, CallersAre DEF Activates
<1>4. ASSUME NEW a \in Callers, Starts(a)
      PROVE  OpensInv' /\ LoginInv' /\ RowsInv'
  <2>1. Elsewhere(a) /\ Blank(a)
    BY <1>4, NewBlank DEF Starts
  <2> QED BY <1>2, <1>4, <2>1 DEF Starts, RowsKept, HistoryKept
<1>5. ASSUME NEW a \in Callers, Calling(a)
      PROVE  OpensInv' /\ LoginInv' /\ RowsInv'
  <2>1. Elsewhere(a) /\ RowsKept /\ twice' = twice
    BY <1>5 DEF Calling, Drops, Serves, Skips, Loses, Goes, Ends, HistoryKept
  <2>2. Blank(a)
    BY <1>5, CallBlank
  <2> QED BY <1>2, <2>1, <2>2 DEF RowsKept
<1>6. ASSUME NEW a \in Callers, Committing(a)
      PROVE  OpensInv' /\ LoginInv' /\ RowsInv'
  <2>1. Elsewhere(a) /\ req'[a] = Idle /\ DOMAIN mail' = DOMAIN mail /\ twice' = twice /\ batch' = batch
    BY <1>6 DEF Committing, AddsAlias, DropsAlias, ResizesBox, EditsDomain, Ends, Resizes
  <2>2. \A s \in Sources : dom[s].dest = None => dom'[s].dest = None
    <3>1. CASE dom' = dom
      BY <3>1
    <3>2. CASE EditsDomain(a)
      <4>1. req[a].writes => dom[req[a].src].dest # None
        BY <3>2, TablesAre DEF EditsDomain, Op
      <4> QED BY <3>2, <4>1 DEF EditsDomain
    <3> QED BY <1>6, <3>1, <3>2 DEF Committing, AddsAlias, DropsAlias, ResizesBox
  <2> QED BY <1>2, <2>1, <2>2, IdleBlank
<1> QED BY <1>1, <1>3, <1>4, <1>5, <1>6

\* A login is looked up.
LEMMA LookStep ==
    ASSUME IInv, Kinds, NEW a \in Admins, NEW s \in Sources, NEW u \in Users, LooksUp(a, s, u)
    PROVE  OpensInv' /\ LoginInv' /\ RowsInv'
<1> DEFINE r == req[a]
           e == req'[a]
<1>1. /\ a \in Callers /\ r.pc = "look" /\ Elsewhere(a)
      /\ e.pc = "insert" /\ e.now = <<s, u>> /\ e.left = r.left \ {<<s, u>>}
      /\ e.opens = r.opens /\ e.added = r.added /\ e.ids = r.ids
      /\ dom' = dom /\ mail' = mail /\ batch' = batch /\ twice \subseteq twice'
  BY CallersAre DEF LooksUp, Keeps, RowsKept
<1>2. \A b \in Callers \ {a} : SameImport(b)
  BY <1>1, OthersImport
<1>3. \A t \in Sources, v \in Users : InsertsNext(a, t, v) <=> t = s /\ v = u
  BY <1>1 DEF InsertsNext
<1>4. \A t \in Sources, v \in Users : ~Inserts(a, t, v)
  BY <1>1 DEF Inserts
<1>5. dom \in [Sources -> Domain] /\ (dom[s].dest = None => dom[s] = NoDomain)
  BY TablesAre
<1>6. NoDomain.dest = None
  BY NoDomainIs
<1>7. OpensInv'
  <2>1. \A t \in Sources : e.seen[t] = IF t = s /\ r.seen[s] = NoDomain THEN dom[s] ELSE r.seen[t]
    BY DEF LooksUp
  <2>2. \A t \in Sources : /\ e.seen[t].dest = None => e.seen[t] = NoDomain
                           /\ t \in r.opens => e.seen[t].dest # None
    BY <1>1, <1>5, <1>6, <2>1, OpensNow
  <2>3. /\ e.look = "none" => s \notin r.opens
        /\ e.look # "none" => (s \in r.opens \/ dom[s].dest # None) /\ e.seen[s].dest # None
    <3>1. e.look = "none" <=> dom[s].dest = None /\ s \notin r.opens
      BY DEF LooksUp
    <3> QED BY <1>1, <1>6, <2>1, <2>2, <3>1, OpensNow
  <2>4. \A i \in DOMAIN r.added : /\ r.added[i].src \in r.opens \/ dom[r.added[i].src].dest # None
                                  /\ r.added[i].st = "pending" /\ r.added[i].at = None
    BY <1>1, OpensAre
  <2>5. OpensAt(a)
    BY <1>1, <1>3, <2>2, <2>3, <2>4, OpensNow DEF OpensAt
  <2>6. \A b \in Callers : OpensAt(b)
    BY <1>1, <1>2, <2>5, SameOpens, OpensNow
  <2>7. \A b, c \in Callers : b # c => req'[b].opens \cap req'[c].opens = {}
    BY <1>1, <1>2, OpensNow DEF SameImport
  <2> QED BY <2>6, <2>7, OpensNext
<1>8. LoginInv'
  <2>1. e.look = "domain" => /\ dom[s].dest # None \/ s \in r.opens
                             /\ ~Has(mail, s, u) /\ ~Has(r.added, s, u)
    BY DEF LooksUp
  <2>2. LoginsAt(a)
    <3>1. Distinct(r.added)
      BY <1>1 DEF IInv, LoginInv, Distinct
    <3> QED BY <1>1, <1>3, <2>1, <3>1 DEF LoginsAt
  <2>3. \A b \in Callers : LoginsAt(b)
    BY <1>2, <2>2, SameLogins
  <2>4. \A b \in Callers \ {a} : \A t, v : ClaimsNext(b, t, v) <=> Claims(b, t, v)
    BY <1>2, SameLogins
  <2>5. \A t \in Sources, v \in Users :
           ClaimsNext(a, t, v) => Claims(a, t, v) \/ (t = s /\ v = u /\ e.look = "domain")
    BY <1>1, <1>3 DEF ClaimsNext, Claims
  <2>6. ASSUME NEW c \in Callers \ {a}, Claims(c, s, u), e.look = "domain"
        PROVE  <<s, u>> \in twice'
    <3>1. c \in Admins
      <4>1. c # Worker
        <5>1. req[Worker].added = <<>> /\ req[Worker].pc # "insert"
          BY CallersAre, FormIs DEF FormOf
        <5> QED BY <2>6, <5>1 DEF Claims, Has, Inserts
      <4> QED BY <4>1 DEF Callers
    <3>2. Looks(c, s, u)
      BY <2>6 DEF Claims, Looks, Inserts
    <3>3. Opened(c, s)
      <4>1. CASE Has(req[c].added, s, u)
        BY <4>1, OpensAre DEF Has, Opened, Known
      <4>2. CASE Inserts(c, s, u) /\ req[c].look = "domain"
        BY <4>2, OpensNow
      <4> QED BY <2>6, <4>1, <4>2 DEF Claims
    <3>4. dom[s].dest # None
      BY <1>1, <2>1, <2>6, <3>3, OpensNow DEF Opened, Known
    <3> QED BY <3>1, <3>2, <3>4 DEF LooksUp
  <2>7. \A b \in Callers, t \in Sources, v \in Users :
           ClaimsNext(b, t, v) /\ Has(mail', t, v) => <<t, v>> \in twice'
    BY <1>1, <2>1, <2>4, <2>5, LoginNow
  <2>8. \A b, c \in Callers, t \in Sources, v \in Users :
           b # c /\ ClaimsNext(b, t, v) /\ ClaimsNext(c, t, v) => <<t, v>> \in twice'
    <3>1. ASSUME NEW c \in Callers \ {a}, NEW t \in Sources, NEW v \in Users,
                 ClaimsNext(a, t, v), ClaimsNext(c, t, v)
          PROVE  <<t, v>> \in twice'
      BY <1>1, <2>4, <2>5, <2>6, <3>1, LoginNow
    <3>2. ASSUME NEW b \in Callers \ {a}, NEW c \in Callers \ {a}, b # c,
                 NEW t \in Sources, NEW v \in Users, ClaimsNext(b, t, v), ClaimsNext(c, t, v)
          PROVE  <<t, v>> \in twice'
      BY <1>1, <2>4, <3>2, LoginNow
    <3> QED BY <3>1, <3>2
  <2>9. \A i, j \in DOMAIN mail' : i < j =>
           \/ <<mail'[i].src, mail'[i].user>> # <<mail'[j].src, mail'[j].user>>
           \/ <<mail'[i].src, mail'[i].user>> \in twice'
    BY <1>1, LoginNow
  <2> QED BY <2>3, <2>7, <2>8, <2>9, LoginNext
<1>9. RowsInv'
  <2>1. \A k \in r.ids : File[k].ok /\ ~Repeated(k) =>
           \/ Login(k) \in r.left \/ Has(mail, File[k].src, File[k].user)
           \/ Has(r.added, File[k].src, File[k].user)
    <3>1. \A k \in r.ids : File[k].src \in Sources /\ File[k].user \in Users
      BY <1>1, FormIs, RequestIs, FileIs
    <3> QED BY <1>1, <1>4, <3>1 DEF IInv, RowsInv
  <2>2. \A k \in r.ids : Login(k) = <<File[k].src, File[k].user>>
    BY DEF Login
  <2>3. e.look = "login" => Has(mail, s, u) \/ Has(r.added, s, u)
    BY DEF LooksUp
  <2>4. RowsAt(a)
    BY <1>1, <1>3, <2>1, <2>2, <2>3 DEF RowsAt, InsertsNext
  <2>5. \A b \in Callers : RowsAt(b)
    BY <1>2, <2>4, SameRows
  <2>6. \A k \in batch'.chosen : File[k].ok /\ ~Repeated(k) => Has(mail', File[k].src, File[k].user)
    BY <1>1 DEF IInv, RowsInv
  <2> QED BY <2>5, <2>6, RowsNext
<1> QED BY <1>7, <1>8, <1>9

\* What an insert appends.
LEMMA AppendIs ==
    ASSUME NEW x \in Seq(Mailbox), NEW m
    PROVE  /\ DOMAIN Append(x, m) = 1..(Len(x) + 1) /\ DOMAIN x = 1..Len(x) /\ Len(x) \in Nat
           /\ \A i \in DOMAIN x : Append(x, m)[i] = x[i]
           /\ Append(x, m)[Len(x) + 1] = m
OBVIOUS

LEMMA HasAppend ==
    ASSUME NEW x \in Seq(Mailbox), NEW m
    PROVE  \A t, v : Has(Append(x, m), t, v) <=> Has(x, t, v) \/ (m.src = t /\ m.user = v)
<1> DEFINE y == Append(x, m)
<1>1. /\ DOMAIN y = 1..(Len(x) + 1) /\ DOMAIN x = 1..Len(x) /\ Len(x) \in Nat
      /\ \A i \in DOMAIN x : y[i] = x[i]
      /\ y[Len(x) + 1] = m
  BY AppendIs
<1> HIDE DEF y
<1>2. \A i \in DOMAIN y : i \in DOMAIN x \/ i = Len(x) + 1
  BY <1>1
<1>3. Len(x) + 1 \in DOMAIN y /\ DOMAIN x \subseteq DOMAIN y
  BY <1>1
<1> QED BY <1>1, <1>2, <1>3 DEF Has, y

LEMMA DistinctAppend ==
    ASSUME NEW x \in Seq(Mailbox), NEW m, Distinct(x), ~Has(x, m.src, m.user)
    PROVE  Distinct(Append(x, m))
<1> DEFINE y == Append(x, m)
<1>1. /\ DOMAIN y = 1..(Len(x) + 1) /\ DOMAIN x = 1..Len(x) /\ Len(x) \in Nat
      /\ \A i \in DOMAIN x : y[i] = x[i]
      /\ y[Len(x) + 1] = m
  BY AppendIs
<1> HIDE DEF y
<1>2. ASSUME NEW i \in DOMAIN y, NEW j \in DOMAIN y, i < j
      PROVE  <<y[i].src, y[i].user>> # <<y[j].src, y[j].user>>
  <2>1. i \in DOMAIN x
    BY <1>1, <1>2
  <2>2. CASE j \in DOMAIN x
    BY <1>1, <1>2, <2>1, <2>2 DEF Distinct
  <2>3. CASE j \notin DOMAIN x
    <3>1. j = Len(x) + 1
      BY <1>1, <2>3
    <3> QED BY <1>1, <2>1, <3>1 DEF Has
  <2> QED BY <2>2, <2>3
<1> QED BY <1>2 DEF Distinct, y

\* Who has claimed a login knows, or opened, its domain.
LEMMA ClaimsOpened ==
    ASSUME IInv, NEW b \in Callers, NEW s \in Sources, NEW u \in Users, Claims(b, s, u)
    PROVE  Opened(b, s)
<1>1. CASE Has(req[b].added, s, u)
  BY <1>1, OpensAre DEF Has, Opened, Known
<1>2. CASE Inserts(b, s, u) /\ req[b].look = "domain"
  BY <1>2, OpensNow
<1> QED BY <1>1, <1>2 DEF Claims

\* A login is inserted, if the look-up did not find it.
LEMMA AddStep ==
    ASSUME IInv, Kinds, NEW a \in Admins, NEW s \in Sources, NEW u \in Users, Adds(a, s, u)
    PROVE  OpensInv' /\ LoginInv' /\ RowsInv'
<1> DEFINE r == req[a]
           e == req'[a]
           box == BoxOf(s, u, e.seen[s])
<1>1. /\ a \in Callers /\ r.pc = "insert" /\ r.now = <<s, u>> /\ Elsewhere(a)
      /\ e.pc = "look" /\ e.left = r.left /\ e.ids = r.ids
      /\ e.opens = IF r.look = "none" THEN r.opens \cup {s} ELSE r.opens
      /\ e.added = IF r.look = "login" THEN r.added ELSE Append(r.added, box)
      /\ dom' = dom /\ mail' = mail /\ batch' = batch /\ twice' = twice
  BY CallersAre DEF Adds, Keeps, RowsKept, HistoryKept
<1>2. \A b \in Callers \ {a} : SameImport(b)
  BY <1>1, OthersImport
<1>3. Inserts(a, s, u) /\ \A t, v : ~InsertsNext(a, t, v)
  BY <1>1 DEF Inserts, InsertsNext
<1>4. r.look = "none" => /\ dom[s].dest = None /\ s \notin r.opens
                         /\ \A b \in Callers \ {a} : s \notin req[b].opens
  BY <1>1, <1>3, OpensNow DEF Adds
<1>5. box.src = s /\ box.user = u /\ box.st = "pending" /\ box.at = None
  BY DEF BoxOf
<1>6. r.added \in Seq(Mailbox)
  BY <1>1, OpensNow
<1>7. r.look \in {"none", "domain", "login"}
  BY <1>1, FormIs, RequestIs
<1> HIDE DEF box
<1>8. OpensInv'
  <2>1. \A t \in Sources : t \in e.opens => dom[t].dest = None
    BY <1>1, <1>4, OpensNow
  <2>2. ASSUME NEW i \in DOMAIN e.added
        PROVE  /\ e.added[i].src \in e.opens \/ dom[e.added[i].src].dest # None
               /\ e.added[i].st = "pending" /\ e.added[i].at = None
    <3>1. CASE i \in DOMAIN r.added /\ e.added[i] = r.added[i]
      BY <1>1, <3>1, OpensAre
    <3>2. CASE e.added[i] = box /\ r.look # "login"
      <4>1. r.look # "none" => Opened(a, s)
        BY <1>1, <1>3, OpensNow
      <4> QED BY <1>1, <1>5, <3>2, <4>1 DEF Opened, Known
    <3>3. CASE r.look = "login"
      BY <1>1, <3>1, <3>3
    <3>4. CASE r.look # "login"
      <4>1. e.added = Append(r.added, box)
        BY <1>1, <3>4
      <4>2. (i \in DOMAIN r.added /\ e.added[i] = r.added[i]) \/ e.added[i] = box
        BY <1>6, <4>1, AppendIs
      <4> QED BY <3>1, <3>2, <3>4, <4>2
    <3> QED BY <3>3, <3>4
  <2>3. \A t \in Sources : /\ e.seen[t].dest = None => e.seen[t] = NoDomain
                           /\ t \in e.opens => e.seen[t].dest # None
    <3>1. \A t \in Sources : t # s => e.seen[t] = r.seen[t]
      BY DEF Adds
    <3>2. e.seen[s].dest # None
      BY DEF Adds
    <3> QED BY <1>1, <3>1, <3>2, OpensNow
  <2>4. OpensAt(a)
    BY <1>1, <1>3, <2>1, <2>2, <2>3 DEF OpensAt
  <2>5. \A b \in Callers : OpensAt(b)
    BY <1>1, <1>2, <2>4, SameOpens, OpensNow
  <2>6. \A b, c \in Callers : b # c => req'[b].opens \cap req'[c].opens = {}
    <3>1. \A b \in Callers \ {a} : req'[b].opens = req[b].opens
      BY <1>2 DEF SameImport
    <3> QED BY <1>1, <1>4, <3>1, OpensNow
  <2> QED BY <2>5, <2>6, OpensNext
<1>9. r.look # "login" => ~Has(r.added, s, u)
  <2>1. CASE r.look = "domain"
    BY <1>1, <1>3, <2>1 DEF IInv, LoginInv
  <2>2. CASE r.look = "none"
    <3>1. ASSUME Has(r.added, s, u)
          PROVE  FALSE
      <4>1. Opened(a, s)
        BY <1>1, <3>1, ClaimsOpened DEF Claims
      <4> QED BY <1>4, <2>2, <4>1 DEF Opened, Known
    <3> QED BY <3>1
  <2> QED BY <1>7, <2>1, <2>2
<1>10. LoginInv'
  <2>1. LoginsAt(a)
    <3>1. Distinct(r.added)
      BY <1>1 DEF IInv, LoginInv, Distinct
    <3>2. Distinct(e.added)
      <4>1. CASE r.look = "login"
        BY <1>1, <3>1, <4>1
      <4>2. CASE r.look # "login"
        BY <1>1, <1>5, <1>6, <1>9, <3>1, <4>2, DistinctAppend
      <4> QED BY <4>1, <4>2
    <3> QED BY <1>3, <3>2 DEF LoginsAt
  <2>2. \A b \in Callers : LoginsAt(b)
    BY <1>2, <2>1, SameLogins
  <2>3. \A b \in Callers \ {a} : \A t, v : ClaimsNext(b, t, v) <=> Claims(b, t, v)
    BY <1>2, SameLogins
  <2>4. ASSUME NEW t \in Sources, NEW v \in Users, ClaimsNext(a, t, v)
        PROVE  Claims(a, t, v) \/ (t = s /\ v = u /\ r.look = "none")
    <3>1. Has(e.added, t, v)
      BY <1>3, <2>4 DEF ClaimsNext
    <3>2. CASE r.look = "login"
      BY <1>1, <3>1, <3>2 DEF Claims
    <3>3. CASE r.look # "login"
      <4>1. Has(r.added, t, v) \/ (t = s /\ v = u)
        BY <1>1, <1>5, <1>6, <3>1, <3>3, HasAppend
      <4> QED BY <1>3, <1>7, <3>3, <4>1 DEF Claims
    <3> QED BY <3>2, <3>3
  <2>5. ASSUME r.look = "none"
        PROVE  /\ ~Has(mail, s, u)
               /\ \A c \in Callers \ {a} : ~Claims(c, s, u)
    <3>1. ~Has(mail, s, u)
      BY <1>4, <2>5, TablesAre DEF Has
    <3>2. \A c \in Callers \ {a} : ~Claims(c, s, u)
      BY <1>4, <2>5, ClaimsOpened DEF Opened, Known
    <3> QED BY <3>1, <3>2
  <2>6. \A b \in Callers, t \in Sources, v \in Users :
           ClaimsNext(b, t, v) /\ Has(mail', t, v) => <<t, v>> \in twice'
    BY <1>1, <2>3, <2>4, <2>5, LoginNow
  <2>7. \A b, c \in Callers, t \in Sources, v \in Users :
           b # c /\ ClaimsNext(b, t, v) /\ ClaimsNext(c, t, v) => <<t, v>> \in twice'
    <3>1. ASSUME NEW c \in Callers \ {a}, NEW t \in Sources, NEW v \in Users,
                 ClaimsNext(a, t, v), ClaimsNext(c, t, v)
          PROVE  <<t, v>> \in twice'
      BY <1>1, <2>3, <2>4, <2>5, <3>1, LoginNow
    <3>2. ASSUME NEW b \in Callers \ {a}, NEW c \in Callers \ {a}, b # c,
                 NEW t \in Sources, NEW v \in Users, ClaimsNext(b, t, v), ClaimsNext(c, t, v)
          PROVE  <<t, v>> \in twice'
      BY <1>1, <2>3, <3>2, LoginNow
    <3> QED BY <3>1, <3>2
  <2>8. \A i, j \in DOMAIN mail' : i < j =>
           \/ <<mail'[i].src, mail'[i].user>> # <<mail'[j].src, mail'[j].user>>
           \/ <<mail'[i].src, mail'[i].user>> \in twice'
    BY <1>1, LoginNow
  <2> QED BY <2>2, <2>6, <2>7, <2>8, LoginNext
<1>11. RowsInv'
  <2>1. ASSUME NEW t, NEW v, Has(r.added, t, v)
        PROVE  Has(e.added, t, v)
    BY <1>1, <1>6, <2>1, HasAppend
  <2>2. Has(mail, s, u) \/ Has(e.added, s, u)
    <3>1. CASE r.look = "login"
      BY <1>1, <1>3, <2>1, <3>1 DEF IInv, RowsInv
    <3>2. CASE r.look # "login"
      BY <1>1, <1>5, <1>6, <3>2, HasAppend
    <3> QED BY <3>1, <3>2
  <2>3. \A k \in r.ids : File[k].ok /\ ~Repeated(k) =>
           \/ Login(k) \in r.left \/ Has(mail, File[k].src, File[k].user)
           \/ Has(e.added, File[k].src, File[k].user)
    <3>1. \A k \in r.ids : File[k].ok /\ ~Repeated(k) =>
             \/ Login(k) \in r.left \/ Inserts(a, File[k].src, File[k].user)
             \/ Has(mail, File[k].src, File[k].user) \/ Has(r.added, File[k].src, File[k].user)
      BY <1>1 DEF IInv, RowsInv
    <3>2. \A t, v : Inserts(a, t, v) => t = s /\ v = u
      BY <1>1 DEF Inserts
    <3> QED BY <2>1, <2>2, <3>1, <3>2
  <2>4. RowsAt(a)
    BY <1>1, <1>3, <2>3 DEF RowsAt
  <2>5. \A b \in Callers : RowsAt(b)
    BY <1>2, <2>4, SameRows
  <2>6. \A k \in batch'.chosen : File[k].ok /\ ~Repeated(k) => Has(mail', File[k].src, File[k].user)
    BY <1>1 DEF IInv, RowsInv
  <2> QED BY <2>5, <2>6, RowsNext
<1> QED BY <1>8, <1>10, <1>11

\* The import is committed.
LEMMA CommitStep ==
    ASSUME IInv, Kinds, NEW a \in Callers, CommitsImport(a)
    PROVE  OpensInv' /\ LoginInv' /\ RowsInv'
<1> DEFINE x == req[a].added
<1>1. /\ req[a].pc = "look" /\ req[a].left = {} /\ Elsewhere(a) /\ req'[a] = Idle
      /\ twice' = twice /\ mail' = mail \o x
      /\ batch'.chosen \subseteq batch.chosen \cup req[a].ids
      /\ \A s \in Sources : s \notin req[a].opens => dom'[s] = dom[s]
  BY DEF CommitsImport, Ends, HistoryKept
<1>2. mail \in Seq(Mailbox) /\ x \in Seq(Mailbox)
  BY FormIs, OpensNow DEF TypeOK
<1>3. Blank(a) /\ \A b \in Callers \ {a} : SameImport(b)
  BY <1>1, IdleBlank, OthersImport
<1>4. OpensInv'
  <2>1. ASSUME NEW b \in Callers \ {a}, NEW s \in Sources, s \in req[b].opens
        PROVE  dom'[s].dest = None
    BY <1>1, <2>1, OpensNow
  <2>2. \A b \in Callers : OpensAt(b)
    BY <1>3, <2>1, SameOpens, BlankOpens
  <2>3. \A b, c \in Callers : b # c => req'[b].opens \cap req'[c].opens = {}
    BY <1>3, OpensNow DEF SameImport, Blank
  <2> QED BY <2>2, <2>3, OpensNext
<1>5. /\ \A i \in DOMAIN mail' : i \notin DOMAIN mail => i - Len(mail) \in DOMAIN x /\ mail'[i] = x[i - Len(mail)]
      /\ \A i \in DOMAIN mail : mail'[i] = mail[i] /\ i \in DOMAIN mail'
      /\ \A i \in DOMAIN x : i + Len(mail) \in DOMAIN mail' /\ mail'[i + Len(mail)] = x[i]
      /\ DOMAIN mail' \subseteq Nat
  BY <1>1, <1>2, ConcatIs
<1>6. \A s, u : Has(mail', s, u) <=> Has(mail, s, u) \/ Has(x, s, u)
  <2>1. \A s, u : Has(mail', s, u) => Has(mail, s, u) \/ Has(x, s, u)
    BY <1>5 DEF Has
  <2>2. \A s, u : Has(mail, s, u) => Has(mail', s, u)
    BY <1>5 DEF Has
  <2>3. \A s, u : Has(x, s, u) => Has(mail', s, u)
    BY <1>5 DEF Has
  <2> QED BY <2>1, <2>2, <2>3
<1>7. \A s, u : Has(x, s, u) => Claims(a, s, u)
  BY DEF Claims
<1>8. LoginInv'
  <2>1. \A b \in Callers : LoginsAt(b)
    BY <1>3, SameLogins, BlankLogins
  <2>2. \A s, u : ~ClaimsNext(a, s, u)
    BY <1>3, BlankLogins
  <2>3. \A b \in Callers \ {a} : \A s, u : ClaimsNext(b, s, u) <=> Claims(b, s, u)
    BY <1>3, SameLogins
  <2>4. \A b \in Callers, s \in Sources, u \in Users :
           ClaimsNext(b, s, u) /\ Has(mail', s, u) => <<s, u>> \in twice'
    BY <1>1, <1>6, <1>7, <2>2, <2>3, LoginNow
  <2>5. \A b, c \in Callers, s \in Sources, u \in Users :
           b # c /\ ClaimsNext(b, s, u) /\ ClaimsNext(c, s, u) => <<s, u>> \in twice'
    BY <1>1, <2>2, <2>3, LoginNow
  <2>6. ASSUME NEW i \in DOMAIN mail', NEW j \in DOMAIN mail', i < j,
               <<mail'[i].src, mail'[i].user>> = <<mail'[j].src, mail'[j].user>>
        PROVE  <<mail'[i].src, mail'[i].user>> \in twice'
    <3>1. DOMAIN mail = 1..Len(mail) /\ Len(mail) \in Nat /\ DOMAIN x = 1..Len(x) /\ Len(x) \in Nat
      BY <1>2
    <3>2. i \in Nat /\ j \in Nat
      BY <1>5
    <3>3. CASE i \in DOMAIN mail /\ j \in DOMAIN mail
      BY <1>1, <1>5, <2>6, <3>3, LoginNow
    <3>4. CASE i \in DOMAIN mail /\ j \notin DOMAIN mail
      <4>1. mail'[i] = mail[i] /\ mail[i] \in Mailbox
        BY <1>5, <3>4, TablesAre
      <4>2. mail'[i].src \in Sources /\ mail'[i].user \in Users /\ Has(mail, mail'[i].src, mail'[i].user)
        BY <3>4, <4>1 DEF Has, Mailbox
      <4>3. Has(x, mail'[i].src, mail'[i].user)
        BY <1>5, <2>6, <3>4 DEF Has
      <4> QED BY <1>1, <1>7, <4>2, <4>3, LoginNow
    <3>5. CASE i \notin DOMAIN mail /\ j \notin DOMAIN mail
      <4> DEFINE p == i - Len(mail)
                 q == j - Len(mail)
      <4>1. p \in DOMAIN x /\ q \in DOMAIN x /\ mail'[i] = x[p] /\ mail'[j] = x[q]
        BY <1>5, <3>5
      <4>2. p < q
        BY <2>6, <3>1, <3>2
      <4> HIDE DEF p, q
      <4>3. Distinct(x)
        BY DEF IInv, LoginInv, Distinct
      <4> QED BY <2>6, <4>1, <4>2, <4>3 DEF Distinct
    <3>6. ~(i \notin DOMAIN mail /\ j \in DOMAIN mail)
      <4>1. i \notin DOMAIN mail => i > Len(mail)
        <5>1. i \notin DOMAIN mail => i - Len(mail) \in DOMAIN x
          BY <1>5
        <5> QED BY <3>1, <3>2, <5>1
      <4> QED BY <2>6, <3>1, <3>2, <4>1
    <3> QED BY <3>3, <3>4, <3>5, <3>6
  <2> QED BY <2>1, <2>4, <2>5, <2>6, LoginNext
<1>9. RowsInv'
  <2>1. \A b \in Callers : RowsAt(b)
    BY <1>3, SameRows, BlankRows
  <2>2. ASSUME NEW k \in batch'.chosen, File[k].ok, ~Repeated(k)
        PROVE  Has(mail', File[k].src, File[k].user)
    <3>1. CASE k \in batch.chosen
      BY <2>2, <3>1, HasGrows DEF IInv, RowsInv
    <3>2. CASE k \in req[a].ids
      <4>1. \A s, u : ~Inserts(a, s, u)
        BY <1>1 DEF Inserts
      <4>2. Has(mail, File[k].src, File[k].user) \/ Has(x, File[k].src, File[k].user)
        BY <1>1, <2>2, <3>2, <4>1 DEF IInv, RowsInv
      <4> QED BY <1>6, <4>2
    <3> QED BY <1>1, <3>1, <3>2
  <2> QED BY <2>1, <2>2, RowsNext
<1> QED BY <1>4, <1>8, <1>9

LEMMA ImportStep ==
    ASSUME IInv, Kinds
    PROVE  OpensInv' /\ LoginInv' /\ RowsInv'
<1>1. CASE Uploads \/ Activates
  BY <1>1, QuietStep
<1>2. ASSUME NEW a \in Callers, Starts(a) \/ Calling(a) \/ Committing(a)
      PROVE  OpensInv' /\ LoginInv' /\ RowsInv'
  BY <1>2, QuietStep
<1>3. ASSUME NEW a \in Admins, Importing(a)
      PROVE  OpensInv' /\ LoginInv' /\ RowsInv'
  BY <1>3, LookStep, AddStep, CommitStep, CallersAre DEF Importing
<1> QED BY <1>1, <1>2, <1>3, CallersAre DEF Kinds

-----------------------------------------------------------------------------
(* The theorems. *)

LEMMA InitInv == Init => IInv
<1> SUFFICES ASSUME Init PROVE IInv
  OBVIOUS
<1>1. \A a \in Callers : req[a] = Idle
  BY DEF Init
<1>2. mail = <<>> /\ DOMAIN mail = {} /\ mail \in Seq(Mailbox) /\ Len(mail) = 0
  BY DEF Init
<1>3. /\ \A s \in Sources : dom[s] = NoDomain
      /\ \A n \in Names : alias[n] = None /\ vm2.alias[n] = None
      /\ \A d \in Names, u \in Users : vm2.box[d, u] = None
      /\ batch.chosen = {} /\ doubt = {} /\ moved = {} /\ twice = {} /\ made = {}
  BY DEF Init
<1>4. TypeOK
  <2>1. dom \in [Sources -> Domain]
    BY NoDomainIs DEF Init
  <2>2. req \in [Callers -> Request]
    BY IdleRequest DEF Init
  <2>3. vm2 \in Vm2
    BY DEF Init, Vm2
  <2> QED BY <1>2, <2>1, <2>2, <2>3, DirectoryAssumption DEF Init, TypeOK, Batch
<1>5. FormInv
  BY <1>1, IdleForm, IdleIs DEF FormInv
<1>6. TablesInv
  BY <1>1, <1>2, <1>3, IdleIs DEF TablesInv, Known, Op
<1>7. TornInv
  BY <1>1, IdleThings DEF TornInv
<1>8. AliasInv
  BY <1>1, <1>3, IdleIs DEF AliasInv, Named, Target, Op
<1>9. MailboxInv /\ QuotaInv /\ WorkerInv
  BY <1>1, <1>2, <1>3, CallersAre, IdleIs DEF MailboxInv, QuotaInv, WorkerInv
<1>10. \A s, u : ~Has(Idle.added, s, u) /\ ~Has(mail, s, u)
  BY <1>2, IdleIs DEF Has
<1>11. OpensInv
  <2>1. \A a \in Callers : /\ req[a].opens = {} /\ req[a].added = <<>> /\ req[a].pc = "idle"
                           /\ \A s \in Sources : req[a].seen[s] = NoDomain
    BY <1>1, IdleIs
  <2> QED BY <2>1 DEF OpensInv, Inserts
<1>12. LoginInv
  BY <1>1, <1>2, <1>10, IdleIs DEF LoginInv, Claims, Inserts
<1>13. RowsInv
  BY <1>1, <1>3, IdleIs DEF RowsInv, Inserts
<1> QED BY <1>4, <1>5, <1>6, <1>7, <1>8, <1>9, <1>11, <1>12, <1>13 DEF IInv

LEMMA NextInv == IInv /\ [Next]_vars => IInv'
<1> SUFFICES ASSUME IInv, [Next]_vars PROVE IInv'
  OBVIOUS
<1>1. TypeOK' /\ Kinds
  BY StepKinds
<1> QED BY <1>1, FormStep, TablesStep, TornStep, AliasStep, MailStep, ImportStep DEF IInv

THEOREM Inductive == Spec => []IInv
BY InitInv, NextInv, PTL DEF Spec

\* Every variable keeps its type, however many requests of however many administrators
\* interleave: so a domain that exists has a destination and a mailbox an address.
THEOREM TypeCorrect == Spec => []TypeOK
<1>1. IInv => TypeOK
  BY DEF IInv
<1> QED BY <1>1, Inductive, PTL

\* The two machines agree about every alias and about the quota of every active
\* mailbox that has its address for itself, whenever nobody is at it, unless an answer
\* was lost, a transaction was rolled back after VM2 had been told, two requests met
\* on it or its domain was renamed.
THEOREM SidesStayAgreed == Spec => []SidesAgree
<1>1. IInv => SidesAgree
  <2> SUFFICES ASSUME IInv PROVE SidesAgree
    OBVIOUS
  <2>1. ASSUME NEW n \in Names \ (doubt \cup moved), ~Busy(n)
        PROVE  vm2.alias[n] = IF alias[n] = None THEN None ELSE dom[alias[n]].dest
    <3>1. \A b \in Callers : Named(b, n) => req[b].pc # "commit"
      BY <2>1 DEF Busy, Named, Op, IsOpen, Things
    <3> QED BY <2>1, <3>1, AliasNow DEF Target
  <2>2. ASSUME NEW i \in DOMAIN mail, mail[i].st = "active", ~Busy(i), i \notin doubt, Sole(i)
        PROVE  vm2.box[mail[i].at, mail[i].user] = mail[i].quota
    <3>1. \A b \in Callers : ~(req[b].op \in {"quota", "domain"} /\ i \in req[b].done)
      <4>1. \A b \in Callers : i \in req[b].done => ~IsOpen(b)
        BY <2>2 DEF Busy, Things
      <4> QED BY <4>1, ClosedHasNothing
    <3>2. SoleAt(i, mail[i].at)
      BY <2>2 DEF Sole, SoleAt
    <3> QED BY <2>2, <3>1, <3>2, MailNow
  <2> QED BY <2>1, <2>2 DEF SidesAgree
<1> QED BY <1>1, Inductive, PTL

\* Whatever confirmations of an import and additions by hand run at the same time, a
\* login has one mailbox, unless two of them looked it up at once in a domain that was
\* already there, and every valid row of a confirmed import has its mailbox.
THEOREM OneMailboxEach == Spec => []OneMailbox
<1>1. IInv => OneMailbox
  <2> SUFFICES ASSUME IInv PROVE OneMailbox
    OBVIOUS
  <2>1. \A i, j \in DOMAIN mail : i < j /\ <<mail[i].src, mail[i].user>> \notin twice =>
           <<mail[i].src, mail[i].user>> # <<mail[j].src, mail[j].user>>
    BY LoginNow
  <2>2. \A k \in batch.chosen : File[k].ok /\ ~Repeated(k) => Has(mail, File[k].src, File[k].user)
    BY DEF IInv, RowsInv
  <2> QED BY <2>1, <2>2 DEF OneMailbox
<1> QED BY <1>1, Inductive, PTL

=============================================================================
