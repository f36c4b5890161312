--------------------------- MODULE AccountsProofs ---------------------------
(***************************************************************************)
(* Proofs about Accounts, for every set of accounts, browsers and recovery *)
(* codes, every number of credentials and of first visits.  They rest on   *)
(* torn: what a request has read still holds at its commit unless another  *)
(* request that decides on the same thing came in between.                 *)
(***************************************************************************)
EXTENDS Accounts, FiniteSetTheorems, SequenceTheorems, TLAPS

\* What a request has read belongs to something that was there.
RequestOk(r) ==
    /\ r.op \in {"account", "totp", "step"} => r.at \in DOMAIN inst
    /\ r.op \in {"account", "totp", "recovery", "deactivate", "delete"} => r.on \in Users
    /\ r.op \in {"totp", "step"} => inst[r.at].step > 0
    /\ r.op = "step" => r.step \in 2..4
    /\ r.op = "recovery" => r.cred \in 1..lastCred
    /\ r.op \in {"deactivate", "delete"} => Panel

RequestInv == \A b \in Browsers : RequestOk(req[b])

\* There are as many rows of the wizard as first visits at the most.
Visits == {b \in Browsers : req[b].op = "visit"}
VisitInv == Len(inst) + Cardinality(Visits) <= MaxRows

\* Who switches an account off, or deletes it, leaves another active one.
AdminInv ==
    ~torn =>
        /\ (\E at \in DOMAIN inst : inst[at].step > 0 \/ ~inst[at].first) => Active # {}
        /\ \A b \in Browsers :
              req[b].op \in {"deactivate", "delete"} => Active \ {req[b].on} # {}

\* A list of codes that is written back holds none that was used.
CodesInv ==
    /\ \A u \in Users : acc[u].cred = 0 => acc[u].used = {}
    /\ ~torn =>
        /\ CodeWorksOnce
        /\ \A b \in Browsers :
              /\ req[b].op = "recovery"
              /\ acc[req[b].on].cred = req[b].cred
              => req[b].left \cap (acc[req[b].on].used \cup req[b].code) = {}

\* Before the wizard ends nobody can take an account or a second factor away.
HasAdmin == \E u \in Active : acc[u].cred # 0
SetupInv ==
    ~Panel =>
        /\ \A u \in Users : acc[u].st # "off"
        /\ \A b \in Browsers : req[b].op = "totp" => Exists(req[b].on)
        /\ ~torn /\ ( \/ \E at \in DOMAIN inst : inst[at].step > 1
                      \/ \E b \in Browsers : req[b].op = "step" ) => HasAdmin

\* With one row, the wizard stands at its last step when it has ended, and nobody
\* has a step of it under way.
StepOps == {"account", "totp", "step"}
DoneInv ==
    Panel /\ ~torn /\ Len(inst) <= 1 =>
        /\ \A at \in DOMAIN inst : inst[at].step = 5
        /\ \A b \in Browsers : req[b].op \notin StepOps

IInv == TypeOK /\ RequestInv /\ VisitInv /\ AdminInv /\ CodesInv /\ SetupInv /\ DoneInv

-----------------------------------------------------------------------------
\* The steps of the module: quiet ones change nothing but a cookie.
Quiet == UNCHANGED <<acc, lastCred, inst, req, torn>>

Refused(b) == SetupRejected(b) \/ RecoveryRejected(b) \/ AdminRejected(b)

Manages(b, u) == Create(b, u) \/ Activate(b, u) \/ ResetTotp(b, u)

StepOf(b) ==
    \/ Visit(b) \/ VisitCommit(b) \/ SetupAccount(b) \/ SetupAccountCommit(b)
    \/ SetupTotp(b) \/ SetupTotpCommit(b) \/ SetupStep(b) \/ SetupStepCommit(b)
    \/ Refused(b) \/ (\E code \in Codes : Recovery(b, code)) \/ RecoveryCommit(b)
    \/ Enrol(b) \/ DeactivateCommit(b) \/ DeleteCommit(b)
    \/ \E u \in Users : Manages(b, u) \/ Deactivate(b, u) \/ Delete(b, u)

\* Every step is one of these.
LEMMA Steps ==
    ASSUME [Next]_vars
    PROVE  Quiet \/ (\E b \in Browsers : StepOf(b)) \/ (\E u \in Users : Rescue(u))
<1>1. CASE UNCHANGED vars
  BY <1>1 DEF vars, Quiet
<1>2. CASE \E b \in Browsers : Wizard(b) \/ Login(b) \/ Administration(b)
  <2>1. PICK b \in Browsers : Wizard(b) \/ Login(b) \/ Administration(b)
    BY <1>2
  <2>2. CASE Wizard(b)
    BY <2>2 DEF Wizard, StepOf, Refused
  <2>3. CASE Login(b)
    BY <2>3 DEF Login, StepOf, Refused, Password, LoginCode, LoginDropped, ShowCodes,
                Logout, LoseCookie, Stored, Quiet
  <2>4. CASE Administration(b)
    BY <2>4 DEF Administration, StepOf, Refused, Manages, LoginRequired, Stored, Quiet
  <2> QED BY <2>1, <2>2, <2>3, <2>4
<1> QED BY <1>1, <1>2 DEF Next

\* Nobody's transaction changes what another browser asked for.
LEMMA RequestsApart ==
    ASSUME TypeOK, NEW b \in Browsers
    PROVE  /\ NoRequest \in Request
           /\ \A r \in Request : Asks(b, r) =>
                 /\ req' \in [Browsers -> Request]
                 /\ req'[b] = r
                 /\ \A d \in Browsers \ {b} : req'[d] = req[d]
           /\ Ends(b) \/ Rejected(b) =>
                 /\ req' \in [Browsers -> Request]
                 /\ req'[b] = NoRequest
                 /\ \A d \in Browsers \ {b} : req'[d] = req[d]
<1>1. NoRequest \in Request
  BY AccountsAssumption DEF NoRequest, Request, Ops, MaybeUser
<1>2. req \in [Browsers -> Request]
  BY DEF TypeOK
<1>3. \A r \in Request : Asks(b, r) => req' = [req EXCEPT ![b] = r]
  BY DEF Asks
<1>4. Ends(b) \/ Rejected(b) => req' = [req EXCEPT ![b] = NoRequest]
  BY DEF Ends, Rejected
<1> HIDE DEF Request, NoRequest
<1> QED BY <1>1, <1>2, <1>3, <1>4

\* A request keeps its type when a field gets a value of its own type.
LEMMA FieldTypes ==
    ASSUME NEW r \in Request
    PROVE  /\ \A op \in Ops : [r EXCEPT !.op = op] \in Request
           /\ \A on \in MaybeUser : [r EXCEPT !.on = on] \in Request
           /\ \A at \in 0..MaxRows : [r EXCEPT !.at = at] \in Request
           /\ \A step \in 0..5 : [r EXCEPT !.step = step] \in Request
           /\ \A cred \in 0..MaxCred : [r EXCEPT !.cred = cred] \in Request
           /\ \A code \in SUBSET Codes : [r EXCEPT !.code = code] \in Request
           /\ \A left \in SUBSET Codes : [r EXCEPT !.left = left] \in Request
BY DEF Request

\* Each request that a handler starts has its type.
LEMMA AskTypes ==
    ASSUME TypeOK
    PROVE  /\ [NoRequest EXCEPT !.op = "visit"] \in Request
           /\ \A at \in DOMAIN inst, u \in Users :
                 /\ [NoRequest EXCEPT !.op = "account", !.on = u, !.at = at] \in Request
                 /\ [NoRequest EXCEPT !.op = "totp", !.on = u, !.at = at] \in Request
           /\ \A at \in DOMAIN inst, step \in 2..4 :
                 [NoRequest EXCEPT !.op = "step", !.at = at, !.step = step] \in Request
           /\ \A u \in Users, code \in Codes :
                 [NoRequest EXCEPT !.op = "recovery", !.on = u, !.cred = acc[u].cred,
                      !.code = {code}, !.left = acc[u].codes \ {code}] \in Request
           /\ \A u \in Users, op \in {"deactivate", "delete"} :
                 [NoRequest EXCEPT !.op = op, !.on = u] \in Request
<1>1. \A at \in DOMAIN inst : at \in 0..MaxRows
  <2>1. DOMAIN inst = 1..Len(inst) /\ Len(inst) \in Nat /\ Len(inst) <= MaxRows
    BY LenProperties DEF TypeOK
  <2> QED BY <2>1, AccountsAssumption
<1>2. \A u \in Users : acc[u].cred \in 0..MaxCred /\ acc[u].codes \in SUBSET Codes
  BY DEF TypeOK, Account
<1>3. /\ Users \subseteq MaybeUser /\ NoUser \in MaybeUser
      /\ 0 \in 0..MaxRows /\ 0 \in 0..MaxCred /\ 0 \in 0..5 /\ 2..4 \subseteq 0..5
      /\ {} \in SUBSET Codes
  BY AccountsAssumption DEF MaybeUser
<1>4. Ops = {"none", "visit", "account", "totp", "step", "recovery", "deactivate", "delete"}
  BY DEF Ops
<1>5. NoRequest \in Request
  BY AccountsAssumption DEF NoRequest, Request, Ops, MaybeUser
<1>6. [NoRequest EXCEPT !.op = "visit"] \in Request
  BY <1>4, <1>5, FieldTypes
<1>7. ASSUME NEW at \in DOMAIN inst, NEW u \in Users
      PROVE  /\ [NoRequest EXCEPT !.op = "account", !.on = u, !.at = at] \in Request
             /\ [NoRequest EXCEPT !.op = "totp", !.on = u, !.at = at] \in Request
  <2> DEFINE a == [NoRequest EXCEPT !.op = "account"]
             t == [NoRequest EXCEPT !.op = "totp"]
  <2>1. a \in Request /\ t \in Request
    BY <1>4, <1>5, FieldTypes
  <2> HIDE DEF a, t
  <2>2. [a EXCEPT !.on = u] \in Request /\ [t EXCEPT !.on = u] \in Request
    BY <2>1, <1>3, FieldTypes
  <2>3. /\ [[a EXCEPT !.on = u] EXCEPT !.at = at] \in Request
        /\ [[t EXCEPT !.on = u] EXCEPT !.at = at] \in Request
    BY <2>2, <1>1, FieldTypes
  <2> QED BY <2>3 DEF a, t
<1>8. ASSUME NEW at \in DOMAIN inst, NEW step \in 2..4
      PROVE  [NoRequest EXCEPT !.op = "step", !.at = at, !.step = step] \in Request
  <2> DEFINE s == [NoRequest EXCEPT !.op = "step"]
  <2>1. s \in Request
    BY <1>4, <1>5, FieldTypes
  <2> HIDE DEF s
  <2>2. [s EXCEPT !.at = at] \in Request
    BY <2>1, <1>1, FieldTypes
  <2>3. [[s EXCEPT !.at = at] EXCEPT !.step = step] \in Request
    BY <2>2, <1>3, FieldTypes
  <2> QED BY <2>3 DEF s
<1>9. ASSUME NEW u \in Users, NEW code \in Codes
      PROVE  [NoRequest EXCEPT !.op = "recovery", !.on = u, !.cred = acc[u].cred,
                 !.code = {code}, !.left = acc[u].codes \ {code}] \in Request
  <2> DEFINE r == [NoRequest EXCEPT !.op = "recovery", !.on = u]
             s == [r EXCEPT !.cred = acc[u].cred, !.code = {code}]
  <2>1. [NoRequest EXCEPT !.op = "recovery"] \in Request
    BY <1>4, <1>5, FieldTypes
  <2>2. r \in Request
    BY <2>1, <1>3, FieldTypes
  <2> HIDE DEF r
  <2>3. [r EXCEPT !.cred = acc[u].cred] \in Request
    BY <2>2, <1>2, FieldTypes
  <2>4. {code} \in SUBSET Codes /\ acc[u].codes \ {code} \in SUBSET Codes
    BY <1>2
  <2>5. s \in Request
    BY <2>3, <2>4, FieldTypes
  <2> HIDE DEF s
  <2>6. [s EXCEPT !.left = acc[u].codes \ {code}] \in Request
    BY <2>5, <2>4, FieldTypes
  <2> QED BY <2>6 DEF s, r
<1>10. ASSUME NEW u \in Users, NEW op \in {"deactivate", "delete"}
       PROVE  [NoRequest EXCEPT !.op = op, !.on = u] \in Request
  <2> DEFINE r == [NoRequest EXCEPT !.op = op]
  <2>1. r \in Request
    BY <1>4, <1>5, FieldTypes
  <2> HIDE DEF r
  <2>2. [r EXCEPT !.on = u] \in Request
    BY <2>1, <1>3, FieldTypes
  <2> QED BY <2>2 DEF r
<1> QED BY <1>6, <1>7, <1>8, <1>9, <1>10

\* An account keeps its type when a field gets a value of its own type.
LEMMA AccountFields ==
    ASSUME NEW a \in Account
    PROVE  /\ \A st \in {"active", "off"} : [a EXCEPT !.st = st] \in Account
           /\ \A cred \in 0..MaxCred : [a EXCEPT !.cred = cred] \in Account
           /\ \A codes \in SUBSET Codes : [a EXCEPT !.codes = codes] \in Account
           /\ \A used \in SUBSET Codes : [a EXCEPT !.used = used] \in Account
BY DEF Account

\* What the steps write is an account with the rest as it was.
LEMMA AccountTypes ==
    ASSUME TypeOK, NEW u \in Users
    PROVE  /\ NoAccount \in Account
           /\ NewAccount(u) \in [Users -> Account]
           /\ NewAccount(u)[u] = [NoAccount EXCEPT !.st = "active"]
           /\ NoTotp(u) \in [Users -> Account]
           /\ NoTotp(u)[u] = [acc[u] EXCEPT !.cred = 0, !.codes = {}, !.used = {}]
           /\ \A v \in Users \ {u} : NewAccount(u)[v] = acc[v] /\ NoTotp(u)[v] = acc[v]
           /\ \A st \in {"active", "off"} : [acc EXCEPT ![u].st = st] \in [Users -> Account]
           /\ [acc EXCEPT ![u] = NoAccount] \in [Users -> Account]
           /\ lastCred < MaxCred => Enrolled(u) \in [Users -> Account]
<1>1. acc \in [Users -> Account] /\ lastCred \in 0..MaxCred
  BY DEF TypeOK
<1>2. NoAccount \in Account
  BY AccountsAssumption DEF NoAccount, Account
<1>3. [NoAccount EXCEPT !.st = "active"] \in Account
  BY <1>2 DEF Account
<1>4. [acc[u] EXCEPT !.cred = 0, !.codes = {}, !.used = {}] \in Account
  <2> DEFINE a == [acc[u] EXCEPT !.cred = 0]
             c == [a EXCEPT !.codes = {}]
  <2>1. acc[u] \in Account /\ 0 \in 0..MaxCred /\ {} \in SUBSET Codes
    BY <1>1, AccountsAssumption
  <2>2. a \in Account
    BY <2>1, AccountFields
  <2> HIDE DEF a
  <2>3. c \in Account
    BY <2>1, <2>2, AccountFields
  <2> HIDE DEF c
  <2>4. [c EXCEPT !.used = {}] \in Account
    BY <2>1, <2>3, AccountFields
  <2> QED BY <2>4 DEF a, c
<1>5. \A st \in {"active", "off"} : [acc[u] EXCEPT !.st = st] \in Account
  BY <1>1 DEF Account
<1>6. lastCred < MaxCred => [acc[u] EXCEPT !.cred = lastCred + 1, !.codes = Codes] \in Account
  <2> SUFFICES ASSUME lastCred < MaxCred
               PROVE  [acc[u] EXCEPT !.cred = lastCred + 1, !.codes = Codes] \in Account
    OBVIOUS
  <2> DEFINE a == [acc[u] EXCEPT !.cred = lastCred + 1]
  <2>1. acc[u] \in Account /\ lastCred + 1 \in 0..MaxCred /\ Codes \in SUBSET Codes
    BY <1>1, AccountsAssumption
  <2>2. a \in Account
    BY <2>1, AccountFields
  <2> HIDE DEF a
  <2>3. [a EXCEPT !.codes = Codes] \in Account
    BY <2>1, <2>2, AccountFields
  <2> QED BY <2>3 DEF a
<1>7. NoTotp(u) = [acc EXCEPT ![u] = [acc[u] EXCEPT !.cred = 0, !.codes = {}, !.used = {}]]
  BY <1>1 DEF NoTotp
<1>8. Enrolled(u) = [acc EXCEPT ![u] = [acc[u] EXCEPT !.cred = lastCred + 1, !.codes = Codes]]
  BY <1>1 DEF Enrolled
<1>9. \A a \in Account : /\ [acc EXCEPT ![u] = a] \in [Users -> Account]
                         /\ [acc EXCEPT ![u] = a][u] = a
                         /\ \A v \in Users \ {u} : [acc EXCEPT ![u] = a][v] = acc[v]
  BY <1>1
<1>10. \A st \in {"active", "off"} :
          [acc EXCEPT ![u].st = st] = [acc EXCEPT ![u] = [acc[u] EXCEPT !.st = st]]
  BY <1>1
<1> HIDE DEF Account, NoAccount
<1>11. /\ NewAccount(u) \in [Users -> Account]
       /\ NewAccount(u)[u] = [NoAccount EXCEPT !.st = "active"]
       /\ \A v \in Users \ {u} : NewAccount(u)[v] = acc[v]
  BY <1>3, <1>9 DEF NewAccount
<1>12. /\ NoTotp(u) \in [Users -> Account]
       /\ NoTotp(u)[u] = [acc[u] EXCEPT !.cred = 0, !.codes = {}, !.used = {}]
       /\ \A v \in Users \ {u} : NoTotp(u)[v] = acc[v]
  BY <1>4, <1>7, <1>9
<1>13. \A st \in {"active", "off"} : [acc EXCEPT ![u].st = st] \in [Users -> Account]
  BY <1>5, <1>9, <1>10
<1>14. [acc EXCEPT ![u] = NoAccount] \in [Users -> Account]
  BY <1>2, <1>9
<1>15. lastCred < MaxCred => Enrolled(u) \in [Users -> Account]
  BY <1>6, <1>8, <1>9
<1> QED BY <1>2, <1>11, <1>12, <1>13, <1>14, <1>15

\* A step of the wizard writes one row.
LEMMA RowTypes ==
    ASSUME TypeOK, NEW at \in DOMAIN inst, NEW row \in InstanceState
    PROVE  /\ [inst EXCEPT ![at] = row] \in Seq(InstanceState)
           /\ Len([inst EXCEPT ![at] = row]) = Len(inst)
           /\ DOMAIN [inst EXCEPT ![at] = row] = DOMAIN inst
           /\ \A i \in DOMAIN inst : [inst EXCEPT ![at] = row][i] = IF i = at THEN row ELSE inst[i]
<1>1. inst \in Seq(InstanceState) /\ DOMAIN inst = 1..Len(inst)
  BY LenProperties DEF TypeOK
<1> QED BY <1>1, ExceptSeq

\* How each step of the wizard changes its row.
RowBecomes(b, row) ==
    /\ inst' \in Seq(InstanceState)
    /\ Len(inst') = Len(inst)
    /\ DOMAIN inst' = DOMAIN inst
    /\ inst'[req[b].at] = row
    /\ \A i \in DOMAIN inst \ {req[b].at} : inst'[i] = inst[i]

\* Each step of the wizard writes its row so.
LEMMA WizardRows ==
    ASSUME TypeOK, RequestInv, NEW b \in Browsers
    PROVE  /\ SetupAccountCommit(b)
                => RowBecomes(b, [first |-> inst[req[b].at].first, step |-> 1])
           /\ SetupTotpCommit(b)
                => RowBecomes(b, [first |-> inst[req[b].at].first, step |-> 2])
           /\ SetupStepCommit(b)
                => RowBecomes(b, [first |-> inst[req[b].at].first /\ req[b].step # 4,
                                  step |-> req[b].step + 1])
<1> DEFINE at == req[b].at
           r1 == [inst[at] EXCEPT !.step = 1]
           r2 == [inst[at] EXCEPT !.step = 2]
           r3 == [inst[at] EXCEPT !.step = req[b].step + 1, !.first = @ /\ req[b].step # 4]
<1>1. inst \in Seq(InstanceState) /\ \A i \in DOMAIN inst : inst[i] \in InstanceState
  BY ElementOfSeq, LenProperties DEF TypeOK
<1>2. CASE SetupAccountCommit(b)
  <2>1. at \in DOMAIN inst /\ inst' = [inst EXCEPT ![at] = r1]
    BY <1>2 DEF SetupAccountCommit, RequestInv, RequestOk
  <2>2. r1 = [first |-> inst[at].first, step |-> 1] /\ r1 \in InstanceState
    BY <1>1, <2>1 DEF InstanceState
  <2> HIDE DEF r1
  <2>3. RowBecomes(b, r1)
    BY <2>1, <2>2, RowTypes DEF RowBecomes
  <2> QED BY <1>2, <2>2, <2>3 DEF SetupAccountCommit, SetupTotpCommit, SetupStepCommit
<1>3. CASE SetupTotpCommit(b)
  <2>1. at \in DOMAIN inst /\ inst' = [inst EXCEPT ![at] = r2]
    BY <1>3 DEF SetupTotpCommit, RequestInv, RequestOk
  <2>2. r2 = [first |-> inst[at].first, step |-> 2] /\ r2 \in InstanceState
    BY <1>1, <2>1 DEF InstanceState
  <2> HIDE DEF r2
  <2>3. RowBecomes(b, r2)
    BY <2>1, <2>2, RowTypes DEF RowBecomes
  <2> QED BY <1>3, <2>2, <2>3 DEF SetupAccountCommit, SetupTotpCommit, SetupStepCommit
<1>4. CASE SetupStepCommit(b)
  <2>1. at \in DOMAIN inst /\ req[b].step \in 2..4
    BY <1>4 DEF SetupStepCommit, RequestInv, RequestOk
  <2>2. inst' = [inst EXCEPT ![at] = r3]
    BY <1>4, <2>1, <1>1 DEF SetupStepCommit, InstanceState
  <2>3. /\ r3 = [first |-> inst[at].first /\ req[b].step # 4, step |-> req[b].step + 1]
        /\ r3 \in InstanceState
    <3> DEFINE i == inst[at]
               f == i.first /\ req[b].step # 4
               k == req[b].step + 1
    <3>1. i \in InstanceState /\ f \in BOOLEAN /\ k \in 0..5
      BY <1>1, <2>1 DEF InstanceState
    <3> HIDE DEF i, f, k
    <3>2. [i EXCEPT !.step = k] = [first |-> i.first, step |-> k]
      BY <3>1 DEF InstanceState
    <3>3. [[first |-> i.first, step |-> k] EXCEPT !.first = f] = [first |-> f, step |-> k]
      OBVIOUS
    <3>4. [first |-> f, step |-> k] \in InstanceState
      BY <3>1 DEF InstanceState
    <3> QED BY <3>2, <3>3, <3>4 DEF i, f, k
  <2> HIDE DEF r3
  <2>4. RowBecomes(b, r3)
    BY <2>1, <2>2, <2>3, RowTypes DEF RowBecomes
  <2> QED BY <1>4, <2>3, <2>4 DEF SetupAccountCommit, SetupTotpCommit, SetupStepCommit
<1> QED BY <1>2, <1>3, <1>4

-----------------------------------------------------------------------------
\* A cookie keeps its type when a field gets a value of its own type.
LEMMA CookieFields ==
    ASSUME NEW c \in Cookie
    PROVE  /\ \A u \in MaybeUser : /\ [c EXCEPT !.in = u] \in Cookie
                                   /\ [c EXCEPT !.pending = u] \in Cookie
                                   /\ [c EXCEPT !.setup = u] \in Cookie
           /\ \A shown \in BOOLEAN : [c EXCEPT !.shown = shown] \in Cookie
BY DEF Cookie

\* Cookies keep their type.
LEMMA CookieStep ==
    ASSUME TypeOK, RequestInv, [Next]_vars
    PROVE  cookie' \in [Browsers -> Cookie]
<1>1. cookie \in [Browsers -> Cookie] /\ NoUser \in MaybeUser /\ Users \subseteq MaybeUser
  BY DEF TypeOK, MaybeUser
<1>2. NoCookie \in Cookie
  BY DEF NoCookie, Cookie, MaybeUser
<1>3. \A b \in Browsers : cookie[b] \in Cookie /\ Pending(b) \in MaybeUser
  BY <1>1 DEF Pending, Cookie
<1>4. ASSUME NEW b \in Browsers
      PROVE  LoggedIn(b) \in Cookie
  <2> DEFINE c == [cookie[b] EXCEPT !.in = Pending(b)]
             d == [c EXCEPT !.pending = NoUser]
  <2>1. c \in Cookie
    BY <1>3, CookieFields
  <2> HIDE DEF c
  <2>2. d \in Cookie
    BY <1>1, <2>1, CookieFields
  <2> HIDE DEF d
  <2>3. [d EXCEPT !.shown = FALSE] \in Cookie
    BY <2>2, CookieFields
  <2> QED BY <2>3 DEF c, d, LoggedIn
<1>5. \A b \in Browsers, c \in Cookie : [cookie EXCEPT ![b] = c] \in [Browsers -> Cookie]
  BY <1>1
<1>6. CASE UNCHANGED vars
  BY <1>1, <1>6 DEF vars
<1>7. CASE \E u \in Users : Rescue(u)
  BY <1>1, <1>7 DEF Rescue
<1>8. ASSUME NEW b \in Browsers, Wizard(b)
      PROVE  cookie' \in [Browsers -> Cookie]
  <2>1. CASE SetupAccountCommit(b)
    <3>1. req[b].on \in Users
      BY <2>1 DEF SetupAccountCommit, RequestInv, RequestOk
    <3>2. cookie' = [cookie EXCEPT ![b] = [cookie[b] EXCEPT !.setup = req[b].on]]
      BY <2>1, <1>1 DEF SetupAccountCommit
    <3> QED BY <3>1, <3>2, <1>1, <1>3, <1>5, CookieFields
  <2>2. CASE SetupStepCommit(b)
    <3> DEFINE u == IF req[b].step = 4 THEN NoUser ELSE cookie[b].setup
    <3>1. u \in MaybeUser
      BY <1>1, <1>3 DEF Cookie
    <3>2. cookie' = [cookie EXCEPT ![b] = [cookie[b] EXCEPT !.setup = u]]
      BY <2>2, <1>1 DEF SetupStepCommit
    <3> HIDE DEF u
    <3> QED BY <3>1, <3>2, <1>3, <1>5, CookieFields
  <2>3. CASE ~(SetupAccountCommit(b) \/ SetupStepCommit(b))
    BY <2>3, <1>1, <1>8 DEF Wizard, Visit, VisitCommit, SetupAccount, SetupTotp,
       SetupTotpCommit, SetupStep, SetupRejected, Rejected, Asks
  <2> QED BY <2>1, <2>2, <2>3
<1>9. ASSUME NEW b \in Browsers, Login(b)
      PROVE  cookie' \in [Browsers -> Cookie]
  <2>1. CASE \E u \in Users : Password(b, u)
    <3>1. PICK u \in Users : cookie' = [cookie EXCEPT ![b] = [cookie[b] EXCEPT !.pending = u]]
      BY <2>1 DEF Password, Stored
    <3>2. [cookie[b] EXCEPT !.pending = u] \in Cookie
      BY <1>1, <1>3, CookieFields
    <3> QED BY <3>1, <3>2, <1>5
  <2>2. CASE LoginCode(b) \/ ShowCodes(b)
    BY <2>2, <1>4, <1>5 DEF LoginCode, ShowCodes, Stored
  <2>3. CASE LoginDropped(b) \/ Logout(b) \/ LoseCookie(b)
    BY <2>3, <1>2, <1>5 DEF LoginDropped, Logout, LoseCookie, Stored
  <2>4. CASE RecoveryCommit(b)
    BY <2>4, <1>4, <1>5 DEF RecoveryCommit
  <2>5. CASE Enrol(b)
    <3>1. cookie' = [cookie EXCEPT ![b] = [cookie[b] EXCEPT !.shown = TRUE]]
      BY <2>5, <1>1 DEF Enrol
    <3> QED BY <3>1, <1>3, <1>5, CookieFields
  <2>6. CASE RecoveryRejected(b)
    BY <2>6, <1>1 DEF RecoveryRejected, Rejected
  <2>7. ASSUME NEW code \in Codes, Recovery(b, code)
        PROVE  UNCHANGED cookie
    BY <2>7 DEF Recovery, Asks
  <2> QED BY <1>1, <1>9, <2>1, <2>2, <2>3, <2>4, <2>5, <2>6, <2>7 DEF Login
<1>10. ASSUME NEW b \in Browsers, Administration(b)
       PROVE  cookie' \in [Browsers -> Cookie]
  <2>1. CASE LoginRequired(b)
    BY <2>1, <1>2, <1>5 DEF LoginRequired, Stored
  <2>2. CASE ~LoginRequired(b)
    BY <2>2, <1>1, <1>10 DEF Administration, Create, Deactivate, Activate, ResetTotp, Delete,
       Saved, Administers, Asks, DeactivateCommit, DeleteCommit, AdminRejected, Rejected
  <2> QED BY <2>1, <2>2
<1> QED BY <1>6, <1>7, <1>8, <1>9, <1>10 DEF Next

\* An account that loses its second factor loses the codes; ids are not reused.
CredOk(a, l) == \A u \in Users : a[u].cred <= l /\ (a[u].cred = 0 => a[u].codes = {})

\* Accounts and ids keep their type.
LEMMA AccountStep ==
    ASSUME TypeOK, RequestInv, [Next]_vars
    PROVE  acc' \in [Users -> Account] /\ lastCred' \in 0..MaxCred /\ CredOk(acc', lastCred')
<1>1. /\ acc \in [Users -> Account] /\ lastCred \in 0..MaxCred /\ CredOk(acc, lastCred)
      /\ lastCred \in Nat /\ MaxCred \in Nat
  BY AccountsAssumption DEF TypeOK, CredOk
<1>2. CASE UNCHANGED <<acc, lastCred>>
  BY <1>1, <1>2
<1>3. ASSUME NEW u \in Users, acc' = NewAccount(u), lastCred' = lastCred
      PROVE  acc' \in [Users -> Account] /\ CredOk(acc', lastCred')
  <2>1. acc' \in [Users -> Account] /\ acc'[u].cred = 0 /\ acc'[u].codes = {}
    BY <1>1, <1>3, AccountTypes DEF NoAccount
  <2>2. \A v \in Users \ {u} : acc'[v] = acc[v]
    BY <1>3, AccountTypes
  <2> QED BY <1>1, <1>3, <2>1, <2>2 DEF CredOk
<1>4. ASSUME NEW u \in Users, acc' = NoTotp(u), lastCred' = lastCred
      PROVE  acc' \in [Users -> Account] /\ CredOk(acc', lastCred')
  <2>1. acc'[u].cred = 0 /\ acc'[u].codes = {}
    BY <1>1, <1>4 DEF NoTotp, Account
  <2>2. acc' \in [Users -> Account] /\ \A v \in Users \ {u} : acc'[v] = acc[v]
    BY <1>4, AccountTypes
  <2> QED BY <1>1, <1>4, <2>1, <2>2 DEF CredOk
<1>5. ASSUME NEW u \in Users, acc' = Enrolled(u), lastCred < MaxCred, lastCred' = lastCred + 1
      PROVE  acc' \in [Users -> Account] /\ lastCred' \in 0..MaxCred /\ CredOk(acc', lastCred')
  <2>1. acc'[u].cred = lastCred + 1 /\ \A v \in Users \ {u} : acc'[v] = acc[v]
    BY <1>1, <1>5 DEF Enrolled, Account
  <2>2. \A v \in Users : acc[v].cred \in Nat
    BY <1>1 DEF Account
  <2>3. acc' \in [Users -> Account]
    BY <1>5, AccountTypes
  <2> QED BY <1>1, <1>5, <2>1, <2>2, <2>3 DEF CredOk
<1>6. ASSUME NEW u \in Users, NEW st \in {"active", "off"}, acc' = [acc EXCEPT ![u].st = st],
             lastCred' = lastCred
      PROVE  acc' \in [Users -> Account] /\ CredOk(acc', lastCred')
  <2>1. \A v \in Users : acc'[v].cred = acc[v].cred /\ acc'[v].codes = acc[v].codes
    BY <1>1, <1>6 DEF Account
  <2> QED BY <1>1, <1>6, <2>1, AccountTypes DEF CredOk
<1>7. CASE Quiet \/ \E u \in Users : Rescue(u)
  BY <1>1, <1>4, <1>7 DEF Quiet, Rescue
<1>8. ASSUME NEW b \in Browsers, StepOf(b)
      PROVE  acc' \in [Users -> Account] /\ lastCred' \in 0..MaxCred /\ CredOk(acc', lastCred')
  <2>1. CASE SetupAccountCommit(b)
    BY <2>1, <1>1, <1>3 DEF SetupAccountCommit, RequestInv, RequestOk
  <2>2. CASE SetupTotpCommit(b)
    BY <2>2, <1>5 DEF SetupTotpCommit, RequestInv, RequestOk
  <2>3. CASE RecoveryCommit(b)
    <3> DEFINE u == req[b].on
               n == acc[u].used \cup req[b].code
               a == [acc[u] EXCEPT !.codes = req[b].left]
    <3>1. u \in Users /\ req[b].cred # 0
      BY <2>3 DEF RecoveryCommit, RequestInv, RequestOk
    <3>2. req[b].left \in SUBSET Codes /\ req[b].code \in SUBSET Codes /\ acc[u].used \in SUBSET Codes
      BY <1>1, <3>1 DEF TypeOK, Request, Account
    <3>3. acc' = [acc EXCEPT ![u] = [[acc[u] EXCEPT !.codes = req[b].left] EXCEPT !.used = n]]
      BY <2>3, <1>1, <3>1 DEF RecoveryCommit, Account
    <3>4. n \in SUBSET Codes
      BY <3>2
    <3> HIDE DEF n
    <3>5. a \in Account
      BY <1>1, <3>1, <3>2, AccountFields
    <3>6. [a EXCEPT !.used = n] \in Account
      <4> HIDE DEF a
      <4> QED BY <3>5, <3>4, AccountFields
    <3>7. acc'[u].cred = acc[u].cred /\ \A v \in Users \ {u} : acc'[v] = acc[v]
      BY <1>1, <3>1, <3>3 DEF Account
    <3>8. acc[u].cred = req[b].cred /\ lastCred' = lastCred
      BY <2>3 DEF RecoveryCommit
    <3> QED BY <1>1, <3>1, <3>3, <3>6, <3>7, <3>8 DEF CredOk
  <2>4. CASE Enrol(b)
    <3>1. Pending(b) \in Users
      BY <2>4, <1>1 DEF Enrol, MayConfirm, Pending, TypeOK, Cookie, MaybeUser
    <3> QED BY <2>4, <3>1, <1>5 DEF Enrol
  <2>5. CASE \E u \in Users : Manages(b, u)
    BY <2>5, <1>1, <1>3, <1>4, <1>6 DEF Manages, Create, Activate, ResetTotp, Saved
  <2>6. CASE DeactivateCommit(b)
    BY <2>6, <1>1, <1>6 DEF DeactivateCommit, RequestInv, RequestOk
  <2>7. CASE DeleteCommit(b)
    <3>1. req[b].on \in Users /\ acc' = [acc EXCEPT ![req[b].on] = NoAccount] /\ lastCred' = lastCred
      BY <2>7 DEF DeleteCommit, RequestInv, RequestOk
    <3> DEFINE u == req[b].on
    <3>2. acc' \in [Users -> Account]
      BY <3>1, AccountTypes
    <3>3. /\ acc'[u].cred = 0 /\ acc'[u].codes = {}
          /\ \A v \in Users \ {u} : acc'[v] = acc[v]
      BY <1>1, <3>1 DEF NoAccount
    <3> QED BY <1>1, <3>1, <3>2, <3>3 DEF CredOk
  <2>8. CASE UNCHANGED <<acc, lastCred>>
    BY <1>2, <2>8
  <2> QED BY <1>8, <2>1, <2>2, <2>3, <2>4, <2>5, <2>6, <2>7, <2>8
          DEF StepOf, Visit, VisitCommit, SetupAccount, SetupTotp, SetupStep, SetupStepCommit,
              Refused, SetupRejected, RecoveryRejected, AdminRejected, Rejected, Recovery,
              Deactivate, Delete, Administers, Asks
<1> QED BY <1>7, <1>8, <1>1, Steps

\* Requests keep their type, and the rows of the wizard theirs.
LEMMA RequestStep ==
    ASSUME TypeOK, RequestInv, [Next]_vars
    PROVE  req' \in [Browsers -> Request]
<1>1. req \in [Browsers -> Request] /\ \A b \in Browsers : Pending(b) \in MaybeUser
  BY DEF TypeOK, Pending, Cookie
<1>2. CASE Quiet \/ \E u \in Users : Rescue(u)
  BY <1>1, <1>2 DEF Quiet, Rescue
<1>3. ASSUME NEW b \in Browsers, StepOf(b)
      PROVE  req' \in [Browsers -> Request]
  <2>1. CASE UNCHANGED req
    BY <2>1, <1>1
  <2>2. CASE Ends(b) \/ Rejected(b)
    BY <2>2, RequestsApart
  <2>3. ASSUME NEW r \in Request, Asks(b, r)
        PROVE  req' \in [Browsers -> Request]
    BY <2>3, RequestsApart
  <2>4. CASE Visit(b)
    BY <2>4, <2>3, AskTypes DEF Visit
  <2>5. CASE SetupAccount(b)
    BY <2>5, <2>3, AskTypes DEF SetupAccount
  <2>6. CASE SetupTotp(b)
    <3>1. cookie[b].setup \in Users
      BY <2>6 DEF SetupTotp, TypeOK, Cookie, MaybeUser
    <3> QED BY <2>6, <3>1, <2>3, AskTypes DEF SetupTotp
  <2>7. CASE SetupStep(b)
    BY <2>7, <2>3, AskTypes DEF SetupStep
  <2>8. ASSUME NEW code \in Codes, Recovery(b, code)
        PROVE  req' \in [Browsers -> Request]
    <3>1. Pending(b) \in Users
      BY <2>8, <1>1 DEF Recovery, MayConfirm, MaybeUser
    <3> QED BY <2>8, <3>1, <2>3, AskTypes DEF Recovery
  <2>9. ASSUME NEW u \in Users, Deactivate(b, u) \/ Delete(b, u)
        PROVE  req' \in [Browsers -> Request]
    BY <2>9, <2>3, AskTypes DEF Deactivate, Delete, Administers
  <2> QED BY <1>3, <2>1, <2>2, <2>4, <2>5, <2>6, <2>7, <2>8, <2>9
          DEF StepOf, VisitCommit, SetupAccountCommit, SetupTotpCommit, SetupStepCommit, Refused,
              SetupRejected, RecoveryRejected, AdminRejected, RecoveryCommit, Enrol,
              DeactivateCommit, DeleteCommit, Manages, Create, Activate, ResetTotp, Saved
<1> QED BY <1>2, <1>3, Steps

\* What happens to the rows of the wizard in a step.
LEMMA RowStep ==
    ASSUME TypeOK, RequestInv, [Next]_vars
    PROVE  \/ UNCHANGED inst
           \/ \E b \in Browsers : VisitCommit(b)
           \/ \E b \in Browsers :
                 /\ SetupAccountCommit(b)
                 /\ RowBecomes(b, [first |-> inst[req[b].at].first, step |-> 1])
           \/ \E b \in Browsers :
                 /\ SetupTotpCommit(b)
                 /\ RowBecomes(b, [first |-> inst[req[b].at].first, step |-> 2])
           \/ \E b \in Browsers :
                 /\ SetupStepCommit(b)
                 /\ RowBecomes(b, [first |-> inst[req[b].at].first /\ req[b].step # 4,
                                   step |-> req[b].step + 1])
<1>1. CASE Quiet \/ \E u \in Users : Rescue(u)
  BY <1>1 DEF Quiet, Rescue
<1>2. ASSUME NEW b \in Browsers, StepOf(b)
      PROVE  UNCHANGED inst \/ VisitCommit(b) \/ SetupAccountCommit(b) \/ SetupTotpCommit(b)
                            \/ SetupStepCommit(b)
  BY <1>2 DEF StepOf, Visit, SetupAccount, SetupTotp, SetupStep, Refused, SetupRejected,
     RecoveryRejected, AdminRejected, Rejected, Recovery, RecoveryCommit, Enrol, DeactivateCommit,
     DeleteCommit, Manages, Create, Activate, ResetTotp, Saved, Deactivate, Delete, Administers, Asks
<1> QED BY <1>1, <1>2, Steps, WizardRows

\* Only a first visit starts a first visit.
LEMMA VisitsStep ==
    ASSUME TypeOK, [Next]_vars
    PROVE  \/ Visits' \subseteq Visits
           \/ \E b \in Browsers : Visit(b) /\ Visits' = Visits \cup {b}
<1>1. CASE Quiet \/ \E u \in Users : Rescue(u)
  BY <1>1 DEF Quiet, Rescue, Visits
<1>2. ASSUME NEW b \in Browsers, StepOf(b)
      PROVE  Visits' \subseteq Visits \/ (Visit(b) /\ Visits' = Visits \cup {b})
  <2>1. CASE UNCHANGED req
    BY <2>1 DEF Visits
  <2>2. CASE Ends(b) \/ Rejected(b)
    BY <2>2, RequestsApart DEF Visits, NoRequest
  <2>3. ASSUME NEW r, r.op # "visit", req \in [Browsers -> Request], Asks(b, r)
        PROVE  Visits' \subseteq Visits
    BY <2>3 DEF Visits, Asks
  <2>4. req \in [Browsers -> Request]
    BY DEF TypeOK
  <2>5. CASE Visit(b)
    BY <2>4, <2>5 DEF Visit, Visits, Asks, NoRequest
  <2>6. CASE SetupAccount(b)
    BY <2>6, <2>3, <2>4 DEF SetupAccount, NoRequest
  <2>7. CASE SetupTotp(b)
    BY <2>7, <2>3, <2>4 DEF SetupTotp, NoRequest
  <2>8. CASE SetupStep(b)
    BY <2>8, <2>3, <2>4 DEF SetupStep, NoRequest
  <2>9. ASSUME NEW code \in Codes, Recovery(b, code)
        PROVE  Visits' \subseteq Visits
    <3> DEFINE r == [NoRequest EXCEPT !.op = "recovery", !.on = Pending(b),
                       !.cred = acc[Pending(b)].cred, !.code = {code},
                       !.left = acc[Pending(b)].codes \ {code}]
    <3>1. r.op = "recovery"
      BY DEF NoRequest
    <3>2. Asks(b, r)
      BY <2>9 DEF Recovery
    <3> HIDE DEF r
    <3> QED BY <3>1, <3>2, <2>3, <2>4
  <2>10. ASSUME NEW u \in Users, Deactivate(b, u) \/ Delete(b, u)
         PROVE  Visits' \subseteq Visits
    BY <2>10, <2>3, <2>4 DEF Deactivate, Delete, Administers, NoRequest
  <2> QED BY <1>2, <2>1, <2>2, <2>5, <2>6, <2>7, <2>8, <2>9, <2>10
          DEF StepOf, VisitCommit, SetupAccountCommit, SetupTotpCommit, SetupStepCommit, Refused,
              SetupRejected, RecoveryRejected, AdminRejected, RecoveryCommit, Enrol,
              DeactivateCommit, DeleteCommit, Manages, Create, Activate, ResetTotp, Saved
<1> QED BY <1>1, <1>2, Steps

\* There are never more rows of the wizard than the bound allows.
LEMMA VisitStep ==
    ASSUME TypeOK, RequestInv, VisitInv, [Next]_vars
    PROVE  inst' \in Seq(InstanceState) /\ VisitInv'
<1>1. /\ inst \in Seq(InstanceState) /\ Len(inst) \in Nat /\ MaxRows \in Nat
      /\ IsFiniteSet(Browsers)
  BY AccountsAssumption, LenProperties DEF TypeOK
<1>2. Visits \subseteq Browsers /\ IsFiniteSet(Visits) /\ Cardinality(Visits) \in Nat
  BY <1>1, FS_Subset, FS_CardinalityType DEF Visits
<1>3. CASE \E b \in Browsers : Visit(b) /\ Visits' = Visits \cup {b}
  <2>1. PICK b \in Browsers : Visit(b) /\ Visits' = Visits \cup {b}
    BY <1>3
  <2>2. inst = <<>> /\ Cardinality(Visits) < MaxRows /\ inst' = inst
    BY <2>1 DEF Visit, Visits, Asks
  <2>3. Cardinality(Visits') <= Cardinality(Visits) + 1
    <3>1. Cardinality(Visits \cup {b})
            = IF b \in Visits THEN Cardinality(Visits) ELSE Cardinality(Visits) + 1
      BY <1>2, FS_AddElement
    <3> QED BY <1>2, <2>1, <3>1
  <2>4. IsFiniteSet(Visits')
    BY <1>2, <2>1, FS_AddElement
  <2>5. Cardinality(Visits') \in Nat
    BY <2>4, FS_CardinalityType
  <2> QED BY <1>1, <1>2, <2>2, <2>3, <2>5 DEF VisitInv
<1>4. CASE Visits' \subseteq Visits
  <2>1. Cardinality(Visits') <= Cardinality(Visits) /\ Cardinality(Visits') \in Nat
    BY <1>2, <1>4, FS_Subset, FS_CardinalityType
  <2>2. CASE \E b \in Browsers : VisitCommit(b)
    <3>1. PICK b \in Browsers : VisitCommit(b)
      BY <2>2
    <3>2. NewInstance \in InstanceState
      BY DEF NewInstance, InstanceState
    <3>3. inst' \in Seq(InstanceState) /\ Len(inst') = Len(inst) + 1
      BY <1>1, <3>1, <3>2, AppendProperties DEF VisitCommit
    <3>4. b \in Visits /\ b \notin Visits'
      BY <3>1, RequestsApart DEF Visits, VisitCommit, NoRequest
    <3>5. Cardinality(Visits \ {b}) = Cardinality(Visits) - 1 /\ IsFiniteSet(Visits \ {b})
      BY <1>2, <3>4, FS_RemoveElement
    <3>6. Visits' \subseteq Visits \ {b}
      BY <1>4, <3>4
    <3>7. Cardinality(Visits') <= Cardinality(Visits) - 1
      BY <3>5, <3>6, FS_Subset
    <3> QED BY <1>1, <1>2, <2>1, <3>3, <3>7 DEF VisitInv
  <2>3. CASE ~\E b \in Browsers : VisitCommit(b)
    <3>1. inst' \in Seq(InstanceState) /\ Len(inst') = Len(inst)
      BY <1>1, <2>3, RowStep DEF RowBecomes
    <3> QED BY <1>1, <1>2, <2>1, <3>1 DEF VisitInv
  <2> QED BY <2>2, <2>3
<1> QED BY <1>3, <1>4, VisitsStep

\* The type invariant.
LEMMA TypeStep ==
    ASSUME TypeOK, RequestInv, VisitInv, [Next]_vars
    PROVE  TypeOK'
<1>1. inst' \in Seq(InstanceState) /\ VisitInv'
  BY VisitStep
<1>2. Len(inst') \in Nat /\ Cardinality(Visits') \in Nat /\ MaxRows \in Nat
  <2>1. Visits' \subseteq Browsers
    BY DEF Visits
  <2>2. IsFiniteSet(Visits')
    BY <2>1, AccountsAssumption, FS_Subset
  <2> QED BY <1>1, <2>2, AccountsAssumption, LenProperties, FS_CardinalityType
<1>3. Len(inst') <= MaxRows
  BY <1>1, <1>2 DEF VisitInv
<1>4. torn' \in BOOLEAN
  <2>1. CASE Quiet \/ \E u \in Users : Rescue(u)
    BY <2>1 DEF Quiet, Rescue, TypeOK
  <2>2. ASSUME NEW b \in Browsers, StepOf(b)
        PROVE  UNCHANGED torn \/ torn' = (torn \/ Overlaps(b))
    BY <2>2 DEF StepOf, Visit, VisitCommit, SetupAccount, SetupAccountCommit, SetupTotp,
       SetupTotpCommit, SetupStep, SetupStepCommit, Refused, SetupRejected, RecoveryRejected,
       AdminRejected, Rejected, Recovery, RecoveryCommit, Enrol, DeactivateCommit, DeleteCommit,
       Manages, Create, Activate, ResetTotp, Saved, Deactivate, Delete, Administers, Asks, Ends
  <2> QED BY <2>1, <2>2, Steps DEF TypeOK
<1> QED BY <1>1, <1>3, <1>4, AccountStep, CookieStep, RequestStep DEF TypeOK, CredOk

-----------------------------------------------------------------------------
\* What a handler has checked when it starts a request.
Fresh(r) ==
    \/ r.op = "visit"
    \/ r.op = "account" /\ r.at \in DOMAIN inst /\ inst[r.at].step = 0 /\ r.on \in Users
    \/ /\ r.op = "totp" /\ r.at \in DOMAIN inst /\ inst[r.at].step = 1
       /\ r.on \in Users /\ Exists(r.on)
    \/ r.op = "step" /\ r.at \in DOMAIN inst /\ r.step \in 2..4 /\ inst[r.at].step = r.step
    \/ /\ r.op = "recovery" /\ r.on \in Users /\ r.cred = acc[r.on].cred
       /\ r.code \subseteq acc[r.on].codes /\ r.code # {} /\ r.left = acc[r.on].codes \ r.code
    \/ r.op \in {"deactivate", "delete"} /\ r.on \in Users /\ Panel /\ Active \ {r.on} # {}

\* A request stays as it is, ends, or is fresh.
RequestGoes(d) ==
    \/ req'[d] = req[d]
    \/ req'[d] = NoRequest
    \/ Fresh(req'[d]) /\ UNCHANGED <<acc, lastCred, inst, torn>>

\* Each request goes one of these ways in a step.
LEMMA RequestsGo ==
    ASSUME TypeOK, RequestInv, [Next]_vars, NEW d \in Browsers
    PROVE  RequestGoes(d)
<1>1. CASE Quiet \/ \E u \in Users : Rescue(u)
  BY <1>1 DEF Quiet, Rescue, RequestGoes
<1>2. ASSUME NEW b \in Browsers, StepOf(b)
      PROVE  RequestGoes(d)
  <2>1. CASE UNCHANGED req
    BY <2>1 DEF RequestGoes
  <2>2. CASE Ends(b) \/ Rejected(b)
    BY <2>2, RequestsApart DEF RequestGoes
  <2>3. ASSUME NEW r, Fresh(r), Asks(b, r)
        PROVE  RequestGoes(d)
    <3>1. req' = [req EXCEPT ![b] = r] /\ UNCHANGED <<acc, lastCred, inst, torn>>
      BY <2>3 DEF Asks
    <3>2. req'[d] = r \/ req'[d] = req[d]
      BY <3>1 DEF TypeOK
    <3> QED BY <2>3, <3>1, <3>2 DEF RequestGoes
  <2>4. CASE Visit(b)
    <3> DEFINE r == [NoRequest EXCEPT !.op = "visit"]
    <3>1. Fresh(r)
      BY DEF Fresh, NoRequest
    <3> QED BY <2>3, <2>4, <3>1 DEF Visit
  <2>5. CASE SetupAccount(b)
    <3>1. PICK at \in DOMAIN inst, u \in Users :
             AtStep(0, at) /\ Asks(b, [NoRequest EXCEPT !.op = "account", !.on = u, !.at = at])
      BY <2>5 DEF SetupAccount
    <3> DEFINE r == [NoRequest EXCEPT !.op = "account", !.on = u, !.at = at]
    <3>2. r.op = "account" /\ r.on = u /\ r.at = at
      BY DEF NoRequest
    <3> HIDE DEF r
    <3>3. Fresh(r)
      BY <3>1, <3>2 DEF Fresh, AtStep
    <3> QED BY <2>3, <3>1, <3>3 DEF r
  <2>6. CASE SetupTotp(b)
    <3>1. PICK at \in DOMAIN inst :
             /\ AtStep(1, at) /\ cookie[b].setup # NoUser /\ Exists(cookie[b].setup)
             /\ Asks(b, [NoRequest EXCEPT !.op = "totp", !.on = cookie[b].setup, !.at = at])
      BY <2>6 DEF SetupTotp
    <3>2. cookie[b].setup \in Users
      BY <3>1 DEF TypeOK, Cookie, MaybeUser
    <3> DEFINE r == [NoRequest EXCEPT !.op = "totp", !.on = cookie[b].setup, !.at = at]
    <3>3. r.op = "totp" /\ r.on = cookie[b].setup /\ r.at = at
      BY DEF NoRequest
    <3> HIDE DEF r
    <3>4. Fresh(r)
      BY <3>1, <3>2, <3>3 DEF Fresh, AtStep
    <3> QED BY <2>3, <3>1, <3>4 DEF r
  <2>7. CASE SetupStep(b)
    <3>1. PICK at \in DOMAIN inst, step \in 2..4 :
             /\ AtStep(step, at)
             /\ Asks(b, [NoRequest EXCEPT !.op = "step", !.at = at, !.step = step])
      BY <2>7 DEF SetupStep
    <3> DEFINE r == [NoRequest EXCEPT !.op = "step", !.at = at, !.step = step]
    <3>2. r.op = "step" /\ r.step = step /\ r.at = at
      BY DEF NoRequest
    <3> HIDE DEF r
    <3>3. Fresh(r)
      BY <3>1, <3>2 DEF Fresh, AtStep
    <3> QED BY <2>3, <3>1, <3>3 DEF r
  <2>8. ASSUME NEW code \in Codes, Recovery(b, code)
        PROVE  RequestGoes(d)
    <3>1. Pending(b) \in Users /\ code \in acc[Pending(b)].codes
      BY <2>8 DEF Recovery, MayConfirm, Pending, TypeOK, Cookie, MaybeUser
    <3> DEFINE u == Pending(b)
               r == [NoRequest EXCEPT !.op = "recovery", !.on = u, !.cred = acc[u].cred,
                       !.code = {code}, !.left = acc[u].codes \ {code}]
    <3>2. /\ r.op = "recovery" /\ r.on = u /\ r.cred = acc[u].cred
          /\ r.code = {code} /\ r.left = acc[u].codes \ {code}
      BY DEF NoRequest
    <3>3. Asks(b, r)
      BY <2>8 DEF Recovery
    <3> HIDE DEF r, u
    <3>4. Fresh(r)
      BY <3>1, <3>2 DEF Fresh, u
    <3> QED BY <2>3, <3>3, <3>4
  <2>9. ASSUME NEW u \in Users, Deactivate(b, u) \/ Delete(b, u)
        PROVE  RequestGoes(d)
    <3>1. PICK op \in {"deactivate", "delete"} :
             u # cookie[b].in /\ Administers(b, op, u)
      BY <2>9 DEF Deactivate, Delete
    <3>2. Panel /\ cookie[b].in \in Active
      BY <3>1 DEF Administers, MayAdminister
    <3> DEFINE r == [NoRequest EXCEPT !.op = op, !.on = u]
    <3>3. r.op = op /\ r.on = u
      BY DEF NoRequest
    <3> HIDE DEF r
    <3>4. Fresh(r)
      BY <3>1, <3>2, <3>3 DEF Fresh
    <3> QED BY <2>3, <3>1, <3>4 DEF Administers, r
  <2> QED BY <1>2, <2>1, <2>2, <2>4, <2>5, <2>6, <2>7, <2>8, <2>9
          DEF StepOf, VisitCommit, SetupAccountCommit, SetupTotpCommit, SetupStepCommit, Refused,
              SetupRejected, RecoveryRejected, AdminRejected, RecoveryCommit, Enrol,
              DeactivateCommit, DeleteCommit, Manages, Create, Activate, ResetTotp, Saved
<1> QED BY <1>1, <1>2, Steps

\* A first visit adds a row behind the others.
LEMMA FirstVisit ==
    ASSUME TypeOK, NEW b \in Browsers, VisitCommit(b)
    PROVE  /\ DOMAIN inst \subseteq DOMAIN inst'
           /\ \A at \in DOMAIN inst : inst'[at] = inst[at]
           /\ \A at \in DOMAIN inst' \ DOMAIN inst : inst'[at].first /\ inst'[at].step = 0
<1>1. /\ inst \in Seq(InstanceState) /\ NewInstance \in InstanceState
      /\ inst' = Append(inst, NewInstance)
      /\ DOMAIN inst = 1..Len(inst) /\ Len(inst) \in Nat
  BY LenProperties DEF VisitCommit, TypeOK, NewInstance, InstanceState
<1>2. /\ inst' \in Seq(InstanceState) /\ Len(inst') = Len(inst) + 1
      /\ \A i \in 1..Len(inst) : inst'[i] = inst[i]
      /\ inst'[Len(inst) + 1] = NewInstance
  BY <1>1, AppendProperties
<1>3. DOMAIN inst' = 1..Len(inst')
  BY <1>2, LenProperties
<1>4. NewInstance.first /\ NewInstance.step = 0
  BY DEF NewInstance
<1>5. \A at \in DOMAIN inst' \ DOMAIN inst : at = Len(inst) + 1
  BY <1>1, <1>2, <1>3
<1> QED BY <1>1, <1>2, <1>3, <1>4, <1>5

\* A wizard that has begun, or has ended, is never as it was before.
LEMMA NoStepBack ==
    ASSUME TypeOK, RequestInv, [Next]_vars, NEW at \in DOMAIN inst
    PROVE  /\ at \in DOMAIN inst'
           /\ inst[at].step > 0 => inst'[at].step > 0
           /\ ~inst[at].first => ~inst'[at].first
<1>1. CASE UNCHANGED inst
  BY <1>1
<1>2. ASSUME NEW b \in Browsers, VisitCommit(b)
      PROVE  at \in DOMAIN inst' /\ inst'[at] = inst[at]
  BY <1>2, FirstVisit
<1>3. ASSUME NEW b \in Browsers, NEW first, NEW step, RowBecomes(b, [first |-> first, step |-> step]),
             step > 0, first => inst[req[b].at].first
      PROVE  /\ at \in DOMAIN inst'
             /\ inst[at].step > 0 => inst'[at].step > 0
             /\ ~inst[at].first => ~inst'[at].first
  BY <1>3 DEF RowBecomes
<1>4. \A b \in Browsers : SetupStepCommit(b) => req[b].step + 1 > 0
  BY DEF SetupStepCommit, RequestInv, RequestOk
<1>5. CASE \E b \in Browsers :
              /\ SetupAccountCommit(b)
              /\ RowBecomes(b, [first |-> inst[req[b].at].first, step |-> 1])
  BY <1>3, <1>5
<1>6. CASE \E b \in Browsers :
              /\ SetupTotpCommit(b)
              /\ RowBecomes(b, [first |-> inst[req[b].at].first, step |-> 2])
  BY <1>3, <1>6
<1>7. CASE \E b \in Browsers :
              /\ SetupStepCommit(b)
              /\ RowBecomes(b, [first |-> inst[req[b].at].first /\ req[b].step # 4,
                                step |-> req[b].step + 1])
  BY <1>3, <1>4, <1>7
<1> QED BY <1>1, <1>2, <1>5, <1>6, <1>7, RowStep

\* A wizard that has ended stays so.
LEMMA PanelStays ==
    ASSUME TypeOK, RequestInv, [Next]_vars, Panel
    PROVE  Panel'
BY NoStepBack DEF Panel, SetupDone

\* Ids of credentials only grow.
LEMMA CredGrows ==
    ASSUME TypeOK, [Next]_vars
    PROVE  lastCred \in Nat /\ lastCred' \in {lastCred, lastCred + 1}
<1>1. lastCred \in Nat
  BY AccountsAssumption DEF TypeOK
<1>2. CASE Quiet \/ \E u \in Users : Rescue(u)
  BY <1>1, <1>2 DEF Quiet, Rescue
<1>3. ASSUME NEW b \in Browsers, StepOf(b)
      PROVE  lastCred' \in {lastCred, lastCred + 1}
  BY <1>1, <1>3 DEF StepOf, Visit, VisitCommit, SetupAccount, SetupAccountCommit, SetupTotp,
     SetupTotpCommit, SetupStep, SetupStepCommit, Refused, SetupRejected, RecoveryRejected,
     AdminRejected, Rejected, Recovery, RecoveryCommit, Enrol, DeactivateCommit, DeleteCommit,
     Manages, Create, Activate, ResetTotp, Saved, Deactivate, Delete, Administers, Asks
<1> QED BY <1>1, <1>2, <1>3, Steps

\* Requests go on belonging to something that is there.
LEMMA RequestInvStep ==
    ASSUME TypeOK, RequestInv, [Next]_vars
    PROVE  RequestInv'
<1> SUFFICES ASSUME NEW d \in Browsers
             PROVE  RequestOk(req[d])'
  BY DEF RequestInv
<1>1. RequestGoes(d)
  BY RequestsGo
<1>2. RequestOk(req[d])
  BY DEF RequestInv
<1>3. CASE req'[d] = req[d]
  BY <1>2, <1>3, NoStepBack, PanelStays, CredGrows DEF RequestOk
<1>4. CASE req'[d] = NoRequest
  BY <1>4 DEF RequestOk, NoRequest
<1>5. CASE Fresh(req'[d]) /\ UNCHANGED <<acc, lastCred, inst, torn>>
  <2>1. \A u \in Users : /\ acc[u].cred \in 0..MaxCred /\ acc[u].cred <= lastCred
                         /\ acc[u].codes # {} => acc[u].cred # 0
    BY DEF TypeOK, Account
  <2>2. Panel => Panel'
    BY PanelStays
  <2>3. lastCred \in Nat
    BY CredGrows
  <2>4. CASE req'[d].op = "recovery"
    <3>1. /\ req'[d].on \in Users /\ req'[d].cred = acc[req'[d].on].cred
          /\ acc[req'[d].on].codes # {}
      BY <1>5, <2>4 DEF Fresh
    <3>2. req'[d].cred \in 1..lastCred
      BY <3>1, <2>1, <2>3, AccountsAssumption
    <3> QED BY <1>5, <2>4, <3>1, <3>2 DEF RequestOk
  <2>5. CASE req'[d].op # "recovery"
    BY <1>5, <2>2, <2>5 DEF RequestOk, Fresh
  <2> QED BY <2>4, <2>5
<1> QED BY <1>1, <1>3, <1>4, <1>5 DEF RequestGoes

-----------------------------------------------------------------------------
\* How a step changes one account.
SameTotp(u) ==
    acc'[u].cred = acc[u].cred /\ acc'[u].codes = acc[u].codes /\ acc'[u].used = acc[u].used
Cleared(u) == acc'[u].cred = 0 /\ acc'[u].codes = {} /\ acc'[u].used = {}
Enrols(u) == acc[u].cred = 0 /\ acc'[u].cred = lastCred + 1 /\ acc'[u].used = acc[u].used
Recovers(b, u) ==
    /\ RecoveryCommit(b) /\ req[b].on = u
    /\ acc'[u].cred = acc[u].cred /\ acc'[u].codes = req[b].left
    /\ acc'[u].used = acc[u].used \cup req[b].code
Leaves(b, u) == (DeactivateCommit(b) \/ DeleteCommit(b)) /\ req[b].on = u

\* What becomes of the second factor, and of the account itself: it is switched
\* off or deleted by a request for it only.
LEMMA AccountGoes ==
    ASSUME TypeOK, RequestInv, [Next]_vars, NEW u \in Users
    PROVE  /\ \/ SameTotp(u) \/ Cleared(u) \/ Enrols(u)
              \/ \E b \in Browsers : Recovers(b, u)
           /\ u \in Active => \/ acc'[u].st = "active"
                              \/ \E b \in Browsers : Leaves(b, u)
<1>1. acc \in [Users -> Account] /\ acc[u] \in Account
  BY DEF TypeOK
<1> DEFINE Goes == /\ \/ SameTotp(u) \/ Cleared(u) \/ Enrols(u)
                      \/ \E b \in Browsers : Recovers(b, u)
                   /\ u \in Active => \/ acc'[u].st = "active"
                                      \/ \E b \in Browsers : Leaves(b, u)
<1>2. CASE acc'[u] = acc[u]
  BY <1>2 DEF SameTotp, Active
<1>3. ASSUME NEW v \in Users, acc' = NewAccount(v), ~Exists(v)
      PROVE  Goes
  <2>1. CASE v = u
    BY <2>1, <1>1, <1>3 DEF NewAccount, NoAccount, Cleared, Exists, Active
  <2>2. CASE v # u
    BY <2>2, <1>1, <1>2, <1>3 DEF NewAccount
  <2> QED BY <2>1, <2>2
<1>4. ASSUME NEW v \in Users, acc' = NoTotp(v)
      PROVE  Goes
  <2>1. CASE v = u
    BY <2>1, <1>1, <1>4 DEF NoTotp, Cleared, Account, Active
  <2>2. CASE v # u
    BY <2>2, <1>1, <1>2, <1>4 DEF NoTotp
  <2> QED BY <2>1, <2>2
<1>5. ASSUME NEW v \in Users, acc' = Enrolled(v), acc[v].cred = 0
      PROVE  Goes
  <2>1. CASE v = u
    BY <2>1, <1>1, <1>5 DEF Enrolled, Enrols, Account, Active
  <2>2. CASE v # u
    BY <2>2, <1>1, <1>2, <1>5 DEF Enrolled
  <2> QED BY <2>1, <2>2
<1>6. CASE Quiet \/ \E v \in Users : Rescue(v)
  BY <1>2, <1>4, <1>6 DEF Quiet, Rescue
<1>7. ASSUME NEW b \in Browsers, StepOf(b)
      PROVE  Goes
  <2>1. CASE SetupAccountCommit(b)
    BY <2>1, <1>3 DEF SetupAccountCommit, RequestInv, RequestOk
  <2>2. CASE SetupTotpCommit(b)
    BY <2>2, <1>5 DEF SetupTotpCommit, RequestInv, RequestOk
  <2>3. CASE RecoveryCommit(b)
    <3>1. CASE req[b].on = u
      <4>1. /\ acc'[u].cred = acc[u].cred /\ acc'[u].codes = req[b].left
            /\ acc'[u].used = acc[u].used \cup req[b].code /\ acc'[u].st = acc[u].st
        BY <2>3, <3>1, <1>1 DEF RecoveryCommit, Account
      <4> QED BY <2>3, <3>1, <4>1 DEF Recovers, Active
    <3>2. CASE req[b].on # u
      BY <2>3, <3>2, <1>1, <1>2 DEF RecoveryCommit
    <3> QED BY <3>1, <3>2
  <2>4. CASE Enrol(b)
    BY <2>4, <1>5 DEF Enrol, MayConfirm, Pending, TypeOK, Cookie, MaybeUser
  <2>5. CASE \E v \in Users : Manages(b, v)
    <3>1. PICK v \in Users : Manages(b, v)
      BY <2>5
    <3>2. CASE Activate(b, v)
      <4>1. SameTotp(u) /\ (u \in Active => acc'[u].st = "active")
        BY <3>2, <1>1 DEF Activate, Saved, SameTotp, Active, Account
      <4> QED BY <4>1
    <3> QED BY <3>1, <3>2, <1>3, <1>4 DEF Manages, Create, ResetTotp, Saved
  <2>6. CASE DeactivateCommit(b)
    <3>1. SameTotp(u)
      BY <2>6, <1>1 DEF DeactivateCommit, SameTotp, Account
    <3>2. req[b].on # u => acc'[u] = acc[u]
      BY <2>6, <1>1 DEF DeactivateCommit
    <3> QED BY <2>6, <3>1, <3>2, <1>2 DEF Leaves
  <2>7. CASE DeleteCommit(b)
    <3>1. CASE req[b].on = u
      <4>1. Cleared(u)
        BY <2>7, <3>1, <1>1 DEF DeleteCommit, Cleared, NoAccount
      <4> QED BY <2>7, <3>1, <4>1 DEF Leaves
    <3>2. CASE req[b].on # u
      BY <2>7, <3>2, <1>1, <1>2 DEF DeleteCommit
    <3> QED BY <3>1, <3>2
  <2>8. CASE UNCHANGED acc
    BY <1>2, <2>8
  <2> QED BY <1>7, <2>1, <2>2, <2>3, <2>4, <2>5, <2>6, <2>7, <2>8
          DEF StepOf, Visit, VisitCommit, SetupAccount, SetupTotp, SetupStep, SetupStepCommit,
              Refused, SetupRejected, RecoveryRejected, AdminRejected, Rejected, Recovery,
              Deactivate, Delete, Administers, Asks
<1> QED BY <1>6, <1>7, Steps

\* What was torn stays so, and a request that meets another one of its kind tears.
LEMMA TornStays ==
    ASSUME [Next]_vars, ~torn'
    PROVE  /\ ~torn
           /\ \A b \in Browsers : Ends(b) => ~Overlaps(b)
<1>1. \A b \in Browsers : Ends(b) => ~torn /\ ~Overlaps(b)
  BY DEF Ends
<1>2. CASE Quiet \/ \E u \in Users : Rescue(u)
  <2>1. CASE Quiet
    BY <2>1, <1>1 DEF Quiet
  <2>2. ASSUME NEW u \in Users, Rescue(u)
        PROVE  ~torn
    BY <2>2 DEF Rescue
  <2>3. ASSUME ~torn
        PROVE  \A b \in Browsers : Ends(b) => ~Overlaps(b)
    BY <1>1
  <2> QED BY <1>1, <1>2, <2>1, <2>2, <2>3
<1>3. ASSUME NEW b \in Browsers, StepOf(b)
      PROVE  UNCHANGED torn \/ Ends(b)
  <2>1. CASE Ends(b)
    BY <2>1
  <2>2. ASSUME NEW r, Asks(b, r)
        PROVE  UNCHANGED torn
    BY <2>2 DEF Asks
  <2>3. CASE Rejected(b)
    BY <2>3 DEF Rejected
  <2>4. CASE Enrol(b) \/ \E u \in Users : Manages(b, u)
    BY <2>4 DEF Enrol, Manages, Create, Activate, ResetTotp, Saved
  <2>5. CASE \E code \in Codes : Recovery(b, code)
    BY <2>5, <2>2 DEF Recovery
  <2>6. CASE Visit(b) \/ SetupAccount(b) \/ SetupTotp(b) \/ SetupStep(b)
    BY <2>6, <2>2 DEF Visit, SetupAccount, SetupTotp, SetupStep
  <2>7. CASE \E u \in Users : Deactivate(b, u) \/ Delete(b, u)
    BY <2>7, <2>2 DEF Deactivate, Delete, Administers
  <2> QED BY <1>3, <2>1, <2>3, <2>4, <2>5, <2>6, <2>7
          DEF StepOf, VisitCommit, SetupAccountCommit, SetupTotpCommit, SetupStepCommit, Refused,
              SetupRejected, RecoveryRejected, AdminRejected, RecoveryCommit, DeactivateCommit,
              DeleteCommit
<1> QED BY <1>1, <1>2, <1>3, Steps

-----------------------------------------------------------------------------
\* Two requests that both decide on the number of active accounts, or both write
\* back a list of codes, overlap.
LEMMA Meet ==
    ASSUME NEW b \in Browsers, NEW d \in Browsers \ {b},
           \/ req[b].op \in {"deactivate", "delete"} /\ req[d].op \in {"deactivate", "delete"}
           \/ req[b].op = "recovery" /\ req[d].op = "recovery"
    PROVE  Overlaps(b)
BY DEF Overlaps, Conflicts

\* Somebody active is left.
LEMMA AdminStep ==
    ASSUME TypeOK, RequestInv, AdminInv, [Next]_vars
    PROVE  AdminInv'
<1> SUFFICES ASSUME ~torn'
             PROVE  /\ (\E at \in DOMAIN inst' : inst'[at].step > 0 \/ ~inst'[at].first)
                          => Active' # {}
                    /\ \A b \in Browsers :
                          req'[b].op \in {"deactivate", "delete"} => Active' \ {req'[b].on} # {}
  BY DEF AdminInv
<1>1. ~torn /\ \A b \in Browsers : Ends(b) => ~Overlaps(b)
  BY TornStays
<1>2. /\ (\E at \in DOMAIN inst : inst[at].step > 0 \/ ~inst[at].first) => Active # {}
      /\ \A b \in Browsers :
            req[b].op \in {"deactivate", "delete"} => Active \ {req[b].on} # {}
  BY <1>1 DEF AdminInv
<1>3. CASE \E b \in Browsers, u \in Users : Leaves(b, u)
  <2>1. PICK b \in Browsers, u \in Users : Leaves(b, u)
    BY <1>3
  <2>2. /\ req[b].op \in {"deactivate", "delete"} /\ Ends(b) /\ inst' = inst
        /\ acc' = [acc EXCEPT ![u] = NoAccount] \/ acc' = [acc EXCEPT ![u].st = "off"]
        /\ req[b].on = u
    BY <2>1 DEF Leaves, DeactivateCommit, DeleteCommit
  <2>3. Active \ {u} \subseteq Active'
    BY <2>2 DEF TypeOK, Active
  <2>4. Active' # {}
    BY <1>2, <2>2, <2>3
  <2>5. ASSUME NEW d \in Browsers
        PROVE  req'[d].op \notin {"deactivate", "delete"}
    <3>1. CASE d = b
      BY <2>2, <3>1, RequestsApart DEF NoRequest
    <3>2. CASE d # b
      <4>1. req'[d] = req[d]
        BY <2>2, <3>2, RequestsApart
      <4>2. req[d].op \notin {"deactivate", "delete"}
        BY <1>1, <2>2, <3>2, Meet
      <4> QED BY <4>1, <4>2
    <3> QED BY <3>1, <3>2
  <2> QED BY <2>4, <2>5
<1>4. CASE ~\E b \in Browsers, u \in Users : Leaves(b, u)
  <2>1. Active \subseteq Active'
    BY <1>4, AccountGoes DEF Active
  <2>2. ASSUME NEW d \in Browsers, req'[d].op \in {"deactivate", "delete"}
        PROVE  Active' \ {req'[d].on} # {}
    <3>1. CASE req'[d] = req[d]
      BY <1>2, <2>1, <2>2, <3>1
    <3>2. CASE req'[d] = NoRequest
      BY <2>2, <3>2 DEF NoRequest
    <3>3. CASE Fresh(req'[d])
      BY <2>1, <2>2, <3>3 DEF Fresh
    <3> QED BY <3>1, <3>2, <3>3, RequestsGo DEF RequestGoes
  <2>3. ASSUME NEW at \in DOMAIN inst', inst'[at].step > 0 \/ ~inst'[at].first
        PROVE  Active' # {}
    <3>1. CASE UNCHANGED inst
      BY <1>2, <2>1, <2>3, <3>1
    <3>2. ASSUME NEW b \in Browsers, VisitCommit(b)
          PROVE  Active' # {}
      BY <1>2, <2>1, <2>3, <3>2, FirstVisit
    <3>3. ASSUME NEW b \in Browsers, SetupAccountCommit(b)
          PROVE  Active' # {}
      <4>1. req[b].on \in Users /\ acc' = NewAccount(req[b].on)
        BY <3>3 DEF SetupAccountCommit, RequestInv, RequestOk
      <4>2. acc'[req[b].on].st = "active"
        BY <4>1 DEF TypeOK, NewAccount, NoAccount
      <4> QED BY <4>1, <4>2 DEF Active
    <3>4. ASSUME NEW b \in Browsers, SetupTotpCommit(b) \/ SetupStepCommit(b)
          PROVE  Active' # {}
      <4>1. req[b].op \in {"totp", "step"}
        BY <3>4 DEF SetupTotpCommit, SetupStepCommit
      <4>2. req[b].at \in DOMAIN inst /\ inst[req[b].at].step > 0
        BY <4>1 DEF RequestInv, RequestOk
      <4> QED BY <1>2, <2>1, <4>2
    <3> QED BY <3>1, <3>2, <3>3, <3>4, RowStep
  <2> QED BY <2>2, <2>3
<1> QED BY <1>3, <1>4

\* No list that is written back holds a code that was used.
LEMMA CodesStep ==
    ASSUME TypeOK, RequestInv, CodesInv, [Next]_vars
    PROVE  CodesInv'
<1>1. \A u \in Users : /\ acc[u].cred \in 0..lastCred
                       /\ acc[u].cred = 0 => acc[u].used = {} /\ acc[u].codes = {}
  BY AccountsAssumption DEF TypeOK, CodesInv, Account
<1>2. lastCred \in Nat
  BY CredGrows
<1>3. \A b \in Browsers, u \in Users : Recovers(b, u) =>
          req[b].op = "recovery" /\ req[b].on = u /\ Ends(b)
                                 /\ acc[u].cred = req[b].cred /\ req[b].cred \in 1..lastCred
  BY DEF Recovers, RecoveryCommit, RequestInv, RequestOk
<1>4. ASSUME NEW u \in Users, acc'[u].cred = 0
      PROVE  acc'[u].used = {}
  BY <1>1, <1>2, <1>3, <1>4, AccountGoes DEF SameTotp, Cleared, Enrols, Recovers
<1>5. ASSUME ~torn'
      PROVE  CodeWorksOnce'
  <2>1. /\ ~torn
        /\ \A u \in Users : acc[u].codes \cap acc[u].used = {}
        /\ \A b \in Browsers : req[b].op = "recovery" /\ acc[req[b].on].cred = req[b].cred
              => req[b].left \cap (acc[req[b].on].used \cup req[b].code) = {}
    BY <1>5, TornStays DEF CodesInv, CodeWorksOnce
  <2>2. ASSUME NEW u \in Users
        PROVE  acc'[u].codes \cap acc'[u].used = {}
    <3>1. CASE SameTotp(u) \/ Cleared(u)
      BY <2>1, <3>1 DEF SameTotp, Cleared
    <3>2. CASE Enrols(u)
      BY <1>1, <3>2 DEF Enrols
    <3>3. ASSUME NEW b \in Browsers, Recovers(b, u)
          PROVE  acc'[u].codes \cap acc'[u].used = {}
      BY <1>3, <2>1, <3>3 DEF Recovers
    <3> QED BY <3>1, <3>2, <3>3, AccountGoes
  <2> QED BY <2>2 DEF CodeWorksOnce
<1>6. ASSUME ~torn', NEW d \in Browsers, req'[d].op = "recovery",
             acc'[req'[d].on].cred = req'[d].cred
      PROVE  req'[d].left \cap (acc'[req'[d].on].used \cup req'[d].code) = {}
  <2>1. /\ ~torn /\ \A b \in Browsers : Ends(b) => ~Overlaps(b)
        /\ \A u \in Users : acc[u].codes \cap acc[u].used = {}
        /\ \A b \in Browsers : req[b].op = "recovery" /\ acc[req[b].on].cred = req[b].cred
              => req[b].left \cap (acc[req[b].on].used \cup req[b].code) = {}
    BY <1>6, TornStays DEF CodesInv, CodeWorksOnce
  <2>2. CASE req'[d] = req[d]
    <3> DEFINE u == req[d].on
    <3>1. u \in Users /\ req[d].cred \in 1..lastCred /\ req[d].op = "recovery"
      BY <1>6, <2>2 DEF RequestInv, RequestOk
    <3>2. CASE SameTotp(u)
      BY <1>6, <2>1, <2>2, <3>1, <3>2 DEF SameTotp
    <3>3. CASE Cleared(u) \/ Enrols(u)
      BY <1>2, <1>6, <2>2, <3>1, <3>3 DEF Cleared, Enrols
    <3>4. ASSUME NEW b \in Browsers, Recovers(b, u)
          PROVE  FALSE
      <4>1. CASE b = d
        <5>1. req'[d].op = "none"
          BY <1>3, <3>1, <3>4, <4>1, RequestsApart DEF NoRequest
        <5> QED BY <1>6, <5>1
      <4>2. CASE b # d
        BY <1>3, <2>1, <3>1, <3>4, <4>2, Meet
      <4> QED BY <4>1, <4>2
    <3> QED BY <3>1, <3>2, <3>3, <3>4, AccountGoes
  <2>3. CASE req'[d] = NoRequest
    BY <1>6, <2>3 DEF NoRequest
  <2>4. CASE Fresh(req'[d]) /\ UNCHANGED <<acc, lastCred, inst, torn>>
    <3>1. /\ req'[d].on \in Users /\ req'[d].code \subseteq acc[req'[d].on].codes
          /\ req'[d].left = acc[req'[d].on].codes \ req'[d].code
      BY <1>6, <2>4 DEF Fresh
    <3> QED BY <2>1, <2>4, <3>1
  <2> QED BY <2>2, <2>3, <2>4, RequestsGo DEF RequestGoes
<1> QED BY <1>4, <1>5, <1>6 DEF CodesInv

\* Before the wizard ends no account is taken away, and no second factor but by
\* the console.
LEMMA NothingTaken ==
    ASSUME TypeOK, RequestInv, [Next]_vars, ~Panel, NEW u \in Users
    PROVE  /\ Exists(u) => acc'[u].st = acc[u].st
           /\ ~Exists(u) => acc'[u].st \in {"none", "active"}
           /\ ~torn' /\ Exists(u) /\ acc[u].cred # 0 => acc'[u].cred # 0
<1>1. acc \in [Users -> Account] /\ acc[u] \in Account /\ lastCred \in Nat
  BY CredGrows DEF TypeOK
<1>2. CASE acc'[u] = acc[u]
  BY <1>1, <1>2 DEF Exists, Account
<1>3. CASE Quiet
  BY <1>2, <1>3 DEF Quiet
<1>4. ASSUME NEW v \in Users, Rescue(v)
      PROVE  /\ Exists(u) => acc'[u].st = acc[u].st
             /\ ~Exists(u) => acc'[u].st \in {"none", "active"}
             /\ torn'
  BY <1>1, <1>4 DEF Rescue, NoTotp, Exists, Account
<1>5. ASSUME NEW b \in Browsers, StepOf(b)
      PROVE  /\ Exists(u) => acc'[u].st = acc[u].st
             /\ ~Exists(u) => acc'[u].st \in {"none", "active"}
             /\ Exists(u) /\ acc[u].cred # 0 => acc'[u].cred # 0
  <2>1. CASE SetupAccountCommit(b)
    BY <2>1, <1>1 DEF SetupAccountCommit, NewAccount, NoAccount, Exists, RequestInv, RequestOk,
       Account
  <2>2. CASE SetupTotpCommit(b)
    BY <2>2, <1>1 DEF SetupTotpCommit, Enrolled, Exists, Account
  <2>3. CASE RecoveryCommit(b)
    BY <2>3, <1>1 DEF RecoveryCommit, Exists, Account
  <2>4. CASE DeactivateCommit(b) \/ DeleteCommit(b)
    BY <2>4 DEF DeactivateCommit, DeleteCommit, RequestInv, RequestOk
  <2>5. CASE Enrol(b) \/ \E v \in Users : Manages(b, v)
    BY <2>5 DEF Enrol, MayConfirm, Manages, Create, Activate, ResetTotp, MayAdminister
  <2>6. CASE UNCHANGED acc
    BY <1>2, <2>6
  <2> QED BY <1>5, <2>1, <2>2, <2>3, <2>4, <2>5, <2>6
          DEF StepOf, Visit, VisitCommit, SetupAccount, SetupTotp, SetupStep, SetupStepCommit,
              Refused, SetupRejected, RecoveryRejected, AdminRejected, Rejected, Recovery,
              Deactivate, Delete, Administers, Asks
<1> QED BY <1>3, <1>4, <1>5, Steps

\* The wizard does not lose the administrator it made.
LEMMA SetupInvStep ==
    ASSUME TypeOK, RequestInv, SetupInv, [Next]_vars
    PROVE  SetupInv'
<1> SUFFICES ASSUME ~Panel'
             PROVE  /\ \A u \in Users : acc'[u].st # "off"
                    /\ \A b \in Browsers : req'[b].op = "totp" => Exists(req[b].on)'
                    /\ ~torn' /\ ( \/ \E at \in DOMAIN inst' : inst'[at].step > 1
                                   \/ \E b \in Browsers : req'[b].op = "step" ) => HasAdmin'
  BY DEF SetupInv
<1>1. ~Panel
  BY PanelStays
<1>2. /\ \A u \in Users : acc[u].st # "off"
      /\ \A b \in Browsers : req[b].op = "totp" => Exists(req[b].on)
      /\ ~torn /\ ( \/ \E at \in DOMAIN inst : inst[at].step > 1
                    \/ \E b \in Browsers : req[b].op = "step" ) => HasAdmin
  BY <1>1 DEF SetupInv
<1>3. \A u \in Users : acc'[u].st # "off"
  BY <1>1, <1>2, NothingTaken DEF Exists
<1>4. ASSUME NEW d \in Browsers, req'[d].op = "totp"
      PROVE  acc'[req'[d].on].st # "none"
  <2>1. req'[d].on \in Users
    BY <1>4, RequestInvStep DEF RequestInv, RequestOk
  <2>2. CASE req'[d] = req[d]
    BY <1>1, <1>2, <1>4, <2>1, <2>2, NothingTaken DEF Exists
  <2>3. CASE req'[d] = NoRequest
    BY <1>4, <2>3 DEF NoRequest
  <2>4. CASE Fresh(req'[d]) /\ UNCHANGED <<acc, lastCred, inst, torn>>
    BY <1>4, <2>4 DEF Fresh, Exists
  <2> QED BY <2>2, <2>3, <2>4, RequestsGo DEF RequestGoes
<1>5. ASSUME ~torn', HasAdmin
      PROVE  HasAdmin'
  <2>1. PICK u \in Active : acc[u].cred # 0
    BY <1>5 DEF HasAdmin
  <2>2. acc'[u].st = "active" /\ acc'[u].cred # 0 /\ u \in Users
    BY <1>1, <1>5, <2>1, NothingTaken DEF Active, Exists
  <2> QED BY <2>2 DEF HasAdmin, Active
<1>6. ASSUME ~torn', \/ \E at \in DOMAIN inst' : inst'[at].step > 1
                     \/ \E b \in Browsers : req'[b].op = "step"
      PROVE  HasAdmin'
  <2>1. ~torn
    BY <1>6, TornStays
  <2>2. ASSUME NEW b \in Browsers, SetupTotpCommit(b)
        PROVE  HasAdmin'
    <3> DEFINE u == req[b].on
    <3>1. u \in Users /\ acc[u].st # "none" /\ acc[u].st # "off" /\ acc' = Enrolled(u)
      BY <1>2, <2>2 DEF SetupTotpCommit, RequestInv, RequestOk, Exists
    <3>2. lastCred \in Nat /\ acc \in [Users -> Account]
      BY CredGrows DEF TypeOK
    <3>3. acc'[u].st = "active" /\ acc'[u].cred # 0
      BY <3>1, <3>2 DEF Enrolled, Account
    <3> QED BY <3>1, <3>3 DEF HasAdmin, Active
  <2>3. ASSUME NEW d \in Browsers, req'[d].op = "step"
        PROVE  HasAdmin
    <3>1. CASE req'[d] = req[d]
      BY <1>2, <2>1, <2>3, <3>1
    <3>2. CASE req'[d] = NoRequest
      BY <2>3, <3>2 DEF NoRequest
    <3>3. CASE Fresh(req'[d])
      BY <1>2, <2>1, <2>3, <3>3 DEF Fresh
    <3> QED BY <3>1, <3>2, <3>3, RequestsGo DEF RequestGoes
  <2>4. ASSUME NEW at \in DOMAIN inst', inst'[at].step > 1,
               ~\E b \in Browsers : SetupTotpCommit(b)
        PROVE  HasAdmin
    <3>1. CASE UNCHANGED inst
      BY <1>2, <2>1, <2>4, <3>1
    <3>2. ASSUME NEW b \in Browsers, VisitCommit(b)
          PROVE  HasAdmin
      BY <1>2, <2>1, <2>4, <3>2, FirstVisit
    <3>3. ASSUME NEW b \in Browsers,
                 RowBecomes(b, [first |-> inst[req[b].at].first, step |-> 1])
          PROVE  HasAdmin
      BY <1>2, <2>1, <2>4, <3>3 DEF RowBecomes
    <3>4. ASSUME NEW b \in Browsers, SetupStepCommit(b)
          PROVE  HasAdmin
      BY <1>2, <2>1, <3>4 DEF SetupStepCommit
    <3> QED BY <2>4, <3>1, <3>2, <3>3, <3>4, RowStep
  <2> QED BY <1>5, <1>6, <2>2, <2>3, <2>4
<1> QED BY <1>3, <1>4, <1>6 DEF Exists

-----------------------------------------------------------------------------
\* The wizard ends with its last step.
LEMMA WizardEnds ==
    ASSUME TypeOK, RequestInv, [Next]_vars, ~Panel, Panel'
    PROVE  \E b \in Browsers :
              /\ SetupStepCommit(b) /\ req[b].step = 4
              /\ RowBecomes(b, [first |-> FALSE, step |-> 5])
<1>1. \A i \in DOMAIN inst : inst[i].first
  BY DEF Panel, SetupDone
<1>2. PICK at \in DOMAIN inst' : ~inst'[at].first
  BY DEF Panel, SetupDone
<1>3. ASSUME NEW b \in Browsers, VisitCommit(b)
      PROVE  FALSE
  BY <1>1, <1>2, <1>3, FirstVisit
<1>4. ASSUME NEW b \in Browsers, NEW first, NEW step, RowBecomes(b, [first |-> first, step |-> step]),
             req[b].op \in StepOps
      PROVE  inst[req[b].at].first /\ ~first
  <2>1. req[b].at \in DOMAIN inst
    BY <1>4 DEF RequestInv, RequestOk, StepOps
  <2> QED BY <1>1, <1>2, <1>4, <2>1 DEF RowBecomes
<1>5. \A b \in Browsers : /\ SetupAccountCommit(b) => req[b].op \in StepOps
                          /\ SetupTotpCommit(b) => req[b].op \in StepOps
                          /\ SetupStepCommit(b) => req[b].op \in StepOps
  BY DEF SetupAccountCommit, SetupTotpCommit, SetupStepCommit, StepOps
<1>6. PICK b \in Browsers :
         /\ SetupStepCommit(b)
         /\ RowBecomes(b, [first |-> inst[req[b].at].first /\ req[b].step # 4,
                           step |-> req[b].step + 1])
  BY <1>1, <1>2, <1>3, <1>4, <1>5, RowStep
<1>7. ~(inst[req[b].at].first /\ req[b].step # 4) /\ inst[req[b].at].first
  BY <1>4, <1>5, <1>6
<1>8. req[b].step = 4 /\ req[b].step + 1 = 5
  BY <1>7
<1> QED BY <1>6, <1>7, <1>8

\* Nothing opens the wizard again but steps that overlapped.
LEMMA DoneStep ==
    ASSUME TypeOK, RequestInv, VisitInv, DoneInv, [Next]_vars
    PROVE  /\ DoneInv'
           /\ Panel /\ ~torn' /\ Len(inst') <= 1 => inst' = inst
<1>1. SUFFICES ASSUME Panel', ~torn', Len(inst') <= 1, inst' \in Seq(InstanceState)
               PROVE  /\ \A at \in DOMAIN inst' : inst'[at].step = 5
                      /\ \A b \in Browsers : req'[b].op \notin StepOps
                      /\ Panel => inst' = inst
  <2>1. inst' \in Seq(InstanceState)
    BY VisitStep
  <2> QED BY <2>1, PanelStays DEF DoneInv
<1>2. inst \in Seq(InstanceState) /\ ~torn
  BY <1>1, TornStays DEF TypeOK
<1>3. /\ DOMAIN inst = 1..Len(inst) /\ Len(inst) \in Nat
      /\ DOMAIN inst' = 1..Len(inst') /\ Len(inst') \in Nat
      /\ DOMAIN inst \subseteq DOMAIN inst'
  BY <1>1, <1>2, LenProperties, NoStepBack
<1>4. Len(inst) <= 1 /\ \A i, j \in DOMAIN inst : i = j
  BY <1>1, <1>3
<1>5. CASE Panel
  <2>1. /\ \A at \in DOMAIN inst : inst[at].step = 5
        /\ \A b \in Browsers : req[b].op \notin StepOps
    BY <1>2, <1>4, <1>5 DEF DoneInv
  <2>2. \A b \in Browsers : ~SetupAccountCommit(b) /\ ~SetupTotpCommit(b) /\ ~SetupStepCommit(b)
    BY <2>1 DEF SetupAccountCommit, SetupTotpCommit, SetupStepCommit, StepOps
  <2>3. ASSUME NEW b \in Browsers, VisitCommit(b)
        PROVE  FALSE
    <3>1. Len(inst') = Len(inst) + 1
      BY <1>2, <2>3, AppendProperties DEF VisitCommit, NewInstance, InstanceState
    <3>2. Len(inst) # 0
      BY <1>3, <1>5 DEF Panel, SetupDone
    <3> QED BY <1>1, <1>3, <3>1, <3>2
  <2>4. inst' = inst
    BY <2>2, <2>3, RowStep
  <2>5. ASSUME NEW b \in Browsers
        PROVE  req'[b].op \notin StepOps
    <3>1. CASE req'[b] = req[b]
      BY <2>1, <3>1
    <3>2. CASE req'[b] = NoRequest
      BY <3>2 DEF NoRequest, StepOps
    <3>3. CASE Fresh(req'[b])
      BY <2>1, <3>3 DEF Fresh, StepOps
    <3> QED BY <3>1, <3>2, <3>3, RequestsGo DEF RequestGoes
  <2> QED BY <2>1, <2>4, <2>5
<1>6. CASE ~Panel
  <2>1. PICK b \in Browsers : /\ SetupStepCommit(b) /\ req[b].step = 4
                             /\ RowBecomes(b, [first |-> FALSE, step |-> 5])
    BY <1>1, <1>6, WizardEnds
  <2>2. req[b].op = "step" /\ Ends(b) /\ req[b].at \in DOMAIN inst
    BY <2>1 DEF SetupStepCommit, RequestInv, RequestOk
  <2>3. \A at \in DOMAIN inst' : inst'[at].step = 5
    BY <1>4, <2>1, <2>2 DEF RowBecomes
  <2>4. \A d \in Browsers \ {b} : req[d].op \notin StepOps
    BY <1>1, <2>2, TornStays DEF Overlaps, Conflicts, StepOps
  <2>5. req'[b].op \notin StepOps /\ \A d \in Browsers \ {b} : req'[d] = req[d]
    BY <2>2, RequestsApart DEF NoRequest, StepOps
  <2> QED BY <1>6, <2>3, <2>4, <2>5
<1> QED BY <1>5, <1>6

-----------------------------------------------------------------------------
\* The empty panel.
LEMMA InitInv == Init => IInv
<1> SUFFICES ASSUME Init
             PROVE  IInv
  OBVIOUS
<1>1. /\ NoAccount \in Account /\ NoCookie \in Cookie /\ NoRequest \in Request
      /\ NoAccount.cred = 0 /\ NoAccount.codes = {} /\ NoAccount.used = {}
      /\ NoAccount.st = "none" /\ NoRequest.op = "none"
  BY AccountsAssumption DEF NoAccount, Account, NoCookie, Cookie, NoRequest, Request, Ops, MaybeUser
<1>2. inst = <<>> /\ inst \in Seq(InstanceState) /\ Len(inst) = 0 /\ DOMAIN inst = {}
  BY DEF Init
<1>3. TypeOK
  <2>1. acc \in [Users -> Account] /\ cookie \in [Browsers -> Cookie] /\ req \in [Browsers -> Request]
    BY <1>1 DEF Init
  <2>2. torn \in BOOLEAN
    BY DEF Init
  <2>3. lastCred \in 0..MaxCred /\ Len(inst) <= MaxRows
    BY <1>2, AccountsAssumption DEF Init
  <2>4. \A u \in Users : acc[u].cred <= lastCred /\ (acc[u].cred = 0 => acc[u].codes = {})
    BY <1>1 DEF Init
  <2> QED BY <1>2, <2>1, <2>2, <2>3, <2>4 DEF TypeOK
<1>4. \A u \in Users : acc[u] = NoAccount
  BY DEF Init
<1>5. \A b \in Browsers : req[b] = NoRequest
  BY DEF Init
<1>6. RequestInv
  BY <1>1, <1>5 DEF RequestInv, RequestOk
<1>7. Visits = {}
  BY <1>1, <1>5 DEF Visits
<1>8. VisitInv
  BY <1>2, <1>7, AccountsAssumption, FS_EmptySet DEF VisitInv
<1>9. AdminInv
  BY <1>1, <1>2, <1>5 DEF AdminInv
<1>10. CodesInv
  BY <1>1, <1>4, <1>5 DEF CodesInv, CodeWorksOnce
<1>11. SetupInv
  BY <1>1, <1>2, <1>4, <1>5 DEF SetupInv
<1>12. DoneInv
  BY <1>2 DEF DoneInv, Panel, SetupDone
<1> QED BY <1>3, <1>6, <1>8, <1>9, <1>10, <1>11, <1>12 DEF IInv

\* Every step keeps the invariant.
LEMMA NextInv == IInv /\ [Next]_vars => IInv'
<1> SUFFICES ASSUME IInv, [Next]_vars
             PROVE  IInv'
  OBVIOUS
<1> QED BY TypeStep, RequestInvStep, VisitStep, AdminStep, CodesStep, SetupInvStep, DoneStep DEF IInv

\* It holds always.
LEMMA Invariant == Spec => []IInv
BY InitInv, NextInv, PTL DEF Spec

\* Every variable keeps its type: ids of credentials stay in bounds, an account
\* without a second factor has no recovery codes, and the wizard has no more rows
\* than browsers that were the first to visit.
THEOREM TypeCorrect == Spec => []TypeOK
<1>1. IInv => TypeOK
  BY DEF IInv
<1> QED BY <1>1, Invariant, PTL

\* However many administrators switch accounts off and delete them, one active
\* account is left while no two such requests overlap.  The count that delete_user
\* takes is not needed for this: who deletes is active himself and not deleted.
THEOREM AnActiveAdminIsLeft == Spec => []ActiveAdminLeft
<1>1. IInv => ActiveAdminLeft
  BY DEF IInv, AdminInv, ActiveAdminLeft, Panel, SetupDone
<1> QED BY <1>1, Invariant, PTL

\* A recovery code works once while no two logins with recovery codes overlap,
\* whatever is enrolled, reset, deleted and made again in between.
THEOREM RecoveryCodesAreUsedUp == Spec => []CodesUsedUp
<1>1. IInv => CodesUsedUp
  BY DEF IInv, CodesInv, CodesUsedUp
<1> QED BY <1>1, Invariant, PTL

\* A wizard that one browser at a time went through ends with an account that has
\* a password and a second factor, for any number of wizard rows.
THEOREM WizardLeavesAdmin == Spec => SetupLeavesAdmin
<1>1. ASSUME IInv, [Next]_vars, ~Panel, Panel', ~torn'
      PROVE  \E u \in Active : acc[u].cred # 0
  <2>1. TypeOK /\ RequestInv /\ ~torn
    BY <1>1, TornStays DEF IInv
  <2>2. \E b \in Browsers : req[b].op = "step"
    BY <1>1, <2>1, WizardEnds DEF SetupStepCommit
  <2> QED BY <1>1, <2>1, <2>2 DEF IInv, SetupInv, HasAdmin
<1>2. IInv /\ [Next]_vars => [~Panel /\ Panel' /\ ~torn' => \E u \in Active : acc[u].cred # 0]_vars
  BY <1>1
<1> QED BY <1>2, Invariant, PTL DEF Spec, SetupLeavesAdmin

\* As long as instance_state has one row, a wizard that has ended does not begin
\* again, whatever steps of other browsers commit late; and unless steps overlapped
\* it accepts none any more, although its handlers look at the step alone.
THEOREM WizardEndsOnce == Spec => SetupIsFinal
<1>1. ASSUME IInv, [Next]_vars, Panel, Len(inst') <= 1
      PROVE  /\ \A at \in DOMAIN inst' : ~inst'[at].first
             /\ ~torn' => inst' = inst
  <2>1. TypeOK /\ RequestInv /\ VisitInv /\ DoneInv
    BY <1>1 DEF IInv
  <2>2. PICK done \in DOMAIN inst : ~inst[done].first
    BY <1>1 DEF Panel, SetupDone
  <2>3. inst' \in Seq(InstanceState)
    BY <1>1, <2>1, VisitStep
  <2>4. \A i, j \in DOMAIN inst' : i = j
    BY <1>1, <2>3, LenProperties
  <2>5. done \in DOMAIN inst' /\ ~inst'[done].first
    BY <1>1, <2>1, <2>2, NoStepBack
  <2>6. ~torn' => inst' = inst
    BY <1>1, <2>1, DoneStep
  <2> QED BY <2>4, <2>5, <2>6
<1>2. IInv /\ [Next]_vars
        => [Panel /\ Len(inst') <= 1
              => /\ \A at \in DOMAIN inst' : ~inst'[at].first
                 /\ ~torn' => inst' = inst]_vars
  BY <1>1
<1> QED BY <1>2, Invariant, PTL DEF Spec, SetupIsFinal

=============================================================================
