------------------------------ MODULE Accounts ------------------------------
(***************************************************************************)
(* Accounts of the panel (routers/settings_users.py, routers/auth.py), the *)
(* wizard that makes the first of them (routers/setup_wizard.py) and the   *)
(* rescue scripts of the console (bin/set-admin-*.py).                     *)
(*                                                                         *)
(* A request is one transaction at READ COMMITTED.  Where a handler        *)
(* decides on what it has read, the read (Asks) and the commit are two     *)
(* actions.  A request that fails at its commit leaves nothing, like one   *)
(* that was never sent.  The session is a signed cookie: what the server   *)
(* puts there stays with the browser, and no table knows of it.            *)
(*                                                                         *)
(* Abstractions: a person knows the passwords and has the codes needed; a  *)
(* TOTP credential is its row id and the recovery codes it has left.       *)
(***************************************************************************)
EXTENDS Naturals, Sequences, FiniteSets

CONSTANTS
    Users,      \* login names
    NoUser,     \* no account
    Browsers,   \* cookie jars, with one request at a time each
    Codes,      \* recovery codes that come with a credential
    MaxCred,    \* bound: TOTP credentials ever enrolled
    MaxRows     \* bound: browsers that are the first to visit the panel

ASSUME AccountsAssumption ==
    /\ NoUser \notin Users
    /\ IsFiniteSet(Browsers)
    /\ MaxCred \in Nat /\ MaxRows \in Nat

VARIABLES
    acc,       \* admin_users with totp_credentials, by login
    lastCred,  \* last id of totp_credentials
    inst,      \* rows of instance_state, which holds the step of the wizard
    cookie,    \* the session of each browser
    req,       \* the request each browser has under way
    torn       \* two requests overlapped that decide on the same thing, or the console
               \* came in between the steps of the wizard

vars == <<acc, lastCred, inst, cookie, req, torn>>

-----------------------------------------------------------------------------
MaybeUser == Users \cup {NoUser}
\* codes are left to log in with; used have logged somebody in (a history).
Account == [st : {"none", "active", "off"}, cred : 0..MaxCred,
            codes : SUBSET Codes, used : SUBSET Codes]
NoAccount == [st |-> "none", cred |-> 0, codes |-> {}, used |-> {}]

InstanceState == [first : BOOLEAN, step : 0..5]
NewInstance == [first |-> TRUE, step |-> 0]

\* in: logged in; pending: the password was right; shown: codes to be shown;
\* setup: the account this browser makes in the wizard.
Cookie == [in : MaybeUser, pending : MaybeUser, shown : BOOLEAN, setup : MaybeUser]
NoCookie == [in |-> NoUser, pending |-> NoUser, shown |-> FALSE, setup |-> NoUser]

Ops == {"none", "visit", "account", "totp", "step", "recovery", "deactivate", "delete"}
\* at: the row of instance_state; the rest is what the handler has read.
Request == [op : Ops, on : MaybeUser, at : 0..MaxRows, step : 0..5,
            cred : 0..MaxCred, code : SUBSET Codes, left : SUBSET Codes]
NoRequest == [op |-> "none", on |-> NoUser, at |-> 0, step |-> 0, cred |-> 0, code |-> {}, left |-> {}]

Exists(u) == acc[u].st # "none"
Active == {u \in Users : acc[u].st = "active"}

Init ==
    /\ acc = [u \in Users |-> NoAccount]
    /\ lastCred = 0
    /\ inst = <<>>
    /\ cookie = [b \in Browsers |-> NoCookie]
    /\ req = [b \in Browsers |-> NoRequest]
    /\ torn = FALSE

Asks(b, r) ==
    /\ req[b].op = "none"
    /\ req' = [req EXCEPT ![b] = r]
    /\ UNCHANGED <<acc, lastCred, inst, cookie, torn>>

\* Requests that count on the active accounts, use up a code, or go by the step
\* of the wizard.
Conflicts == {{"deactivate", "delete"}, {"recovery"},
              {"account", "totp", "step"}}
Overlaps(b) ==
    \E c \in Conflicts, d \in Browsers \ {b} : req[b].op \in c /\ req[d].op \in c

\* The request ends; torn tells whether another one had read the same.
Ends(b) ==
    /\ req' = [req EXCEPT ![b] = NoRequest]
    /\ torn' = (torn \/ Overlaps(b))

\* The statement breaks a constraint or finds no row: the answer is 500.
Rejected(b) ==
    /\ req' = [req EXCEPT ![b] = NoRequest]
    /\ UNCHANGED <<acc, lastCred, inst, cookie, torn>>

-----------------------------------------------------------------------------
(* The wizard *)

\* get_instance_state makes the row that it does not find, at first() of no
\* particular order.
Visit(b) ==
    /\ inst = <<>> /\ Cardinality({d \in Browsers : req[d].op = "visit"}) < MaxRows
    /\ Asks(b, [NoRequest EXCEPT !.op = "visit"])

VisitCommit(b) ==
    /\ req[b].op = "visit"
    /\ inst' = Append(inst, NewInstance)
    /\ Ends(b)
    /\ UNCHANGED <<acc, lastCred, cookie>>

\* The handlers go by the step alone, whether or not the wizard has ended.
AtStep(step, at) == at \in DOMAIN inst /\ inst[at].step = step
SetupDone(at) == at \in DOMAIN inst /\ ~inst[at].first

SetupAccount(b) ==
    \E at \in DOMAIN inst, u \in Users :
        /\ AtStep(0, at)
        /\ Asks(b, [NoRequest EXCEPT !.op = "account", !.on = u, !.at = at])

SetupTotp(b) ==
    \E at \in DOMAIN inst :
        /\ AtStep(1, at)
        /\ cookie[b].setup # NoUser /\ Exists(cookie[b].setup)
        /\ Asks(b, [NoRequest EXCEPT !.op = "totp", !.on = cookie[b].setup, !.at = at])

\* Subnet, connection to VM2 (which has to answer) and branding.
SetupStep(b) ==
    \E at \in DOMAIN inst, step \in 2..4 :
        /\ AtStep(step, at)
        /\ Asks(b, [NoRequest EXCEPT !.op = "step", !.at = at, !.step = step])

NewAccount(u) == [acc EXCEPT ![u] = [NoAccount EXCEPT !.st = "active"]]

\* user name and admin_user_id are unique.
SetupAccountCommit(b) ==
    /\ req[b].op = "account" /\ ~Exists(req[b].on)
    /\ acc' = NewAccount(req[b].on)
    /\ inst' = [inst EXCEPT ![req[b].at].step = 1]
    /\ cookie' = [cookie EXCEPT ![b].setup = req[b].on]
    /\ Ends(b)
    /\ UNCHANGED <<lastCred>>

Enrolled(u) == [acc EXCEPT ![u].cred = lastCred + 1, ![u].codes = Codes]

\* Seeded fault: the next step, and no credential.
SetupTotpCommitForgets(b) ==
    /\ req[b].op = "totp" /\ acc[req[b].on].cred = 0
    /\ inst' = [inst EXCEPT ![req[b].at].step = 2]
    /\ Ends(b)
    /\ UNCHANGED <<acc, lastCred, cookie>>

SetupTotpCommit(b) ==
    /\ req[b].op = "totp" /\ Exists(req[b].on) /\ acc[req[b].on].cred = 0
    /\ lastCred < MaxCred
    /\ acc' = Enrolled(req[b].on)
    /\ lastCred' = lastCred + 1
    /\ inst' = [inst EXCEPT ![req[b].at].step = 2]
    /\ Ends(b)
    /\ UNCHANGED <<cookie>>

\* Seeded fault: the whole row is written, as it was read.
SetupStepCommitRow(b) ==
    /\ req[b].op = "step"
    /\ inst' = [inst EXCEPT ![req[b].at] =
                  [first |-> req[b].step # 4, step |-> req[b].step + 1]]
    /\ cookie' = [cookie EXCEPT ![b].setup = IF req[b].step = 4 THEN NoUser ELSE @]
    /\ Ends(b)
    /\ UNCHANGED <<acc, lastCred>>

\* Only the columns that change are written.
SetupStepCommit(b) ==
    /\ req[b].op = "step"
    /\ inst' = [inst EXCEPT ![req[b].at].step = req[b].step + 1,
                            ![req[b].at].first = @ /\ req[b].step # 4]
    /\ cookie' = [cookie EXCEPT ![b].setup = IF req[b].step = 4 THEN NoUser ELSE @]
    /\ Ends(b)
    /\ UNCHANGED <<acc, lastCred>>

SetupRejected(b) ==
    /\ \/ req[b].op = "account" /\ Exists(req[b].on)
       \/ req[b].op = "totp" /\ (acc[req[b].on].cred # 0 \/ ~Exists(req[b].on))
    /\ Rejected(b)

-----------------------------------------------------------------------------
(* Login; every page but those of the wizard asks whether it is done. *)

Panel == \E at \in DOMAIN inst : SetupDone(at)
Stored(b, c) ==
    /\ cookie' = [cookie EXCEPT ![b] = c]
    /\ UNCHANGED <<acc, lastCred, inst, req, torn>>

Password(b, u) ==
    /\ Panel /\ req[b].op = "none"
    /\ u \in Active
    /\ Stored(b, [cookie[b] EXCEPT !.pending = u])

Pending(b) == cookie[b].pending
MayConfirm(b) == Panel /\ req[b].op = "none" /\ Pending(b) # NoUser
LoggedIn(b) == [cookie[b] EXCEPT !.in = Pending(b), !.pending = NoUser, !.shown = FALSE]

\* The code of the authenticator.
LoginCode(b) ==
    /\ MayConfirm(b) /\ acc[Pending(b)].cred # 0
    /\ Stored(b, LoggedIn(b))

\* The form is sent after the credential, or the account, was removed.
LoginDropped(b) ==
    /\ MayConfirm(b) /\ acc[Pending(b)].cred = 0
    /\ Stored(b, NoCookie)

\* The list of recovery codes is read here and written back as a whole.
Recovery(b, code) ==
    /\ MayConfirm(b)
    /\ code \in acc[Pending(b)].codes
    /\ Asks(b, [NoRequest EXCEPT !.op = "recovery", !.on = Pending(b),
                    !.cred = acc[Pending(b)].cred, !.code = {code},
                    !.left = acc[Pending(b)].codes \ {code}])

\* Seeded fault: the list is not stored.
RecoveryCommitKeeps(b) ==
    /\ req[b].op = "recovery" /\ acc[req[b].on].cred = req[b].cred
    /\ acc' = [acc EXCEPT ![req[b].on].codes = Codes, ![req[b].on].used = @ \cup req[b].code]
    /\ cookie' = [cookie EXCEPT ![b] = LoggedIn(b)]
    /\ Ends(b)
    /\ UNCHANGED <<lastCred, inst>>

RecoveryCommit(b) ==
    /\ req[b].op = "recovery" /\ acc[req[b].on].cred = req[b].cred
    /\ acc' = [acc EXCEPT ![req[b].on].codes = req[b].left, ![req[b].on].used = @ \cup req[b].code]
    /\ cookie' = [cookie EXCEPT ![b] = LoggedIn(b)]
    /\ Ends(b)
    /\ UNCHANGED <<lastCred, inst>>

\* One credential per account: a second one is refused by the database.
Enrol(b) ==
    /\ MayConfirm(b) /\ Exists(Pending(b)) /\ acc[Pending(b)].cred = 0
    /\ lastCred < MaxCred
    /\ acc' = Enrolled(Pending(b))
    /\ lastCred' = lastCred + 1
    /\ cookie' = [cookie EXCEPT ![b].shown = TRUE]
    /\ UNCHANGED <<inst, req, torn>>

\* The page with the new codes is what logs in.
ShowCodes(b) ==
    /\ MayConfirm(b) /\ cookie[b].shown /\ Exists(Pending(b))
    /\ Stored(b, LoggedIn(b))

RecoveryRejected(b) ==
    /\ req[b].op = "recovery" /\ acc[req[b].on].cred # req[b].cred
    /\ Rejected(b)

Logout(b) ==
    /\ Panel /\ req[b].op = "none" /\ cookie[b] # NoCookie
    /\ Stored(b, NoCookie)

\* After eight hours, or with the browser; later it is as good as a Logout.
LoseCookie(b) ==
    /\ ~Panel /\ cookie[b] # NoCookie /\ req[b].op = "none"
    /\ Stored(b, NoCookie)

-----------------------------------------------------------------------------
(* Settings, Users; require_login looks at the account with every request. *)

MayAdminister(b) == Panel /\ req[b].op = "none" /\ cookie[b].in \in Active

LoginRequired(b) ==
    /\ Panel /\ req[b].op = "none"
    /\ cookie[b].in # NoUser /\ cookie[b].in \notin Active
    /\ Stored(b, NoCookie)

Saved(newAcc) ==
    /\ acc' = newAcc
    /\ UNCHANGED <<lastCred, inst, cookie, req, torn>>

\* Seeded fault: the recovery codes outlive the credential.
NoTotpKeepsCodes(u) == [acc EXCEPT ![u].cred = 0]

NoTotp(u) == [acc EXCEPT ![u].cred = 0, ![u].codes = {}, ![u].used = {}]

Create(b, u) == MayAdminister(b) /\ ~Exists(u) /\ Saved(NewAccount(u))
Activate(b, u) ==
    /\ MayAdminister(b) /\ acc[u].st = "off"
    /\ Saved([acc EXCEPT ![u].st = "active"])
ResetTotp(b, u) == MayAdminister(b) /\ acc[u].cred # 0 /\ Saved(NoTotp(u))

Administers(b, op, u) ==
    /\ MayAdminister(b)
    /\ Asks(b, [NoRequest EXCEPT !.op = op, !.on = u])

\* Seeded fault: the own account as well.
DeactivateAnyone(b, u) == u \in Active /\ Administers(b, "deactivate", u)

Deactivate(b, u) ==
    /\ u \in Active /\ u # cookie[b].in
    /\ Administers(b, "deactivate", u)

Delete(b, u) ==
    /\ Exists(u) /\ u # cookie[b].in
    /\ u \in Active => Cardinality(Active) > 1
    /\ Administers(b, "delete", u)

DeactivateCommit(b) ==
    /\ req[b].op = "deactivate" /\ Exists(req[b].on)
    /\ acc' = [acc EXCEPT ![req[b].on].st = "off"]
    /\ Ends(b)
    /\ UNCHANGED <<lastCred, inst, cookie>>

\* The relationship has neither a cascade nor passive_deletes: the mapper
\* clears admin_user_id of the credential first, which is NOT NULL.
DeleteCommit(b) ==
    /\ req[b].op = "delete" /\ acc[req[b].on].cred = 0
    /\ acc' = [acc EXCEPT ![req[b].on] = NoAccount]
    /\ Ends(b)
    /\ UNCHANGED <<lastCred, inst, cookie>>

AdminRejected(b) ==
    /\ \/ req[b].op = "deactivate" /\ ~Exists(req[b].on)
       \/ req[b].op = "delete" /\ acc[req[b].on].cred # 0
    /\ Rejected(b)

\* The console of VM1; portal-admin-password.sh changes nothing that is
\* modelled here.
Rescue(u) ==
    /\ acc[u].cred # 0
    /\ acc' = NoTotp(u)
    /\ torn' = (torn \/ ~Panel)
    /\ UNCHANGED <<lastCred, inst, cookie, req>>

-----------------------------------------------------------------------------
Wizard(b) ==
    \/ Visit(b) \/ VisitCommit(b)
    \/ SetupAccount(b) \/ SetupAccountCommit(b)
    \/ SetupTotp(b) \/ SetupTotpCommit(b)
    \/ SetupStep(b) \/ SetupStepCommit(b) \/ SetupRejected(b)

Login(b) ==
    \/ \E u \in Users : Password(b, u)
    \/ \E code \in Codes : Recovery(b, code)
    \/ LoginCode(b) \/ LoginDropped(b) \/ RecoveryCommit(b)
    \/ RecoveryRejected(b) \/ Enrol(b) \/ ShowCodes(b)
    \/ Logout(b) \/ LoseCookie(b)

Administration(b) ==
    \/ LoginRequired(b)
    \/ \E u \in Users :
          Create(b, u) \/ Deactivate(b, u) \/ Activate(b, u) \/ ResetTotp(b, u) \/ Delete(b, u)
    \/ DeactivateCommit(b) \/ DeleteCommit(b) \/ AdminRejected(b)

Next ==
    \/ \E b \in Browsers : Wizard(b) \/ Login(b) \/ Administration(b)
    \/ \E u \in Users : Rescue(u)

Spec == Init /\ [][Next]_vars

-----------------------------------------------------------------------------
(* Properties *)

\* Every variable has its type; ids of credentials are not reused.
TypeOK ==
    /\ acc \in [Users -> Account]
    /\ lastCred \in 0..MaxCred
    /\ inst \in Seq(InstanceState) /\ Len(inst) <= MaxRows
    /\ cookie \in [Browsers -> Cookie]
    /\ req \in [Browsers -> Request]
    /\ torn \in BOOLEAN
    /\ \A u \in Users : acc[u].cred <= lastCred /\ (acc[u].cred = 0 => acc[u].codes = {})

\* Whatever administrators switch off and delete, one active account is left,
\* unless two such requests overlap.
ActiveAdminLeft == Panel /\ ~torn => Active # {}

\* The count that the handler takes keeps the last active account from being
\* deleted, also when requests overlap.
LastActiveKept ==
    [][\A u \in Users : u \in Active /\ acc'[u].st = "none" => Active \ {u} # {}]_vars

\* A recovery code that has logged somebody in does not work again.
CodeWorksOnce == \A u \in Users : acc[u].codes \cap acc[u].used = {}

\* It holds unless two logins with recovery codes overlap: each writes back the
\* whole list it has read.
CodesUsedUp == torn \/ CodeWorksOnce

\* When the wizard ends there is an account with both factors to log in with,
\* unless two browsers went through it or the console took the second factor.
SetupLeavesAdmin ==
    [][~Panel /\ Panel' /\ ~torn'
         => \E u \in Active : acc[u].cred # 0]_vars

\* A wizard that has ended does not begin again, however late another browser's
\* step commits; and unless steps overlapped, it accepts no step any more, although
\* the handlers do not ask whether it has ended.  Two first visits at the same time
\* are left out: they leave two rows, and the query takes either.
SetupIsFinal ==
    [][Panel /\ Len(inst') <= 1
         => /\ \A at \in DOMAIN inst' : ~inst'[at].first
            /\ ~torn' => inst' = inst]_vars

\* The same, whatever rows there are.
FinalInEveryRow == [][Panel => \A at \in DOMAIN inst' : ~inst'[at].first]_vars

\* The wizard takes no step after its end, even if one came late: it sets the step
\* of a finished wizard back, and the steps after it are accepted from anybody.
WizardStaysClosed ==
    [][Panel /\ Len(inst') <= 1 => \A b \in Browsers :
         req'[b].op \in {"account", "totp", "step"} => req'[b] = req[b]]_vars

\* The wizard can go on: the browser that made the account is still there.
WizardGoesOn ==
    (\E at \in DOMAIN inst : inst[at].first /\ inst[at].step = 1)
        => \E b \in Browsers : cookie[b].setup # NoUser

\* Deleting an account takes its TOTP credential along and removes it.
DeleteRemoves ==
    [][\A b \in Browsers :
         req[b].op = "delete" /\ req'[b].op = "none" => acc'[req[b].on].st = "none"]_vars
=============================================================================
