-------------------------- MODULE NginxConfigProofs --------------------------
(***************************************************************************)
(* Proofs about NginxConfig, for every set of requests under way, zones    *)
(* and pairs of certificate and key, and every number of changes.          *)
(***************************************************************************)
EXTENDS NginxConfig, TLAPS

\* What a change of each kind goes through.
Course == [zones |-> {"stageFirst", "stageSecond", "backup", "instAdmin", "instWebmail",
                      "test", "undo", "answer"},
           manual |-> {"stageFirst", "stageSecond", "instCert", "instKey", "shred",
                       "linkCert", "linkKey", "test", "undo", "answer"},
           selfsigned |-> {"linkCert", "linkKey", "test", "undo", "answer"},
           issue |-> {"certbot", "hookCert", "hookKey", "linkCert", "linkKey", "test", "answer"}]

PairOfKind(a) ==
    /\ a.kind = "zones" => a.pair = "none"
    /\ a.kind = "manual" => a.pair \in Uploads
    /\ a.kind = "selfsigned" => a.pair = "self"
    /\ a.kind = "issue" => a.pair \in Issued \cup {"none"}
    /\ a.kind = "issue" /\ a.pc \notin {"certbot", "answer"} => a.pair \in Issued
    /\ a.kind = "issue" /\ a.pc = "certbot" => a.pair = "none"

\* Each change goes its course with the pair of its kind, and only its end is a
\* success; the timer only renews.
KindInv ==
    /\ \A x \in Actors : act[x].pc # "idle" => act[x].pc \in Course[act[x].kind]
    /\ \A x \in Actors : PairOfKind(act[x])
    /\ \A x \in Actors : act[x].ok => act[x].pc = "answer"
    /\ act[Timer].pc # "idle" => act[Timer].kind = "issue"

\* Without an overlap or a fault there is one change of a class at a time, and its
\* client waits for it.
AloneInv ==
    \A class \in {"zones", "tls"} : class \notin torn =>
        /\ \A x \in Busy(class) : ~act[x].late
        /\ \A x, y \in Busy(class) : x = y

\* The phases of a change of the certificate that leave what nginx uses alone.
Apart == {"stageFirst", "stageSecond", "instCert", "certbot", "hookCert", "answer"}

AtRest == \A x \in Busy("tls") : act[x].pc \in Apart

\* What nginx is told to use, with links that go together, is what it uses.
Served ==
    /\ Loads(disk)
    /\ disk.link.cert = disk.link.key
    /\ running.pair = FilesOf(disk, disk.link.cert).cert

\* The links the helper changed, which it may have to put back.
Linked(x) ==
    /\ act[x].oldLinks.cert = act[x].oldLinks.key
    /\ act[x].oldLinks.cert = "certbot" => disk.certbot.cert # "none"

TlsPhase(x) ==
    LET pc == act[x].pc  kind == act[x].kind  pair == act[x].pair IN
    /\ pc \in {"stageSecond", "instCert", "instKey", "shred"} => stage.tls.cert = pair
    /\ pc \in {"instCert", "instKey", "shred"} => stage.tls.key = pair
    /\ pc = "instKey" => disk.manual.cert = pair
    /\ pc \in {"shred", "linkCert", "linkKey", "test"} /\ kind = "manual"
          => disk.manual.cert = pair /\ disk.manual.key = pair
    /\ pc = "hookKey" => disk.certbot.cert = pair
    /\ pc \in {"linkCert", "linkKey", "test"} /\ kind = "issue"
          => disk.certbot.cert = pair /\ disk.certbot.key = pair
    /\ pc \in {"instKey", "shred", "hookKey", "linkCert"}
          => /\ disk.link.cert = disk.link.key
             /\ disk.link.cert = "certbot" => disk.certbot.cert # "none"
    /\ pc \in {"linkKey", "test", "undo"} => Linked(x)
    /\ pc \in {"linkKey", "test"} => disk.link.cert = Target(kind)
    /\ pc = "test" => disk.link.key = Target(kind)
    /\ pc = "undo" => kind = "manual" /\ act[x].oldLinks.cert # "manual"

\* One change of the certificate after the other: between them nginx uses a sound
\* pair, and a change on its way can always be completed or put back.
TlsSound ==
    /\ AtRest => Served
    /\ \A x \in Busy("tls") : TlsPhase(x)
    /\ disk.certbot.cert \in Issued \cup {"none"}
    /\ (\A x \in Busy("tls") : act[x].pc # "hookKey") => disk.certbot.key = disk.certbot.cert

TlsInv == "tls" \notin torn => TlsSound

\* The mode in the row is that of the links, or the one that will be put back, or
\* the change under way will write it.
ModePhase(x) ==
    LET pc == act[x].pc IN
    /\ x = Timer => row.mode = "certbot"
    /\ pc \in (Apart \ {"answer"}) \cup {"instKey", "shred", "hookKey", "linkCert"}
          => disk.link.cert = row.mode
    /\ pc \in {"linkKey", "test", "undo"} => act[x].oldLinks.cert = row.mode
    /\ pc = "answer" /\ ~act[x].ok => disk.link.cert = row.mode
    /\ pc = "answer" /\ act[x].ok => disk.link.cert = Target(act[x].kind)

ModeSound ==
    /\ \A x \in Busy("tls") : act[x].pc = "answer" /\ act[x].ok /\ act[x].pair # "none"
                                 => disk.link.cert = Target(act[x].kind)
    /\ "mode" \notin torn => /\ Busy("tls") = {} => disk.link.cert = row.mode
                             /\ \A x \in Busy("tls") : ModePhase(x)

ModeInv == "tls" \notin torn => ModeSound

\* The zones on the disk are those of the row, or those of the change under way,
\* which knows the ones to put back.
ZonesPhase(x) ==
    LET pc == act[x].pc  zones == act[x].zones IN
    /\ pc \in {"stageFirst", "stageSecond", "backup", "instAdmin"} => disk.zones = row.zones
    /\ pc \in {"stageSecond", "backup", "instAdmin", "instWebmail"}
          => stage.zones.admin = zones.admin
    /\ pc \in {"backup", "instAdmin", "instWebmail"} => stage.zones.webmail = zones.webmail
    /\ pc \in {"instWebmail", "test"} => disk.zones.admin = zones.admin
    /\ pc = "test" => disk.zones.webmail = zones.webmail
    /\ pc \in {"instAdmin", "instWebmail", "test", "undo"} => act[x].oldZones = row.zones
    /\ pc = "answer" => disk.zones = IF act[x].ok THEN zones ELSE row.zones

ZonesSound ==
    /\ Busy("zones") = {} => disk.zones = row.zones
    /\ \A x \in Busy("zones") : ZonesPhase(x)

ZonesInv == "zones" \notin torn => ZonesSound

\* The phases of a change of the zones that have yet to reload nginx.
Loading == {"instWebmail", "test", "undo"}

\* nginx enforces the zones on the disk, unless a helper has yet to reload it.
EnforcedInv ==
    /\ torn \cap {"zones", "tls"} = {}
    /\ \A x \in Busy("zones") : act[x].pc \notin Loading
    /\ AtRest
    => running.zones = disk.zones

IInv == TypeOK /\ KindInv /\ AloneInv /\ TlsInv /\ ModeInv /\ ZonesInv /\ EnforcedInv

-----------------------------------------------------------------------------
(* Records. *)

Disk == [zones : Includes, manual : Files, certbot : Files, link : Links]
Stage == [zones : Includes, tls : Files]

\* What is written to one file leaves the others as they are.
LEMMA DiskFields ==
    ASSUME NEW d \in Disk
    PROVE  /\ \A v \in Includes :
                 LET e == [d EXCEPT !.zones = v] IN
                 e \in Disk /\ e.zones = v /\ e.manual = d.manual /\ e.certbot = d.certbot
                 /\ e.link = d.link
           /\ \A v \in Files :
                 LET e == [d EXCEPT !.manual = v] IN
                 e \in Disk /\ e.zones = d.zones /\ e.manual = v /\ e.certbot = d.certbot
                 /\ e.link = d.link
           /\ \A v \in Files :
                 LET e == [d EXCEPT !.certbot = v] IN
                 e \in Disk /\ e.zones = d.zones /\ e.manual = d.manual /\ e.certbot = v
                 /\ e.link = d.link
           /\ \A v \in Links :
                 LET e == [d EXCEPT !.link = v] IN
                 e \in Disk /\ e.zones = d.zones /\ e.manual = d.manual
                 /\ e.certbot = d.certbot /\ e.link = v
BY DEF Disk

LEMMA StageFields ==
    ASSUME NEW s \in Stage
    PROVE  /\ \A v \in Includes : LET e == [s EXCEPT !.zones = v] IN
                 e \in Stage /\ e.zones = v /\ e.tls = s.tls
           /\ \A v \in Files : LET e == [s EXCEPT !.tls = v] IN
                 e \in Stage /\ e.zones = s.zones /\ e.tls = v
BY DEF Stage

LEMMA PairFields ==
    /\ \A f \in Files, v \in Pairs :
          /\ [f EXCEPT !.cert = v] \in Files /\ [f EXCEPT !.cert = v].cert = v
          /\ [f EXCEPT !.cert = v].key = f.key
          /\ [f EXCEPT !.key = v] \in Files /\ [f EXCEPT !.key = v].key = v
          /\ [f EXCEPT !.key = v].cert = f.cert
    /\ \A l \in Links, v \in Modes :
          /\ [l EXCEPT !.cert = v] \in Links /\ [l EXCEPT !.cert = v].cert = v
          /\ [l EXCEPT !.cert = v].key = l.key
          /\ [l EXCEPT !.key = v] \in Links /\ [l EXCEPT !.key = v].key = v
          /\ [l EXCEPT !.key = v].cert = l.cert
    /\ \A i \in Includes, v \in Zones :
          /\ [i EXCEPT !.admin = v] \in Includes /\ [i EXCEPT !.admin = v].admin = v
          /\ [i EXCEPT !.admin = v].webmail = i.webmail
          /\ [i EXCEPT !.webmail = v] \in Includes /\ [i EXCEPT !.webmail = v].webmail = v
          /\ [i EXCEPT !.webmail = v].admin = i.admin
BY DEF Files, Links, Includes

\* Two of a kind are the same when their parts are.
LEMMA SameParts ==
    /\ \A i, j \in Includes : i.admin = j.admin /\ i.webmail = j.webmail => i = j
    /\ \A l, k \in Links : l.cert = k.cert /\ l.key = k.key => l = k
BY DEF Includes, Links

LEMMA Values ==
    /\ Unrestricted \in Includes
    /\ \A p \in Pairs : Pair(p) \in Files /\ Pair(p).cert = p /\ Pair(p).key = p
    /\ \A m \in Modes : Both(m) \in Links /\ Both(m).cert = m /\ Both(m).key = m
    /\ "none" \in Pairs /\ "self" \in Pairs /\ Issued \subseteq Pairs /\ Uploads \subseteq Pairs
    /\ "none" \notin Uploads /\ "none" \notin Refused /\ "self" \notin Refused
    /\ Issued \cap Refused = {} /\ "none" \notin Issued /\ Issued \cap Uploads = {}
BY NginxAssumption DEF Unrestricted, Includes, Pair, Files, Both, Links, Modes, Pairs, Issued

\* An actor at rest.
LEMMA IdleFields ==
    /\ Idle \in Act /\ Idle.pc = "idle" /\ Idle.kind = "zones" /\ Idle.pair = "none"
    /\ ~Idle.ok /\ ~Idle.late
<1>1. Idle.pc = "idle" /\ Idle.kind = "zones" /\ Idle.pair = "none" /\ ~Idle.ok /\ ~Idle.late
  BY DEF Idle
<1>2. "idle" \in Pcs /\ "zones" \in Kinds /\ "selfsigned" \in Modes
  BY DEF Pcs, Kinds, Modes
<1>3. Idle \in Act
  BY <1>2, Values DEF Idle, Act
<1> QED BY <1>1, <1>3

\* The step of an actor: it goes on with the same change, and the others wait.
Goes(x, pc) ==
    /\ act' \in [Actors -> Act]
    /\ \A y \in Actors \ {x} : act'[y] = act[y]
    /\ act'[x].pc = pc /\ act'[x].kind = act[x].kind /\ act'[x].pair = act[x].pair
    /\ act'[x].zones = act[x].zones /\ (act'[x].ok => act[x].ok \/ pc = "answer")

Keeps(x) ==
    /\ act'[x].oldZones = act[x].oldZones /\ act'[x].oldLinks = act[x].oldLinks
    /\ act'[x].ok = act[x].ok

LEMMA ActFields ==
    ASSUME TypeOK, NEW x \in Actors, NEW a \in Act, act' = [act EXCEPT ![x] = a]
    PROVE  act' \in [Actors -> Act] /\ act'[x] = a /\ \A y \in Actors \ {x} : act'[y] = act[y]
BY DEF TypeOK

LEMMA GoesOn ==
    ASSUME TypeOK, NEW x \in Actors, NEW pc \in Pcs, act' = [act EXCEPT ![x].pc = pc]
    PROVE  Goes(x, pc) /\ Keeps(x) /\ act'[x].late = act[x].late
<1> DEFINE a == [act[x] EXCEPT !.pc = pc]
<1>1. act[x] \in Act
  BY DEF TypeOK
<1>2. /\ a \in Act /\ a.pc = pc /\ a.kind = act[x].kind /\ a.pair = act[x].pair
      /\ a.zones = act[x].zones /\ a.oldZones = act[x].oldZones
      /\ a.oldLinks = act[x].oldLinks /\ a.ok = act[x].ok /\ a.late = act[x].late
  BY <1>1 DEF Act
<1> HIDE DEF a
<1>3. act' = [act EXCEPT ![x] = a]
  BY DEF a
<1> QED BY <1>2, <1>3, ActFields DEF Goes, Keeps

LEMMA GoesOk ==
    ASSUME TypeOK, NEW x \in Actors,
           act' = [act EXCEPT ![x].pc = "answer", ![x].ok = TRUE]
    PROVE  /\ Goes(x, "answer") /\ act'[x].ok /\ act'[x].late = act[x].late
           /\ act'[x].oldZones = act[x].oldZones /\ act'[x].oldLinks = act[x].oldLinks
<1> DEFINE a == [act[x] EXCEPT !.pc = "answer", !.ok = TRUE]
<1>1. act[x] \in Act /\ "answer" \in Pcs
  BY DEF TypeOK, Pcs
<1>2. /\ a \in Act /\ a.pc = "answer" /\ a.kind = act[x].kind /\ a.pair = act[x].pair
      /\ a.zones = act[x].zones /\ a.oldZones = act[x].oldZones
      /\ a.oldLinks = act[x].oldLinks /\ a.ok /\ a.late = act[x].late
  BY <1>1 DEF Act
<1> HIDE DEF a
<1>3. act' = [act EXCEPT ![x] = a]
  BY DEF TypeOK, a
<1> QED BY <1>2, <1>3, ActFields DEF Goes

LEMMA GoesZones ==
    ASSUME TypeOK, NEW x \in Actors, NEW pc \in Pcs, NEW zones \in Includes,
           act' = [act EXCEPT ![x].oldZones = zones, ![x].pc = pc]
    PROVE  /\ Goes(x, pc) /\ act'[x].ok = act[x].ok /\ act'[x].late = act[x].late
           /\ act'[x].oldZones = zones /\ act'[x].oldLinks = act[x].oldLinks
<1> DEFINE a == [act[x] EXCEPT !.oldZones = zones, !.pc = pc]
<1>1. act[x] \in Act
  BY DEF TypeOK
<1>2. /\ a \in Act /\ a.pc = pc /\ a.kind = act[x].kind /\ a.pair = act[x].pair
      /\ a.zones = act[x].zones /\ a.oldZones = zones
      /\ a.oldLinks = act[x].oldLinks /\ a.ok = act[x].ok /\ a.late = act[x].late
  BY <1>1 DEF Act
<1> HIDE DEF a
<1>3. act' = [act EXCEPT ![x] = a]
  BY DEF TypeOK, a
<1> QED BY <1>2, <1>3, ActFields DEF Goes

LEMMA GoesLinks ==
    ASSUME TypeOK, NEW x \in Actors, NEW pc \in Pcs, NEW links \in Links,
           act' = [act EXCEPT ![x].oldLinks = links, ![x].pc = pc]
    PROVE  /\ Goes(x, pc) /\ act'[x].ok = act[x].ok /\ act'[x].late = act[x].late
           /\ act'[x].oldZones = act[x].oldZones /\ act'[x].oldLinks = links
<1> DEFINE a == [act[x] EXCEPT !.oldLinks = links, !.pc = pc]
<1>1. act[x] \in Act
  BY DEF TypeOK
<1>2. /\ a \in Act /\ a.pc = pc /\ a.kind = act[x].kind /\ a.pair = act[x].pair
      /\ a.zones = act[x].zones /\ a.oldZones = act[x].oldZones
      /\ a.oldLinks = links /\ a.ok = act[x].ok /\ a.late = act[x].late
  BY <1>1 DEF Act
<1> HIDE DEF a
<1>3. act' = [act EXCEPT ![x] = a]
  BY DEF TypeOK, a
<1> QED BY <1>2, <1>3, ActFields DEF Goes

LEMMA GoesLate ==
    ASSUME TypeOK, NEW x \in Actors, act' = [act EXCEPT ![x].late = TRUE]
    PROVE  Goes(x, act[x].pc) /\ Keeps(x)
<1> DEFINE a == [act[x] EXCEPT !.late = TRUE]
<1>1. act[x] \in Act
  BY DEF TypeOK
<1>2. /\ a \in Act /\ a.pc = act[x].pc /\ a.kind = act[x].kind /\ a.pair = act[x].pair
      /\ a.zones = act[x].zones /\ a.oldZones = act[x].oldZones
      /\ a.oldLinks = act[x].oldLinks /\ a.ok = act[x].ok
  BY <1>1 DEF Act
<1> HIDE DEF a
<1>3. act' = [act EXCEPT ![x] = a]
  BY DEF a
<1> QED BY <1>2, <1>3, ActFields DEF Goes, Keeps

LEMMA GoesIdle ==
    ASSUME TypeOK, NEW x \in Actors, act' = [act EXCEPT ![x] = Idle]
    PROVE  act' \in [Actors -> Act] /\ act'[x] = Idle /\ \A y \in Actors \ {x} : act'[y] = act[y]
BY IdleFields, ActFields

\* A change that begins.
LEMMA Starts ==
    ASSUME TypeOK, NEW x \in Actors, NEW kind \in Kinds, NEW pc \in Pcs,
           NEW zones \in Includes, NEW pair \in Pairs, Start(x, kind, pc, zones, pair)
    PROVE  /\ act[x].pc = "idle" /\ act' \in [Actors -> Act]
           /\ \A y \in Actors \ {x} : act'[y] = act[y]
           /\ act'[x].pc = pc /\ act'[x].kind = kind /\ act'[x].pair = pair
           /\ act'[x].zones = zones /\ ~act'[x].ok /\ ~act'[x].late
           /\ UNCHANGED <<disk, stage, running, row, faults>> /\ changes' \in 0..MaxChanges
<1> DEFINE a == [Idle EXCEPT !.kind = kind, !.pc = pc, !.zones = zones, !.pair = pair]
<1>1. a \in Act /\ a.pc = pc /\ a.kind = kind /\ a.pair = pair /\ a.zones = zones
      /\ a.ok = Idle.ok /\ a.late = Idle.late
  BY IdleFields DEF Act
<1>2. changes' \in 0..MaxChanges
  BY NginxAssumption DEF Start, TypeOK
<1> HIDE DEF a
<1>3. act' = [act EXCEPT ![x] = a]
  BY DEF Start, a
<1> QED BY <1>1, <1>2, <1>3, ActFields, IdleFields DEF Start

-----------------------------------------------------------------------------
(* The steps, field by field. *)

\* A step that is about one actor, which goes on with its change.
OneStep(x, from, to) ==
    act[x].pc = from /\ Goes(x, to) /\ act'[x].late = act[x].late

LEMMA StageFirstStep ==
    ASSUME TypeOK, KindInv, NEW r \in Requests, StageFirst(r)
    PROVE  /\ OneStep(r, "stageFirst", "stageSecond") /\ Keeps(r)
           /\ UNCHANGED <<disk, running, row, torn, changes, faults>>
           /\ stage' \in Stage
           /\ act[r].kind = "zones" => /\ stage'.tls = stage.tls
                                       /\ stage'.zones.admin = act[r].zones.admin
           /\ act[r].kind # "zones" => /\ stage'.zones = stage.zones
                                       /\ stage'.tls.cert = act[r].pair
<1>1. r \in Actors /\ act[r] \in Act /\ stage \in Stage
  BY DEF Actors, TypeOK, Stage
<1>2. OneStep(r, "stageFirst", "stageSecond") /\ Keeps(r)
  BY <1>1, GoesOn DEF StageFirst, OneStep, Pcs
<1>3. act[r].zones.admin \in Zones /\ act[r].pair \in Pairs
  BY <1>1 DEF Act, Includes
<1>4. CASE act[r].kind = "zones"
  <2>1. stage' = [stage EXCEPT !.zones = [@ EXCEPT !.admin = act[r].zones.admin]]
    BY <1>4 DEF StageFirst
  <2> DEFINE i == [stage.zones EXCEPT !.admin = act[r].zones.admin]
  <2>2. i \in Includes /\ i.admin = act[r].zones.admin
    BY <1>1, <1>3, PairFields DEF Stage
  <2> HIDE DEF i
  <2>3. stage' = [stage EXCEPT !.zones = i]
    BY <2>1 DEF i
  <2>4. stage' \in Stage /\ stage'.zones = i /\ stage'.tls = stage.tls
    BY <1>1, <2>2, <2>3, StageFields
  <2> QED BY <1>2, <1>4, <2>2, <2>4 DEF StageFirst
<1>5. CASE act[r].kind # "zones"
  <2>1. stage' = [stage EXCEPT !.tls = [@ EXCEPT !.cert = act[r].pair]]
    BY <1>5 DEF StageFirst
  <2> DEFINE f == [stage.tls EXCEPT !.cert = act[r].pair]
  <2>2. f \in Files /\ f.cert = act[r].pair
    BY <1>1, <1>3, PairFields DEF Stage
  <2> HIDE DEF f
  <2>3. stage' = [stage EXCEPT !.tls = f]
    BY <2>1 DEF f
  <2>4. stage' \in Stage /\ stage'.tls = f /\ stage'.zones = stage.zones
    BY <1>1, <2>2, <2>3, StageFields
  <2> QED BY <1>2, <1>5, <2>2, <2>4 DEF StageFirst
<1> QED BY <1>4, <1>5

LEMMA StageSecondStep ==
    ASSUME TypeOK, KindInv, NEW r \in Requests, StageSecond(r)
    PROVE  /\ \E pc \in {"backup", "instCert", "answer"} :
                 /\ OneStep(r, "stageSecond", pc)
                 /\ pc = "backup" <=> act[r].kind = "zones"
                 /\ pc = "answer" => stage.tls.cert = "none"
           /\ Keeps(r)
           /\ UNCHANGED <<disk, running, row, torn, changes, faults>>
           /\ stage' \in Stage
           /\ act[r].kind = "zones" => /\ stage'.tls = stage.tls
                                       /\ stage'.zones.webmail = act[r].zones.webmail
                                       /\ stage'.zones.admin = stage.zones.admin
           /\ act[r].kind # "zones" => /\ stage'.zones = stage.zones
                                       /\ stage'.tls.key = act[r].pair
                                       /\ stage'.tls.cert = stage.tls.cert
<1>1. r \in Actors /\ act[r] \in Act /\ stage \in Stage
  BY DEF Actors, TypeOK, Stage
<1>2. act[r].zones.webmail \in Zones /\ act[r].pair \in Pairs
  BY <1>1 DEF Act, Includes
<1>3. CASE act[r].kind = "zones"
  <2>1. /\ stage' = [stage EXCEPT !.zones = [@ EXCEPT !.webmail = act[r].zones.webmail]]
        /\ act' = [act EXCEPT ![r].pc = "backup"]
    BY <1>3 DEF StageSecond
  <2> DEFINE i == [stage.zones EXCEPT !.webmail = act[r].zones.webmail]
  <2>2. i \in Includes /\ i.webmail = act[r].zones.webmail /\ i.admin = stage.zones.admin
    BY <1>1, <1>2, PairFields DEF Stage
  <2>3. OneStep(r, "stageSecond", "backup") /\ Keeps(r)
    BY <1>1, <2>1, GoesOn DEF StageSecond, OneStep, Pcs, HelperPcs
  <2> HIDE DEF i
  <2>4. stage' = [stage EXCEPT !.zones = i]
    BY <2>1 DEF i
  <2>5. stage' \in Stage /\ stage'.zones = i /\ stage'.tls = stage.tls
    BY <1>1, <2>2, <2>4, StageFields
  <2> QED BY <1>3, <2>2, <2>3, <2>5 DEF StageSecond
<1>4. CASE act[r].kind # "zones"
  <2>1. stage' = [stage EXCEPT !.tls = [@ EXCEPT !.key = act[r].pair]]
    BY <1>4 DEF StageSecond
  <2> DEFINE f == [stage.tls EXCEPT !.key = act[r].pair]
  <2>2. f \in Files /\ f.key = act[r].pair /\ f.cert = stage.tls.cert
    BY <1>1, <1>2, PairFields DEF Stage
  <2>3. PICK pc \in {"instCert", "answer"} : /\ act' = [act EXCEPT ![r].pc = pc]
                                             /\ pc = "answer" => stage.tls.cert = "none"
    BY <1>4 DEF StageSecond
  <2>4. OneStep(r, "stageSecond", pc) /\ Keeps(r)
    BY <1>1, <2>3, GoesOn DEF StageSecond, OneStep, Pcs, HelperPcs
  <2> HIDE DEF f
  <2>5. stage' = [stage EXCEPT !.tls = f]
    BY <2>1 DEF f
  <2>6. stage' \in Stage /\ stage'.tls = f /\ stage'.zones = stage.zones
    BY <1>1, <2>2, <2>5, StageFields
  <2> QED BY <1>4, <2>2, <2>3, <2>4, <2>6 DEF StageSecond
<1> QED BY <1>3, <1>4

LEMMA BackupStep ==
    ASSUME TypeOK, NEW r \in Requests, Backup(r)
    PROVE  /\ OneStep(r, "backup", "instAdmin") /\ act'[r].oldZones = disk.zones
           /\ UNCHANGED <<disk, stage, running, row, torn, changes, faults>>
<1>1. r \in Actors /\ disk.zones \in Includes
  BY DEF Actors, TypeOK
<1> QED BY <1>1, GoesZones DEF Backup, OneStep, Pcs, HelperPcs

LEMMA InstallAdminStep ==
    ASSUME TypeOK, NEW r \in Requests, InstallAdmin(r)
    PROVE  /\ OneStep(r, "instAdmin", "instWebmail") /\ Keeps(r)
           /\ UNCHANGED <<stage, running, row, torn, changes, faults>>
           /\ disk' \in Disk /\ disk'.zones.admin = stage.zones.admin
           /\ disk'.manual = disk.manual /\ disk'.certbot = disk.certbot /\ disk'.link = disk.link
<1>1. r \in Actors /\ disk \in Disk /\ stage.zones.admin \in Zones
  BY DEF Actors, TypeOK, Disk, Includes
<1>2. disk' = [disk EXCEPT !.zones = [@ EXCEPT !.admin = stage.zones.admin]]
  BY DEF InstallAdmin
<1> DEFINE i == [disk.zones EXCEPT !.admin = stage.zones.admin]
<1>3. i \in Includes /\ i.admin = stage.zones.admin
  BY <1>1, PairFields DEF Disk
<1> HIDE DEF i
<1>4. OneStep(r, "instAdmin", "instWebmail") /\ Keeps(r)
  BY <1>1, GoesOn DEF InstallAdmin, OneStep, Pcs, HelperPcs
<1>5. disk' = [disk EXCEPT !.zones = i]
  BY <1>2 DEF i
<1>6. UNCHANGED <<stage, running, row, torn, changes, faults>>
  BY DEF InstallAdmin
<1> QED BY <1>1, <1>3, <1>4, <1>5, <1>6, DiskFields

LEMMA InstallWebmailStep ==
    ASSUME TypeOK, NEW r \in Requests, InstallWebmail(r)
    PROVE  /\ OneStep(r, "instWebmail", "test") /\ Keeps(r)
           /\ UNCHANGED <<stage, running, row, torn, changes, faults>>
           /\ disk' \in Disk /\ disk'.zones.webmail = stage.zones.webmail
           /\ disk'.zones.admin = disk.zones.admin
           /\ disk'.manual = disk.manual /\ disk'.certbot = disk.certbot /\ disk'.link = disk.link
<1>1. r \in Actors /\ disk \in Disk /\ stage.zones.webmail \in Zones
  BY DEF Actors, TypeOK, Disk, Includes
<1>2. disk' = [disk EXCEPT !.zones = [@ EXCEPT !.webmail = stage.zones.webmail]]
  BY DEF InstallWebmail
<1> DEFINE i == [disk.zones EXCEPT !.webmail = stage.zones.webmail]
<1>3. i \in Includes /\ i.webmail = stage.zones.webmail /\ i.admin = disk.zones.admin
  BY <1>1, PairFields DEF Disk
<1> HIDE DEF i
<1>4. OneStep(r, "instWebmail", "test") /\ Keeps(r)
  BY <1>1, GoesOn DEF InstallWebmail, OneStep, Pcs, HelperPcs
<1>5. disk' = [disk EXCEPT !.zones = i]
  BY <1>2 DEF i
<1>6. UNCHANGED <<stage, running, row, torn, changes, faults>>
  BY DEF InstallWebmail
<1> QED BY <1>1, <1>3, <1>4, <1>5, <1>6, DiskFields

LEMMA InstallCertStep ==
    ASSUME TypeOK, NEW r \in Requests, InstallCert(r)
    PROVE  /\ \/ /\ OneStep(r, "instCert", "instKey") /\ stage.tls.cert # "none"
                 /\ disk' \in Disk /\ disk'.manual.cert = stage.tls.cert
                 /\ disk'.zones = disk.zones /\ disk'.certbot = disk.certbot
                 /\ disk'.link = disk.link
              \/ OneStep(r, "instCert", "answer") /\ stage.tls.cert = "none" /\ UNCHANGED disk
           /\ Keeps(r)
           /\ UNCHANGED <<stage, running, row, torn, changes, faults>>
<1>1. r \in Actors /\ disk \in Disk /\ stage.tls.cert \in Pairs
  BY DEF Actors, TypeOK, Disk, Files
<1>2. UNCHANGED <<stage, running, row, torn, changes, faults>>
  BY DEF InstallCert
<1>3. CASE stage.tls.cert = "none"
  <2>1. OneStep(r, "instCert", "answer") /\ Keeps(r) /\ UNCHANGED disk
    BY <1>1, <1>3, GoesOn DEF InstallCert, OneStep, Pcs
  <2> QED BY <1>2, <1>3, <2>1
<1>4. CASE stage.tls.cert # "none"
  <2> DEFINE f == [disk.manual EXCEPT !.cert = stage.tls.cert]
  <2>1. f \in Files /\ f.cert = stage.tls.cert
    BY <1>1, PairFields DEF Disk
  <2>2. disk' = [disk EXCEPT !.manual = f]
    BY <1>4 DEF InstallCert
  <2>3. OneStep(r, "instCert", "instKey") /\ Keeps(r)
    BY <1>1, <1>4, GoesOn DEF InstallCert, OneStep, Pcs, HelperPcs
  <2> HIDE DEF f
  <2> QED BY <1>1, <1>2, <1>4, <2>1, <2>2, <2>3, DiskFields
<1> QED BY <1>3, <1>4

LEMMA InstallKeyStep ==
    ASSUME TypeOK, NEW r \in Requests, InstallKey(r)
    PROVE  /\ \/ /\ OneStep(r, "instKey", "shred") /\ stage.tls.key # "none"
                 /\ disk' \in Disk /\ disk'.manual.key = stage.tls.key
                 /\ disk'.manual.cert = disk.manual.cert
                 /\ disk'.zones = disk.zones /\ disk'.certbot = disk.certbot
                 /\ disk'.link = disk.link
              \/ OneStep(r, "instKey", "answer") /\ stage.tls.key = "none" /\ UNCHANGED disk
           /\ Keeps(r)
           /\ UNCHANGED <<stage, running, row, torn, changes, faults>>
<1>1. r \in Actors /\ disk \in Disk /\ stage.tls.key \in Pairs
  BY DEF Actors, TypeOK, Disk, Files
<1>2. UNCHANGED <<stage, running, row, torn, changes, faults>>
  BY DEF InstallKey
<1>3. CASE stage.tls.key = "none"
  <2>1. OneStep(r, "instKey", "answer") /\ Keeps(r) /\ UNCHANGED disk
    BY <1>1, <1>3, GoesOn DEF InstallKey, OneStep, Pcs
  <2> QED BY <1>2, <1>3, <2>1
<1>4. CASE stage.tls.key # "none"
  <2> DEFINE f == [disk.manual EXCEPT !.key = stage.tls.key]
  <2>1. f \in Files /\ f.key = stage.tls.key /\ f.cert = disk.manual.cert
    BY <1>1, PairFields DEF Disk
  <2>2. disk' = [disk EXCEPT !.manual = f]
    BY <1>4 DEF InstallKey
  <2>3. OneStep(r, "instKey", "shred") /\ Keeps(r)
    BY <1>1, <1>4, GoesOn DEF InstallKey, OneStep, Pcs, HelperPcs
  <2> HIDE DEF f
  <2> QED BY <1>1, <1>2, <1>4, <2>1, <2>2, <2>3, DiskFields
<1> QED BY <1>3, <1>4

LEMMA ShredStep ==
    ASSUME TypeOK, NEW r \in Requests, Shred(r)
    PROVE  /\ \/ OneStep(r, "shred", "linkCert")
              \/ OneStep(r, "shred", "answer") /\ "none" \in {stage.tls.cert, stage.tls.key}
           /\ Keeps(r)
           /\ UNCHANGED <<disk, running, row, torn, changes, faults>>
           /\ stage' \in Stage /\ stage'.zones = stage.zones
<1>1. r \in Actors /\ stage \in Stage /\ Pair("none") \in Files
  BY Values DEF Actors, TypeOK, Stage
<1>2. PICK pc \in {"linkCert", "answer"} :
         /\ act' = [act EXCEPT ![r].pc = pc]
         /\ pc = "answer" => "none" \in {stage.tls.cert, stage.tls.key}
  BY DEF Shred
<1>3. OneStep(r, "shred", pc) /\ Keeps(r)
  BY <1>1, <1>2, GoesOn DEF Shred, OneStep, Pcs, HelperPcs
<1>4. stage' \in Stage /\ stage'.zones = stage.zones
  BY <1>1, StageFields DEF Shred
<1> QED BY <1>2, <1>3, <1>4 DEF Shred

LEMMA CertbotStep ==
    ASSUME TypeOK, NEW r \in Requests, Certbot(r)
    PROVE  /\ act[r].pc = "certbot" /\ act' \in [Actors -> Act]
           /\ \A y \in Actors \ {r} : act'[y] = act[y]
           /\ act'[r].kind = act[r].kind /\ act'[r].late = act[r].late
           /\ \/ /\ act'[r].pc = "hookCert" /\ act'[r].pair \in Issued
                 /\ act'[r].ok = act[r].ok
                 /\ UNCHANGED torn
              \/ /\ act'[r].pc = "answer" /\ act'[r].pair = act[r].pair /\ act'[r].ok
                 /\ torn' \in {torn, torn \cup {"mode"}}
                 /\ "mode" \in torn' \/ disk.link.cert = "certbot"
              \/ /\ act'[r].pc = "answer" /\ act'[r].pair = act[r].pair
                 /\ act'[r].ok = act[r].ok
                 /\ UNCHANGED torn
           /\ UNCHANGED <<disk, stage, running, row, changes, faults>>
<1>1. r \in Actors /\ Issued \subseteq Pairs /\ Both("certbot").cert = "certbot"
  BY Values DEF Actors, Modes
<1>2. act[r].pc = "certbot" /\ UNCHANGED <<disk, stage, running, row, changes, faults>>
  BY DEF Certbot
<1>3. "hookCert" \in Pcs /\ "answer" \in Pcs
  BY DEF Pcs, HelperPcs
<1>4. CASE /\ CertbotFree
           /\ \E p \in Issued \ {disk.certbot.cert} :
                 act' = [act EXCEPT ![r].pc = "hookCert", ![r].pair = p]
           /\ UNCHANGED torn
  <2>1. PICK p \in Issued : act' = [act EXCEPT ![r].pc = "hookCert", ![r].pair = p]
    BY <1>4
  <2> DEFINE a == [act[r] EXCEPT !.pc = "hookCert", !.pair = p]
  <2>2. act[r] \in Act /\ p \in Pairs
    BY <1>1 DEF TypeOK
  <2>3. a \in Act /\ a.pc = "hookCert" /\ a.kind = act[r].kind /\ a.pair = p
        /\ a.late = act[r].late /\ a.ok = act[r].ok
    BY <1>3, <2>2 DEF Act
  <2> HIDE DEF a
  <2>4. act' = [act EXCEPT ![r] = a]
    BY <1>1, <2>1 DEF TypeOK, a
  <2> QED BY <1>1, <1>2, <1>4, <2>3, <2>4, ActFields
<1>5. CASE /\ act' = [act EXCEPT ![r].pc = "answer", ![r].ok = TRUE]
           /\ torn' = IF disk.link = Both("certbot") THEN torn ELSE torn \cup {"mode"}
  <2>1. Goes(r, "answer") /\ act'[r].ok /\ act'[r].late = act[r].late
    BY <1>1, <1>3, <1>5, GoesOk
  <2>2. torn' \in {torn, torn \cup {"mode"}}
    BY <1>5
  <2>3. "mode" \in torn' \/ disk.link.cert = "certbot"
    BY <1>1, <1>5
  <2> QED BY <1>2, <2>1, <2>2, <2>3 DEF Goes
<1>6. CASE act' = [act EXCEPT ![r].pc = "answer"] /\ UNCHANGED torn
  <2>1. Goes(r, "answer") /\ Keeps(r) /\ act'[r].late = act[r].late
    BY <1>1, <1>3, <1>6, GoesOn
  <2> QED BY <1>2, <1>6, <2>1 DEF Goes, Keeps
<1> QED BY <1>4, <1>5, <1>6 DEF Certbot

LEMMA HookCertStep ==
    ASSUME TypeOK, NEW x \in Actors, HookCert(x)
    PROVE  /\ OneStep(x, "hookCert", "hookKey") /\ Keeps(x)
           /\ UNCHANGED <<stage, running, row, torn, changes, faults>>
           /\ disk' \in Disk /\ disk'.certbot.cert = act[x].pair
           /\ disk'.zones = disk.zones /\ disk'.manual = disk.manual /\ disk'.link = disk.link
<1>1. disk \in Disk /\ act[x].pair \in Pairs
  BY DEF TypeOK, Disk, Act
<1> DEFINE f == [disk.certbot EXCEPT !.cert = act[x].pair]
<1>2. f \in Files /\ f.cert = act[x].pair
  BY <1>1, PairFields DEF Disk
<1>3. disk' = [disk EXCEPT !.certbot = f]
  BY DEF HookCert
<1>4. OneStep(x, "hookCert", "hookKey") /\ Keeps(x)
  BY GoesOn DEF HookCert, OneStep, Pcs, HelperPcs
<1>5. UNCHANGED <<stage, running, row, torn, changes, faults>>
  BY DEF HookCert
<1> HIDE DEF f
<1> QED BY <1>1, <1>2, <1>3, <1>4, <1>5, DiskFields

LEMMA HookKeyStep ==
    ASSUME TypeOK, NEW x \in Actors, HookKey(x)
    PROVE  /\ OneStep(x, "hookKey", "linkCert") /\ Keeps(x)
           /\ UNCHANGED <<stage, running, row, torn, changes, faults>>
           /\ disk' \in Disk /\ disk'.certbot.key = act[x].pair
           /\ disk'.certbot.cert = disk.certbot.cert
           /\ disk'.zones = disk.zones /\ disk'.manual = disk.manual /\ disk'.link = disk.link
<1>1. disk \in Disk /\ act[x].pair \in Pairs
  BY DEF TypeOK, Disk, Act
<1> DEFINE f == [disk.certbot EXCEPT !.key = act[x].pair]
<1>2. f \in Files /\ f.key = act[x].pair /\ f.cert = disk.certbot.cert
  BY <1>1, PairFields DEF Disk
<1>3. disk' = [disk EXCEPT !.certbot = f]
  BY DEF HookKey
<1>4. OneStep(x, "hookKey", "linkCert") /\ Keeps(x)
  BY GoesOn DEF HookKey, OneStep, Pcs, HelperPcs
<1>5. UNCHANGED <<stage, running, row, torn, changes, faults>>
  BY DEF HookKey
<1> HIDE DEF f
<1> QED BY <1>1, <1>2, <1>3, <1>4, <1>5, DiskFields

\* Where a link can lead.
LEMMA TargetMode ==
    ASSUME TypeOK, KindInv, NEW x \in Actors, act[x].pc \in {"linkCert", "linkKey"}
    PROVE  Target(act[x].kind) \in Modes /\ act[x].kind # "zones"
<1>1. act[x].kind \in Kinds /\ act[x].pc \in Course[act[x].kind]
  BY DEF TypeOK, Act, KindInv
<1> QED BY <1>1 DEF Kinds, Course, Target, Modes

LEMMA LinkCertStep ==
    ASSUME TypeOK, KindInv, NEW x \in Actors, LinkCert(x)
    PROVE  /\ OneStep(x, "linkCert", "linkKey") /\ act'[x].oldLinks = disk.link
           /\ act'[x].ok = act[x].ok
           /\ UNCHANGED <<stage, running, row, torn, changes, faults>>
           /\ disk' \in Disk /\ disk'.link.cert = Target(act[x].kind)
           /\ disk'.zones = disk.zones /\ disk'.manual = disk.manual
           /\ disk'.certbot = disk.certbot
<1>1. disk \in Disk /\ disk.link \in Links /\ Target(act[x].kind) \in Modes
  BY TargetMode DEF TypeOK, Disk, LinkCert
<1> DEFINE l == [disk.link EXCEPT !.cert = Target(act[x].kind)]
<1>2. l \in Links /\ l.cert = Target(act[x].kind)
  BY <1>1, PairFields
<1>3. disk' = [disk EXCEPT !.link = l]
  BY DEF LinkCert
<1>4. OneStep(x, "linkCert", "linkKey") /\ act'[x].oldLinks = disk.link /\ act'[x].ok = act[x].ok
  BY <1>1, GoesLinks DEF LinkCert, OneStep, Pcs, HelperPcs
<1>5. UNCHANGED <<stage, running, row, torn, changes, faults>>
  BY DEF LinkCert
<1> HIDE DEF l
<1> QED BY <1>1, <1>2, <1>3, <1>4, <1>5, DiskFields

LEMMA LinkKeyStep ==
    ASSUME TypeOK, KindInv, NEW x \in Actors, LinkKey(x)
    PROVE  /\ OneStep(x, "linkKey", "test") /\ Keeps(x)
           /\ UNCHANGED <<stage, running, row, torn, changes, faults>>
           /\ disk' \in Disk /\ disk'.link.key = Target(act[x].kind)
           /\ disk'.link.cert = disk.link.cert
           /\ disk'.zones = disk.zones /\ disk'.manual = disk.manual
           /\ disk'.certbot = disk.certbot
<1>1. disk \in Disk /\ disk.link \in Links /\ Target(act[x].kind) \in Modes
  BY TargetMode DEF TypeOK, Disk, LinkKey
<1> DEFINE l == [disk.link EXCEPT !.key = Target(act[x].kind)]
<1>2. l \in Links /\ l.key = Target(act[x].kind) /\ l.cert = disk.link.cert
  BY <1>1, PairFields
<1>3. disk' = [disk EXCEPT !.link = l]
  BY DEF LinkKey
<1>4. OneStep(x, "linkKey", "test") /\ Keeps(x)
  BY <1>1, GoesOn DEF LinkKey, OneStep, Pcs, HelperPcs
<1>5. UNCHANGED <<stage, running, row, torn, changes, faults>>
  BY DEF LinkKey
<1> HIDE DEF l
<1> QED BY <1>1, <1>2, <1>3, <1>4, <1>5, DiskFields

\* What nginx -t sees of the disk.
LEMMA FilesOfDisk ==
    ASSUME NEW d
    PROVE  /\ FilesOf(d, "manual") = d.manual /\ FilesOf(d, "certbot") = d.certbot
           /\ FilesOf(d, "selfsigned") = Pair("self")
BY DEF FilesOf

LEMMA SameToNginx ==
    ASSUME NEW d, NEW e, e.manual = d.manual, e.certbot = d.certbot, e.link = d.link
    PROVE  /\ Loads(e) <=> Loads(d)
           /\ \A mode : FilesOf(e, mode) = FilesOf(d, mode)
<1>1. \A mode : FilesOf(e, mode) = FilesOf(d, mode)
  BY DEF FilesOf
<1> QED BY <1>1 DEF Loads

\* A reload takes over the whole disk, or nothing.
LEMMA ReloadedDisk ==
    ASSUME TypeOK, NEW d \in Disk
    PROVE  /\ Reloaded(d) \in [zones : Includes, pair : Pairs]
           /\ Loads(d) => /\ Reloaded(d).zones = d.zones
                          /\ Reloaded(d).pair = FilesOf(d, d.link.cert).cert
           /\ ~Loads(d) => Reloaded(d) = running
<1>1. d.zones \in Includes /\ FilesOf(d, d.link.cert) \in Files
  BY Values, FilesOfDisk DEF Disk, Links, Modes
<1>2. FilesOf(d, d.link.cert).cert \in Pairs
  BY <1>1 DEF Files
<1>3. running \in [zones : Includes, pair : Pairs]
  BY DEF TypeOK
<1>4. Loaded(d) \in [zones : Includes, pair : Pairs] /\ Loaded(d).zones = d.zones
      /\ Loaded(d).pair = FilesOf(d, d.link.cert).cert
  BY <1>1, <1>2 DEF Loaded
<1> QED BY <1>3, <1>4 DEF Reloaded

LEMMA TestStep ==
    ASSUME TypeOK, NEW x \in Actors, Test(x)
    PROVE  /\ running' = Reloaded(disk)
           /\ UNCHANGED <<disk, stage, row, changes, faults>>
           /\ act'[x].oldZones = act[x].oldZones /\ act'[x].oldLinks = act[x].oldLinks
           /\ \/ /\ Loads(disk) \/ act[x].kind = "issue"
                 /\ OneStep(x, "test", "answer") /\ act'[x].ok /\ torn' = torn
              \/ /\ ~Loads(disk) /\ act[x].kind # "issue"
                 /\ OneStep(x, "test", "undo") /\ act'[x].ok = act[x].ok
                 /\ torn' = IF Replaced(x) THEN torn \cup {"tls"} ELSE torn
<1>1. CASE Loads(disk) \/ act[x].kind = "issue"
  <2>1. act' = [act EXCEPT ![x].pc = "answer", ![x].ok = TRUE] /\ torn' = torn
    BY <1>1 DEF Test
  <2>2. OneStep(x, "test", "answer") /\ act'[x].ok
        /\ act'[x].oldZones = act[x].oldZones /\ act'[x].oldLinks = act[x].oldLinks
    BY <2>1, GoesOk DEF Test, OneStep, Pcs
  <2> QED BY <1>1, <2>1, <2>2 DEF Test
<1>2. CASE ~(Loads(disk) \/ act[x].kind = "issue")
  <2>1. act' = [act EXCEPT ![x].pc = "undo"]
        /\ torn' = IF Replaced(x) THEN torn \cup {"tls"} ELSE torn
    BY <1>2 DEF Test
  <2>2. OneStep(x, "test", "undo") /\ Keeps(x)
    BY <2>1, GoesOn DEF Test, OneStep, Pcs, HelperPcs
  <2> QED BY <1>2, <2>1, <2>2 DEF Test, Keeps
<1> QED BY <1>1, <1>2

LEMMA UndoStep ==
    ASSUME TypeOK, NEW r \in Requests, Undo(r)
    PROVE  /\ OneStep(r, "undo", "answer") /\ Keeps(r)
           /\ disk' \in Disk /\ running' = Reloaded(disk')
           /\ disk'.manual = disk.manual /\ disk'.certbot = disk.certbot
           /\ act[r].kind = "zones" => disk'.zones = act[r].oldZones /\ disk'.link = disk.link
           /\ act[r].kind # "zones" => disk'.zones = disk.zones /\ disk'.link = act[r].oldLinks
           /\ UNCHANGED <<stage, row, torn, changes, faults>>
<1>1. r \in Actors /\ disk \in Disk /\ act[r] \in Act
  BY DEF Actors, TypeOK, Disk
<1>2. act[r].oldZones \in Includes /\ act[r].oldLinks \in Links
  BY <1>1 DEF Act
<1>3. OneStep(r, "undo", "answer") /\ Keeps(r)
  BY <1>1, GoesOn DEF Undo, OneStep, Pcs
<1>4. running' = Reloaded(disk') /\ UNCHANGED <<stage, row, torn, changes, faults>>
  BY DEF Undo
<1>5. disk' = IF act[r].kind = "zones" THEN [disk EXCEPT !.zones = act[r].oldZones]
              ELSE [disk EXCEPT !.link = act[r].oldLinks]
  BY DEF Undo
<1> QED BY <1>1, <1>2, <1>3, <1>4, <1>5, DiskFields

LEMMA AnswerStep ==
    ASSUME TypeOK, KindInv, NEW x \in Actors, Answer(x)
    PROVE  /\ act[x].pc = "answer" /\ act' \in [Actors -> Act] /\ act'[x] = Idle
           /\ \A y \in Actors \ {x} : act'[y] = act[y]
           /\ UNCHANGED <<disk, stage, running, changes, faults>>
           /\ row' \in [zones : Includes, mode : Modes]
           /\ torn' = torn \/ torn' = torn \ {"mode"}
           /\ \/ /\ x = Timer \/ ~act[x].ok \/ act[x].late
                 /\ UNCHANGED <<row, torn>>
              \/ /\ x # Timer /\ act[x].ok /\ ~act[x].late
                 /\ act[x].kind = "zones" => /\ row'.zones = act[x].zones
                                             /\ row'.mode = row.mode /\ torn' = torn
                 /\ act[x].kind # "zones" => /\ row'.zones = row.zones
                                             /\ row'.mode = Target(act[x].kind)
                                             /\ act[x].pair = "none" => torn' = torn
<1>1. act[x] \in Act /\ row \in [zones : Includes, mode : Modes]
  BY DEF TypeOK
<1>2. act[x].zones \in Includes /\ act[x].kind \in Kinds
  BY <1>1 DEF Act
<1>3. act' \in [Actors -> Act] /\ act'[x] = Idle /\ \A y \in Actors \ {x} : act'[y] = act[y]
  BY GoesIdle DEF Answer
<1>4. CASE x # Timer /\ act[x].ok /\ ~act[x].late
  <2>1. row' = Saved(x) /\ torn' = Settled(x)
    BY <1>4 DEF Answer
  <2>2. CASE act[x].kind = "zones"
    <3>1. row' = [row EXCEPT !.zones = act[x].zones] /\ torn' = torn
      BY <2>1, <2>2 DEF Saved, Settled
    <3> QED BY <1>1, <1>2, <1>3, <1>4, <2>2, <3>1 DEF Answer
  <2>3. CASE act[x].kind # "zones"
    <3>1. Target(act[x].kind) \in Modes
      BY <1>2, <2>3 DEF Kinds, Target, Modes
    <3>2. row' = [row EXCEPT !.mode = Target(act[x].kind)]
      BY <2>1, <2>3 DEF Saved
    <3>3. row' \in [zones : Includes, mode : Modes] /\ row'.zones = row.zones
          /\ row'.mode = Target(act[x].kind)
      BY <1>1, <3>1, <3>2
    <3>4. (torn' = torn \/ torn' = torn \ {"mode"}) /\ (act[x].pair = "none" => torn' = torn)
      BY <2>1 DEF Settled
    <3> QED BY <1>3, <1>4, <2>3, <3>3, <3>4 DEF Answer
  <2> QED BY <2>2, <2>3
<1>5. CASE ~(x # Timer /\ act[x].ok /\ ~act[x].late)
  <2>1. UNCHANGED <<row, torn>>
    BY <1>5 DEF Answer
  <2> QED BY <1>1, <1>3, <1>5, <2>1 DEF Answer
<1> QED BY <1>4, <1>5

-----------------------------------------------------------------------------
\* Every kind of change, and where it can be.
LEMMA CourseOf ==
    ASSUME TypeOK, KindInv, NEW x \in Actors, act[x].pc # "idle"
    PROVE  \/ act[x].kind = "zones" /\ act[x].pc \in Course.zones
           \/ act[x].kind = "manual" /\ act[x].pc \in Course.manual
           \/ act[x].kind = "selfsigned" /\ act[x].pc \in Course.selfsigned
           \/ act[x].kind = "issue" /\ act[x].pc \in Course.issue
<1>1. act[x].kind \in Kinds /\ act[x].pc \in Course[act[x].kind]
  BY DEF TypeOK, Act, KindInv
<1> QED BY <1>1 DEF Kinds

\* Every step of the module, as one of four kinds.
Begins ==
    \/ \E r \in Requests : SaveNetwork(r) \/ ApplyManual(r) \/ RevertSelfsigned(r) \/ AcmeDnsIssue(r)
    \/ Renew

GoesOnSteps ==
    \/ \E r \in Requests :
          \/ StageFirst(r) \/ StageSecond(r) \/ Backup(r) \/ InstallAdmin(r) \/ InstallWebmail(r)
          \/ InstallCert(r) \/ InstallKey(r) \/ Shred(r) \/ Certbot(r) \/ Undo(r)
    \/ \E x \in Actors : HookCert(x) \/ HookKey(x) \/ LinkCert(x) \/ LinkKey(x) \/ Test(x)

Breaks == \E r \in Requests : Timeout(r) \/ Killed(r) \/ CommitFails(r)

LEMMA Steps ==
    [Next]_vars => \/ Begins \/ GoesOnSteps \/ Breaks
                   \/ \E x \in Actors : Answer(x)
                   \/ UNCHANGED vars
BY DEF Next, Request, Hook, Begins, GoesOnSteps, Breaks, Actors

\* A change begins alone, or tears what is under way of its class.
LEMMA BeginStep ==
    ASSUME TypeOK, Begins
    PROVE  \E x \in Actors, kind \in Kinds, pc \in Pcs, zones \in Includes, pair \in Pairs :
              /\ Start(x, kind, pc, zones, pair)
              /\ torn' \subseteq {"zones", "tls", "mode"} /\ torn \subseteq torn'
              /\ Busy(Class(kind)) # {} => Class(kind) \in torn'
              /\ pc \in Course[kind]
              /\ kind = "zones" => pc = "stageFirst" /\ pair = "none"
              /\ kind = "manual" => pc = "stageFirst" /\ pair \in Uploads
              /\ kind = "selfsigned" => pc = "linkCert" /\ pair = "self"
              /\ kind = "issue" /\ x # Timer => pc = "certbot" /\ pair = "none"
              /\ kind = "issue" /\ x = Timer => pc = "hookCert" /\ pair \in Issued
              /\ x = Timer => kind = "issue" /\ (row.mode = "certbot" \/ "mode" \in torn')
<1> USE Values DEF Kinds, Pcs, HelperPcs, Overlaps, Class, Course
<1>1. torn \subseteq {"zones", "tls", "mode"}
  BY DEF TypeOK
<1>3. ASSUME NEW r \in Requests PROVE r \in Actors /\ r # Timer
  BY NginxAssumption DEF Actors
<1>4. CASE \E r \in Requests : SaveNetwork(r)
  <2>1. PICK r \in Requests : SaveNetwork(r)
    BY <1>4
  <2>2. PICK zones \in Includes : Start(r, "zones", "stageFirst", zones, "none")
    BY <2>1 DEF SaveNetwork
  <2>3. torn' = torn \cup (IF Busy("zones") = {} THEN {} ELSE {"zones"})
    BY <2>1 DEF SaveNetwork
  <2> QED BY <1>1, <1>3, <2>2, <2>3
<1>5. CASE \E r \in Requests : ApplyManual(r)
  <2>1. PICK r \in Requests : ApplyManual(r)
    BY <1>5
  <2>2. PICK p \in Uploads : Start(r, "manual", "stageFirst", Unrestricted, p)
    BY <2>1 DEF ApplyManual
  <2>3. torn' = torn \cup (IF Busy("tls") = {} THEN {} ELSE {"tls"})
    BY <2>1 DEF ApplyManual
  <2> QED BY <1>1, <1>3, <2>2, <2>3
<1>6. CASE \E r \in Requests : RevertSelfsigned(r)
  <2>1. PICK r \in Requests : RevertSelfsigned(r)
    BY <1>6
  <2>2. Start(r, "selfsigned", "linkCert", Unrestricted, "self")
    BY <2>1 DEF RevertSelfsigned
  <2>3. torn' = torn \cup (IF Busy("tls") = {} THEN {} ELSE {"tls"})
    BY <2>1 DEF RevertSelfsigned
  <2> QED BY <1>1, <1>3, <2>2, <2>3
<1>7. CASE \E r \in Requests : AcmeDnsIssue(r)
  <2>1. PICK r \in Requests : AcmeDnsIssue(r)
    BY <1>7
  <2>2. Start(r, "issue", "certbot", Unrestricted, "none")
    BY <2>1 DEF AcmeDnsIssue
  <2>3. torn' = torn \cup (IF Busy("tls") = {} THEN {} ELSE {"tls"})
    BY <2>1 DEF AcmeDnsIssue
  <2> QED BY <1>1, <1>3, <2>2, <2>3
<1>8. CASE Renew
  <2>1. PICK p \in Issued : Start(Timer, "issue", "hookCert", Unrestricted, p)
    BY <1>8 DEF Renew
  <2>2. torn' = (torn \cup (IF Busy("tls") = {} THEN {} ELSE {"tls"}))
                \cup (IF row.mode = "certbot" THEN {} ELSE {"mode"})
    BY <1>8 DEF Renew
  <2>3. Timer \in Actors
    BY DEF Actors
  <2> QED BY <1>1, <2>1, <2>2, <2>3
<1> QED BY <1>4, <1>5, <1>6, <1>7, <1>8 DEF Begins

\* A fault tears the class of the change it hits.
LEMMA BreakStep ==
    ASSUME TypeOK, Breaks
    PROVE  \E r \in Requests :
              /\ act[r].pc # "idle"
              /\ act' \in [Actors -> Act] /\ \A y \in Actors \ {r} : act'[y] = act[y]
              /\ torn' = torn \cup {Class(act[r].kind)} /\ faults' \in 0..MaxFaults
              /\ UNCHANGED <<disk, stage, running, row, changes>>
              /\ \/ act'[r] = Idle
                 \/ /\ act'[r].pc = act[r].pc /\ act'[r].kind = act[r].kind
                    /\ act'[r].pair = act[r].pair /\ act'[r].ok = act[r].ok
<1>1. PICK r \in Requests : Timeout(r) \/ Killed(r) \/ CommitFails(r)
  BY DEF Breaks
<1>2. r \in Actors
  BY DEF Actors
<1>3. act[r].pc # "idle"
  BY <1>1 DEF Timeout, Killed, CommitFails, HelperPcs
<1>4. /\ torn' = torn \cup {Class(act[r].kind)} /\ faults' \in 0..MaxFaults
      /\ UNCHANGED <<disk, stage, running, row, changes>>
  BY <1>1, NginxAssumption DEF Timeout, Killed, CommitFails, Fault, TypeOK
<1>5. CASE Timeout(r)
  <2>1. Goes(r, act[r].pc) /\ Keeps(r)
    BY <1>2, <1>5, GoesLate DEF Timeout
  <2> QED BY <1>3, <1>4, <2>1 DEF Goes, Keeps
<1>6. CASE Killed(r) \/ CommitFails(r)
  <2>1. act' = [act EXCEPT ![r] = Idle]
    BY <1>6 DEF Killed, CommitFails
  <2> QED BY <1>2, <1>3, <1>4, <2>1, GoesIdle
<1> QED BY <1>1, <1>5, <1>6

\* A change that goes on leaves alone what belongs to changes of the other class,
\* but for the reload, which takes over everything.
OfZones == /\ disk'.manual = disk.manual /\ disk'.certbot = disk.certbot
           /\ disk'.link = disk.link /\ stage'.tls = stage.tls /\ torn' = torn
OfTls == disk'.zones = disk.zones /\ stage'.zones = stage.zones

MovesOn(x) ==
    /\ act[x].pc # "idle" /\ act'[x].pc # "idle"
    /\ act' \in [Actors -> Act] /\ \A y \in Actors \ {x} : act'[y] = act[y]
    /\ act'[x].kind = act[x].kind /\ act'[x].late = act[x].late
    /\ act'[x].pc \in Course[act[x].kind] /\ PairOfKind(act'[x])
    /\ act'[x].ok => act'[x].pc = "answer"

Writes(x) ==
    /\ disk' \in Disk /\ stage' \in Stage /\ UNCHANGED <<row, changes, faults>>
    /\ running' = running \/ running' = Reloaded(disk')
    /\ torn \subseteq torn' /\ torn' \subseteq {"zones", "tls", "mode"}
    /\ act[x].kind = "zones" => OfZones
    /\ act[x].kind # "zones" => OfTls

Onward(x) == MovesOn(x) /\ Writes(x)

LEMMA KindsAt ==
    ASSUME TypeOK, KindInv, NEW x \in Actors
    PROVE  /\ act[x].pc \in {"stageFirst", "stageSecond"} => act[x].kind \in {"zones", "manual"}
           /\ act[x].pc \in {"backup", "instAdmin", "instWebmail"} => act[x].kind = "zones"
           /\ act[x].pc \in {"instCert", "instKey", "shred"} => act[x].kind = "manual"
           /\ act[x].pc \in {"certbot", "hookCert", "hookKey"} => act[x].kind = "issue"
           /\ act[x].pc \in {"linkCert", "linkKey"}
                 => act[x].kind \in {"manual", "selfsigned", "issue"}
           /\ act[x].pc = "undo" => act[x].kind \in {"zones", "manual", "selfsigned"}
           /\ act[x].kind \in {"zones", "manual", "selfsigned", "issue"}
<1>1. act[x].kind \in {"zones", "manual", "selfsigned", "issue"}
  BY DEF TypeOK, Act, Kinds
<1> QED BY <1>1, CourseOf DEF Course

LEMMA OnCourse ==
    ASSUME TypeOK, KindInv, NEW x \in Actors, NEW from, NEW to,
           from \notin {"idle", "certbot", "answer"}, to \notin {"idle", "certbot"},
           OneStep(x, from, to), to \in Course[act[x].kind]
    PROVE  MovesOn(x)
BY DEF OneStep, Goes, MovesOn, KindInv, PairOfKind

LEMMA Onwards ==
    ASSUME TypeOK, KindInv, NEW x \in Actors,
           \/ x \in Requests /\ \/ StageFirst(x) \/ StageSecond(x) \/ Backup(x)
                                \/ InstallAdmin(x) \/ InstallWebmail(x) \/ InstallCert(x)
                                \/ InstallKey(x) \/ Shred(x) \/ Certbot(x) \/ Undo(x)
           \/ HookCert(x) \/ HookKey(x) \/ LinkCert(x) \/ LinkKey(x) \/ Test(x)
    PROVE  Onward(x)
<1>1. disk \in Disk /\ stage \in Stage /\ torn \subseteq {"zones", "tls", "mode"}
  BY DEF TypeOK, Disk, Stage
<1>2. CASE x \in Requests /\ StageFirst(x)
  <2>1. OneStep(x, "stageFirst", "stageSecond")
    BY <1>2, StageFirstStep
  <2>2. MovesOn(x)
    BY <2>1, KindsAt, OnCourse DEF OneStep, Course
  <2>3. /\ UNCHANGED <<disk, running, row, torn, changes, faults>> /\ stage' \in Stage
        /\ act[x].kind = "zones" => stage'.tls = stage.tls
        /\ act[x].kind # "zones" => stage'.zones = stage.zones
    BY <1>2, StageFirstStep
  <2> QED BY <1>1, <2>1, <2>2, <2>3 DEF Onward, Writes, OfZones, OfTls, OneStep
<1>3. CASE x \in Requests /\ StageSecond(x)
  <2>1. \E pc \in {"backup", "instCert", "answer"} :
            OneStep(x, "stageSecond", pc) /\ (pc = "backup" <=> act[x].kind = "zones")
    BY <1>3, StageSecondStep
  <2>2. MovesOn(x)
    BY <2>1, KindsAt, OnCourse DEF OneStep, Course
  <2>3. /\ UNCHANGED <<disk, running, row, torn, changes, faults>> /\ stage' \in Stage
        /\ act[x].kind = "zones" => stage'.tls = stage.tls
        /\ act[x].kind # "zones" => stage'.zones = stage.zones
    BY <1>3, StageSecondStep
  <2> QED BY <1>1, <2>1, <2>2, <2>3 DEF Onward, Writes, OfZones, OfTls, OneStep
<1>4. CASE x \in Requests /\ Backup(x)
  <2>1. OneStep(x, "backup", "instAdmin")
    BY <1>4, BackupStep
  <2>2. MovesOn(x)
    BY <2>1, KindsAt, OnCourse DEF OneStep, Course
  <2>3. /\ UNCHANGED <<disk, stage, running, row, torn, changes, faults>>
    BY <1>4, BackupStep
  <2> QED BY <1>1, <2>1, <2>2, <2>3, KindsAt DEF Onward, Writes, OfZones, OfTls, OneStep
<1>5. CASE x \in Requests /\ InstallAdmin(x)
  <2>1. OneStep(x, "instAdmin", "instWebmail")
    BY <1>5, InstallAdminStep
  <2>2. MovesOn(x)
    BY <2>1, KindsAt, OnCourse DEF OneStep, Course
  <2>3. /\ UNCHANGED <<stage, running, row, torn, changes, faults>> /\ disk' \in Disk
        /\ disk'.manual = disk.manual /\ disk'.certbot = disk.certbot /\ disk'.link = disk.link
    BY <1>5, InstallAdminStep
  <2> QED BY <1>1, <2>1, <2>2, <2>3, KindsAt DEF Onward, Writes, OfZones, OfTls, OneStep
<1>6. CASE x \in Requests /\ InstallWebmail(x)
  <2>1. OneStep(x, "instWebmail", "test")
    BY <1>6, InstallWebmailStep
  <2>2. MovesOn(x)
    BY <2>1, KindsAt, OnCourse DEF OneStep, Course
  <2>3. /\ UNCHANGED <<stage, running, row, torn, changes, faults>> /\ disk' \in Disk
        /\ disk'.manual = disk.manual /\ disk'.certbot = disk.certbot /\ disk'.link = disk.link
    BY <1>6, InstallWebmailStep
  <2> QED BY <1>1, <2>1, <2>2, <2>3, KindsAt DEF Onward, Writes, OfZones, OfTls, OneStep
<1>7. CASE x \in Requests /\ InstallCert(x)
  <2>1. OneStep(x, "instCert", "instKey") \/ OneStep(x, "instCert", "answer")
    BY <1>7, InstallCertStep
  <2>2. MovesOn(x)
    BY <2>1, KindsAt, OnCourse DEF OneStep, Course
  <2>3. /\ UNCHANGED <<stage, running, row, torn, changes, faults>>
        /\ disk' = disk \/ (disk' \in Disk /\ disk'.zones = disk.zones)
    BY <1>7, InstallCertStep
  <2> QED BY <1>1, <2>1, <2>2, <2>3, KindsAt DEF Onward, Writes, OfZones, OfTls, OneStep
<1>8. CASE x \in Requests /\ InstallKey(x)
  <2>1. OneStep(x, "instKey", "shred") \/ OneStep(x, "instKey", "answer")
    BY <1>8, InstallKeyStep
  <2>2. MovesOn(x)
    BY <2>1, KindsAt, OnCourse DEF OneStep, Course
  <2>3. /\ UNCHANGED <<stage, running, row, torn, changes, faults>>
        /\ disk' = disk \/ (disk' \in Disk /\ disk'.zones = disk.zones)
    BY <1>8, InstallKeyStep
  <2> QED BY <1>1, <2>1, <2>2, <2>3, KindsAt DEF Onward, Writes, OfZones, OfTls, OneStep
<1>9. CASE x \in Requests /\ Shred(x)
  <2>1. OneStep(x, "shred", "linkCert") \/ OneStep(x, "shred", "answer")
    BY <1>9, ShredStep
  <2>2. MovesOn(x)
    BY <2>1, KindsAt, OnCourse DEF OneStep, Course
  <2>3. /\ UNCHANGED <<disk, running, row, torn, changes, faults>>
        /\ stage' \in Stage /\ stage'.zones = stage.zones
    BY <1>9, ShredStep
  <2> QED BY <1>1, <2>1, <2>2, <2>3, KindsAt DEF Onward, Writes, OfZones, OfTls, OneStep
<1>10. CASE HookCert(x)
  <2>1. OneStep(x, "hookCert", "hookKey")
    BY <1>10, HookCertStep
  <2>2. MovesOn(x)
    BY <2>1, KindsAt, OnCourse DEF OneStep, Course
  <2>3. /\ UNCHANGED <<stage, running, row, torn, changes, faults>>
        /\ disk' \in Disk /\ disk'.zones = disk.zones
    BY <1>10, HookCertStep
  <2> QED BY <1>1, <2>1, <2>2, <2>3, KindsAt DEF Onward, Writes, OfZones, OfTls, OneStep
<1>11. CASE HookKey(x)
  <2>1. OneStep(x, "hookKey", "linkCert")
    BY <1>11, HookKeyStep
  <2>2. MovesOn(x)
    BY <2>1, KindsAt, OnCourse DEF OneStep, Course
  <2>3. /\ UNCHANGED <<stage, running, row, torn, changes, faults>>
        /\ disk' \in Disk /\ disk'.zones = disk.zones
    BY <1>11, HookKeyStep
  <2> QED BY <1>1, <2>1, <2>2, <2>3, KindsAt DEF Onward, Writes, OfZones, OfTls, OneStep
<1>12. CASE LinkCert(x)
  <2>1. OneStep(x, "linkCert", "linkKey")
    BY <1>12, LinkCertStep
  <2>2. MovesOn(x)
    BY <2>1, KindsAt, OnCourse DEF OneStep, Course
  <2>3. /\ UNCHANGED <<stage, running, row, torn, changes, faults>>
        /\ disk' \in Disk /\ disk'.zones = disk.zones
    BY <1>12, LinkCertStep
  <2> QED BY <1>1, <2>1, <2>2, <2>3, KindsAt DEF Onward, Writes, OfZones, OfTls, OneStep
<1>13. CASE LinkKey(x)
  <2>1. OneStep(x, "linkKey", "test")
    BY <1>13, LinkKeyStep
  <2>2. MovesOn(x)
    BY <2>1, KindsAt, OnCourse DEF OneStep, Course
  <2>3. /\ UNCHANGED <<stage, running, row, torn, changes, faults>>
        /\ disk' \in Disk /\ disk'.zones = disk.zones
    BY <1>13, LinkKeyStep
  <2> QED BY <1>1, <2>1, <2>2, <2>3, KindsAt DEF Onward, Writes, OfZones, OfTls, OneStep
<1>14. CASE x \in Requests /\ Undo(x)
  <2>1. OneStep(x, "undo", "answer")
    BY <1>14, UndoStep
  <2>2. MovesOn(x)
    BY <2>1, KindsAt, OnCourse DEF OneStep, Course
  <2>3. /\ UNCHANGED <<stage, row, torn, changes, faults>> /\ disk' \in Disk /\ running' = Reloaded(disk')
        /\ disk'.manual = disk.manual /\ disk'.certbot = disk.certbot
        /\ act[x].kind = "zones" => disk'.link = disk.link
        /\ act[x].kind # "zones" => disk'.zones = disk.zones
    BY <1>14, UndoStep
  <2> QED BY <1>1, <2>1, <2>2, <2>3 DEF Onward, Writes, OfZones, OfTls, OneStep
<1>20. CASE x \in Requests /\ Certbot(x)
  <2>1. /\ act[x].pc = "certbot" /\ act' \in [Actors -> Act]
        /\ \A y \in Actors \ {x} : act'[y] = act[y]
        /\ act'[x].kind = act[x].kind /\ act'[x].late = act[x].late
        /\ \/ /\ act'[x].pc = "hookCert" /\ act'[x].pair \in Issued
              /\ act'[x].ok = act[x].ok
           \/ act'[x].pc = "answer" /\ act'[x].pair = act[x].pair
    BY <1>20, CertbotStep
  <2>2. act[x].kind = "issue"
    BY <2>1, KindsAt
  <2>3. MovesOn(x)
    BY <2>1, <2>2 DEF MovesOn, KindInv, PairOfKind, Course
  <2>4. UNCHANGED <<disk, stage, running, row, changes, faults>>
        /\ torn' \in {torn, torn \cup {"mode"}}
    BY <1>20, CertbotStep
  <2> QED BY <1>1, <2>2, <2>3, <2>4 DEF Onward, Writes, OfTls
<1>21. CASE Test(x)
  <2>1. OneStep(x, "test", "answer") \/ (OneStep(x, "test", "undo") /\ act[x].kind # "issue")
    BY <1>21, TestStep
  <2>2. MovesOn(x)
    BY <2>1, KindsAt, OnCourse DEF OneStep, Course
  <2>3. /\ UNCHANGED <<disk, stage, row, changes, faults>> /\ running' = Reloaded(disk)
        /\ torn' = torn \/ (Replaced(x) /\ torn' = torn \cup {"tls"})
    BY <1>21, TestStep
  <2>4. Reloaded(disk) = Reloaded(disk')
    BY <2>3 DEF Reloaded, Loads, Loaded, FilesOf
  <2> QED BY <1>1, <2>2, <2>3, <2>4 DEF Onward, Writes, OfZones, OfTls, Replaced
<1> QED BY <1>2, <1>3, <1>4, <1>5, <1>6, <1>7, <1>8, <1>9, <1>10, <1>11, <1>12, <1>13, <1>14, <1>20, <1>21

LEMMA OnwardSteps ==
    ASSUME TypeOK, KindInv, GoesOnSteps
    PROVE  \E x \in Actors : Onward(x)
BY Onwards DEF GoesOnSteps, Actors

-----------------------------------------------------------------------------
LEMMA KindPrime ==
    ASSUME \A y \in Actors : /\ act'[y].pc # "idle" => act'[y].pc \in Course[act'[y].kind]
                             /\ PairOfKind(act'[y])
                             /\ act'[y].ok => act'[y].pc = "answer"
                             /\ y = Timer /\ act'[y].pc # "idle" => act'[y].kind = "issue"
    PROVE  KindInv'
<1>1. Timer \in Actors
  BY DEF Actors
<1> QED BY <1>1 DEF KindInv, PairOfKind

\* Types, and each change on its course.
LEMMA TypeStep ==
    ASSUME TypeOK, KindInv, [Next]_vars
    PROVE  TypeOK' /\ KindInv'
<1>1. CASE Begins
  <2>1. PICK x \in Actors, kind \in Kinds, pc \in Pcs, zones \in Includes, pair \in Pairs :
           /\ Start(x, kind, pc, zones, pair)
           /\ torn' \subseteq {"zones", "tls", "mode"}
           /\ pc \in Course[kind]
           /\ kind = "zones" => pair = "none"
           /\ kind = "manual" => pair \in Uploads
           /\ kind = "selfsigned" => pair = "self"
           /\ kind = "issue" /\ x # Timer => pc = "certbot" /\ pair = "none"
           /\ kind = "issue" /\ x = Timer => pc = "hookCert" /\ pair \in Issued
           /\ x = Timer => kind = "issue"
    BY <1>1, BeginStep
  <2>2. /\ act' \in [Actors -> Act] /\ \A y \in Actors \ {x} : act'[y] = act[y]
        /\ act'[x].pc = pc /\ act'[x].kind = kind /\ act'[x].pair = pair /\ ~act'[x].ok
        /\ UNCHANGED <<disk, stage, running, row, faults>> /\ changes' \in 0..MaxChanges
    BY <2>1, Starts
  <2>3. TypeOK'
    BY <2>1, <2>2 DEF TypeOK
  <2>4. PairOfKind(act'[x])
    BY <2>1, <2>2 DEF PairOfKind
  <2>5. KindInv'
    BY <2>1, <2>2, <2>4, KindPrime DEF KindInv
  <2> QED BY <2>3, <2>5
<1>2. CASE GoesOnSteps
  <2>1. PICK x \in Actors : Onward(x)
    BY <1>2, OnwardSteps
  <2>2. disk' \in Disk /\ (running' = running \/ running' = Reloaded(disk'))
    BY <2>1 DEF Onward, Writes
  <2>3. running' \in [zones : Includes, pair : Pairs]
    BY <2>2, ReloadedDisk DEF TypeOK
  <2>4. TypeOK'
    BY <2>1, <2>3 DEF Onward, MovesOn, Writes, TypeOK, Disk, Stage
  <2>5. KindInv'
    BY <2>1, KindPrime DEF Onward, MovesOn, KindInv
  <2> QED BY <2>4, <2>5
<1>3. CASE Breaks
  <2>1. PICK r \in Requests :
           /\ act[r].pc # "idle"
           /\ act' \in [Actors -> Act] /\ \A y \in Actors \ {r} : act'[y] = act[y]
           /\ torn' = torn \cup {Class(act[r].kind)} /\ faults' \in 0..MaxFaults
           /\ UNCHANGED <<disk, stage, running, row, changes>>
           /\ \/ act'[r] = Idle
              \/ /\ act'[r].pc = act[r].pc /\ act'[r].kind = act[r].kind
                 /\ act'[r].pair = act[r].pair /\ act'[r].ok = act[r].ok
    BY <1>3, BreakStep
  <2>2. TypeOK'
    BY <2>1 DEF Class, TypeOK
  <2>3. r \in Actors /\ r # Timer
    BY NginxAssumption DEF Actors
  <2>4. PairOfKind(act[r])
    BY <2>3 DEF KindInv
  <2>5. PairOfKind(act'[r])
    BY <2>1, <2>4, IdleFields DEF PairOfKind
  <2>6. KindInv'
    BY <2>1, <2>3, <2>5, IdleFields, KindPrime DEF KindInv
  <2> QED BY <2>2, <2>6
<1>4. CASE \E x \in Actors : Answer(x)
  <2>1. PICK x \in Actors : Answer(x)
    BY <1>4
  <2>2. TypeOK'
    BY <2>1, AnswerStep DEF TypeOK
  <2>3. act'[x] = Idle /\ (\A y \in Actors \ {x} : act'[y] = act[y])
    BY <2>1, AnswerStep
  <2>4. PairOfKind(Idle)
    BY IdleFields DEF PairOfKind
  <2>5. KindInv'
    BY <2>3, <2>4, IdleFields, KindPrime DEF KindInv
  <2> QED BY <2>2, <2>5
<1>5. CASE UNCHANGED vars
  BY <1>5 DEF vars, TypeOK, KindInv
<1> QED BY <1>1, <1>2, <1>3, <1>4, <1>5, Steps

\* One change of a class at a time.
LEMMA AloneStep ==
    ASSUME TypeOK, KindInv, AloneInv, [Next]_vars
    PROVE  AloneInv'
<1> SUFFICES ASSUME NEW class \in {"zones", "tls"}, class \notin torn'
             PROVE  (\A x \in Busy(class) : ~act[x].late /\ \A y \in Busy(class) : x = y)'
  BY DEF AloneInv
<1> USE DEF Busy
<1>1. CASE Begins
  <2>1. PICK x \in Actors, kind \in Kinds, pc \in Pcs, zones \in Includes, pair \in Pairs :
           /\ Start(x, kind, pc, zones, pair) /\ torn \subseteq torn'
           /\ Busy(Class(kind)) # {} => Class(kind) \in torn'
    BY <1>1, BeginStep
  <2>2. /\ act[x].pc = "idle" /\ \A y \in Actors \ {x} : act'[y] = act[y]
        /\ act'[x].kind = kind /\ ~act'[x].late
    BY <2>1, Starts
  <2>3. CASE class = Class(kind)
    BY <2>1, <2>2, <2>3
  <2>4. CASE class # Class(kind)
    BY <2>1, <2>2, <2>4 DEF AloneInv
  <2> QED BY <2>3, <2>4
<1>2. CASE GoesOnSteps
  <2>1. PICK x \in Actors : Onward(x)
    BY <1>2, OnwardSteps
  <2> QED BY <2>1 DEF Onward, MovesOn, Writes, AloneInv
<1>3. CASE Breaks
  <2>1. PICK r \in Requests :
           /\ act[r].pc # "idle" /\ \A y \in Actors \ {r} : act'[y] = act[y]
           /\ torn' = torn \cup {Class(act[r].kind)}
           /\ act'[r] = Idle \/ act'[r].kind = act[r].kind
    BY <1>3, BreakStep
  <2>2. r \notin Busy(class)'
    BY <2>1, IdleFields
  <2> QED BY <2>1, <2>2 DEF AloneInv
<1>4. CASE \E x \in Actors : Answer(x)
  <2>1. PICK x \in Actors : Answer(x)
    BY <1>4
  <2>2. /\ act'[x] = Idle /\ \A y \in Actors \ {x} : act'[y] = act[y]
        /\ torn' = torn \/ torn' = torn \ {"mode"}
    BY <2>1, AnswerStep
  <2> QED BY <2>2, IdleFields DEF AloneInv
<1>5. CASE UNCHANGED vars
  BY <1>5 DEF vars, AloneInv
<1> QED BY <1>1, <1>2, <1>3, <1>4, <1>5, Steps

-----------------------------------------------------------------------------
(* The certificate. *)

\* With both links on one mode nginx loads the files of that mode.
LEMMA LoadsAt ==
    ASSUME NEW d, d.link.cert = d.link.key
    PROVE  /\ d.link.cert = "selfsigned" => Loads(d)
           /\ d.link.cert = "manual" =>
                 (Loads(d) <=> /\ d.manual.cert = d.manual.key /\ d.manual.cert # "none"
                               /\ d.manual.cert \notin Refused)
           /\ d.link.cert = "certbot" =>
                 (Loads(d) <=> /\ d.certbot.cert = d.certbot.key /\ d.certbot.cert # "none"
                               /\ d.certbot.cert \notin Refused)
<1>1. "self" \in Pairs /\ "self" \notin Refused /\ Pair("self").cert = "self"
      /\ Pair("self").key = "self"
  BY Values
<1> QED BY <1>1, FilesOfDisk DEF Loads

LEMMA ServedPrime ==
    ASSUME Loads(disk'), disk'.link.cert = disk'.link.key,
           running'.pair = FilesOf(disk', disk'.link.cert).cert
    PROVE  Served'
BY DEF Served, Loads, FilesOf, Pair

\* Whoever changes the certificate without overlap is the only one.
LEMMA Only ==
    ASSUME AloneInv, "tls" \notin torn, NEW x \in Busy("tls")
    PROVE  /\ \A y \in Busy("tls") : y = x
           /\ AtRest <=> act[x].pc \in Apart
BY DEF AloneInv, AtRest

\* The state of the certificate is about the files and links, and about whom they
\* are changed by.
LEMMA TlsFrame ==
    ASSUME TlsSound,
           \A y \in Actors : \/ act'[y] = act[y]
                             \/ y \notin Busy("tls") /\ y \notin Busy("tls")',
           disk'.manual = disk.manual, disk'.certbot = disk.certbot, disk'.link = disk.link,
           stage'.tls = stage.tls,
           \/ running'.pair = running.pair
           \/ Loads(disk) /\ running'.pair = FilesOf(disk, disk.link.cert).cert
    PROVE  TlsSound'
<1>1. \A y \in Actors : /\ y \in Busy("tls")' <=> y \in Busy("tls")
                        /\ y \in Busy("tls") => act'[y] = act[y]
  BY DEF Busy
<1>2. Busy("tls")' = Busy("tls")
  BY <1>1 DEF Busy
<1>3. \A y \in Busy("tls") : act'[y] = act[y]
  BY <1>1 DEF Busy
<1>4. (AtRest => Served)'
  <2>1. AtRest' <=> AtRest
    BY <1>2, <1>3 DEF AtRest
  <2>2. Served => Served'
    BY SameToNginx, ServedPrime DEF Served
  <2> QED BY <2>1, <2>2 DEF TlsSound
<1>5. \A y \in Busy("tls") : TlsPhase(y)'
  BY <1>3 DEF TlsSound, TlsPhase, Linked
<1> QED BY <1>2, <1>3, <1>4, <1>5 DEF TlsSound

\* The step of a change of the certificate, which is the only one.
LEMMA TlsAlone ==
    ASSUME TlsSound, AloneInv, "tls" \notin torn, NEW x \in Busy("tls"), MovesOn(x),
           act'[x].pc \in Apart => Served',
           TlsPhase(x)',
           disk'.certbot.cert \in Issued \cup {"none"},
           act'[x].pc # "hookKey" => disk'.certbot.key = disk'.certbot.cert
    PROVE  TlsSound'
<1>1. Busy("tls")' = {x}
  <2>1. \A y \in Busy("tls") : y = x
    BY Only
  <2>2. x \in Actors /\ Class(act[x].kind) = "tls"
    BY DEF Busy
  <2> QED BY <2>1, <2>2 DEF Busy, MovesOn
<1>2. AtRest' => act'[x].pc \in Apart
  BY <1>1 DEF AtRest
<1> QED BY <1>1, <1>2 DEF TlsSound

\* What is known of it.
LEMMA TlsNow ==
    ASSUME TypeOK, KindInv, AloneInv, TlsSound, "tls" \notin torn, NEW x \in Busy("tls")
    PROVE  /\ x \in Actors /\ act[x] \in Act /\ PairOfKind(act[x]) /\ TlsPhase(x)
           /\ act[x].kind \in {"manual", "selfsigned", "issue"} /\ act[x].pc # "idle"
           /\ act[x].pc \in Apart => Served
           /\ disk.certbot.cert \in Issued \cup {"none"}
           /\ act[x].pc # "hookKey" => disk.certbot.key = disk.certbot.cert
<1>1. x \in Actors /\ act[x].kind # "zones" /\ act[x].pc # "idle"
  BY DEF Busy, Class
<1>2. act[x] \in Act
  BY <1>1 DEF TypeOK
<1>3. \A y \in Busy("tls") : y = x
  BY Only
<1> QED BY <1>1, <1>2, <1>3, Only, KindsAt DEF KindInv, TlsSound

\* What nginx uses can be put back.
LEMMA SoundLinks ==
    ASSUME Served
    PROVE  /\ disk.link.cert = disk.link.key
           /\ disk.link.cert = "certbot" => disk.certbot.cert # "none"
BY LoadsAt DEF Served

LEMMA SameServed ==
    ASSUME Served, UNCHANGED <<disk, running>>
    PROVE  Served'
BY ServedPrime DEF Served

\* Staging an upload.
LEMMA TlsStaging ==
    ASSUME TypeOK, KindInv, AloneInv, TlsSound, "tls" \notin torn, NEW x \in Busy("tls"),
           MovesOn(x), x \in Requests, StageFirst(x) \/ StageSecond(x)
    PROVE  TlsSound'
<1>1. /\ x \in Actors /\ PairOfKind(act[x]) /\ TlsPhase(x) /\ act[x].kind # "zones"
      /\ act[x].pc \in Apart => Served
      /\ disk.certbot.cert \in Issued \cup {"none"}
      /\ act[x].pc # "hookKey" => disk.certbot.key = disk.certbot.cert
  BY TlsNow
<1>2. CASE StageFirst(x)
  <2>1. /\ OneStep(x, "stageFirst", "stageSecond") /\ UNCHANGED <<disk, running>>
        /\ stage'.tls.cert = act[x].pair
    BY <1>1, <1>2, StageFirstStep
  <2>2. Served'
    BY <1>1, <2>1, SameServed DEF OneStep, Apart
  <2>3. TlsPhase(x)'
    BY <2>1 DEF TlsPhase, OneStep, Goes
  <2> QED BY <1>1, <2>1, <2>2, <2>3, TlsAlone DEF OneStep
<1>3. CASE StageSecond(x)
  <2>1. PICK pc \in {"backup", "instCert", "answer"} :
           /\ OneStep(x, "stageSecond", pc)
           /\ pc = "backup" <=> act[x].kind = "zones"
           /\ pc = "answer" => stage.tls.cert = "none"
    BY <1>3, StageSecondStep
  <2>2. /\ UNCHANGED <<disk, running>> /\ stage'.tls.key = act[x].pair
        /\ stage'.tls.cert = stage.tls.cert
    BY <1>1, <1>3, StageSecondStep
  <2>3. act[x].kind = "manual"
    BY <1>1, <2>1, KindsAt DEF OneStep
  <2>4. stage.tls.cert = act[x].pair /\ act[x].pair # "none"
    BY <1>1, <2>1, <2>3, Values DEF TlsPhase, OneStep, PairOfKind
  <2>5. pc = "instCert"
    BY <1>1, <2>1, <2>4
  <2>6. Served'
    BY <1>1, <2>1, <2>2, SameServed DEF OneStep, Apart
  <2>7. TlsPhase(x)'
    BY <2>1, <2>2, <2>4, <2>5 DEF TlsPhase, OneStep, Goes
  <2> QED BY <1>1, <2>1, <2>2, <2>6, <2>7, TlsAlone DEF OneStep
<1> QED BY <1>2, <1>3

\* Installing it.
LEMMA TlsInstall ==
    ASSUME TypeOK, KindInv, AloneInv, TlsSound, "tls" \notin torn, NEW x \in Busy("tls"),
           MovesOn(x), x \in Requests, InstallCert(x) \/ InstallKey(x) \/ Shred(x)
    PROVE  TlsSound'
<1>1. /\ x \in Actors /\ PairOfKind(act[x]) /\ TlsPhase(x)
      /\ act[x].pc \in Apart => Served
      /\ disk.certbot.cert \in Issued \cup {"none"}
      /\ act[x].pc # "hookKey" => disk.certbot.key = disk.certbot.cert
  BY TlsNow
<1>2. act[x].pc \in {"instCert", "instKey", "shred"}
  BY DEF InstallCert, InstallKey, Shred
<1>3. act[x].kind = "manual" /\ act[x].pair # "none"
  BY <1>1, <1>2, KindsAt, Values DEF PairOfKind
<1>4. stage.tls.cert = act[x].pair /\ stage.tls.key = act[x].pair
  BY <1>1, <1>2 DEF TlsPhase
<1>5. CASE InstallCert(x)
  <2>1. /\ OneStep(x, "instCert", "instKey") /\ disk'.manual.cert = stage.tls.cert
        /\ disk'.certbot = disk.certbot /\ disk'.link = disk.link /\ stage' = stage
    BY <1>3, <1>4, <1>5, InstallCertStep
  <2>2. /\ disk.link.cert = disk.link.key
        /\ disk.link.cert = "certbot" => disk.certbot.cert # "none"
    BY <1>1, <2>1, SoundLinks DEF OneStep, Apart
  <2>3. TlsPhase(x)'
    BY <1>4, <2>1, <2>2 DEF TlsPhase, OneStep, Goes
  <2> QED BY <1>1, <2>1, <2>3, TlsAlone DEF OneStep, Goes, Apart
<1>6. CASE InstallKey(x)
  <2>1. /\ OneStep(x, "instKey", "shred") /\ disk'.manual.key = stage.tls.key
        /\ disk'.manual.cert = disk.manual.cert
        /\ disk'.certbot = disk.certbot /\ disk'.link = disk.link /\ stage' = stage
    BY <1>3, <1>4, <1>6, InstallKeyStep
  <2>2. TlsPhase(x)'
    BY <1>1, <1>4, <2>1 DEF TlsPhase, OneStep, Goes
  <2> QED BY <1>1, <2>1, <2>2, TlsAlone DEF OneStep, Goes, Apart
<1>7. CASE Shred(x)
  <2>1. OneStep(x, "shred", "linkCert") /\ disk' = disk
    BY <1>3, <1>4, <1>7, ShredStep
  <2>2. TlsPhase(x)'
    BY <1>1, <1>3, <2>1 DEF TlsPhase, OneStep, Goes
  <2> QED BY <1>1, <2>1, <2>2, TlsAlone DEF OneStep, Goes, Apart
<1> QED BY <1>5, <1>6, <1>7

\* Certbot and its hook.
LEMMA TlsIssue ==
    ASSUME TypeOK, KindInv, AloneInv, TlsSound, "tls" \notin torn, NEW x \in Busy("tls"),
           MovesOn(x), (x \in Requests /\ Certbot(x)) \/ HookCert(x) \/ HookKey(x)
    PROVE  TlsSound'
<1>1. /\ x \in Actors /\ PairOfKind(act[x]) /\ TlsPhase(x)
      /\ act[x].pc \in Apart => Served
      /\ disk.certbot.cert \in Issued \cup {"none"}
      /\ act[x].pc # "hookKey" => disk.certbot.key = disk.certbot.cert
  BY TlsNow
<1>2. CASE x \in Requests /\ Certbot(x)
  <2>1. /\ act[x].pc = "certbot" /\ act'[x].pc \in {"hookCert", "answer"}
        /\ UNCHANGED <<disk, running>>
    BY <1>2, CertbotStep
  <2>2. Served'
    BY <1>1, <2>1, SameServed DEF Apart
  <2>3. TlsPhase(x)'
    BY <2>1 DEF TlsPhase
  <2> QED BY <1>1, <2>1, <2>2, <2>3, TlsAlone
<1>3. CASE HookCert(x)
  <2>1. /\ OneStep(x, "hookCert", "hookKey") /\ disk'.certbot.cert = act[x].pair
        /\ disk'.link = disk.link
    BY <1>1, <1>3, HookCertStep
  <2>2. act[x].pair \in Issued /\ "none" \notin Issued
    BY <1>1, <2>1, KindsAt, Values DEF OneStep, PairOfKind
  <2>3. disk.link.cert = disk.link.key
    BY <1>1, <2>1, SoundLinks DEF OneStep, Apart
  <2>4. TlsPhase(x)'
    BY <2>1, <2>2, <2>3 DEF TlsPhase, OneStep, Goes
  <2> QED BY <2>1, <2>2, <2>4, TlsAlone DEF OneStep, Goes, Apart
<1>4. CASE HookKey(x)
  <2>1. /\ OneStep(x, "hookKey", "linkCert") /\ disk'.certbot.key = act[x].pair
        /\ disk'.certbot.cert = disk.certbot.cert /\ disk'.link = disk.link
    BY <1>1, <1>4, HookKeyStep
  <2>2. disk.certbot.cert = act[x].pair /\ act[x].kind = "issue"
    BY <1>1, <2>1, KindsAt DEF OneStep, TlsPhase
  <2>3. TlsPhase(x)'
    BY <1>1, <2>1, <2>2 DEF TlsPhase, OneStep, Goes
  <2> QED BY <1>1, <2>1, <2>2, <2>3, TlsAlone DEF OneStep, Goes, Apart
<1> QED BY <1>2, <1>3, <1>4

\* The links.
LEMMA TlsLinks ==
    ASSUME TypeOK, KindInv, AloneInv, TlsSound, "tls" \notin torn, NEW x \in Busy("tls"),
           MovesOn(x), LinkCert(x) \/ LinkKey(x)
    PROVE  TlsSound'
<1>1. /\ x \in Actors /\ TlsPhase(x)
      /\ disk.certbot.cert \in Issued \cup {"none"}
      /\ act[x].pc # "hookKey" => disk.certbot.key = disk.certbot.cert
  BY TlsNow
<1>2. CASE LinkCert(x)
  <2>1. /\ OneStep(x, "linkCert", "linkKey") /\ act'[x].oldLinks = disk.link
        /\ disk'.link.cert = Target(act[x].kind)
        /\ disk'.manual = disk.manual /\ disk'.certbot = disk.certbot
    BY <1>1, <1>2, LinkCertStep
  <2>2. Linked(x)'
    BY <1>1, <2>1 DEF Linked, TlsPhase, OneStep
  <2>3. TlsPhase(x)'
    BY <1>1, <2>1, <2>2 DEF TlsPhase, OneStep, Goes
  <2> QED BY <1>1, <2>1, <2>3, TlsAlone DEF OneStep, Goes, Apart
<1>3. CASE LinkKey(x)
  <2>1. /\ OneStep(x, "linkKey", "test") /\ Keeps(x)
        /\ disk'.link.key = Target(act[x].kind) /\ disk'.link.cert = disk.link.cert
        /\ disk'.manual = disk.manual /\ disk'.certbot = disk.certbot
    BY <1>1, <1>3, LinkKeyStep
  <2>2. Linked(x)'
    BY <1>1, <2>1 DEF Linked, TlsPhase, OneStep, Keeps
  <2>3. TlsPhase(x)'
    BY <1>1, <2>1, <2>2 DEF TlsPhase, OneStep, Goes
  <2> QED BY <1>1, <2>1, <2>3, TlsAlone DEF OneStep, Goes, Apart
<1> QED BY <1>2, <1>3

\* The test: only an upload can be refused, and what it replaced can be put back.
LEMMA TlsTested ==
    ASSUME TypeOK, KindInv, AloneInv, TlsSound, "tls" \notin torn, NEW x \in Busy("tls"),
           act[x].pc = "test"
    PROVE  /\ disk.link.cert = disk.link.key
           /\ ~Loads(disk) => act[x].kind = "manual"
<1>1. /\ x \in Actors /\ PairOfKind(act[x]) /\ TlsPhase(x)
      /\ act[x].kind \in {"manual", "selfsigned", "issue"}
  BY TlsNow
<1>2. disk.link.cert = Target(act[x].kind) /\ disk.link.key = Target(act[x].kind)
  BY <1>1 DEF TlsPhase
<1>3. CASE act[x].kind = "selfsigned"
  BY <1>2, <1>3, LoadsAt DEF Target
<1>4. CASE act[x].kind = "issue"
  <2>1. disk.certbot.cert = act[x].pair /\ disk.certbot.key = act[x].pair
    BY <1>1, <1>4 DEF TlsPhase
  <2>2. act[x].pair \in Issued
    BY <1>1, <1>4 DEF PairOfKind
  <2> QED BY <1>2, <1>4, <2>1, <2>2, LoadsAt, Values DEF Target
<1> QED BY <1>1, <1>2, <1>3, <1>4

LEMMA TlsTest ==
    ASSUME TypeOK, KindInv, AloneInv, TlsSound, "tls" \notin torn, NEW x \in Busy("tls"),
           MovesOn(x), Test(x), "tls" \notin torn'
    PROVE  TlsSound'
<1>1. /\ x \in Actors /\ act[x] \in Act /\ TlsPhase(x)
      /\ disk.certbot.cert \in Issued \cup {"none"}
      /\ act[x].pc # "hookKey" => disk.certbot.key = disk.certbot.cert
  BY TlsNow
<1>2. act[x].pc = "test" /\ Linked(x)
  BY <1>1 DEF Test, TlsPhase
<1>3. disk.link.cert = disk.link.key /\ (~Loads(disk) => act[x].kind = "manual")
  BY <1>2, TlsTested
<1>4. disk \in Disk /\ UNCHANGED disk /\ running' = Reloaded(disk)
      /\ act'[x].oldLinks = act[x].oldLinks
  BY <1>1, TestStep DEF TypeOK, Disk
<1>5. CASE Loads(disk)
  <2>1. OneStep(x, "test", "answer")
    BY <1>1, <1>5, TestStep
  <2>2. Loads(disk') /\ running'.pair = FilesOf(disk', disk'.link.cert).cert
    BY <1>4, <1>5, ReloadedDisk
  <2>3. Served'
    BY <1>3, <1>4, <2>2, ServedPrime
  <2>4. TlsPhase(x)'
    BY <2>1 DEF TlsPhase, OneStep, Goes
  <2> QED BY <1>1, <1>4, <2>1, <2>3, <2>4, TlsAlone DEF OneStep
<1>6. CASE ~Loads(disk)
  <2>1. OneStep(x, "test", "undo") /\ torn' = IF Replaced(x) THEN torn \cup {"tls"} ELSE torn
    BY <1>1, <1>3, <1>6, TestStep
  <2>2. act[x].oldLinks # Both("manual")
    BY <1>3, <1>6, <2>1 DEF Replaced
  <2>3. act[x].oldLinks \in Links /\ "manual" \in Modes
    BY <1>1 DEF Act, Modes
  <2>4. act[x].oldLinks.cert # "manual"
    BY <1>2, <2>2, <2>3, SameParts, Values DEF Linked
  <2>5. Linked(x)'
    BY <1>2, <1>4 DEF Linked
  <2>6. TlsPhase(x)'
    BY <1>3, <1>4, <1>6, <2>1, <2>4, <2>5 DEF TlsPhase, OneStep, Goes
  <2> QED BY <1>1, <1>4, <2>1, <2>6, TlsAlone DEF OneStep, Goes, Apart
<1> QED BY <1>5, <1>6

LEMMA TlsUndo ==
    ASSUME TypeOK, KindInv, AloneInv, TlsSound, "tls" \notin torn, NEW x \in Busy("tls"),
           MovesOn(x), x \in Requests, Undo(x)
    PROVE  TlsSound'
<1>1. /\ x \in Actors /\ act[x] \in Act /\ TlsPhase(x) /\ act[x].kind # "zones"
      /\ disk.certbot.cert \in Issued \cup {"none"}
      /\ act[x].pc # "hookKey" => disk.certbot.key = disk.certbot.cert
  BY TlsNow
<1>2. /\ OneStep(x, "undo", "answer") /\ disk' \in Disk /\ running' = Reloaded(disk')
      /\ disk'.certbot = disk.certbot /\ disk'.link = act[x].oldLinks
  BY <1>1, UndoStep
<1>3. Linked(x) /\ act[x].oldLinks.cert # "manual"
  BY <1>1, <1>2 DEF OneStep, TlsPhase
<1>4. disk'.link.cert \in Modes \ {"manual"} /\ disk'.link.cert = disk'.link.key
  BY <1>1, <1>2, <1>3 DEF Linked, Act, Links
<1>5. disk'.link.cert = "certbot" => /\ disk'.certbot.cert \in Issued
                                     /\ disk'.certbot.key = disk'.certbot.cert
  BY <1>1, <1>2, <1>3 DEF Linked, OneStep
<1>6. Loads(disk')
  BY <1>4, <1>5, LoadsAt, Values DEF Modes
<1>7. running'.pair = FilesOf(disk', disk'.link.cert).cert
  BY <1>2, <1>6, ReloadedDisk
<1>8. Served'
  BY <1>4, <1>6, <1>7, ServedPrime
<1>9. TlsPhase(x)'
  BY <1>2 DEF TlsPhase, OneStep, Goes
<1> QED BY <1>1, <1>2, <1>8, <1>9, TlsAlone DEF OneStep

\* An upload that nobody interferes with is staged and installed as it is.
LEMMA TlsGoesThrough ==
    ASSUME TypeOK, KindInv, AloneInv, TlsSound, "tls" \notin torn, NEW x \in Busy("tls"),
           x \in Requests, StageSecond(x) \/ InstallCert(x) \/ InstallKey(x) \/ Shred(x)
    PROVE  /\ act'[x].pc = CASE act[x].pc = "stageSecond" -> "instCert"
                             [] act[x].pc = "instCert" -> "instKey"
                             [] act[x].pc = "instKey" -> "shred"
                             [] OTHER -> "linkCert"
           /\ disk'.link = disk.link
<1>1. x \in Actors /\ PairOfKind(act[x]) /\ TlsPhase(x) /\ act[x].kind # "zones"
  BY TlsNow
<1>2. act[x].pc \in {"stageSecond", "instCert", "instKey", "shred"}
  BY DEF StageSecond, InstallCert, InstallKey, Shred
<1>3. act[x].kind = "manual" /\ act[x].pair # "none"
  BY <1>1, <1>2, KindsAt, Values DEF PairOfKind
<1>4. /\ stage.tls.cert = act[x].pair
      /\ act[x].pc # "stageSecond" => stage.tls.key = act[x].pair
  BY <1>1, <1>2 DEF TlsPhase
<1>5. CASE StageSecond(x)
  BY <1>1, <1>3, <1>4, <1>5, StageSecondStep DEF OneStep, Goes
<1>6. CASE InstallCert(x)
  BY <1>1, <1>3, <1>4, <1>6, InstallCertStep DEF OneStep, Goes
<1>7. CASE InstallKey(x)
  BY <1>1, <1>3, <1>4, <1>7, InstallKeyStep DEF OneStep, Goes
<1>8. CASE Shred(x)
  BY <1>1, <1>3, <1>4, <1>8, ShredStep DEF OneStep, Goes
<1> QED BY <1>5, <1>6, <1>7, <1>8

\* The step of one actor, as it concerns the certificate and the zones.
TlsStepOf(x) ==
    \/ x \in Requests /\ \/ StageFirst(x) \/ StageSecond(x) \/ InstallCert(x) \/ InstallKey(x)
                         \/ Shred(x) \/ Certbot(x) \/ Undo(x)
    \/ HookCert(x) \/ HookKey(x) \/ LinkCert(x) \/ LinkKey(x) \/ Test(x)

ZonesStepOf(x) ==
    \/ x \in Requests /\ \/ StageFirst(x) \/ StageSecond(x) \/ Backup(x) \/ InstallAdmin(x)
                         \/ InstallWebmail(x) \/ Undo(x)
    \/ Test(x)

LEMMA OnwardKinds ==
    ASSUME TypeOK, KindInv, GoesOnSteps
    PROVE  \E x \in Actors : /\ Onward(x)
                             /\ \/ x \in Busy("tls") /\ act[x].kind # "zones" /\ TlsStepOf(x)
                                \/ x \in Busy("zones") /\ act[x].kind = "zones" /\ ZonesStepOf(x)
<1>1. PICK x \in Actors :
         \/ x \in Requests /\ \/ StageFirst(x) \/ StageSecond(x) \/ Backup(x)
                              \/ InstallAdmin(x) \/ InstallWebmail(x) \/ InstallCert(x)
                              \/ InstallKey(x) \/ Shred(x) \/ Certbot(x) \/ Undo(x)
         \/ HookCert(x) \/ HookKey(x) \/ LinkCert(x) \/ LinkKey(x) \/ Test(x)
  BY DEF GoesOnSteps, Actors
<1>2. Onward(x)
  BY <1>1, Onwards
<1>3. act[x].pc # "idle"
  BY <1>2 DEF Onward, MovesOn
<1>4. CASE act[x].kind = "zones"
  <2>1. act[x].pc \notin {"instCert", "instKey", "shred", "certbot", "hookCert", "hookKey",
                          "linkCert", "linkKey"}
    BY <1>4, KindsAt
  <2>2. ZonesStepOf(x)
    BY <1>1, <2>1 DEF ZonesStepOf, InstallCert, InstallKey, Shred, Certbot, HookCert, HookKey,
                      LinkCert, LinkKey
  <2> QED BY <1>2, <1>3, <1>4, <2>2 DEF Busy, Class
<1>5. CASE act[x].kind # "zones"
  <2>1. act[x].pc \notin {"backup", "instAdmin", "instWebmail"}
    BY <1>5, KindsAt
  <2>2. TlsStepOf(x)
    BY <1>1, <2>1 DEF TlsStepOf, Backup, InstallAdmin, InstallWebmail
  <2> QED BY <1>2, <1>3, <1>5, <2>2 DEF Busy, Class
<1> QED BY <1>4, <1>5

\* One change after the other keeps the certificate sound.
LEMMA TlsStep ==
    ASSUME TypeOK, KindInv, AloneInv, TlsInv, [Next]_vars
    PROVE  TlsInv'
<1> SUFFICES ASSUME "tls" \notin torn' PROVE TlsSound'
  BY DEF TlsInv
<1>1. CASE Begins
  <2>1. PICK x \in Actors, kind \in Kinds, pc \in Pcs, zones \in Includes, pair \in Pairs :
           /\ Start(x, kind, pc, zones, pair) /\ torn \subseteq torn'
           /\ Busy(Class(kind)) # {} => Class(kind) \in torn'
           /\ kind = "manual" => pc = "stageFirst"
           /\ kind = "selfsigned" => pc = "linkCert"
           /\ kind = "issue" /\ x # Timer => pc = "certbot"
           /\ kind = "issue" /\ x = Timer => pc = "hookCert"
    BY <1>1, BeginStep
  <2>2. TlsSound
    BY <2>1 DEF TlsInv
  <2>3. /\ act[x].pc = "idle" /\ \A y \in Actors \ {x} : act'[y] = act[y]
        /\ act'[x].pc = pc /\ act'[x].kind = kind
        /\ UNCHANGED <<disk, stage, running>>
    BY <2>1, Starts
  <2>4. CASE kind = "zones"
    BY <2>2, <2>3, <2>4, TlsFrame DEF Busy, Class
  <2>5. CASE kind # "zones"
    <3>1. Busy("tls") = {} /\ Busy("tls")' \subseteq {x}
      BY <2>1, <2>3, <2>5 DEF Class, Busy
    <3>2. Served /\ disk.certbot.cert \in Issued \cup {"none"}
          /\ disk.certbot.key = disk.certbot.cert
      BY <2>2, <3>1 DEF TlsSound, AtRest
    <3>3. Served'
      BY <2>3, <3>2, SameServed
    <3>4. pc \in {"stageFirst", "linkCert", "certbot", "hookCert"}
      BY <2>1, <2>5 DEF Kinds
    <3>5. kind = "selfsigned" \/ pc # "linkCert"
      BY <2>1, <2>5 DEF Kinds
    <3>6. TlsPhase(x)'
      BY <2>3, <3>2, <3>4, <3>5, SoundLinks DEF TlsPhase
    <3> QED BY <2>3, <3>1, <3>2, <3>3, <3>6 DEF TlsSound
  <2> QED BY <2>4, <2>5
<1>2. CASE GoesOnSteps
  <2>1. PICK x \in Actors :
           /\ Onward(x)
           /\ \/ x \in Busy("tls") /\ act[x].kind # "zones" /\ TlsStepOf(x)
              \/ x \in Busy("zones") /\ act[x].kind = "zones" /\ ZonesStepOf(x)
    BY <1>2, OnwardKinds
  <2>2. MovesOn(x) /\ Writes(x) /\ "tls" \notin torn
    BY <2>1 DEF Onward, Writes
  <2>3. TlsSound
    BY <2>2 DEF TlsInv
  <2>4. CASE x \in Busy("tls") /\ TlsStepOf(x)
    BY <2>2, <2>3, <2>4, TlsStaging, TlsInstall, TlsIssue, TlsLinks, TlsTest, TlsUndo
       DEF TlsStepOf
  <2>5. CASE act[x].kind = "zones"
    <3>1. /\ \A y \in Actors \ {x} : act'[y] = act[y]
          /\ x \notin Busy("tls") /\ x \notin Busy("tls")'
      BY <2>2, <2>5 DEF MovesOn, Busy, Class
    <3>2. /\ disk'.manual = disk.manual /\ disk'.certbot = disk.certbot
          /\ disk'.link = disk.link /\ stage'.tls = stage.tls
      BY <2>2, <2>5 DEF Writes, OfZones
    <3>3. \/ running'.pair = running.pair
          \/ Loads(disk) /\ running'.pair = FilesOf(disk, disk.link.cert).cert
      BY <2>2, <3>2, SameToNginx, ReloadedDisk DEF Writes
    <3> QED BY <2>3, <3>1, <3>2, <3>3, TlsFrame
  <2> QED BY <2>1, <2>4, <2>5
<1>3. CASE Breaks
  <2>1. PICK r \in Requests :
           /\ \A y \in Actors \ {r} : act'[y] = act[y]
           /\ torn' = torn \cup {Class(act[r].kind)}
           /\ UNCHANGED <<disk, stage, running>>
           /\ act'[r] = Idle \/ act'[r].kind = act[r].kind
    BY <1>3, BreakStep
  <2>2. TlsSound /\ r \notin Busy("tls") /\ r \notin Busy("tls")'
    BY <2>1, IdleFields DEF TlsInv, Busy, Class
  <2> QED BY <2>1, <2>2, TlsFrame
<1>4. CASE \E x \in Actors : Answer(x)
  <2>1. PICK x \in Actors : Answer(x)
    BY <1>4
  <2>2. /\ act[x].pc = "answer" /\ act'[x] = Idle /\ \A y \in Actors \ {x} : act'[y] = act[y]
        /\ UNCHANGED <<disk, stage, running>> /\ (torn' = torn \/ torn' = torn \ {"mode"})
    BY <2>1, AnswerStep
  <2>3. TlsSound /\ "tls" \notin torn
    BY <2>2 DEF TlsInv
  <2>4. CASE x \in Busy("tls")
    <3>1. Busy("tls")' = {}
      BY <2>2, <2>3, <2>4, Only, IdleFields DEF Busy
    <3>2. Served /\ disk.certbot.cert \in Issued \cup {"none"}
          /\ disk.certbot.key = disk.certbot.cert
      BY <2>2, <2>3, <2>4, TlsNow DEF Apart
    <3> QED BY <2>2, <3>1, <3>2, SameServed DEF TlsSound
  <2>5. CASE x \notin Busy("tls")
    BY <2>2, <2>3, <2>5, IdleFields, TlsFrame DEF Busy
  <2> QED BY <2>4, <2>5
<1>5. CASE UNCHANGED vars
  <2>1. TlsSound
    BY <1>5 DEF vars, TlsInv
  <2> QED BY <1>5, <2>1, TlsFrame DEF vars
<1> QED BY <1>1, <1>2, <1>3, <1>4, <1>5, Steps

-----------------------------------------------------------------------------
(* The mode. *)

\* A step that is not of the certificate.
LEMMA ModeFrame ==
    ASSUME ModeSound, "mode" \notin torn' => "mode" \notin torn,
           \A y \in Actors : \/ act'[y] = act[y]
                             \/ y \notin Busy("tls") /\ y \notin Busy("tls")',
           disk'.link = disk.link, row'.mode = row.mode
    PROVE  ModeSound'
<1>1. \A y \in Actors : /\ y \in Busy("tls")' <=> y \in Busy("tls")
                        /\ y \in Busy("tls") => act'[y] = act[y]
  BY DEF Busy
<1>2. Busy("tls")' = Busy("tls")
  BY <1>1 DEF Busy
<1>3. \A y \in Busy("tls") : act'[y] = act[y]
  BY <1>1 DEF Busy
<1>4. "mode" \notin torn => \A y \in Busy("tls") : ModePhase(y)'
  BY <1>3 DEF ModeSound, ModePhase
<1> QED BY <1>2, <1>3, <1>4 DEF ModeSound

\* The step of a change of the certificate, which is the only one.
LEMMA ModeAlone ==
    ASSUME AloneInv, "tls" \notin torn, NEW x \in Busy("tls"), MovesOn(x),
           act'[x].pc = "answer" /\ act'[x].ok /\ act'[x].pair # "none"
              => disk'.link.cert = Target(act[x].kind),
           "mode" \notin torn' => ModePhase(x)'
    PROVE  ModeSound'
<1>1. Busy("tls")' = {x}
  <2>1. \A y \in Busy("tls") : y = x
    BY Only
  <2>2. x \in Actors /\ Class(act[x].kind) = "tls"
    BY DEF Busy
  <2> QED BY <2>1, <2>2 DEF Busy, MovesOn
<1> QED BY <1>1 DEF ModeSound, MovesOn

\* A change of the certificate leads from the mode of the row to its own, or back.
LEMMA ModeMoves ==
    ASSUME TypeOK, KindInv, AloneInv, TlsSound, ModeSound, "tls" \notin torn, "tls" \notin torn',
           NEW x \in Busy("tls"), MovesOn(x), Writes(x), TlsStepOf(x)
    PROVE  ModeSound'
<1>1. /\ x \in Actors /\ PairOfKind(act[x]) /\ TlsPhase(x) /\ act[x].kind # "zones"
      /\ "mode" \notin torn => ModePhase(x)
      /\ act[x].ok => act[x].pc = "answer"
  BY TlsNow DEF ModeSound, KindInv
<1>2. "mode" \notin torn' => "mode" \notin torn
  BY DEF Writes
<1>3. UNCHANGED row
  BY DEF Writes
<1>4. CASE x \in Requests /\ (StageFirst(x) \/ StageSecond(x) \/ InstallCert(x) \/ InstallKey(x) \/ Shred(x))
  <2>1. /\ act[x].pc \in {"stageFirst", "stageSecond", "instCert", "instKey", "shred"}
        /\ act'[x].pc \in {"stageSecond", "instCert", "instKey", "shred", "linkCert"}
        /\ disk'.link = disk.link
    <3>1. CASE StageFirst(x)
      BY <1>1, <1>4, <3>1, StageFirstStep DEF OneStep, Goes
    <3>2. CASE ~StageFirst(x)
      BY <1>1, <1>4, <3>2, TlsGoesThrough DEF StageSecond, InstallCert, InstallKey, Shred
    <3> QED BY <3>1, <3>2
  <2>2. "mode" \notin torn => ModePhase(x)'
    BY <1>1, <1>3, <2>1 DEF ModePhase, Apart
  <2> QED BY <1>2, <2>1, <2>2, ModeAlone
<1>5. CASE x \in Requests /\ Certbot(x)
  <2>1. /\ act[x].pc = "certbot" /\ act'[x].kind = act[x].kind /\ UNCHANGED disk
        /\ \/ act'[x].pc = "hookCert"
           \/ /\ act'[x].pc = "answer" /\ act'[x].pair = act[x].pair
              /\ act'[x].ok => "mode" \in torn' \/ disk.link.cert = "certbot"
    BY <1>1, <1>5, CertbotStep
  <2>2. act[x].kind = "issue" /\ act[x].pair = "none"
    BY <1>1, <2>1, KindsAt DEF PairOfKind
  <2>3. "mode" \notin torn' => ModePhase(x)'
    BY <1>1, <1>2, <1>3, <2>1, <2>2 DEF ModePhase, Apart, Target
  <2> QED BY <2>1, <2>2, <2>3, ModeAlone
<1>6. CASE HookCert(x)
  <2>1. OneStep(x, "hookCert", "hookKey") /\ disk'.link = disk.link
    BY <1>1, <1>6, HookCertStep
  <2>2. "mode" \notin torn => ModePhase(x)'
    BY <1>1, <1>3, <2>1 DEF ModePhase, Apart, OneStep, Goes
  <2> QED BY <1>2, <2>1, <2>2, ModeAlone DEF OneStep, Goes
<1>7. CASE HookKey(x)
  <2>1. OneStep(x, "hookKey", "linkCert") /\ disk'.link = disk.link
    BY <1>1, <1>7, HookKeyStep
  <2>2. "mode" \notin torn => ModePhase(x)'
    BY <1>1, <1>3, <2>1 DEF ModePhase, Apart, OneStep, Goes
  <2> QED BY <1>2, <2>1, <2>2, ModeAlone DEF OneStep, Goes
<1>8. CASE LinkCert(x)
  <2>1. OneStep(x, "linkCert", "linkKey") /\ act'[x].oldLinks = disk.link
    BY <1>1, <1>8, LinkCertStep
  <2>2. "mode" \notin torn => ModePhase(x)'
    BY <1>1, <1>3, <2>1 DEF ModePhase, Apart, OneStep, Goes
  <2> QED BY <1>2, <2>1, <2>2, ModeAlone DEF OneStep, Goes
<1>9. CASE LinkKey(x)
  <2>1. OneStep(x, "linkKey", "test") /\ Keeps(x)
    BY <1>1, <1>9, LinkKeyStep
  <2>2. "mode" \notin torn => ModePhase(x)'
    BY <1>1, <1>3, <2>1 DEF ModePhase, Apart, OneStep, Goes, Keeps
  <2> QED BY <1>2, <2>1, <2>2, ModeAlone DEF OneStep, Goes
<1>10. CASE Test(x)
  <2>1. /\ UNCHANGED disk /\ act'[x].oldLinks = act[x].oldLinks
        /\ \/ OneStep(x, "test", "answer") /\ act'[x].ok
           \/ OneStep(x, "test", "undo")
    BY <1>1, <1>10, TestStep
  <2>2. disk.link.cert = Target(act[x].kind)
    BY <1>1, <2>1 DEF OneStep, TlsPhase
  <2>3. "mode" \notin torn => ModePhase(x)'
    BY <1>1, <1>3, <2>1, <2>2 DEF ModePhase, Apart, OneStep, Goes
  <2> QED BY <1>2, <2>1, <2>2, <2>3, ModeAlone DEF OneStep, Goes
<1>11. CASE x \in Requests /\ Undo(x)
  <2>1. OneStep(x, "undo", "answer") /\ Keeps(x) /\ disk'.link = act[x].oldLinks
    BY <1>1, <1>11, UndoStep
  <2>2. ~act'[x].ok
    BY <1>1, <2>1 DEF OneStep, Keeps
  <2>3. "mode" \notin torn => ModePhase(x)'
    BY <1>1, <1>3, <2>1, <2>2 DEF ModePhase, Apart, OneStep, Goes
  <2> QED BY <1>2, <2>2, <2>3, ModeAlone
<1> QED BY <1>4, <1>5, <1>6, <1>7, <1>8, <1>9, <1>10, <1>11 DEF TlsStepOf

LEMMA ModeStep ==
    ASSUME TypeOK, KindInv, AloneInv, TlsInv, ModeInv, [Next]_vars
    PROVE  ModeInv'
<1> SUFFICES ASSUME "tls" \notin torn' PROVE ModeSound'
  BY DEF ModeInv
<1>0. "tls" \notin torn => TlsSound /\ ModeSound
  BY DEF TlsInv, ModeInv
<1>1. CASE Begins
  <2>1. PICK x \in Actors, kind \in Kinds, pc \in Pcs, zones \in Includes, pair \in Pairs :
           /\ Start(x, kind, pc, zones, pair) /\ torn \subseteq torn'
           /\ Busy(Class(kind)) # {} => Class(kind) \in torn'
           /\ kind = "manual" => pc = "stageFirst"
           /\ kind = "selfsigned" => pc = "linkCert"
           /\ kind = "issue" /\ x # Timer => pc = "certbot"
           /\ kind = "issue" /\ x = Timer => pc = "hookCert"
           /\ x = Timer => kind = "issue" /\ (row.mode = "certbot" \/ "mode" \in torn')
    BY <1>1, BeginStep
  <2>2. ModeSound
    BY <1>0, <2>1
  <2>3. /\ act[x].pc = "idle" /\ \A y \in Actors \ {x} : act'[y] = act[y]
        /\ act'[x].pc = pc /\ act'[x].kind = kind /\ ~act'[x].ok
        /\ UNCHANGED <<disk, row>>
    BY <2>1, Starts
  <2>4. CASE kind = "zones"
    BY <2>1, <2>2, <2>3, <2>4, ModeFrame DEF Busy, Class
  <2>5. CASE kind # "zones"
    <3>1. Busy("tls") = {} /\ Busy("tls")' \subseteq {x} /\ x \in Busy("tls")'
      BY <2>1, <2>3, <2>5 DEF Class, Busy, Kinds
    <3>2. pc \in {"stageFirst", "linkCert", "certbot", "hookCert"}
      BY <2>1, <2>5 DEF Kinds
    <3>3. "mode" \notin torn' => ModePhase(x)'
      BY <2>1, <2>2, <2>3, <3>1, <3>2 DEF ModeSound, ModePhase, Apart
    <3> QED BY <2>3, <3>1, <3>3 DEF ModeSound
  <2> QED BY <2>4, <2>5
<1>2. CASE GoesOnSteps
  <2>1. PICK x \in Actors :
           /\ Onward(x)
           /\ \/ x \in Busy("tls") /\ act[x].kind # "zones" /\ TlsStepOf(x)
              \/ x \in Busy("zones") /\ act[x].kind = "zones" /\ ZonesStepOf(x)
    BY <1>2, OnwardKinds
  <2>2. MovesOn(x) /\ Writes(x) /\ "tls" \notin torn
    BY <2>1 DEF Onward, Writes
  <2>3. CASE x \in Busy("tls") /\ TlsStepOf(x)
    BY <1>0, <2>2, <2>3, ModeMoves
  <2>4. CASE act[x].kind = "zones"
    <3>1. /\ \A y \in Actors \ {x} : act'[y] = act[y]
          /\ x \notin Busy("tls") /\ x \notin Busy("tls")'
      BY <2>2, <2>4 DEF MovesOn, Busy, Class
    <3>2. disk'.link = disk.link /\ row'.mode = row.mode /\ torn' = torn
      BY <2>2, <2>4 DEF Writes, OfZones
    <3> QED BY <1>0, <2>2, <3>1, <3>2, ModeFrame
  <2> QED BY <2>1, <2>3, <2>4
<1>3. CASE Breaks
  <2>1. PICK r \in Requests :
           /\ \A y \in Actors \ {r} : act'[y] = act[y]
           /\ torn' = torn \cup {Class(act[r].kind)}
           /\ UNCHANGED <<disk, row>>
           /\ act'[r] = Idle \/ act'[r].kind = act[r].kind
    BY <1>3, BreakStep
  <2>2. ModeSound /\ r \notin Busy("tls") /\ r \notin Busy("tls")'
    BY <1>0, <2>1, IdleFields DEF Busy, Class
  <2> QED BY <2>1, <2>2, ModeFrame
<1>4. CASE \E x \in Actors : Answer(x)
  <2>1. PICK x \in Actors : Answer(x)
    BY <1>4
  <2>2. /\ act[x].pc = "answer" /\ act'[x] = Idle /\ \A y \in Actors \ {x} : act'[y] = act[y]
        /\ UNCHANGED disk /\ (torn' = torn \/ torn' = torn \ {"mode"})
        /\ \/ /\ x = Timer \/ ~act[x].ok \/ act[x].late
              /\ UNCHANGED <<row, torn>>
           \/ /\ act[x].ok
              /\ act[x].kind = "zones" => row'.mode = row.mode /\ torn' = torn
              /\ act[x].kind # "zones" => /\ row'.mode = Target(act[x].kind)
                                          /\ act[x].pair = "none" => torn' = torn
    BY <2>1, AnswerStep
  <2>3. ModeSound /\ "tls" \notin torn
    BY <1>0, <2>2
  <2>4. CASE x \in Busy("tls")
    <3>1. Busy("tls")' = {}
      BY <2>2, <2>3, <2>4, Only, IdleFields DEF Busy
    <3>2. ~act[x].late /\ act[x].kind # "zones"
      BY <2>3, <2>4 DEF AloneInv, Busy, Class
    <3>3. x = Timer => Target(act[x].kind) = "certbot"
      BY <2>2 DEF KindInv, Target
    <3>4. "mode" \notin torn => ModePhase(x)
      BY <2>3, <2>4 DEF ModeSound
    <3>5. ASSUME "mode" \notin torn' PROVE disk.link.cert = row'.mode
      <4>1. CASE UNCHANGED <<row, torn>> /\ (x = Timer \/ ~act[x].ok \/ act[x].late)
        BY <2>2, <3>2, <3>3, <3>4, <3>5, <4>1 DEF ModePhase
      <4>2. CASE act[x].ok /\ row'.mode = Target(act[x].kind) /\ act[x].pair # "none"
        BY <2>2, <2>3, <2>4, <4>2 DEF ModeSound
      <4>3. CASE act[x].ok /\ row'.mode = Target(act[x].kind) /\ torn' = torn
        BY <2>2, <3>4, <3>5, <4>3 DEF ModePhase
      <4> QED BY <2>2, <3>2, <4>1, <4>2, <4>3
    <3> QED BY <2>2, <3>1, <3>5 DEF ModeSound
  <2>5. CASE x \notin Busy("tls")
    <3>1. act[x].kind = "zones"
      BY <2>2, <2>5 DEF Busy, Class
    <3>2. row'.mode = row.mode /\ torn' = torn
      BY <2>2, <3>1
    <3> QED BY <2>2, <2>3, <2>5, <3>2, IdleFields, ModeFrame DEF Busy
  <2> QED BY <2>4, <2>5
<1>5. CASE UNCHANGED vars
  BY <1>0, <1>5, ModeFrame DEF vars
<1> QED BY <1>1, <1>2, <1>3, <1>4, <1>5, Steps

-----------------------------------------------------------------------------
(* The zones. *)

\* A step that is not of the zones.
LEMMA ZonesFrame ==
    ASSUME ZonesSound,
           \A y \in Actors : \/ act'[y] = act[y]
                             \/ y \notin Busy("zones") /\ y \notin Busy("zones")',
           disk'.zones = disk.zones, stage'.zones = stage.zones, row'.zones = row.zones
    PROVE  ZonesSound'
<1>1. \A y \in Actors : /\ y \in Busy("zones")' <=> y \in Busy("zones")
                        /\ y \in Busy("zones") => act'[y] = act[y]
  BY DEF Busy
<1>2. Busy("zones")' = Busy("zones")
  BY <1>1 DEF Busy
<1>3. \A y \in Busy("zones") : act'[y] = act[y]
  BY <1>1 DEF Busy
<1>4. \A y \in Busy("zones") : ZonesPhase(y)'
  BY <1>3 DEF ZonesSound, ZonesPhase
<1> QED BY <1>2, <1>4 DEF ZonesSound

\* The step of a change of the zones, which is the only one.
LEMMA ZonesAlone ==
    ASSUME AloneInv, "zones" \notin torn, NEW x \in Busy("zones"), MovesOn(x), ZonesPhase(x)'
    PROVE  ZonesSound'
<1>1. Busy("zones")' = {x}
  <2>1. \A y \in Busy("zones") : y = x
    BY DEF AloneInv
  <2>2. x \in Actors /\ Class(act[x].kind) = "zones"
    BY DEF Busy
  <2> QED BY <2>1, <2>2 DEF Busy, MovesOn
<1> QED BY <1>1 DEF ZonesSound

\* The include files become what was asked for, or what they were.
LEMMA ZonesMoves ==
    ASSUME TypeOK, KindInv, AloneInv, ZonesSound, "zones" \notin torn,
           NEW x \in Busy("zones"), MovesOn(x), Writes(x), ZonesStepOf(x)
    PROVE  ZonesSound'
<1>1. /\ x \in Actors /\ act[x] \in Act /\ ZonesPhase(x) /\ act[x].kind = "zones"
      /\ act[x].ok => act[x].pc = "answer"
  BY DEF Busy, Class, TypeOK, ZonesSound, KindInv
<1>2. UNCHANGED row /\ disk \in Disk
  BY DEF Writes, TypeOK, Disk
<1>3. CASE x \in Requests /\ StageFirst(x)
  <2>1. /\ OneStep(x, "stageFirst", "stageSecond") /\ UNCHANGED disk
        /\ stage'.zones.admin = act[x].zones.admin
    BY <1>1, <1>3, StageFirstStep
  <2>2. ZonesPhase(x)'
    BY <1>1, <1>2, <2>1 DEF ZonesPhase, OneStep, Goes
  <2> QED BY <2>2, ZonesAlone
<1>4. CASE x \in Requests /\ StageSecond(x)
  <2>1. /\ OneStep(x, "stageSecond", "backup") /\ UNCHANGED disk
        /\ stage'.zones.webmail = act[x].zones.webmail
        /\ stage'.zones.admin = stage.zones.admin
    BY <1>1, <1>4, StageSecondStep
  <2>2. ZonesPhase(x)'
    BY <1>1, <1>2, <2>1 DEF ZonesPhase, OneStep, Goes
  <2> QED BY <2>2, ZonesAlone
<1>5. CASE x \in Requests /\ Backup(x)
  <2>1. /\ OneStep(x, "backup", "instAdmin") /\ UNCHANGED <<disk, stage>>
        /\ act'[x].oldZones = disk.zones
    BY <1>5, BackupStep
  <2>2. ZonesPhase(x)'
    BY <1>1, <1>2, <2>1 DEF ZonesPhase, OneStep, Goes
  <2> QED BY <2>2, ZonesAlone
<1>6. CASE x \in Requests /\ InstallAdmin(x)
  <2>1. /\ OneStep(x, "instAdmin", "instWebmail") /\ Keeps(x) /\ UNCHANGED stage
        /\ disk'.zones.admin = stage.zones.admin
    BY <1>6, InstallAdminStep
  <2>2. ZonesPhase(x)'
    BY <1>1, <1>2, <2>1 DEF ZonesPhase, OneStep, Goes, Keeps
  <2> QED BY <2>2, ZonesAlone
<1>7. CASE x \in Requests /\ InstallWebmail(x)
  <2>1. /\ OneStep(x, "instWebmail", "test") /\ Keeps(x)
        /\ disk'.zones.webmail = stage.zones.webmail /\ disk'.zones.admin = disk.zones.admin
    BY <1>7, InstallWebmailStep
  <2>2. ZonesPhase(x)'
    BY <1>1, <1>2, <2>1 DEF ZonesPhase, OneStep, Goes, Keeps
  <2> QED BY <2>2, ZonesAlone
<1>8. CASE Test(x)
  <2>1. /\ UNCHANGED disk /\ act'[x].oldZones = act[x].oldZones
        /\ \/ OneStep(x, "test", "answer") /\ act'[x].ok
           \/ OneStep(x, "test", "undo")
    BY <1>1, <1>8, TestStep
  <2>2. disk.zones \in Includes /\ act[x].zones \in Includes
    BY <1>1, <1>2 DEF Act, Disk
  <2>3. disk.zones = act[x].zones
    BY <1>1, <2>1, <2>2, SameParts DEF ZonesPhase, OneStep
  <2>4. ZonesPhase(x)'
    BY <1>1, <1>2, <2>1, <2>3 DEF ZonesPhase, OneStep, Goes
  <2> QED BY <2>4, ZonesAlone
<1>9. CASE x \in Requests /\ Undo(x)
  <2>1. OneStep(x, "undo", "answer") /\ Keeps(x) /\ disk'.zones = act[x].oldZones
    BY <1>1, <1>9, UndoStep
  <2>2. ZonesPhase(x)'
    BY <1>1, <1>2, <2>1 DEF ZonesPhase, OneStep, Goes, Keeps
  <2> QED BY <2>2, ZonesAlone
<1> QED BY <1>3, <1>4, <1>5, <1>6, <1>7, <1>8, <1>9 DEF ZonesStepOf

LEMMA ZonesStep ==
    ASSUME TypeOK, KindInv, AloneInv, ZonesInv, [Next]_vars
    PROVE  ZonesInv'
<1> SUFFICES ASSUME "zones" \notin torn' PROVE ZonesSound'
  BY DEF ZonesInv
<1>1. CASE Begins
  <2>1. PICK x \in Actors, kind \in Kinds, pc \in Pcs, zones \in Includes, pair \in Pairs :
           /\ Start(x, kind, pc, zones, pair) /\ torn \subseteq torn'
           /\ Busy(Class(kind)) # {} => Class(kind) \in torn'
           /\ kind = "zones" => pc = "stageFirst"
    BY <1>1, BeginStep
  <2>2. ZonesSound
    BY <2>1 DEF ZonesInv
  <2>3. /\ act[x].pc = "idle" /\ \A y \in Actors \ {x} : act'[y] = act[y]
        /\ act'[x].pc = pc /\ act'[x].kind = kind
        /\ UNCHANGED <<disk, stage, row>>
    BY <2>1, Starts
  <2>4. CASE kind # "zones"
    BY <2>2, <2>3, <2>4, ZonesFrame DEF Busy, Class
  <2>5. CASE kind = "zones"
    <3>1. Busy("zones") = {} /\ Busy("zones")' = {x}
      BY <2>1, <2>3, <2>5 DEF Class, Busy
    <3>2. ZonesPhase(x)'
      BY <2>1, <2>2, <2>3, <2>5, <3>1 DEF ZonesSound, ZonesPhase
    <3> QED BY <3>1, <3>2 DEF ZonesSound
  <2> QED BY <2>4, <2>5
<1>2. CASE GoesOnSteps
  <2>1. PICK x \in Actors :
           /\ Onward(x)
           /\ \/ x \in Busy("tls") /\ act[x].kind # "zones" /\ TlsStepOf(x)
              \/ x \in Busy("zones") /\ act[x].kind = "zones" /\ ZonesStepOf(x)
    BY <1>2, OnwardKinds
  <2>2. MovesOn(x) /\ Writes(x) /\ "zones" \notin torn
    BY <2>1 DEF Onward, Writes
  <2>3. ZonesSound
    BY <2>2 DEF ZonesInv
  <2>4. CASE x \in Busy("zones") /\ ZonesStepOf(x)
    BY <2>2, <2>3, <2>4, ZonesMoves
  <2>5. CASE act[x].kind # "zones"
    <3>1. /\ \A y \in Actors \ {x} : act'[y] = act[y]
          /\ x \notin Busy("zones") /\ x \notin Busy("zones")'
      BY <2>2, <2>5 DEF MovesOn, Busy, Class
    <3>2. disk'.zones = disk.zones /\ stage'.zones = stage.zones /\ row' = row
      BY <2>2, <2>5 DEF Writes, OfTls
    <3> QED BY <2>3, <3>1, <3>2, ZonesFrame
  <2> QED BY <2>1, <2>4, <2>5
<1>3. CASE Breaks
  <2>1. PICK r \in Requests :
           /\ \A y \in Actors \ {r} : act'[y] = act[y]
           /\ torn' = torn \cup {Class(act[r].kind)}
           /\ UNCHANGED <<disk, stage, row>>
           /\ act[r].pc # "idle"
           /\ act'[r] = Idle \/ act'[r].kind = act[r].kind
    BY <1>3, BreakStep
  <2>2. ZonesSound /\ r \notin Busy("zones") /\ r \notin Busy("zones")'
    BY <2>1, IdleFields DEF ZonesInv, Busy, Class
  <2> QED BY <2>1, <2>2, ZonesFrame
<1>4. CASE \E x \in Actors : Answer(x)
  <2>1. PICK x \in Actors : Answer(x)
    BY <1>4
  <2>2. /\ act[x].pc = "answer" /\ act'[x] = Idle /\ \A y \in Actors \ {x} : act'[y] = act[y]
        /\ UNCHANGED <<disk, stage>> /\ (torn' = torn \/ torn' = torn \ {"mode"})
        /\ \/ /\ x = Timer \/ ~act[x].ok \/ act[x].late
              /\ UNCHANGED row
           \/ /\ act[x].ok
              /\ act[x].kind = "zones" => row'.zones = act[x].zones
              /\ act[x].kind # "zones" => row'.zones = row.zones
    BY <2>1, AnswerStep
  <2>3. ZonesSound /\ "zones" \notin torn
    BY <2>2 DEF ZonesInv
  <2>4. CASE x \in Busy("zones")
    <3>1. ~act[x].late /\ act[x].kind = "zones" /\ ZonesPhase(x)
      BY <2>3, <2>4 DEF AloneInv, Busy, Class, ZonesSound
    <3>2. x # Timer
      BY <2>2, <3>1 DEF KindInv
    <3>3. Busy("zones")' = {}
      BY <2>2, <2>3, <2>4, IdleFields DEF Busy, AloneInv
    <3>4. disk.zones = row'.zones
      BY <2>2, <3>1, <3>2 DEF ZonesPhase
    <3> QED BY <2>2, <3>3, <3>4 DEF ZonesSound
  <2>5. CASE x \notin Busy("zones")
    <3>1. act[x].kind # "zones"
      BY <2>2, <2>5 DEF Busy, Class
    <3> QED BY <2>2, <2>3, <2>5, <3>1, IdleFields, ZonesFrame DEF Busy
  <2> QED BY <2>4, <2>5
<1>5. CASE UNCHANGED vars
  <2>1. ZonesSound
    BY <1>5 DEF vars, ZonesInv
  <2> QED BY <1>5, <2>1, ZonesFrame DEF vars
<1> QED BY <1>1, <1>2, <1>3, <1>4, <1>5, Steps

-----------------------------------------------------------------------------
(* What nginx enforces. *)

\* Where nothing is written and no helper was about to reload, nothing changes.
LEMMA EnforcedFrame ==
    ASSUME EnforcedInv, torn' \cap {"zones", "tls"} = {} => torn \cap {"zones", "tls"} = {},
           NEW x \in Actors, \A y \in Actors \ {x} : act'[y] = act[y],
           x \in Busy("zones") => act[x].pc \notin Loading,
           x \in Busy("tls") => act[x].pc \in Apart,
           disk'.zones = disk.zones, running' = running
    PROVE  EnforcedInv'
<1>1. ASSUME (\A y \in Busy("zones") : act[y].pc \notin Loading)'
      PROVE  \A y \in Busy("zones") : act[y].pc \notin Loading
  BY <1>1 DEF Busy
<1>2. ASSUME AtRest'
      PROVE  AtRest
  BY <1>2 DEF AtRest, Busy
<1> QED BY <1>1, <1>2 DEF EnforcedInv

\* A reload that goes through takes over the zones.
LEMMA EnforcedReload ==
    ASSUME TypeOK, disk' \in Disk, Loads(disk'), running' = Reloaded(disk')
    PROVE  EnforcedInv'
<1>1. running'.zones = disk'.zones
  BY ReloadedDisk
<1> QED BY <1>1 DEF EnforcedInv

LEMMA EnforcedStep ==
    ASSUME TypeOK, KindInv, AloneInv, TlsInv, EnforcedInv, TlsInv', [Next]_vars
    PROVE  EnforcedInv'
<1> SUFFICES ASSUME torn' \cap {"zones", "tls"} = {}, AtRest',
                    (\A y \in Busy("zones") : act[y].pc \notin Loading)'
             PROVE  EnforcedInv'
  BY DEF EnforcedInv
<1>1. CASE Begins
  <2>1. PICK x \in Actors, kind \in Kinds, pc \in Pcs, zones \in Includes, pair \in Pairs :
           Start(x, kind, pc, zones, pair) /\ torn \subseteq torn'
    BY <1>1, BeginStep
  <2>2. /\ act[x].pc = "idle" /\ \A y \in Actors \ {x} : act'[y] = act[y]
        /\ UNCHANGED <<disk, running>>
    BY <2>1, Starts
  <2> QED BY <2>1, <2>2, EnforcedFrame DEF Busy
<1>2. CASE GoesOnSteps
  <2>1. PICK x \in Actors :
           /\ Onward(x)
           /\ \/ x \in Busy("tls") /\ act[x].kind # "zones" /\ TlsStepOf(x)
              \/ x \in Busy("zones") /\ act[x].kind = "zones" /\ ZonesStepOf(x)
    BY <1>2, OnwardKinds
  <2>2. /\ MovesOn(x) /\ Writes(x) /\ torn \cap {"zones", "tls"} = {}
        /\ \A y \in Actors \ {x} : act'[y] = act[y]
    BY <2>1 DEF Onward, Writes, MovesOn
  <2>3. TlsSound
    BY <2>2 DEF TlsInv
  <2>4. CASE x \in Busy("zones") /\ act[x].kind = "zones" /\ ZonesStepOf(x)
    <3>1. x \in Busy("zones")' /\ x \notin Busy("tls")
      BY <2>2, <2>4 DEF Busy, Class, MovesOn
    <3>2. act'[x].pc \notin Loading
      BY <3>1
    <3>3. AtRest
      BY <2>2, <2>4 DEF AtRest, Busy, Class
    <3>4. Loads(disk')
      BY <2>2, <2>3, <2>4, <3>3, SameToNginx DEF TlsSound, Served, Writes, OfZones
    <3>5. CASE x \in Requests /\ (StageFirst(x) \/ StageSecond(x) \/ Backup(x))
      <4>1. UNCHANGED <<disk, running>> /\ act[x].pc \notin Loading
        BY <3>5 DEF StageFirst, StageSecond, Backup, Loading
      <4> QED BY <2>2, <3>1, <4>1, EnforcedFrame
    <3>6. ~(x \in Requests /\ (InstallAdmin(x) \/ InstallWebmail(x)))
      BY <3>2, InstallAdminStep, InstallWebmailStep DEF Loading, OneStep, Goes
    <3>7. CASE x \in Requests /\ Undo(x)
      BY <2>2, <3>4, <3>7, UndoStep, EnforcedReload DEF Writes
    <3>8. CASE Test(x)
      <4>1. UNCHANGED disk /\ running' = Reloaded(disk)
        BY <3>8, TestStep
      <4>2. running' = Reloaded(disk')
        BY <4>1 DEF Reloaded, Loads, Loaded, FilesOf
      <4> QED BY <2>2, <3>4, <4>2, EnforcedReload DEF Writes
    <3> QED BY <2>4, <3>5, <3>6, <3>7, <3>8 DEF ZonesStepOf
  <2>5. CASE x \in Busy("tls") /\ act[x].kind # "zones" /\ TlsStepOf(x)
    <3>1. /\ x \in Busy("tls")' /\ x \notin Busy("zones") /\ disk'.zones = disk.zones
          /\ disk' \in Disk
      BY <2>2, <2>5 DEF Busy, Class, MovesOn, Writes, OfTls
    <3>2. act'[x].pc \in Apart
      BY <3>1 DEF AtRest
    <3>3. CASE x \in Requests /\ (StageFirst(x) \/ StageSecond(x) \/ InstallCert(x) \/ Certbot(x))
      <4>1. running' = running /\ act[x].pc \in Apart
        BY <3>3 DEF StageFirst, StageSecond, InstallCert, Certbot, Apart
      <4> QED BY <2>2, <3>1, <4>1, EnforcedFrame
    <3>4. CASE HookCert(x)
      <4>1. running' = running /\ act[x].pc \in Apart
        BY <3>4 DEF HookCert, Apart
      <4> QED BY <2>2, <3>1, <4>1, EnforcedFrame
    <3>5. ~(x \in Requests /\ (InstallKey(x) \/ Shred(x)))
      BY <2>2, <2>3, <2>5, <3>2, TlsGoesThrough DEF Apart, InstallKey, Shred
    <3>6. ~HookKey(x) /\ ~LinkCert(x) /\ ~LinkKey(x)
      BY <2>1, <3>2, HookKeyStep, LinkCertStep, LinkKeyStep DEF Apart, OneStep, Goes
    <3>7. CASE Test(x) \/ (x \in Requests /\ Undo(x))
      <4>1. running' = Reloaded(disk')
        <5>1. CASE Test(x)
          <6>1. UNCHANGED disk /\ running' = Reloaded(disk)
            BY <5>1, TestStep
          <6> QED BY <6>1 DEF Reloaded, Loads, Loaded, FilesOf
        <5>2. CASE x \in Requests /\ Undo(x)
          BY <5>2, UndoStep
        <5> QED BY <3>7, <5>1, <5>2
      <4>2. Served'
        BY DEF TlsInv, TlsSound
      <4>3. Loads(disk')
        BY <4>2 DEF Served, Loads, FilesOf, Pair
      <4> QED BY <3>1, <4>1, <4>3, EnforcedReload
    <3> QED BY <2>5, <3>3, <3>4, <3>5, <3>6, <3>7 DEF TlsStepOf
  <2> QED BY <2>1, <2>4, <2>5
<1>3. CASE Breaks
  <2>1. PICK r \in Requests : torn' = torn \cup {Class(act[r].kind)}
    BY <1>3, BreakStep
  <2> QED BY <2>1 DEF Class
<1>4. CASE \E x \in Actors : Answer(x)
  <2>1. PICK x \in Actors : Answer(x)
    BY <1>4
  <2>2. /\ act[x].pc = "answer" /\ \A y \in Actors \ {x} : act'[y] = act[y]
        /\ UNCHANGED <<disk, running>> /\ (torn' = torn \/ torn' = torn \ {"mode"})
    BY <2>1, AnswerStep
  <2> QED BY <2>2, EnforcedFrame DEF Loading, Apart
<1>5. CASE UNCHANGED vars
  <2>1. Timer \in Actors
    BY DEF Actors
  <2>2. (\A y \in Busy("zones") : act[y].pc \notin Loading) /\ AtRest
    BY <1>5 DEF vars, Busy, AtRest
  <2> QED BY <1>5, <2>1, <2>2, EnforcedFrame DEF vars, AtRest
<1> QED BY <1>1, <1>2, <1>3, <1>4, <1>5, Steps

-----------------------------------------------------------------------------
(* The theorems. *)

LEMMA InitIInv == Init => IInv
<1> SUFFICES ASSUME Init PROVE IInv
  OBVIOUS
<1>1. /\ Unrestricted \in Includes /\ Pair("none") \in Files /\ Both("selfsigned") \in Links
      /\ Both("selfsigned").cert = "selfsigned" /\ Both("selfsigned").key = "selfsigned"
      /\ Pair("none").cert = "none" /\ Pair("none").key = "none"
      /\ "self" \in Pairs /\ "selfsigned" \in Modes
  BY Values DEF Modes
<1>2. \A x \in Actors : act[x] = Idle
  BY DEF Init
<1>3. Busy("zones") = {} /\ Busy("tls") = {}
  BY <1>2, IdleFields DEF Busy
<1>4. TypeOK
  BY <1>1, IdleFields, NginxAssumption DEF Init, TypeOK
<1>5. KindInv
  <2>1. Timer \in Actors
    BY DEF Actors
  <2> QED BY <1>2, <2>1, IdleFields DEF KindInv, PairOfKind
<1>6. AloneInv
  BY <1>3 DEF AloneInv
<1>7. TlsSound
  <2>1. disk.link.cert = "selfsigned" /\ disk.link.key = "selfsigned"
    BY <1>1 DEF Init
  <2>2. disk.certbot.cert = "none" /\ disk.certbot.key = "none"
    BY <1>1 DEF Init
  <2>3. running.pair = "self" /\ FilesOf(disk, disk.link.cert).cert = "self"
    BY <2>1, Values, FilesOfDisk DEF Init
  <2>4. Served
    BY <2>1, <2>3, LoadsAt DEF Served
  <2> QED BY <1>3, <2>2, <2>4 DEF TlsSound
<1>8. ModeSound
  BY <1>1, <1>3 DEF Init, ModeSound
<1>9. ZonesSound /\ EnforcedInv
  BY <1>3 DEF Init, ZonesSound, EnforcedInv
<1> QED BY <1>4, <1>5, <1>6, <1>7, <1>8, <1>9 DEF IInv, TlsInv, ModeInv, ZonesInv

LEMMA NextIInv == IInv /\ [Next]_vars => IInv'
<1> SUFFICES ASSUME IInv, [Next]_vars PROVE IInv'
  OBVIOUS
<1>1. TypeOK' /\ KindInv'
  BY TypeStep DEF IInv
<1>2. AloneInv'
  BY AloneStep DEF IInv
<1>3. TlsInv'
  BY TlsStep DEF IInv
<1>4. ModeInv' /\ ZonesInv'
  BY ModeStep, ZonesStep DEF IInv
<1>5. EnforcedInv'
  BY <1>3, EnforcedStep DEF IInv
<1> QED BY <1>1, <1>2, <1>3, <1>4, <1>5 DEF IInv

LEMMA Invariant == Spec => []IInv
BY InitIInv, NextIInv, PTL DEF Spec

\* Every variable has its type: the steps of requests, of the root helpers and of
\* the deploy hook only ever put on the disk what validate_and_stage, certbot or
\* the administrator named.
THEOREM TypeCorrect == Spec => []TypeOK
<1>1. IInv => TypeOK
  BY DEF IInv
<1> QED BY <1>1, Invariant, PTL

\* While no change of the certificate is under way nginx could be started with what
\* is on the disk, after any uploads, reverts, certificates issued and renewals, one
\* after the other, unless a refused upload had replaced the pair in use: apply-tls.sh
\* then leaves nginx broken, and "tls" is in torn (apply-tls.sh, certbot-acmedns.sh,
\* the deploy hook).
THEOREM StartsSafely == Spec => []StartsAgain
<1>1. IInv => StartsAgain
  BY DEF IInv, TlsInv, TlsSound, AtRest, Served, StartsAgain, Quiet
<1> QED BY <1>1, Invariant, PTL

\* What the panel shows is what nginx enforces: the zones of the database are those
\* of the include files and those of the last reload, and the mode shown is the one
\* whose files nginx serves, although both kinds of change share the disk and the
\* reload (settings_network.py, settings_tls.py, apply-network-access.sh,
\* apply-tls.sh).
THEOREM PanelIsTrue == Spec => []PanelAgrees
<1>1. IInv => ZonesAgree
  <2> SUFFICES ASSUME IInv, Quiet({"zones", "tls"}), torn \cap {"zones", "tls"} = {}
               PROVE  row.zones = disk.zones /\ row.zones = running.zones
    BY DEF ZonesAgree
  <2>1. Busy("zones") = {} /\ Busy("tls") = {}
    BY DEF Quiet
  <2>2. disk.zones = row.zones
    BY <2>1 DEF IInv, ZonesInv, ZonesSound
  <2>3. AtRest /\ \A x \in Busy("zones") : act[x].pc \notin Loading
    BY <2>1 DEF AtRest
  <2>4. running.zones = disk.zones
    BY <2>3 DEF IInv, EnforcedInv
  <2> QED BY <2>2, <2>4
<1>2. IInv => ModeAgrees
  <2> SUFFICES ASSUME IInv, Quiet({"tls"}), torn \cap {"tls", "mode"} = {}
               PROVE  /\ disk.link = Both(row.mode)
                      /\ running.pair = FilesOf(disk, row.mode).cert
    BY DEF ModeAgrees
  <2>1. Busy("tls") = {}
    BY DEF Quiet
  <2>2. Served
    BY <2>1 DEF IInv, TlsInv, TlsSound, AtRest
  <2>3. disk.link.cert = row.mode
    BY <2>1 DEF IInv, ModeInv, ModeSound
  <2>4. disk.link \in Links /\ row.mode \in Modes
    BY DEF IInv, TypeOK
  <2>5. disk.link = Both(row.mode)
    <3>1. disk.link.cert = row.mode /\ disk.link.key = row.mode
      BY <2>2, <2>3 DEF Served
    <3>2. /\ Both(row.mode) \in Links
          /\ Both(row.mode).cert = row.mode /\ Both(row.mode).key = row.mode
      BY <2>4, Values
    <3> QED BY <2>4, <3>1, <3>2, SameParts
  <2>6. running.pair = FilesOf(disk, disk.link.cert).cert
    BY <2>2 DEF Served
  <2> QED BY <2>3, <2>5, <2>6
<1>3. IInv => PanelAgrees
  BY <1>1, <1>2 DEF PanelAgrees
<1> QED BY <1>3, Invariant, PTL

=============================================================================
