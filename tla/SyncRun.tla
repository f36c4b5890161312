------------------------------- MODULE SyncRun -------------------------------
(***************************************************************************)
(* The transfers of one mailbox: its settings, the options an              *)
(* administrator may add, the imapsync process a sync job starts and the   *)
(* row that reports it.  The handler reads everything it needs in one      *)
(* transaction, lets imapsync run for up to an hour without one, and       *)
(* reports in a second transaction; the settings and both mailboxes can    *)
(* change meanwhile, and the worker can stop at any point.                 *)
(*                                                                         *)
(* What the code promises of all this is that it never touches the source  *)
(* and deletes at the destination only when that was confirmed, whatever   *)
(* options were typed, and that it copies what there is to copy.           *)
(*                                                                         *)
(* Abstractions: an option is its name; of the allowed ones with a value   *)
(* and those without there is one each; imapsync is external and handles a *)
(* message at a time.  The queue's own rules are those of JobQueue.        *)
(***************************************************************************)
EXTENDS Naturals, Sequences, FiniteSets

CONSTANTS
    Msgs,        \* messages of the mailbox
    Texts,       \* what an administrator types: sequences of tokens
    Excluded,    \* messages that --exclude leaves out
    Old,         \* messages older than days_back
    MaxAttempts, \* starts of a job after which a failed one is given up
    MaxFailures, \* bound: runs of imapsync that end with an error or are killed, and
                 \* transactions of the worker that fail
    MaxCrashes,  \* bound: stops of the worker
    MaxEdits     \* bound: changes of the settings

\* A word of a command line after shlex.split: an option, with the value after
\* "=" if it has one, or some other word.
Options == {"exclude", "addheader", "delete1", "delete2", "unknown"}
Token == [option : Options \cup {"word"}, inline : Options \cup {"word", "none"}]

ASSUME SyncRunAssumption ==
    /\ IsFiniteSet(Msgs) /\ Excluded \subseteq Msgs /\ Old \subseteq Msgs
    /\ Texts \subseteq Seq(Token) /\ <<>> \in Texts
    /\ MaxAttempts \in Nat /\ MaxFailures \in Nat /\ MaxCrashes \in Nat /\ MaxEdits \in Nat

VARIABLES
    src,       \* messages of the source mailbox
    dst,       \* messages of the mailbox on VM2
    job,       \* the SyncJob row and the ImapsyncConfig text
    queue,     \* sync jobs of the mailbox that wait, by kind, and those that retry
    run,       \* the sync job the worker holds
    last,      \* the newest JobRun with status success: its totals
    failures, crashes, edits

vars == <<src, dst, job, queue, run, last, failures, crashes, edits>>
mailboxes == <<src, dst>>
bounds == <<failures, crashes, edits>>

-----------------------------------------------------------------------------
(* Options typed by an administrator: imapsync_flags *)

Allowed == {"exclude", "addheader"}
TakesValue == {"exclude"}
Dangerous == {"delete1", "delete2"}
Plain(o) == [option |-> o, inline |-> "none"]

RejectedByName(t) == t.option \in {"word", "delete1"} \* mistake: delete2 not listed, no allowlist
Rejected(t) ==
    \/ t.option = "word"                             \* does not begin with "--"
    \/ t.option \in Dangerous
    \/ t.option \notin Allowed
    \/ t.option \notin TakesValue /\ t.inline # "none"

\* The value of an option that takes one comes after "=", or is the next token,
\* whatever that looks like.
Separate(t) == t.option \in TakesValue /\ t.inline = "none"
Words(text, i) ==
    LET flag == Plain(text[i].option)
    IN  IF text[i].option \notin TakesValue THEN <<flag>>
        ELSE <<flag, IF Separate(text[i]) THEN text[i + 1] ELSE Plain(text[i].inline)>>

\* validate_custom_flags: the arguments for imapsync, or an error.
Parsed(text) ==
    LET n == Len(text)
        parse[i \in 1..(n + 2)] ==
            IF i > n THEN [ok |-> TRUE, argv |-> <<>>]
            ELSE LET rest == parse[IF Separate(text[i]) THEN i + 2 ELSE i + 1]
                 IN  IF Rejected(text[i]) \/ (Separate(text[i]) /\ i = n) \/ ~rest.ok
                     THEN [ok |-> FALSE, argv |-> <<>>]
                     ELSE [ok |-> TRUE, argv |-> Words(text, i) \o rest.argv]
    IN  parse[1]
Valid(text) == Parsed(text).ok

\* The options imapsync reads in a list of arguments: it pairs them with their
\* values again.  External.
Read(argv) ==
    LET n == Len(argv)
        read[i \in 1..(n + 2)] ==
            IF i > n THEN {}
            ELSE {argv[i].option} \cup read[IF argv[i].option \in TakesValue THEN i + 2 ELSE i + 1]
    IN  read[1]

-----------------------------------------------------------------------------
(* The command line: imapsync_runner.build_argv *)

\* The scan of every argument, values included, before the process starts.
Forbidden(argv) == \E i \in DOMAIN argv : argv[i].option = "delete1"

\* Global options come first, then those of the mailbox.
Extra(j) == Parsed(j.global).argv \o Parsed(j.text).argv
Startable(j) == Valid(j.global) /\ Valid(j.text) /\ ~Forbidden(Extra(j))

Flags(j, mode) ==
    Read(Extra(j)) \cup (IF j.delete THEN {"delete2"} ELSE {})
                   \cup (IF j.days THEN {"maxage"} ELSE {})
                   \cup (IF mode = "assess" THEN {"dry"} ELSE {})

\* The messages of the source imapsync looks at.  External.
Selected(flags, ms) == ms \ ((IF "exclude" \in flags THEN Excluded ELSE {})
                             \cup (IF "maxage" \in flags THEN Old ELSE {}))

-----------------------------------------------------------------------------
\* job: delete_on_dest_when_missing_from_source and whether that was confirmed
\* when it was set, days_back > 0, is_enabled, custom_flags of the mailbox and of
\* ImapsyncConfig.
Job == [delete : BOOLEAN, confirmed : BOOLEAN, days : BOOLEAN, enabled : BOOLEAN,
        text : Texts, global : Texts]
Modes == {"assess", "sync"}

\* pc: "read" the settings are read next, "start" the process starts next, "proc" it
\* runs, "report" the second transaction is next, "done" the handler has returned,
\* "raised" it has raised an exception.  job: the settings read; flags:
\* what the process was told; listed: the source as it lists it; ok: its exit code is 0.
Run == [pc : {"idle", "read", "start", "proc", "report", "done", "raised"}, mode : Modes, job : Job,
        flags : SUBSET (Options \cup {"maxage", "dry"}), listed : SUBSET Msgs,
        ok : BOOLEAN, total : 0..Cardinality(Msgs)]

NewJob == [delete |-> FALSE, confirmed |-> FALSE, days |-> TRUE, enabled |-> TRUE,
           text |-> <<>>, global |-> <<>>]
NoRun == [pc |-> "idle", mode |-> "sync", job |-> NewJob, flags |-> {}, listed |-> {},
          ok |-> FALSE, total |-> 0]
Held(pc, mode) == [NoRun EXCEPT !.pc = pc, !.mode = mode]

\* A mailbox as the provision handler leaves it: an inventory is queued, and the
\* scheduler may have queued a transfer before (it does not ask whether the mailbox
\* is provisioned).
Init ==
    /\ src \in SUBSET Msgs
    /\ dst = {}
    /\ job = NewJob
    /\ queue \in {{"assess"}, {"assess", "sync"}}
    /\ run = NoRun
    /\ last = [total |-> 0, drift |-> 0]
    /\ failures = 0 /\ crashes = 0 /\ edits = 0

-----------------------------------------------------------------------------
(* People and time *)

SourceChanges ==
    /\ \E m \in Msgs : src' = (IF m \in src THEN src \ {m} ELSE src \cup {m})
    /\ UNCHANGED <<dst, job, queue, run, last, bounds>>

\* Mail that VM2 has and the source never had: drafts and sent mail of the webmail.
LocalMail ==
    /\ \E m \in Msgs \ (src \cup dst) : dst' = dst \cup {m}
    /\ UNCHANGED <<src, job, queue, run, last, bounds>>

Edit(j) == edits < MaxEdits /\ edits' = edits + 1 /\ job' = j
           /\ UNCHANGED <<mailboxes, queue, run, last, failures, crashes>>

\* bulk_sync_config: nothing is saved when deletion is asked for without the phrase.
PhraseIgnored(delete, phrase) == TRUE                \* mistake: the phrase not compared
PhraseGiven(delete, phrase) == delete => phrase

BulkConfig(delete, phrase, days, enabled) ==
    /\ PhraseGiven(delete, phrase)
    /\ Edit([job EXCEPT !.delete = delete, !.confirmed = delete /\ phrase,
                        !.days = days, !.enabled = enabled])

\* update_custom_flags and save_imapsync save a text only when it parses.
CustomFlags(text) == Valid(text) /\ Edit([job EXCEPT !.text = text])
SaveImapsync(text) == Valid(text) /\ Edit([job EXCEPT !.global = text])

WaitingForEver == queue # {} \/ run.pc # "idle" \/ crashes > 0  \* mistake: a crashed run counts
\* A job that retries counts as one that waits.
Waiting == queue # {} \/ run.pc # "idle"

\* run_once of the scheduler, and sync_now: at most one job of the mailbox waits.
Enqueue(asked) ==
    /\ ~Waiting
    /\ asked \/ job.enabled
    /\ queue' = {"sync"}
    /\ UNCHANGED <<mailboxes, job, run, last, bounds>>

-----------------------------------------------------------------------------
(* sync_job_handler.handle *)

Claim ==
    /\ run.pc = "idle"
    /\ \E mode \in queue \cap Modes :
         /\ run' = Held("read", mode)
         /\ queue' = queue \ {mode}
    /\ UNCHANGED <<mailboxes, job, last, bounds>>

\* First transaction: the settings, and the total of the last successful run.  A
\* mailbox whose synchronisation is off has no run.
ReadSettings ==
    /\ run.pc = "read"
    /\ run' = IF job.enabled THEN [run EXCEPT !.pc = "start", !.job = job]
              ELSE Held("done", run.mode)
    /\ UNCHANGED <<mailboxes, job, queue, last, bounds>>

\* The options are checked once more; what they do not pass fails the run.
Start ==
    /\ run.pc = "start"
    /\ run' = IF Startable(run.job)
              THEN LET flags == Flags(run.job, run.mode)
                   IN  [run EXCEPT !.pc = "proc", !.flags = flags, !.listed = Selected(flags, src)]
              ELSE [run EXCEPT !.pc = "report"]
    /\ UNCHANGED <<mailboxes, job, queue, last, bounds>>

\* imapsync, a message at a time.  External.
Working == run.pc = "proc" /\ "dry" \notin run.flags

Copy ==
    /\ Working
    /\ \E m \in (run.listed \cap src) \ dst :
         /\ dst' = dst \cup {m}
         /\ src' = IF "delete1" \in run.flags THEN src \ {m} ELSE src
    /\ UNCHANGED <<job, queue, run, last, bounds>>

Purge ==
    /\ Working /\ "delete2" \in run.flags
    /\ \E m \in Selected(run.flags, dst) \ run.listed : dst' = dst \ {m}
    /\ UNCHANGED <<src, job, queue, run, last, bounds>>

\* Exit code 0, once what was listed and is still there has been copied (an inventory
\* copies nothing).  "all N identified messages in host1 are on host2" is the only
\* line messages_total is taken from: 0 when the log has none.
Exit ==
    /\ run.pc = "proc"
    /\ "dry" \in run.flags \/ (run.listed \cap src) \subseteq dst
    /\ run' = [run EXCEPT !.pc = "report", !.ok = TRUE,
                 !.total = IF run.listed \subseteq dst THEN Cardinality(run.listed) ELSE 0]
    /\ UNCHANGED <<mailboxes, job, queue, last, bounds>>

\* Another exit code, or killed after an hour.
Fail ==
    /\ run.pc = "proc"
    /\ failures < MaxFailures
    /\ failures' = failures + 1
    /\ run' = [run EXCEPT !.pc = "report"]
    /\ UNCHANGED <<mailboxes, job, queue, last, crashes, edits>>

\* max(0, previous total - total), and 0 when deletion is on.
DriftUnbounded(delete, before, total) == IF delete THEN 0 ELSE before - total  \* mistake: no max
Drift(delete, before, total) == IF delete \/ total > before THEN 0 ELSE before - total

\* Second transaction.  Only successful runs count afterwards.
Report ==
    /\ run.pc = "report"
    /\ run' = Held("done", run.mode)
    /\ last' = IF ~run.ok THEN last
               ELSE [total |-> run.total, drift |-> Drift(run.job.delete, last.total, run.total)]
    /\ UNCHANGED <<mailboxes, job, queue, bounds>>

\* A transaction fails: one of the handler, or that of _finish_job, which is tried
\* once more as that of a job that failed.
Raise ==
    /\ run.pc \in {"read", "report", "done"}
    /\ failures < MaxFailures
    /\ failures' = failures + 1
    /\ run' = Held("raised", run.mode)
    /\ UNCHANGED <<mailboxes, job, queue, last, crashes, edits>>

\* _finish_job.  Nothing ever starts a row that is "retrying" again: it is given up
\* only at its last attempt, and a start after a stop of the worker is an attempt.
Finish ==
    /\ run.pc \in {"done", "raised"}
    /\ queue' \in IF run.pc = "done" THEN {queue}
                  ELSE {queue \cup {"retrying"}} \cup {q \in {queue} : crashes + 1 >= MaxAttempts}
    /\ run' = NoRun
    /\ UNCHANGED <<mailboxes, job, last, bounds>>

\* The worker stops and takes imapsync with it; on its return the job waits again
\* and the run row is marked failed.
Crash ==
    /\ run.pc # "idle"
    /\ crashes < MaxCrashes
    /\ crashes' = crashes + 1
    /\ queue' = queue \cup {run.mode}
    /\ run' = NoRun
    /\ UNCHANGED <<mailboxes, job, last, failures, edits>>

-----------------------------------------------------------------------------
Handler == Claim \/ ReadSettings \/ Start \/ Copy \/ Exit \/ Report \/ Finish

Next ==
    \/ SourceChanges \/ LocalMail
    \/ \E delete, phrase, days, enabled \in BOOLEAN : BulkConfig(delete, phrase, days, enabled)
    \/ \E text \in Texts : CustomFlags(text) \/ SaveImapsync(text)
    \/ \E asked \in BOOLEAN : Enqueue(asked)
    \/ Handler \/ Purge \/ Fail \/ Raise \/ Crash

Spec == Init /\ [][Next]_vars

\* The worker takes waiting jobs and imapsync ends within the hour; the scheduler's
\* timer fires.
Fairness == WF_vars(Claim) /\ WF_vars(ReadSettings) /\ WF_vars(Start) /\ WF_vars(Copy \/ Exit)
            /\ WF_vars(Report) /\ WF_vars(Finish) /\ WF_vars(Enqueue(FALSE))
FairSpec == Spec /\ Fairness

-----------------------------------------------------------------------------
(* Properties *)

Totals == 0..Cardinality(Msgs)

\* Every variable has its type: in particular the drift that is shown is a number of
\* messages, never negative.
TypeOK ==
    /\ src \subseteq Msgs /\ dst \subseteq Msgs
    /\ job \in Job /\ queue \subseteq Modes \cup {"retrying"} /\ run \in Run
    /\ last \in [total : Totals, drift : Totals]
    /\ failures \in 0..MaxFailures /\ crashes \in 0..MaxCrashes /\ edits \in 0..MaxEdits

\* "Can the synchronisation delete anything on the source server?  No."  And nothing
\* leaves the destination except through a transfer that read the deletion as set
\* with the phrase of confirmation: neither an inventory nor any option an
\* administrator gets past validate_custom_flags removes a message, whatever the
\* settings become while the transfer runs.
SyncsAreSafe ==
    [][/\ src' # src => SourceChanges
       /\ ~(dst \subseteq dst') => run.pc = "proc" /\ run.mode = "sync" /\ run.job.confirmed]_vars

Copyable(m) == m \in src /\ job.enabled /\ Startable(job) /\ m \in Selected(Flags(job, "sync"), src)

\* A message that stays in the source and within the settings reaches the
\* destination and stays there, although the first run after provisioning copies
\* nothing, and runs fail, are killed or die with the worker half-way; unless a
\* transaction of a run failed, whose job retries for ever and keeps others away.
GetsCopied ==
    \A m \in Msgs : <>[]Copyable(m) => <>[](m \in dst) \/ <>("retrying" \in queue)

-----------------------------------------------------------------------------
(* What the documentation says and this does not keep *)

\* The drift is "messages kept on the destination although they disappeared from the
\* source" (docs/user/monitoring-sync.md, docs/user/faq.md): what was counted once
\* is no longer counted after the next success, with the messages still kept.
KeptStaysCounted == [][last.drift > 0 /\ last'.drift = 0 => dst \subseteq src]_vars

\* "As long as missing = 0, everything is synchronised" (docs/user/faq.md): what
\* imapsync counts, and copies before it succeeds, is what days_back and --exclude
\* leave of the source.
SuccessIsComplete == [][Exit /\ run.mode = "sync" => src \subseteq dst]_vars

\* An option text that was accepted does not fail the runs it is meant for: a value
\* that looks like a forbidden option is one to build_argv's last scan.
AcceptedStarts == Startable(job)

=============================================================================
