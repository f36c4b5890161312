----------------------------- MODULE WorkQueue -----------------------------
(***************************************************************************)
(* What a table of jobs drained by one worker promises to those who submit *)
(* to it: every job waits in the queue until the worker takes it, the      *)
(* worker has at most one job in its hands and ends it before it takes     *)
(* another, a crash loses the hands but not the job, and a job that may be *)
(* started only once (a system update) is never queued again.              *)
(***************************************************************************)
EXTENDS Naturals

CONSTANT Ids

VARIABLES
    state,  \* of each job, "none" before it is submitted
    once,   \* the jobs that may be started only once
    held    \* the job in the worker's hands, or none

States == {"none", "queued", "running", "retrying", "done", "failed", "gone"}

In(s) == {i \in Ids : state[i] = s}
Become(S, s) == state' = [i \in Ids |-> IF i \in S THEN s ELSE state[i]]

Init ==
    /\ state = [i \in Ids |-> "none"]
    /\ once = {}
    /\ held = {}

\* One transaction submits any number of jobs; the worker does not notice.
Submit(new) ==
    /\ Become(new, "queued")
    /\ once' \in {once, once \cup new}
    /\ UNCHANGED held

\* A worker with empty hands, and nothing left over from another, takes a job.
Take(i) ==
    /\ held = {}
    /\ In("running") = {}
    /\ Become({i}, "running")
    /\ held' = {i}
    /\ UNCHANGED once

\* The job in hand ends; what may be started only once is not tried again.
End(i, s) ==
    /\ held = {i}
    /\ s = "retrying" => i \notin once
    /\ Become(held \cap In("running"), s)
    /\ held' = {}
    /\ UNCHANGED once

\* Jobs are withdrawn, the one in hand too, in whatever state they are.
Withdraw(old) ==
    /\ Become(old, "gone")
    /\ UNCHANGED <<once, held>>

\* The worker dies: its job stays where it is.
Drop == held' = {} /\ UNCHANGED <<state, once>>

\* A new worker returns to the queue what the last one had begun.
Resume ==
    /\ held = {}
    /\ state' = [i \in Ids |-> IF state[i] # "running" THEN state[i]
                               ELSE IF i \in once THEN "failed" ELSE "queued"]
    /\ UNCHANGED <<once, held>>

Next ==
    \/ \E new \in SUBSET In("none") : Submit(new)
    \/ \E i \in In("queued") : Take(i)
    \/ \E i \in held, s \in {"done", "failed", "retrying"} : End(i, s)
    \/ \E old \in SUBSET (Ids \ (In("none") \cup once)) : Withdraw(old)
    \/ Drop
    \/ Resume

Spec == Init /\ [][Next]_<<state, once, held>>
=============================================================================
