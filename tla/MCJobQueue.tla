----------------------------- MODULE MCJobQueue -----------------------------
(* Model-checking instance of JobQueue. *)
EXTENDS JobQueue, TLC

CONSTANTS m1, m2, p1, p2

TwoMailboxes == {m1, m2}
OneRequest == {p1}
TwoRequests == {p1, p2}

OneMailbox == {m1}

Symmetry == Permutations(TwoMailboxes)
=============================================================================
