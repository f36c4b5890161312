--------------------------- MODULE MCProvisioning ---------------------------
(* Model-checking instance of Provisioning. *)
EXTENDS Provisioning, TLC

CONSTANTS p1, p2, a, b

TwoPasswords == {a, b}
OneRequest == {p1}
TwoRequests == {p1, p2}

\* Sound for the safety runs: passwords and requests are interchangeable.
Alike == Permutations({a, b}) \cup Permutations({p1, p2})
AlikePasswords == Permutations({a, b})
=============================================================================
