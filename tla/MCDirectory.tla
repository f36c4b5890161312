----------------------------- MODULE MCDirectory -----------------------------
(* Instances of Directory for TLC. *)
EXTENDS Directory, TLC

CONSTANTS s1, s2, n1, n2, u1, u2, p1, p2

OneUser == <<[src |-> s1, user |-> u1, ok |-> TRUE]>>
\* A row without a password and a complete one, in one domain.
Untidy == <<[src |-> s1, user |-> u2, ok |-> FALSE], [src |-> s1, user |-> u1, ok |-> TRUE]>>

Same == Permutations({p1, p2})
Symmetry == Permutations({p1, p2}) \cup Permutations({n1, n2})

=============================================================================
