--------------------------- MODULE MCSystemUpdate ---------------------------
(* Model-checking instance of SystemUpdate. *)
EXTENDS SystemUpdate, TLC

CONSTANTS p1, p2

OnePanel == {p1}
TwoPanels == {p1, p2}
Vm1 == {"vm1"}
BothVms == {"vm1", "vm2"}
Webmail == {"vm1", "webmail"}
Alike == Permutations({p1, p2})
=============================================================================
