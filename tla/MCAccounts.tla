----------------------------- MODULE MCAccounts -----------------------------
(* Model-checking instance of Accounts. *)
EXTENDS Accounts, TLC

CONSTANTS u1, u2, b1, b2, c1, c2

TwoUsers == {u1, u2}
TwoBrowsers == {b1, b2}
TwoCodes == {c1, c2}
Alike == Permutations(TwoUsers) \cup Permutations(TwoBrowsers) \cup Permutations(TwoCodes)
=============================================================================
