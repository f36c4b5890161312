------------------------------ MODULE AuditLog ------------------------------
(***************************************************************************)
(* What the audit log promises (docs/technical/database-schema.md: "append-*)
(* only, hash-chaining"): a sequence of entries that only ever grows at its *)
(* end.                                                                    *)
(***************************************************************************)
EXTENDS Naturals, Sequences

CONSTANT Entries

VARIABLE log

Init == log = <<>>

\* A transaction adds its entries behind everything that is there.
Extend ==
    /\ log' \in Seq(Entries)
    /\ Len(log') > Len(log)
    /\ SubSeq(log', 1, Len(log)) = log

Spec == Init /\ [][Extend]_log
=============================================================================
