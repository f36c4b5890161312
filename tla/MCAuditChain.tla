---------------------------- MODULE MCAuditChain ----------------------------
(* Model-checking instance of AuditChain. *)
EXTENDS AuditChain

CONSTANTS s1, s2, s3

TwoSessions == {s1, s2}
ThreeSessions == {s1, s2, s3}
Async == {s2}
=============================================================================
