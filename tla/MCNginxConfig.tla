--------------------------- MODULE MCNginxConfig ---------------------------
(* Model-checking instance of NginxConfig. *)
EXTENDS NginxConfig, TLC

CONSTANTS r1, r2, z0, z1, good1, good2, bad

OneRequest == {r1}
TwoRequests == {r1, r2}
TwoZones == {z0, z1}
OneUpload == {good1, bad}
TwoUploads == {good1, good2, bad}
RefusedUpload == {bad}

Symmetry == Permutations(TwoRequests)
=============================================================================
