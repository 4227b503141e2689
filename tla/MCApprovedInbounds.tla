------------------------ MODULE MCApprovedInbounds ------------------------
(* Instances of ApprovedInbounds: a1 approves i2, v1 and v2 revoke, y1 syncs. *)
EXTENDS ApprovedInbounds

CONSTANTS i1, i2, a1, v1, v2, y1, k1, n1, e1, e2

MCAbout == [r \in Approvals \cup Revocations |-> IF r \in {a1, v2} THEN i2 ELSE i1]
MCKey == [s \in Renewals \cup Edits |-> k1]
=============================================================================
