------------------------ MODULE CertificateLifecycle ------------------------
(***************************************************************************)
(* The life of the certificate request of one learner for one course, the  *)
(* table of CERTIFICATE_APPROVAL.md: the states of the request, how it     *)
(* moves and what becomes of the certificate with each move.  A            *)
(* certificate from before requests existed counts as approved once a      *)
(* request is recorded for it.                                             *)
(***************************************************************************)

VARIABLES request,      \* the status of the request, "NONE" before there is one
          certificate   \* "none", "live" or "revoked"

vars == <<request, certificate>>

Init == request = "NONE" /\ certificate \in {"none", "live"}

Move(from, to) == request = from /\ request' = to

Ask      == Move("NONE", "PENDING") /\ certificate = "none" /\ UNCHANGED certificate
Adopt    == Move("NONE", "APPROVED") /\ certificate = "live" /\ UNCHANGED certificate
Hold     == Move("PENDING", "ON_HOLD") /\ UNCHANGED certificate
Resume   == Move("ON_HOLD", "PENDING") /\ UNCHANGED certificate
Reject   == Move("PENDING", "REJECTED") /\ UNCHANGED certificate
Resubmit == Move("REJECTED", "PENDING") /\ UNCHANGED certificate
Approve  == Move("PENDING", "APPROVED") /\ certificate = "none" /\ certificate' = "live"
Revoke   == Move("APPROVED", "REVOKED") /\ certificate' = "revoked"
Restore  == Move("REVOKED", "APPROVED") /\ certificate = "revoked" /\ certificate' = "live"

Next == \/ Ask \/ Adopt \/ Hold \/ Resume \/ Reject \/ Resubmit
        \/ Approve \/ Revoke \/ Restore

Spec == Init /\ [][Next]_vars

=============================================================================
