------------------------ MODULE MCCertificateRequests ------------------------
(* Constants for model checking CertificateRequests. *)
EXTENDS CertificateRequests, TLC

CONSTANTS t1

AllOps == {"view", "list", "finish", "course", "project", "quiz", "resubmit",
           "approve", "reject", "revoke", "fail"}
DecisionOps == {"view", "list", "finish", "course", "resubmit", "approve", "reject", "revoke"}

OneTopic == {[topics |-> {t1}, hasProject |-> FALSE]}
\* With or without the topic, and with the topic and a project to hand in.
Small == {[topics |-> T, hasProject |-> FALSE] : T \in {{}, {t1}}}
            \cup {[topics |-> {t1}, hasProject |-> TRUE]}

Alike == Permutations(Handlers)

=============================================================================
