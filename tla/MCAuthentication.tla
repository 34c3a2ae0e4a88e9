-------------------------- MODULE MCAuthentication --------------------------
(* Constants for model checking Authentication. *)
EXTENDS Authentication

\* One request of each of two tabs.
TwoCalls == [c \in 1..2 |-> IF c = 2 THEN "B" ELSE "A"]

=============================================================================
