--------------------------- MODULE MCTopicProgress ---------------------------
(* Constants for model checking TopicProgress. *)
EXTENDS TopicProgress

CONSTANTS q1, q2

AllOps == {"attempt", "session", "view", "sync", "create", "delete", "move", "fail"}

\* A topic of one quiz or two; the second may be added, moved out and in.
OneHere == {[q \in Quizzes |-> IF q = q1 THEN "here" ELSE p] : p \in {"none", "here"}}

=============================================================================
