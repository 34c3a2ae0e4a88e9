------------------------- MODULE MCAttemptSessions -------------------------
(* Constants for model checking AttemptSessions. *)
EXTENDS AttemptSessions, TLC

AllOps == {"start", "resume", "list", "abandon", "save", "submit"}
AutosaveOps == {"start", "save"}
SubmitOps == {"start", "list", "abandon", "submit"}

\* No bounds; a window that opens at 1 and closes at 2.
TwoWindows == {[startsAt |-> 0, endsAt |-> NoEnd], [startsAt |-> 1, endsAt |-> 2]}
Unbounded == {[startsAt |-> 0, endsAt |-> NoEnd]}

Alike == Permutations(Sessions) \cup Permutations(Requests)

=============================================================================
