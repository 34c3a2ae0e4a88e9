----------------------------- MODULE MCQuizPage -----------------------------
(* Model checking of QuizPage: its constants are all given in the .cfg.    *)
EXTENDS QuizPage, TLC
=============================================================================
