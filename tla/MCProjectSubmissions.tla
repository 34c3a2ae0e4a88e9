------------------------ MODULE MCProjectSubmissions ------------------------
(* Constants for model checking ProjectSubmissions. *)
EXTENDS ProjectSubmissions

=============================================================================
