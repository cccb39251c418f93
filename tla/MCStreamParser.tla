---------------------------- MODULE MCStreamParser ----------------------------
(* Model-checking instance of StreamParser. *)
EXTENDS StreamParser
===============================================================================
