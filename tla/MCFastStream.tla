----------------------------- MODULE MCFastStream -----------------------------
(* Model-checking instance of FastStream: chains of a few blocks, with and *)
(* without the parallel load.                                              *)
EXTENDS FastStream
===============================================================================
