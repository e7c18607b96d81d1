----------------------------- MODULE MCLetters ------------------------------
(* Letters on small instances.                                             *)
EXTENDS Letters
=============================================================================
