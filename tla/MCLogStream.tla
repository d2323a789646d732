----------------------------- MODULE MCLogStream -----------------------------
(***************************************************************************)
(* A small instance of LogStream for TLC.                                  *)
(***************************************************************************)
EXTENDS LogStream

CONSTANTS a, b

TwoStreams == {a, b}
=============================================================================
