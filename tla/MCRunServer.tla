---------------------------- MODULE MCRunServer ----------------------------
(* RunServer on an instance with one plain listener, for TLC. *)
EXTENDS RunServer

CONSTANTS s1

OneOwnStart == [s \in {s1} |-> OwnField]
=============================================================================
