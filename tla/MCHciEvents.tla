---------------------------- MODULE MCHciEvents ----------------------------
(* A small instance of HciEvents: two commands beside the calls that are     *)
(* special, so that the answer of one can be taken for that of the other.    *)
EXTENDS HciEvents

MCCommands == {"socket", "bind"}
=============================================================================
