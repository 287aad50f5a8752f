------------------------------ MODULE MCAttach ------------------------------
(* Small instances of Attach. *)
EXTENDS Attach, TLC
=============================================================================
