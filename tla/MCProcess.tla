------------------------------ MODULE MCProcess ------------------------------
(***************************************************************************)
(* Values for the constants of Process: a main thread and another one.     *)
(***************************************************************************)
EXTENDS Process

TwoThreads == {"main", "other"}

=============================================================================
