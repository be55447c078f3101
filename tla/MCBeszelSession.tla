-------------------------- MODULE MCBeszelSession --------------------------
(***************************************************************************)
(* Checking BeszelSession: the requests are interchangeable.               *)
(***************************************************************************)
EXTENDS BeszelSession, TLC

MCSymmetry == Permutations(Requests)
=============================================================================
