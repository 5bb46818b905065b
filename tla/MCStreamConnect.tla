-------------------------- MODULE MCStreamConnect --------------------------
(***************************************************************************)
(* StreamConnect for TLC.  The application's stream objects are            *)
(* interchangeable, and so are the routing clients: Init, Next and the     *)
(* invariants treat them alike.                                            *)
(***************************************************************************)
EXTENDS StreamConnect, TLC

Symmetry == Permutations(Users) \cup Permutations(Clients)
=============================================================================
