------------------------------- MODULE MCRing -------------------------------
(* Instances of ShmRing for TLC: the constants are given in the .cfg files. *)
EXTENDS ShmRing
=============================================================================
