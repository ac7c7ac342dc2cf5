---------------------------- MODULE MCFixedPool ----------------------------
(* FixedPool on a pool of a few words.                                     *)
EXTENDS FixedPool
=============================================================================
