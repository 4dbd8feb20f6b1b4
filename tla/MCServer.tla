------------------------------- MODULE MCServer -------------------------------
(***************************************************************************)
(* Server for TLC.  Sockets are interchangeable.                           *)
(***************************************************************************)
EXTENDS Server

SocketSymmetry == Permutations(Sockets)
=============================================================================
