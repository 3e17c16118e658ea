----------------------------- MODULE MCSocketRef ----------------------------
(* Instances of SocketRef for TLC.                                         *)
EXTENDS SocketRef, TLC

CONSTANTS b1, b2, b3, b4, f1, f2, f3, loop, t2

SockSymmetry == Permutations({b1, b2, b3, b4}) \union Permutations({f1, f2, f3})
=============================================================================
