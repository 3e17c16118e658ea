---------------------------- MODULE MCConnStream ----------------------------
(* Instances of ConnStream for TLC.                                        *)
EXTENDS ConnStream

\* One PDU of a header only, one that fits the kernel buffer and one that does
\* not.
MixedSize == <<2, 3, 5, 2, 4>>
=============================================================================
