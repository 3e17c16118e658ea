---------------------------- MODULE MCEventTimer ----------------------------
(* Instances of EventTimer for TLC.                                        *)
EXTENDS EventTimer, TLC

CONSTANTS ta, tb
=============================================================================
