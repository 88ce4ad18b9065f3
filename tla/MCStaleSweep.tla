---------------------------- MODULE MCStaleSweep ----------------------------
(* Instances of StaleSweep for TLC.                                        *)
EXTENDS StaleSweep, TLC

CONSTANTS a, b
=============================================================================
