----------------------------- MODULE MCKeyScan ------------------------------
(***************************************************************************)
(* KeyScan with thresholds in the firmware's order, closer together; the   *)
(* firmware's own are 2, 20, 180, 190, 203, 204 and 189.                   *)
(***************************************************************************)
EXTENDS KeyScan
=============================================================================
