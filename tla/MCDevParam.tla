----------------------------- MODULE MCDevParam -----------------------------
(***************************************************************************)
(* DevParam with bytes 0 to 2 and texts of up to three of them, the last   *)
(* length being refused.                                                   *)
(***************************************************************************)
EXTENDS DevParam
=============================================================================
