------------------------------- MODULE MCBoot -------------------------------
(***************************************************************************)
(* Boot with two plugs and a table of four entries for the three pages.    *)
(***************************************************************************)
EXTENDS Boot
=============================================================================
