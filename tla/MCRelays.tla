------------------------------ MODULE MCRelays ------------------------------
(***************************************************************************)
(* Relays on two plugs with the udp and rtc threads, the httpd thread, the *)
(* key interrupt and the timer.                                            *)
(***************************************************************************)
EXTENDS Relays, TLC

CONSTANTS udp, rtc, httpd

MCLow  == {udp, rtc}
MCUdp  == {udp}
MCMid  == {httpd}
MCNone == {}
\* off and a number the JSON command may carry that is neither 0 nor 1
MCVals == {0, 2}
MCBits == {0, 1}
Sym    == Permutations(MCLow)
=============================================================================
