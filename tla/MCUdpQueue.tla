----------------------------- MODULE MCUdpQueue -----------------------------
(***************************************************************************)
(* UdpQueue with the contexts that call user_udp_send: udp_thread, the rtc *)
(* thread and the key's timer callback.                                    *)
(***************************************************************************)
EXTENDS UdpQueue

CONSTANTS udp, rtc, timer

MCAll == {udp, rtc, timer}
=============================================================================
