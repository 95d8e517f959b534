----------------------------- MODULE LossyFifo ------------------------------
(***************************************************************************)
(* What user_udp_send promises its callers: messages may be lost, but none *)
(* is broadcast that was not accepted, none twice, and those of one caller *)
(* never overtake each other.  Message n of caller s is <<s, n>>.          *)
(***************************************************************************)
EXTENDS Naturals, Sequences

CONSTANTS Senders, MaxSends

VARIABLES
    accepted,   \* the messages hfmsgq_send took
    delivered   \* [Senders -> the numbers broadcast, in order]

Init == accepted = {} /\ delivered = [s \in Senders |-> <<>>]

Accept(s, n) ==
    /\ <<s, n>> \notin accepted
    /\ \A k \in 1..MaxSends : <<s, k>> \in accepted => k < n
    /\ accepted' = accepted \cup {<<s, n>>}
    /\ UNCHANGED delivered

Deliver(s, n) ==
    /\ <<s, n>> \in accepted
    /\ \A i \in 1..Len(delivered[s]) : delivered[s][i] < n
    /\ delivered' = [delivered EXCEPT ![s] = Append(@, n)]
    /\ UNCHANGED accepted

Next == \E s \in Senders, n \in 1..MaxSends : Accept(s, n) \/ Deliver(s, n)

Spec == Init /\ [][Next]_<<accepted, delivered>>
=============================================================================
