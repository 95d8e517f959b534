------------------------------ MODULE UdpQueue ------------------------------
(***************************************************************************)
(* The outgoing path of src/src/user_udp.c.  user_udp_send runs in the     *)
(* caller's context: it allocates a message, creates a new queue, stores   *)
(* it in the global udp_msgq and puts the message into the queue that      *)
(* udp_msgq holds by then.  udp_thread waits for a datagram, lets          *)
(* user_function_cmd_received answer it through user_udp_send, echoes it   *)
(* and then takes at most one message from udp_msgq to broadcast it.       *)
(*                                                                         *)
(* Message n of caller s is <<s, n>>, and so is the queue its call creates.*)
(***************************************************************************)
EXTENDS Naturals, Sequences, FiniteSets

CONSTANTS
    Senders,    \* the contexts that call user_udp_send
    Udp,        \* the one among them that is udp_thread
    Capacity,   \* messages a queue holds: hfmsgq_create(2, 256)
    MaxSends,   \* bound: calls of user_udp_send per sender
    MaxCalls,   \* bound: calls of user_udp_send of all senders
    Null        \* a NULL handle or pointer

ASSUME UdpAssumption      == Udp \in Senders
ASSUME CapacityAssumption == Capacity \in Nat \ {0}
ASSUME MaxSendsAssumption == MaxSends \in Nat /\ MaxCalls \in Nat

Msgs   == Senders \X (1..MaxSends)
Queues == Msgs
ASSUME NullAssumption == Null \notin Msgs

VARIABLES
    sends,      \* [Senders -> calls begun]
    spc,        \* where each sender is in user_udp_send
    hnd,        \* [Senders -> the handle hfmsgq_send was given]
    udp_msgq,   \* the global handle
    queue,      \* [Queues -> Seq(Msgs)]
    pkt,        \* a datagram waits in the socket
    upc,        \* where udp_thread is
    replies,    \* user_udp_send calls this command will still make
    uh,         \* the handle hfmsgq_recv was given
    got,        \* p_send_msg of udp_thread
    freed       \* messages given to hfmem_free

(***************************************************************************)
(* Histories, read by the properties only.                                 *)
(***************************************************************************)
VARIABLES accepted, delivered

sender == <<sends, spc, hnd>>
thread == <<pkt, upc, replies, uh, got, freed>>
vars   == <<sender, udp_msgq, queue, thread, accepted, delivered>>

Init ==
    /\ sends = [s \in Senders |-> 0]
    /\ spc   = [s \in Senders |-> "idle"]
    /\ hnd   = [s \in Senders |-> Null]
    /\ udp_msgq = Null
    /\ queue = [k \in Queues |-> <<>>]
    /\ pkt = FALSE /\ upc = "select" /\ replies = 0
    /\ uh = Null /\ got = Null /\ freed = {}
    /\ accepted = {}
    /\ delivered = [s \in Senders |-> <<>>]

Msg(s) == <<s, sends[s]>>   \* the message of the call in progress
Begun  == {m \in Msgs : m[2] <= sends[m[1]]}

HasRoom(h)    == h # Null /\ Len(queue[h]) < Capacity
HasMessage(h) == h # Null /\ queue[h] # <<>>

Step(s, from, to) == spc[s] = from /\ spc' = [spc EXCEPT ![s] = to]

-----------------------------------------------------------------------------
(***************************************************************************)
(* user_udp_send.                                                          *)
(***************************************************************************)

\* calloc and memcpy.  udp_thread calls only while it answers a command.
Call(s) ==
    /\ Step(s, "idle", "create")
    /\ sends[s] < MaxSends
    /\ sends' = [sends EXCEPT ![s] = @ + 1]
    /\ IF s = Udp THEN upc = "cmd" /\ replies > 0 /\ replies' = replies - 1
                  ELSE Cardinality(Begun) + replies < MaxCalls /\ UNCHANGED replies
    /\ UNCHANGED <<hnd, udp_msgq, queue, pkt, upc, uh, got, freed,
                   accepted, delivered>>

\* Mutant: the queue is created once.
CreateOnce(s, ok) ==
    /\ Step(s, "create", "fetch")
    /\ udp_msgq' = IF udp_msgq # Null THEN udp_msgq
                   ELSE IF ok THEN Msg(s) ELSE Null
    /\ UNCHANGED <<sends, hnd, queue, thread, accepted, delivered>>

\* hfmsgq_create, which fails (NULL) when the RAM is used up.
Create(s, ok) ==
    /\ Step(s, "create", "fetch")
    /\ udp_msgq' = IF ok THEN Msg(s) ELSE Null
    /\ UNCHANGED <<sends, hnd, queue, thread, accepted, delivered>>

\* The argument udp_msgq of hfmsgq_send is read: maybe another call's queue.
Fetch(s) ==
    /\ Step(s, "fetch", "put")
    /\ hnd' = [hnd EXCEPT ![s] = udp_msgq]
    /\ UNCHANGED <<sends, udp_msgq, queue, thread, accepted, delivered>>

\* Mutant: the wait for room is forgotten.
PutAlways(s) ==
    /\ Step(s, "put", "idle")
    /\ hnd[s] # Null
    /\ queue' = [queue EXCEPT ![hnd[s]] = Append(@, Msg(s))]
    /\ hnd' = [hnd EXCEPT ![s] = Null]
    /\ accepted' = accepted \cup {Msg(s)}
    /\ UNCHANGED <<sends, udp_msgq, thread, delivered>>

Put(s) ==
    /\ Step(s, "put", "idle")
    /\ HasRoom(hnd[s])
    /\ queue' = [queue EXCEPT ![hnd[s]] = Append(@, Msg(s))]
    /\ hnd' = [hnd EXCEPT ![s] = Null]
    /\ accepted' = accepted \cup {Msg(s)}
    /\ UNCHANGED <<sends, udp_msgq, thread, delivered>>

\* No queue, or no room within 10 ms: the message is only printed, and leaks.
PutFails(s) ==
    /\ Step(s, "put", "idle")
    /\ ~HasRoom(hnd[s])
    /\ hnd' = [hnd EXCEPT ![s] = Null]
    /\ UNCHANGED <<sends, udp_msgq, queue, thread, accepted, delivered>>

-----------------------------------------------------------------------------
(***************************************************************************)
(* udp_thread.                                                             *)
(***************************************************************************)
Packet ==
    /\ ~pkt
    /\ pkt' = TRUE
    /\ UNCHANGED <<sender, udp_msgq, queue, upc, replies, uh, got, freed,
                   accepted, delivered>>

\* select returns only for a datagram: no timeout is passed to it.  The
\* command may ask for a report and for an answer: up to two sends.
Select(n) ==
    /\ upc = "select" /\ pkt
    /\ sends[Udp] + n <= MaxSends
    /\ Cardinality(Begun) + n <= MaxCalls
    /\ pkt' = FALSE
    /\ upc' = "cmd"
    /\ replies' = n
    /\ UNCHANGED <<sender, udp_msgq, queue, uh, got, freed, accepted, delivered>>

\* Mutant: after the echo the loop goes on with the next datagram.
EchoContinues ==
    /\ upc = "cmd" /\ replies = 0 /\ spc[Udp] = "idle"
    /\ upc' = "select"
    /\ UNCHANGED <<sender, udp_msgq, queue, pkt, replies, uh, got, freed,
                   accepted, delivered>>

\* user_function_cmd_received returns, and the datagram is echoed.
Echo ==
    /\ upc = "cmd" /\ replies = 0 /\ spc[Udp] = "idle"
    /\ upc' = "fetch"
    /\ UNCHANGED <<sender, udp_msgq, queue, pkt, replies, uh, got, freed,
                   accepted, delivered>>

\* The argument udp_msgq of hfmsgq_recv is read.
FetchRecv ==
    /\ upc = "fetch"
    /\ uh' = udp_msgq
    /\ upc' = "recv"
    /\ UNCHANGED <<sender, udp_msgq, queue, pkt, replies, got, freed,
                   accepted, delivered>>

\* Mutant: the message is read but stays in the queue.
RecvPeek ==
    /\ upc = "recv" /\ HasMessage(uh)
    /\ got' = Head(queue[uh])
    /\ upc' = "send" /\ uh' = Null
    /\ UNCHANGED <<sender, udp_msgq, queue, pkt, replies, freed, accepted,
                   delivered>>

Recv ==
    /\ upc = "recv" /\ HasMessage(uh)
    /\ got' = Head(queue[uh])
    /\ queue' = [queue EXCEPT ![uh] = Tail(@)]
    /\ upc' = "send" /\ uh' = Null
    /\ UNCHANGED <<sender, udp_msgq, pkt, replies, freed, accepted, delivered>>

\* Nothing within 10 ms.
RecvTimeout ==
    /\ upc = "recv" /\ ~HasMessage(uh)
    /\ upc' = "select" /\ uh' = Null
    /\ UNCHANGED <<sender, udp_msgq, queue, pkt, replies, got, freed, accepted,
                   delivered>>

\* udp_msg_send broadcasts the message.
Broadcast ==
    /\ upc = "send"
    /\ delivered' = [delivered EXCEPT ![got[1]] = Append(@, got[2])]
    /\ upc' = "free"
    /\ UNCHANGED <<sender, udp_msgq, queue, pkt, replies, uh, got, freed, accepted>>

Free ==
    /\ upc = "free"
    /\ freed' = freed \cup {got}
    /\ got' = Null
    /\ upc' = "select"
    /\ UNCHANGED <<sender, udp_msgq, queue, pkt, replies, uh, accepted, delivered>>

-----------------------------------------------------------------------------
Sending(s) == \/ \E ok \in BOOLEAN : Create(s, ok)
              \/ Fetch(s) \/ Put(s) \/ PutFails(s)

UdpStep == \/ \E n \in 0..2 : Select(n)
           \/ Echo \/ FetchRecv \/ Recv \/ RecvTimeout \/ Broadcast \/ Free

Next == \/ \E s \in Senders : Call(s) \/ Sending(s)
        \/ UdpStep
        \/ Packet

\* Every context keeps running; nobody has to send a datagram.
Fairness == /\ WF_vars(UdpStep \/ Call(Udp))
            /\ \A s \in Senders : WF_vars(Sending(s))

Spec == Init /\ [][Next]_vars /\ Fairness

-----------------------------------------------------------------------------
(***************************************************************************)
(* Properties.                                                             *)
(***************************************************************************)
TypeOK ==
    /\ sends \in [Senders -> 0..MaxSends]
    /\ spc \in [Senders -> {"idle", "create", "fetch", "put"}]
    /\ hnd \in [Senders -> Queues \cup {Null}]
    /\ udp_msgq \in Queues \cup {Null} /\ uh \in Queues \cup {Null}
    /\ queue \in [Queues -> Seq(Msgs)]
    /\ \A k \in Queues : Len(queue[k]) <= Capacity
    /\ pkt \in BOOLEAN /\ replies \in 0..2
    /\ upc \in {"select", "cmd", "fetch", "recv", "send", "free"}
    /\ got \in Msgs \cup {Null}
    /\ freed \subseteq Msgs /\ accepted \subseteq Msgs
    /\ delivered \in [Senders -> Seq(1..MaxSends)]

FreedIsForgotten ==
    \A m \in freed :
        /\ m # got
        /\ \A s \in Senders : spc[s] # "idle" => Msg(s) # m
        /\ \A k \in Queues : \A i \in 1..Len(queue[k]) : queue[k][i] # m

HeldOnce ==
    \A k, l \in Queues : \A i \in 1..Len(queue[k]), j \in 1..Len(queue[l]) :
        /\ queue[k][i] = queue[l][j] => k = l /\ i = j
        /\ queue[k][i] # got

\* A message has one owner at a time: it waits in at most one slot of one
\* queue and not in udp_thread's hands as well, and once freed no pointer to
\* it is left, so that it is freed once, although calls and udp_thread hand
\* it over through queues that replace each other (user_udp.c:92-99, 158-168).
OneOwner == FreedIsForgotten /\ HeldOnce

\* What udp_thread broadcasts of its own is the last thing it sent: of a
\* report and an answer to one datagram the report never gets out, and the
\* answer to an earlier datagram never after that to a later one, also when
\* others replace the queue between the calls (user_udp.c:158, 92).
OwnAnswerIsLatest == upc = "send" /\ got[1] = Udp => got[2] = sends[Udp]

\* No queue ever holds two messages of one caller (user_udp.c:158): room is
\* missing only when more than Capacity calls overlap.
OnePerSender ==
    \A k \in Queues : \A i, j \in 1..Len(queue[k]) :
        queue[k][i][1] = queue[k][j][1] => i = j

\* user_udp_send is a lossy channel that neither invents, repeats nor, for
\* one caller, reorders messages (user_udp.c:92-98, 147-168).
Channel == INSTANCE LossyFifo WITH Senders   <- Senders,
                                  MaxSends  <- MaxSends,
                                  accepted  <- accepted,
                                  delivered <- delivered
IsLossyFifo == Channel!Spec

\* As long as datagrams keep coming, the queue of udp_msgq is empty again and
\* again: every message in it is taken, or loses its queue (user_udp.c:73, 92).
InCurrent(m) == udp_msgq # Null /\ \E i \in 1..Len(queue[udp_msgq]) :
                                       queue[udp_msgq][i] = m
ServedWhilePackets ==
    []<>(upc = "cmd") => []<>(\A m \in Msgs : ~InCurrent(m))

\* user_udp.c:89 says udp_thread receives the messages of the worker threads
\* "to be sent": an accepted message is broadcast.
AcceptedIsSent ==
    \A m \in Msgs :
        m \in accepted ~> \E i \in 1..Len(delivered[m[1]]) : delivered[m[1]][i] = m[2]
=============================================================================
