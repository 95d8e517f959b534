------------------------------ MODULE Exchange ------------------------------
(***************************************************************************)
(* udp_thread as a whole: UdpQueue composed with Command.  A datagram is a *)
(* command, handled inside the loop of udp_thread; the report and the      *)
(* answer it sends are the calls of user_udp_send that udp_thread makes,   *)
(* and the handler stands still until such a call returns.  Meanwhile the  *)
(* other contexts send, switch relays and disarm tasks.                    *)
(***************************************************************************)
EXTENDS Integers, Sequences

CONSTANTS Senders, Udp, Capacity, MaxSends, MaxCalls, Null      \* UdpQueue
CONSTANTS NSettings, NPlugs, NSlots, Texts, Plain, Numbers,     \* Command
          Levels, Lost, Absent, Bad, Commands

VARIABLES sends, spc, hnd, udp_msgq, queue, pkt, upc, replies, uh, got, freed,
          accepted, delivered
VARIABLES u_config, pc, x, j, cmd, answer, before, touched, again, sent

(***************************************************************************)
(* Histories, read by the properties only.                                 *)
(***************************************************************************)
VARIABLES
    letters,    \* what each message of udp_thread says
    since       \* cells other contexts wrote since the last command for us

Q == INSTANCE UdpQueue
C == INSTANCE Command

\* What the two parts assume of their constants.
ASSUME PartsAssumption ==
    /\ Q!UdpAssumption /\ Q!CapacityAssumption /\ Q!MaxSendsAssumption
    /\ Q!NullAssumption
    /\ C!SizesAssumption /\ C!CommandsAssumption

queueVars   == <<sends, spc, hnd, udp_msgq, queue, pkt, upc, replies, uh, got,
                 freed, accepted, delivered>>
commandVars == <<u_config, pc, x, j, cmd, answer, before, touched, again, sent>>
vars        == <<queueVars, commandVars, letters, since>>

Init == Q!Init /\ C!Init /\ letters = <<>> /\ since = {}

ReportText == C!Empty   \* a device report tells of no cell

-----------------------------------------------------------------------------
(***************************************************************************)
(* udp_thread: a command from select to echo.                              *)
(***************************************************************************)

\* How often the command m calls user_udp_send.
Replies(m) == (IF m.report THEN 1 ELSE 0) + (IF C!Addressed(m) THEN 1 ELSE 0)

Arrive(m) ==
    /\ Q!Select(Replies(m)) /\ C!Receive(m)
    /\ since' = IF C!Addressed(m) THEN {} ELSE since
    /\ UNCHANGED letters

\* A step of the handler that sends nothing.
Handle ==
    /\ upc = "cmd" /\ spc[Udp] = "idle"
    /\ \/ C!Dispatch \/ C!DoSettings
       \/ C!PlugOn \/ C!PlugName \/ C!PlugTask \/ C!PlugAnswer
    /\ UNCHANGED <<queueVars, letters, since>>

\* Mutant: the report is built, and not sent.
ReportUnsent ==
    /\ C!Report
    /\ UNCHANGED <<queueVars, letters, since>>

\* The handler calls user_udp_send with the report, and with the answer.
SendReport ==
    /\ C!Report /\ Q!Call(Udp)
    /\ letters' = Append(letters, ReportText)
    /\ UNCHANGED since

SendAnswer ==
    /\ C!Send /\ Q!Call(Udp)
    /\ letters' = Append(letters, answer)
    /\ UNCHANGED since

\* The handler returns; the datagram is echoed.
Return ==
    /\ pc = "idle" /\ Q!Echo
    /\ UNCHANGED <<commandVars, letters, since>>

\* The rest of the loop, and of a call of user_udp_send in progress.
Loop ==
    /\ \/ Q!FetchRecv \/ Q!Recv \/ Q!RecvTimeout \/ Q!Broadcast \/ Q!Free
       \/ Q!Sending(Udp)
    /\ UNCHANGED <<commandVars, letters, since>>

-----------------------------------------------------------------------------
(***************************************************************************)
(* The other contexts, and the network.                                    *)
(***************************************************************************)
OthersSend ==
    /\ \/ \E s \in Senders \ {Udp} : Q!Call(s) \/ Q!Sending(s)
       \/ Q!Packet
    /\ UNCHANGED <<commandVars, letters, since>>

OthersWrite ==
    /\ \/ \E i \in C!Plugs, y \in Levels : C!SetRelay(i, y)
       \/ \E c \in C!Tasks : C!Disarm(c)
    /\ since' = since \cup touched'
    /\ UNCHANGED <<queueVars, letters>>

Next == \/ \E m \in Commands : Arrive(m)
        \/ Handle \/ SendReport \/ SendAnswer \/ Return
        \/ Loop
        \/ OthersSend \/ OthersWrite

Spec == Init /\ [][Next]_vars

-----------------------------------------------------------------------------
(***************************************************************************)
(* Properties.                                                             *)
(***************************************************************************)

\* How many calls of user_udp_send the handler has still to make.
Owed == CASE pc = "report" -> Replies(cmd)
          [] pc = "idle"   -> 0
          [] OTHER         -> IF C!Addressed(cmd) THEN 1 ELSE 0

\* The two halves agree: the loop waits for exactly the sends the handler has
\* still to make (user_function.c:60, 175), and what it sent is written down.
TypeOK ==
    /\ replies = Owed /\ (pc # "idle" => upc = "cmd")
    /\ Len(letters) = sends[Udp]
    /\ touched \subseteq since \cup C!Ons \cup C!Tasks /\ since \subseteq C!Cells

\* Whoever hears an answer on the network hears what holds at this moment:
\* an answer that was overtaken by a later command, or waited in a queue
\* while others replaced it, is never broadcast; only what other contexts
\* wrote since the last command for this device may differ, and lost bytes may
\* be anything (user_udp.c:92-96, 158; user_function.c:243-316).
BroadcastIsTrue ==
    upc = "send" /\ got[1] = Udp =>
        \A c \in C!Cells \ since :
            u_config[c] # Lost => letters[got[2]][c] \in {Absent, u_config[c]}
=============================================================================
