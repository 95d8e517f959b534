--------------------------- MODULE ExchangeProofs ---------------------------
(***************************************************************************)
(* Proofs about Exchange, composed like the system itself: what is proved  *)
(* of UdpQueue and of Command holds of the whole, and gives that what is   *)
(* broadcast as an answer is true when it is broadcast.                    *)
(***************************************************************************)
EXTENDS Exchange, TLAPS

QP == INSTANCE UdpQueueProofs
CP == INSTANCE CommandProofs

-----------------------------------------------------------------------------
(***************************************************************************)
(* The inductive invariant.                                                *)
(***************************************************************************)

\* What a message may tell of a cell.
Words   == (UNION {C!Values(c, 0..255) : c \in C!Cells}) \cup {Lost, Absent}
Letters == [C!Cells -> Words]

\* The last message of udp_thread is true but for what others wrote.
LastIsTrue ==
    letters # <<>> =>
        \A c \in C!Cells \ since :
            u_config[c] # Lost => letters[Len(letters)][c] \in {Absent, u_config[c]}

\* While a command for this device is carried out, it may be false; nobody
\* can hear it then.
LettersInv ==
    /\ letters \in Seq(Letters) /\ answer \in Letters
    /\ touched \subseteq since
    /\ pc = "idle" \/ ~C!Addressed(cmd) => LastIsTrue

IInv == QP!IInv /\ CP!IInv /\ TypeOK /\ LettersInv

-----------------------------------------------------------------------------
(***************************************************************************)
(* The parts, as this module and as the proofs about them name them.       *)
(***************************************************************************)

\* Cells, and what is written into them.
LEMMA CommandTerms ==
    /\ C!Plugs = CP!Plugs /\ C!Slots = CP!Slots
    /\ C!Settings = CP!Settings /\ C!Ons = CP!Ons /\ C!Names = CP!Names
    /\ C!Tasks = CP!Tasks /\ C!Cells = CP!Cells
    /\ C!Empty = CP!Empty /\ C!NoCmd = CP!NoCmd /\ C!Default = CP!Default
    /\ \A m : C!Addressed(m) = CP!Addressed(m)
    /\ \A c, v : C!Stored(c, v) = CP!Stored(c, v)
    /\ \A c, n : C!Values(c, n) = CP!Values(c, n)
<1>1. C!Plugs = CP!Plugs /\ C!Slots = CP!Slots
  BY DEF C!Plugs, CP!Plugs, C!Slots, CP!Slots
<1>2. C!Settings = CP!Settings /\ C!Ons = CP!Ons /\ C!Names = CP!Names
      /\ C!Tasks = CP!Tasks
  BY <1>1 DEF C!Settings, CP!Settings, C!Ons, CP!Ons, C!Names, CP!Names, C!Tasks, CP!Tasks
<1>3. C!Cells = CP!Cells
  BY <1>2 DEF C!Cells, CP!Cells
<1>4. C!Empty = CP!Empty /\ C!NoCmd = CP!NoCmd
  BY <1>3 DEF C!Empty, CP!Empty, C!NoCmd, CP!NoCmd
<1>5. C!Default = CP!Default
  BY <1>2, <1>3 DEF C!Default, CP!Default, C!Port, CP!Port, C!Fields, CP!Fields
<1>6. \A m : C!Addressed(m) = CP!Addressed(m)
  BY DEF C!Addressed, CP!Addressed
<1>7. \A c, v : C!Stored(c, v) = CP!Stored(c, v)
  BY <1>2 DEF C!Stored, CP!Stored, C!Byte, CP!Byte, C!Fields, CP!Fields
<1>8. \A c, n : C!Values(c, n) = CP!Values(c, n)
  BY <1>2 DEF C!Values, CP!Values, C!Task, CP!Task, C!Port, CP!Port, C!Fields,
     CP!Fields
<1> QED
  BY <1>1, <1>2, <1>3, <1>4, <1>5, <1>6, <1>7, <1>8

\* Command's actions.
LEMMA CommandActions ==
    /\ \A m : C!Receive(m) => CP!Receive(m)
    /\ C!Report => CP!Report
    /\ C!Dispatch => CP!Dispatch
    /\ C!DoSettings => CP!DoSettings
    /\ C!PlugOn => CP!PlugOn
    /\ C!PlugName => CP!PlugName
    /\ C!PlugTask => CP!PlugTask
    /\ C!PlugAnswer => CP!PlugAnswer
    /\ C!Send => CP!Send
    /\ \A i, y : C!SetRelay(i, y) => CP!SetRelay(i, y)
    /\ \A c : C!Disarm(c) => CP!Disarm(c)
<1>1. \A S : C!Write(S) = CP!Write(S)
  BY DEF C!Write, CP!Write, C!Wild, CP!Wild, C!Written, CP!Written, C!Stored, CP!Stored,
     C!Byte, CP!Byte, C!Fields, CP!Fields, C!Place, CP!Place, C!Places, CP!Places,
     C!Port, CP!Port, C!Cells, CP!Cells, C!Settings, CP!Settings, C!Ons, CP!Ons,
     C!Names, CP!Names, C!Tasks, CP!Tasks, C!Plugs, CP!Plugs, C!Slots, CP!Slots
<1>2. \A S : C!Collect(S) = CP!Collect(S)
  BY CommandTerms DEF C!Collect, CP!Collect, C!Asked, CP!Asked
<1>3. C!aux = CP!aux /\ C!where = CP!where
  BY DEF C!aux, CP!aux, C!where, CP!where
<1>a. \A c : C!Wild(c) <=> CP!Wild(c)
  BY CommandTerms DEF C!Wild, CP!Wild, C!Written, CP!Written, C!Port, CP!Port
<1>4. \A m : C!Receive(m) => CP!Receive(m)
  BY CommandTerms, <1>a DEF C!Receive, CP!Receive
<1>5. C!Report => CP!Report
  BY DEF C!Report, CP!Report
<1>6. C!Dispatch => CP!Dispatch
  BY CommandTerms, <1>3 DEF C!Dispatch, CP!Dispatch, C!aux, CP!aux
<1>7. C!DoSettings => CP!DoSettings
  BY CommandTerms, <1>1, <1>2 DEF C!DoSettings, CP!DoSettings, C!aux, CP!aux
<1>8. C!PlugOn => CP!PlugOn
  BY CommandTerms, <1>1, <1>2 DEF C!PlugOn, CP!PlugOn, C!aux, CP!aux
<1>9. C!PlugName => CP!PlugName
  BY CommandTerms, <1>1, <1>2 DEF C!PlugName, CP!PlugName, C!aux, CP!aux
<1>10. C!PlugTask => CP!PlugTask
  BY CommandTerms, <1>1, <1>2 DEF C!PlugTask, CP!PlugTask, C!aux, CP!aux
<1>11. C!PlugAnswer => CP!PlugAnswer
  BY DEF C!PlugAnswer, CP!PlugAnswer, C!aux, CP!aux
<1>12. C!Send => CP!Send
  BY DEF C!Send, CP!Send
<1>13. \A i, y : C!SetRelay(i, y) => CP!SetRelay(i, y)
  BY DEF C!SetRelay, CP!SetRelay, C!where, CP!where
<1>14. \A c : C!Disarm(c) => CP!Disarm(c)
  BY DEF C!Disarm, CP!Disarm, C!where, CP!where
<1> QED
  BY <1>4, <1>5, <1>6, <1>7, <1>8, <1>9, <1>10, <1>11, <1>12, <1>13, <1>14

\* The actions of UdpQueue.
LEMMA QueueActions ==
    /\ \A s : Q!Call(s) => QP!Call(s)
    /\ \A s : Q!Sending(s) => QP!Sending(s)
    /\ \A n : Q!Select(n) => QP!Select(n)
    /\ Q!Packet => QP!Packet
    /\ Q!Echo => QP!Echo
    /\ Q!FetchRecv => QP!FetchRecv
    /\ Q!Recv => QP!Recv
    /\ Q!RecvTimeout => QP!RecvTimeout
    /\ Q!Broadcast => QP!Broadcast
    /\ Q!Free => QP!Free
<1>1. Q!Begun = QP!Begun /\ \A S : Q!Cardinality(S) = QP!Cardinality(S)
  BY DEF Q!Begun, QP!Begun, Q!Msgs, QP!Msgs, Q!Cardinality, QP!Cardinality
<1>2. \A s : Q!Msg(s) = QP!Msg(s)
  BY DEF Q!Msg, QP!Msg
<1>3. \A h : Q!HasRoom(h) = QP!HasRoom(h) /\ Q!HasMessage(h) = QP!HasMessage(h)
  BY DEF Q!HasRoom, QP!HasRoom, Q!HasMessage, QP!HasMessage
<1>4. \A s, from, to : Q!Step(s, from, to) = QP!Step(s, from, to)
  BY DEF Q!Step, QP!Step
<1>5. \A s : Q!Call(s) => QP!Call(s)
  BY <1>1, <1>4 DEF Q!Call, QP!Call
<1>6. \A s : Q!Sending(s) => QP!Sending(s)
  <2> SUFFICES ASSUME NEW s, Q!Sending(s)
               PROVE  QP!Sending(s)
    OBVIOUS
  <2>1. ASSUME NEW ok \in BOOLEAN, Q!Create(s, ok)
        PROVE  QP!Create(s, ok)
    BY <2>1, <1>2, <1>4 DEF Q!Create, QP!Create, Q!thread, QP!thread
  <2>2. Q!Fetch(s) => QP!Fetch(s)
    BY <1>4 DEF Q!Fetch, QP!Fetch, Q!thread, QP!thread
  <2>3. Q!Put(s) => QP!Put(s)
    BY <1>2, <1>3, <1>4 DEF Q!Put, QP!Put, Q!thread, QP!thread
  <2>4. Q!PutFails(s) => QP!PutFails(s)
    BY <1>3, <1>4 DEF Q!PutFails, QP!PutFails, Q!thread, QP!thread
  <2> QED
    BY <2>1, <2>2, <2>3, <2>4 DEF Q!Sending, QP!Sending
<1>7. \A n : Q!Select(n) => QP!Select(n)
  BY <1>1 DEF Q!Select, QP!Select, Q!sender, QP!sender
<1>8. Q!Packet => QP!Packet
  BY DEF Q!Packet, QP!Packet, Q!sender, QP!sender
<1>9. Q!Echo => QP!Echo
  BY DEF Q!Echo, QP!Echo, Q!sender, QP!sender
<1>10. Q!FetchRecv => QP!FetchRecv
  BY DEF Q!FetchRecv, QP!FetchRecv, Q!sender, QP!sender
<1>11. Q!Recv => QP!Recv
  BY <1>3 DEF Q!Recv, QP!Recv, Q!sender, QP!sender
<1>12. Q!RecvTimeout => QP!RecvTimeout
  BY <1>3 DEF Q!RecvTimeout, QP!RecvTimeout, Q!sender, QP!sender
<1>13. Q!Broadcast => QP!Broadcast
  BY DEF Q!Broadcast, QP!Broadcast, Q!sender, QP!sender
<1>14. Q!Free => QP!Free
  BY DEF Q!Free, QP!Free, Q!sender, QP!sender
<1> QED
  BY <1>5, <1>6, <1>7, <1>8, <1>9, <1>10, <1>11, <1>12, <1>13, <1>14

-----------------------------------------------------------------------------
(***************************************************************************)
(* Every step of the whole is a step of each part, or none.                *)
(***************************************************************************)

\* A command asks for a report, an answer, both or nothing.
LEMMA RepliesType == \A m : Replies(m) \in 0..2
  BY DEF Replies

\* A step that leaves a part's variables alone.
LEMMA PartsStutter ==
    /\ UNCHANGED queueVars => UNCHANGED QP!vars
    /\ UNCHANGED commandVars => UNCHANGED CP!vars
<1>1. UNCHANGED queueVars => UNCHANGED QP!vars
  BY DEF queueVars, QP!vars, QP!sender, QP!thread
<1>2. UNCHANGED commandVars => UNCHANGED CP!vars
  BY DEF commandVars, CP!vars, CP!where, CP!aux
<1> QED
  BY <1>1, <1>2

\* What happens to the queues is a step of UdpQueue.
LEMMA QueueStep == [Next]_vars => [QP!Next]_(QP!vars)
<1> SUFFICES ASSUME [Next]_vars
             PROVE  QP!Next \/ UNCHANGED QP!vars
  OBVIOUS
<1>1. ASSUME NEW m \in Commands, Arrive(m)
      PROVE  QP!Next
  <2>1. QP!Select(Replies(m)) /\ Replies(m) \in 0..2
    BY <1>1, QueueActions, RepliesType DEF Arrive
  <2> QED
    BY <2>1 DEF QP!Next, QP!UdpStep
<1>2. CASE Handle
  BY <1>2, PartsStutter DEF Handle
<1>3. CASE SendReport \/ SendAnswer
  <2>1. QP!Call(Udp) /\ Udp \in Senders
    BY <1>3, QueueActions, PartsAssumption DEF SendReport, SendAnswer
  <2> QED
    BY <2>1 DEF QP!Next
<1>4. CASE Return
  BY <1>4, QueueActions DEF Return, QP!Next, QP!UdpStep
<1>5. CASE Loop
  <2>1. Udp \in Senders
    BY PartsAssumption
  <2>2. CASE Q!Sending(Udp)
    BY <2>1, <2>2, QueueActions DEF QP!Next
  <2>3. CASE Q!FetchRecv \/ Q!Recv \/ Q!RecvTimeout \/ Q!Broadcast \/ Q!Free
    BY <2>3, QueueActions DEF QP!Next, QP!UdpStep
  <2> QED
    BY <1>5, <2>2, <2>3 DEF Loop
<1>6. CASE OthersSend
  <2>1. ASSUME NEW s \in Senders \ {Udp}, Q!Call(s) \/ Q!Sending(s)
        PROVE  QP!Next
    <3>1. s \in Senders /\ (QP!Call(s) \/ QP!Sending(s))
      BY <2>1, QueueActions
    <3> QED
      BY <3>1 DEF QP!Next
  <2>2. CASE Q!Packet
    BY <2>2, QueueActions DEF QP!Next
  <2> QED
    BY <1>6, <2>1, <2>2 DEF OthersSend
<1>7. CASE OthersWrite
  BY <1>7, PartsStutter DEF OthersWrite
<1>8. CASE UNCHANGED vars
  BY <1>8, PartsStutter DEF vars
<1> QED
  BY <1>1, <1>2, <1>3, <1>4, <1>5, <1>6, <1>7, <1>8 DEF Next

\* What happens to the command is a step of Command.
LEMMA CommandStep == [Next]_vars => [CP!Next]_(CP!vars)
<1> SUFFICES ASSUME [Next]_vars
             PROVE  CP!Next \/ UNCHANGED CP!vars
  OBVIOUS
<1>1. ASSUME NEW m \in Commands, Arrive(m)
      PROVE  CP!Next
  BY <1>1, CommandActions DEF Arrive, CP!Next
<1>2. CASE Handle
  <2>1. \/ CP!Dispatch \/ CP!DoSettings \/ CP!PlugOn \/ CP!PlugName \/ CP!PlugTask
        \/ CP!PlugAnswer
    BY <1>2, CommandActions DEF Handle
  <2> QED
    BY <2>1 DEF CP!Next, CP!Handler
<1>3. CASE SendReport \/ SendAnswer
  BY <1>3, CommandActions DEF SendReport, SendAnswer, CP!Next, CP!Handler
<1>4. CASE Return \/ Loop \/ OthersSend
  BY <1>4, PartsStutter DEF Return, Loop, OthersSend
<1>5. CASE OthersWrite
  <2>1. ASSUME NEW i \in C!Plugs, NEW y \in Levels, C!SetRelay(i, y)
        PROVE  CP!Next
    <3>1. i \in CP!Plugs /\ CP!SetRelay(i, y)
      BY <2>1, CommandTerms, CommandActions
    <3> QED
      BY <3>1 DEF CP!Next
  <2>2. ASSUME NEW c \in C!Tasks, C!Disarm(c)
        PROVE  CP!Next
    <3>1. c \in CP!Tasks /\ CP!Disarm(c)
      BY <2>2, CommandTerms, CommandActions
    <3> QED
      BY <3>1 DEF CP!Next
  <2> QED
    BY <1>5, <2>1, <2>2 DEF OthersWrite
<1>6. CASE UNCHANGED vars
  BY <1>6, PartsStutter DEF vars
<1> QED
  BY <1>1, <1>2, <1>3, <1>4, <1>5, <1>6 DEF Next

\* What the proofs about UdpQueue assume.
LEMMA QueueAssumptions ==
    /\ Udp \in Senders /\ Capacity \in Nat \ {0} /\ MaxSends \in Nat /\ MaxCalls \in Nat
    /\ Null \notin QP!Msgs
  BY PartsAssumption DEF Q!Msgs, QP!Msgs

\* What the proofs about Command assume.
LEMMA CommandAssumptions ==
    /\ /\ NSettings \in Nat /\ NPlugs \in Nat \ {0} /\ NSlots \in Nat \ {0}
       /\ Numbers \subseteq Int /\ Plain \subseteq Texts /\ Plain # {}
       /\ Levels \subseteq 0..255
    /\ \A m \in Commands :
          /\ {m.report, m.name, m.mac} \subseteq BOOLEAN
          /\ DOMAIN m.ask = CP!Cells
          /\ \A c \in CP!Cells :
                m.ask[c] \in {Absent, Bad} \/ m.ask[c] \in CP!Values(c, Numbers)
  BY PartsAssumption, CommandTerms

\* So the parts keep what was proved of them.
LEMMA PartsKeep == QP!IInv /\ CP!IInv /\ [Next]_vars => QP!IInv' /\ CP!IInv'
<1>1. QP!IInv /\ [QP!Next]_(QP!vars) => QP!IInv'
  BY QP!NextInv, QueueAssumptions
<1>2. CP!IInv /\ [CP!Next]_(CP!vars) => CP!IInv'
  BY CP!NextInv, CommandAssumptions
<1> QED
  BY <1>1, <1>2, QueueStep, CommandStep

\* The whole begins where its parts begin.
LEMMA PartsBegin == Init => QP!Init /\ CP!Init
<1> SUFFICES ASSUME Init
             PROVE  QP!Init /\ CP!Init
  OBVIOUS
<1>1. QP!Init
  BY DEF Init, Q!Init, QP!Init, Q!Queues, QP!Queues, Q!Msgs, QP!Msgs
<1>2. CP!Init
  BY CommandTerms DEF Init, C!Init, CP!Init
<1> QED
  BY <1>1, <1>2

\* They begin with what was proved of them.
LEMMA PartsInit == Init => QP!IInv /\ CP!IInv
  BY PartsBegin, QP!InitInv, QueueAssumptions, CP!InitInv, CommandAssumptions

-----------------------------------------------------------------------------
(***************************************************************************)
(* Every step keeps what the whole knows of its parts.                     *)
(***************************************************************************)

\* What an answer may tell.
LEMMA AnswerType ==
  ASSUME CP!TypeOK, NEW a, a = [c \in C!Cells |-> a[c]],
         \A c \in C!Cells : a[c] = answer[c] \/ a[c] \in Words
  PROVE  a \in Letters
<1>1. \A c \in C!Cells : answer[c] \in {Lost, Absent} \/ answer[c] \in C!Values(c, 0..255)
  BY CommandTerms DEF CP!TypeOK
<1>2. \A c \in C!Cells : a[c] \in Words
  BY <1>1 DEF Words
<1> QED
  BY <1>2 DEF Letters

\* An empty report tells nothing.
LEMMA EmptyType == C!Empty \in Letters /\ \A c \in C!Cells : C!Empty[c] = Absent
  BY DEF C!Empty, Letters, Words

\* A message that is sent is the last one.
LEMMA AppendFacts ==
  ASSUME letters \in Seq(Letters), NEW w \in Letters, letters' = Append(letters, w)
  PROVE  /\ letters' \in Seq(Letters) /\ Len(letters') = Len(letters) + 1
         /\ letters'[Len(letters')] = w
  OBVIOUS

\* A command for this device or none.
LEMMA AddressedType ==
  ASSUME CP!TypeOK
  PROVE  C!Addressed(cmd) \in BOOLEAN /\ cmd.report \in BOOLEAN
<1>1. CASE cmd \in Commands
  BY <1>1, CommandAssumptions DEF C!Addressed
<1>2. CASE cmd = C!NoCmd
  BY <1>2 DEF C!Addressed, C!NoCmd
<1> QED
  BY <1>1, <1>2, CommandTerms DEF CP!TypeOK

\* At the start udp_thread has said nothing.
LEMMA InitInv == Init => IInv
<1> SUFFICES ASSUME Init
             PROVE  IInv
  OBVIOUS
<1>1. QP!IInv /\ CP!IInv
  BY PartsInit
<1>2. TypeOK
  <2>1. replies = 0 /\ sends[Udp] = 0 /\ letters = <<>>
    BY QueueAssumptions DEF Init, Q!Init
  <2>2. pc = "idle" /\ touched = {} /\ since = {}
    BY DEF Init, C!Init
  <2> QED
    BY <2>1, <2>2 DEF TypeOK, Owed
<1>3. LettersInv
  BY EmptyType DEF Init, C!Init, LettersInv, LastIsTrue
<1> QED
  BY <1>1, <1>2, <1>3 DEF IInv

\* Arrive: what was said before is as true as it was, unless the command is
\* for this device.
LEMMA ArriveKeeps ==
  ASSUME NEW m \in Commands, IInv, Arrive(m), CP!IInv'
  PROVE  TypeOK' /\ LettersInv'
<1>0. TypeOK /\ LettersInv
  BY DEF IInv
<1>a. /\ upc' = "cmd" /\ replies' = Replies(m) /\ sends' = sends
  BY DEF Arrive, Q!Select, Q!sender
<1>b. /\ pc = "idle" /\ cmd' = m /\ pc' = (IF m.report THEN "report" ELSE "dispatch")
      /\ answer' = C!Empty /\ touched' = {} /\ u_config' = u_config
  BY DEF Arrive, C!Receive
<1>c. since' = (IF C!Addressed(m) THEN {} ELSE since) /\ letters' = letters
  BY DEF Arrive
<1>1. TypeOK'
  <2>1. replies' = Owed'
    <3>1. CASE m.report
      BY <1>a, <1>b, <3>1 DEF Owed
    <3>2. CASE ~m.report
      <4>1. Replies(m) = IF C!Addressed(m) THEN 1 ELSE 0
        BY <3>2 DEF Replies
      <4> QED
        BY <1>a, <1>b, <3>2, <4>1 DEF Owed
    <3> QED
      BY <3>1, <3>2
  <2> QED
    BY <1>0, <1>a, <1>b, <1>c, <2>1 DEF TypeOK
<1>2. LettersInv'
  <2>1. pc' # "idle"
    BY <1>b
  <2>2. ~C!Addressed(m) => LastIsTrue'
    BY <1>0, <1>b, <1>c DEF LettersInv, LastIsTrue
  <2> QED
    BY <1>0, <1>b, <1>c, <2>1, <2>2, EmptyType DEF LettersInv, C!Addressed
<1> QED
  BY <1>1, <1>2

\* Handle: the handler goes on, and nobody hears anything.
LEMMA HandleKeeps ==
  ASSUME IInv, Handle, CP!IInv'
  PROVE  TypeOK' /\ LettersInv'
<1>0. TypeOK /\ LettersInv /\ CP!TypeOK /\ CP!PlaceInv /\ CP!TypeOK'
  BY DEF IInv, CP!IInv
<1>a. /\ upc = "cmd" /\ upc' = upc /\ replies' = replies /\ sends' = sends
      /\ letters' = letters /\ since' = since
  BY DEF Handle, queueVars
<1>b. cmd' = cmd /\ touched' = touched
  BY DEF Handle, C!Dispatch, C!DoSettings, C!PlugOn, C!PlugName, C!PlugTask, C!PlugAnswer,
         C!aux
<1>1. CASE C!Dispatch
  <2>a. /\ pc = "dispatch" /\ pc' = (IF C!Addressed(cmd) THEN "settings" ELSE "idle")
        /\ u_config' = u_config /\ answer' = answer
    BY <1>1 DEF C!Dispatch
  <2>1. replies' = Owed'
    <3>1. replies = IF C!Addressed(cmd) THEN 1 ELSE 0
      BY <1>0, <2>a DEF TypeOK, Owed
    <3>2. CASE C!Addressed(cmd)
      BY <1>a, <1>b, <2>a, <3>1, <3>2 DEF Owed, C!Addressed
    <3>3. CASE ~C!Addressed(cmd)
      BY <1>a, <1>b, <2>a, <3>1, <3>3 DEF Owed
    <3> QED
      BY <3>2, <3>3
  <2>2. TypeOK'
    BY <1>0, <1>a, <1>b, <2>1 DEF TypeOK
  <2>3. LettersInv'
    <3>1. ~C!Addressed(cmd) => LastIsTrue'
      BY <1>0, <1>a, <2>a DEF LettersInv, LastIsTrue
    <3>2. pc' = "idle" => ~C!Addressed(cmd)
      BY <2>a
    <3>3. C!Addressed(cmd)' <=> C!Addressed(cmd)
      BY <1>b DEF C!Addressed
    <3> QED
      BY <1>0, <1>a, <1>b, <2>a, <3>1, <3>2, <3>3 DEF LettersInv
  <2> QED
    BY <2>2, <2>3
<1>2. CASE C!DoSettings \/ C!PlugOn \/ C!PlugName \/ C!PlugTask \/ C!PlugAnswer
  <2>a. /\ pc \in {"settings", "on", "name", "task", "answer"}
        /\ pc' \in {"on", "name", "task", "answer", "send"}
    BY <1>2 DEF C!DoSettings, C!PlugOn, C!PlugName, C!PlugTask, C!PlugAnswer
  <2>b. C!Addressed(cmd)
    BY <1>0, <2>a, CommandTerms DEF CP!PlaceInv
  <2>c. C!Addressed(cmd)'
    BY <1>b, <2>b DEF C!Addressed
  <2>1. answer' \in Letters
    <3>1. answer' = [c \in C!Cells |-> answer'[c]]
      BY <1>0, <1>2 DEF C!DoSettings, C!PlugOn, C!PlugName, C!PlugTask, C!PlugAnswer,
         C!Collect, LettersInv, Letters
    <3>2. \A c \in C!Cells : answer'[c] \in Words
      <4>1. \A c \in C!Cells : answer'[c] \in {Lost, Absent} \/ answer'[c] \in C!Values(c, 0..255)
        BY <1>0, CommandTerms DEF CP!TypeOK
      <4> QED
        BY <4>1 DEF Words
    <3> QED
      BY <3>1, <3>2 DEF Letters
  <2>2. TypeOK'
    <3>1. replies = 1
      BY <1>0, <2>a, <2>b DEF TypeOK, Owed
    <3>2. Owed' = 1
      BY <2>a, <2>c DEF Owed
    <3> QED
      BY <1>0, <1>a, <1>b, <3>1, <3>2 DEF TypeOK
  <2>3. LettersInv'
    BY <1>0, <1>a, <1>b, <2>1, <2>a, <2>c DEF LettersInv
  <2> QED
    BY <2>2, <2>3
<1> QED
  BY <1>1, <1>2 DEF Handle

\* SendReport: a report tells nothing that could be false.
LEMMA SendReportKeeps ==
  ASSUME IInv, SendReport
  PROVE  TypeOK' /\ LettersInv'
<1>0. TypeOK /\ LettersInv /\ QP!TypeOK /\ CP!TypeOK /\ CP!PlaceInv
  BY DEF IInv, CP!IInv, QP!IInv
<1>a. /\ upc = "cmd" /\ upc' = upc /\ replies > 0 /\ replies' = replies - 1
      /\ sends' = [sends EXCEPT ![Udp] = @ + 1]
  BY DEF SendReport, Q!Call
<1>b. /\ pc = "report" /\ pc' = "dispatch" /\ cmd' = cmd /\ touched' = touched
      /\ answer' = answer /\ u_config' = u_config
  BY DEF SendReport, C!Report
<1>c. letters' = Append(letters, C!Empty) /\ since' = since
  BY DEF SendReport, ReportText
<1>d. /\ letters' \in Seq(Letters) /\ Len(letters') = Len(letters) + 1
      /\ letters'[Len(letters')] = C!Empty
  BY <1>0, <1>c, EmptyType, AppendFacts DEF LettersInv
<1>1. TypeOK'
  <2>1. replies' = Owed'
    <3>1. replies = 1 + (IF C!Addressed(cmd) THEN 1 ELSE 0)
      BY <1>0, <1>b DEF TypeOK, Owed, Replies, CP!PlaceInv
    <3>2. Owed' = (IF C!Addressed(cmd) THEN 1 ELSE 0)
      BY <1>b DEF Owed, C!Addressed
    <3> QED
      BY <1>a, <3>1, <3>2
  <2>2. Len(letters') = sends'[Udp]
    BY <1>0, <1>a, <1>d, QueueAssumptions DEF TypeOK, QP!TypeOK
  <2> QED
    BY <1>0, <1>a, <1>b, <1>c, <2>1, <2>2 DEF TypeOK
<1>2. LettersInv'
  <2>1. LastIsTrue'
    BY <1>d, EmptyType DEF LastIsTrue
  <2> QED
    BY <1>0, <1>b, <1>c, <1>d, <2>1 DEF LettersInv
<1> QED
  BY <1>1, <1>2

\* SendAnswer: the answer is true but for what others wrote.
LEMMA SendAnswerKeeps ==
  ASSUME IInv, SendAnswer
  PROVE  TypeOK' /\ LettersInv'
<1>0. TypeOK /\ LettersInv /\ QP!TypeOK /\ CP!PlaceInv /\ CP!AnswerInv
  BY DEF IInv, CP!IInv, QP!IInv
<1>a. /\ upc = "cmd" /\ upc' = upc /\ replies > 0 /\ replies' = replies - 1
      /\ sends' = [sends EXCEPT ![Udp] = @ + 1]
  BY DEF SendAnswer, Q!Call
<1>b. /\ pc = "send" /\ pc' = "idle" /\ cmd' = cmd /\ touched' = touched
      /\ answer' = answer /\ u_config' = u_config
  BY DEF SendAnswer, C!Send
<1>c. letters' = Append(letters, answer) /\ since' = since
  BY DEF SendAnswer
<1>d. /\ letters' \in Seq(Letters) /\ Len(letters') = Len(letters) + 1
      /\ letters'[Len(letters')] = answer
  BY <1>0, <1>c, AppendFacts DEF LettersInv
<1>1. TypeOK'
  <2>1. replies' = Owed'
    <3>1. C!Addressed(cmd)
      BY <1>0, <1>b, CommandTerms DEF CP!PlaceInv
    <3>2. replies = 1
      BY <1>0, <1>b, <3>1 DEF TypeOK, Owed
    <3> QED
      BY <1>a, <1>b, <3>2 DEF Owed
  <2>2. Len(letters') = sends'[Udp]
    BY <1>0, <1>a, <1>d, QueueAssumptions DEF TypeOK, QP!TypeOK
  <2> QED
    BY <1>0, <1>a, <1>b, <1>c, <2>1, <2>2 DEF TypeOK
<1>2. LettersInv'
  <2>1. \A c \in C!Cells \ since : u_config[c] # Lost => answer[c] \in {Absent, u_config[c]}
    <3> SUFFICES ASSUME NEW c \in C!Cells \ since, u_config[c] # Lost
                 PROVE  answer[c] \in {Absent, u_config[c]}
      OBVIOUS
    <3>1. c \in CP!Cells /\ c \notin touched /\ pc # "idle"
      BY <1>0, <1>b, CommandTerms DEF LettersInv
    <3> QED
      BY <1>0, <3>1 DEF CP!AnswerInv
  <2>2. LastIsTrue'
    BY <1>b, <1>c, <1>d, <2>1 DEF LastIsTrue
  <2> QED
    BY <1>0, <1>b, <1>c, <1>d, <2>2 DEF LettersInv
<1> QED
  BY <1>1, <1>2

\* Steps of the queues that leave the handler alone.
LEMMA QueueKeeps ==
  ASSUME IInv, UNCHANGED <<commandVars, letters, since>>, replies' = replies,
         sends'[Udp] = sends[Udp], pc = "idle" \/ upc' = upc
  PROVE  TypeOK' /\ LettersInv'
<1>0. TypeOK /\ LettersInv
  BY DEF IInv
<1>a. /\ pc' = pc /\ cmd' = cmd /\ touched' = touched /\ answer' = answer
      /\ u_config' = u_config /\ letters' = letters /\ since' = since
  BY DEF commandVars
<1>1. TypeOK'
  <2>1. Owed' = Owed
    BY <1>a DEF Owed, Replies, C!Addressed
  <2> QED
    BY <1>0, <1>a, <2>1 DEF TypeOK
<1>2. LettersInv'
  BY <1>0, <1>a DEF LettersInv, LastIsTrue, C!Addressed
<1> QED
  BY <1>1, <1>2

\* A call of user_udp_send in progress makes no other call.
LEMMA SendingKeeps ==
  ASSUME NEW s, Q!Sending(s)
  PROVE  sends' = sends /\ replies' = replies /\ upc' = upc
  BY DEF Q!Sending, Q!Create, Q!Fetch, Q!Put, Q!PutFails, Q!thread

\* Return and Loop: udp_thread is not in the handler.
LEMMA LoopKeeps ==
  ASSUME IInv, Return \/ Loop
  PROVE  TypeOK' /\ LettersInv'
<1>0. pc # "idle" => upc = "cmd"
  BY DEF IInv, TypeOK
<1>1. UNCHANGED <<commandVars, letters, since>>
  BY DEF Return, Loop
<1>2. CASE Return
  <2>1. pc = "idle" /\ replies' = replies /\ sends' = sends
    BY <1>2 DEF Return, Q!Echo, Q!sender
  <2> QED
    BY <1>1, <2>1, QueueKeeps
<1>3. CASE Q!Sending(Udp)
  BY <1>1, <1>3, SendingKeeps, QueueKeeps
<1>4. CASE Q!FetchRecv \/ Q!Recv \/ Q!RecvTimeout \/ Q!Broadcast \/ Q!Free
  <2>1. upc # "cmd" /\ replies' = replies /\ sends' = sends
    BY <1>4 DEF Q!FetchRecv, Q!Recv, Q!RecvTimeout, Q!Broadcast, Q!Free, Q!sender
  <2> QED
    BY <1>0, <1>1, <2>1, QueueKeeps
<1> QED
  BY <1>2, <1>3, <1>4 DEF Loop

\* OthersSend: other calls of user_udp_send are not udp_thread's.
LEMMA OthersSendKeeps ==
  ASSUME IInv, OthersSend
  PROVE  TypeOK' /\ LettersInv'
<1>0. UNCHANGED <<commandVars, letters, since>>
  BY DEF OthersSend
<1>1. ASSUME NEW s \in Senders \ {Udp}, Q!Call(s)
      PROVE  TypeOK' /\ LettersInv'
  <2>1. /\ s # Udp /\ sends' = [sends EXCEPT ![s] = @ + 1]
        /\ replies' = replies /\ upc' = upc
    BY <1>1 DEF Q!Call
  <2>2. sends \in [Senders -> 0..MaxSends]
    BY DEF IInv, QP!IInv, QP!TypeOK
  <2>3. sends'[Udp] = sends[Udp]
    BY <2>1, <2>2, QueueAssumptions
  <2> QED
    BY <1>0, <2>1, <2>3, QueueKeeps
<1>2. ASSUME NEW s \in Senders \ {Udp}, Q!Sending(s)
      PROVE  TypeOK' /\ LettersInv'
  BY <1>0, <1>2, SendingKeeps, QueueKeeps
<1>3. CASE Q!Packet
  <2>1. sends' = sends /\ replies' = replies /\ upc' = upc
    BY <1>3 DEF Q!Packet, Q!sender
  <2> QED
    BY <1>0, <2>1, QueueKeeps
<1> QED
  BY <1>1, <1>2, <1>3 DEF OthersSend

\* OthersWrite: what others write is not vouched for any more.
LEMMA OthersWriteKeeps ==
  ASSUME IInv, OthersWrite, CP!IInv'
  PROVE  TypeOK' /\ LettersInv'
<1>0. TypeOK /\ LettersInv /\ CP!WriteInv /\ CP!TypeOK'
  BY DEF IInv, CP!IInv
<1>a. /\ upc' = upc /\ replies' = replies /\ sends' = sends
      /\ letters' = letters /\ since' = since \cup touched'
  BY DEF OthersWrite, queueVars
<1>b. /\ pc' = pc /\ cmd' = cmd /\ answer' = answer
  BY DEF OthersWrite, C!SetRelay, C!Disarm, C!where
<1>c. \A c \in C!Cells \ touched' : u_config'[c] = u_config[c]
  <2>1. u_config = [c \in C!Cells |-> u_config[c]]
    BY <1>0, CommandTerms DEF CP!WriteInv
  <2>2. ASSUME NEW i, NEW y, C!SetRelay(i, y)
        PROVE  \A c \in C!Cells \ touched' : u_config'[c] = u_config[c]
    <3>1. /\ u_config' = [u_config EXCEPT ![<<"on", i>>] = y]
          /\ <<"on", i>> \in touched'
      BY <2>2 DEF C!SetRelay
    <3> DEFINE d == <<"on", i>>
    <3> HIDE DEF d
    <3>2. u_config' = [u_config EXCEPT ![d] = y] /\ d \in touched'
      BY <3>1 DEF d
    <3> QED
      BY <2>1, <3>2
  <2>3. ASSUME NEW d, C!Disarm(d)
        PROVE  \A c \in C!Cells \ touched' : u_config'[c] = u_config[c]
    <3>1. /\ u_config' = [u_config EXCEPT ![d] = [u_config[d] EXCEPT !["on"] = 0]]
          /\ d \in touched'
      BY <2>3 DEF C!Disarm
    <3> QED
      BY <2>1, <3>1
  <2> QED
    BY <2>2, <2>3 DEF OthersWrite
<1>1. TypeOK'
  <2>1. Owed' = Owed
    BY <1>b DEF Owed, Replies, C!Addressed
  <2>2. touched' \subseteq C!Cells
    BY <1>0, CommandTerms DEF CP!TypeOK
  <2> QED
    BY <1>0, <1>a, <1>b, <2>1, <2>2 DEF TypeOK
<1>2. LettersInv'
  <2>1. LastIsTrue => LastIsTrue'
    BY <1>a, <1>c DEF LastIsTrue
  <2> QED
    BY <1>0, <1>a, <1>b, <2>1 DEF LettersInv, C!Addressed
<1> QED
  BY <1>1, <1>2

\* Whatever the step, the invariant is kept.
LEMMA NextInv == IInv /\ [Next]_vars => IInv'
<1> SUFFICES ASSUME IInv, [Next]_vars
             PROVE  IInv'
  OBVIOUS
<1>1. QP!IInv' /\ CP!IInv'
  BY PartsKeep DEF IInv
<1>2. TypeOK' /\ LettersInv'
  <2>1. ASSUME NEW m \in Commands, Arrive(m)
        PROVE  TypeOK' /\ LettersInv'
    BY <1>1, <2>1, ArriveKeeps
  <2>2. CASE Handle
    BY <1>1, <2>2, HandleKeeps
  <2>3. CASE SendReport
    BY <2>3, SendReportKeeps
  <2>4. CASE SendAnswer
    BY <2>4, SendAnswerKeeps
  <2>5. CASE Return \/ Loop
    BY <2>5, LoopKeeps
  <2>6. CASE OthersSend
    BY <2>6, OthersSendKeeps
  <2>7. CASE OthersWrite
    BY <1>1, <2>7, OthersWriteKeeps
  <2>8. CASE UNCHANGED vars
    <3>1. /\ UNCHANGED <<commandVars, letters, since>> /\ replies' = replies
          /\ sends' = sends /\ upc' = upc
      BY <2>8 DEF vars, queueVars
    <3> QED
      BY <3>1, QueueKeeps
  <2> QED
    BY <2>1, <2>2, <2>3, <2>4, <2>5, <2>6, <2>7, <2>8 DEF Next
<1> QED
  BY <1>1, <1>2 DEF IInv

-----------------------------------------------------------------------------
(***************************************************************************)
(* Theorems.                                                               *)
(***************************************************************************)

\* The strengthened invariant holds in every reachable state.
THEOREM Inductive == Spec => []IInv
  BY InitInv, NextInv, PTL DEF Spec

\* udp_thread's loop and the command handler agree on how many sends are to
\* come (user_function.c:60, 175).
THEOREM TypeCorrect == Spec => []TypeOK
<1>1. IInv => TypeOK
  BY DEF IInv
<1> QED
  BY <1>1, Inductive, PTL

\* An answer is true when it is broadcast, but for what others wrote since the
\* last command (user_udp.c:92-96, 158; user_function.c:243-316).
THEOREM Truthful == Spec => []BroadcastIsTrue
<1>1. IInv => BroadcastIsTrue
  <2> SUFFICES ASSUME IInv, upc = "send", got[1] = Udp, NEW c \in C!Cells \ since,
                      u_config[c] # Lost
               PROVE  letters[got[2]][c] \in {Absent, u_config[c]}
    BY DEF BroadcastIsTrue
  <2>1. pc = "idle" /\ Len(letters) = sends[Udp]
    BY DEF IInv, TypeOK
  <2>2. got[2] = sends[Udp]
    BY DEF IInv, QP!IInv, QP!OwnAnswerIsLatest
  <2>3. letters # <<>>
    <3>1. got \in QP!Msgs
      BY DEF IInv, QP!IInv, QP!TypeOK, QP!HandlesInv
    <3>2. got[2] \in 1..MaxSends
      BY <3>1 DEF QP!Msgs
    <3> QED
      BY <2>1, <2>2, <3>2
  <2> QED
    BY <2>1, <2>2, <2>3 DEF IInv, LettersInv, LastIsTrue
<1> QED
  BY <1>1, Inductive, PTL

\* udp_thread with its handler is still the handler that was verified alone:
\* waiting for user_udp_send to return, and for the rest of the loop, is no
\* step of it (user_udp.c:76-101).
THEOREM IsCommand == Spec => CP!Spec
  BY PartsBegin, CommandStep, PTL DEF Spec, CP!Spec

\* It is still the loop and the senders that were verified alone, with the
\* calls the handler makes as udp_thread's own (user_udp.c:76-158).
THEOREM IsUdpQueue == Spec => QP!Init /\ [][QP!Next]_(QP!vars)
  BY PartsBegin, QueueStep, PTL DEF Spec

\* So a command is carried out but for what its own texts run over, answered
\* truly and, with plain texts, harmless when it is repeated, also where its
\* answer has to wait for a queue.
THEOREM CommandHolds == Spec => [](CP!CarriedOut /\ CP!AnswerIsTrue /\ CP!RepetitionIsHarmless)
<1>1. CP!Spec => []CP!CarriedOut
  BY CP!CommandIsCarriedOut, CommandAssumptions
<1>2. CP!Spec => []CP!AnswerIsTrue
  BY CP!AnswerTrue, CommandAssumptions
<1>3. CP!Spec => []CP!RepetitionIsHarmless
  BY CP!Repetition, CommandAssumptions
<1> QED
  BY <1>1, <1>2, <1>3, IsCommand, PTL

\* No message is sent twice or after it was freed, and what udp_thread
\* broadcasts of its own is its latest answer, though its handler calls
\* user_udp_send up to twice in between (user_udp.c:85-101).
THEOREM QueueHolds == Spec => [](QP!OneOwner /\ QP!OnePerSender /\ QP!OwnAnswerIsLatest)
<1>1. QP!IInv => QP!OnePerSender /\ QP!OwnAnswerIsLatest
  BY DEF QP!IInv
<1>2. QP!IInv => QP!OneOwner
  BY QP!OwnerHolds, QueueAssumptions
<1> QED
  BY <1>1, <1>2, Inductive, PTL DEF IInv

\* The whole implements the lossy channel too: a command's report and answer
\* are neither repeated nor reordered on their way (user_udp.c:85-101).
THEOREM Refinement == Spec => QP!IsLossyFifo
<1>1. QP!Init => QP!Channel!Init
  BY QP!ChannelBegins, QueueAssumptions
<1>2. QP!IInv /\ [QP!Next]_(QP!vars) => [QP!Channel!Next]_<<accepted, delivered>>
  BY QP!ChannelStep, QueueAssumptions
<1> QED
  BY <1>1, <1>2, PartsBegin, QueueStep, Inductive, PTL
  DEF Spec, IInv, QP!IsLossyFifo, QP!Channel!Spec
=============================================================================
