--------------------------- MODULE UdpQueueProofs ---------------------------
(***************************************************************************)
(* Proofs about UdpQueue for any number of senders, any capacity of the    *)
(* queues and any number of calls: every message has one owner, the last   *)
(* answer of udp_thread is the one it broadcasts, and user_udp_send        *)
(* implements LossyFifo.                                                   *)
(***************************************************************************)
EXTENDS UdpQueue, TLAPS

-----------------------------------------------------------------------------
(***************************************************************************)
(* The inductive invariant.                                                *)
(***************************************************************************)

\* The messages in queue k of q; none in no queue.
Held(q, k) == IF k = Null THEN {} ELSE {q[k][i] : i \in 1..Len(q[k])}

\* A queue exists once its call has passed hfmsgq_create.
Created(k) == k[2] < sends[k[1]] \/ (k[2] = sends[k[1]] /\ spc[k[1]] # "create")

\* A call in progress owns a message that nobody has taken yet, and nothing
\* is accepted that was not sent.
CallsInv ==
    /\ \A s \in Senders : spc[s] # "idle" => sends[s] > 0 /\ Msg(s) \notin accepted
    /\ \A m \in accepted : m[2] <= sends[m[1]]
    /\ spc[Udp] # "idle" => upc = "cmd"

\* Queues come into being empty; every handle is of a queue that exists.
HandlesInv ==
    /\ \A k \in Queues : ~Created(k) => queue[k] = <<>>
    /\ udp_msgq # Null => Created(udp_msgq)
    /\ \A s \in Senders : hnd[s] # Null => Created(hnd[s])
    /\ upc # "recv" => uh = Null
    /\ upc \in {"send", "free"} <=> got # Null

\* Where messages may be.
PlacesInv ==
    /\ \A k \in Queues : Held(queue, k) \subseteq accepted \ freed
    /\ freed \subseteq accepted
    /\ got # Null => got \in accepted \ freed

\* The current queue holds the last message of a caller or none, and a call
\* that is about to put its message finds none of its caller.
CurrentInv ==
    /\ \A m \in Held(queue, udp_msgq) : m[2] = sends[m[1]] \/ spc[m[1]] = "create"
    /\ \A s \in Senders : spc[s] = "put" => \A m \in Held(queue, hnd[s]) : m[1] # s
    /\ upc = "recv" => \A m \in Held(queue, uh) : m[1] = Udp => m[2] = sends[Udp]

\* Of one caller, what was broadcast is older than what udp_thread has, and
\* this is older than what waits in the current queue.
OrderInv ==
    /\ \A s \in Senders : \A i \in 1..Len(delivered[s]) :
          /\ <<s, delivered[s][i]>> \in accepted
          /\ \A m \in Held(queue, udp_msgq) \cup Held(queue, uh) :
                m[1] = s => delivered[s][i] < m[2]
          /\ upc = "send" /\ got[1] = s => delivered[s][i] < got[2]
    /\ uh # udp_msgq =>
          \A m \in Held(queue, uh), n \in Held(queue, udp_msgq) : m[1] = n[1] => m[2] < n[2]
    /\ upc = "send" =>
          \A n \in Held(queue, udp_msgq) : got[1] = n[1] => got[2] < n[2]

IInv == /\ TypeOK /\ CallsInv /\ HandlesInv /\ PlacesInv /\ CurrentInv
        /\ OrderInv /\ HeldOnce /\ OnePerSender /\ OwnAnswerIsLatest

-----------------------------------------------------------------------------
(***************************************************************************)
(* Lemmas.                                                                 *)
(***************************************************************************)

\* The assumptions of UdpQueue.
LEMMA Facts ==
    /\ Udp \in Senders /\ MaxSends \in Nat /\ MaxCalls \in Nat
    /\ Capacity \in Nat \ {0} /\ Null \notin Msgs
  BY UdpAssumption, CapacityAssumption, MaxSendsAssumption, NullAssumption

\* Msgs is a set of pairs.
LEMMA MsgPairs ==
    /\ \A m \in Msgs : m = <<m[1], m[2]>> /\ m[1] \in Senders /\ m[2] \in 1..MaxSends
    /\ \A s \in Senders : \A n \in 1..MaxSends : <<s, n>> \in Msgs
  BY DEF Msgs

\* The message of a call in progress.
LEMMA MsgFacts ==
  ASSUME TypeOK, NEW s \in Senders, sends[s] > 0
  PROVE  Msg(s) \in Msgs /\ Msg(s)[1] = s /\ Msg(s)[2] = sends[s]
<1>1. sends[s] \in 1..MaxSends
  BY Facts DEF TypeOK
<1> QED
  BY <1>1, MsgPairs DEF Msg

\* A queue's name is a sender and a number.
LEMMA QueueFacts ==
  ASSUME TypeOK, NEW k \in Queues
  PROVE  k[1] \in Senders /\ k[2] \in Nat /\ sends[k[1]] \in Nat /\ k # Null
<1>1. k[1] \in Senders /\ k[2] \in 1..MaxSends /\ k # Null
  BY Facts, MsgPairs DEF Queues
<1>2. sends[k[1]] \in 0..MaxSends
  BY <1>1 DEF TypeOK
<1> QED
  BY <1>1, <1>2, Facts

\* What a queue holds are messages.
LEMMA HeldType ==
  ASSUME NEW q \in [Queues -> Seq(Msgs)], NEW k \in Queues \cup {Null}
  PROVE  Held(q, k) \subseteq Msgs
<1>1. CASE k = Null
  BY <1>1 DEF Held
<1>2. CASE k # Null
  <2>1. q[k] \in Seq(Msgs)
    BY <1>2
  <2>2. \A i \in 1..Len(q[k]) : q[k][i] \in Msgs
    BY <2>1
  <2> QED
    BY <1>2, <2>2 DEF Held
<1> QED
  BY <1>1, <1>2

\* A message more at the end of queue h.
LEMMA HeldAppend ==
  ASSUME TypeOK, NEW h \in Queues, NEW m \in Msgs,
         queue' = [queue EXCEPT ![h] = Append(@, m)]
  PROVE  /\ queue' \in [Queues -> Seq(Msgs)]
         /\ Held(queue', h) = Held(queue, h) \cup {m}
         /\ \A k \in Queues \cup {Null} : k # h => Held(queue', k) = Held(queue, k)
         /\ Len(queue'[h]) = Len(queue[h]) + 1 /\ queue'[h][Len(queue[h]) + 1] = m
         /\ \A i \in 1..Len(queue[h]) : queue'[h][i] = queue[h][i]
         /\ \A k \in Queues : k # h => queue'[k] = queue[k]
<1>0. queue \in [Queues -> Seq(Msgs)]
  BY DEF TypeOK
<1>1. queue[h] \in Seq(Msgs) /\ h # Null
  BY <1>0, Facts DEF Queues
<1>2. queue'[h] = Append(queue[h], m)
  BY <1>0
<1>3. /\ Len(queue'[h]) = Len(queue[h]) + 1 /\ queue'[h][Len(queue[h]) + 1] = m
      /\ \A i \in 1..Len(queue[h]) : queue'[h][i] = queue[h][i]
      /\ Len(queue[h]) \in Nat
  BY <1>1, <1>2
<1>4. \A k \in Queues : k # h => queue'[k] = queue[k]
  BY <1>0
<1>5. queue' \in [Queues -> Seq(Msgs)]
  BY <1>0, <1>1
<1>6. Held(queue', h) = Held(queue, h) \cup {m}
  <2>1. \A i : i \in 1..Len(queue'[h]) <=> i \in 1..Len(queue[h]) \/ i = Len(queue[h]) + 1
    BY <1>3
  <2> QED
    BY <1>1, <1>3, <2>1 DEF Held
<1>7. \A k \in Queues \cup {Null} : k # h => Held(queue', k) = Held(queue, k)
  BY <1>4 DEF Held
<1> QED
  BY <1>3, <1>4, <1>5, <1>6, <1>7

\* The first message less in queue h.
LEMMA HeldTail ==
  ASSUME TypeOK, NEW h \in Queues, queue[h] # <<>>,
         queue' = [queue EXCEPT ![h] = Tail(@)]
  PROVE  /\ queue' \in [Queues -> Seq(Msgs)]
         /\ Head(queue[h]) = queue[h][1] /\ Head(queue[h]) \in Held(queue, h)
         /\ Len(queue[h]) \in Nat \ {0} /\ Len(queue'[h]) = Len(queue[h]) - 1
         /\ \A i \in 1..Len(queue'[h]) : i + 1 \in 1..Len(queue[h]) /\ queue'[h][i] = queue[h][i + 1]
         /\ \A k \in Queues : k # h => queue'[k] = queue[k]
         /\ \A k \in Queues \cup {Null} : Held(queue', k) \subseteq Held(queue, k)
<1>0. queue \in [Queues -> Seq(Msgs)]
  BY DEF TypeOK
<1>1. queue[h] \in Seq(Msgs) /\ h # Null
  BY <1>0, Facts DEF Queues
<1>2. queue'[h] = Tail(queue[h])
  BY <1>0
<1>3. /\ Len(queue[h]) \in Nat \ {0} /\ Len(queue'[h]) = Len(queue[h]) - 1
      /\ Head(queue[h]) = queue[h][1] /\ queue'[h] \in Seq(Msgs)
      /\ \A i \in 1..Len(queue'[h]) : queue'[h][i] = queue[h][i + 1]
  <2> SUFFICES ASSUME NEW S, NEW q \in Seq(S), q # <<>>
               PROVE  /\ Len(q) \in Nat \ {0} /\ Len(Tail(q)) = Len(q) - 1
                      /\ Head(q) = q[1] /\ Tail(q) \in Seq(S)
                      /\ \A i \in 1..Len(Tail(q)) : Tail(q)[i] = q[i + 1]
    BY <1>1, <1>2
  <2> QED
    OBVIOUS
<1>4. \A i \in 1..Len(queue'[h]) : i + 1 \in 1..Len(queue[h])
  BY <1>3
<1>5. \A k \in Queues : k # h => queue'[k] = queue[k]
  BY <1>0
<1>6. Head(queue[h]) \in Held(queue, h)
  BY <1>1, <1>3 DEF Held
<1>7. Held(queue', h) \subseteq Held(queue, h)
  BY <1>1, <1>3, <1>4 DEF Held
<1>8. \A k \in Queues \cup {Null} : k # h => Held(queue', k) = Held(queue, k)
  BY <1>5 DEF Held
<1>9. queue' \in [Queues -> Seq(Msgs)]
  BY <1>0, <1>3
<1> QED
  BY <1>3, <1>4, <1>5, <1>6, <1>7, <1>8, <1>9

-----------------------------------------------------------------------------
(***************************************************************************)
(* Every action keeps the invariant.                                       *)
(***************************************************************************)

\* A call begins: its message is new, its queue does not exist yet.
LEMMA CallKeeps ==
  ASSUME IInv, NEW s \in Senders, Call(s)
  PROVE  IInv'
<1> USE Facts DEF IInv, Call, sender, thread, Step
<1>1. TypeOK'
  BY DEF TypeOK
<1>2. CallsInv'
  <2>1. \A t \in Senders : spc'[t] # "idle" => sends'[t] > 0 /\ Msg(t)' \notin accepted
    <3> SUFFICES ASSUME NEW t \in Senders, spc'[t] # "idle"
                 PROVE  sends'[t] > 0 /\ Msg(t)' \notin accepted
      OBVIOUS
    <3>1. CASE t = s
      BY <3>1, MsgPairs DEF CallsInv, TypeOK, Msg
    <3>2. CASE t # s
      BY <3>2 DEF CallsInv, TypeOK, Msg
    <3> QED
      BY <3>1, <3>2
  <2>2. \A m \in accepted : m[2] <= sends'[m[1]]
    BY MsgPairs, SMTT(30) DEF CallsInv, TypeOK
  <2> QED
    BY <2>1, <2>2 DEF CallsInv, TypeOK
<1>3. HandlesInv'
  <2>1. ASSUME NEW k \in Queues, Created(k)
        PROVE  Created(k)'
    <3>1. k[1] \in Senders /\ k[2] \in Nat /\ sends[k[1]] \in Nat
      BY QueueFacts
    <3>2. CASE k[1] = s
      BY <2>1, <3>1, <3>2 DEF Created, TypeOK
    <3>3. CASE k[1] # s
      BY <2>1, <3>1, <3>3 DEF Created, TypeOK
    <3> QED
      BY <3>2, <3>3
  <2> QED
    BY <2>1 DEF HandlesInv, TypeOK
<1>4. PlacesInv'
  BY DEF PlacesInv, TypeOK
<1>5. CurrentInv'
  BY DEF CurrentInv, TypeOK
<1>6. OrderInv'
  BY DEF OrderInv, TypeOK
<1>7. HeldOnce'
  BY SMTT(30) DEF HeldOnce
<1>8. OnePerSender'
  BY DEF OnePerSender
<1>9. OwnAnswerIsLatest'
  BY DEF OwnAnswerIsLatest, TypeOK
<1> QED
  BY <1>1, <1>2, <1>3, <1>4, <1>5, <1>6, <1>7, <1>8, <1>9

\* The new queue is empty, whatever the old one held.
LEMMA CreateKeeps ==
  ASSUME IInv, NEW s \in Senders, NEW ok \in BOOLEAN, Create(s, ok)
  PROVE  IInv'
<1> USE Facts DEF IInv, Create, sender, thread, Step
<1>0. Held(queue, udp_msgq') = {}
  <2>1. CASE ~ok
    BY <2>1 DEF Held
  <2>2. CASE ok
    <3>1. Msg(s) \in Queues /\ Msg(s)[1] = s /\ Msg(s)[2] = sends[s]
      BY MsgFacts DEF CallsInv, Queues
    <3>2. ~Created(Msg(s))
      BY <3>1 DEF Created, TypeOK
    <3>3. queue[Msg(s)] = <<>>
      BY <3>1, <3>2 DEF HandlesInv
    <3> QED
      BY <2>2, <3>3 DEF Held
  <2> QED
    BY <2>1, <2>2
<1>1. TypeOK'
  <2>1. Msg(s) \in Queues
    BY MsgFacts DEF CallsInv, Queues
  <2> QED
    BY <2>1 DEF TypeOK
<1>2. CallsInv'
  BY DEF CallsInv, TypeOK, Msg
<1>3. HandlesInv'
  <2>1. \A k \in Queues : Created(k) => Created(k)'
    BY MsgPairs DEF TypeOK, Created, Queues
  <2>2. udp_msgq' # Null => Created(udp_msgq)'
    BY MsgFacts DEF CallsInv, TypeOK, Created
  <2> QED
    BY <2>1, <2>2 DEF HandlesInv, TypeOK
<1>4. PlacesInv'
  BY DEF PlacesInv, TypeOK
<1>5. CurrentInv'
  BY <1>0 DEF CurrentInv, TypeOK
<1>6. OrderInv'
  BY <1>0 DEF OrderInv, TypeOK
<1>7. HeldOnce'
  BY DEF HeldOnce
<1>8. OnePerSender'
  BY DEF OnePerSender
<1>9. OwnAnswerIsLatest'
  BY DEF OwnAnswerIsLatest, TypeOK
<1> QED
  BY <1>1, <1>2, <1>3, <1>4, <1>5, <1>6, <1>7, <1>8, <1>9

\* A caller that has the handle finds none of its messages in the queue.
LEMMA FetchKeeps ==
  ASSUME IInv, NEW s \in Senders, Fetch(s)
  PROVE  IInv'
<1> USE Facts DEF IInv, Fetch, sender, thread, Step
<1>1. TypeOK'
  BY DEF TypeOK
<1>2. CallsInv'
  BY DEF CallsInv, TypeOK, Msg
<1>3. HandlesInv'
  BY DEF HandlesInv, TypeOK, Created
<1>4. PlacesInv'
  BY DEF PlacesInv, TypeOK
<1>5. CurrentInv'
  <2>1. \A m \in Held(queue, udp_msgq) : m[1] # s
    <3> SUFFICES ASSUME NEW m \in Held(queue, udp_msgq), m[1] = s
                 PROVE  FALSE
      OBVIOUS
    <3>1. m[2] = sends[s]
      BY DEF CurrentInv
    <3>2. udp_msgq \in Queues /\ m \in accepted
      BY DEF Held, PlacesInv, TypeOK
    <3>3. m = Msg(s)
      BY <3>1, <3>2, MsgPairs DEF Msg, TypeOK
    <3> QED
      BY <3>2, <3>3 DEF CallsInv
  <2> QED
    BY <2>1 DEF CurrentInv, TypeOK
<1>6. OrderInv'
  BY DEF OrderInv, TypeOK
<1>7. HeldOnce'
  BY DEF HeldOnce
<1>8. OnePerSender'
  BY DEF OnePerSender
<1>9. OwnAnswerIsLatest'
  BY DEF OwnAnswerIsLatest, TypeOK
<1> QED
  BY <1>1, <1>2, <1>3, <1>4, <1>5, <1>6, <1>7, <1>8, <1>9

\* A message that is not queued was never accepted.
LEMMA PutFailsKeeps ==
  ASSUME IInv, NEW s \in Senders, PutFails(s)
  PROVE  IInv'
<1> USE Facts DEF IInv, PutFails, sender, thread, Step
<1>1. TypeOK'
  BY DEF TypeOK
<1>2. CallsInv'
  BY DEF CallsInv, TypeOK, Msg
<1>3. HandlesInv'
  <2>1. \A k \in Queues : Created(k) => Created(k)'
    BY MsgPairs DEF TypeOK, Created, Queues
  <2> QED
    BY <2>1 DEF HandlesInv, TypeOK
<1>4. PlacesInv'
  BY DEF PlacesInv, TypeOK
<1>5. CurrentInv'
  BY DEF CurrentInv, TypeOK
<1>6. OrderInv'
  BY DEF OrderInv, TypeOK
<1>7. HeldOnce'
  BY DEF HeldOnce
<1>8. OnePerSender'
  BY DEF OnePerSender
<1>9. OwnAnswerIsLatest'
  BY DEF OwnAnswerIsLatest, TypeOK
<1> QED
  BY <1>1, <1>2, <1>3, <1>4, <1>5, <1>6, <1>7, <1>8, <1>9

\* A datagram touches nothing.
LEMMA PacketKeeps ==
  ASSUME IInv, Packet
  PROVE  IInv'
<1> USE Facts DEF IInv, Packet, sender
<1>1. TypeOK'
  BY DEF TypeOK
<1>2. CallsInv'
  BY DEF CallsInv, TypeOK, Msg
<1>3. HandlesInv'
  BY DEF HandlesInv, TypeOK, Created
<1>4. PlacesInv'
  BY DEF PlacesInv, TypeOK
<1>5. CurrentInv'
  BY DEF CurrentInv, TypeOK
<1>6. OrderInv'
  BY DEF OrderInv, TypeOK
<1>7. HeldOnce'
  BY DEF HeldOnce
<1>8. OnePerSender'
  BY DEF OnePerSender
<1>9. OwnAnswerIsLatest'
  BY DEF OwnAnswerIsLatest, TypeOK
<1> QED
  BY <1>1, <1>2, <1>3, <1>4, <1>5, <1>6, <1>7, <1>8, <1>9

\* A command begins.
LEMMA SelectKeeps ==
  ASSUME IInv, NEW n \in 0..2, Select(n)
  PROVE  IInv'
<1> USE Facts DEF IInv, Select, sender
<1>1. TypeOK'
  BY DEF TypeOK
<1>2. CallsInv'
  BY DEF CallsInv, TypeOK, Msg
<1>3. HandlesInv'
  BY DEF HandlesInv, TypeOK, Created
<1>4. PlacesInv'
  BY DEF PlacesInv, TypeOK
<1>5. CurrentInv'
  BY DEF CurrentInv, TypeOK
<1>6. OrderInv'
  BY DEF OrderInv, TypeOK
<1>7. HeldOnce'
  BY DEF HeldOnce
<1>8. OnePerSender'
  BY DEF OnePerSender
<1>9. OwnAnswerIsLatest'
  BY DEF OwnAnswerIsLatest, TypeOK
<1> QED
  BY <1>1, <1>2, <1>3, <1>4, <1>5, <1>6, <1>7, <1>8, <1>9

\* A command ends.
LEMMA EchoKeeps ==
  ASSUME IInv, Echo
  PROVE  IInv'
<1> USE Facts DEF IInv, Echo, sender
<1>1. TypeOK'
  BY DEF TypeOK
<1>2. CallsInv'
  BY DEF CallsInv, TypeOK, Msg
<1>3. HandlesInv'
  BY DEF HandlesInv, TypeOK, Created
<1>4. PlacesInv'
  BY DEF PlacesInv, TypeOK
<1>5. CurrentInv'
  BY DEF CurrentInv, TypeOK
<1>6. OrderInv'
  BY DEF OrderInv, TypeOK
<1>7. HeldOnce'
  BY DEF HeldOnce
<1>8. OnePerSender'
  BY DEF OnePerSender
<1>9. OwnAnswerIsLatest'
  BY DEF OwnAnswerIsLatest, TypeOK
<1> QED
  BY <1>1, <1>2, <1>3, <1>4, <1>5, <1>6, <1>7, <1>8, <1>9

\* udp_thread takes the current queue.
LEMMA FetchRecvKeeps ==
  ASSUME IInv, FetchRecv
  PROVE  IInv'
<1> USE Facts DEF IInv, FetchRecv, sender
<1>1. TypeOK'
  BY DEF TypeOK
<1>2. CallsInv'
  BY DEF CallsInv, TypeOK, Msg
<1>3. HandlesInv'
  BY DEF HandlesInv, TypeOK, Created
<1>4. PlacesInv'
  BY DEF PlacesInv, TypeOK
<1>5. CurrentInv'
  <2>1. spc[Udp] = "idle"
    BY DEF CallsInv
  <2> QED
    BY <2>1 DEF CurrentInv, TypeOK
<1>6. OrderInv'
  BY DEF OrderInv, TypeOK
<1>7. HeldOnce'
  BY DEF HeldOnce
<1>8. OnePerSender'
  BY DEF OnePerSender
<1>9. OwnAnswerIsLatest'
  BY DEF OwnAnswerIsLatest, TypeOK
<1> QED
  BY <1>1, <1>2, <1>3, <1>4, <1>5, <1>6, <1>7, <1>8, <1>9

\* udp_thread lets go of a queue.
LEMMA RecvTimeoutKeeps ==
  ASSUME IInv, RecvTimeout
  PROVE  IInv'
<1> USE Facts DEF IInv, RecvTimeout, sender
<1>1. TypeOK'
  BY DEF TypeOK
<1>2. CallsInv'
  BY DEF CallsInv, TypeOK, Msg
<1>3. HandlesInv'
  BY DEF HandlesInv, TypeOK, Created
<1>4. PlacesInv'
  BY DEF PlacesInv, TypeOK
<1>5. CurrentInv'
  BY DEF CurrentInv, TypeOK
<1>6. OrderInv'
  <2>1. Held(queue, uh') = {}
    BY DEF Held
  <2> QED
    BY <2>1 DEF OrderInv, TypeOK
<1>7. HeldOnce'
  BY DEF HeldOnce
<1>8. OnePerSender'
  BY DEF OnePerSender
<1>9. OwnAnswerIsLatest'
  BY DEF OwnAnswerIsLatest, TypeOK
<1> QED
  BY <1>1, <1>2, <1>3, <1>4, <1>5, <1>6, <1>7, <1>8, <1>9

\* What is broadcast is younger than what was, and older than what waits.
LEMMA BroadcastKeeps ==
  ASSUME IInv, Broadcast
  PROVE  IInv'
<1> USE Facts DEF IInv, Broadcast, sender
<1>1. TypeOK'
  <2>1. got[1] \in Senders /\ got[2] \in 1..MaxSends
    BY MsgPairs DEF HandlesInv, TypeOK
  <2>2. Append(delivered[got[1]], got[2]) \in Seq(1..MaxSends)
    BY <2>1 DEF TypeOK
  <2> QED
    BY <2>1, <2>2 DEF TypeOK
<1>2. CallsInv'
  BY DEF CallsInv, TypeOK, Msg
<1>3. HandlesInv'
  BY DEF HandlesInv, TypeOK, Created
<1>4. PlacesInv'
  BY DEF PlacesInv, TypeOK
<1>5. CurrentInv'
  BY DEF CurrentInv, TypeOK
<1>6. OrderInv'
  <2>1. got \in Msgs /\ got \in accepted /\ uh = Null
    BY DEF HandlesInv, PlacesInv, TypeOK
  <2>2. got = <<got[1], got[2]>> /\ got[1] \in Senders /\ got[2] \in 1..MaxSends
    BY <2>1, MsgPairs
  <2>3. Held(queue, uh) = {}
    BY <2>1 DEF Held
  <2>4. ASSUME NEW t \in Senders, NEW i \in 1..Len(delivered'[t])
        PROVE  /\ <<t, delivered'[t][i]>> \in accepted
               /\ \A m \in Held(queue, udp_msgq) : m[1] = t => delivered'[t][i] < m[2]
    <3>1. CASE t = got[1] /\ i = Len(delivered[t]) + 1
      <4>1. delivered'[t][i] = got[2]
        BY <2>2, <3>1 DEF TypeOK
      <4> QED
        BY <2>1, <2>2, <3>1, <4>1 DEF OrderInv
    <3>2. CASE ~(t = got[1] /\ i = Len(delivered[t]) + 1)
      <4>1. i \in 1..Len(delivered[t]) /\ delivered'[t][i] = delivered[t][i]
        BY <2>2, <3>2, SMTT(30) DEF TypeOK
      <4> QED
        BY <4>1 DEF OrderInv
    <3> QED
      BY <3>1, <3>2
  <2> QED
    BY <2>3, <2>4 DEF OrderInv
<1>7. HeldOnce'
  BY DEF HeldOnce
<1>8. OnePerSender'
  BY DEF OnePerSender
<1>9. OwnAnswerIsLatest'
  BY DEF OwnAnswerIsLatest, TypeOK
<1> QED
  BY <1>1, <1>2, <1>3, <1>4, <1>5, <1>6, <1>7, <1>8, <1>9

\* The message freed is in no queue any more.
LEMMA FreeKeeps ==
  ASSUME IInv, Free
  PROVE  IInv'
<1> USE Facts DEF IInv, Free, sender
<1>1. TypeOK'
  BY DEF TypeOK, HandlesInv
<1>2. CallsInv'
  BY DEF CallsInv, TypeOK, Msg
<1>3. HandlesInv'
  BY DEF HandlesInv, TypeOK, Created
<1>4. PlacesInv'
  <2>1. got \in accepted
    BY DEF HandlesInv, PlacesInv
  <2>2. \A k \in Queues : got \notin Held(queue, k)
    BY DEF HeldOnce, Held
  <2> QED
    BY <2>1, <2>2 DEF PlacesInv, TypeOK
<1>5. CurrentInv'
  BY DEF CurrentInv, TypeOK
<1>6. OrderInv'
  BY DEF OrderInv, TypeOK
<1>7. HeldOnce'
  <2>1. \A k \in Queues : \A i \in 1..Len(queue[k]) : queue[k][i] # Null
    BY DEF TypeOK
  <2> QED
    BY <2>1 DEF HeldOnce
<1>8. OnePerSender'
  BY DEF OnePerSender
<1>9. OwnAnswerIsLatest'
  BY DEF OwnAnswerIsLatest, TypeOK
<1> QED
  BY <1>1, <1>2, <1>3, <1>4, <1>5, <1>6, <1>7, <1>8, <1>9

\* The message put is younger than all of its caller that are left.
LEMMA PutKeeps ==
  ASSUME IInv, NEW s \in Senders, Put(s)
  PROVE  IInv'
<1>0. /\ TypeOK /\ CallsInv /\ HandlesInv /\ PlacesInv /\ CurrentInv
      /\ OrderInv /\ HeldOnce /\ OnePerSender /\ OwnAnswerIsLatest
  BY DEF IInv
<1> DEFINE h == hnd[s]
<1>put. /\ spc[s] = "put" /\ spc' = [spc EXCEPT ![s] = "idle"]
        /\ hnd' = [hnd EXCEPT ![s] = Null]
        /\ queue' = [queue EXCEPT ![h] = Append(@, Msg(s))]
        /\ accepted' = accepted \cup {Msg(s)}
        /\ UNCHANGED <<sends, udp_msgq, pkt, upc, replies, uh, got, freed, delivered>>
  BY DEF Put, Step, thread
<1> HIDE DEF h
<1>1. /\ h \in Queues /\ Len(queue[h]) < Capacity
      /\ Msg(s) \in Msgs /\ Msg(s)[1] = s /\ Msg(s)[2] = sends[s] /\ sends[s] \in Nat
      /\ Msg(s) \notin accepted /\ sends[s] > 0
  BY <1>0, <1>put, MsgFacts, Facts DEF h, Put, HasRoom, CallsInv, TypeOK
<1>2. /\ queue' \in [Queues -> Seq(Msgs)]
      /\ Held(queue', h) = Held(queue, h) \cup {Msg(s)}
      /\ \A k \in Queues \cup {Null} : k # h => Held(queue', k) = Held(queue, k)
      /\ Len(queue'[h]) = Len(queue[h]) + 1 /\ queue'[h][Len(queue[h]) + 1] = Msg(s)
      /\ \A i \in 1..Len(queue[h]) : queue'[h][i] = queue[h][i]
      /\ \A k \in Queues : k # h => queue'[k] = queue[k]
  BY <1>0, <1>put, <1>1, HeldAppend
\* Every other message of s that somebody took is older.
<1>4. \A m \in accepted : m[1] = s => m[2] < sends[s]
  <2> SUFFICES ASSUME NEW m \in accepted, m[1] = s
               PROVE  m[2] < sends[s]
    OBVIOUS
  <2>1. m \in Msgs /\ m[2] <= sends[s]
    BY <1>0 DEF CallsInv, TypeOK
  <2>2. m = <<s, m[2]>> /\ m[2] \in Nat
    BY <2>1, MsgPairs
  <2>3. m # Msg(s)
    BY <1>1
  <2>4. m[2] # sends[s]
    BY <2>2, <2>3 DEF Msg
  <2> QED
    BY <1>1, <2>1, <2>2, <2>4
<1>5. \A k \in Queues \cup {Null} : Held(queue, k) \subseteq accepted
  BY <1>0 DEF PlacesInv, Held
<1>6. \A m \in Held(queue, udp_msgq) : m[1] # s
  <2> SUFFICES ASSUME NEW m \in Held(queue, udp_msgq), m[1] = s
               PROVE  FALSE
    OBVIOUS
  <2>1. m \in accepted
    BY <1>0, <1>5 DEF TypeOK
  <2>2. m[2] = sends[s]
    BY <1>0, <1>put DEF CurrentInv
  <2>3. m[2] < sends[s]
    BY <1>4, <2>1
  <2> QED
    BY <1>1, <2>2, <2>3
<1>7. \A k \in Queues : \A i \in 1..Len(queue[k]) : queue[k][i] \in accepted
  BY <1>0, Facts DEF PlacesInv, Held, Queues
<1>8. got # Null => got \in accepted
  BY <1>0 DEF PlacesInv
\* Where the messages of a queue come from.
<1>9. \A q \in Queues : \A n \in 1..Len(queue'[q]) :
         \/ q = h /\ n = Len(queue[h]) + 1 /\ queue'[q][n] = Msg(s)
         \/ n \in 1..Len(queue[q]) /\ queue'[q][n] = queue[q][n]
  <2>1. Len(queue[h]) \in Nat
    BY <1>0, <1>1 DEF TypeOK
  <2> QED
    BY <1>2, <2>1
<1>11. TypeOK'
  <2>1. \A k \in Queues : Len(queue'[k]) <= Capacity
    <3> SUFFICES ASSUME NEW k \in Queues
                 PROVE  Len(queue'[k]) <= Capacity
      OBVIOUS
    <3>1. CASE k = h
      <4>1. Len(queue[h]) \in Nat
        BY <1>0, <1>1 DEF TypeOK
      <4> QED
        BY <1>1, <1>2, <3>1, <4>1, Facts
    <3>2. CASE k # h
      BY <1>0, <1>2, <3>2 DEF TypeOK
    <3> QED
      BY <3>1, <3>2
  <2>2. spc' \in [Senders -> {"idle", "create", "fetch", "put"}]
        /\ hnd' \in [Senders -> Queues \cup {Null}]
    BY <1>0, <1>put DEF TypeOK
  <2> QED
    BY <1>0, <1>put, <1>1, <1>2, <2>1, <2>2 DEF TypeOK
<1>12. CallsInv'
  <2>1. ASSUME NEW t \in Senders, spc'[t] # "idle"
        PROVE  sends'[t] > 0 /\ Msg(t)' \notin accepted'
    <3>1. t # s /\ spc[t] # "idle"
      BY <1>0, <1>put, <2>1 DEF TypeOK
    <3>2. Msg(t) # Msg(s)
      BY <3>1 DEF Msg
    <3> QED
      BY <1>0, <1>put, <3>1, <3>2 DEF CallsInv, Msg
  <2>2. \A m \in accepted' : m[2] <= sends[m[1]]
    BY <1>0, <1>put, <1>1 DEF CallsInv
  <2>3. spc'[Udp] # "idle" => upc = "cmd"
    BY <1>0, <1>put DEF CallsInv, TypeOK
  <2> QED
    BY <1>put, <2>1, <2>2, <2>3 DEF CallsInv
<1>13. HandlesInv'
  <2>1. ASSUME NEW k \in Queues
        PROVE  Created(k)' <=> Created(k)
    <3>1. k[1] \in Senders
      BY <1>0, QueueFacts
    <3>2. spc'[k[1]] # "create" <=> spc[k[1]] # "create"
      BY <1>0, <1>put, <3>1 DEF TypeOK
    <3> QED
      BY <1>put, <3>2 DEF Created
  <2>2. Created(h)
    BY <1>0, <1>1, Facts DEF HandlesInv, h, Queues
  <2>3. \A k \in Queues : ~Created(k)' => queue'[k] = <<>>
    BY <1>0, <1>2, <2>1, <2>2 DEF HandlesInv
  <2>4. udp_msgq' # Null => Created(udp_msgq)'
    BY <1>0, <1>put, <2>1 DEF HandlesInv, TypeOK
  <2>5. ASSUME NEW t \in Senders, hnd'[t] # Null
        PROVE  Created(hnd[t])'
    <3>1. hnd'[t] = hnd[t] /\ hnd[t] \in Queues /\ Created(hnd[t])
      BY <1>0, <1>put, <2>5 DEF TypeOK, HandlesInv
    <3> QED
      BY <1>put, <2>1, <3>1 DEF Created
  <2>6. (upc # "recv" => uh = Null) /\ (upc \in {"send", "free"} <=> got # Null)
    BY <1>0 DEF HandlesInv
  <2> QED
    BY <1>put, <2>3, <2>4, <2>5, <2>6 DEF HandlesInv
<1>14. PlacesInv'
  <2>1. Msg(s) \notin freed
    BY <1>0, <1>1 DEF PlacesInv
  <2>2. ASSUME NEW k \in Queues
        PROVE  Held(queue', k) \subseteq accepted' \ freed
    <3>1. Held(queue', k) \subseteq Held(queue, k) \cup {Msg(s)}
      BY <1>2
    <3>2. Held(queue, k) \subseteq accepted \ freed
      BY <1>0 DEF PlacesInv
    <3> QED
      BY <1>put, <2>1, <3>1, <3>2
  <2>3. freed \subseteq accepted' /\ (got # Null => got \in accepted' \ freed)
    BY <1>0, <1>put DEF PlacesInv
  <2> QED
    BY <1>put, <2>2, <2>3 DEF PlacesInv
<1>15. CurrentInv'
  <2>1. ASSUME NEW m \in Held(queue', udp_msgq)
        PROVE  m[2] = sends[m[1]] \/ spc'[m[1]] = "create"
    <3>1. CASE m = Msg(s)
      BY <1>1, <3>1
    <3>2. CASE m # Msg(s)
      <4>1. udp_msgq \in Queues \cup {Null}
        BY <1>0 DEF TypeOK
      <4>2. m \in Held(queue, udp_msgq)
        BY <1>2, <2>1, <3>2, <4>1
      <4>3. m[1] # s /\ (m[2] = sends[m[1]] \/ spc[m[1]] = "create")
        BY <1>0, <1>6, <4>2 DEF CurrentInv
      <4>4. m[1] \in Senders
        BY <1>0, <4>1, <4>2, HeldType, MsgPairs DEF TypeOK
      <4> QED
        BY <1>0, <1>put, <4>3, <4>4 DEF TypeOK
    <3> QED
      BY <3>1, <3>2
  <2>2. ASSUME NEW t \in Senders, spc'[t] = "put", NEW m \in Held(queue', hnd'[t])
        PROVE  m[1] # t
    <3>1. t # s /\ spc[t] = "put" /\ hnd'[t] = hnd[t] /\ hnd[t] \in Queues \cup {Null}
      BY <1>0, <1>put, <2>2 DEF TypeOK
    <3>2. m \in Held(queue, hnd[t]) \cup {Msg(s)}
      BY <1>2, <2>2, <3>1
    <3>3. \A n \in Held(queue, hnd[t]) : n[1] # t
      BY <1>0, <3>1 DEF CurrentInv
    <3> QED
      BY <1>1, <3>1, <3>2, <3>3
  <2>3. ASSUME upc = "recv", NEW m \in Held(queue', uh), m[1] = Udp
        PROVE  m[2] = sends[Udp]
    <3>1. m \in Held(queue, uh) \cup {Msg(s)}
      BY <1>0, <1>2, <2>3 DEF TypeOK
    <3> QED
      BY <1>0, <1>1, <2>3, <3>1 DEF CurrentInv
  <2> QED
    BY <1>put, <2>1, <2>2, <2>3 DEF CurrentInv
<1>16. OrderInv'
  <2>0. udp_msgq \in Queues \cup {Null} /\ uh \in Queues \cup {Null}
    BY <1>0 DEF TypeOK
  <2>1. ASSUME NEW t \in Senders, NEW i \in 1..Len(delivered[t])
        PROVE  /\ <<t, delivered[t][i]>> \in accepted
               /\ \A m \in Held(queue', udp_msgq) \cup Held(queue', uh) :
                     m[1] = t => delivered[t][i] < m[2]
    <3>1. /\ <<t, delivered[t][i]>> \in accepted
          /\ \A m \in Held(queue, udp_msgq) \cup Held(queue, uh) :
                m[1] = t => delivered[t][i] < m[2]
      BY <1>0 DEF OrderInv
    <3>2. t = s => delivered[t][i] < sends[s]
      BY <1>4, <3>1
    <3>3. Held(queue', udp_msgq) \cup Held(queue', uh)
             \subseteq Held(queue, udp_msgq) \cup Held(queue, uh) \cup {Msg(s)}
      BY <1>2, <2>0
    <3> QED
      BY <1>1, <3>1, <3>2, <3>3
  <2>2. ASSUME uh # udp_msgq, NEW m \in Held(queue', uh), NEW n \in Held(queue', udp_msgq),
               m[1] = n[1]
        PROVE  m[2] < n[2]
    <3>0. \A x \in Held(queue, uh), y \in Held(queue, udp_msgq) : x[1] = y[1] => x[2] < y[2]
      BY <1>0, <2>2 DEF OrderInv
    <3>1. CASE h = uh
      <4>1. n \in Held(queue, udp_msgq) /\ m \in Held(queue, uh) \cup {Msg(s)}
        BY <1>2, <2>0, <2>2, <3>1
      <4> QED
        BY <1>1, <1>6, <2>2, <3>0, <4>1
    <3>2. CASE h = udp_msgq
      <4>1. m \in Held(queue, uh) /\ n \in Held(queue, udp_msgq) \cup {Msg(s)}
        BY <1>2, <2>0, <2>2, <3>2
      <4>2. m \in accepted
        BY <1>5, <2>0, <4>1
      <4> QED
        BY <1>1, <1>4, <2>2, <3>0, <4>1, <4>2
    <3>3. CASE h # uh /\ h # udp_msgq
      BY <1>2, <2>0, <2>2, <3>0, <3>3
    <3> QED
      BY <3>1, <3>2, <3>3
  <2>3. ASSUME upc = "send", NEW n \in Held(queue', udp_msgq), got[1] = n[1]
        PROVE  got[2] < n[2]
    <3>1. n \in Held(queue, udp_msgq) \cup {Msg(s)}
      BY <1>2, <2>0, <2>3
    <3>2. \A x \in Held(queue, udp_msgq) : got[1] = x[1] => got[2] < x[2]
      BY <1>0, <2>3 DEF OrderInv
    <3>3. got \in accepted
      BY <1>0, <1>8, <2>3 DEF HandlesInv
    <3> QED
      BY <1>1, <1>4, <2>3, <3>1, <3>2, <3>3
  <2>4. \A t \in Senders : \A i \in 1..Len(delivered[t]) :
           upc = "send" /\ got[1] = t => delivered[t][i] < got[2]
    BY <1>0 DEF OrderInv
  <2> QED
    BY <1>put, <2>1, <2>2, <2>3, <2>4 DEF OrderInv
<1>17. HeldOnce'
  <2> SUFFICES ASSUME NEW k \in Queues, NEW l \in Queues,
                      NEW i \in 1..Len(queue'[k]), NEW j \in 1..Len(queue'[l])
               PROVE  /\ queue'[k][i] = queue'[l][j] => k = l /\ i = j
                      /\ queue'[k][i] # got
    BY <1>put DEF HeldOnce
  <2>1. Msg(s) # got
    BY <1>0, <1>1, <1>8, Facts
  <2>2. \A q \in Queues : \A n \in 1..Len(queue[q]) : queue[q][n] # Msg(s)
    BY <1>1, <1>7
  <2> QED
    BY <1>0, <1>9, <2>1, <2>2, SMTT(30) DEF HeldOnce
<1>18. OnePerSender'
  <2> SUFFICES ASSUME NEW k \in Queues, NEW i \in 1..Len(queue'[k]),
                      NEW j \in 1..Len(queue'[k]), queue'[k][i][1] = queue'[k][j][1]
               PROVE  i = j
    BY DEF OnePerSender
  <2>1. ASSUME NEW n \in 1..Len(queue[h])
        PROVE  queue[h][n][1] # s
    <3>1. queue[h][n] \in Held(queue, h)
      BY <1>1, Facts DEF Held, Queues
    <3> QED
      BY <1>0, <1>put, <3>1 DEF CurrentInv, h
  <2>2. CASE queue'[k][i] # Msg(s) /\ queue'[k][j] # Msg(s)
    BY <1>0, <1>9, <2>2 DEF OnePerSender
  <2>3. CASE queue'[k][i] = Msg(s)
    <3>1. k = h /\ i = Len(queue[h]) + 1
      BY <1>1, <1>7, <1>9, <2>3
    <3> QED
      BY <1>1, <1>9, <2>1, <2>3, <3>1
  <2>4. CASE queue'[k][j] = Msg(s)
    <3>1. k = h /\ j = Len(queue[h]) + 1
      BY <1>1, <1>7, <1>9, <2>4
    <3> QED
      BY <1>1, <1>9, <2>1, <2>4, <3>1
  <2> QED
    BY <2>2, <2>3, <2>4
<1>19. OwnAnswerIsLatest'
  BY <1>0, <1>put DEF OwnAnswerIsLatest
<1> QED
  BY <1>11, <1>12, <1>13, <1>14, <1>15, <1>16, <1>17, <1>18, <1>19 DEF IInv

\* What udp_thread takes out is older than the rest of its caller.
LEMMA RecvKeeps ==
  ASSUME IInv, Recv
  PROVE  IInv'
<1> USE Facts DEF IInv, Recv, sender
<1>1. uh \in Queues /\ queue[uh] # <<>> /\ upc = "recv"
  BY DEF HasMessage, TypeOK
<1>2. /\ queue' \in [Queues -> Seq(Msgs)]
      /\ got' = queue[uh][1] /\ got' \in Held(queue, uh)
      /\ Len(queue[uh]) \in Nat \ {0} /\ Len(queue'[uh]) = Len(queue[uh]) - 1
      /\ \A i \in 1..Len(queue'[uh]) : i + 1 \in 1..Len(queue[uh])
                                       /\ queue'[uh][i] = queue[uh][i + 1]
      /\ \A k \in Queues : k # uh => queue'[k] = queue[k]
      /\ \A k \in Queues \cup {Null} : Held(queue', k) \subseteq Held(queue, k)
  BY <1>1, HeldTail DEF TypeOK
<1>3. got' \in Msgs /\ got' \in accepted \ freed /\ got' # Null
  BY <1>1, <1>2, HeldType DEF PlacesInv, TypeOK
<1>4. Held(queue', uh') = {}
  BY DEF Held
\* Where the messages of a queue come from.
<1>5. \A k \in Queues : \A i \in 1..Len(queue'[k]) :
         \/ k = uh /\ i + 1 \in 1..Len(queue[k]) /\ queue'[k][i] = queue[k][i + 1]
         \/ k # uh /\ i \in 1..Len(queue[k]) /\ queue'[k][i] = queue[k][i]
  BY <1>1, <1>2
<1>6. 1 \in 1..Len(queue[uh])
  BY <1>2
<1>11. TypeOK'
  BY <1>1, <1>2, <1>3 DEF TypeOK
<1>12. CallsInv'
  BY DEF CallsInv, Msg
<1>13. HandlesInv'
  BY <1>1, <1>2, <1>3 DEF HandlesInv, Created
<1>14. PlacesInv'
  BY <1>2, <1>3 DEF PlacesInv
<1>15. CurrentInv'
  BY <1>2 DEF CurrentInv, TypeOK
<1>16. OrderInv'
  <2>1. ASSUME NEW t \in Senders, NEW i \in 1..Len(delivered[t])
        PROVE  /\ <<t, delivered[t][i]>> \in accepted
               /\ \A m \in Held(queue', udp_msgq) : m[1] = t => delivered[t][i] < m[2]
               /\ got'[1] = t => delivered[t][i] < got'[2]
    BY <1>2 DEF OrderInv, TypeOK
  <2>2. ASSUME NEW n \in Held(queue', udp_msgq), got'[1] = n[1]
        PROVE  got'[2] < n[2]
    <3>1. CASE uh = udp_msgq
      <4>1. PICK i \in 1..Len(queue'[uh]) : n = queue'[uh][i]
        BY <1>1, <2>2, <3>1 DEF Held
      <4>2. i + 1 \in 1..Len(queue[uh]) /\ queue[uh][i + 1][1] = queue[uh][1][1]
        BY <1>2, <2>2, <4>1
      <4>3. i + 1 = 1
        BY <1>1, <1>6, <4>2 DEF OnePerSender
      <4> QED
        BY <4>1, <4>3
    <3>2. CASE uh # udp_msgq
      BY <1>2, <2>2, <3>2 DEF OrderInv, TypeOK
    <3> QED
      BY <3>1, <3>2
  <2> QED
    BY <1>4, <2>1, <2>2 DEF OrderInv
<1>17. HeldOnce'
  <2> SUFFICES ASSUME NEW k \in Queues, NEW l \in Queues,
                      NEW i \in 1..Len(queue'[k]), NEW j \in 1..Len(queue'[l])
               PROVE  /\ queue'[k][i] = queue'[l][j] => k = l /\ i = j
                      /\ queue'[k][i] # got'
    BY DEF HeldOnce
  <2>1. queue'[k][i] = queue'[l][j] => k = l /\ i = j
    BY <1>5 DEF HeldOnce
  <2>2. queue'[k][i] # got'
    <3>1. CASE k = uh
      <4>1. i + 1 \in 1..Len(queue[uh]) /\ queue'[k][i] = queue[uh][i + 1] /\ i + 1 # 1
        BY <1>5, <3>1, SMTT(30)
      <4> QED
        BY <1>1, <1>2, <1>6, <4>1 DEF HeldOnce
    <3>2. CASE k # uh
      BY <1>1, <1>2, <1>5, <1>6, <3>2 DEF HeldOnce
    <3> QED
      BY <3>1, <3>2
  <2> QED
    BY <2>1, <2>2
<1>18. OnePerSender'
  BY <1>5 DEF OnePerSender
<1>19. OwnAnswerIsLatest'
  BY <1>1, <1>2 DEF OwnAnswerIsLatest, CurrentInv
<1> QED
  BY <1>11, <1>12, <1>13, <1>14, <1>15, <1>16, <1>17, <1>18, <1>19

-----------------------------------------------------------------------------
(***************************************************************************)
(* The theorems.                                                           *)
(***************************************************************************)

\* At the start nothing was sent and no queue exists.
LEMMA InitInv == Init => IInv
<1> SUFFICES ASSUME Init
             PROVE  IInv
  OBVIOUS
<1> USE Facts DEF Init
<1>1. \A q \in Queues \cup {Null} : Held(queue, q) = {}
  BY DEF Held
<1>2. TypeOK
  <2>1. sends \in [Senders -> 0..MaxSends]
    <3>1. 0 \in 0..MaxSends
      OBVIOUS
    <3> QED
      BY <3>1
  <2>2. queue \in [Queues -> Seq(Msgs)] /\ \A k \in Queues : Len(queue[k]) <= Capacity
    <3>1. <<>> \in Seq(Msgs) /\ Len(<<>>) = 0 /\ 0 <= Capacity
      OBVIOUS
    <3> QED
      BY <3>1
  <2>3. delivered \in [Senders -> Seq(1..MaxSends)]
    <3>1. <<>> \in Seq(1..MaxSends)
      OBVIOUS
    <3> QED
      BY <3>1
  <2>4. replies \in 0..2
    OBVIOUS
  <2> QED
    BY <2>1, <2>2, <2>3, <2>4 DEF TypeOK
<1>3. CallsInv /\ HandlesInv
  BY DEF CallsInv, HandlesInv
<1>4. PlacesInv /\ CurrentInv /\ OrderInv
  BY <1>1 DEF PlacesInv, CurrentInv, OrderInv
<1>5. HeldOnce /\ OnePerSender /\ OwnAnswerIsLatest
  BY DEF HeldOnce, OnePerSender, OwnAnswerIsLatest
<1> QED
  BY <1>2, <1>3, <1>4, <1>5 DEF IInv

\* A step of no context keeps the invariant.
LEMMA StutterInv ==
  ASSUME IInv, UNCHANGED vars
  PROVE  IInv'
<1> USE DEF vars, sender, thread
<1>1. TypeOK' /\ CallsInv' /\ HandlesInv'
  BY DEF IInv, TypeOK, CallsInv, HandlesInv, Msg, Created
<1>2. PlacesInv' /\ CurrentInv' /\ OrderInv'
  BY DEF IInv, PlacesInv, CurrentInv, OrderInv
<1>3. HeldOnce' /\ OnePerSender' /\ OwnAnswerIsLatest'
  BY SMTT(30) DEF IInv, HeldOnce, OnePerSender, OwnAnswerIsLatest
<1> QED
  BY <1>1, <1>2, <1>3 DEF IInv

\* Whatever step user_udp_send and udp_thread take, the invariant is kept.
LEMMA NextInv == IInv /\ [Next]_vars => IInv'
<1> SUFFICES ASSUME IInv, [Next]_vars
             PROVE  IInv'
  OBVIOUS
<1>1. ASSUME NEW s \in Senders, Call(s) \/ Sending(s)
      PROVE  IInv'
  BY <1>1, CallKeeps, CreateKeeps, FetchKeeps, PutKeeps, PutFailsKeeps DEF Sending
<1>2. CASE UdpStep
  BY <1>2, SelectKeeps, EchoKeeps, FetchRecvKeeps, RecvKeeps, RecvTimeoutKeeps,
     BroadcastKeeps, FreeKeeps DEF UdpStep
<1>3. CASE Packet
  BY <1>3, PacketKeeps
<1>4. CASE UNCHANGED vars
  BY <1>4, StutterInv
<1> QED
  BY <1>1, <1>2, <1>3, <1>4 DEF Next

\* The invariant holds in every state of user_udp_send and udp_thread
\* (user_udp.c:73-99, 147-168).
THEOREM Inductive == Spec => []IInv
<1>1. Init => IInv
  BY InitInv
<1>2. IInv /\ [Next]_vars => IInv'
  BY NextInv
<1> QED
  BY <1>1, <1>2, PTL DEF Spec

\* In particular no queue ever holds more than hfmsgq_create gave it room for,
\* and every handle and pointer is one the program made (user_udp.c:92-99, 158).
THEOREM TypeCorrect == Spec => []TypeOK
<1>1. IInv => TypeOK
  BY DEF IInv
<1> QED
  BY <1>1, Inductive, PTL

\* A message that was freed is nowhere: not in a queue, not in udp_thread's
\* hands, and no caller is about to send it.
LEMMA OwnerHolds == IInv => OneOwner
<1> SUFFICES ASSUME IInv
             PROVE  OneOwner
  OBVIOUS
<1>1. ASSUME NEW m \in freed
      PROVE  /\ m # got
             /\ \A s \in Senders : spc[s] # "idle" => Msg(s) # m
             /\ \A k \in Queues : \A i \in 1..Len(queue[k]) : queue[k][i] # m
  <2>1. m \in accepted /\ m # Null
    BY Facts DEF IInv, PlacesInv, TypeOK
  <2>2. m # got
    BY <2>1 DEF IInv, PlacesInv
  <2>3. \A s \in Senders : spc[s] # "idle" => Msg(s) # m
    BY <2>1 DEF IInv, CallsInv
  <2>4. \A k \in Queues : \A i \in 1..Len(queue[k]) : queue[k][i] # m
    BY Facts DEF IInv, PlacesInv, Held, Queues
  <2> QED
    BY <2>2, <2>3, <2>4
<1> QED
  BY <1>1 DEF IInv, OneOwner, FreedIsForgotten

\* A message has one owner at a time and is freed once (user_udp.c:92-99,
\* 158-168): what is freed was accepted, and only a call whose message was not
\* accepted yet still holds a pointer to it.
THEOREM OneOwnerHolds == Spec => []OneOwner
  BY OwnerHolds, Inductive, PTL

\* A new queue for every call keeps the queues free of a second message of the
\* same caller (user_udp.c:158).
THEOREM OnePerSenderHolds == Spec => []OnePerSender
<1>1. IInv => OnePerSender
  BY DEF IInv
<1> QED
  BY <1>1, Inductive, PTL

\* udp_thread broadcasts of its own messages only the last (user_udp.c:158, 92).
THEOREM OwnAnswerHolds == Spec => []OwnAnswerIsLatest
<1>1. IInv => OwnAnswerIsLatest
  BY DEF IInv
<1> QED
  BY <1>1, Inductive, PTL

\* A message put into a queue is one that the channel may accept.
LEMMA PutAccepts ==
  ASSUME IInv, NEW s \in Senders, Put(s)
  PROVE  Channel!Accept(s, sends[s])
<1>1. /\ sends[s] > 0 /\ Msg(s) \notin accepted /\ sends[s] \in Nat
      /\ accepted' = accepted \cup {Msg(s)} /\ delivered' = delivered
  BY Facts DEF IInv, CallsInv, TypeOK, Put, Step
<1>2. ASSUME NEW k \in 1..MaxSends, <<s, k>> \in accepted
      PROVE  k < sends[s]
  <2>1. k <= sends[s]
    BY <1>2 DEF IInv, CallsInv
  <2>2. k # sends[s]
    BY <1>1, <1>2 DEF Msg
  <2> QED
    BY <1>1, <2>1, <2>2, Facts
<1> QED
  BY <1>1, <1>2 DEF Channel!Accept, Msg

\* What udp_thread broadcasts is what the channel may deliver next.
LEMMA BroadcastDelivers ==
  ASSUME IInv, Broadcast
  PROVE  Channel!Deliver(got[1], got[2])
<1>1. got \in Msgs /\ got \in accepted
  BY DEF IInv, Broadcast, HandlesInv, PlacesInv, TypeOK
<1>2. got = <<got[1], got[2]>> /\ got[1] \in Senders
  BY <1>1, MsgPairs
<1>3. \A i \in 1..Len(delivered[got[1]]) : delivered[got[1]][i] < got[2]
  BY <1>2 DEF IInv, Broadcast, OrderInv
<1> QED
  BY <1>1, <1>2, <1>3 DEF Broadcast, Channel!Deliver

\* The channel begins as it must.
LEMMA ChannelBegins == Init => Channel!Init
  BY DEF Init, Channel!Init

\* Every step is one of the channel's or none.
LEMMA ChannelStep == IInv /\ [Next]_vars => [Channel!Next]_<<accepted, delivered>>
<1> SUFFICES ASSUME IInv, [Next]_vars
             PROVE  [Channel!Next]_<<accepted, delivered>>
  OBVIOUS
<1>1. ASSUME NEW s \in Senders, Put(s)
      PROVE  Channel!Next
  <2>1. sends[s] \in 1..MaxSends
    <3>1. sends[s] > 0 /\ sends[s] \in 0..MaxSends
      BY <1>1 DEF IInv, TypeOK, CallsInv, Put, Step
    <3> QED
      BY <3>1, Facts
  <2> QED
    BY <1>1, <2>1, PutAccepts DEF Channel!Next
<1>2. ASSUME NEW s \in Senders, Call(s) \/ Sending(s), ~Put(s)
      PROVE  UNCHANGED <<accepted, delivered>>
  BY <1>2 DEF Call, Sending, Create, Fetch, PutFails
<1>3. CASE Broadcast
  <2>1. got[1] \in Senders /\ got[2] \in 1..MaxSends
    BY <1>3, MsgPairs DEF IInv, HandlesInv, TypeOK, Broadcast
  <2> QED
    BY <1>3, <2>1, BroadcastDelivers DEF Channel!Next
<1>4. CASE UdpStep /\ ~Broadcast
  BY <1>4 DEF UdpStep, Select, Echo, FetchRecv, Recv, RecvTimeout, Free
<1>5. CASE Packet \/ UNCHANGED vars
  BY <1>5 DEF Packet, vars
<1> QED
  BY <1>1, <1>2, <1>3, <1>4, <1>5 DEF Next, Sending

\* user_udp_send and udp_thread implement the lossy channel that neither
\* invents, repeats nor, for one caller, reorders messages, although its calls
\* replace the queue under each other (user_udp.c:92-98, 147-168).
THEOREM Refinement == Spec => IsLossyFifo
  BY ChannelBegins, ChannelStep, Inductive, PTL DEF Spec, IsLossyFifo, Channel!Spec
=============================================================================
