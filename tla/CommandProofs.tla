--------------------------- MODULE CommandProofs ---------------------------
(***************************************************************************)
(* Proofs about Command for any number of plugs, tasks and settings and    *)
(* any set of commands: a command is carried out, its answer tells the     *)
(* truth, its repetition changes nothing, and a text that is not plain     *)
(* costs no cell ahead of it.                                              *)
(***************************************************************************)
EXTENDS Command, TLAPS

-----------------------------------------------------------------------------
(***************************************************************************)
(* The inductive invariant.                                                *)
(***************************************************************************)
PlugSteps == {"on", "name", "task", "answer"}

\* The handler is done with cell c of plug x, as far as writing goes.
PlugDone(c) == \/ c \in Ons   /\ pc # "on"
               \/ c \in Names /\ pc \in {"task", "answer"}
               \/ c \in Tasks /\ (pc = "answer" \/ (pc = "task" /\ c[3] < j))

\* It is done with cell c.  Once idle, it was, if the command was for it.
Done(c) == \/ pc = "idle" /\ Addressed(cmd)
           \/ pc = "send"
           \/ pc \in PlugSteps /\ (c \in Settings \/ c[2] < x \/ (c[2] = x /\ PlugDone(c)))

\* The answer has cell c, if it is to have it.
Answered(c) == IF c \in Ons THEN pc = "send" \/ (pc \in PlugSteps /\ c[2] < x)
                            ELSE Done(c)

\* The places of the handler.
PlaceInv ==
    /\ pc \notin PlugSteps => x = 0
    /\ pc # "task" => j = 0
    /\ pc # "idle" => cmd \in Commands
    /\ pc = "report" => cmd.report
    /\ pc \notin {"idle", "report", "dispatch"} => Addressed(cmd)

\* What cell c is to hold by now.
Expected(c) == IF Done(c) /\ Written(c) THEN Stored(c, cmd.ask[c]) ELSE before[c]

\* The command is carried out as far as the handler has got, and its own
\* texts have cost what they may.
WriteInv ==
    /\ u_config = [c \in Cells |-> u_config[c]]
    /\ before = [c \in Cells |-> before[c]]
    /\ \A c \in Cells \ touched :
          \/ u_config[c] = Expected(c)
          \/ u_config[c] = Lost /\ Endangered(c) /\ Addressed(cmd)

\* So is the answer put together.
AnswerInv ==
    pc # "idle" =>
        \A c \in Cells :
            IF Answered(c) /\ (c \in Ons \/ Asked(c))
            THEN c \notin touched /\ u_config[c] # Lost => answer[c] = u_config[c]
            ELSE answer[c] = Absent

\* What is sent so far.
Reported == IF cmd.report THEN <<"report">> ELSE <<>>
SentInv ==
    /\ pc = "report" => sent = <<>>
    /\ pc \notin {"idle", "report"} => sent = Reported
    /\ SentAsAsked

\* A command that is repeated finds stored what it asks.
AgainInv ==
    again => /\ touched = {} /\ \A c \in Cells : ~Wild(c)
             /\ Addressed(cmd) => \A c \in Cells :
                                     Written(c) => before[c] = Stored(c, cmd.ask[c])

IInv == TypeOK /\ PlaceInv /\ WriteInv /\ AnswerInv /\ SentInv /\ AgainInv

-----------------------------------------------------------------------------
(***************************************************************************)
(* Lemmas about cells and values.                                          *)
(***************************************************************************)

\* There is a plug, and every plug has a task.
LEMMA SizeFacts ==
    /\ NPlugs \in Nat \ {0} /\ NSlots \in Nat \ {0} /\ Numbers \subseteq Int
    /\ 0 \in Plugs /\ 0 \in Slots /\ Plugs \subseteq Nat /\ Slots \subseteq Nat
    /\ \A i \in Plugs : i <= NPlugs - 1 /\ (i < NPlugs - 1 => i + 1 \in Plugs)
    /\ \A k \in Slots : k <= NSlots - 1 /\ (k < NSlots - 1 => k + 1 \in Slots)
  BY SizesAssumption DEF Plugs, Slots

\* A cell is of one kind.
LEMMA CellFacts ==
    /\ \A c \in Cells : c \in Settings \/ c \in Ons \/ c \in Names \/ c \in Tasks
    /\ \A c \in Settings : c \in Cells /\ c \notin Ons /\ c \notin Names /\ c \notin Tasks
    /\ \A c \in Ons : c \in Cells /\ c \notin Names /\ c \notin Tasks
                      /\ c = <<"on", c[2]>> /\ c[2] \in Plugs
    /\ \A c \in Names : c \in Cells /\ c \notin Tasks
                        /\ c = <<"name", c[2]>> /\ c[2] \in Plugs
    /\ \A c \in Tasks : c \in Cells /\ c = <<"task", c[2], c[3]>>
                        /\ c[2] \in Plugs /\ c[3] \in Slots
<1>1. \A c \in Settings : c[1] = "setting"
  BY DEF Settings
<1>2. \A c \in Ons : c[1] = "on" /\ c = <<"on", c[2]>> /\ c[2] \in Plugs
  BY DEF Ons
<1>3. \A c \in Names : c[1] = "name" /\ c = <<"name", c[2]>> /\ c[2] \in Plugs
  BY DEF Names
<1>4. \A c \in Tasks : c[1] = "task" /\ c = <<"task", c[2], c[3]>>
                       /\ c[2] \in Plugs /\ c[3] \in Slots
  BY DEF Tasks
<1> QED
  BY <1>1, <1>2, <1>3, <1>4 DEF Cells

\* Plugs and tasks are numbered.
LEMMA CellIndex ==
    /\ \A c \in Cells : c \in Settings \/ (c[2] \in Plugs /\ c[2] \in Nat /\ ~(c[2] < 0))
    /\ \A c \in Tasks : c[3] \in Slots /\ c[3] \in Nat /\ ~(c[3] < 0)
<1>1. \A i \in Plugs : i \in Nat /\ ~(i < 0)
  BY SizeFacts
<1>2. \A i \in Slots : i \in Nat /\ ~(i < 0)
  BY SizeFacts
<1> QED
  BY <1>1, <1>2, CellFacts

\* The cells of plug i and of its task k.
LEMMA CellOf ==
    /\ \A c \in Cells, i \in Plugs :
          /\ c = <<"on", i>>   <=> c \in Ons   /\ c[2] = i
          /\ c = <<"name", i>> <=> c \in Names /\ c[2] = i
    /\ \A c \in Cells, i \in Plugs, k \in Slots :
          c = <<"task", i, k>> <=> c \in Tasks /\ c[2] = i /\ c[3] = k
    /\ \A i \in Plugs : <<"on", i>> \in Ons /\ <<"name", i>> \in Names
    /\ \A i \in Plugs, k \in Slots : <<"task", i, k>> \in Tasks
<1>1. \A i \in Plugs : <<"on", i>> \in Ons /\ <<"name", i>> \in Names
  BY DEF Ons, Names
<1>2. \A i \in Plugs, k \in Slots : <<"task", i, k>> \in Tasks
  BY DEF Tasks
<1>3. ASSUME NEW c \in Cells, NEW i \in Plugs
      PROVE  c = <<"on", i>> <=> c \in Ons /\ c[2] = i
  <2>1. c \in Ons => c = <<"on", c[2]>>
    BY CellFacts
  <2>2. CASE c \in Ons /\ c[2] = i
    BY <2>1, <2>2
  <2>3. CASE c = <<"on", i>>
    BY <1>1, <2>3
  <2> QED
    BY <2>2, <2>3
<1>4. ASSUME NEW c \in Cells, NEW i \in Plugs
      PROVE  c = <<"name", i>> <=> c \in Names /\ c[2] = i
  <2>1. c \in Names => c = <<"name", c[2]>>
    BY CellFacts
  <2>2. CASE c \in Names /\ c[2] = i
    BY <2>1, <2>2
  <2>3. CASE c = <<"name", i>>
    BY <1>1, <2>3
  <2> QED
    BY <2>2, <2>3
<1>5. ASSUME NEW c \in Cells, NEW i \in Plugs, NEW k \in Slots
      PROVE  c = <<"task", i, k>> <=> c \in Tasks /\ c[2] = i /\ c[3] = k
  <2>1. c \in Tasks => c = <<"task", c[2], c[3]>>
    BY CellFacts
  <2> QED
    BY <1>2, <2>1
<1> QED
  BY <1>1, <1>2, <1>3, <1>4, <1>5

\* What a cell may hold.
LEMMA ValuesOf ==
  ASSUME NEW numbers
  PROVE  /\ \A c \in Ons : Values(c, numbers) = numbers
         /\ \A c \in Tasks : Values(c, numbers) = Task(numbers)
         /\ \A c \in Settings \cup Names :
               /\ c = Port => Values(c, numbers) = Int
               /\ c # Port => Values(c, numbers) = Texts
  BY CellFacts DEF Values

\* A number's byte is one, whatever the number.
LEMMA ByteType == \A n \in Int : Byte(n) \in 0..255
  BY DEF Byte

\* What a command asks in the right form can be stored.
LEMMA StoredType ==
  ASSUME NEW m \in Commands, NEW c \in Cells, m.ask[c] \notin {Absent, Bad}
  PROVE  Stored(c, m.ask[c]) \in Values(c, 0..255)
<1>1. m.ask[c] \in Values(c, Numbers)
  BY CommandsAssumption
<1>2. CASE c \in Ons
  <2>1. m.ask[c] \in Int /\ Values(c, 0..255) = 0..255
    BY <1>1, <1>2, ValuesOf, SizeFacts, ZenonT(60)
  <2>2. Stored(c, m.ask[c]) = Byte(m.ask[c])
    BY <1>2, CellFacts DEF Stored
  <2> QED
    BY <2>1, <2>2, ByteType
<1>3. CASE c \in Tasks
  <2>1. m.ask[c] \in Task(Numbers) /\ Values(c, 0..255) = Task(0..255)
    BY <1>1, <1>3, ValuesOf
  <2>2. Stored(c, m.ask[c]) = [f \in Fields |-> Byte(m.ask[c][f])]
    BY <1>3, CellFacts DEF Stored
  <2>3. \A f \in Fields : Byte(m.ask[c][f]) \in 0..255
    BY <2>1, ByteType, SizeFacts DEF Task
  <2> QED
    BY <2>1, <2>2, <2>3 DEF Task
<1>4. CASE c \in Settings \cup Names
  <2>1. Values(c, Numbers) = Values(c, 0..255)
    <3>1. CASE c = Port
      <4>1. Values(c, Numbers) = Int /\ Values(c, 0..255) = Int
        BY <1>4, <3>1, ValuesOf, ZenonT(60)
      <4> QED
        BY <4>1
    <3>2. CASE c # Port
      <4>1. Values(c, Numbers) = Texts /\ Values(c, 0..255) = Texts
        BY <1>4, <3>2, ValuesOf, ZenonT(60)
      <4> QED
        BY <4>1
    <3> QED
      BY <3>1, <3>2
  <2>2. Stored(c, m.ask[c]) = m.ask[c]
    BY <1>4, CellFacts DEF Stored
  <2> QED
    BY <1>1, <2>1, <2>2
<1> QED
  BY <1>2, <1>3, <1>4, CellFacts

-----------------------------------------------------------------------------
(***************************************************************************)
(* Lemmas about a step of the handler.                                     *)
(***************************************************************************)

\* Within a command, it stays the same what its texts endanger.
LEMMA SameDanger ==
  ASSUME UNCHANGED cmd
  PROVE  /\ \A c \in Cells : (Written(c)' <=> Written(c)) /\ (Wild(c)' <=> Wild(c))
                             /\ (Endangered(c)' <=> Endangered(c))
         /\ Addressed(cmd)' <=> Addressed(cmd)
  BY DEF Endangered, Wild, Written, Addressed

\* What a write leaves in a cell.
LEMMA WriteCells ==
  ASSUME NEW S \in SUBSET Cells, Write(S)
  PROVE  /\ DOMAIN u_config' = Cells /\ u_config' = [c \in Cells |-> u_config'[c]]
         /\ \A c \in Cells :
               \/ c \in S /\ Written(c) /\ u_config'[c] = Stored(c, cmd.ask[c])
               \/ ~(c \in S /\ Written(c)) /\ u_config'[c] = u_config[c]
               \/ u_config'[c] = Lost /\ Endangered(c)
<1>1. PICK end \in [{w \in S : Wild(w)} -> Places] :
         u_config' = [c \in Cells |->
                       IF c \in S /\ Written(c) /\ ~Wild(c)
                       THEN Stored(c, cmd.ask[c])
                       ELSE IF \E w \in S : /\ Wild(w)
                                            /\ \/ w = c
                                               \/ Place(w) < Place(c) /\ Place(c) <= end[w]
                            THEN Lost ELSE u_config[c]]
  BY DEF Write
<1>2. DOMAIN u_config' = Cells /\ u_config' = [c \in Cells |-> u_config'[c]]
  BY <1>1
<1>3. ASSUME NEW c \in Cells
      PROVE  \/ c \in S /\ Written(c) /\ u_config'[c] = Stored(c, cmd.ask[c])
             \/ ~(c \in S /\ Written(c)) /\ u_config'[c] = u_config[c]
             \/ u_config'[c] = Lost /\ Endangered(c)
  <2> DEFINE Over(w) == \/ w = c
                        \/ Place(w) < Place(c) /\ Place(c) <= end[w]
  <2>1. u_config'[c] = IF c \in S /\ Written(c) /\ ~Wild(c) THEN Stored(c, cmd.ask[c])
                       ELSE IF \E w \in S : Wild(w) /\ Over(w) THEN Lost
                       ELSE u_config[c]
    BY <1>1
  <2>2. \A w \in Cells : Place(w) \in Int
    BY CellFacts, CellIndex, SizesAssumption DEF Place, Settings
  <2>3. \A w \in Cells : Wild(w) /\ Over(w) => Endangered(c)
    BY <2>2 DEF Endangered
  <2>4. Over(c)
    OBVIOUS
  <2> HIDE DEF Over
  <2> QED
    BY <2>1, <2>3, <2>4
<1> QED
  BY <1>2, <1>3

\* The cells of S are done with this step, and written as the command asks.
LEMMA WriteStep ==
  ASSUME IInv, NEW S \in SUBSET Cells, Write(S), UNCHANGED <<cmd, before, touched>>,
         pc \in PlugSteps \cup {"settings"},
         \A c \in Cells : Done(c)' <=> Done(c) \/ c \in S
  PROVE  /\ WriteInv' /\ DOMAIN u_config' = Cells
         /\ \A c \in Cells : u_config'[c] = Lost \/ u_config'[c] \in Values(c, 0..255)
         /\ \A c \in Cells \ S : u_config'[c] \in {u_config[c], Lost}
<1>1. DOMAIN u_config' = Cells /\ u_config' = [c \in Cells |-> u_config'[c]]
  BY WriteCells
<1>2. \A c \in Cells :
         \/ c \in S /\ Written(c) /\ u_config'[c] = Stored(c, cmd.ask[c])
         \/ ~(c \in S /\ Written(c)) /\ u_config'[c] = u_config[c]
         \/ u_config'[c] = Lost /\ Endangered(c)
  BY WriteCells
<1>3. \A c \in Cells : Written(c) => Stored(c, cmd.ask[c]) \in Values(c, 0..255)
  BY StoredType DEF IInv, PlaceInv, Written, PlugSteps
<1>4. \A c \in Cells : u_config'[c] = Lost \/ u_config'[c] \in Values(c, 0..255)
  BY <1>2, <1>3 DEF IInv, TypeOK
<1>a. Addressed(cmd)
  BY DEF IInv, PlaceInv, PlugSteps
<1>5. ASSUME NEW c \in Cells \ touched
      PROVE  \/ u_config'[c] = Expected(c)'
             \/ u_config'[c] = Lost /\ Endangered(c)' /\ Addressed(cmd)'
  <2>1. /\ Written(c)' <=> Written(c)
        /\ Endangered(c)' <=> Endangered(c)
        /\ Addressed(cmd)'
    BY <1>a, SameDanger
  <2>2. \/ u_config[c] = Expected(c)
        \/ u_config[c] = Lost /\ Endangered(c)
    BY DEF IInv, WriteInv
  <2> QED
    BY <1>2, <2>1, <2>2 DEF Expected
<1>6. before' = [c \in Cells |-> before'[c]]
  BY DEF IInv, WriteInv
<1> QED
  BY <1>1, <1>2, <1>4, <1>5, <1>6 DEF WriteInv

\* A step that writes nothing and is done with nothing.
LEMMA NoWriteStep ==
  ASSUME WriteInv, UNCHANGED <<u_config, cmd, before, touched>>,
         \A c \in Cells : Done(c)' <=> Done(c)
  PROVE  WriteInv'
<1>1. \A c \in Cells : Expected(c)' = Expected(c)
  BY SameDanger DEF Expected
<1>2. ASSUME NEW c \in Cells \ touched
      PROVE  \/ u_config'[c] = Expected(c)'
             \/ u_config'[c] = Lost /\ Endangered(c)' /\ Addressed(cmd)'
  BY <1>1, SameDanger DEF WriteInv
<1> QED
  BY <1>2 DEF WriteInv

\* The cells of S, no switches, go into the answer.
LEMMA CollectStep ==
  ASSUME IInv, NEW S, Collect(S), UNCHANGED <<cmd, touched>>, pc # "idle",
         \A c \in S : c \notin Ons,
         \A c \in Cells : u_config'[c] = Lost \/ u_config'[c] \in Values(c, 0..255),
         \A c \in Cells \ S : u_config'[c] \in {u_config[c], Lost},
         \A c \in Cells : Answered(c)' <=> Answered(c) \/ c \in S
  PROVE  /\ AnswerInv' /\ DOMAIN answer' = Cells
         /\ \A c \in Cells : answer'[c] \in {Lost, Absent} \/ answer'[c] \in Values(c, 0..255)
<1>1. /\ DOMAIN answer' = Cells
      /\ \A c \in Cells : answer'[c] = IF c \in S /\ Asked(c) THEN u_config'[c] ELSE answer[c]
  BY DEF Collect
<1>2. \A c \in Cells : answer'[c] \in {Lost, Absent} \/ answer'[c] \in Values(c, 0..255)
  BY <1>1 DEF IInv, TypeOK
<1>3. ASSUME NEW c \in Cells
      PROVE  IF Answered(c)' /\ (c \in Ons \/ Asked(c)')
             THEN c \notin touched' /\ u_config'[c] # Lost => answer'[c] = u_config'[c]
             ELSE answer'[c] = Absent
  <2>1. Asked(c)' <=> Asked(c)
    BY DEF Asked
  <2>2. IF Answered(c) /\ (c \in Ons \/ Asked(c))
        THEN c \notin touched /\ u_config[c] # Lost => answer[c] = u_config[c]
        ELSE answer[c] = Absent
    BY DEF IInv, AnswerInv
  <2> QED
    BY <1>1, <2>1, <2>2
<1> QED
  BY <1>1, <1>2, <1>3 DEF AnswerInv

\* A step that puts nothing into the answer.
LEMMA NoCollectStep ==
  ASSUME AnswerInv, UNCHANGED <<answer, cmd, touched>>, pc # "idle",
         \A c \in Cells : Answered(c) => u_config'[c] \in {u_config[c], Lost},
         \A c \in Cells : Answered(c)' <=> Answered(c)
  PROVE  AnswerInv'
<1>1. \A c \in Cells : Asked(c)' <=> Asked(c)
  BY DEF Asked
<1>2. ASSUME NEW c \in Cells
      PROVE  IF Answered(c)' /\ (c \in Ons \/ Asked(c)')
             THEN c \notin touched' /\ u_config'[c] # Lost => answer'[c] = u_config'[c]
             ELSE answer'[c] = Absent
  BY <1>1 DEF AnswerInv
<1> QED
  BY <1>2 DEF AnswerInv

\* Within the handler, what was sent and what is repeated stay as they are.
LEMMA SameCommand ==
  ASSUME SentInv, AgainInv, UNCHANGED <<cmd, before, touched, again, sent>>,
         pc \notin {"idle", "report"}, pc' \notin {"idle", "report"}
  PROVE  SentInv' /\ AgainInv'
<1>1. SentInv'
  BY DEF SentInv, SentAsAsked, Reported
<1>2. AgainInv'
  BY DEF AgainInv, Wild, Written, Addressed
<1> QED
  BY <1>1, <1>2

-----------------------------------------------------------------------------
(***************************************************************************)
(* Every step keeps the invariant.                                         *)
(***************************************************************************)

\* What appRestoreDefault leaves has the types of the cells.
LEMMA DefaultType == \A c \in Cells : Default[c] \in Values(c, 0..255)
<1>1. (CHOOSE t \in Plain : TRUE) \in Texts
  BY SizesAssumption
<1> SUFFICES ASSUME NEW c \in Cells
             PROVE  Default[c] \in Values(c, 0..255)
  OBVIOUS
<1>2. CASE c \in Ons
  <2>1. Values(c, 0..255) = 0..255
    BY <1>2, ValuesOf, ZenonT(60)
  <2>2. Default[c] = 0
    BY <1>2 DEF Default
  <2> QED
    BY <2>1, <2>2
<1>3. CASE c \in Tasks
  <2>1. Values(c, 0..255) = Task(0..255)
    BY <1>3, ValuesOf
  <2>2. Default[c] = [f \in Fields |-> IF f = "action" THEN 1 ELSE 0]
    BY <1>3, CellFacts DEF Default, Port, Settings
  <2>3. \A f \in Fields : (IF f = "action" THEN 1 ELSE 0) \in 0..255
    OBVIOUS
  <2> QED
    BY <2>1, <2>2, <2>3 DEF Task
<1>4. CASE c \in Settings \cup Names
  <2>1. /\ c = Port => Values(c, 0..255) = Int
        /\ c # Port => Values(c, 0..255) = Texts
    BY <1>4, ValuesOf, ZenonT(60)
  <2>2. c \notin Ons /\ c \notin Tasks
    BY <1>4, CellFacts
  <2> QED
    BY <1>1, <2>1, <2>2 DEF Default
<1> QED
  BY <1>2, <1>3, <1>4, CellFacts

\* At the start there is no command.
LEMMA InitInv == Init => IInv
<1> SUFFICES ASSUME Init
             PROVE  IInv
  OBVIOUS
<1> USE SizeFacts DEF Init
<1>1. ~Addressed(cmd)
  BY DEF NoCmd, Addressed
<1>2. TypeOK
  BY DefaultType DEF TypeOK, Default, Empty
<1>3. PlaceInv
  BY DEF PlaceInv
<1>4. WriteInv
  BY <1>1 DEF WriteInv, Expected, Done, PlugSteps, Default
<1>5. AnswerInv /\ SentInv /\ AgainInv
  BY DEF AnswerInv, SentInv, SentAsAsked, AgainInv
<1> QED
  BY <1>2, <1>3, <1>4, <1>5 DEF IInv

\* A command begins with what the last one left.
LEMMA ReceiveKeeps ==
  ASSUME IInv, NEW m \in Commands, Receive(m)
  PROVE  IInv'
<1> USE SizeFacts DEF Receive
<1>0. TypeOK /\ PlaceInv /\ WriteInv /\ AnswerInv /\ SentInv /\ AgainInv
  BY DEF IInv
<1>1. TypeOK'
  BY <1>0 DEF TypeOK, Empty
<1>2. PlaceInv'
  BY <1>0 DEF PlaceInv, PlugSteps
<1>3. WriteInv'
  BY <1>0 DEF WriteInv, Expected, Done, PlugSteps
<1>4. AnswerInv'
  <2>1. ASSUME NEW c \in Cells
        PROVE  ~Answered(c)' /\ answer'[c] = Absent
    BY DEF Answered, Done, PlugSteps, Empty
  <2> QED
    BY <2>1 DEF AnswerInv
<1>5. SentInv'
  BY DEF SentInv, SentAsAsked, Reported
<1>6. AgainInv'
  <2>0. again' => m = cmd /\ touched = {} /\ \A c \in Cells : ~Wild(c)
    OBVIOUS
  <2>1. again' => touched' = {} /\ \A c \in Cells : ~Wild(c)'
    BY <2>0 DEF Wild, Written
  <2>2. ASSUME again', Addressed(cmd)', NEW c \in Cells, Written(c)'
        PROVE  before'[c] = Stored(c, cmd'.ask[c])
    <3>1. Addressed(cmd) /\ Written(c) /\ Done(c) /\ cmd' = cmd
      BY <2>0, <2>2 DEF Addressed, Written, Done
    <3>2. ~Endangered(c)
      BY <2>0, <2>2 DEF Endangered
    <3>3. u_config[c] = Expected(c)
      BY <1>0, <2>0, <2>2, <3>2 DEF WriteInv
    <3> QED
      BY <3>1, <3>3 DEF Expected
  <2> QED
    BY <2>1, <2>2 DEF AgainInv
<1> QED
  BY <1>1, <1>2, <1>3, <1>4, <1>5, <1>6 DEF IInv

\* The report goes out, and the handler goes on.
LEMMA ReportKeeps ==
  ASSUME IInv, Report
  PROVE  IInv'
<1> USE DEF Report
<1>0. TypeOK /\ PlaceInv /\ WriteInv /\ AnswerInv /\ SentInv /\ AgainInv
  BY DEF IInv
<1>1. TypeOK' /\ PlaceInv'
  BY <1>0 DEF TypeOK, PlaceInv, PlugSteps
<1>2. \A c \in Cells : (Done(c)' <=> Done(c)) /\ (Answered(c)' <=> Answered(c))
  BY DEF Answered, Done, PlugSteps
<1>3. WriteInv'
  BY <1>0, <1>2, NoWriteStep
<1>4. AnswerInv'
  BY <1>0, <1>2, NoCollectStep
<1>5. SentInv'
  BY <1>0 DEF SentInv, SentAsAsked, Reported, PlaceInv
<1>6. AgainInv'
  BY <1>0 DEF AgainInv, Wild, Written, Addressed
<1> QED
  BY <1>1, <1>3, <1>4, <1>5, <1>6 DEF IInv

\* A command for nobody here ends, with nothing written.
LEMMA DispatchKeeps ==
  ASSUME IInv, Dispatch
  PROVE  IInv'
<1> USE DEF Dispatch, aux
<1>0. TypeOK /\ PlaceInv /\ WriteInv /\ AnswerInv /\ SentInv /\ AgainInv
  BY DEF IInv
<1>a. Addressed(cmd)' <=> Addressed(cmd)
  BY DEF Addressed
<1>1. TypeOK'
  BY <1>0 DEF TypeOK
<1>2. PlaceInv'
  BY <1>0, <1>a DEF PlaceInv, PlugSteps
<1>3. \A c \in Cells : /\ Done(c)' <=> Done(c)
                       /\ pc' # "idle" => (Answered(c)' <=> Answered(c))
  BY <1>a DEF Answered, Done, PlugSteps
<1>4. WriteInv'
  BY <1>0, <1>3, NoWriteStep
<1>5. AnswerInv'
  <2>1. CASE pc' = "idle"
    BY <2>1 DEF AnswerInv
  <2>2. CASE pc' # "idle"
    BY <1>0, <1>3, <2>2, NoCollectStep
  <2> QED
    BY <2>1, <2>2
<1>6. SentInv'
  <2>1. sent = Reported
    BY <1>0 DEF SentInv
  <2>2. Reported \o <<>> = Reported
    BY DEF Reported
  <2> QED
    BY <1>0, <1>a, <2>1, <2>2 DEF SentInv, SentAsAsked, Reported
<1>7. AgainInv'
  BY <1>0, <1>a DEF AgainInv, Wild, Written
<1> QED
  BY <1>1, <1>2, <1>4, <1>5, <1>6, <1>7 DEF IInv

\* The settings are written and go into the answer.
LEMMA DoSettingsKeeps ==
  ASSUME IInv, DoSettings
  PROVE  IInv'
<1> USE DEF DoSettings, aux
<1>0. TypeOK /\ PlaceInv /\ WriteInv /\ AnswerInv /\ SentInv /\ AgainInv
  BY DEF IInv
<1>1. x = 0 /\ j = 0
  BY <1>0 DEF PlaceInv, PlugSteps
<1>2. ASSUME NEW c \in Cells
      PROVE  /\ Done(c)' <=> Done(c) \/ c \in Settings
             /\ Answered(c)' <=> Answered(c) \/ c \in Settings
  <2>1. c \in Settings \/ (c[2] \in Nat /\ ~(c[2] < 0))
    BY CellIndex, SizeFacts
  <2> QED
    BY <1>1, <2>1, CellFacts DEF Done, Answered, PlugDone, PlugSteps
<1>3. /\ WriteInv' /\ DOMAIN u_config' = Cells
      /\ \A c \in Cells : u_config'[c] = Lost \/ u_config'[c] \in Values(c, 0..255)
      /\ \A c \in Cells \ Settings : u_config'[c] \in {u_config[c], Lost}
  <2>1. Settings \in SUBSET Cells
    BY CellFacts
  <2> QED
    BY <1>2, <2>1, WriteStep
<1>4. /\ AnswerInv' /\ DOMAIN answer' = Cells
      /\ \A c \in Cells : answer'[c] \in {Lost, Absent} \/ answer'[c] \in Values(c, 0..255)
  BY <1>2, <1>3, CollectStep, CellFacts
<1>5. TypeOK' /\ PlaceInv'
  BY <1>0, <1>3, <1>4 DEF TypeOK, PlaceInv, PlugSteps, Addressed
<1>6. SentInv' /\ AgainInv'
  BY <1>0, SameCommand
<1> QED
  BY <1>3, <1>4, <1>5, <1>6 DEF IInv

\* A plug is switched; its answer waits.
LEMMA PlugOnKeeps ==
  ASSUME IInv, PlugOn
  PROVE  IInv'
<1> USE DEF PlugOn, aux
<1>0. TypeOK /\ PlaceInv /\ WriteInv /\ AnswerInv /\ SentInv /\ AgainInv
  BY DEF IInv
<1>1. x \in Plugs /\ x \in Nat
  BY <1>0, SizeFacts DEF TypeOK
<1>2. ASSUME NEW c \in Cells
      PROVE  /\ Done(c)' <=> Done(c) \/ c \in {<<"on", x>>}
             /\ Answered(c)' <=> Answered(c)
             /\ Answered(c) => c # <<"on", x>>
  <2>1. c = <<"on", x>> <=> c \in Ons /\ c[2] = x
    BY <1>1, CellOf
  <2>2. c \in Settings \/ c[2] \in Nat
    BY CellIndex, SizeFacts
  <2> QED
    BY <1>1, <2>1, <2>2, CellFacts DEF Done, Answered, PlugDone, PlugSteps
<1>3. /\ WriteInv' /\ DOMAIN u_config' = Cells
      /\ \A c \in Cells : u_config'[c] = Lost \/ u_config'[c] \in Values(c, 0..255)
      /\ \A c \in Cells \ {<<"on", x>>} : u_config'[c] \in {u_config[c], Lost}
  <2>0. <<"on", x>> \in Cells
    BY <1>1, CellOf, CellFacts, ZenonT(30)
  <2>1. {<<"on", x>>} \in SUBSET Cells
    BY <2>0
  <2> QED
    BY <1>2, <2>1, WriteStep DEF PlugSteps
<1>4. AnswerInv'
  BY <1>0, <1>2, <1>3, NoCollectStep
<1>5. TypeOK' /\ PlaceInv'
  BY <1>0, <1>3 DEF TypeOK, PlaceInv, PlugSteps, Addressed
<1>6. SentInv' /\ AgainInv'
  BY <1>0, SameCommand
<1> QED
  BY <1>3, <1>4, <1>5, <1>6 DEF IInv

\* A plug is named.
LEMMA PlugNameKeeps ==
  ASSUME IInv, PlugName
  PROVE  IInv'
<1> USE DEF PlugName, aux
<1>0. TypeOK /\ PlaceInv /\ WriteInv /\ AnswerInv /\ SentInv /\ AgainInv
  BY DEF IInv
<1>1. x \in Plugs /\ x \in Nat /\ j = 0
  BY <1>0, SizeFacts DEF TypeOK, PlaceInv
<1>2. ASSUME NEW c \in Cells
      PROVE  /\ Done(c)' <=> Done(c) \/ c \in {<<"name", x>>}
             /\ Answered(c)' <=> Answered(c) \/ c \in {<<"name", x>>}
  <2>1. c = <<"name", x>> <=> c \in Names /\ c[2] = x
    BY <1>1, CellOf
  <2>2. c \in Settings \/ c[2] \in Nat
    BY CellIndex, SizeFacts
  <2>3. c \in Tasks => ~(c[3] < 0)
    BY CellIndex, SizeFacts
  <2> QED
    BY <1>1, <2>1, <2>2, <2>3, CellFacts DEF Done, Answered, PlugDone, PlugSteps
<1>3. /\ WriteInv' /\ DOMAIN u_config' = Cells
      /\ \A c \in Cells : u_config'[c] = Lost \/ u_config'[c] \in Values(c, 0..255)
      /\ \A c \in Cells \ {<<"name", x>>} : u_config'[c] \in {u_config[c], Lost}
  <2>0. <<"name", x>> \in Cells
    BY <1>1, CellOf, CellFacts, ZenonT(30)
  <2>1. {<<"name", x>>} \in SUBSET Cells
    BY <2>0
  <2> QED
    BY <1>2, <2>1, WriteStep DEF PlugSteps
<1>4. /\ AnswerInv' /\ DOMAIN answer' = Cells
      /\ \A c \in Cells : answer'[c] \in {Lost, Absent} \/ answer'[c] \in Values(c, 0..255)
  <2>1. <<"name", x>> \notin Ons
    BY <1>1, CellOf, CellFacts
  <2> QED
    BY <1>2, <1>3, <2>1, CollectStep
<1>5. TypeOK' /\ PlaceInv'
  BY <1>0, <1>3, <1>4 DEF TypeOK, PlaceInv, PlugSteps, Addressed
<1>6. SentInv' /\ AgainInv'
  BY <1>0, SameCommand
<1> QED
  BY <1>3, <1>4, <1>5, <1>6 DEF IInv

\* A task is written, and after the last one the plug's switch is due.
LEMMA PlugTaskKeeps ==
  ASSUME IInv, PlugTask
  PROVE  IInv'
<1> USE DEF PlugTask, aux
<1>0. TypeOK /\ PlaceInv /\ WriteInv /\ AnswerInv /\ SentInv /\ AgainInv
  BY DEF IInv
<1>1. x \in Plugs /\ x \in Nat /\ j \in Slots /\ j \in Nat
  BY <1>0, SizeFacts DEF TypeOK
<1>2. ASSUME NEW c \in Cells
      PROVE  /\ Done(c)' <=> Done(c) \/ c \in {<<"task", x, j>>}
             /\ Answered(c)' <=> Answered(c) \/ c \in {<<"task", x, j>>}
  <2>1. c = <<"task", x, j>> <=> c \in Tasks /\ c[2] = x /\ c[3] = j
    BY <1>1, CellOf
  <2>2. c \in Settings \/ c[2] \in Nat
    BY CellIndex, SizeFacts
  <2>3. c \in Tasks => c[3] \in Nat /\ c[3] <= NSlots - 1
    BY CellIndex, SizeFacts
  <2>4. PlugDone(c)' <=> PlugDone(c) \/ (c \in Tasks /\ c[3] = j)
    <3>1. CASE j < NSlots - 1
      BY <1>1, <2>3, <3>1, CellFacts DEF PlugDone
    <3>2. CASE ~(j < NSlots - 1)
      <4>1. j = NSlots - 1
        BY <1>1, <3>2, SizeFacts
      <4> QED
        BY <1>1, <2>3, <3>2, <4>1, SizeFacts, CellFacts DEF PlugDone
    <3> QED
      BY <3>1, <3>2
  <2> QED
    BY <1>1, <2>1, <2>2, <2>4, CellFacts DEF Done, Answered, PlugSteps
<1>3. /\ WriteInv' /\ DOMAIN u_config' = Cells
      /\ \A c \in Cells : u_config'[c] = Lost \/ u_config'[c] \in Values(c, 0..255)
      /\ \A c \in Cells \ {<<"task", x, j>>} : u_config'[c] \in {u_config[c], Lost}
  <2>0. <<"task", x, j>> \in Cells
    BY <1>1, CellOf, CellFacts, ZenonT(30)
  <2>1. {<<"task", x, j>>} \in SUBSET Cells
    BY <2>0
  <2> QED
    BY <1>2, <2>1, WriteStep DEF PlugSteps
<1>4. /\ AnswerInv' /\ DOMAIN answer' = Cells
      /\ \A c \in Cells : answer'[c] \in {Lost, Absent} \/ answer'[c] \in Values(c, 0..255)
  <2>1. <<"task", x, j>> \notin Ons
    BY <1>1, CellOf, CellFacts
  <2> QED
    BY <1>2, <1>3, <2>1, CollectStep
<1>5. TypeOK' /\ PlaceInv'
  <2>1. j' \in Slots /\ (pc' # "task" => j' = 0) /\ pc' \in {"task", "answer"}
    BY <1>1, SizeFacts
  <2> QED
    BY <1>0, <1>3, <1>4, <2>1 DEF TypeOK, PlaceInv, PlugSteps, Addressed
<1>6. SentInv' /\ AgainInv'
  BY <1>0, SameCommand
<1> QED
  BY <1>3, <1>4, <1>5, <1>6 DEF IInv

\* The plug's switch goes into the answer as it is by now.
LEMMA PlugAnswerKeeps ==
  ASSUME IInv, PlugAnswer
  PROVE  IInv'
<1> USE DEF PlugAnswer, aux
<1>0. TypeOK /\ PlaceInv /\ WriteInv /\ AnswerInv /\ SentInv /\ AgainInv
  BY DEF IInv
<1>1. x \in Plugs /\ x \in Nat /\ j = 0
  BY <1>0, SizeFacts DEF TypeOK, PlaceInv
<1>2. ASSUME NEW c \in Cells
      PROVE  /\ Done(c)' <=> Done(c)
             /\ Answered(c)' <=> Answered(c) \/ c = <<"on", x>>
  <2>1. c = <<"on", x>> <=> c \in Ons /\ c[2] = x
    BY <1>1, CellOf
  <2>2. c \in Settings \/ (c[2] \in Nat /\ c[2] <= NPlugs - 1 /\ PlugDone(c))
    BY CellFacts, CellIndex, SizeFacts DEF PlugDone
  <2>3. c \notin Settings => ~PlugDone(c)' \/ pc' = "send" \/ c \in Ons \cup Names \cup Tasks
    BY CellFacts
  <2>4. CASE x < NPlugs - 1
    <3>1. x' = x + 1 /\ pc' = "on" /\ ~PlugDone(c)'
      BY <2>4 DEF PlugDone
    <3> QED
      BY <1>1, <2>1, <2>2, <3>1, CellFacts DEF Done, Answered, PlugSteps
  <2>5. CASE ~(x < NPlugs - 1)
    <3>1. x = NPlugs - 1 /\ pc' = "send"
      BY <1>1, <2>5, SizeFacts
    <3> QED
      BY <1>1, <2>1, <2>2, <3>1, SizeFacts, CellFacts DEF Done, Answered, PlugSteps
  <2> QED
    BY <2>4, <2>5
<1>3. WriteInv'
  BY <1>0, <1>2, NoWriteStep
<1>4. answer' = [answer EXCEPT ![<<"on", x>>] = u_config[<<"on", x>>]] /\ <<"on", x>> \in Cells
      /\ <<"on", x>> \in Ons
  BY <1>1, CellOf, CellFacts
<1>5. \A c \in Cells : answer'[c] = IF c = <<"on", x>> THEN u_config[c] ELSE answer[c]
  BY <1>0, <1>4 DEF TypeOK
<1>6. AnswerInv'
  <2>1. ASSUME NEW c \in Cells
        PROVE  IF Answered(c)' /\ (c \in Ons \/ Asked(c)')
               THEN c \notin touched' /\ u_config'[c] # Lost => answer'[c] = u_config'[c]
               ELSE answer'[c] = Absent
    <3>1. Asked(c)' <=> Asked(c)
      BY DEF Asked
    <3> QED
      BY <1>0, <1>2, <1>4, <1>5, <3>1 DEF AnswerInv
  <2> QED
    BY <2>1 DEF AnswerInv
<1>7. TypeOK'
  <2>1. x' \in Plugs /\ pc' \in {"on", "send"}
    BY <1>1, SizeFacts
  <2>2. \A c \in Cells : answer'[c] \in {Lost, Absent} \/ answer'[c] \in Values(c, 0..255)
    BY <1>0, <1>5 DEF TypeOK
  <2>3. DOMAIN answer' = Cells
    BY <1>0, <1>4 DEF TypeOK
  <2> QED
    BY <1>0, <2>1, <2>2, <2>3 DEF TypeOK
<1>8. PlaceInv'
  BY <1>0, <1>1 DEF PlaceInv, PlugSteps, Addressed
<1>9. SentInv' /\ AgainInv'
  BY <1>0, SameCommand
<1> QED
  BY <1>3, <1>6, <1>7, <1>8, <1>9 DEF IInv

\* The answer is sent, and the command is done with.
LEMMA SendKeeps ==
  ASSUME IInv, Send
  PROVE  IInv'
<1> USE DEF Send
<1>0. TypeOK /\ PlaceInv /\ WriteInv /\ AnswerInv /\ SentInv /\ AgainInv
  BY DEF IInv
<1>1. Addressed(cmd) /\ Addressed(cmd')
  BY <1>0 DEF PlaceInv, Addressed
<1>2. TypeOK' /\ PlaceInv'
  BY <1>0 DEF TypeOK, PlaceInv, PlugSteps
<1>3. \A c \in Cells : Done(c)' <=> Done(c)
  BY <1>1 DEF Done, PlugSteps
<1>4. WriteInv'
  BY <1>0, <1>3, NoWriteStep
<1>5. AnswerInv'
  BY DEF AnswerInv
<1>6. SentInv'
  <2>1. sent = Reported
    BY <1>0 DEF SentInv
  <2>2. Append(Reported, "answer") = Reported \o <<"answer">>
    BY DEF Reported
  <2> QED
    BY <1>1, <2>1, <2>2 DEF SentInv, SentAsAsked, Reported
<1>7. AgainInv'
  BY <1>0, <1>1 DEF AgainInv, Wild, Written
<1> QED
  BY <1>2, <1>4, <1>5, <1>6, <1>7 DEF IInv

\* Another context writes a cell of its own, and it counts as touched.
LEMMA OthersKeep ==
  ASSUME IInv, NEW c \in Ons \cup Tasks, NEW v \in Values(c, 0..255),
         u_config' = [u_config EXCEPT ![c] = v], touched' = touched \cup {c},
         again' = FALSE, UNCHANGED <<where, cmd, answer, before, sent>>
  PROVE  IInv'
<1> USE DEF where
<1>0. TypeOK /\ PlaceInv /\ WriteInv /\ AnswerInv /\ SentInv
  BY DEF IInv
<1>1. c \in Cells /\ u_config = [d \in Cells |-> u_config[d]]
  BY <1>0, CellFacts DEF WriteInv
<1>2. /\ u_config' = [d \in Cells |-> u_config'[d]] /\ DOMAIN u_config' = Cells
      /\ \A d \in Cells : u_config'[d] = IF d = c THEN v ELSE u_config[d]
  BY <1>1
<1>3. TypeOK'
  BY <1>0, <1>1, <1>2 DEF TypeOK
<1>4. PlaceInv' /\ SentInv' /\ AgainInv'
  BY <1>0 DEF PlaceInv, Addressed, SentInv, SentAsAsked, Reported, AgainInv
<1>5. ASSUME NEW d \in Cells
      PROVE  /\ Done(d)' <=> Done(d)
             /\ Written(d)' <=> Written(d)
             /\ Answered(d)' <=> Answered(d)
             /\ Asked(d)' <=> Asked(d)
  BY DEF Done, PlugDone, Addressed, Written, Answered, Asked
<1>6. WriteInv'
  <2>1. ASSUME NEW d \in Cells \ touched'
        PROVE  \/ u_config'[d] = Expected(d)'
               \/ u_config'[d] = Lost /\ Endangered(d)' /\ Addressed(cmd)'
    <3>1. Expected(d)' = Expected(d)
      BY <1>5 DEF Expected
    <3> QED
      BY <1>0, <1>2, <3>1, SameDanger DEF WriteInv
  <2>2. before' = [d \in Cells |-> before'[d]]
    BY <1>0 DEF WriteInv
  <2> QED
    BY <1>2, <2>1, <2>2 DEF WriteInv
<1>7. AnswerInv'
  <2> SUFFICES ASSUME pc # "idle", NEW d \in Cells
               PROVE  IF Answered(d)' /\ (d \in Ons \/ Asked(d)')
                      THEN d \notin touched' /\ u_config'[d] # Lost => answer'[d] = u_config'[d]
                      ELSE answer'[d] = Absent
    BY DEF AnswerInv
  <2> QED
    BY <1>0, <1>2, <1>5 DEF AnswerInv
<1> QED
  BY <1>3, <1>4, <1>6, <1>7 DEF IInv

\* A relay is set.
LEMMA SetRelayKeeps ==
  ASSUME IInv, NEW i \in Plugs, NEW y \in Levels, SetRelay(i, y)
  PROVE  IInv'
<1>1. <<"on", i>> \in Ons
  BY CellOf
<1>2. y \in Values(<<"on", i>>, 0..255)
  <2>1. \A c \in Ons : Values(c, 0..255) = 0..255
    BY ValuesOf, ZenonT(60)
  <2>2. y \in 0..255
    BY SizesAssumption
  <2> QED
    BY <1>1, <2>1, <2>2, ZenonT(60)
<1> QED
  BY <1>1, <1>2, OthersKeep DEF SetRelay

\* A task is disarmed in place.
LEMMA DisarmKeeps ==
  ASSUME IInv, NEW c \in Tasks, Disarm(c)
  PROVE  IInv'
<1>1. u_config[c] \in Task(0..255) /\ Values(c, 0..255) = Task(0..255)
  BY ValuesOf, CellFacts DEF IInv, TypeOK, Disarm
<1>2. [u_config[c] EXCEPT !["on"] = 0] \in Values(c, 0..255)
  <2>1. 0 \in 0..255
    OBVIOUS
  <2> QED
    BY <1>1, <2>1 DEF Task
<1>3. u_config' = [u_config EXCEPT ![c] = [u_config[c] EXCEPT !["on"] = 0]]
  BY DEF Disarm
<1> QED
  BY <1>2, <1>3, OthersKeep DEF Disarm

\* Whatever step is taken, the invariant is kept.
LEMMA NextInv == IInv /\ [Next]_vars => IInv'
<1> SUFFICES ASSUME IInv, [Next]_vars
             PROVE  IInv'
  OBVIOUS
<1>1. CASE \E m \in Commands : Receive(m)
  BY <1>1, ReceiveKeeps
<1>2. CASE Handler
  BY <1>2, ReportKeeps, DispatchKeeps, DoSettingsKeeps, PlugOnKeeps, PlugNameKeeps,
     PlugTaskKeeps, PlugAnswerKeeps, SendKeeps DEF Handler
<1>3. CASE \E i \in Plugs, y \in Levels : SetRelay(i, y)
  BY <1>3, SetRelayKeeps
<1>4. CASE \E c \in Tasks : Disarm(c)
  BY <1>4, DisarmKeeps
<1>5. CASE UNCHANGED vars
  <2> USE <1>5 DEF vars, where, aux
  <2>1. TypeOK' /\ PlaceInv'
    BY DEF IInv, TypeOK, PlaceInv, Addressed
  <2>2. WriteInv'
    BY DEF IInv, WriteInv, Expected, Endangered, Done, PlugDone, Addressed, Wild, Written
  <2>3. AnswerInv'
    BY DEF IInv, AnswerInv, Answered, Done, PlugDone, Addressed, Asked
  <2>4. SentInv' /\ AgainInv'
    BY DEF IInv, SentInv, SentAsAsked, Reported, AgainInv, Addressed, Wild, Written
  <2> QED
    BY <2>1, <2>2, <2>3, <2>4 DEF IInv
<1> QED
  BY <1>1, <1>2, <1>3, <1>4, <1>5 DEF Next

-----------------------------------------------------------------------------
(***************************************************************************)
(* The theorems.                                                           *)
(***************************************************************************)

\* The invariant holds in every state of the handler, whatever the other
\* contexts write between its steps (user_function.c:29-315).
THEOREM Inductive == Spec => []IInv
  BY InitInv, NextInv, PTL DEF Spec

\* Every switch and every field of a task that can be told at all is a byte
\* and no plug or task is indexed that does not exist, whatever numbers the
\* JSON text has
\* (user_function.c:196-315).
THEOREM TypeCorrect == Spec => []TypeOK
<1>1. IInv => TypeOK
  BY DEF IInv
<1> QED
  BY <1>1, Inductive, PTL

\* A command is carried out, every number as its low byte, for any number of
\* plugs and tasks; one for another device changes nothing; and one with a
\* text that is not plain harms nothing ahead of that text
\* (user_function.c:72, 99-166, 298-302).
THEOREM CommandIsCarriedOut == Spec => []CarriedOut
<1>1. IInv => CarriedOut
  <2> SUFFICES ASSUME IInv, pc = "send" \/ (pc = "idle" /\ ~Addressed(cmd)),
                      NEW c \in Cells \ touched
               PROVE  \/ u_config[c] = IF pc = "send" /\ Written(c)
                                       THEN Stored(c, cmd.ask[c]) ELSE before[c]
                      \/ pc = "send" /\ u_config[c] = Lost /\ Endangered(c)
    BY DEF CarriedOut
  <2>1. Done(c) <=> pc = "send"
    BY DEF Done, PlugSteps
  <2> QED
    BY <2>1 DEF IInv, WriteInv, Expected
<1> QED
  BY <1>1, Inductive, PTL

\* The answer has every switch and whatever was asked, as it is when the answer
\* is sent, but for what another context has just written
\* (user_function.c:143-168, 241, 256, 304).
THEOREM AnswerTrue == Spec => []AnswerIsTrue
<1>1. IInv => AnswerIsTrue
  <2> SUFFICES ASSUME IInv, pc = "send", NEW c \in Cells \ touched
               PROVE  /\ ~(c \in Ons \/ Asked(c)) => answer[c] = Absent
                      /\ (c \in Ons \/ Asked(c)) /\ u_config[c] # Lost
                         => answer[c] = u_config[c]
    BY DEF AnswerIsTrue
  <2>1. Answered(c)
    BY DEF Answered, Done
  <2> QED
    BY <2>1 DEF IInv, AnswerInv
<1> QED
  BY <1>1, Inductive, PTL

\* Report and answer are sent as asked for, in this order, once
\* (user_function.c:47-65, 171).
THEOREM SentInOrder == Spec => []SentAsAsked
<1>1. IInv => SentAsAsked
  BY DEF IInv, SentInv
<1> QED
  BY <1>1, Inductive, PTL

\* A command of plain texts that the network delivers again, with nobody else
\* writing in between, changes nothing at any point of its second run
\* (user_function.c:218, 298).
THEOREM Repetition == Spec => []RepetitionIsHarmless
<1>1. IInv => RepetitionIsHarmless
  <2> SUFFICES ASSUME IInv, again
               PROVE  u_config = before
    BY DEF RepetitionIsHarmless
  <2>1. ASSUME NEW c \in Cells
        PROVE  u_config[c] = before[c]
    <3>0. touched = {} /\ ~Endangered(c)
      BY DEF IInv, AgainInv, Endangered
    <3>1. u_config[c] = IF Done(c) /\ Written(c) THEN Stored(c, cmd.ask[c]) ELSE before[c]
      BY <3>0 DEF IInv, WriteInv, Expected
    <3>2. Done(c) => Addressed(cmd)
      BY DEF IInv, PlaceInv, Done, PlugSteps
    <3> QED
      BY <3>1, <3>2 DEF IInv, AgainInv
  <2>2. u_config = [c \in Cells |-> u_config[c]] /\ before = [c \in Cells |-> before[c]]
    BY DEF IInv, WriteInv
  <2> QED
    BY <2>1, <2>2
<1> QED
  BY <1>1, Inductive, PTL
=============================================================================
