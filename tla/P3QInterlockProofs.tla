------------------------- MODULE P3QInterlockProofs -------------------------
(***************************************************************************)
(* Proofs about the FSM, for every set of events and every width of the    *)
(* counter, and about the interlock around it, for every number of events, *)
(* every command table entry and every set of liberties.  Inv is inductive *)
(* for the FSM by itself: its first three parts say which values registers *)
(* and outputs hold in each state, Timing what they have to do with the    *)
(* time spent.  LinkInv is inductive for the interlock: Inv, the types of  *)
(* the wires, and what the parties know of each other.                     *)
(***************************************************************************)
EXTENDS P3QInterlock, TLAPS

-----------------------------------------------------------------------------
(* The FSM by itself: module Handshake.                                    *)
Inv == TypeOK /\ SignalsMatchState /\ NothingUnset /\ Timing

(* After a reset the registers are unset, the outputs idle: Inv holds.     *)
LEMMA InitInv == Init => Inv
<1> SUFFICES ASSUME Init PROVE Inv
  OBVIOUS
<1> USE DEF Init
<1>1. TypeOK
  <2>1. 0 \in 0 .. CounterSize - 1 /\ 0 \in 0 .. CounterSize
    BY CounterAssumption, SMT DEF CounterAssumption
  <2>2. state \in States
    BY DEF States
  <2>3. eventReady \in BOOLEAN /\ resultValid \in BOOLEAN /\ cmdValid \in BOOLEAN /\ rspReady \in BOOLEAN
    OBVIOUS
  <2> QED
    BY <2>1, <2>2, <2>3 DEF TypeOK
<1>2. SignalsMatchState
  BY DEF SignalsMatchState
<1>3. NothingUnset
  BY DEF NothingUnset
<1>4. Timing
  BY DEF Timing
<1> QED
  BY <1>1, <1>2, <1>3, <1>4 DEF Inv

(* The counter process keeps the counter inside its width.                 *)
LEMMA CountInRange ==
  ASSUME TypeOK, Count
  PROVE  /\ cycle' \in 0 .. CounterSize - 1
         /\ state \notin {"ISSUE_CMD", "WAIT_RSP"} => cycle' = 0
         /\ state \in {"ISSUE_CMD", "WAIT_RSP"} =>
              cycle' = IF cycle + 1 = CounterSize THEN 0 ELSE cycle + 1
  BY CounterAssumption, SMT DEF CounterAssumption, TypeOK, Count

(* The history variables count edges and stay in their range.              *)
LEMMA ObserveInRange ==
  ASSUME TypeOK, Observe
  PROVE  /\ elapsed' \in 0 .. CounterSize /\ waited' \in Nat
         /\ state = "IDLE" => elapsed' = 0 /\ waited' = 0
         /\ state \in {"ISSUE_CMD", "WAIT_RSP"} =>
              elapsed' = IF elapsed < CounterSize THEN elapsed + 1 ELSE elapsed
         /\ state = "WAIT_RSP" => waited' = waited + 1
         /\ state \notin {"IDLE", "WAIT_RSP"} => waited' = waited
  BY CounterAssumption, SMT DEF CounterAssumption, TypeOK, Observe

(* The counter never runs ahead of the edges spent.                        *)
LEMMA CounterKeepsUp ==
  ASSUME TypeOK, Timing, Count, Observe, state \in {"ISSUE_CMD", "WAIT_RSP"}
  PROVE  cycle' <= elapsed'
<1>1. cycle <= elapsed
  BY DEF Timing
<1>2. cycle' = (IF cycle + 1 = CounterSize THEN 0 ELSE cycle + 1)
  BY CountInRange
<1>3. elapsed' = (IF elapsed < CounterSize THEN elapsed + 1 ELSE elapsed)
  BY ObserveInRange
<1>4. cycle \in 0 .. CounterSize - 1 /\ elapsed \in 0 .. CounterSize /\ CounterSize \in Nat
  BY CounterAssumption, SMT DEF TypeOK, CounterAssumption
<1> QED
  BY <1>1, <1>2, <1>3, <1>4, SMT

(* The command table only has entries of type Command.                     *)
LEMMA TranslatedType == ASSUME NEW t PROVE Translated(t) \in Command
<1>1. 0 \in Shots /\ 1 \in Shots /\ MaxShots \in Shots
  BY ShotsAssumption, SMT DEF ShotsAssumption, Shots
<1> QED
  BY <1>1 DEF Translated, Command

(* The timeout result is a result: its id is that of the latched event.    *)
LEMMA TimeoutResultType ==
  ASSUME NothingUnset, state = "WAIT_RSP" PROVE TimeoutResult \in Response
<1>1. 0 \in Shots
  BY ShotsAssumption, SMT DEF ShotsAssumption, Shots
<1> QED
  BY <1>1, DataAssumption, StatusAssumption
     DEF NothingUnset, TimeoutResult, Response, DataAssumption, StatusAssumption

(* An idle edge without an event. *)
LEMMA AwaitInv == ASSUME Inv, Await PROVE Inv'
<1>1. TypeOK /\ SignalsMatchState /\ NothingUnset /\ Timing
  BY DEF Inv
<1>2. Count /\ Observe
  BY DEF Await, Edge
<1>3. cycle' \in 0 .. CounterSize - 1 /\ elapsed' \in 0 .. CounterSize /\ waited' \in Nat
  BY <1>1, <1>2, CountInRange, ObserveInRange
<1>4. TypeOK'
  BY <1>1, <1>3 DEF Await, TypeOK, registers, ports, States, NothingUnset
<1>5. SignalsMatchState'
  BY <1>1 DEF Await, SignalsMatchState, TypeOK, registers, ports
<1>6. NothingUnset'
  BY <1>1 DEF Await, NothingUnset, registers, ports
<1>7. Timing'
  BY <1>1, <1>2, CountInRange, ObserveInRange, SMT
     DEF Await, TypeOK, NothingUnset, Timing, Deadline, registers, ports
<1> QED
  BY <1>4, <1>5, <1>6, <1>7 DEF Inv

(* The edge that latches an event. *)
LEMMA AcceptInv == ASSUME Inv, NEW e \in Event, Accept(e) PROVE Inv'
<1>1. TypeOK /\ SignalsMatchState /\ NothingUnset /\ Timing
  BY DEF Inv
<1>2. Count /\ Observe
  BY DEF Accept, Edge
<1>3. cycle' \in 0 .. CounterSize - 1 /\ elapsed' \in 0 .. CounterSize /\ waited' \in Nat
  BY <1>1, <1>2, CountInRange, ObserveInRange
<1>4. TypeOK'
  BY <1>1, <1>3 DEF Accept, TypeOK, registers, ports, States, NothingUnset, Event
<1>5. SignalsMatchState'
  BY <1>1 DEF Accept, SignalsMatchState, TypeOK, registers, ports
<1>6. NothingUnset'
  BY <1>1 DEF Accept, NothingUnset, registers, ports, Event
<1>7. Timing'
  BY <1>1, <1>2, CountInRange, ObserveInRange, SMT
     DEF Accept, TypeOK, NothingUnset, Timing, Deadline, registers, ports, Event
<1> QED
  BY <1>4, <1>5, <1>6, <1>7 DEF Inv

(* The edge that fills the command register. *)
LEMMA TranslateInv == ASSUME Inv, NEW p \in Params, Translate(p) PROVE Inv'
<1>1. TypeOK /\ SignalsMatchState /\ NothingUnset /\ Timing
  BY DEF Inv
<1>2. Count /\ Observe
  BY DEF Translate, Edge
<1>3. cycle' \in 0 .. CounterSize - 1 /\ elapsed' \in 0 .. CounterSize /\ waited' \in Nat
  BY <1>1, <1>2, CountInRange, ObserveInRange
<1>4. TypeOK'
  BY <1>1, <1>3, TranslatedType DEF Translate, TypeOK, registers, ports, States, NothingUnset, TranslatedCommand
<1>5. SignalsMatchState'
  BY <1>1 DEF Translate, SignalsMatchState, TypeOK, registers, ports
<1>6. NothingUnset'
  BY <1>1, TranslatedType DEF Translate, NothingUnset, registers, ports, TranslatedCommand
<1>7. Timing'
  BY <1>1, <1>2, CountInRange, ObserveInRange, SMT
     DEF Translate, TypeOK, NothingUnset, Timing, Deadline, registers, ports
<1> QED
  BY <1>4, <1>5, <1>6, <1>7 DEF Inv

(* An edge in ISSUE_CMD, with or without cmd_ready. *)
LEMMA IssueCmdInv == ASSUME Inv, NEW ready \in BOOLEAN, IssueCmd(ready) PROVE Inv'
<1>1. TypeOK /\ SignalsMatchState /\ NothingUnset /\ Timing
  BY DEF Inv
<1>2. Count /\ Observe
  BY DEF IssueCmd, Edge
<1>3. cycle' \in 0 .. CounterSize - 1 /\ elapsed' \in 0 .. CounterSize /\ waited' \in Nat
  BY <1>1, <1>2, CountInRange, ObserveInRange
<1>4. TypeOK'
  BY <1>1, <1>3 DEF IssueCmd, TypeOK, registers, ports, States, NothingUnset
<1>5. SignalsMatchState'
  BY <1>1 DEF IssueCmd, SignalsMatchState, TypeOK, registers, ports
<1>6. NothingUnset'
  BY <1>1 DEF IssueCmd, NothingUnset, registers, ports
<1>7. Timing'
  <2>1. cycle' <= elapsed'
    BY <1>1, <1>2, CounterKeepsUp DEF IssueCmd
  <2>2. waited' = 0 /\ state' \in {"ISSUE_CMD", "WAIT_RSP"}
    BY <1>1, <1>2, ObserveInRange DEF IssueCmd, Timing
  <2>3. deadline' # Unset => 0 <= deadline' + 1
    BY <1>1, SMT DEF IssueCmd, NothingUnset, Deadline, registers
  <2> QED
    BY <2>1, <2>2, <2>3 DEF Timing
<1> QED
  BY <1>4, <1>5, <1>6, <1>7 DEF Inv

(* An edge in WAIT_RSP with a response on the port. *)
LEMMA TakeResponseInv == ASSUME Inv, TakeResponse PROVE Inv'
<1>1. TypeOK /\ SignalsMatchState /\ NothingUnset /\ Timing
  BY DEF Inv
<1>2. Count /\ Observe
  BY DEF TakeResponse, Edge
<1>3. cycle' \in 0 .. CounterSize - 1 /\ elapsed' \in 0 .. CounterSize /\ waited' \in Nat
  BY <1>1, <1>2, CountInRange, ObserveInRange
<1>4. TypeOK'
  BY <1>1, <1>3 DEF TakeResponse, TypeOK, registers, ports, States, NothingUnset
<1>5. SignalsMatchState'
  BY <1>1 DEF TakeResponse, SignalsMatchState, TypeOK, registers, ports
<1>6. NothingUnset'
  BY <1>1 DEF TakeResponse, NothingUnset, registers, ports
<1>7. Timing'
  <2>1. waited' = waited + 1 /\ state' = "FORMAT_RSP"
    BY <1>1, <1>2, ObserveInRange DEF TakeResponse
  <2>2. waited + 1 <= deadline + 1
    BY <1>1, SMT DEF TakeResponse, Timing, NothingUnset, TypeOK, Deadline
  <2> QED
    BY <2>1, <2>2 DEF Timing, TakeResponse, registers
<1> QED
  BY <1>4, <1>5, <1>6, <1>7 DEF Inv

(* The edge in WAIT_RSP that gives up. *)
LEMMA TimeOutInv == ASSUME Inv, TimeOut PROVE Inv'
<1>1. TypeOK /\ SignalsMatchState /\ NothingUnset /\ Timing
  BY DEF Inv
<1>2. Count /\ Observe
  BY DEF TimeOut, Edge
<1>3. cycle' \in 0 .. CounterSize - 1 /\ elapsed' \in 0 .. CounterSize /\ waited' \in Nat
  BY <1>1, <1>2, CountInRange, ObserveInRange
<1>4. TypeOK'
  BY <1>1, <1>3, TimeoutResultType DEF TimeOut, TypeOK, registers, ports, States, NothingUnset
<1>5. SignalsMatchState'
  BY <1>1 DEF TimeOut, SignalsMatchState, TypeOK, registers, ports
<1>6. NothingUnset'
  BY <1>1, TimeoutResultType DEF TimeOut, NothingUnset, registers, ports
<1>7. Timing'
  <2>1. waited' = waited + 1 /\ state' = "DONE"
    BY <1>1, <1>2, ObserveInRange DEF TimeOut
  <2>2. waited + 1 <= deadline + 1
    BY <1>1, SMT DEF TimeOut, Timing, NothingUnset, TypeOK, Deadline
  <2> QED
    BY <2>1, <2>2 DEF Timing, TimeOut, registers
<1> QED
  BY <1>4, <1>5, <1>6, <1>7 DEF Inv

(* An edge in WAIT_RSP before the deadline: the counter cannot wrap here. *)
LEMMA KeepWaitingInv == ASSUME Inv, KeepWaiting PROVE Inv'
<1>1. TypeOK /\ SignalsMatchState /\ NothingUnset /\ Timing
  BY DEF Inv
<1>2. Count /\ Observe
  BY DEF KeepWaiting, Edge
<1>3. cycle' \in 0 .. CounterSize - 1 /\ elapsed' \in 0 .. CounterSize /\ waited' \in Nat
  BY <1>1, <1>2, CountInRange, ObserveInRange
<1>4. TypeOK'
  BY <1>1, <1>3 DEF KeepWaiting, TypeOK, registers, ports, States, NothingUnset
<1>5. SignalsMatchState'
  BY <1>1 DEF KeepWaiting, SignalsMatchState, TypeOK, registers, ports
<1>6. NothingUnset'
  BY <1>1 DEF KeepWaiting, NothingUnset, registers, ports
<1>7. Timing'
  <2>1. cycle \in 0 .. CounterSize - 1 /\ cycle < deadline /\ deadline \in Deadline
    BY <1>1, SMT DEF KeepWaiting, DeadlinePassed, TypeOK, NothingUnset, Deadline
  <2>2. cycle' = cycle + 1
    BY <1>1, <1>2, <2>1, CountInRange, CounterAssumption, SMT
       DEF KeepWaiting, Deadline, CounterAssumption
  <2>3. waited' = waited + 1 /\ waited \in Nat
    BY <1>1, <1>2, ObserveInRange DEF KeepWaiting, TypeOK
  <2>4. waited' <= cycle' /\ cycle' <= deadline /\ waited' <= deadline + 1
    BY <1>1, <2>1, <2>2, <2>3, CounterAssumption, SMT
       DEF KeepWaiting, Timing, Deadline, CounterAssumption
  <2>5. cycle' <= elapsed'
    BY <1>1, <1>2, CounterKeepsUp DEF KeepWaiting
  <2> QED
    BY <2>4, <2>5 DEF Timing, KeepWaiting, registers
<1> QED
  BY <1>4, <1>5, <1>6, <1>7 DEF Inv

(* The edge that copies the response ports. *)
LEMMA FormatRspInv == ASSUME Inv, NEW r \in Response, FormatRsp(r) PROVE Inv'
<1>1. TypeOK /\ SignalsMatchState /\ NothingUnset /\ Timing
  BY DEF Inv
<1>2. Count /\ Observe
  BY DEF FormatRsp, Edge
<1>3. cycle' \in 0 .. CounterSize - 1 /\ elapsed' \in 0 .. CounterSize /\ waited' \in Nat
  BY <1>1, <1>2, CountInRange, ObserveInRange
<1>4. TypeOK'
  BY <1>1, <1>3 DEF FormatRsp, TypeOK, registers, ports, States, NothingUnset
<1>5. SignalsMatchState'
  BY <1>1 DEF FormatRsp, SignalsMatchState, TypeOK, registers, ports
<1>6. NothingUnset'
  BY <1>1 DEF FormatRsp, NothingUnset, registers, ports
<1>7. Timing'
  BY <1>1, <1>2, ObserveInRange DEF FormatRsp, Timing, registers
<1> QED
  BY <1>4, <1>5, <1>6, <1>7 DEF Inv

(* An edge in DONE, with or without result_ready. *)
LEMMA DoneInv == ASSUME Inv, NEW ready \in BOOLEAN, Done(ready) PROVE Inv'
<1>1. TypeOK /\ SignalsMatchState /\ NothingUnset /\ Timing
  BY DEF Inv
<1>2. Count /\ Observe
  BY DEF Done, Edge
<1>3. cycle' \in 0 .. CounterSize - 1 /\ elapsed' \in 0 .. CounterSize /\ waited' \in Nat
  BY <1>1, <1>2, CountInRange, ObserveInRange
<1>4. TypeOK'
  BY <1>1, <1>3 DEF Done, TypeOK, registers, ports, States, NothingUnset
<1>5. SignalsMatchState'
  BY <1>1 DEF Done, SignalsMatchState, TypeOK, registers, ports
<1>6. NothingUnset'
  BY <1>1 DEF Done, NothingUnset, registers, ports
<1>7. Timing'
  BY <1>1, <1>2, ObserveInRange DEF Done, Timing, registers
<1> QED
  BY <1>4, <1>5, <1>6, <1>7 DEF Inv

(* An asynchronous reset in any state. *)
LEMMA ResetInv == ASSUME Inv, Reset PROVE Inv'
<1>1. TypeOK /\ SignalsMatchState /\ NothingUnset /\ Timing
  BY DEF Inv
<1>2. 0 \in 0 .. CounterSize - 1
  BY CounterAssumption, SMT DEF CounterAssumption
<1>3. TypeOK'
  BY <1>1, <1>2 DEF Reset, TypeOK, States, registers, history
<1>4. SignalsMatchState'
  BY DEF Reset, SignalsMatchState
<1>5. NothingUnset'
  BY DEF Reset, NothingUnset
<1>6. Timing'
  BY <1>1 DEF Reset, Timing, registers, history
<1> QED
  BY <1>3, <1>4, <1>5, <1>6 DEF Inv

(* Every step of the FSM, reset and stuttering included, keeps Inv. *)
LEMMA StepInv == ASSUME Inv, [Next]_vars PROVE Inv'
<1>1. CASE Await
  BY <1>1, AwaitInv
<1>2. CASE \E e \in Event : Accept(e)
  BY <1>2, AcceptInv
<1>3. CASE \E p \in Params : Translate(p)
  BY <1>3, TranslateInv
<1>4. CASE \E ready \in BOOLEAN : IssueCmd(ready)
  BY <1>4, IssueCmdInv
<1>5. CASE \E valid \in BOOLEAN : WaitRsp(valid)
  BY <1>5, TakeResponseInv, TimeOutInv, KeepWaitingInv DEF WaitRsp
<1>6. CASE \E r \in Response : FormatRsp(r)
  BY <1>6, FormatRspInv
<1>7. CASE \E ready \in BOOLEAN : Done(ready)
  BY <1>7, DoneInv
<1>8. CASE Reset
  BY <1>8, ResetInv
<1>9. CASE UNCHANGED vars
  BY <1>9 DEF vars, registers, ports, history, Inv, TypeOK, SignalsMatchState,
              NothingUnset, Timing
<1> QED
  BY <1>1, <1>2, <1>3, <1>4, <1>5, <1>6, <1>7, <1>8, <1>9 DEF Next, Clock

(* The FSM never leaves Inv. *)
THEOREM Invariance == Spec => []Inv
<1>1. Init => Inv
  BY InitInv
<1>2. Inv /\ [Next]_vars => Inv'
  BY StepInv
<1> QED
  BY <1>1, <1>2, PTL DEF Spec

(* Registers and ports hold values of their types, for any counter width. *)
THEOREM TypeCorrect == Spec => []TypeOK
<1>1. Inv => TypeOK
  BY DEF Inv
<1> QED
  BY <1>1, Invariance, PTL

(* No output is ever asserted outside the state it belongs to: in whatever *)
(* order events, responses, timeouts and resets come, no stale valid or    *)
(* ready survives the arm that should have cleared it.                     *)
THEOREM OutputsMatchState == Spec => []SignalsMatchState
<1>1. Inv => SignalsMatchState
  BY DEF Inv
<1> QED
  BY <1>1, Invariance, PTL

(* Nothing undefined is ever put on a valid port. *)
THEOREM ValidPortsDefined == Spec => []NothingUnset
<1>1. Inv => NothingUnset
  BY DEF Inv
<1> QED
  BY <1>1, Invariance, PTL

(* WAIT_RSP is left within deadline + 1 edges, although the counter may    *)
(* have wrapped any number of times while the command was stalled: inside  *)
(* WAIT_RSP it is below the deadline, hence cannot wrap.                   *)
THEOREM WaitIsBounded == Spec => []WaitBounded
<1>1. Inv => WaitBounded
  BY DEF Inv, Timing, WaitBounded
<1> QED
  BY <1>1, Invariance, PTL

(* A timeout result is only produced when the event's deadline has really  *)
(* passed, since the counter never runs ahead of the edges spent.          *)
THEOREM NoPrematureTimeout == Spec => TimeoutNotPremature
<1>1. Inv /\ [Next]_vars => [state = "WAIT_RSP" /\ state' = "DONE" => elapsed >= deadline]_vars
  <2> SUFFICES ASSUME Inv, Next, state = "WAIT_RSP", state' = "DONE"
               PROVE  elapsed >= deadline
    OBVIOUS
  <2>1. TimeOut
    BY DEF Next, Clock, Await, Accept, Translate, IssueCmd, WaitRsp, TakeResponse,
           KeepWaiting, FormatRsp, Done, Reset
  <2>2. cycle <= elapsed /\ cycle >= deadline
    BY <2>1 DEF TimeOut, DeadlinePassed, Inv, Timing
  <2>3. cycle \in Int /\ elapsed \in Int /\ deadline \in Int
    BY CounterAssumption, SMT DEF Inv, TypeOK, NothingUnset, Deadline, CounterAssumption
  <2> QED
    BY <2>2, <2>3, SMT
<1> QED
  BY <1>1, Invariance, PTL DEF Spec, TimeoutNotPremature

(* The payload of a command or result on offer never changes, so a         *)
(* neighbour may sample it on any edge on which it is valid.               *)
THEOREM OffersAreStable == Spec => OfferStable
<1>1. Inv /\ [Next]_vars =>
        [/\ cmdValid => cmd' = cmd
         /\ resultValid => result' = result]_vars
  <2> SUFFICES ASSUME Inv, Next
               PROVE  (cmdValid => cmd' = cmd) /\ (resultValid => result' = result)
    OBVIOUS
  <2>1. (cmdValid => state = "ISSUE_CMD") /\ (resultValid => state = "DONE")
    BY DEF Inv, SignalsMatchState
  <2>2. state # "TRANSLATE" => cmd' = cmd
    BY DEF Next, Clock, Await, Accept, Translate, IssueCmd, WaitRsp, TakeResponse,
           TimeOut, KeepWaiting, FormatRsp, Done, Reset
  <2>3. state \notin {"WAIT_RSP", "FORMAT_RSP"} => result' = result
    BY DEF Next, Clock, Await, Accept, Translate, IssueCmd, WaitRsp, TakeResponse,
           TimeOut, KeepWaiting, FormatRsp, Done, Reset
  <2> QED
    BY <2>1, <2>2, <2>3
<1> QED
  BY <1>1, Invariance, PTL DEF Spec, OfferStable

-----------------------------------------------------------------------------
(* The FSM between its two neighbours.                                     *)

(* Nobody puts anything undefined on a wire that is looked at. *)
WireTypes ==
  /\ eventValid \in BOOLEAN /\ resultReady \in BOOLEAN
  /\ cmdReady \in BOOLEAN /\ rspValid \in BOOLEAN
  /\ eventValid \/ state = "TRANSLATE" => event \in Event
  /\ offered \in 0 .. MaxEvents
  /\ answers \in [1 .. MaxEvents -> Status \cup {None}]
  /\ job \in TranslatedCommand \cup {None}
  /\ rspValid \/ state = "FORMAT_RSP" => rsp \in Response

(* The command register belongs to the event, although its two halves come *)
(* from a latched register and from a port sampled one edge later.         *)
CommandIsOwn ==
  /\ eventId # Unset => eventType \in EventType
  /\ state = "TRANSLATE" => event.id \in OwnIds
  /\ state \notin {"IDLE", "TRANSLATE"} => cmd \in OwnCommands

(* The adapter is ready only while it is free, and, unless it is eager,    *)
(* only while a command is on offer.                                       *)
ReadyIsFree ==
  /\ cmdReady => job = None
  /\ cmdReady /\ "eagerCommand" \notin liberties => cmdValid

(* What the FSM waits for is this command's answer, or was never taken.    *)
CommandOrAnswer ==
  state = "WAIT_RSP" =>
    \/ job = cmd
    \/ rspValid /\ rsp = Execute(cmd)
    \/ cmdReady /\ "eagerCommand" \in liberties

(* Nothing of an earlier event is left in the adapter when a command is    *)
(* taken: it waits for that (late answers), or drops it (otherwise).       *)
NoLeftovers ==
  IF "lateAnswer" \in liberties
    THEN cmdReady => ~rspValid
    ELSE job # None \/ rspValid => state \in {"WAIT_RSP", "FORMAT_RSP", "DONE"}

(* What a wait, a response and a result hold is this command's. *)
AnswerIsOwn ==
  /\ state = "WAIT_RSP" => job \in {None, cmd} /\ (rspValid => rsp = Execute(cmd))
  /\ state = "FORMAT_RSP" => rsp = Execute(cmd)
  /\ state = "DONE" => result \in {Execute(cmd), TimeoutResult}

(* The number of the event latched last.                                   *)
Last == IF eventId = Unset THEN 0 ELSE eventId

(* The driver is one event ahead of the FSM, or offers the same again, or  *)
(* offers nothing.  Without the liberty to repeat, valid and ready answer  *)
(* each other.                                                             *)
DriverInOrder ==
  /\ IF eventValid THEN event.id = offered ELSE Last = offered
  /\ Last = offered - 1 \/ Last = offered
  /\ eventValid /\ Last = offered => event.type = eventType
  /\ eventValid /\ "repeated" \notin Lapses => state = "IDLE" /\ eventReady /\ Last = offered - 1

InOrder == DriverInOrder /\ (resultReady /\ "eagerResult" \notin liberties => resultValid)

(* A command of this event or of one served before.                        *)
Served(c) ==
  \/ c \in OwnCommands
  \/ c.params \in 1 .. eventId /\ \E t \in EventType : c.command = Translated(t)

AnswerToServed(r) == \E c \in TranslatedCommand : Served(c) /\ r = Execute(c)

(* Whatever an adapter does, it works on commands that were given.         *)
NothingInvented ==
  /\ job # None => eventId \in EventId /\ Served(job)
  /\ rspValid \/ state = "FORMAT_RSP" => eventId \in EventId /\ AnswerToServed(rsp)
  /\ state = "DONE" => result = TimeoutResult \/ AnswerToServed(result)

LinkInv ==
  /\ Inv
  /\ WireTypes
  /\ CommandIsOwn
  /\ ReadyIsFree
  /\ CommandOrAnswer
  /\ ~Confused => NoLeftovers /\ AnswerIsOwn
  /\ InOrder
  /\ NothingInvented

-----------------------------------------------------------------------------
(* What the FSM does on an edge, read off the wires it samples: one fact   *)
(* per state.                                                              *)
LEMMA IdleEdge ==
  ASSUME FSMStep, state = "IDLE"
  PROVE  /\ cmdValid' = cmdValid
         /\ IF eventValid
              THEN state' = "TRANSLATE" /\ eventId' = event.id /\ eventType' = event.type
              ELSE state' = "IDLE" /\ eventReady' = TRUE
                     /\ eventId' = eventId /\ eventType' = eventType
  BY DEF FSMStep, Await, Accept, Translate, IssueCmd, WaitRsp, TakeResponse, TimeOut,
         KeepWaiting, FormatRsp, Done, registers

LEMMA TranslateEdge ==
  ASSUME FSMStep, state = "TRANSLATE"
  PROVE  /\ state' = "ISSUE_CMD" /\ cmdValid' = cmdValid
         /\ cmd' = [command |-> Translated(eventType), params |-> event.id]
         /\ eventId' = eventId /\ eventType' = eventType
  BY DEF FSMStep, Await, Accept, Translate, IssueCmd, WaitRsp, TakeResponse, TimeOut,
         KeepWaiting, FormatRsp, Done, registers, ports

LEMMA IssueEdge ==
  ASSUME FSMStep, state = "ISSUE_CMD"
  PROVE  /\ state' = (IF cmdReady THEN "WAIT_RSP" ELSE "ISSUE_CMD")
         /\ cmdValid' = ~cmdReady /\ cmd' = cmd
         /\ eventId' = eventId /\ eventType' = eventType
  BY DEF FSMStep, Await, Accept, Translate, IssueCmd, WaitRsp, TakeResponse, TimeOut,
         KeepWaiting, FormatRsp, Done, registers

LEMMA WaitEdge ==
  ASSUME FSMStep, state = "WAIT_RSP"
  PROVE  /\ IF rspValid
              THEN state' = "FORMAT_RSP"
              ELSE state' = "WAIT_RSP" \/ (state' = "DONE" /\ result' = TimeoutResult)
         /\ cmdValid' = cmdValid /\ cmd' = cmd
         /\ eventId' = eventId /\ eventType' = eventType
  BY DEF FSMStep, Await, Accept, Translate, IssueCmd, WaitRsp, TakeResponse, TimeOut,
         KeepWaiting, FormatRsp, Done, registers, ports

LEMMA FormatEdge ==
  ASSUME FSMStep, state = "FORMAT_RSP"
  PROVE  /\ state' = "DONE" /\ result' = rsp
         /\ cmdValid' = cmdValid /\ cmd' = cmd
         /\ eventId' = eventId /\ eventType' = eventType
  BY DEF FSMStep, Await, Accept, Translate, IssueCmd, WaitRsp, TakeResponse, TimeOut,
         KeepWaiting, FormatRsp, Done, registers, ports

LEMMA DoneEdge ==
  ASSUME FSMStep, state = "DONE"
  PROVE  /\ state' = (IF resultReady THEN "IDLE" ELSE "DONE")
         /\ resultValid' = ~resultReady /\ result' = result
         /\ cmdValid' = cmdValid /\ cmd' = cmd
         /\ eventId' = eventId /\ eventType' = eventType
  BY DEF FSMStep, Await, Accept, Translate, IssueCmd, WaitRsp, TakeResponse, TimeOut,
         KeepWaiting, FormatRsp, Done, registers

(* Execute answers under the number it was given, with the status the      *)
(* command deserves.                                                       *)
LEMMA ExecuteOwn ==
  ASSUME NEW c \in OwnCommands
  PROVE  Execute(c).id \in OwnIds /\ Execute(c).status = Expected(eventType)
  BY DEF Execute, OwnCommands, Expected

(* Every answer of the simulator is one that the response ports can carry. *)
LEMMA ExecuteType == ASSUME NEW c \in TranslatedCommand PROVE Execute(c) \in Response
<1>1. c.params \in EventId /\ c.command.shots \in Shots
  BY IdsAssumption DEF IdsAssumption, TranslatedCommand, Command
<1>2. NoData \in Data /\ KeyMaterial \in Data
  BY DataAssumption, RepliesAssumption DEF DataAssumption, RepliesAssumption
<1>3. Verdict(c.command) \in Status
  BY RepliesAssumption DEF RepliesAssumption, Verdict
<1>4. ShotsDone(c.command) \in Shots
  <2>1. 0 \in Shots /\ 1 \in Shots
    BY ShotsAssumption, SMT DEF ShotsAssumption, Shots
  <2>2. ASSUME c.command.shots > GroverCap PROVE GroverCap \in Shots
    BY <1>1, <2>2, ShotsAssumption, CapAssumption, SMT DEF ShotsAssumption, CapAssumption, Shots
  <2> QED
    BY <1>1, <2>1, <2>2 DEF ShotsDone
<1> QED
  BY <1>1, <1>2, <1>3, <1>4 DEF Execute, Response

(* In the composition the FSM only ever sees inputs of its ports' types:   *)
(* its edges are edges of Handshake.                                       *)
LEMMA EdgeOfHandshake == ASSUME LinkInv, FSMStep PROVE Clock
<1>1. WireTypes
  BY DEF LinkInv
<1>2. CASE Await
  BY <1>2 DEF Clock
<1>3. CASE eventValid /\ Accept(event)
  BY <1>1, <1>3 DEF Clock, WireTypes
<1>4. CASE state = "TRANSLATE" /\ Translate(event.id)
  <2>1. event.id \in Params
    BY <1>1, <1>4, IdsAssumption DEF IdsAssumption, WireTypes, Event
  <2> QED
    BY <2>1, <1>4 DEF Clock
<1>5. CASE IssueCmd(cmdReady)
  BY <1>1, <1>5 DEF Clock, WireTypes
<1>6. CASE WaitRsp(rspValid)
  BY <1>1, <1>6 DEF Clock, WireTypes
<1>7. CASE state = "FORMAT_RSP" /\ FormatRsp(rsp)
  BY <1>1, <1>7 DEF Clock, WireTypes
<1>8. CASE Done(resultReady)
  BY <1>1, <1>8 DEF Clock, WireTypes
<1> QED
  BY <1>2, <1>3, <1>4, <1>5, <1>6, <1>7, <1>8 DEF FSMStep

-----------------------------------------------------------------------------
(* What an edge preserves, one lemma per conjunct of LinkInv. *)

LEMMA TranslateEntered ==
  ASSUME LinkInv, FSMStep, state' = "TRANSLATE"
  PROVE  state = "IDLE" /\ eventValid /\ eventId' = event.id
<1>1. state \in States
  BY DEF LinkInv, Inv, TypeOK
<1> QED
  BY <1>1, IdleEdge, TranslateEdge, IssueEdge, WaitEdge, FormatEdge, DoneEdge DEF States

(* The driver's wires keep their types. *)
LEMMA DriverTypes ==
  ASSUME LinkInv, FSMStep, P4Step
  PROVE  /\ eventValid' \in BOOLEAN /\ resultReady' \in BOOLEAN
         /\ eventValid' \/ state' = "TRANSLATE" => event' \in Event
         /\ offered' \in 0 .. MaxEvents
         /\ answers' \in [1 .. MaxEvents -> Status \cup {None}]
<1>1. WireTypes
  BY DEF LinkInv
<1>2. eventValid' \in BOOLEAN
  BY <1>1 DEF P4Step, OfferEvent, KeepEvent, WireTypes
<1>3. resultReady' \in BOOLEAN
  BY <1>1 DEF P4Step, TakeResult, AwaitResult, WireTypes
<1>4. eventValid' \/ state' = "TRANSLATE" => event' \in Event
  <2>1. CASE OfferEvent
    <3>1. offered + 1 \in EventId
      BY <1>1, <2>1, IdsAssumption, SMT DEF IdsAssumption, OfferEvent, WireTypes
    <3>2. OfferDeadline \subseteq Deadline
      BY OfferAssumption DEF OfferAssumption
    <3> QED
      BY <2>1, <3>1, <3>2 DEF OfferEvent, Event
  <2>2. CASE KeepEvent
    BY <1>1, <2>2, TranslateEntered DEF KeepEvent, WireTypes
  <2> QED
    BY <2>1, <2>2 DEF P4Step
<1>5. offered' \in 0 .. MaxEvents
  BY <1>1, IdsAssumption, SMT DEF IdsAssumption, P4Step, OfferEvent, KeepEvent, WireTypes
<1>6. answers' \in [1 .. MaxEvents -> Status \cup {None}]
  <2>1. CASE TakeResult
    <3>1. state = "DONE" /\ result \in Response
      BY <2>1 DEF TakeResult, LinkInv, Inv, SignalsMatchState, NothingUnset
    <3>2. result.status \in Status
      BY <3>1 DEF Response
    <3> QED
      BY <1>1, <2>1, <3>2 DEF TakeResult, WireTypes
  <2>2. CASE AwaitResult
    BY <1>1, <2>2 DEF AwaitResult, WireTypes
  <2> QED
    BY <2>1, <2>2 DEF P4Step
<1> QED
  BY <1>2, <1>3, <1>4, <1>5, <1>6

(* The adapter's wires keep theirs: what it works on is a command, and     *)
(* what FORMAT_RSP reads an edge after the transfer is an answer.          *)
LEMMA AdapterTypes ==
  ASSUME LinkInv, FSMStep, SimStep
  PROVE  /\ cmdReady' \in BOOLEAN /\ rspValid' \in BOOLEAN
         /\ job' \in TranslatedCommand \cup {None}
         /\ rspValid' \/ state' = "FORMAT_RSP" => rsp' \in Response
<1>1. WireTypes
  BY DEF LinkInv
<1>2. cmdReady' \in BOOLEAN
  BY <1>1 DEF SimStep, TakeCommand, Respond, SimIdle, WireTypes
<1>3. rspValid' \in BOOLEAN
  BY <1>1 DEF SimStep, TakeCommand, Respond, SimIdle, WireTypes
<1>4. job' \in TranslatedCommand \cup {None}
  <2>1. TakeCommand => cmd \in TranslatedCommand
    BY DEF TakeCommand, LinkInv, Inv, SignalsMatchState, NothingUnset
  <2> QED
    BY <1>1, <2>1 DEF SimStep, TakeCommand, Respond, SimIdle, WireTypes
<1>5. rspValid' \/ state' = "FORMAT_RSP" => rsp' \in Response
  <2>1. CASE Respond
    BY <1>1, <2>1, ExecuteType DEF Respond, WireTypes
  <2>2. CASE TakeCommand \/ SimIdle
    <3>1. rsp' = rsp /\ (rspValid' => rspValid)
      BY <2>2 DEF TakeCommand, SimIdle
    <3>2. state \in States
      BY DEF LinkInv, Inv, TypeOK
    <3>3. state' = "FORMAT_RSP" => rspValid
      BY <3>2, IdleEdge, TranslateEdge, IssueEdge, WaitEdge, FormatEdge, DoneEdge DEF States
    <3> QED
      BY <1>1, <3>1, <3>3 DEF WireTypes
  <2> QED
    BY <2>1, <2>2 DEF SimStep
<1> QED
  BY <1>2, <1>3, <1>4, <1>5

(* The event on the bus when one is taken is the latched one an edge       *)
(* later, or the next one.                                                 *)
LEMMA BusAfterAccept ==
  ASSUME LinkInv, FSMStep, P4Step, UNCHANGED liberties, state' = "TRANSLATE"
  PROVE  event'.id \in OwnIds'
<1>1. state = "IDLE" /\ eventValid /\ eventId' = event.id
  BY TranslateEntered
<1>2. CASE OfferEvent
  <2>1. "movedBus" \in liberties /\ event'.id = offered + 1
    BY <1>1, <1>2 DEF OfferEvent
  <2>2. event.id = offered
    BY <1>1 DEF LinkInv, InOrder, DriverInOrder
  <2> QED
    BY <1>1, <2>1, <2>2 DEF OwnIds
<1>3. CASE KeepEvent
  BY <1>1, <1>3 DEF KeepEvent, OwnIds
<1> QED
  BY <1>2, <1>3 DEF P4Step

LEMMA CommandIsOwnStep ==
  ASSUME LinkInv, FSMStep, P4Step, UNCHANGED liberties PROVE CommandIsOwn'
<1>1. CommandIsOwn /\ WireTypes /\ state \in States
  BY DEF LinkInv, Inv, TypeOK
<1>2. eventId' # Unset => eventType' \in EventType
  BY <1>1, IdleEdge, TranslateEdge, IssueEdge, WaitEdge, FormatEdge, DoneEdge
     DEF States, CommandIsOwn, WireTypes, Event
<1>3. state' = "TRANSLATE" => event'.id \in OwnIds'
  BY BusAfterAccept
<1>4. ASSUME state' \notin {"IDLE", "TRANSLATE"} PROVE cmd' \in OwnCommands'
  <2>1. eventId' = eventId /\ eventType' = eventType
    BY <1>1, <1>4, IdleEdge, TranslateEdge, IssueEdge, WaitEdge, FormatEdge, DoneEdge DEF States
  <2>2. OwnCommands' = OwnCommands
    BY <2>1 DEF OwnCommands, OwnIds
  <2>3. CASE state = "TRANSLATE"
    BY <1>1, <2>2, <2>3, TranslateEdge DEF CommandIsOwn, OwnCommands
  <2>4. CASE state # "TRANSLATE"
    <3>1. state # "IDLE" /\ cmd' = cmd
      BY <1>1, <1>4, <2>4, IdleEdge, IssueEdge, WaitEdge, FormatEdge, DoneEdge DEF States
    <3> QED
      BY <1>1, <2>2, <2>4, <3>1 DEF CommandIsOwn
  <2> QED
    BY <2>3, <2>4
<1> QED
  BY <1>2, <1>3, <1>4 DEF CommandIsOwn

LEMMA ReadyIsFreeStep ==
  ASSUME LinkInv, FSMStep, SimStep, UNCHANGED liberties PROVE ReadyIsFree'
<1>1. ReadyIsFree /\ WireTypes /\ state \in States /\ SignalsMatchState
  BY DEF LinkInv, Inv, TypeOK
<1>2. cmdReady' => job' = None
  BY <1>1 DEF ReadyIsFree, SimStep, TakeCommand, Respond, SimIdle, CanTake
<1>3. cmdReady' /\ "eagerCommand" \notin liberties => cmdValid'
  <2>1. SUFFICES ASSUME cmdReady', "eagerCommand" \notin liberties PROVE cmdValid'
    OBVIOUS
  <2>2. cmdValid /\ ~cmdReady
    BY <1>1, <2>1 DEF ReadyIsFree, SimStep, TakeCommand, Respond, SimIdle
  <2>3. state = "ISSUE_CMD"
    BY <1>1, <2>2 DEF SignalsMatchState
  <2> QED
    BY <2>2, <2>3, IssueEdge
<1> QED
  BY <1>2, <1>3 DEF ReadyIsFree

(* A state that goes on waiting saw no answer on the wire. *)
LEMMA WaitEntered ==
  ASSUME LinkInv, FSMStep, state' = "WAIT_RSP"
  PROVE  /\ \/ state = "ISSUE_CMD" /\ cmdReady
            \/ state = "WAIT_RSP" /\ ~rspValid
         /\ cmd' = cmd
<1>1. state \in States
  BY DEF LinkInv, Inv, TypeOK
<1>2. \/ state = "ISSUE_CMD" /\ cmdReady
      \/ state = "WAIT_RSP" /\ ~rspValid
  BY <1>1, IdleEdge, TranslateEdge, IssueEdge, WaitEdge, FormatEdge, DoneEdge DEF States
<1> QED
  BY <1>2, IssueEdge, WaitEdge

(* What the adapter does on an edge of a wait without an answer: it goes   *)
(* on with its job, or answers it.                                         *)
LEMMA AdapterWhileWaiting ==
  ASSUME LinkInv, SimStep, state = "WAIT_RSP", ~rspValid
  PROVE  /\ \/ job # None /\ rspValid' /\ rsp' = Execute(job) /\ job' = None
            \/ job' = job /\ ~rspValid'
         /\ cmdReady => cmdReady'
<1>1. ~cmdValid /\ rspReady
  BY DEF LinkInv, Inv, SignalsMatchState
<1> QED
  BY <1>1 DEF SimStep, TakeCommand, Respond, SimIdle

LEMMA CommandOrAnswerStep ==
  ASSUME LinkInv, FSMStep, SimStep, UNCHANGED liberties PROVE CommandOrAnswer'
<1> SUFFICES ASSUME state' = "WAIT_RSP"
             PROVE  \/ job' = cmd'
                    \/ rspValid' /\ rsp' = Execute(cmd')
                    \/ cmdReady' /\ "eagerCommand" \in liberties'
  BY DEF CommandOrAnswer
<1>1. cmd' = cmd
  BY WaitEntered
<1>2. CASE state = "ISSUE_CMD" /\ cmdReady
  <2>1. job = None /\ ("eagerCommand" \notin liberties => cmdValid)
    BY <1>2 DEF LinkInv, ReadyIsFree
  <2>2. TakeCommand => job' = cmd
    BY DEF TakeCommand
  <2>3. ~TakeCommand => ~cmdValid /\ cmdReady'
    BY <1>2, <2>1 DEF SimStep, TakeCommand, Respond, SimIdle
  <2> QED
    BY <1>1, <2>1, <2>2, <2>3
<1>3. CASE state = "WAIT_RSP" /\ ~rspValid
  <2>1. job = cmd \/ (cmdReady /\ "eagerCommand" \in liberties)
    BY <1>3 DEF LinkInv, CommandOrAnswer
  <2> QED
    BY <1>1, <1>3, <2>1, AdapterWhileWaiting
<1> QED
  BY <1>2, <1>3, WaitEntered

(* Once rsp_ready has fallen, the adapter is free of jobs and answers.     *)
LEMMA NoLeftoversStep ==
  ASSUME LinkInv, FSMStep, SimStep, UNCHANGED liberties, ~Confused PROVE NoLeftovers'
<1>1. NoLeftovers /\ ReadyIsFree /\ SignalsMatchState /\ NothingUnset /\ state \in States
  BY DEF LinkInv, Inv, TypeOK
<1>2. CASE "lateAnswer" \in liberties
  <2>1. "pipelined" \notin liberties
    BY <1>2 DEF Confused
  <2>2. cmdReady' => ~rspValid'
    BY <1>1, <1>2, <2>1 DEF NoLeftovers, ReadyIsFree, SimStep, TakeCommand, Respond, SimIdle, CanTake
  <2> QED
    BY <1>2, <2>2 DEF NoLeftovers
<1>3. CASE "lateAnswer" \notin liberties
  <2> SUFFICES ASSUME job' # None \/ rspValid'
               PROVE  state' \in {"WAIT_RSP", "FORMAT_RSP", "DONE"}
    BY <1>3 DEF NoLeftovers
  <2>1. CASE TakeCommand
    <3>1. state = "ISSUE_CMD" /\ cmdReady
      BY <1>1, <2>1 DEF TakeCommand, SignalsMatchState
    <3> QED
      BY <3>1, IssueEdge
  <2>2. CASE Respond \/ SimIdle
    <3>1. state = "WAIT_RSP"
      BY <1>1, <1>3, <2>2 DEF Respond, SimIdle, SignalsMatchState
    <3> QED
      BY <3>1, WaitEdge
  <2> QED
    BY <2>1, <2>2 DEF SimStep
<1> QED
  BY <1>2, <1>3

LEMMA AnswerIsOwnStep ==
  ASSUME LinkInv, FSMStep, SimStep, UNCHANGED liberties, ~Confused PROVE AnswerIsOwn'
<1>1. NoLeftovers /\ AnswerIsOwn /\ ReadyIsFree /\ SignalsMatchState /\ state \in States
  BY DEF LinkInv, Inv, TypeOK
<1>2. state' = "WAIT_RSP" => job' \in {None, cmd'} /\ (rspValid' => rsp' = Execute(cmd'))
  <2> SUFFICES ASSUME state' = "WAIT_RSP"
               PROVE  job' \in {None, cmd'} /\ (rspValid' => rsp' = Execute(cmd'))
    OBVIOUS
  <2>1. cmd' = cmd
    BY WaitEntered
  <2>2. CASE state = "ISSUE_CMD" /\ cmdReady
    <3>1. job = None /\ ~rspValid
      BY <1>1, <2>2 DEF NoLeftovers, ReadyIsFree
    <3>2. ~rspValid' /\ job' \in {None, cmd}
      BY <3>1 DEF SimStep, TakeCommand, Respond, SimIdle
    <3> QED
      BY <2>1, <3>2
  <2>3. CASE state = "WAIT_RSP" /\ ~rspValid
    <3>1. job \in {None, cmd}
      BY <1>1, <2>3 DEF AnswerIsOwn
    <3> QED
      BY <2>1, <2>3, <3>1, AdapterWhileWaiting
  <2> QED
    BY <2>2, <2>3, WaitEntered
<1>3. state' = "FORMAT_RSP" => rsp' = Execute(cmd')
  <2> SUFFICES ASSUME state' = "FORMAT_RSP" PROVE rsp' = Execute(cmd')
    OBVIOUS
  <2>1. state = "WAIT_RSP" /\ rspValid
    BY <1>1, IdleEdge, TranslateEdge, IssueEdge, WaitEdge, FormatEdge, DoneEdge DEF States
  <2>2. cmd' = cmd /\ rsp = Execute(cmd)
    BY <1>1, <2>1, WaitEdge DEF AnswerIsOwn
  <2>3. rsp' = rsp
    BY <2>1 DEF SimStep, TakeCommand, Respond, SimIdle
  <2> QED
    BY <2>2, <2>3
<1>4. state' = "DONE" => result' \in {Execute(cmd'), TimeoutResult'}
  <2> SUFFICES ASSUME state' = "DONE" PROVE result' \in {Execute(cmd'), TimeoutResult'}
    OBVIOUS
  <2>1. CASE state = "WAIT_RSP"
    BY <2>1, WaitEdge DEF TimeoutResult
  <2>2. CASE state = "FORMAT_RSP"
    BY <1>1, <2>2, FormatEdge DEF AnswerIsOwn
  <2>3. CASE state = "DONE"
    BY <1>1, <2>3, DoneEdge DEF AnswerIsOwn, TimeoutResult
  <2> QED
    BY <1>1, <2>1, <2>2, <2>3, IdleEdge, TranslateEdge, IssueEdge DEF States
<1> QED
  BY <1>2, <1>3, <1>4, Zenon DEF AnswerIsOwn

-----------------------------------------------------------------------------
(* Driver and FSM.  Whatever the driver offers, the FSM serves the events  *)
(* in order, and skips none.                                               *)
LEMMA InOrderTypes ==
  ASSUME LinkInv
  PROVE  /\ offered \in Nat /\ Last \in Nat
         /\ eventId # Unset => eventId \in EventId /\ Last = eventId
         /\ eventId = Unset => Last = 0
         /\ \A e \in EventId : e \in Nat \ {0} /\ e # Unset
<1>1. \A e \in EventId : e \in Nat \ {0} /\ e # Unset
  BY IdsAssumption, UnsetAssumption, SMT DEF IdsAssumption, UnsetAssumption
<1>2. offered \in Nat
  BY IdsAssumption, SMT DEF LinkInv, WireTypes, IdsAssumption
<1>3. eventId \in EventId \cup {Unset}
  BY DEF LinkInv, Inv, TypeOK
<1>4. Last \in Nat
  BY <1>1, <1>3, SMT DEF Last
<1> QED
  BY <1>1, <1>2, <1>3, <1>4 DEF Last

(* An edge that takes the event from the bus, and one that does not. *)
LEMMA LastEdge ==
  ASSUME LinkInv, FSMStep
  PROVE  /\ state = "IDLE" /\ eventValid =>
              Last' = event.id /\ eventId' = event.id /\ eventType' = event.type
         /\ ~(state = "IDLE" /\ eventValid) =>
              Last' = Last /\ eventId' = eventId /\ eventType' = eventType
<1>1. state \in States /\ WireTypes
  BY DEF LinkInv, Inv, TypeOK
<1>2. CASE state = "IDLE" /\ eventValid
  <2>1. eventId' = event.id /\ eventType' = event.type
    BY <1>2, IdleEdge
  <2>2. event.id \in EventId
    BY <1>1, <1>2 DEF WireTypes, Event
  <2>3. event.id # Unset
    BY <2>2, InOrderTypes
  <2> QED
    BY <1>2, <2>1, <2>3 DEF Last
<1>3. CASE ~(state = "IDLE" /\ eventValid)
  <2>1. eventId' = eventId /\ eventType' = eventType
    BY <1>1, <1>3, IdleEdge, TranslateEdge, IssueEdge, WaitEdge, FormatEdge, DoneEdge DEF States
  <2> QED
    BY <1>3, <2>1 DEF Last
<1> QED
  BY <1>2, <1>3

(* The driver raises or keeps an event, and drops it when it is taken.     *)
LEMMA InOrderStep ==
  ASSUME LinkInv, FSMStep, P4Step, UNCHANGED liberties PROVE InOrder'
<1>1. InOrder /\ WireTypes /\ SignalsMatchState /\ state \in States
  BY DEF LinkInv, Inv, TypeOK
<1>2. offered \in Nat /\ Last \in Nat
  BY InOrderTypes
<1>3. Lapses' = Lapses
  BY DEF Lapses, Confused
<1>4. eventReady => state = "IDLE"
  BY <1>1 DEF SignalsMatchState
<1>5. ASSUME OfferEvent PROVE DriverInOrder'
  <2>1. eventValid' /\ offered' = offered + 1 /\ event'.id = offered'
    BY <1>5 DEF OfferEvent
  <2>2. Last' = offered
    <3>1. CASE ~eventValid
      BY <1>1, <3>1, LastEdge DEF InOrder, DriverInOrder
    <3>2. CASE eventValid
      <4>1. state = "IDLE" /\ event.id = offered
        BY <1>1, <1>4, <1>5, <3>2 DEF OfferEvent, InOrder, DriverInOrder
      <4> QED
        BY <3>2, <4>1, LastEdge
    <3> QED
      BY <3>1, <3>2
  <2>3. Last' = offered' - 1 /\ Last' # offered'
    BY <1>2, <2>1, <2>2, SMT
  <2>4. "repeated" \notin Lapses => state' = "IDLE" /\ eventReady'
    <3> SUFFICES ASSUME "repeated" \notin Lapses PROVE state' = "IDLE" /\ eventReady'
      OBVIOUS
    <3>1. "movedBus" \notin liberties /\ "eagerEvent" \notin liberties
      BY DEF Lapses
    <3>2. ~eventValid /\ eventReady
      BY <1>5, <3>1 DEF OfferEvent
    <3> QED
      BY <1>4, <3>2, IdleEdge
  <2> HIDE DEF Lapses
  <2>5. /\ IF eventValid' THEN event'.id = offered' ELSE Last' = offered'
        /\ Last' = offered' - 1 \/ Last' = offered'
        /\ eventValid' /\ Last' = offered' => event'.type = eventType'
        /\ eventValid' /\ "repeated" \notin Lapses' =>
             state' = "IDLE" /\ eventReady' /\ Last' = offered' - 1
    BY <1>3, <2>1, <2>3, <2>4
  <2> QED
    BY <2>5, Zenon DEF DriverInOrder
<1>6. ASSUME KeepEvent PROVE DriverInOrder'
  <2>1. eventValid' = (eventValid /\ ~eventReady) /\ event' = event /\ offered' = offered
    BY <1>6 DEF KeepEvent
  <2>2. /\ IF eventValid' THEN event'.id = offered' ELSE Last' = offered'
        /\ Last' = offered' - 1 \/ Last' = offered'
        /\ eventValid' /\ Last' = offered' => event'.type = eventType'
    <3>1. CASE state = "IDLE" /\ eventValid
      <4>1. Last' = offered /\ eventType' = event.type /\ event.id = offered
        BY <1>1, <3>1, LastEdge DEF InOrder, DriverInOrder
      <4> QED
        BY <2>1, <4>1
    <3>2. CASE ~(state = "IDLE" /\ eventValid)
      <4>1. Last' = Last /\ eventType' = eventType
        BY <3>2, LastEdge
      <4>2. eventValid' = eventValid
        BY <1>1, <1>4, <2>1, <3>2 DEF WireTypes
      <4>3. Last \in Nat /\ offered \in Nat
        BY <1>2
      <4> HIDE DEF Last
      <4> QED
        BY <1>1, <2>1, <4>1, <4>2 DEF InOrder, DriverInOrder
    <3> QED
      BY <3>1, <3>2
  <2>3. eventValid' /\ "repeated" \notin Lapses' =>
          state' = "IDLE" /\ eventReady' /\ Last' = offered' - 1
    BY <1>1, <1>3, <2>1 DEF InOrder, DriverInOrder
  <2> QED
    BY <2>2, <2>3, Zenon DEF DriverInOrder
<1>7. ASSUME resultReady', "eagerResult" \notin liberties PROVE resultValid'
  <2>1. resultValid /\ ~resultReady
    BY <1>1, <1>7 DEF P4Step, TakeResult, AwaitResult, InOrder, WireTypes
  <2>2. state = "DONE"
    BY <1>1, <2>1 DEF SignalsMatchState
  <2> QED
    BY <2>1, <2>2, DoneEdge
<1>8. DriverInOrder'
  BY <1>5, <1>6 DEF P4Step
<1> QED
  BY <1>7, <1>8, Zenon DEF InOrder

-----------------------------------------------------------------------------
(* Answers belong to commands that were given.  Taking the next event, or  *)
(* the same once more, keeps what was served before.                       *)
LEMMA ServedStays ==
  ASSUME LinkInv, FSMStep, UNCHANGED liberties, eventId \in EventId,
         NEW c \in TranslatedCommand, Served(c)
  PROVE  Served(c)' /\ eventId' \in EventId
<1>1. InOrder /\ WireTypes /\ NothingUnset /\ state \in States /\ offered \in Nat
  BY InOrderTypes DEF LinkInv, Inv, TypeOK
<1>2. eventId \in Nat \ {0} /\ Last = eventId
  BY InOrderTypes
<1>3. CASE ~(state = "IDLE" /\ eventValid)
  <2>1. eventId' = eventId /\ eventType' = eventType
    BY <1>3, LastEdge
  <2> QED
    BY <2>1 DEF Served, OwnCommands, OwnIds
<1>4. CASE state = "IDLE" /\ eventValid
  <2>1. eventId' = event.id /\ eventType' = event.type /\ event.id = offered
    BY <1>1, <1>4, LastEdge DEF InOrder, DriverInOrder
  <2>2. eventId' \in EventId
    BY <1>1, <1>4, <2>1 DEF WireTypes, Event
  <2>3. CASE eventId' = eventId
    <3>1. eventType' = eventType
      BY <1>1, <1>2, <1>4, <2>1, <2>3 DEF InOrder, DriverInOrder
    <3> QED
      BY <2>2, <2>3, <3>1 DEF Served, OwnCommands, OwnIds
  <2>4. CASE eventId' # eventId
    <3>1. eventId' = eventId + 1
      BY <1>1, <1>2, <2>1, <2>4, SMT DEF InOrder, DriverInOrder
    <3>2. ASSUME c \in OwnCommands PROVE c.params \in 1 .. eventId'
      <4>1. c.params \in {eventId, eventId + 1}
        BY <3>2 DEF OwnCommands, OwnIds
      <4> QED
        BY <1>2, <3>1, <4>1, SMT
    <3>3. ASSUME c.params \in 1 .. eventId PROVE c.params \in 1 .. eventId'
      BY <1>2, <3>1, <3>3, SMT
    <3>4. ASSUME c \in OwnCommands PROVE \E t \in EventType : c.command = Translated(t)
      <4>1. eventType \in EventType
        BY InOrderTypes DEF LinkInv, CommandIsOwn
      <4> QED
        BY <3>4, <4>1 DEF OwnCommands
    <3>5. c.params \in 1 .. eventId' /\ \E t \in EventType : c.command = Translated(t)
      BY <3>2, <3>3, <3>4 DEF Served
    <3> QED
      BY <2>2, <3>5 DEF Served
  <2> QED
    BY <2>3, <2>4
<1> QED
  BY <1>3, <1>4

LEMMA AnswerStays ==
  ASSUME LinkInv, FSMStep, UNCHANGED liberties, eventId \in EventId, NEW r, AnswerToServed(r)
  PROVE  eventId' \in EventId /\ \E c \in TranslatedCommand : Served(c)' /\ r = Execute(c)
<1>1. PICK c \in TranslatedCommand : Served(c) /\ r = Execute(c)
  BY DEF AnswerToServed
<1>2. Served(c)' /\ eventId' \in EventId
  BY <1>1, ServedStays
<1> QED
  BY <1>1, <1>2

(* Jobs are commands the FSM issued, answers those of jobs, and results    *)
(* answers or timeouts.                                                    *)
LEMMA NothingInventedStep ==
  ASSUME LinkInv, FSMStep, SimStep, UNCHANGED liberties PROVE NothingInvented'
<1>1. /\ NothingInvented /\ WireTypes /\ SignalsMatchState /\ NothingUnset
      /\ CommandIsOwn /\ state \in States
  BY DEF LinkInv, Inv, TypeOK
<1>2. ASSUME (job # None)' PROVE (eventId \in EventId /\ Served(job))'
  <2>1. CASE TakeCommand
    <3>1. state = "ISSUE_CMD" /\ job' = cmd
      BY <1>1, <2>1 DEF TakeCommand, SignalsMatchState
    <3>2. cmd \in TranslatedCommand /\ cmd \in OwnCommands /\ eventId \in EventId
      BY <1>1, <3>1 DEF NothingUnset, CommandIsOwn
    <3>3. Served(cmd)
      BY <3>2 DEF Served
    <3>4. ASSUME NEW c \in TranslatedCommand, Served(c), job' = c
          PROVE  (eventId \in EventId /\ Served(job))'
      BY <3>2, <3>4, ServedStays, Zenon DEF Served
    <3> QED
      BY <3>1, <3>2, <3>3, <3>4
  <2>2. CASE ~TakeCommand
    <3>1. job' = job /\ job # None
      BY <1>2, <2>2 DEF SimStep, Respond, SimIdle
    <3>2. job \in TranslatedCommand /\ Served(job) /\ eventId \in EventId
      BY <1>1, <3>1 DEF NothingInvented, WireTypes
    <3>3. ASSUME NEW c \in TranslatedCommand, Served(c), job' = c
          PROVE  (eventId \in EventId /\ Served(job))'
      BY <3>2, <3>3, ServedStays, Zenon DEF Served
    <3> QED
      BY <3>1, <3>2, <3>3
  <2> QED
    BY <2>1, <2>2
<1>3. ASSUME (rspValid \/ state = "FORMAT_RSP")'
      PROVE  (eventId \in EventId /\ AnswerToServed(rsp))'
  <2>1. eventId \in EventId /\ AnswerToServed(rsp')
    <3>1. CASE Respond
      <4>1. job # None /\ rsp' = Execute(job)
        BY <3>1 DEF Respond
      <4>2. job \in TranslatedCommand /\ Served(job) /\ eventId \in EventId
        BY <1>1, <4>1 DEF NothingInvented, WireTypes
      <4> QED
        BY <4>1, <4>2 DEF AnswerToServed
    <3>2. CASE TakeCommand \/ SimIdle
      <4>1. rsp' = rsp /\ (rspValid' => rspValid)
        BY <3>2 DEF TakeCommand, SimIdle
      <4>2. state' = "FORMAT_RSP" => rspValid
        BY <1>1, IdleEdge, TranslateEdge, IssueEdge, WaitEdge, FormatEdge, DoneEdge DEF States
      <4> QED
        BY <1>1, <1>3, <4>1, <4>2 DEF NothingInvented
    <3> QED
      BY <3>1, <3>2 DEF SimStep
  <2> QED
    BY <2>1, AnswerStays DEF AnswerToServed
<1>4. ASSUME (state = "DONE")' PROVE (result = TimeoutResult \/ AnswerToServed(result))'
  <2>1. state \in {"WAIT_RSP", "FORMAT_RSP", "DONE"} /\ eventId' = eventId
    BY <1>1, <1>4, IdleEdge, TranslateEdge, IssueEdge, WaitEdge, FormatEdge, DoneEdge DEF States
  <2>2. eventId \in EventId /\ TimeoutResult' = TimeoutResult
    BY <1>1, <2>1 DEF NothingUnset, TimeoutResult
  <2>3. result' = TimeoutResult \/ AnswerToServed(result')
    <3>1. CASE state = "WAIT_RSP"
      BY <1>4, <3>1, WaitEdge
    <3>2. CASE state = "FORMAT_RSP"
      BY <1>1, <3>2, FormatEdge DEF NothingInvented
    <3>3. CASE state = "DONE"
      BY <1>1, <3>3, DoneEdge DEF NothingInvented
    <3> QED
      BY <2>1, <3>1, <3>2, <3>3
  <2> QED
    BY <2>2, <2>3, AnswerStays DEF AnswerToServed
<1> QED
  BY <1>2, <1>3, <1>4 DEF NothingInvented

-----------------------------------------------------------------------------
(* Nobody has started: no wire is up, no event offered. *)
LEMMA LinkInitInv == LinkInit => LinkInv
<1> SUFFICES ASSUME LinkInit PROVE LinkInv
  OBVIOUS
<1>1. Inv /\ state = "IDLE" /\ eventId = Unset
  BY InitInv DEF LinkInit, Init
<1>2. WireTypes
  <2>1. 0 \in 0 .. MaxEvents
    BY IdsAssumption, SMT DEF IdsAssumption
  <2> QED
    BY <1>1, <2>1 DEF LinkInit, WireTypes
<1>3. InOrder
  <2>1. ~eventValid /\ ~resultReady /\ offered = 0 /\ Last = 0
    BY <1>1 DEF LinkInit, Last
  <2> QED
    BY <2>1 DEF InOrder, DriverInOrder
<1>4. CommandIsOwn /\ ReadyIsFree /\ CommandOrAnswer /\ NoLeftovers /\ AnswerIsOwn /\ NothingInvented
  BY <1>1 DEF LinkInit, CommandIsOwn, ReadyIsFree, CommandOrAnswer, NoLeftovers, AnswerIsOwn,
              NothingInvented
<1> QED
  BY <1>1, <1>2, <1>3, <1>4 DEF LinkInv

(* Every edge keeps LinkInv. *)
LEMMA TickInv == ASSUME LinkInv, Tick PROVE LinkInv'
<1>1. FSMStep /\ P4Step /\ SimStep /\ liberties' = liberties
  BY DEF Tick
<1>2. Inv'
  <2>1. Next
    BY <1>1, EdgeOfHandshake DEF Next
  <2> QED
    BY <2>1, StepInv DEF LinkInv
<1>3. WireTypes'
  BY <1>1, DriverTypes, AdapterTypes DEF WireTypes
<1>4. CommandIsOwn' /\ ReadyIsFree' /\ CommandOrAnswer'
  BY <1>1, CommandIsOwnStep, ReadyIsFreeStep, CommandOrAnswerStep
<1>5. ~Confused' => NoLeftovers' /\ AnswerIsOwn'
  <2>1. ~Confused' => ~Confused
    BY <1>1 DEF Confused
  <2> QED
    BY <1>1, <2>1, NoLeftoversStep, AnswerIsOwnStep
<1>6. InOrder' /\ NothingInvented'
  BY <1>1, InOrderStep, NothingInventedStep
<1> QED
  BY <1>2, <1>3, <1>4, <1>5, <1>6 DEF LinkInv

LEMMA StutterInv == ASSUME LinkInv, UNCHANGED allVars PROVE LinkInv'
<1>1. UNCHANGED vars
  BY DEF allVars
<1>2. Inv'
  BY <1>1, StepInv DEF LinkInv
<1>3. /\ UNCHANGED <<state, eventId, eventType, cmd, cmdValid, eventReady, resultValid, result>>
      /\ UNCHANGED <<eventValid, event, offered, resultReady, answers>>
      /\ UNCHANGED <<cmdReady, job, rspValid, rsp, liberties>>
  BY DEF allVars, vars, registers, ports, driver, simulator
<1>4. WireTypes' /\ CommandIsOwn' /\ ReadyIsFree' /\ CommandOrAnswer'
  BY <1>3 DEF LinkInv, WireTypes, CommandIsOwn, ReadyIsFree, CommandOrAnswer, OwnIds, OwnCommands
<1>5. ~Confused' => NoLeftovers' /\ AnswerIsOwn'
  BY <1>3 DEF LinkInv, Confused, NoLeftovers, AnswerIsOwn, TimeoutResult
<1>6. InOrder' /\ NothingInvented'
  BY <1>3 DEF LinkInv, InOrder, DriverInOrder, Last, Lapses, Confused, NothingInvented, AnswerToServed, Served,
              OwnIds, OwnCommands, TimeoutResult
<1> QED
  BY <1>2, <1>4, <1>5, <1>6 DEF LinkInv

THEOREM LinkInvariance == LinkSpec => []LinkInv
<1>1. LinkInit => LinkInv
  BY LinkInitInv
<1>2. LinkInv /\ [Tick]_allVars => LinkInv'
  BY TickInv, StutterInv
<1> QED
  BY <1>1, <1>2, PTL DEF LinkSpec

(* Beside any driver and adapter of this kind the FSM is the one that      *)
(* Handshake speaks of, and all that is proved there holds of it: the      *)
(* wires carry nothing that the ports' types exclude.                      *)
THEOREM FSMIsHandshake == LinkSpec => Spec
<1>1. LinkInit => Init
  BY DEF LinkInit
<1>2. LinkInv /\ [Tick]_allVars => [Next]_vars
  <2>1. LinkInv /\ Tick => Next
    BY EdgeOfHandshake DEF Tick, Next
  <2>2. UNCHANGED allVars => UNCHANGED vars
    BY DEF allVars
  <2> QED
    BY <2>1, <2>2
<1> QED
  BY <1>1, <1>2, LinkInvariance, PTL DEF LinkSpec, Spec

(* What a result in DONE may be. *)
LEMMA ResultOfEvent == LinkInv => AnswerBelongsToEvent
<1> SUFFICES ASSUME LinkInv, state = "DONE"
             PROVE  \/ result.id = eventId /\ result.status \in {Expected(eventType), "TIMEOUT"}
                    \/ result.id \in OwnIds /\ result.status = Expected(eventType)
                    \/ /\ Confused
                       /\ result.id \in 1 .. eventId
                       /\ result.status \in {Expected(t) : t \in EventType}
  BY DEF AnswerBelongsToEvent
<1>1. result = TimeoutResult => result.id = eventId /\ result.status = "TIMEOUT"
  BY DEF TimeoutResult
<1>2. ASSUME NEW c \in OwnCommands, result = Execute(c)
      PROVE  result.id \in OwnIds /\ result.status = Expected(eventType)
  BY <1>2, ExecuteOwn
<1>3. CASE ~Confused
  <2>1. result \in {Execute(cmd), TimeoutResult} /\ cmd \in OwnCommands
    BY <1>3 DEF LinkInv, AnswerIsOwn, CommandIsOwn
  <2> QED
    BY <1>1, <1>2, <2>1
<1>4. CASE Confused
  <2>1. result = TimeoutResult \/ AnswerToServed(result)
    BY DEF LinkInv, NothingInvented
  <2>2. ASSUME NEW c \in TranslatedCommand, Served(c), result = Execute(c), c \notin OwnCommands
        PROVE  result.id \in 1 .. eventId /\ result.status \in {Expected(t) : t \in EventType}
    BY <2>2 DEF Served, Execute, Expected
  <2> QED
    BY <1>1, <1>2, <1>4, <2>1, <2>2 DEF AnswerToServed
<1> QED
  BY <1>3, <1>4

(* No answer goes to another event, for any number of events and whatever  *)
(* rules of the handshake the neighbours break, but for the two cases that *)
(* the statement names.                                                    *)
THEOREM AnswersAreOwn == LinkSpec => []AnswerBelongsToEvent
  BY ResultOfEvent, LinkInvariance, PTL

(* The FSM never waits for something that was lost, unless the adapter was *)
(* ready before it saw the command, and then it still is.                  *)
THEOREM WaitsAreAnswerable == LinkSpec => []WaitIsAnswerable
<1>1. LinkInv => WaitIsAnswerable
  <2> SUFFICES ASSUME LinkInv, state = "WAIT_RSP"
               PROVE  \/ job \in OwnCommands
                      \/ rspValid /\ rsp.id \in OwnIds
                      \/ cmdReady /\ "eagerCommand" \in liberties
    BY DEF WaitIsAnswerable
  <2>1. cmd \in OwnCommands
    BY DEF LinkInv, CommandIsOwn
  <2>2. job = cmd \/ (rspValid /\ rsp = Execute(cmd)) \/ (cmdReady /\ "eagerCommand" \in liberties)
    BY DEF LinkInv, CommandOrAnswer
  <2> QED
    BY <2>1, <2>2, ExecuteOwn
<1> QED
  BY <1>1, LinkInvariance, PTL

-----------------------------------------------------------------------------
(* A step of the interlock is a step of Interlock or changes nothing that  *)
(* Interlock sees. *)
LEMMA AnswersEdge ==
  ASSUME LinkInv, P4Step
  PROVE  /\ ~(state = "DONE" /\ resultReady) => answers' = answers
         /\ state = "DONE" /\ resultReady =>
              \/ resultValid /\ answers' = [answers EXCEPT ![result.id] = result.status]
              \/ "eagerResult" \in liberties /\ answers' = answers
<1>1. resultValid => state = "DONE"
  BY DEF LinkInv, Inv, SignalsMatchState
<1>2. resultReady /\ "eagerResult" \notin liberties => resultValid
  BY DEF LinkInv, InOrder
<1> QED
  BY <1>1, <1>2 DEF P4Step, TakeResult, AwaitResult

LEMMA AcceptMaps ==
  ASSUME LinkInv, Tick, state = "IDLE", eventValid PROVE A!Accept
<1>1. InOrder /\ WireTypes /\ liberties' = liberties /\ FSMStep /\ P4Step
  BY DEF LinkInv, Tick
<1>2. Last' = event.id /\ eventId' = event.id /\ eventType' = event.type
  BY <1>1, LastEdge
<1>3. event.id \in EventId /\ event.type \in EventType /\ event.id = offered
  BY <1>1 DEF WireTypes, Event, InOrder, DriverInOrder
<1>4. Latched' = [id |-> event.id, type |-> event.type]
  BY <1>2, <1>3, InOrderTypes DEF Latched
<1>5. state' = "TRANSLATE" /\ answers' = answers /\ Lapses' = Lapses
  BY <1>1, IdleEdge, AnswersEdge DEF Lapses, Confused
<1>6. A!Number = Last
  <2>1. eventId = Unset => A!Number = 0
    BY DEF A!Number, Latched
  <2>2. ASSUME eventId # Unset PROVE A!Number = eventId
    <3>1. eventId \in EventId /\ eventType \in EventType
      BY <2>2, InOrderTypes DEF LinkInv, CommandIsOwn
    <3> QED
      BY <2>2, <3>1, NoneAssumption DEF A!Number, Latched, NoneAssumption
  <2> QED
    BY <2>1, <2>2 DEF Last
<1>7. CASE Last = offered - 1
  <2>1. A!Number < MaxEvents /\ event.id = A!Number + 1
    BY <1>3, <1>6, <1>7, InOrderTypes, IdsAssumption, SMT DEF IdsAssumption
  <2> QED
    BY <1>3, <1>4, <1>5, <2>1 DEF A!Accept
<1>8. CASE Last = offered
  <2>1. "repeated" \in Lapses
    <3>1. Last # offered - 1
      BY <1>8, InOrderTypes, SMT
    <3> QED
      BY <1>1, <3>1 DEF InOrder, DriverInOrder
  <2>2. eventId # Unset /\ eventId = event.id
    BY <1>3, <1>8, InOrderTypes
  <2>3. eventType = event.type
    BY <1>1, <1>8 DEF InOrder, DriverInOrder
  <2>4. Latched = [id |-> event.id, type |-> event.type]
    BY <2>2, <2>3 DEF Latched
  <2>5. Latched # None
    BY <1>3, <2>4, NoneAssumption DEF NoneAssumption
  <2> QED
    BY <1>4, <1>5, <2>1, <2>4, <2>5 DEF A!Accept
<1> QED
  BY <1>1, <1>7, <1>8 DEF InOrder, DriverInOrder

LEMMA CloseMaps ==
  ASSUME LinkInv, Tick, state = "DONE", resultReady PROVE A!Close
<1>1. /\ NothingUnset /\ liberties' = liberties /\ FSMStep /\ P4Step /\ AnswerBelongsToEvent
  BY ResultOfEvent DEF LinkInv, Inv, Tick
<1>2. eventId \in EventId /\ eventId # Unset
  BY <1>1, InOrderTypes DEF NothingUnset
<1>3. Latched = [id |-> eventId, type |-> eventType]
  BY <1>2 DEF Latched
<1>4. state' = "IDLE" /\ Latched' = Latched /\ Lapses' = Lapses
  BY <1>1, DoneEdge DEF Latched, Lapses, Confused
<1>5. CASE "eagerResult" \in liberties /\ answers' = answers
  <2>1. "lost" \in Lapses
    BY <1>5 DEF Lapses
  <2> QED
    BY <1>4, <1>5, <2>1 DEF A!Close
<1>6. CASE answers' = [answers EXCEPT ![result.id] = result.status]
  <2>1. CASE result.id = eventId /\ result.status \in {Expected(eventType), "TIMEOUT"}
    BY <1>3, <1>4, <1>6, <2>1 DEF A!Close, A!Answered
  <2>2. CASE result.id \in OwnIds /\ result.id # eventId /\ result.status = Expected(eventType)
    <3>1. "early" \in Lapses /\ result.id = eventId + 1
      BY <2>2 DEF OwnIds, Lapses
    <3> QED
      BY <1>3, <1>4, <1>6, <2>2, <3>1 DEF A!Close, A!Answered
  <2>3. CASE /\ Confused
             /\ result.id \in 1 .. eventId /\ result.status \in {Expected(t) : t \in EventType}
    <3>1. "late" \in Lapses
      BY <2>3 DEF Lapses
    <3>2. \E k \in 1 .. Latched.id, t \in EventType : A!Answered(k, Expected(t))
      BY <1>3, <1>6, <2>3 DEF A!Answered
    <3> QED
      BY <1>4, <3>1, <3>2 DEF A!Close
  <2> QED
    BY <1>1, <2>1, <2>2, <2>3 DEF AnswerBelongsToEvent
<1> QED
  BY <1>1, <1>5, <1>6, AnswersEdge

(* What Interlock sees does not change on any other edge. *)
LEMMA OtherEdgesStutter ==
  ASSUME LinkInv, Tick, ~(state = "IDLE" /\ eventValid), ~(state = "DONE" /\ resultReady)
  PROVE  UNCHANGED <<Lapses, Latched, state # "IDLE", answers>>
<1>1. FSMStep /\ P4Step /\ liberties' = liberties /\ state \in States
  BY DEF LinkInv, Inv, TypeOK, Tick
<1>2. answers' = answers
  BY <1>1, AnswersEdge
<1>3. eventId' = eventId /\ eventType' = eventType
  BY <1>1, LastEdge
<1>4. state' = "IDLE" <=> state = "IDLE"
  BY <1>1, IdleEdge, TranslateEdge, IssueEdge, WaitEdge, FormatEdge, DoneEdge DEF States
<1>5. Lapses' = Lapses /\ Latched' = Latched
  BY <1>1, <1>3 DEF Lapses, Confused, Latched
<1> QED
  BY <1>2, <1>4, <1>5

(* The refinement: FSM, driver and simulator serve any number of events    *)
(* one at a time, in order, and answer each exactly once, with the status  *)
(* its command deserves or with a timeout, whatever the neighbours do, but *)
(* for the lapses of the rules they break.                                 *)
THEOREM InterlockImplemented == LinkSpec => ImplementsInterlock
<1>1. LinkInit => A!Init
  <2>1. Lapses \subseteq {"repeated", "lost", "early", "late"}
    BY DEF Lapses
  <2> QED
    BY <2>1 DEF LinkInit, Init, A!Init, Latched
<1>2. LinkInv /\ [Tick]_allVars =>
        [A!Accept \/ A!Close]_<<Lapses, Latched, state # "IDLE", answers>>
  <2>1. CASE Tick /\ LinkInv
    BY <2>1, AcceptMaps, CloseMaps, OtherEdgesStutter
  <2>2. CASE UNCHANGED allVars
    <3>1. UNCHANGED <<liberties, eventId, eventType, state, answers>>
      BY <2>2 DEF allVars, vars, registers, driver
    <3> QED
      BY <3>1 DEF Lapses, Confused, Latched
  <2> QED
    BY <2>1, <2>2
<1> QED
  BY <1>1, <1>2, LinkInvariance, PTL DEF LinkSpec, ImplementsInterlock, A!Spec
=============================================================================
