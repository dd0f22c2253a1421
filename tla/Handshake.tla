----------------------------- MODULE Handshake -----------------------------
(***************************************************************************)
(* The synchronous state machine of vhdl/p3q_p4_handshake.vhd, which takes *)
(* an event from the P4 side, turns it into a simulator command, waits for *)
(* the response up to the event's deadline and hands a result back.        *)
(*                                                                         *)
(* A step is one rising edge of clk (or an asynchronous reset).  Every     *)
(* action is the arm of the case statement for one state and takes the     *)
(* input ports that arm samples as parameters; in this module the inputs   *)
(* are arbitrary, in P3QInterlock they are the outputs of the neighbours.  *)
(***************************************************************************)
EXTENDS Integers

CONSTANTS
  EventId,      \* values of p4_event_id and qsim_rsp_id
  EventType,    \* values of p4_event_type; 1..4 are the known commands
  Params,       \* values of p4_event_params
  Status,       \* values of qsim_rsp_status
  Data,         \* values of qsim_rsp_data, with the all-zero word NoData
  NoData,
  MaxShots,     \* generic MAX_SHOTS
  CounterSize,  \* 2^w for the w-bit cycle counter and deadline port (w = 64)
  Unset         \* content of a register never written since power-up ('U')

ASSUME CounterAssumption == CounterSize \in Nat \ {0}
ASSUME DataAssumption == NoData \in Data
ASSUME StatusAssumption == "TIMEOUT" \in Status
ASSUME ShotsAssumption == MaxShots \in Nat
ASSUME UnsetAssumption == Unset \notin Nat

VARIABLES
  state,        \* signal state
  eventId,      \* event_id_reg
  eventType,    \* event_type_reg
  deadline,     \* deadline_reg
  cycle,        \* cycle_counter
  eventReady,   \* port p4_event_ready
  resultValid,  \* port p4_result_valid
  result,       \* ports p4_result_id, _status, _data, _shots
  cmdValid,     \* port qsim_cmd_valid
  cmd,          \* ports qsim_cmd_type, _qubits, _shots, _params
  rspReady,     \* port qsim_rsp_ready
  elapsed,      \* history: edges spent in ISSUE_CMD and WAIT_RSP for this event
  waited        \* history: those of them spent in WAIT_RSP

registers == <<eventId, eventType, deadline>>
ports == <<eventReady, resultValid, cmdValid, rspReady>>
history == <<elapsed, waited>>
vars == <<state, registers, cycle, ports, result, cmd, history>>

-----------------------------------------------------------------------------
States == {"IDLE", "TRANSLATE", "ISSUE_CMD", "WAIT_RSP", "FORMAT_RSP", "DONE"}
Deadline == 0 .. CounterSize - 1
Shots == {1} \cup 0 .. MaxShots

Event == [id: EventId, type: EventType, deadline: Deadline]
Response == [id: EventId, status: Status, data: Data, shots: Shots]

(* The command table of state TRANSLATE. *)
Translated(type) ==
  CASE type = 1 -> [type |-> 1, qubits |-> 256, shots |-> 1]
    [] type = 2 -> [type |-> 2, qubits |-> 128, shots |-> 1]
    [] type = 3 -> [type |-> 3, qubits |-> 512, shots |-> MaxShots]
    [] type = 4 -> [type |-> 4, qubits |-> 257, shots |-> MaxShots]
    [] OTHER    -> [type |-> 255, qubits |-> 0, shots |-> 0]

-----------------------------------------------------------------------------
Init ==
  /\ state = "IDLE"
  /\ eventId = Unset /\ eventType = Unset /\ deadline = Unset
  /\ cycle = 0
  /\ eventReady = TRUE /\ resultValid = FALSE
  /\ cmdValid = FALSE /\ rspReady = FALSE
  /\ result = Unset /\ cmd = Unset
  /\ elapsed = 0 /\ waited = 0

(* Mutant of Count: the counter is wider than the deadline port. *)
CountNoWrap ==
  cycle' = IF state \in {"ISSUE_CMD", "WAIT_RSP"} THEN cycle + 1 ELSE 0

(* The counter process: it runs on every edge, beside the case statement,  *)
(* and looks at the state before the edge.                                 *)
Count ==
  cycle' = IF state \in {"ISSUE_CMD", "WAIT_RSP"}
             THEN (cycle + 1) % CounterSize
             ELSE 0

(* History: `elapsed' saturates, it is compared with deadlines only. *)
Observe ==
  /\ elapsed' = CASE state = "IDLE" -> 0
                  [] /\ state \in {"ISSUE_CMD", "WAIT_RSP"}
                     /\ elapsed < CounterSize -> elapsed + 1
                  [] OTHER -> elapsed
  /\ waited' = CASE state = "IDLE" -> 0
                 [] state = "WAIT_RSP" -> waited + 1
                 [] OTHER -> waited

Edge == Count /\ Observe

(* IDLE with p4_event_valid low. *)
Await ==
  /\ state = "IDLE"
  /\ eventReady' = TRUE
  /\ resultValid' = FALSE
  /\ Edge
  /\ UNCHANGED <<state, registers, cmdValid, cmd, rspReady, result>>

(* IDLE with p4_event_valid high: taken whatever p4_event_ready shows. *)
Accept(event) ==
  /\ state = "IDLE"
  /\ eventId' = event.id
  /\ eventType' = event.type
  /\ deadline' = event.deadline
  /\ eventReady' = FALSE
  /\ resultValid' = FALSE
  /\ state' = "TRANSLATE"
  /\ Edge
  /\ UNCHANGED <<cmdValid, cmd, rspReady, result>>

(* TRANSLATE: the parameters come from the port, one edge after Accept. *)
Translate(params) ==
  /\ state = "TRANSLATE"
  /\ cmd' = [command |-> Translated(eventType), params |-> params]
  /\ state' = "ISSUE_CMD"
  /\ Edge
  /\ UNCHANGED <<registers, ports, result>>

(* Mutant of IssueCmd: one edge of qsim_cmd_valid, whether it was seen or not. *)
IssueCmdBlind(cmdReady) ==
  /\ state = "ISSUE_CMD"
  /\ cmdValid' = ~(cmdReady \/ cmdValid)
  /\ rspReady' = (cmdReady \/ cmdValid)
  /\ state' = IF cmdReady \/ cmdValid THEN "WAIT_RSP" ELSE state
  /\ Edge
  /\ UNCHANGED <<registers, eventReady, resultValid, cmd, result>>

(* Mutant of IssueCmd: qsim_cmd_valid is never raised. *)
IssueCmdSilent(cmdReady) ==
  /\ state = "ISSUE_CMD"
  /\ cmdValid' = FALSE
  /\ rspReady' = (rspReady \/ cmdReady)
  /\ state' = IF cmdReady THEN "WAIT_RSP" ELSE state
  /\ Edge
  /\ UNCHANGED <<registers, eventReady, resultValid, cmd, result>>

(* ISSUE_CMD: qsim_cmd_valid rises one edge after the state is entered. *)
IssueCmd(cmdReady) ==
  /\ state = "ISSUE_CMD"
  /\ cmdValid' = ~cmdReady
  /\ rspReady' = (rspReady \/ cmdReady)
  /\ state' = IF cmdReady THEN "WAIT_RSP" ELSE state
  /\ Edge
  /\ UNCHANGED <<registers, eventReady, resultValid, cmd, result>>

(* Mutants of DeadlinePassed: equality, and one edge early. *)
DeadlineHit == cycle = deadline
DeadlineNext == cycle + 1 >= deadline

DeadlinePassed == cycle >= deadline

(* Mutant of TimeoutResult: the status of a failed command. *)
TimeoutAsError == [id |-> eventId, status |-> "ERROR", data |-> NoData, shots |-> 0]

TimeoutResult == [id |-> eventId, status |-> "TIMEOUT", data |-> NoData, shots |-> 0]

(* WAIT_RSP: a response on the port wins over a deadline that has passed. *)
TakeResponse ==
  /\ state = "WAIT_RSP"
  /\ rspReady' = FALSE
  /\ state' = "FORMAT_RSP"
  /\ Edge
  /\ UNCHANGED <<registers, eventReady, resultValid, cmdValid, cmd, result>>

(* Mutant of TimeOut: qsim_rsp_ready is left high. *)
TimeOutKeepsReady ==
  /\ state = "WAIT_RSP"
  /\ DeadlinePassed
  /\ result' = TimeoutResult
  /\ state' = "DONE"
  /\ Edge
  /\ UNCHANGED <<registers, eventReady, resultValid, cmdValid, cmd, rspReady>>

TimeOut ==
  /\ state = "WAIT_RSP"
  /\ DeadlinePassed
  /\ rspReady' = FALSE
  /\ result' = TimeoutResult
  /\ state' = "DONE"
  /\ Edge
  /\ UNCHANGED <<registers, eventReady, resultValid, cmdValid, cmd>>

KeepWaiting ==
  /\ state = "WAIT_RSP"
  /\ ~DeadlinePassed
  /\ Edge
  /\ UNCHANGED <<state, registers, ports, cmd, result>>

WaitRsp(rspValid) ==
  IF rspValid THEN TakeResponse ELSE TimeOut \/ KeepWaiting

(* FORMAT_RSP: the response ports are read one edge after TakeResponse. *)
FormatRsp(rsp) ==
  /\ state = "FORMAT_RSP"
  /\ result' = rsp
  /\ state' = "DONE"
  /\ Edge
  /\ UNCHANGED <<registers, ports, cmd>>

(* Mutant of Done: the result is cleared on the edge after it was offered. *)
DoneClearsResult(resultReady) ==
  /\ state = "DONE"
  /\ resultValid' = ~resultReady
  /\ state' = IF resultReady THEN "IDLE" ELSE state
  /\ result' = IF resultValid THEN TimeoutResult ELSE result
  /\ Edge
  /\ UNCHANGED <<registers, eventReady, cmdValid, cmd, rspReady>>

(* Mutant of Done: one edge of p4_result_valid, whether it was seen or not. *)
DoneBlind(resultReady) ==
  /\ state = "DONE"
  /\ resultValid' = ~(resultReady \/ resultValid)
  /\ state' = IF resultReady \/ resultValid THEN "IDLE" ELSE state
  /\ Edge
  /\ UNCHANGED <<registers, eventReady, cmdValid, cmd, rspReady, result>>

(* DONE: p4_result_valid rises one edge after the state is entered. *)
Done(resultReady) ==
  /\ state = "DONE"
  /\ resultValid' = ~resultReady
  /\ state' = IF resultReady THEN "IDLE" ELSE state
  /\ Edge
  /\ UNCHANGED <<registers, eventReady, cmdValid, cmd, rspReady, result>>

(* Asynchronous reset: the event and result registers keep their content. *)
Reset ==
  /\ state' = "IDLE"
  /\ eventReady' = TRUE
  /\ resultValid' = FALSE
  /\ cmdValid' = FALSE
  /\ rspReady' = FALSE
  /\ cycle' = 0
  /\ UNCHANGED <<registers, result, cmd, history>>

Clock ==
  \/ Await
  \/ \E e \in Event : Accept(e)
  \/ \E p \in Params : Translate(p)
  \/ \E ready \in BOOLEAN : IssueCmd(ready)
  \/ \E valid \in BOOLEAN : WaitRsp(valid)
  \/ \E r \in Response : FormatRsp(r)
  \/ \E ready \in BOOLEAN : Done(ready)

Next == Clock \/ Reset

Spec == Init /\ [][Next]_vars

-----------------------------------------------------------------------------
Command == [type: {1, 2, 3, 4, 255}, qubits: {0, 128, 256, 257, 512}, shots: Shots]
TranslatedCommand == [command: Command, params: Params]

(* Every signal holds a value its VHDL type allows. *)
TypeOK ==
  /\ state \in States
  /\ eventId \in EventId \cup {Unset}
  /\ eventType \in EventType \cup {Unset}
  /\ deadline \in Deadline \cup {Unset}
  /\ cycle \in 0 .. CounterSize - 1
  /\ eventReady \in BOOLEAN /\ resultValid \in BOOLEAN
  /\ cmdValid \in BOOLEAN /\ rspReady \in BOOLEAN
  /\ result \in Response \cup {Unset}
  /\ cmd \in TranslatedCommand \cup {Unset}
  /\ elapsed \in 0 .. CounterSize
  /\ waited \in Nat

(* The four handshake outputs never disagree with the state: each is set   *)
(* in one arm and cleared in another, one edge later, so a missing clear   *)
(* would offer a stale command, take a stray response or deliver twice.    *)
SignalsMatchState ==
  /\ eventReady => state = "IDLE"
  /\ resultValid => state = "DONE"
  /\ cmdValid => state = "ISSUE_CMD"
  /\ rspReady <=> state = "WAIT_RSP"

(* From TRANSLATE on, the registers hold an accepted event, and from DONE  *)
(* on there is a result: nothing undefined reaches a port that is valid.   *)
NothingUnset ==
  /\ state # "IDLE" =>
       eventId \in EventId /\ eventType \in EventType /\ deadline \in Deadline
  /\ state \notin {"IDLE", "TRANSLATE"} => cmd \in TranslatedCommand
  /\ state = "DONE" => result \in Response

(* How the counter and the history relate while the FSM works: the reason  *)
(* for WaitBounded and TimeoutNotPremature.                                *)
Timing ==
  /\ state \in {"TRANSLATE", "ISSUE_CMD"} => waited = 0
  /\ state = "WAIT_RSP" => waited = 0 \/ (waited <= cycle /\ cycle <= deadline)
  /\ state \in {"ISSUE_CMD", "WAIT_RSP"} => cycle <= elapsed
  /\ deadline # Unset => waited <= deadline + 1

(* However long the simulator stalls the command, and whatever the counter *)
(* did meanwhile (it wraps), WAIT_RSP is left within deadline + 1 edges.   *)
WaitBounded == deadline # Unset => waited <= deadline + 1

(* The FSM gives up (WAIT_RSP to DONE) only after the event has had at     *)
(* least `deadline' edges since its command was first offered.             *)
TimeoutNotPremature ==
  [][state = "WAIT_RSP" /\ state' = "DONE" => elapsed >= deadline]_vars

(* While a command or a result is offered its payload does not move.       *)
OfferStable ==
  [][ /\ cmdValid => cmd' = cmd
      /\ resultValid => result' = result ]_vars
=============================================================================
