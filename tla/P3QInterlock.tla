---------------------------- MODULE P3QInterlock ----------------------------
(***************************************************************************)
(* The interlock as a whole: a P4 driver on the event and result ports of  *)
(* the FSM (module Handshake) and the quantum simulator of                 *)
(* python/p3q_simulator.py, behind a bus adapter, on its command and       *)
(* response ports.  All of them are clocked together: one Tick is one      *)
(* rising edge, at which every party samples the wires as they were before *)
(* the edge.                                                               *)
(*                                                                         *)
(* Neither the driver nor the adapter is in the repository.  The FSM is    *)
(* correct only beside neighbours of some discipline; `liberties' holds    *)
(* the rules they break in a behaviour:                                    *)
(*   eagerEvent    the driver raises event_valid before it saw event_ready *)
(*   movedBus      the driver moves on to its next event on the edge of    *)
(*                 the handshake                                           *)
(*   eagerResult   the driver raises result_ready before result_valid      *)
(*   eagerCommand  the adapter raises cmd_ready before it saw cmd_valid    *)
(*   lateAnswer    the adapter answers after rsp_ready has fallen: execute *)
(*                 is a plain call, nothing cancels it                     *)
(*   pipelined     the adapter takes a command while an answer is pending  *)
(***************************************************************************)
EXTENDS Handshake

CONSTANTS
  MaxEvents,      \* the driver offers events 1 .. MaxEvents
  OfferDeadline,  \* deadlines it gives them
  MaxQubits,      \* P3QSimulator.max_qubits (32 unless its caller says otherwise)
  GroverCap,      \* Grover runs made for one command at most (100)
  KeyMaterial,    \* random bytes in a successful response
  LibertySets,    \* sets of rules that may be broken together
  None

Rules ==
  {"eagerEvent", "movedBus", "eagerResult", "eagerCommand", "lateAnswer", "pipelined"}

ASSUME LibertyAssumption == LibertySets \subseteq SUBSET Rules
ASSUME IdsAssumption == MaxEvents \in Nat /\ EventId = 1 .. MaxEvents /\ Params = EventId
ASSUME RepliesAssumption ==
  {"SUCCESS", "ERROR", "UNSUPPORTED"} \subseteq Status /\ KeyMaterial \in Data
ASSUME NoneAssumption ==
  None \notin Status /\ None \notin TranslatedCommand /\ None \notin [id: EventId, type: EventType]
ASSUME CapAssumption == GroverCap \in Nat
ASSUME OfferAssumption == OfferDeadline \subseteq Deadline

VARIABLES
  eventValid,   \* port p4_event_valid
  event,        \* ports p4_event_id, _type, _deadline (and _params: see below)
  offered,      \* driver: number of events offered so far
  resultReady,  \* port p4_result_ready
  answers,      \* driver: status received for each event, None before
  cmdReady,     \* port qsim_cmd_ready
  job,          \* adapter: command handed to execute, None if none runs
  rspValid,     \* port qsim_rsp_valid
  rsp,          \* ports qsim_rsp_id, _status, _data, _shots
  liberties     \* the rules driver and adapter break; chosen once

driver == <<eventValid, event, offered, resultReady, answers>>
simulator == <<cmdReady, job, rspValid, rsp>>
allVars == <<vars, driver, simulator, liberties>>

-----------------------------------------------------------------------------
(* P3QSimulator.execute and the four _sim_ methods.  The command bus has   *)
(* no event id, although QSimCommand has one: the only word of the event   *)
(* that reaches the adapter is the parameter word, so P4 puts the id there *)
(* and the adapter takes it from there.                                    *)
Verdict(command) ==
  IF command.qubits > MaxQubits THEN "ERROR"
  ELSE IF command.type \in 1 .. 4 THEN "SUCCESS" ELSE "UNSUPPORTED"

ShotsDone(command) ==
  CASE Verdict(command) # "SUCCESS" -> 0
    [] Verdict(command) = "SUCCESS" /\ command.type \in {1, 2} -> 1
    [] Verdict(command) = "SUCCESS" /\ command.type = 3 /\ command.shots > GroverCap -> GroverCap
    [] OTHER -> command.shots

Execute(c) ==
  [id |-> c.params,
   status |-> Verdict(c.command),
   data |-> IF Verdict(c.command) = "SUCCESS" THEN KeyMaterial ELSE NoData,
   shots |-> ShotsDone(c.command)]

-----------------------------------------------------------------------------
LinkInit ==
  /\ Init
  /\ liberties \in LibertySets
  /\ eventValid = FALSE /\ event = Unset /\ offered = 0
  /\ resultReady = FALSE /\ answers = [k \in 1 .. MaxEvents |-> None]
  /\ cmdReady = FALSE /\ job = None
  /\ rspValid = FALSE /\ rsp = Unset

(* The FSM samples the driver's and the adapter's wires. *)
FSMStep ==
  \/ ~eventValid /\ Await
  \/ eventValid /\ Accept(event)
  \/ state = "TRANSLATE" /\ Translate(event.id)
  \/ IssueCmd(cmdReady)
  \/ WaitRsp(rspValid)
  \/ state = "FORMAT_RSP" /\ FormatRsp(rsp)
  \/ Done(resultReady)

(* The driver keeps the payload on the bus until the next offer, which     *)
(* comes at the earliest on the edge after the handshake, or on its edge.  *)
OfferEvent ==
  /\ \/ ~eventValid /\ (eventReady \/ "eagerEvent" \in liberties)
     \/ eventValid /\ eventReady /\ "movedBus" \in liberties
  /\ offered < MaxEvents
  /\ eventValid' = TRUE
  /\ offered' = offered + 1
  /\ \E t \in EventType, d \in OfferDeadline :
       event' = [id |-> offered + 1, type |-> t, deadline |-> d]

KeepEvent ==
  /\ eventValid' = (eventValid /\ ~eventReady)
  /\ UNCHANGED <<event, offered>>

TakeResult ==
  /\ resultValid /\ resultReady
  /\ answers' = [answers EXCEPT ![result.id] = result.status]
  /\ resultReady' \in IF "eagerResult" \in liberties THEN BOOLEAN ELSE {FALSE}

AwaitResult ==
  /\ ~(resultValid /\ resultReady)
  /\ resultReady' \in IF resultValid \/ "eagerResult" \in liberties
                        THEN {resultReady, TRUE} ELSE {resultReady}
  /\ UNCHANGED answers

P4Step == (OfferEvent \/ KeepEvent) /\ (TakeResult \/ AwaitResult)

CanTake == job = None /\ (~rspValid \/ "pipelined" \in liberties)

TakeCommand ==
  /\ cmdValid /\ cmdReady
  /\ job' = cmd
  /\ cmdReady' = FALSE
  /\ rspValid' = (rspValid /\ ~rspReady)
  /\ UNCHANGED rsp

Respond ==
  /\ job # None /\ ~rspValid
  /\ rspReady \/ "lateAnswer" \in liberties
  /\ rsp' = Execute(job)
  /\ rspValid' = TRUE
  /\ job' = None
  /\ UNCHANGED cmdReady

(* A disciplined adapter drops job and answer once rsp_ready has fallen. *)
SimIdle ==
  /\ ~(cmdValid /\ cmdReady)
  /\ cmdReady' \in IF CanTake /\ (cmdValid \/ "eagerCommand" \in liberties)
                     THEN {cmdReady, TRUE} ELSE {cmdReady}
  /\ job' = IF rspReady \/ "lateAnswer" \in liberties THEN job ELSE None
  /\ rspValid' = (rspValid /\ ~rspReady /\ "lateAnswer" \in liberties)
  /\ UNCHANGED rsp

SimStep == TakeCommand \/ Respond \/ SimIdle

Tick == FSMStep /\ P4Step /\ SimStep /\ UNCHANGED liberties

LinkSpec == LinkInit /\ [][Tick]_allVars

(* The clock runs, the adapter takes an offered command in the end, and    *)
(* the driver an offered result.  Nothing forces the simulator to answer.  *)
LinkFairSpec ==
  /\ LinkSpec
  /\ WF_allVars(Tick)
  /\ WF_allVars(Tick /\ cmdReady')
  /\ WF_allVars(Tick /\ resultReady')

-----------------------------------------------------------------------------
Expected(type) == Verdict(Translated(type))

(* The numbers under which the event in service may be executed: the       *)
(* parameters come from the bus one edge after the event was latched.      *)
OwnIds == {eventId} \cup (IF "movedBus" \in liberties THEN {eventId + 1} ELSE {})

OwnCommands == [command: {Translated(eventType)}, params: OwnIds]

(* An adapter that takes a command while its late answer to another is     *)
(* pending.                                                                *)
Confused == {"lateAnswer", "pipelined"} \subseteq liberties

(* The result about to be handed over is the one of the event that was     *)
(* latched, however early or late the neighbours' wires move: the id comes *)
(* from the response port one edge after the transfer, or from             *)
(* event_id_reg.  A driver that moves the bus gets it under the number of  *)
(* the event it moved on to, an adapter that is confused delivers an older *)
(* answer, and nothing else can happen.                                    *)
AnswerBelongsToEvent ==
  state = "DONE" =>
    \/ result.id = eventId /\ result.status \in {Expected(eventType), "TIMEOUT"}
    \/ result.id \in OwnIds /\ result.status = Expected(eventType)
    \/ /\ Confused
       /\ result.id \in 1 .. eventId /\ result.status \in {Expected(t) : t \in EventType}

(* While the FSM waits, the simulator works on this event's command, or    *)
(* its answer is on the wires.  A command is lost only if the adapter was  *)
(* ready before it saw one, and then the adapter is still ready.           *)
WaitIsAnswerable ==
  state = "WAIT_RSP" =>
    \/ job \in OwnCommands
    \/ rspValid /\ rsp.id \in OwnIds
    \/ cmdReady /\ "eagerCommand" \in liberties

(* The abstract interlock, seen through the FSM's state, and what broken   *)
(* rules cost it.                                                          *)
Latched == IF eventId = Unset THEN None ELSE [id |-> eventId, type |-> eventType]

Lapses ==
  (IF {"eagerEvent", "movedBus"} \cap liberties # {} THEN {"repeated"} ELSE {})
    \cup (IF "eagerResult" \in liberties THEN {"lost"} ELSE {})
    \cup (IF "movedBus" \in liberties THEN {"early"} ELSE {})
    \cup (IF Confused THEN {"late"} ELSE {})

A == INSTANCE Interlock
       WITH lapses <- Lapses, event <- Latched, open <- state # "IDLE", Outcome <- Expected

(* Beside neighbours that break no rule every event is served in order and *)
(* answered exactly once: module Interlock, implemented.  Broken rules     *)
(* cost no more than their lapses; an eager command and a late answer by   *)
(* themselves cost nothing but timeouts.                                   *)
ImplementsInterlock == A!Spec

(* The FSM waits for cmd_ready, and the adapter, which still holds a       *)
(* command or an answer from before, for rsp_ready.                        *)
MutualWait == "lateAnswer" \in liberties /\ state = "ISSUE_CMD" /\ ~CanTake

(* The answer to event k leaves the FSM unseen, or under another number.   *)
Astray(k) ==
  /\ state = "DONE" /\ eventId = k
  /\ \/ "eagerResult" \in liberties /\ resultReady /\ ~resultValid
     \/ (Confused \/ "movedBus" \in liberties) /\ result.id # k

(* Every offered event is answered, by a timeout if by nothing else,       *)
(* unless its answer goes astray or FSM and adapter wait for each other,   *)
(* which takes a rule to be broken.                                        *)
EveryEventAnswered ==
  \A k \in 1 .. MaxEvents :
    offered = k /\ eventId # k ~> answers[k] # None \/ Astray(k) \/ MutualWait
=============================================================================
