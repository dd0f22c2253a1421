----------------------------- MODULE Interlock -----------------------------
(***************************************************************************)
(* What the P4/P3Q interlock promises, without clock, states or wires: the *)
(* numbered events of P4 are served one at a time and in order, and each   *)
(* is answered exactly once, with the status its command deserves or with  *)
(* a timeout.  Neighbours that break the handshake cost more than that,    *)
(* but only what the lapses of a behaviour allow:                          *)
(*   repeated  an event is served again before its successor is            *)
(*   lost      an event is served without an answer                        *)
(*   early     its answer is handed over under the number of the next one  *)
(*   late      it is closed with the answer to an event served before      *)
(* P3QInterlock is shown to implement this.                                *)
(***************************************************************************)
EXTENDS Integers

CONSTANTS
  MaxEvents,        \* events are numbered 1 .. MaxEvents
  EventType,        \* event types
  Outcome(_),       \* status the simulator gives to an event of a type
  None              \* no event yet, no answer yet

VARIABLES
  lapses,   \* what may go wrong in this behaviour
  event,    \* the event served last, or None
  open,     \* whether it is still in service
  answers   \* answers[k]: status handed to P4 for event k, or None

Init ==
  /\ lapses \subseteq {"repeated", "lost", "early", "late"}
  /\ event = None /\ open = FALSE
  /\ answers = [k \in 1 .. MaxEvents |-> None]

Number == IF event = None THEN 0 ELSE event.id

Accept ==
  /\ ~open /\ open' = TRUE
  /\ \/ /\ Number < MaxEvents
        /\ \E t \in EventType : event' = [id |-> Number + 1, type |-> t]
     \/ /\ "repeated" \in lapses /\ event # None
        /\ UNCHANGED event
  /\ UNCHANGED <<lapses, answers>>

Answered(k, s) == answers' = [answers EXCEPT ![k] = s]

Close ==
  /\ open /\ open' = FALSE
  /\ \/ \E s \in {Outcome(event.type), "TIMEOUT"} : Answered(event.id, s)
     \/ "lost" \in lapses /\ UNCHANGED answers
     \/ "early" \in lapses /\ Answered(event.id + 1, Outcome(event.type))
     \/ "late" \in lapses /\ \E k \in 1 .. event.id, t \in EventType : Answered(k, Outcome(t))
  /\ UNCHANGED <<lapses, event>>

Spec == Init /\ [][Accept \/ Close]_<<lapses, event, open, answers>>
=============================================================================
