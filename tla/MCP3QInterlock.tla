--------------------------- MODULE MCP3QInterlock ---------------------------
(* A few events through the composed interlock, for TLC. *)
EXTENDS P3QInterlock

MCEventId == 1 .. MaxEvents
MCStatus == {"SUCCESS", "TIMEOUT", "ERROR", "UNSUPPORTED"}
MCData == {"zeros", "bytes"}

MCLibertySets ==
  {{}, {"eagerEvent", "eagerResult"}, {"movedBus"}, {"eagerCommand"},
   {"lateAnswer"}, {"pipelined"}, {"lateAnswer", "pipelined"}}
=============================================================================
