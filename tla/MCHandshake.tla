---------------------------- MODULE MCHandshake ----------------------------
(* Handshake with arbitrary inputs on every port, for TLC. *)
EXTENDS Handshake

CONSTANTS e1, e2, p1, p2, d0, d1

MCEventId == {e1, e2}
MCEventType == {1, 3, 9}
MCParams == {p1, p2}
MCStatus == {"SUCCESS", "TIMEOUT"}
MCData == {d0, d1}
=============================================================================
