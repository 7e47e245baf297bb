----------------------------- MODULE MCProcess -----------------------------
(* Constants for the runs of ProcessProvider. *)
EXTENDS ProcessProvider, TLC

CONSTANTS n1, n2, p1, p2, p3

(* Everything but ids reused under the daemon's eyes, and a stop in the    *)
(* instant between a start and its record.                                 *)
UsualFaults == FaultKind \ {"reuse", "unrecorded"}
============================================================================
