------------------------------ MODULE MCEventLog ------------------------------
(***************************************************************************)
(* EventLog for TLC: evRx from the handlers, evReady from main.            *)
(***************************************************************************)
EXTENDS EventLog

CONSTANTS evRx, evReady

MCIsrEvents == {evRx}
MCMainEvents == {evReady}
=============================================================================
