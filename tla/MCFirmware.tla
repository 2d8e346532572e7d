------------------------------ MODULE MCFirmware ------------------------------
(***************************************************************************)
(* Firmware for TLC: packets of 2 bytes, headers of 1, and a 4-bit int.    *)
(***************************************************************************)
EXTENDS Firmware

CONSTANTS write, truncated, overMax, wrapped, read0, read1, trigger, unknown

MCMessages ==
  {write, truncated, overMax, wrapped, read0, read1, trigger, unknown}

MCWrites == {write, truncated, overMax, wrapped}

MCRequests == {read0, read1}

MCTriggers == {trigger}

(* Of truncated the host sends less than it declares.  overMax declares a  *)
(* size to which an int cannot add the header, wrapped one with which the  *)
(* sum is 0; of both the host sends full packets.                          *)
MCDeclares ==
  [m \in MCMessages |->
     CASE m \in {write, truncated} -> 2
       [] m = overMax -> 7
       [] m = wrapped -> 15
       [] m \in MCRequests -> 2
       [] OTHER -> 0]

MCSizeOf ==
  [m \in MCMessages |->
     CASE m = truncated -> 2
       [] m = write -> 3
       [] m = overMax -> 2
       [] m = wrapped -> 4
       [] OTHER -> 1]

MCTag == [m \in MCRequests |-> IF m = read0 THEN 0 ELSE 1]

MCAnswers == {0, 2}
=============================================================================
