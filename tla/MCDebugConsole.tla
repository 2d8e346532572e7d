---------------------------- MODULE MCDebugConsole ----------------------------
(***************************************************************************)
(* DebugConsole for TLC: two ports; a command of the menu that fits in     *)
(* cmdBuf, and a raw one that does not.                                    *)
(***************************************************************************)
EXTENDS DebugConsole

CONSTANTS ttyACM0, ttyACM1, ping, long

MCPorts == {ttyACM0, ttyACM1}

MCCommands == {ping, long}

MCKnown == {ping}

MCSize == [c \in MCCommands |-> IF c = ping THEN 2 ELSE 3]
=============================================================================
