------------------------------- MODULE MCUsbTx -------------------------------
(***************************************************************************)
(* UsbTx for TLC: responses about the packet size and its multiples.  A    *)
(* response is named by its length; two of them have the same length.      *)
(***************************************************************************)
EXTENDS UsbTx

CONSTANTS empty, header, short, full, again, over, double, triple

MCResponses == {empty, header, short, full, again, over, double, triple}

(* Fewer, for the host with more freedom.                                  *)
ImpatientResponses == {header, full, double, triple}

MCLength ==
  [r \in Responses |->
     CASE r = empty  -> 0
       [] r = header -> 12
       [] r = short  -> 63
       [] r \in {full, again} -> 64
       [] r = over   -> 65
       [] r = double -> 128
       [] r = triple -> 190]

(* append leaves room behind what it copies.                               *)
MCCapacity == [r \in Responses |-> IF r = header THEN 12 ELSE MCLength[r] + 4]
=============================================================================
