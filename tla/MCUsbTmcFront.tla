---------------------------- MODULE MCUsbTmcFront -----------------------------
(***************************************************************************)
(* UsbTmcFront for TLC, with a 6-bit int: -32 .. 31.                       *)
(***************************************************************************)
EXTENDS UsbTmcFront

(* Sizes that a header of 12 can be added to, up to the largest int; and   *)
(* sizes for which the sum is negative, zero or less than 12.              *)
WideSizes == {0, 1, 4, 19} \cup {20, 32, 51, 52, 63}

(* Headers cut short, exact and truncated payloads, and padding.           *)
MCLens == {4, 12, 13, 16, 17}

MCAnswers == {0, 1, 5}
=============================================================================
