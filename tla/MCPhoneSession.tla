--------------------------- MODULE MCPhoneSession ---------------------------
(***************************************************************************)
(* PhoneSession for TLC.                                                   *)
(***************************************************************************)
EXTENDS PhoneSession

AllFaults == {"handshake", "configure", "swap", "stall", "drain"}
=============================================================================
