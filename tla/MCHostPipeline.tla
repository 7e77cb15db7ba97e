--------------------------- MODULE MCHostPipeline ---------------------------
(***************************************************************************)
(* HostPipeline for TLC.                                                   *)
(***************************************************************************)
EXTENDS HostPipeline

NoFaults == {}
AllFaults == {"submit", "encode", "discard"}
NoHandlerFaults == {"submit", "encode"}
EncodeFaults == {"encode"}
=============================================================================
