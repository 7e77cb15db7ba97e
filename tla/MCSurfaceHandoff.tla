-------------------------- MODULE MCSurfaceHandoff --------------------------
(***************************************************************************)
(* SurfaceHandoff for TLC.                                                 *)
(***************************************************************************)
EXTENDS SurfaceHandoff
=============================================================================
