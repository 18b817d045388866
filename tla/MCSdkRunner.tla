----------------------------- MODULE MCSdkRunner -----------------------------
(***************************************************************************)
(* Small instances of SdkRunner.                                           *)
(***************************************************************************)
EXTENDS SdkRunner

CONSTANTS p1, p2
=============================================================================
