------------------------------ MODULE MCSandbox ------------------------------
(***************************************************************************)
(* Sandbox with a few calls as model values.                               *)
(***************************************************************************)
EXTENDS Sandbox

CONSTANTS c1, c2, c3

=============================================================================
