--------------------------- MODULE MCControlMode ----------------------------
(***************************************************************************)
(* ControlMode for TLC.                                                    *)
(***************************************************************************)
EXTENDS ControlMode

=============================================================================
