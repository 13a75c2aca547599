------------------------------- MODULE MCInput -------------------------------
(***************************************************************************)
(* Instances of Input for TLC: packets of one button and one axis.  The    *)
(* axis value 2 is no legal index when a packet is read out of step.       *)
(***************************************************************************)
EXTENDS Input

\* Gamepad 1, which is created by its first packet, pressed and released.
MCOnePad == {<<1, 1, 2>>, <<1, 0, 0>>}
=============================================================================
