---------------------------- MODULE MCInputClient ----------------------------
(***************************************************************************)
(* Instances of InputClient for TLC: gamepads of one button.               *)
(***************************************************************************)
EXTENDS InputClient

MCStates == {<<0>>, <<1>>}
=============================================================================
