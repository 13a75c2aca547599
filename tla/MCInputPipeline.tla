--------------------------- MODULE MCInputPipeline ---------------------------
(***************************************************************************)
(* Instances of InputPipeline for TLC: two gamepads of one button.         *)
(***************************************************************************)
EXTENDS InputPipeline

MCStates == {<<0>>, <<1>>}
MCPackets == {<<i, s>> : i \in 0 .. 1, s \in 0 .. 1}
=============================================================================
