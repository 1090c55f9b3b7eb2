---------------------------- MODULE MCInputQueue ----------------------------
(* Instances of InputQueue for TLC: a hook thread and the UI thread. *)
EXTENDS InputQueue, TLC
CONSTANTS Hook, Mayu
MCProducer == {Hook, Mayu}
=============================================================================
