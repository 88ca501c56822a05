----------------------------- MODULE MCJocCore -----------------------------
(***************************************************************************)
(* The instance of JocCorePool for TLC: a five-channel and a seven-channel *)
(* program, with and without phase shift, one object that is always there  *)
(* and one that comes and goes, every kind of matrix transition, and calls *)
(* that are refused.                                                       *)
(***************************************************************************)
EXTENDS JocCorePool

Steady ==
    [channels |-> 5, phase |-> TRUE, lfe |-> TRUE, gain |-> 1, mask |-> {0, 1},
     slope |-> 0, offset |-> <<0, 0>>, targets |-> <<1, 2>>, fault |-> "none"]

SomeFrames ==
    {Steady,
     [Steady EXCEPT !.channels = 7, !.phase = FALSE, !.gain = 2, !.mask = {1}, !.slope = 1,
                    !.offset = <<1, 3>>],
     [Steady EXCEPT !.phase = FALSE, !.mask = {}, !.targets = <<2>>, !.offset = <<2>>, !.lfe = FALSE],
     [Steady EXCEPT !.fault = "objects"]}

=============================================================================
