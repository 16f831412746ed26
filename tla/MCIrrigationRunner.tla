------------------------ MODULE MCIrrigationRunner ------------------------
(* Small instances of IrrigationRunner for TLC. *)
EXTENDS IrrigationRunner, TLC

CONSTANTS w1, w2, z1, Always

\* Every day, Mondays, Tuesdays, and a text without any weekday in it.
MCWeekdays == {Always, {1}, {}}
MCEveryDay == {Always}
MCTwoSets  == {Always, {1}}

Symmetry == Permutations(Workers)
=============================================================================
