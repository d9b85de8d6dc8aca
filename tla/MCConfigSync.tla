----------------------------- MODULE MCConfigSync -----------------------------
(* Instance of ConfigSync for TLC: devices are interchangeable. *)
EXTENDS ConfigSync, TLC

Symmetry == Permutations(Devices)

\* After a deletion that a device may miss by an excused fault every property but
\* TypeOK is excused for good, since both are histories: such states lead nowhere.
Undecided == ~(deleted /\ faults \cap {"overtaken", "sameSecond", "uncleared", "older"} # {})
===============================================================================
