---------------------------- MODULE MCFlashCache ----------------------------
(* Two clients at their real priorities: the MicroPython thread shares      *)
(* priority 1 with the flush thread, the mass storage daemon has 15.        *)
EXTENDS FlashCache, TLC

CONSTANTS mp, msc

MCPrio == [t \in Tasks |-> IF t = msc THEN 15 ELSE 1]

MCSymmetry ==
    Permutations(Sectors) \cup Permutations(Offsets) \cup Permutations(Data)
=============================================================================
