---------------------------- MODULE MCRevealPage ----------------------------
(***************************************************************************)
(* The recipient's page on a small instance: the right key, a wrong key, a *)
(* fragment that is no key and one that is missing.  Calls of one kind are *)
(* interchangeable; the run without liveness uses their symmetry.          *)
(***************************************************************************)
EXTENDS RevealPage, TLC

CONSTANTS right, wrong, broken, missing,   \* fragments
          load1, load2, open1, open2, tick, tock

MCKeys == {right, wrong}
MCMissing == {right, missing}
MCFragments == {right, wrong, broken}
MCOneKey == {right}
MCLoads == {load1, load2}
MCOneLoad == {load1}
MCOpens == {open1, open2}
MCOneOpen == {open1}
MCTimers == {tick, tock}
MCOneTimer == {tick}
MCSymmetry == Permutations(MCLoads) \cup Permutations(MCOpens)
=============================================================================
