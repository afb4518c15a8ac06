---------------------------- MODULE MCPcmStream ----------------------------
(* PcmStream on a small instance: two works that handle timestamps, so     *)
(* that one can be overtaken between the lock and the timer.               *)
EXTENDS PcmStream, TLC

CONSTANTS h1, h2, nobody

MCHandlers == {h1, h2}
MCOneHandler == {h1}

(* The works are alike, and the run that uses this checks no liveness. *)
MCSymmetry == Permutations(MCHandlers)

(* States that differ in beat alone, which only PeriodsGoOn looks at, are  *)
(* one for the invariants.                                                 *)
MCView ==
  <<pc, lock, alsa, started, waiting, timerVars, workVars, ioVars, sysVars,
    late, stopFailed, resetHit, overtaken, cut>>
=============================================================================
