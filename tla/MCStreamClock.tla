--------------------------- MODULE MCStreamClock ---------------------------
(* StreamClock on a small instance: two works, so that the older timestamp *)
(* can be mapped after the newer one, two seeds, and clocks that are ahead *)
(* of each other either way; the stores of a reset in the order of the     *)
(* source, and in the opposite one.                                        *)
EXTENDS StreamClock, TLC

CONSTANTS h1, h2, sd1, sd2

MCHandlers == {h1, h2}
MCSeeds == {sd1, sd2}
MCSkews == {-1, 1}
MCOrders ==
  {<<"waiting", "remote", "after", "offset", "seed", "valid">>,
   <<"valid", "seed", "offset", "after", "remote", "waiting">>}
MCSymmetry == Permutations(MCHandlers)
=============================================================================
