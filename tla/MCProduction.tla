----------------------------- MODULE MCProduction -----------------------------
(***************************************************************************)
(* ProductionParts on small instances.                                     *)
(* The pages: four dates around the cutoff, a live database that still     *)
(* holds a row of the archive, an archive that already holds one of the    *)
(* live rows.                                                              *)
(***************************************************************************)
EXTENDS ProductionParts

CONSTANTS api, k1, k2

Rows(src, pairs) == {[date |-> p[1], src |-> src, id |-> p[2]] : p \in pairs}

FourIds     == {1, 2, 3, 4}
SomeArchive == Rows("archive", {<<1, 1>>, <<2, 2>>, <<2, 3>>, <<3, 4>>})
SomeLive    == Rows("live", {<<2, 3>>, <<3, 1>>, <<3, 4>>})

ThreeSizes == <<3, 3, 5>>
SevenDays  == 1 .. 7
ThreeSettings ==
  {[baseline |-> 2, stale |-> 2, drop |-> 50, spike |-> 100, min |-> 1],
   [baseline |-> 1, stale |-> 3, drop |-> 20, spike |-> 50, min |-> 0],
   [baseline |-> 0, stale |-> 0, drop |-> 50, spike |-> 100, min |-> 1]}

WithApi == {Daemon, api}

TwoKeys == [keys |-> {k1, k2}, cooldown |-> 2, factor |-> 2, retention |-> 5,
            posix |-> FALSE, until |-> 7]
Kills   == [keys |-> {k1, k2}, cooldown |-> 2, factor |-> 2, retention |-> 4,
            posix |-> FALSE, until |-> 3, faults |-> 1, crashes |-> 2]
Shares  == [keys |-> {k1}, cooldown |-> 2, factor |-> 1, retention |-> 2,
            posix |-> TRUE, until |-> 2, faults |-> 1, crashes |-> 1]
=============================================================================
