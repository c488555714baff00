--------------------------- MODULE ProductionParts ---------------------------
(***************************************************************************)
(* What is made of the production data, with its parameters: the pages of  *)
(* GET /records (the names of ProductionPages, unqualified), the summaries, *)
(* the rules of the anomaly detector and the emission of what they find.   *)
(* They share no state; `at` says which of them moves in a behaviour.  The *)
(* emission comes three times: a daemon that nothing disturbs, one that is *)
(* killed and whose writes fail, and a daemon beside threads of the API.   *)
(***************************************************************************)
EXTENDS ProductionPages

CONSTANTS
  BookDates, Items, Booked, Limits, Lot, Scale,                  \* summaries
  Days, Today, Quantities, MaxRows, Settings, Buffer, WorseDrop, WorseSpike,  \* rules
  Daemon, Scanners, NoFile, Cut,                                 \* emission
  CalmRun, KilledRun, SharedRun      \* the keys, times and bounds of each emission

VARIABLES
  at,
  booked, there,                                          \* summaries
  daily,                                                  \* rules
  now, file, tmp, scan, history, faults, crashes,         \* emission
  returned, queued, again, unmarked, unrecorded

emissionVars == <<now, file, tmp, scan, history, faults, crashes, returned, queued, again,
                  unmarked, unrecorded>>
otherVars    == <<booked, there, daily, emissionVars>>
allVars      == <<at, vars, otherVars>>

Summaries == INSTANCE SummaryMerge WITH
  Dates <- BookDates, Sizes <- Booked, rows <- booked, present <- there

Rules == INSTANCE AnomalyRules WITH Sizes <- Quantities, rows <- daily

Calm == INSTANCE AnomalyCooldown WITH
  Scanners <- {Daemon}, Keys <- CalmRun.keys, Cooldown <- CalmRun.cooldown,
  PruneFactor <- CalmRun.factor, Retention <- CalmRun.retention, Posix <- CalmRun.posix,
  MaxNow <- CalmRun.until, MaxFaults <- 0, MaxCrashes <- 0,
  rows <- history, twice <- again

Killed == INSTANCE AnomalyCooldown WITH
  Scanners <- {Daemon}, Keys <- KilledRun.keys, Cooldown <- KilledRun.cooldown,
  PruneFactor <- KilledRun.factor, Retention <- KilledRun.retention,
  Posix <- KilledRun.posix, MaxNow <- KilledRun.until,
  MaxFaults <- KilledRun.faults, MaxCrashes <- KilledRun.crashes,
  rows <- history, twice <- again

Shared == INSTANCE AnomalyCooldown WITH
  Keys <- SharedRun.keys, Cooldown <- SharedRun.cooldown,
  PruneFactor <- SharedRun.factor, Retention <- SharedRun.retention,
  Posix <- SharedRun.posix, MaxNow <- SharedRun.until,
  MaxFaults <- SharedRun.faults, MaxCrashes <- SharedRun.crashes,
  rows <- history, twice <- again

ASSUME SummariesAssumption == Summaries!SummaryAssumption
ASSUME DetectorAssumption  == Rules!RulesAssumption
ASSUME EmissionAssumption  ==
  Calm!CooldownAssumption /\ Killed!CooldownAssumption /\ Shared!CooldownAssumption

AllInit ==
  /\ at \in {"pages", "summaries", "rules", "calm", "killed", "shared"}
  /\ Init
  /\ at # "pages" => present /\ ask.mode = "cursor" /\ ask.from = Any /\ ask.to = Any
  /\ Summaries!Init /\ (at # "summaries" => there)
  /\ Rules!Init
  /\ CASE at = "killed" -> Killed!Init
       [] at = "shared" -> Shared!Init
       [] OTHER -> Calm!Init

AllNext ==
  /\ UNCHANGED at
  /\ \/ /\ at = "pages" /\ Next
        /\ UNCHANGED otherVars
     \/ /\ at = "summaries" /\ Summaries!Next
        /\ UNCHANGED <<vars, daily, emissionVars>>
     \/ /\ at = "rules" /\ Rules!Next
        /\ UNCHANGED <<vars, booked, there, emissionVars>>
     \/ /\ \/ at = "calm" /\ Calm!Next
           \/ at = "killed" /\ Killed!Next
           \/ at = "shared" /\ Shared!Next
        /\ UNCHANGED <<vars, booked, there, daily>>

AllSpec == AllInit /\ [][AllNext]_allVars

-----------------------------------------------------------------------------
(* Summaries: merging the aggregates of the two databases gives what one      *)
(* query over the rows of both would give.                                    *)
SummariesAreDirect == at = "summaries" => Summaries!SummariesAreDirect

(* Rules: the day that is not over changes nothing, the baseline is full, no  *)
(* stopped item is missed, and what gets worse is not judged milder.          *)
RulesAreSteady == at = "rules" =>
  /\ Rules!TypeOK /\ Rules!TodayDoesNotCount /\ Rules!BaselineIsFull
  /\ Rules!NoStopIsMissed /\ Rules!WorseIsNotMilder

(* Emission: the types; a finding whose emission raised is never under        *)
(* cooldown; a daemon that scans alone emits a finding once per window, but   *)
(* for the marks that kills and failed saves cost it, its history backs every *)
(* cooldown, and its state file can be read, killed in a save or not.         *)
EmissionIsExact ==
  /\ at = "calm" => /\ Calm!TypeOK /\ Calm!OncePerWindow
                    /\ Calm!HistoryBacksCooldown /\ Calm!Readable
  /\ at = "killed" => /\ Killed!TypeOK /\ Killed!OncePerWindow
                      /\ Killed!HistoryBacksCooldown /\ Killed!Readable
                      /\ Killed!NotSilenced
  /\ at = "shared" => Shared!TypeOK /\ Shared!NotSilenced
=============================================================================
