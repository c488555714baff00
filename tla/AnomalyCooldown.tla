--------------------------- MODULE AnomalyCooldown ---------------------------
(***************************************************************************)
(* The emission path of the anomaly detector (api/anomaly): a scan loads   *)
(* the cooldown file, emits the findings outside their window, marks and   *)
(* prunes the state, saves it through a temporary file and appends to the  *)
(* history.  The daemon of tools/anomaly_watch.py and POST /anomaly/scan   *)
(* run the same scan with no lock between them, in different processes.    *)
(***************************************************************************)
EXTENDS Integers, FiniteSets, Functions

CONSTANTS
  Scanners,      \* the daemon and the threads that serve POST /anomaly/scan
  Keys,          \* the stable keys of findings
  Cooldown,      \* ANOMALY_COOLDOWN_SEC
  PruneFactor,   \* 7 in _emit_new
  Retention,     \* ANOMALY_FINDINGS_RETENTION_DAYS
  Posix,         \* TRUE: an open file may be renamed; FALSE: Windows refuses
  NoFile, Cut,   \* no file; a file truncated or overlaid, refused by json.load
  MaxNow, MaxFaults, MaxCrashes      \* bounds of the model

Times     == 0 .. MaxNow
Cooldowns == UNION {[D -> Times] : D \in SUBSET Keys}
Files     == Cooldowns \cup {NoFile, Cut}
NoMarks   == [k \in {} |-> 0]
Never     == -1

CooldownAssumption ==
  /\ Scanners # {}
  /\ Cooldown \in Nat \ {0} /\ PruneFactor \in Nat \ {0} /\ Retention \in Nat
  /\ MaxNow \in Nat /\ MaxFaults \in Nat /\ MaxCrashes \in Nat
  /\ Retention >= Cooldown * PruneFactor
  /\ Posix \in BOOLEAN /\ NoFile # Cut /\ {NoFile, Cut} \cap Cooldowns = {}

VARIABLES
  now,        \* the wall clock
  file,       \* .anomaly_state.json: NoFile, Cut or the cooldowns
  tmp,        \* .anomaly_state.json.tmp, one name for every writer
  scan,       \* what each scanner is doing
  rows,       \* anomaly_findings: <<key, emitted_at>>
  faults, crashes,
  returned,   \* history: stamp of the last emit_event that returned, per key
  queued,     \* history: stamp of the last emit_event that queued a delivery
  twice,      \* history: keys queued again inside a window that was marked
  unmarked,   \* history: keys whose last mark was lost before it was on disk
  unrecorded  \* history: keys whose last row of the history was not written

calls == <<returned, queued, twice>>
hist  == <<calls, unmarked, unrecorded>>
vars  == <<now, file, tmp, scan, rows, faults, crashes, hist>>

Resting == [pc |-> "idle", at |-> 0, found |-> {}, cool |-> NoMarks,
            todo |-> {}, sent |-> {}, handle |-> "closed"]

Becomes(s, state) == scan' = [scan EXCEPT ![s] = state]

-----------------------------------------------------------------------------
(* The state functions of store_state *)

Loaded == IF file \in {NoFile, Cut} THEN NoMarks ELSE file

Fresh(found, cool, at) ==
  {k \in found : k \in DOMAIN cool => at - cool[k] >= Cooldown}

\* a plausible bug: the findings whose emission raised are marked too
MarkedAll(cool, sent, at) == [k \in Keys |-> at]

Marked(cool, sent, at) ==
  [k \in DOMAIN cool \cup sent |-> IF k \in sent THEN at ELSE cool[k]]

\* a plausible bug: entries are dropped before their window is over
PrunedByWindow(cool, at) ==
  Restrict(cool, {k \in DOMAIN cool : at - cool[k] < Cooldown - 1})

Pruned(cool, at) ==
  Restrict(cool, {k \in DOMAIN cool : at - cool[k] < Cooldown * PruneFactor})

-----------------------------------------------------------------------------
Init ==
  /\ now = 0 /\ file = NoFile /\ tmp = NoFile
  /\ scan = [s \in Scanners |-> Resting]
  /\ rows = {} /\ faults = 0 /\ crashes = 0
  /\ returned = [k \in Keys |-> Never] /\ queued = returned /\ twice = {}
  /\ unmarked = {} /\ unrecorded = {}

Tick ==
  /\ now < MaxNow /\ now' = now + 1
  /\ UNCHANGED <<file, tmp, scan, rows, faults, crashes, hist>>

\* run_detection stamps the scan before it queries; no finding, no emission
Scan(s) ==
  /\ scan[s].pc = "idle"
  /\ \E found \in SUBSET Keys \ {{}} :
       Becomes(s, [Resting EXCEPT !.pc = "load", !.at = now, !.found = found])
  /\ UNCHANGED <<now, file, tmp, rows, faults, crashes, hist>>

Load(s) ==
  /\ scan[s].pc = "load"
  /\ Becomes(s, [scan[s] EXCEPT
       !.pc = "emit", !.cool = Loaded, !.found = {},
       !.todo = Fresh(scan[s].found, Loaded, scan[s].at)])
  /\ UNCHANGED <<now, file, tmp, rows, faults, crashes, hist>>

Latest(when, k, at) == IF when[k] > at THEN when ELSE [when EXCEPT ![k] = at]

Queue(k, at) ==
  /\ queued' = Latest(queued, k, at)
  /\ twice' = IF queued[k] # Never /\ at - queued[k] < Cooldown /\ k \notin unmarked
              THEN twice \cup {k} ELSE twice

\* a plausible bug: the finding stays in the list of those to emit
EmitsAgain(s, k) ==
  /\ Queue(k, scan[s].at)
  /\ returned' = Latest(returned, k, scan[s].at)
  /\ Becomes(s, [scan[s] EXCEPT !.sent = scan[s].sent \cup {k}])
  /\ UNCHANGED <<faults, unmarked>>

\* emit_event queued a delivery and returned
EmitQueues(s, k) ==
  /\ Queue(k, scan[s].at)
  /\ returned' = Latest(returned, k, scan[s].at)
  /\ Becomes(s, [scan[s] EXCEPT !.todo = scan[s].todo \ {k},
                                !.sent = scan[s].sent \cup {k}])
  /\ UNCHANGED <<faults, unmarked>>

\* enqueue_delivery failed inside _emit_async, which swallows it and returns
EmitSwallows(s, k) ==
  /\ faults < MaxFaults /\ faults' = faults + 1
  /\ returned' = Latest(returned, k, scan[s].at)
  /\ Becomes(s, [scan[s] EXCEPT !.todo = scan[s].todo \ {k},
                                !.sent = scan[s].sent \cup {k}])
  /\ UNCHANGED <<queued, twice, unmarked>>

\* list_records raised (nothing queued) or get_delivery did (already queued)
EmitRaises(s, k) ==
  /\ faults < MaxFaults /\ faults' = faults + 1
  /\ \/ Queue(k, scan[s].at) /\ unmarked' = unmarked \cup {k}
     \/ UNCHANGED <<queued, twice, unmarked>>
  /\ Becomes(s, [scan[s] EXCEPT !.todo = scan[s].todo \ {k}])
  /\ UNCHANGED returned

Emit(s) ==
  /\ scan[s].pc = "emit"
  /\ \E k \in scan[s].todo :
       EmitQueues(s, k) \/ EmitSwallows(s, k) \/ EmitRaises(s, k)
  /\ UNCHANGED <<now, file, tmp, rows, crashes, unrecorded>>

-----------------------------------------------------------------------------
(* save_state: open and truncate, write and close, replace.  A handle      *)
(* follows the file it opened when another writer renames it.              *)

Saved(s) == Pruned(Marked(scan[s].cool, scan[s].sent, scan[s].at), scan[s].at)

AfterSave(s) ==
  IF scan[s].sent = {} THEN Resting
  ELSE [Resting EXCEPT !.pc = "record", !.at = scan[s].at, !.sent = scan[s].sent]

\* a plausible bug: the state file itself is truncated and written
TruncatesInPlace(s) ==
  /\ scan[s].pc = "emit" /\ scan[s].todo = {}
  /\ file' = Cut
  /\ Becomes(s, [scan[s] EXCEPT !.pc = "write", !.handle = "file", !.cool = Saved(s)])
  /\ UNCHANGED <<now, tmp, rows, faults, crashes, hist>>

SaveOpen(s) ==
  /\ scan[s].pc = "emit" /\ scan[s].todo = {}
  /\ tmp' = Cut
  /\ Becomes(s, [scan[s] EXCEPT !.pc = "write", !.handle = "tmp", !.cool = Saved(s)])
  /\ UNCHANGED <<now, file, rows, faults, crashes, hist>>

\* what a write leaves on a file that another writer may have written since
Overlay(content, mine) == IF content = Cut THEN {mine} ELSE {mine, Cut}

SaveWrite(s) ==
  /\ scan[s].pc = "write"
  /\ CASE scan[s].handle = "tmp" ->
            tmp' \in Overlay(tmp, scan[s].cool) /\ UNCHANGED file
       [] scan[s].handle = "file" ->
            file' \in Overlay(file, scan[s].cool) /\ UNCHANGED tmp
       [] OTHER -> UNCHANGED <<file, tmp>>
  /\ Becomes(s, [scan[s] EXCEPT !.pc = "replace", !.handle = "closed"])
  /\ UNCHANGED <<now, rows, faults, crashes, hist>>

Renamed(handle) ==
  CASE handle = "tmp" -> "file" [] handle = "file" -> "gone" [] OTHER -> handle

Held == \E s \in Scanners : scan[s].handle \in {"tmp", "file"}

SaveReplace(s) ==
  /\ scan[s].pc = "replace"
  /\ IF tmp # NoFile /\ (Posix \/ ~Held)
     THEN /\ file' = tmp /\ tmp' = NoFile
          /\ scan' = [t \in Scanners |->
               IF t = s THEN AfterSave(s)
               ELSE [scan[t] EXCEPT !.handle = Renamed(scan[t].handle)]]
          /\ unmarked' = unmarked \ scan[s].sent
     ELSE /\ Becomes(s, AfterSave(s)) /\ UNCHANGED <<file, tmp>>
          /\ unmarked' = unmarked \cup scan[s].sent
  /\ UNCHANGED <<now, rows, faults, crashes, calls, unrecorded>>

\* an OSError anywhere in the save is logged; a failed write leaves tmp cut
SaveFails(s) ==
  /\ \/ scan[s].pc = "emit" /\ scan[s].todo = {}
     \/ scan[s].pc \in {"write", "replace"}
  /\ faults < MaxFaults /\ faults' = faults + 1
  /\ Becomes(s, AfterSave(s)) /\ unmarked' = unmarked \cup scan[s].sent
  /\ UNCHANGED <<now, file, tmp, rows, crashes, calls, unrecorded>>

-----------------------------------------------------------------------------
\* a plausible bug: the history is kept for one cooldown only
ExpiredByCooldown(row) == row[2] < now - Cooldown

Expired(row) == row[2] < now - Retention

\* record_findings, then prune_findings; each swallows its own error
Record(s) ==
  /\ scan[s].pc = "record"
  /\ \E recorded, pruned \in BOOLEAN :
       LET written == IF recorded THEN rows \cup (scan[s].sent \X {now}) ELSE rows
           failed  == (IF recorded THEN 0 ELSE 1) + (IF pruned THEN 0 ELSE 1)
       IN /\ rows' = IF pruned THEN {r \in written : ~Expired(r)} ELSE written
          /\ faults + failed <= MaxFaults /\ faults' = faults + failed
          /\ unrecorded' = IF recorded THEN unrecorded \ scan[s].sent
                           ELSE unrecorded \cup scan[s].sent
  /\ Becomes(s, Resting)
  /\ UNCHANGED <<now, file, tmp, crashes, calls, unmarked>>

Crash(s) ==
  /\ scan[s].pc # "idle"
  /\ crashes < MaxCrashes /\ crashes' = crashes + 1
  /\ IF scan[s].pc = "record"
     THEN unrecorded' = unrecorded \cup scan[s].sent /\ UNCHANGED unmarked
     ELSE unmarked' = unmarked \cup scan[s].sent /\ UNCHANGED unrecorded
  /\ Becomes(s, Resting)
  /\ UNCHANGED <<now, file, tmp, rows, faults, calls>>

Next ==
  \/ Tick
  \/ \E s \in Scanners :
       \/ Scan(s) \/ Load(s) \/ Emit(s)
       \/ SaveOpen(s) \/ SaveWrite(s) \/ SaveReplace(s) \/ SaveFails(s)
       \/ Record(s) \/ Crash(s)

Spec == Init /\ [][Next]_vars

-----------------------------------------------------------------------------
TypeOK ==
  /\ now \in Times /\ file \in Files /\ tmp \in Files
  /\ \A s \in Scanners :
       /\ scan[s].pc \in {"idle", "load", "emit", "write", "replace", "record"}
       /\ scan[s].at \in Times /\ scan[s].cool \in Cooldowns
       /\ scan[s].todo \cap scan[s].sent = {}
       /\ scan[s].handle \in {"closed", "tmp", "file", "gone"}
  /\ rows \subseteq Keys \X Times
  /\ faults \in 0 .. MaxFaults /\ crashes \in 0 .. MaxCrashes
  /\ returned \in [Keys -> Times \cup {Never}]
  /\ queued \in [Keys -> Times \cup {Never}] /\ twice \subseteq Keys
  /\ unmarked \subseteq Keys /\ unrecorded \subseteq Keys

\* A cooldown on disk stands for a call of emit_event for that key that
\* returned, in a scan no older than the mark: a finding whose emission raised
\* is never silenced (the `continue` before `emitted.append` in _emit_new).
NotSilenced == \A k \in DOMAIN Loaded : returned[k] >= Loaded[k]

\* The state file is absent or readable at every moment, a crash in the middle
\* of a save included (temporary file and os.replace in save_state).
Readable == file # Cut

\* "The detector emits a finding at most once per cooldown window"
\* (store_state.py): no key is queued by two scans less than a window apart,
\* unless the first was killed, or its save failed, before its mark was on
\* disk, or its emission raised after it had queued.
OncePerWindow == twice = {}

\* Behind every cooldown that is not yet to be pruned there is a row of the
\* history at least as recent, or the scanner that emitted it is about to write
\* it, unless a kill or a failed write cost that row: pruning the history never
\* overtakes the cooldowns.
HistoryBacksCooldown ==
  \A k \in DOMAIN Loaded :
    \/ now - Loaded[k] >= Cooldown * PruneFactor \/ k \in unrecorded
    \/ \E r \in rows : r[1] = k /\ r[2] >= Loaded[k]
    \/ \E s \in Scanners : scan[s].pc = "record" /\ k \in scan[s].sent

\* "a failed emission is not marked, a mark would lose the alert silently for a
\* whole cooldown" (comment in _emit_new): every cooldown on disk stands for a
\* delivery that was queued.
MarkedWereQueued == \A k \in DOMAIN Loaded : queued[k] >= Loaded[k]
=============================================================================
