----------------------------- MODULE JobSettings -----------------------------
(***************************************************************************)
(* The collection jobs of the portal bot, as the settings dialog of the    *)
(* manager edits them (portal_settings_dialog.py, portal_jobs_logic.py): a *)
(* dialog works on a copy of search.jobs and writes it back; a modal of it *)
(* merges one job into config.json, with the job's collector and dataset   *)
(* route.  Handlers run on the main thread, one at a time; a read or a     *)
(* write of the file may fail, and a write may fail half way.              *)
(***************************************************************************)
EXTENDS Naturals, Functions

CONSTANTS
  Keywords, Dialogs,
  NoKeyword, Closed,           \* no original keyword; a dialog that is not open
  MaxReadFaults, MaxWriteFaults    \* bounds of the model

JobsAssumption ==
  /\ NoKeyword \notin Keywords /\ Dialogs \cap {"none", "modal"} = {}
  /\ {MaxReadFaults, MaxWriteFaults} \subseteq Nat

Patterns == {"materials", "binder"}        \* _PATTERNS
Types    == Patterns \cup {"other"}        \* types the modal cannot express

VARIABLES
  jobs,       \* search.jobs in config.json: keyword -> enabled
  collectors, \* search.collectors: keyword -> type
  routes,     \* keywords that dataset_routes sends to /binder
  torn,       \* a write has cut config.json short: it is not JSON any more
  view,       \* self.jobs of each dialog
  modal,      \* the open modals
  grab,       \* the window that has Tk's grab
  wanted,     \* the jobs by what the user did and was not told had failed
  spoilt,     \* a save that left pattern and dataset alone changed them
  older,      \* dialogs open since before another window's last write
  overwrote,  \* such a dialog has written its copy
  faults

vars == <<jobs, collectors, routes, torn, view, modal, grab, wanted, spoilt, older,
          overwrote, faults>>
copies == <<older, overwrote>>
config == <<jobs, collectors, routes, torn>>

Empty == [k \in {} |-> TRUE]
Jobs == UNION {[K -> BOOLEAN] : K \in SUBSET Keywords}
Put(f, k, v) == [x \in DOMAIN f \cup {k} |-> IF x = k THEN v ELSE f[x]]
Drop(f, k) == Restrict(f, DOMAIN f \ {k})

Init ==
  /\ jobs \in Jobs /\ wanted = jobs
  /\ collectors \in UNION {[K -> Types] : K \in SUBSET DOMAIN jobs}
  /\ routes = {k \in DOMAIN collectors : collectors[k] = "binder"}
  /\ view = [d \in Dialogs |-> Closed] /\ modal = {} /\ grab = "none"
  /\ torn = FALSE /\ spoilt = FALSE /\ older = {} /\ overwrote = FALSE
  /\ faults = [read |-> 0, write |-> 0]

TypeOf(cs, k) == IF k \in DOMAIN cs THEN cs[k] ELSE "materials"

Fail(reads, writes) ==
  /\ faults' = [read |-> faults.read + reads, write |-> faults.write + writes]
  /\ faults'.read <= MaxReadFaults /\ faults'.write <= MaxWriteFaults

\* a read that fails is swallowed and gives nothing
ReadFails == Fail(1, 0)

\* a write that fails: the file is read first, which fails once it is torn; then
\* it cannot be opened, or it was truncated and the dump did not end.  A read
\* that follows may fail as well.
WriteFails(reads) ==
  /\ UNCHANGED <<jobs, collectors, routes>>
  /\ IF torn THEN UNCHANGED torn /\ Fail(reads, 0)
             ELSE torn' \in BOOLEAN /\ Fail(reads, 1)

\* after a write by d, the copies the other dialogs have open are older ones
Outdates(d) == older' = (older \ {d}) \cup {e \in Dialogs \ {d} : view[e] # Closed}
Refreshes(d) == older' = older \ {d} /\ UNCHANGED overwrote

-----------------------------------------------------------------------------
(* The dialog *)

Open(d) ==
  /\ view[d] = Closed /\ grab = "none" /\ grab' = d
  /\ \/ view' = [view EXCEPT ![d] = IF torn THEN Empty ELSE jobs] /\ UNCHANGED faults
     \/ view' = [view EXCEPT ![d] = Empty] /\ ReadFails
  /\ UNCHANGED <<config, modal, wanted, spoilt, copies>>

\* the whole list is written, whatever the file has by now
Written(d, new) ==
  /\ ~torn /\ jobs' = new /\ UNCHANGED <<collectors, routes, torn, faults>>
  /\ Outdates(d) /\ overwrote' = (overwrote \/ d \in older)

\* a plausible bug: the copy keeps a change that could not be written
PersistOnly(d, new, by_user) ==
  /\ view' = [view EXCEPT ![d] = new]
  /\ \/ Written(d, new) /\ wanted' = by_user
     \/ WriteFails(0) /\ UNCHANGED <<wanted, copies>>

\* _persist_jobs: if the write fails the copy is read again
Persist(d, new, by_user) ==
  \/ Written(d, new) /\ view' = [view EXCEPT ![d] = new] /\ wanted' = by_user
  \/ \E reads \in {0, 1} :
       /\ WriteFails(reads) /\ Refreshes(d) /\ UNCHANGED wanted
       /\ view' = [view EXCEPT ![d] = IF torn' \/ reads = 1 THEN Empty ELSE jobs]

HasFocus(d) == view[d] # Closed /\ grab \in {d, "none"}

Toggle(d, k) ==
  /\ HasFocus(d) /\ k \in DOMAIN view[d]
  /\ Persist(d, Put(view[d], k, ~view[d][k]), Put(wanted, k, ~view[d][k]))
  /\ UNCHANGED <<modal, grab, spoilt>>

\* a plausible bug, the one _persist_jobs was written for: only Save writes
RemoveFromView(d, k) ==
  /\ HasFocus(d) /\ k \in DOMAIN view[d]
  /\ view' = [view EXCEPT ![d] = Drop(@, k)] /\ wanted' = Drop(wanted, k)
  /\ UNCHANGED <<config, modal, grab, spoilt, copies, faults>>

Remove(d, k) ==
  /\ HasFocus(d) /\ k \in DOMAIN view[d]
  /\ Persist(d, Drop(view[d], k), Drop(wanted, k))
  /\ UNCHANGED <<modal, grab, spoilt>>

\* the Save button writes .env and the copy of the jobs; the window closes
\* whether the write succeeds or not
Save(d) ==
  /\ HasFocus(d)
  /\ Written(d, view[d]) \/ (WriteFails(0) /\ Refreshes(d))
  /\ view' = [view EXCEPT ![d] = Closed] /\ grab' = IF grab = d THEN "none" ELSE grab
  /\ UNCHANGED <<modal, wanted, spoilt>>

Close(d) ==
  /\ HasFocus(d)
  /\ view' = [view EXCEPT ![d] = Closed] /\ grab' = IF grab = d THEN "none" ELSE grab
  /\ Refreshes(d) /\ UNCHANGED <<config, modal, wanted, spoilt, faults>>

-----------------------------------------------------------------------------
(* The modal: what it shows is read when it opens *)

Shown(d, orig, pattern, toBinder) ==
  modal' = {[owner |-> d, orig |-> orig, pattern |-> pattern, toBinder |-> toBinder,
             auto |-> toBinder = (pattern = "binder")]}

OpenAdd(d) ==
  /\ HasFocus(d) /\ Shown(d, NoKeyword, "materials", FALSE) /\ grab' = "modal"
  /\ UNCHANGED <<config, view, wanted, spoilt, copies, faults>>

\* a plausible bug: the modal shows the type it finds, whatever it is
OpenEditAsIs(d, k) ==
  /\ HasFocus(d) /\ k \in DOMAIN view[d] /\ grab' = "modal"
  /\ Shown(d, k, TypeOf(collectors, k), k \in routes)
  /\ UNCHANGED <<config, view, wanted, spoilt, copies, faults>>

\* _prefill reads the collectors and then the routes; a type the modal does not
\* know is shown as materials, and so is what could not be read
OpenEdit(d, k) ==
  /\ HasFocus(d) /\ k \in DOMAIN view[d] /\ grab' = "modal"
  /\ \E specRead, routeRead \in BOOLEAN :
       /\ Shown(d, k, IF specRead /\ ~torn /\ TypeOf(collectors, k) = "binder"
                      THEN "binder" ELSE "materials",
                routeRead /\ ~torn /\ k \in routes)
       /\ Fail((IF specRead THEN 0 ELSE 1) + (IF routeRead THEN 0 ELSE 1), 0)
  /\ UNCHANGED <<config, view, wanted, spoilt, copies>>

\* destroying the modal releases its grab, and no other window takes it
Cancel(m) ==
  /\ modal' = modal \ {m} /\ grab' = "none"
  /\ UNCHANGED <<config, view, wanted, spoilt, copies, faults>>

\* _rename_moves
Moved(cs, orig, k) ==
  IF orig = k \/ orig \notin DOMAIN cs THEN cs ELSE Put(Drop(cs, orig), k, cs[orig])
MovedRoutes(orig, k) ==
  IF orig = k \/ orig \notin routes THEN routes ELSE (routes \ {orig}) \cup {k}

\* a plausible bug: any collector is made one for materials
ApplyToAny(cs, k, pattern) ==
  IF pattern = "binder" \/ k \in DOMAIN cs THEN Put(cs, k, pattern) ELSE cs

\* _apply_collectors: a binder is always written; materials only change what
\* is there, and not a type the modal cannot express
ApplyCollectors(cs, k, pattern) ==
  IF pattern = "binder" \/ (k \in DOMAIN cs /\ cs[k] \in Patterns)
  THEN Put(cs, k, pattern) ELSE cs

ApplyRoute(rs, k, toBinder) == IF toBinder THEN rs \cup {k} ELSE rs \ {k}

\* the file can be read, and no other job has the keyword (validate_form)
Valid(m, k) == ~torn /\ (k \in DOMAIN jobs => k = m.orig)

\* merge_job_form: all three in one write; pattern and dataset are those shown
\* unless the user changes them, and a change of pattern changes the dataset
\* until the user has chosen one
SaveModal(m, k, enabled, pattern, dataset) ==
  LET toBinder == IF dataset # "shown" THEN dataset = "/binder"
                  ELSE IF pattern # m.pattern /\ m.auto THEN pattern = "binder"
                  ELSE m.toBinder
      left == IF m.orig = NoKeyword THEN jobs ELSE Drop(jobs, m.orig)
      new  == Put(left, k, enabled)
      untouched == pattern = m.pattern /\ dataset = "shown"
      before == IF m.orig = NoKeyword THEN k ELSE m.orig
      changed == \/ TypeOf(collectors', k) # TypeOf(collectors, before)
                 \/ (k \in routes') # (before \in routes)
  IN  /\ Valid(m, k)
      /\ modal' = modal \ {m} /\ grab' = "none"
      /\ jobs' = new
      /\ collectors' = ApplyCollectors(Moved(collectors, m.orig, k), k, pattern)
      /\ routes' = ApplyRoute(MovedRoutes(m.orig, k), k, toBinder)
      /\ wanted' = Put(IF m.orig = NoKeyword THEN wanted ELSE Drop(wanted, m.orig), k, enabled)
      /\ spoilt' = (spoilt \/ (untouched /\ m.orig # NoKeyword /\ changed
                               /\ (k # m.orig => k \notin DOMAIN collectors \cup routes)))
      /\ Outdates(m.owner) /\ UNCHANGED <<torn, overwrote>>
      /\ \/ view' = [view EXCEPT ![m.owner] = new] /\ UNCHANGED faults
         \/ view' = [view EXCEPT ![m.owner] = Empty] /\ ReadFails

\* the modal stays open when the file cannot be read or written
SaveModalFails(m) ==
  /\ \E k \in Keywords : Valid(m, k)
  /\ WriteFails(0)
  /\ UNCHANGED <<view, modal, grab, wanted, spoilt, copies>>

Next ==
  \/ \E d \in Dialogs :
       \/ Open(d) \/ Save(d) \/ Close(d) \/ OpenAdd(d)
       \/ \E k \in Keywords : Toggle(d, k) \/ Remove(d, k) \/ OpenEdit(d, k)
  \/ \E m \in modal :
       \/ Cancel(m) \/ SaveModalFails(m)
       \/ \E k \in Keywords, e \in BOOLEAN, p \in Patterns,
             ds \in {"shown", "/materials", "/binder"} : SaveModal(m, k, e, p, ds)

Spec == Init /\ [][Next]_vars

-----------------------------------------------------------------------------
TypeOK ==
  /\ jobs \in Jobs /\ wanted \in Jobs
  /\ DOMAIN collectors \subseteq Keywords /\ \A k \in DOMAIN collectors : collectors[k] \in Types
  /\ routes \subseteq Keywords /\ torn \in BOOLEAN
  /\ \A d \in Dialogs : view[d] = Closed \/ view[d] \in Jobs
  /\ \A m, n \in modal : m = n
  /\ \A m \in modal : /\ m.owner \in Dialogs /\ m.orig \in Keywords \cup {NoKeyword}
                      /\ m.pattern \in Patterns /\ grab = "modal"
  /\ grab \in Dialogs \cup {"none", "modal"}
  /\ older \subseteq Dialogs /\ overwrote \in BOOLEAN

\* "config.json 이 단일 출처" (on_modal_saved): the file, while it can be read, has
\* the jobs the user has saved and has not removed, enabled as he has left them,
\* until a dialog writes a copy older than another window's last write.
JobsAsSaved == ~torn /\ ~overwrote => jobs = wanted

\* "창을 다시 열면 삭제한 키워드가 부활": no failed read or write and no sequence of
\* windows brings a removed or renamed job back, but that older copy.
DeletedStaysDeleted == overwrote \/ DOMAIN jobs \subseteq DOMAIN wanted

\* "시각만 고치러 들어온 저장이 수집기 스펙을 완료문서함으로 되돌리면 안 된다": a save that
\* leaves the pattern and the dataset alone keeps those of the job, renamed or
\* not (to a keyword with no kept settings), and of a type the modal cannot show.
EditKeepsSpec == ~spoilt
=============================================================================
