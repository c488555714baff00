---------------------------- MODULE ServiceManager ----------------------------
(***************************************************************************)
(* The processes of the manager window (manager.py): the API panel and the *)
(* portal panel start, stop and show one child process each; a monitor     *)
(* thread waits for a one-shot run of the portal bot and posts a reset of  *)
(* the panel to the Tk event loop.  Handlers run to their end on the main  *)
(* thread, in an order the user and the event queue choose.  A stop takes  *)
(* the seconds of kill_process_tree, and ends halfway when that call is    *)
(* denied access; monitors and children go on meanwhile.                   *)
(***************************************************************************)
EXTENDS Naturals, FiniteSets

CONSTANTS
  Procs,          \* child processes; bounds how often something is started
  NoProc,         \* panel.process is None
  Foreign         \* a program that is not the manager's own

ProcsAssumption == IsFiniteSet(Procs) /\ NoProc \notin Procs /\ Foreign \notin Procs

Panels == {"api", "portal"}

VARIABLES
  app,          \* "open", "leaving" in _cleanup_and_exit, or "gone" once the
                \* atexit hook has run
  main,         \* the panel whose process the main thread is killing, and
                \* whether kill_process_tree found it
  process,      \* panel.process
  shown,        \* what the panel shows, which enables Start and Stop; "failed"
                \* when it says running after a start that raised
  born,         \* the panel and the mode each process was started with
  alive,        \* processes that run
  registered,   \* _active_processes
  port,         \* who listens on API_PORT
  monitor,      \* the monitor thread of each one-shot process
  resets,       \* _reset_portal_ui calls in the event queue, by process
  denied        \* history: those that run although they were to be killed, since
                \* that raised psutil.AccessDenied

vars == <<app, main, process, shown, born, alive, registered, port, monitor, resets, denied>>

Unborn == {p \in Procs : born[p] = "none"}

\* a new child is a new one: which of those to come does not matter
Fresh == {p \in Unborn : p = CHOOSE u \in Unborn : TRUE}
ModeOf(panel) == IF panel = "api" THEN "api" ELSE "schedule"
Idle == [pc |-> "none", on |-> NoProc]
Free == [panel |-> "none", found |-> FALSE]

Init ==
  /\ app = "open" /\ main = Free /\ denied = {}
  /\ alive = {} /\ registered = {} /\ resets = {}
  /\ process = [q \in Panels |-> NoProc] /\ shown = [q \in Panels |-> "stopped"]
  /\ born = [p \in Procs |-> "none"] /\ port \in {NoProc, Foreign}
  /\ monitor = [p \in Procs |-> Idle]

IsRunning(panel) == process[panel] \in alive
PortInUse == port # NoProc
Show(panel, text) == shown' = [shown EXCEPT ![panel] = text]

\* the main thread is in no handler
Ready == app = "open" /\ main = Free

-----------------------------------------------------------------------------
(* Handlers of the main thread *)

\* a plausible bug: the new process is not registered
SpawnOnly(panel, p, mode) ==
  /\ born' = [born EXCEPT ![p] = mode] /\ alive' = alive \cup {p}
  /\ registered' = registered
  /\ process' = [process EXCEPT ![panel] = p]

Spawn(panel, p, mode) ==
  /\ born' = [born EXCEPT ![p] = mode] /\ alive' = alive \cup {p}
  /\ registered' = registered \cup {p}
  /\ process' = [process EXCEPT ![panel] = p]

\* Popen raises, as it does when the bot's directory is missing: the panel was
\* set to running before, and nothing else happens
SpawnFails(panel) == Show(panel, "failed") /\ UNCHANGED <<born, alive, registered, process>>

\* the Start button, or "start all", which is enabled at any time; a second
\* program on the port is refused with a message
StartApi ==
  /\ Ready /\ ~IsRunning("api") /\ ~PortInUse
  /\ \/ Show("api", "running") /\ \E p \in Fresh : Spawn("api", p, "api")
     \/ SpawnFails("api")
  /\ UNCHANGED <<app, main, port, monitor, resets, denied>>

\* a plausible bug: the button alone keeps a second scheduler from starting
StartByButton ==
  /\ Ready /\ shown["portal"] = "stopped"
  /\ \E p \in Fresh : Spawn("portal", p, "schedule")
  /\ Show("portal", "running")
  /\ UNCHANGED <<app, main, port, monitor, resets, denied>>

StartPortal ==
  /\ Ready /\ shown["portal"] = "stopped" /\ ~IsRunning("portal")
  /\ \/ Show("portal", "running") /\ \E p \in Fresh : Spawn("portal", p, "schedule")
     \/ SpawnFails("portal")
  /\ UNCHANGED <<app, main, port, monitor, resets, denied>>

\* "Run Now" is always enabled; the choice of a keyword is a modal window
RunPortalNow ==
  /\ Ready /\ ~IsRunning("portal")
  /\ \/ /\ Show("portal", "shot")
        /\ \E p \in Fresh :
             /\ Spawn("portal", p, "shot")
             /\ monitor' = [monitor EXCEPT ![p] = [pc |-> "look", on |-> NoProc]]
     \/ SpawnFails("portal") /\ UNCHANGED monitor
  /\ UNCHANGED <<app, main, port, resets, denied>>

Kill(killed) ==
  /\ alive' = alive \ killed /\ denied' = denied \ killed
  /\ port' = IF port \in killed THEN NoProc ELSE port

\* stop_api and stop_portal forget the process before they kill it
Unregister(panel) ==
  /\ main' = [panel |-> panel, found |-> IsRunning(panel)]
  /\ registered' = registered \ {process[panel]}

\* "stop all" stops the API whatever the panel shows
Stop(panel) ==
  /\ Ready /\ (panel = "portal" => shown["portal"] # "stopped")
  /\ Unregister(panel)
  /\ UNCHANGED <<app, process, shown, born, alive, port, monitor, resets, denied>>

\* _cleanup_and_exit: stop_api, stop_portal, and the end
Quit ==
  /\ Ready /\ app' = "leaving" /\ Unregister("api")
  /\ UNCHANGED <<process, shown, born, alive, port, monitor, resets, denied>>

\* kill_process_tree has returned, and the stop ends; at the end of the last
\* one the interpreter leaves, by way of the atexit hook
Killed(panel) ==
  /\ main.panel = panel
  /\ process' = [process EXCEPT ![panel] = NoProc] /\ Show(panel, "stopped")
  /\ \/ /\ app = "open" /\ main' = Free
        /\ Kill({process[panel]}) /\ UNCHANGED <<app, registered>>
     \/ /\ app = "leaving" /\ panel = "api" /\ Unregister("portal")
        /\ Kill({process[panel]}) /\ UNCHANGED app
     \/ /\ app = "leaving" /\ panel = "portal" /\ app' = "gone" /\ main' = Free
        /\ Kill({process[panel]} \cup registered) /\ registered' = {}
  /\ UNCHANGED <<born, monitor, resets>>

\* a plausible bug: the panel lets go of a process it could not kill
LetsGo(panel) ==
  /\ main.panel = panel /\ main.found
  /\ main' = Free /\ app' = "open" /\ denied' = denied \cup ({process[panel]} \cap alive)
  /\ process' = [process EXCEPT ![panel] = NoProc]
  /\ UNCHANGED <<shown, born, alive, registered, port, monitor, resets>>

\* psutil.AccessDenied leaves kill_process_tree and the handler, _cleanup_and_exit
\* included; what the call did end may be the process itself
KillDenied(panel) ==
  /\ main.panel = panel /\ main.found
  /\ main' = Free /\ app' = "open" /\ denied' = denied \cup ({process[panel]} \cap alive)
  /\ UNCHANGED <<process, shown, born, alive, registered, port, monitor, resets>>

\* _reset_portal_ui, posted with after(0, ...)
Reset(p) ==
  /\ Ready /\ p \in resets
  /\ resets' = resets \ {p}
  /\ Show("portal", "stopped")
  /\ UNCHANGED <<app, main, process, born, alive, registered, port, monitor, denied>>

-----------------------------------------------------------------------------
(* The monitor threads: two reads of panel.process, a wait and a post *)

\* a plausible bug: the monitor ends when its own process is no longer there
LookForOwn(p) ==
  /\ monitor[p].pc = "look"
  /\ monitor' = [monitor EXCEPT ![p].pc = IF process["portal"] # p THEN "post"
                                          ELSE IF p \in alive THEN "fetch" ELSE "end"]
  /\ UNCHANGED <<app, main, denied, process, shown, born, alive, registered, port, resets>>

Look(p) ==
  /\ monitor[p].pc = "look"
  /\ monitor' = [monitor EXCEPT ![p].pc =
                   IF process["portal"] = NoProc THEN "post" ELSE "fetch"]
  /\ UNCHANGED <<app, main, denied, process, shown, born, alive, registered, port, resets>>

\* a plausible bug: the second read is not expected to find None
FetchAny(p) ==
  /\ monitor[p].pc = "fetch"
  /\ monitor' = [monitor EXCEPT ![p] = [pc |-> "wait", on |-> process["portal"]]]
  /\ UNCHANGED <<app, main, denied, process, shown, born, alive, registered, port, resets>>

\* None.wait() raises and ends the thread
Fetch(p) ==
  /\ monitor[p].pc = "fetch"
  /\ monitor' = [monitor EXCEPT ![p] =
       [pc |-> IF process["portal"] = NoProc THEN "end" ELSE "wait",
        on |-> process["portal"]]]
  /\ UNCHANGED <<app, main, denied, process, shown, born, alive, registered, port, resets>>

Waited(p) ==
  /\ monitor[p].pc = "wait" /\ monitor[p].on \notin alive
  /\ monitor' = [monitor EXCEPT ![p] = [pc |-> "post", on |-> NoProc]]
  /\ UNCHANGED <<app, main, denied, process, shown, born, alive, registered, port, resets>>

\* without a window the call raises, and that is suppressed
Post(p) ==
  /\ monitor[p].pc = "post"
  /\ monitor' = [monitor EXCEPT ![p].pc = "end"]
  /\ resets' = IF app # "gone" THEN resets \cup {p} ELSE resets
  /\ UNCHANGED <<app, main, denied, process, shown, born, alive, registered, port>>

-----------------------------------------------------------------------------
(* Other programs *)

\* the API process binds the port some time after it was started, or fails to
Bind(p) ==
  /\ p \in alive /\ born[p] = "api" /\ ~PortInUse /\ port' = p
  /\ UNCHANGED <<app, main, denied, process, shown, born, alive, registered, monitor, resets>>

\* a child ends by itself: the bot is done, the server crashes
Exit(p) ==
  /\ p \in alive /\ alive' = alive \ {p} /\ denied' = denied \ {p}
  /\ port' = IF port = p THEN NoProc ELSE port
  /\ UNCHANGED <<app, main, process, shown, born, registered, monitor, resets>>

Next ==
  \/ StartApi \/ StartPortal \/ RunPortalNow \/ Quit
  \/ \E q \in Panels : Stop(q) \/ Killed(q) \/ KillDenied(q)
  \/ \E p \in Procs : \/ Look(p) \/ Fetch(p) \/ Waited(p) \/ Post(p)
                      \/ Reset(p) \/ Bind(p) \/ Exit(p)

Spec == Init /\ [][Next]_vars

\* threads run, kill_process_tree is over in time (its waits have timeouts), the
\* event loop comes to what was posted between two handlers, and a one-shot run
\* of the bot ends; each of these moves only so often, so that none of a kind is
\* left behind for good
Fairness ==
  /\ WF_vars(\E q \in Panels : Killed(q) \/ KillDenied(q))
  /\ WF_vars(\E p \in Procs : Look(p) \/ Fetch(p) \/ Waited(p) \/ Post(p))
  /\ WF_vars(\E p \in Procs : born[p] = "shot" /\ Exit(p))
  /\ SF_vars(\E p \in Procs : Reset(p))

FairSpec == Spec /\ Fairness

-----------------------------------------------------------------------------
TypeOK ==
  /\ app \in {"open", "leaving", "gone"} /\ denied \subseteq alive
  /\ main \in {Free} \cup [panel : Panels, found : BOOLEAN]
  /\ process \in [Panels -> Procs \cup {NoProc}]
  /\ shown \in [Panels -> {"stopped", "running", "shot", "failed"}]
  /\ born \in [Procs -> {"none", "api", "schedule", "shot"}]
  /\ alive \subseteq Procs /\ registered \subseteq Procs /\ resets \subseteq Procs
  /\ port \in Procs \cup {NoProc, Foreign}
  /\ \A p \in Procs : /\ monitor[p].pc \in {"none", "look", "fetch", "wait", "post", "end"}
                      /\ monitor[p].on \in Procs \cup {NoProc}
                      /\ monitor[p].pc = "wait" => monitor[p].on \in Procs \ Unborn

\* Every child that runs is the process of its panel, so that Stop reaches it,
\* again when it was denied: no panel ever has two, whatever a late reset made
\* its buttons say and however far a stop came.
OneChildPerPanel ==
  \A p \in alive : \E q \in Panels :
    /\ process[q] = p
    /\ born[p] \in (IF q = "api" THEN {"api"} ELSE {"schedule", "shot"})

\* Every child that runs is known to the atexit hook, but for the one that is
\* being killed and those whose kill was denied; and nothing runs on once the
\* manager has quit.
ExitReachesAll ==
  /\ \A p \in alive \ (registered \cup denied) :
       main # Free /\ process[main.panel] = p
  /\ app = "gone" => alive = {}

\* A one-shot run that is over is not shown as running for good, unless it is
\* a later start that failed which is.
ShotIsReset ==
  \A p \in Procs :
    (process["portal"] = p /\ born[p] = "shot" /\ p \notin alive)
      ~> (shown["portal"] \in {"stopped", "failed"} \/ process["portal"] # p)
=============================================================================
