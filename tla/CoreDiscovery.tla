----------------------------- MODULE CoreDiscovery -----------------------------
(***************************************************************************)
(* Which Local Core serves a data directory: the file core.json of         *)
(* services/core_discovery.py, the start and stop of a Core in main.py,    *)
(* the MCP clients that start a headless Core when they find none          *)
(* (enishi-mcp client.py), and the desktop apps that stop the Core they    *)
(* find and start their own (src-tauri process/mod.rs).                    *)
(*                                                                         *)
(* Everything here is a process of one machine.  They share core.json, the *)
(* temporary file it is renamed from, the rows of the coding tasks, and    *)
(* nothing else: a step is one access to one of these.  A Core is named by *)
(* its process id, and no id is used twice.                                *)
(***************************************************************************)
EXTENDS Naturals, FiniteSets

CONSTANTS
  Headless,  \* the Cores that MCP clients start
  Desktop,   \* the Cores of desktop apps; an app goes by the name of its Core
  Client,    \* MCP clients
  Task,      \* coding tasks, queued at the beginning
  Slow,      \* may a deadline pass while what it waits for makes progress?
  MaxLost,   \* bound on the Cores that die or find their port taken
  None

Core == Headless \cup Desktop

ASSUME DiscoveryAssumption ==
  /\ Headless \cap Desktop = {}
  /\ None \notin Core \cup Client
  /\ Slow \in BOOLEAN
  /\ MaxLost \in Nat

VARIABLES
  file,       \* the Core that core.json names
  tmp,        \* the Core that core.json.tmp names
  core,       \* how far each Core is
  worker,     \* what the task worker of each Core is doing
  status,     \* CodingTask.status
  parent,     \* the client that started a headless Core, as long as it runs
  client,     \* what each client is doing, and with which Core
  lock,       \* the client that holds core-start.lock
  app,        \* what each desktop app is doing
  lost,       \* the Cores that ended without being asked to
  overlapped  \* were two Cores ever between their check and their publication?

vars == <<file, tmp, core, worker, status, parent, client, lock, app, lost, overlapped>>
files == <<file, tmp>>
tasks == <<worker, status>>
users == <<parent, client, lock, app>>

\* A Core on its way to the first request, in order: "named" has written
\* core.json and does not listen yet.
Starting == {"starting", "recovered", "checked", "written", "named"}

\* A Core whose lifespan has passed publish and not yet unpublish.
Published == {"named", "serving", "stopping", "leaving"}

\* "defunct" has ended and was not waited for by its parent; "gone" was.
Stages == Starting \cup Published \cup {"unborn", "defunct", "gone"}

Idle == [stage |-> "idle"]

TypeOK ==
  /\ file \in Core \cup {None} /\ tmp \in Core \cup {None}
  /\ core \in [Core -> Stages]
  /\ worker \in [Core -> {Idle} \cup [stage : {"picked", "running"}, task : Task]]
  /\ status \in [Task -> {"queued", "running", "completed", "failed"}]
  /\ parent \in [Headless -> Client \cup {None}]
  /\ client \in [Client -> [stage : {"idle", "asking", "locked", "probing", "waiting",
                                     "calling", "served", "failed"},
                            core : Core \cup {None}]]
  /\ lock \in Client \cup {None}
  /\ app \in [Desktop -> {"closed", "stopping", "open", "exited"}]
  /\ lost \in SUBSET Core
  /\ overlapped \in BOOLEAN

Init ==
  /\ file = None /\ tmp = None
  /\ core = [c \in Core |-> "unborn"]
  /\ worker = [c \in Core |-> Idle]
  /\ status = [k \in Task |-> "queued"]
  /\ parent = [c \in Headless |-> None]
  /\ client = [m \in Client |-> [stage |-> "idle", core |-> None]]
  /\ lock = None
  /\ app = [d \in Desktop |-> "closed"]
  /\ lost = {}
  /\ overlapped = FALSE

--------------------------------------------------------------------------------
(* Processes *)

\* Faulty: a Core is alive when it answers on its port.
AliveIfServing(c) == c # None /\ core[c] = "serving"

\* _process_alive: signal 0 reaches a process until its parent has waited for it.
Alive(c) == c # None /\ core[c] \notin {"unborn", "gone"}

\* What is left of a Core that ends: neither an MCP client nor an app waits for
\* the process it started while it runs.
Ended(c) ==
  IF (IF c \in Desktop THEN app[c] # "exited" ELSE parent[c] # None)
  THEN "defunct" ELSE "gone"

At(c, stage) == core' = [core EXCEPT ![c] = stage]

--------------------------------------------------------------------------------
(* A Local Core, from start to end *)

\* recover_interrupted_tasks, before anything else of the start-up.
Recover(c) ==
  /\ core[c] = "starting"
  /\ At(c, "recovered")
  /\ status' = [k \in Task |-> IF status[k] = "running" THEN "failed" ELSE status[k]]
  /\ UNCHANGED <<files, worker, users, lost, overlapped>>

InWindow(d) == core[d] \in {"checked", "written"}

\* publish finds another Core: core.json names a process that is alive.
Taken == Alive(file)

\* The Core gives up its start, or goes on.
Check(c) ==
  /\ core[c] = "recovered"
  /\ IF Taken
     THEN At(c, Ended(c)) /\ UNCHANGED overlapped
     ELSE At(c, "checked") /\ overlapped' = (overlapped \/ \E d \in Core : InWindow(d))
  /\ UNCHANGED <<files, tasks, users, lost>>

\* publish: core.json.tmp, one name for every Core ...
WriteTmp(c) ==
  /\ core[c] = "checked"
  /\ tmp' = c
  /\ At(c, "written")
  /\ UNCHANGED <<file, tasks, users, lost, overlapped>>

\* ... renamed to core.json.  When another Core has renamed it already, publish
\* raises and the start-up fails.
Replace(c) ==
  /\ core[c] = "written"
  /\ IF tmp = None
     THEN At(c, Ended(c)) /\ UNCHANGED files
     ELSE At(c, "named") /\ file' = tmp /\ tmp' = None
  /\ UNCHANGED <<tasks, users, lost, overlapped>>

\* The server listens once the start-up is over.
Listen(c) ==
  /\ core[c] = "named"
  /\ At(c, "serving")
  /\ UNCHANGED <<files, tasks, users, lost, overlapped>>

MayBeLost == Cardinality({c \in lost : c \in Headless \/ app[c] # "exited"}) < MaxLost

\* The port was free when it was chosen and is taken now: the server shuts down.
PortTaken(c) ==
  /\ core[c] = "named"
  /\ MayBeLost
  /\ At(c, "stopping")
  /\ lost' = lost \cup {c}
  /\ UNCHANGED <<files, tasks, users, overlapped>>

\* Faulty: the file goes before the worker has finished.
LeaveAtOnce(c) ==
  /\ core[c] = "stopping"
  /\ At(c, IF file = c THEN "leaving" ELSE Ended(c))
  /\ UNCHANGED <<files, tasks, users, lost, overlapped>>

\* The end of lifespan: once the worker has finished its task, unpublish looks
\* whether core.json is its own ...
Leave(c) ==
  /\ core[c] = "stopping"
  /\ worker[c] = Idle
  /\ At(c, IF file = c THEN "leaving" ELSE Ended(c))
  /\ UNCHANGED <<files, tasks, users, lost, overlapped>>

\* ... and removes it, whatever it is by now.
Unlink(c) ==
  /\ core[c] = "leaving"
  /\ file' = None
  /\ At(c, Ended(c))
  /\ UNCHANGED <<tmp, tasks, users, lost, overlapped>>

\* The process of a Core dies.
Die(c) ==
  /\ core[c] \in Starting \cup Published
  /\ MayBeLost
  /\ At(c, Ended(c))
  /\ worker' = [worker EXCEPT ![c] = Idle]
  /\ lost' = lost \cup {c}
  /\ UNCHANGED <<files, status, users, overlapped>>

--------------------------------------------------------------------------------
(* The task worker of a Core: it takes no task once it is told to stop *)

\* claim_next_task: the SELECT ...
Pick(c, k) ==
  /\ core[c] \in {"named", "serving"}
  /\ worker[c] = Idle
  /\ status[k] = "queued"
  /\ worker' = [worker EXCEPT ![c] = [stage |-> "picked", task |-> k]]
  /\ UNCHANGED <<files, core, status, users, lost, overlapped>>

\* Faulty: the UPDATE does not look at the status again.
ClaimUnchecked(c) ==
  /\ worker[c].stage = "picked"
  /\ status' = [status EXCEPT ![worker[c].task] = "running"]
  /\ worker' = [worker EXCEPT ![c].stage = "running"]
  /\ UNCHANGED <<files, core, users, lost, overlapped>>

\* ... and the conditional UPDATE.
Claim(c) ==
  /\ worker[c].stage = "picked"
  /\ LET k == worker[c].task
     IN  IF status[k] = "queued"
         THEN /\ status' = [status EXCEPT ![k] = "running"]
              /\ worker' = [worker EXCEPT ![c].stage = "running"]
         ELSE worker' = [worker EXCEPT ![c] = Idle] /\ UNCHANGED status
  /\ UNCHANGED <<files, core, users, lost, overlapped>>

\* Faulty: the status of a result is taken over.
OutcomesVerbatim == {"completed", "failed", "cancelled"}

\* What becomes of a run: nobody cancels it here.
Outcomes == {"completed", "failed"}

\* _mark_task_finished: the row takes the result, whatever it says by now.
Finish(c) ==
  /\ worker[c].stage = "running"
  /\ \E end \in Outcomes : status' = [status EXCEPT ![worker[c].task] = end]
  /\ worker' = [worker EXCEPT ![c] = Idle]
  /\ UNCHANGED <<files, core, users, lost, overlapped>>

--------------------------------------------------------------------------------
(* An MCP client *)

Does(m, stage, c) == client' = [client EXCEPT ![m] = [stage |-> stage, core |-> c]]

\* The server of a Core answers on its port.
Listening(c) == c # None /\ core[c] = "serving"

\* Bound: every call that has not started a Core yet must find one to start.
CoresLeft ==
  Cardinality({n \in Client : client[n].stage \in {"asking", "locked"}})
    < Cardinality({c \in Headless : core[c] = "unborn"})

\* A tool is called: load_core_info finds a Core, or start_local_core is called.
Begin(m) ==
  /\ client[m].stage \in {"idle", "served", "failed"}
  /\ CoresLeft
  /\ IF Alive(file) THEN Does(m, "calling", file) ELSE Does(m, "asking", None)
  /\ UNCHANGED <<files, core, tasks, parent, lock, app, lost, overlapped>>

\* _startup_lock
Acquire(m) ==
  /\ client[m].stage = "asking"
  /\ lock = None
  /\ lock' = m
  /\ Does(m, "locked", None)
  /\ UNCHANGED <<files, core, tasks, parent, app, lost, overlapped>>

\* Under the lock core.json is read again: a Core that is alive is waited for ...
Found(m) ==
  /\ client[m].stage = "locked"
  /\ Alive(file)
  /\ Does(m, "probing", file)
  /\ UNCHANGED <<files, core, tasks, parent, lock, app, lost, overlapped>>

\* ... otherwise a headless Core is started.
StartHeadless(m, c) ==
  /\ client[m].stage = "locked"
  /\ ~Alive(file)
  /\ core[c] = "unborn"
  /\ At(c, "starting")
  /\ parent' = [parent EXCEPT ![c] = m]
  /\ Does(m, "waiting", c)
  /\ UNCHANGED <<files, tasks, lock, app, lost, overlapped>>

\* The Core that start_local_core waits for: the one that was there already, or
\* after its own start whichever is in core.json by now.
Awaited(m) == IF client[m].stage = "probing" THEN client[m].core ELSE file

\* It listens.
Connect(m) ==
  /\ client[m].stage \in {"probing", "waiting"}
  /\ Listening(Awaited(m))
  /\ Does(m, "calling", Awaited(m))
  /\ lock' = None
  /\ UNCHANGED <<files, core, tasks, parent, app, lost, overlapped>>

Coming(c) == c # None /\ core[c] \in Starting

\* The deadline passes: 3 seconds for a Core that was there, 20 for a new one.
GiveUp(m) ==
  /\ client[m].stage \in {"probing", "waiting"}
  /\ ~Listening(Awaited(m))
  /\ Slow \/ ~(Coming(client[m].core) \/ Coming(Awaited(m)))
  /\ Does(m, "failed", client[m].core)
  /\ lock' = None
  /\ UNCHANGED <<files, core, tasks, parent, app, lost, overlapped>>

\* The HTTP request.
Call(m) ==
  /\ client[m].stage = "calling"
  /\ Does(m, IF Listening(client[m].core) THEN "served" ELSE "failed", client[m].core)
  /\ UNCHANGED <<files, core, tasks, parent, lock, app, lost, overlapped>>

\* The client ends and is started again: it loses the lock and its Cores, which go
\* on without it.
Exit(m) ==
  /\ client[m].stage # "idle"
  /\ Does(m, "idle", None)
  /\ lock' = IF lock = m THEN None ELSE lock
  /\ parent' = [c \in Headless |-> IF parent[c] = m THEN None ELSE parent[c]]
  /\ core' = [c \in Core |-> IF c \in Headless /\ parent[c] = m /\ core[c] = "defunct"
                             THEN "gone" ELSE core[c]]
  /\ UNCHANGED <<files, tasks, app, lost, overlapped>>

--------------------------------------------------------------------------------
(* A desktop app *)

\* stop_managed_core: the Core that core.json names and that answers on its port,
\* whoever started it, is sent a SIGTERM.
StopManaged(d) ==
  /\ app[d] = "closed"
  /\ Listening(file)
  /\ At(file, "stopping")
  /\ app' = [app EXCEPT ![d] = "stopping"]
  /\ UNCHANGED <<files, tasks, parent, client, lock, lost, overlapped>>

\* Nothing is known of how long a stop takes unless ~Slow: then 3 seconds are
\* enough for a Core whose worker has nothing to finish.
StillWaits ==
  /\ ~Slow
  /\ file # None
  /\ core[file] \in {"stopping", "leaving"}
  /\ worker[file] = Idle

\* spawn_core: there was no Core to stop, core.json is gone, or 3 seconds have
\* passed and the app goes on regardless.
StartDesktop(d) ==
  /\ \/ app[d] = "closed" /\ ~Listening(file)
     \/ app[d] = "stopping" /\ ~StillWaits
  /\ app' = [app EXCEPT ![d] = "open"]
  /\ At(d, "starting")
  /\ UNCHANGED <<files, tasks, parent, client, lock, lost, overlapped>>

\* The app is closed: AppState.shutdown kills its Core and waits for it.
Close(d) ==
  /\ app[d] = "open"
  /\ app' = [app EXCEPT ![d] = "exited"]
  /\ At(d, "gone")
  /\ worker' = [worker EXCEPT ![d] = Idle]
  /\ lost' = IF core[d] \in Starting \cup Published THEN lost \cup {d} ELSE lost
  /\ UNCHANGED <<files, status, parent, client, lock, overlapped>>

--------------------------------------------------------------------------------

CoreGoesOn(c) ==
  \/ Recover(c) \/ Check(c) \/ WriteTmp(c) \/ Replace(c) \/ Listen(c)
  \/ Leave(c) \/ Unlink(c)

WorkerGoesOn(c) == Claim(c) \/ Finish(c)

ClientGoesOn(m) ==
  \/ Acquire(m) \/ Found(m) \/ (\E c \in Headless : StartHeadless(m, c))
  \/ Connect(m) \/ GiveUp(m) \/ Call(m)

Next ==
  \/ \E c \in Core :
       \/ CoreGoesOn(c) \/ PortTaken(c) \/ Die(c)
       \/ WorkerGoesOn(c)
       \/ \E k \in Task : Pick(c, k)
  \/ \E m \in Client : Begin(m) \/ ClientGoesOn(m) \/ Exit(m)
  \/ \E d \in Desktop : StopManaged(d) \/ StartDesktop(d) \/ Close(d)

Spec == Init /\ [][Next]_vars

\* A Core that starts or stops goes on, a task that runs ends (it has a timeout),
\* a client that waits has deadlines, and so has an app.  A flock that is released
\* goes to one of those blocked on it, in turn.  Nobody has to call a tool, to exit
\* or to close an app.
Fairness ==
  /\ \A c \in Core : WF_vars(CoreGoesOn(c)) /\ WF_vars(WorkerGoesOn(c))
  /\ \A m \in Client : WF_vars(ClientGoesOn(m)) /\ SF_vars(Acquire(m))
  /\ \A d \in Desktop : WF_vars(app[d] = "stopping" /\ StartDesktop(d))

FairSpec == Spec /\ Fairness

--------------------------------------------------------------------------------
(* Properties *)

\* Unless the starts of two Cores have ever overlapped, a Core that is past its
\* publication is the one core.json names, and so the only one: clients, apps that
\* lose patience with a Core that stops slowly, deaths and stale files do not
\* suffice to have two Cores, or one that nobody finds.
OneCore == ~overlapped => \A c \in Core : core[c] \in Published => file = c

\* ... and no two Cores work on the tasks of the one database: a Core gives its
\* place away only when its worker is done.
OneWorker ==
  ~overlapped => \A c, d \in Core : worker[c] # Idle /\ worker[d] # Idle => c = d

\* Even if two Cores work on them, no two run the same task.
OneRunner ==
  \A c, d \in Core :
    /\ worker[c].stage = "running"
    /\ worker[d].stage = "running"
    /\ worker[c].task = worker[d].task
    => c = d

\* tasks.py:383: a task is given up at a start because its worker has stopped.
OnlyStoppedInterrupted ==
  \A c \in Core : worker[c].stage = "running" => status[worker[c].task] = "running"

\* README.md:260: the desktop app safely takes over from the Core it finds.  (TLC
\* refutes this one and the next: README.)
TakesOver ==
  \A d \in Desktop :
    app[d] = "stopping" ~> core[d] = "serving" \/ app[d] = "exited" \/ lost # {}

\* test_mcp_control_plane.py:167: a core.json that names a live Core is not
\* overwritten.
LiveFileKept == [][Alive(file) => file' \in {file, None}]_vars

\* docs/mcp-control-plane.md:15: a tool that is called without a running Core starts
\* one.  A client that goes on calling does not do without for ever.
CallStartsCore ==
  \A m \in Client :
    <>[](client[m].stage # "idle") /\ []<>(client[m].stage \in {"calling", "asking"})
      => []<>(\E c \in Core : core[c] \in Starting \cup Published)
================================================================================
