------------------------- MODULE CoreDiscovery_proofs -------------------------
(***************************************************************************)
(* Theorems about CoreDiscovery: for any number of Cores, clients, apps    *)
(* and tasks, deaths and impatient waits included, only starts that        *)
(* overlap can make two Cores, and not even they make two runs of a task.  *)
(***************************************************************************)
EXTENDS CoreDiscovery, TLAPS

\* The Cores that are between check and publication are one, which owns the
\* temporary file, and then no Core is published.
WindowInv ==
  ~overlapped =>
    \A c \in Core : InWindow(c) =>
      /\ \A d \in Core : InWindow(d) => c = d
      /\ \A d \in Core : core[d] \notin Published
      /\ core[c] = "written" => tmp = c

\* A worker is busy only while its Core has neither ended nor left.
WorkerInv == \A c \in Core : worker[c] # Idle => core[c] \in {"named", "serving", "stopping"}

\* An app starts its Core once.
AppInv == \A d \in Desktop : app[d] \in {"closed", "stopping"} => core[d] = "unborn"

\* A task that is run is not queued.
RunInv ==
  /\ OneRunner
  /\ \A c \in Core : worker[c].stage = "running" => status[worker[c].task] # "queued"

Inv == TypeOK /\ OneCore /\ WindowInv /\ WorkerInv /\ AppInv /\ RunInv

--------------------------------------------------------------------------------

LEMMA EndedType == \A c : Ended(c) \in {"defunct", "gone"}
BY DEF Ended

LEMMA IdleType == Idle \notin [stage : {"picked", "running"}, task : Task] /\ Idle.stage = "idle"
BY DEF Idle

LEMMA InitInv == Init => Inv
<1> SUFFICES ASSUME Init PROVE Inv
  OBVIOUS
<1>1. TypeOK
  BY DEF Init, TypeOK, Core, Stages, Starting, Published
<1>2. OneCore /\ WindowInv /\ AppInv
  BY DEF Init, OneCore, WindowInv, AppInv, InWindow, Published, Core
<1>3. WorkerInv /\ RunInv
  BY IdleType DEF Init, WorkerInv, RunInv, OneRunner
<1> QED BY <1>1, <1>2, <1>3 DEF Inv

--------------------------------------------------------------------------------
(* The parts of Inv, one step at a time *)

\* Calls and their deadlines touch nothing but the clients and the lock.
Asks(m) == Begin(m) \/ Acquire(m) \/ Found(m) \/ Connect(m) \/ GiveUp(m) \/ Call(m)

LEMMA AsksOnly ==
  ASSUME NEW m \in Client, Asks(m)
  PROVE  UNCHANGED <<files, core, tasks, parent, app, lost, overlapped>>
BY ZenonT(60) DEF Asks, Begin, Acquire, Found, Connect, GiveUp, Call, files, tasks

\* Every step keeps the types.
LEMMA StepType == ASSUME TypeOK, [Next]_vars PROVE TypeOK'
<1> USE DiscoveryAssumption DEF TypeOK
<1>1. ASSUME NEW c \in Core, Recover(c) PROVE TypeOK'
  BY <1>1 DEF Recover, At, files, users, Stages, Starting
<1>2. ASSUME NEW c \in Core, Check(c) PROVE TypeOK'
  <2>1. \/ At(c, Ended(c)) /\ UNCHANGED overlapped
        \/ At(c, "checked") /\ overlapped' \in BOOLEAN
    BY <1>2 DEF Check
  <2>2. UNCHANGED <<files, tasks, users, lost>>
    BY <1>2 DEF Check
  <2>3. Ended(c) \in Stages /\ "checked" \in Stages
    BY EndedType DEF Stages, Starting
  <2> QED BY <2>1, <2>2, <2>3 DEF At, files, tasks, users
<1>3. ASSUME NEW c \in Core, WriteTmp(c) PROVE TypeOK'
  BY <1>3 DEF WriteTmp, At, tasks, users, Stages, Starting
<1>4. ASSUME NEW c \in Core, Replace(c) PROVE TypeOK'
  BY <1>4, EndedType DEF Replace, At, files, tasks, users, Stages, Starting
<1>5. ASSUME NEW c \in Core, Listen(c) PROVE TypeOK'
  BY <1>5 DEF Listen, At, files, tasks, users, Stages, Published
<1>6. ASSUME NEW c \in Core, Leave(c) PROVE TypeOK'
  BY <1>6, EndedType DEF Leave, At, files, tasks, users, Stages, Published
<1>7. ASSUME NEW c \in Core, Unlink(c) PROVE TypeOK'
  BY <1>7, EndedType DEF Unlink, At, tasks, users, Stages
<1>8. ASSUME NEW c \in Core, PortTaken(c) PROVE TypeOK'
  BY <1>8 DEF PortTaken, At, files, tasks, users, Stages, Published
<1>9. ASSUME NEW c \in Core, Die(c) PROVE TypeOK'
  BY <1>9, EndedType DEF Die, At, files, users, Stages
<1>10. ASSUME NEW c \in Core, NEW k \in Task, Pick(c, k) PROVE TypeOK'
  BY <1>10 DEF Pick, files, users
<1>11. ASSUME NEW c \in Core, Claim(c) PROVE TypeOK'
  <2>1. worker[c] \in [stage : {"picked", "running"}, task : Task]
    BY <1>11 DEF Claim, Idle
  <2>2. [worker[c] EXCEPT !.stage = "running"] \in [stage : {"picked", "running"}, task : Task]
    BY <2>1
  <2> QED BY <1>11, <2>1, <2>2 DEF Claim, files, users
<1>12. ASSUME NEW c \in Core, Finish(c) PROVE TypeOK'
  <2>1. worker[c] \in [stage : {"picked", "running"}, task : Task]
    BY <1>12 DEF Finish, Idle
  <2>2. worker[c].task \in Task
    BY <2>1
  <2> QED BY <1>12, <2>2 DEF Finish, Outcomes, files, users
<1>13. ASSUME NEW m \in Client, Asks(m) PROVE TypeOK'
  <2>1. client' \in [Client -> [stage : {"idle", "asking", "locked", "probing", "waiting",
                                         "calling", "served", "failed"},
                                core : Core \cup {None}]]
    BY <1>13 DEF Asks, Begin, Acquire, Found, Connect, GiveUp, Call, Does, Awaited
  <2>2. lock' \in Client \cup {None}
    BY <1>13 DEF Asks, Begin, Acquire, Found, Connect, GiveUp, Call
  <2> QED BY <1>13, <2>1, <2>2, AsksOnly DEF files, tasks
<1>14. ASSUME NEW m \in Client, NEW c \in Headless, StartHeadless(m, c) PROVE TypeOK'
  BY <1>14 DEF StartHeadless, Does, At, files, tasks, Stages, Starting, Core
<1>15. ASSUME NEW m \in Client, Exit(m) PROVE TypeOK'
  BY <1>15 DEF Exit, Does, files, tasks, Stages
<1>16. ASSUME NEW d \in Desktop, StopManaged(d) PROVE TypeOK'
  BY <1>16 DEF StopManaged, Listening, At, files, tasks, Stages, Published
<1>17. ASSUME NEW d \in Desktop, StartDesktop(d) PROVE TypeOK'
  BY <1>17 DEF StartDesktop, At, files, tasks, Stages, Starting
<1>18. ASSUME NEW d \in Desktop, Close(d) PROVE TypeOK'
  BY <1>18 DEF Close, At, files, Stages, Core
<1>19. CASE UNCHANGED vars
  BY <1>19 DEF vars, files, tasks, users
<1> QED
  BY <1>1, <1>2, <1>3, <1>4, <1>5, <1>6, <1>7, <1>8, <1>9, <1>10, <1>11, <1>12, <1>13, <1>14,
     <1>15, <1>16, <1>17, <1>18, <1>19, ZenonT(60)
  DEF Next, CoreGoesOn, WorkerGoesOn, ClientGoesOn, Asks

\* A step of a worker, of a client that calls or gives up, or of nobody leaves the
\* Cores and their files as they are.
Still ==
  \/ \E c \in Core : (\E k \in Task : Pick(c, k)) \/ Claim(c) \/ Finish(c)
  \/ \E m \in Client : Asks(m)
  \/ UNCHANGED vars

LEMMA StillOnly == Still => UNCHANGED <<file, tmp, core, app, lost, overlapped>>
<1>1. ASSUME NEW c \in Core, (\E k \in Task : Pick(c, k)) \/ Claim(c) \/ Finish(c)
      PROVE  UNCHANGED <<file, tmp, core, app, lost, overlapped>>
  BY <1>1, ZenonT(60) DEF Pick, Claim, Finish, files, users
<1>2. ASSUME UNCHANGED vars PROVE UNCHANGED <<file, tmp, core, app, lost, overlapped>>
  BY <1>2 DEF vars
<1> QED BY <1>1, <1>2, AsksOnly DEF Still, files

--------------------------------------------------------------------------------

\* A Core that ends or goes on within its stage leaves the others where they are.
LEMMA OthersStay ==
  ASSUME TypeOK, NEW c \in Core, NEW s, At(c, s)
  PROVE  /\ core'[c] = s
         /\ \A d \in Core : d # c => core'[d] = core[d]
BY DEF TypeOK, At

\* The file and the window stay as they should.
LEMMA StepCores ==
  ASSUME Inv, TypeOK', [Next]_vars
  PROVE  OneCore' /\ WindowInv'
<1> USE DEF Inv, WindowInv, OneCore, InWindow
<1>0. TypeOK /\ \A c \in Core : Ended(c) \notin Published \cup {"checked", "written"}
  BY EndedType DEF Published
<1>1. ASSUME NEW c \in Core, Recover(c) PROVE OneCore' /\ WindowInv'
  BY <1>0, <1>1, OthersStay DEF Recover, files, Published
<1>2. ASSUME NEW c \in Core, Check(c) PROVE OneCore' /\ WindowInv'
  <2> SUFFICES ASSUME ~overlapped' PROVE OneCore' /\ WindowInv'
    OBVIOUS
  <2>1. CASE Taken
    BY <1>0, <1>2, <2>1, OthersStay DEF Check, files, Published
  <2>2. CASE ~Taken
    <3>1. /\ ~overlapped /\ \A d \in Core : ~InWindow(d)
          /\ At(c, "checked") /\ UNCHANGED <<file, tmp>>
      BY <1>2, <2>2 DEF Check, files
    <3>2. ASSUME NEW d \in Core, core[d] \in Published PROVE FALSE
      <4>1. file = d /\ d # None
        BY <3>1, <3>2, DiscoveryAssumption
      <4> QED BY <2>2, <3>2, <4>1 DEF Taken, Alive, Published
    <3> QED BY <1>0, <3>1, <3>2, OthersStay DEF Published
  <2> QED BY <2>1, <2>2
<1>3. ASSUME NEW c \in Core, WriteTmp(c) PROVE OneCore' /\ WindowInv'
  BY <1>0, <1>3, OthersStay DEF WriteTmp, Published
<1>4. ASSUME NEW c \in Core, Replace(c) PROVE OneCore' /\ WindowInv'
  <2> SUFFICES ASSUME ~overlapped' PROVE OneCore' /\ WindowInv'
    OBVIOUS
  <2>1. ~overlapped /\ core[c] = "written" /\ tmp = c
    BY <1>4 DEF Replace
  <2>2. At(c, "named") /\ file' = c /\ tmp' = None
    BY <1>4, <2>1, DiscoveryAssumption DEF Replace
  <2> QED BY <1>0, <2>1, <2>2, OthersStay DEF Published
<1>5. ASSUME NEW c \in Core, Listen(c) PROVE OneCore' /\ WindowInv'
  BY <1>0, <1>5, OthersStay DEF Listen, files, Published
<1>6. ASSUME NEW c \in Core, Leave(c) PROVE OneCore' /\ WindowInv'
  BY <1>0, <1>6, OthersStay DEF Leave, files, Published
<1>7. ASSUME NEW c \in Core, Unlink(c) PROVE OneCore' /\ WindowInv'
  <2> SUFFICES ASSUME ~overlapped' PROVE OneCore' /\ WindowInv'
    OBVIOUS
  <2>1. ~overlapped /\ core[c] \in Published /\ UNCHANGED tmp /\ At(c, Ended(c))
    BY <1>7 DEF Unlink, Published
  <2> QED BY <1>0, <2>1, OthersStay
<1>8. ASSUME NEW c \in Core, PortTaken(c) PROVE OneCore' /\ WindowInv'
  BY <1>0, <1>8, OthersStay DEF PortTaken, files, Published
<1>9. ASSUME NEW c \in Core, Die(c) PROVE OneCore' /\ WindowInv'
  BY <1>0, <1>9, OthersStay DEF Die, files
<1>10. ASSUME Still PROVE OneCore' /\ WindowInv'
  BY <1>10, StillOnly
<1>11. ASSUME NEW m \in Client, NEW c \in Headless, StartHeadless(m, c) PROVE OneCore' /\ WindowInv'
  <2>1. c \in Core /\ At(c, "starting") /\ UNCHANGED <<file, tmp, overlapped>>
    BY <1>11 DEF StartHeadless, files, Core
  <2> QED BY <1>0, <2>1, OthersStay DEF Published
<1>12. ASSUME NEW m \in Client, Exit(m) PROVE OneCore' /\ WindowInv'
  <2>1. UNCHANGED <<file, tmp, overlapped>>
    BY <1>12 DEF Exit, files
  <2>2. \A c \in Core : core'[c] = core[c] \/ core'[c] = "gone"
    BY <1>12 DEF Exit
  <2> QED BY <2>1, <2>2 DEF Published
<1>13. ASSUME NEW d \in Desktop, StopManaged(d) PROVE OneCore' /\ WindowInv'
  <2>1. file \in Core /\ core[file] = "serving" /\ At(file, "stopping") /\ UNCHANGED <<file, tmp, overlapped>>
    BY <1>0, <1>13 DEF StopManaged, Listening, files, TypeOK
  <2> QED BY <1>0, <2>1, OthersStay DEF Published
<1>14. ASSUME NEW d \in Desktop, StartDesktop(d) PROVE OneCore' /\ WindowInv'
  <2>1. d \in Core /\ At(d, "starting") /\ UNCHANGED <<file, tmp, overlapped>>
    BY <1>14 DEF StartDesktop, files, Core
  <2> QED BY <1>0, <2>1, OthersStay DEF Published
<1>15. ASSUME NEW d \in Desktop, Close(d) PROVE OneCore' /\ WindowInv'
  <2>1. d \in Core /\ At(d, "gone") /\ UNCHANGED <<file, tmp, overlapped>>
    BY <1>15 DEF Close, files, Core
  <2> QED BY <1>0, <2>1, OthersStay DEF Published
<1> QED
  BY <1>1, <1>2, <1>3, <1>4, <1>5, <1>6, <1>7, <1>8, <1>9, <1>10, <1>11, <1>12, <1>13, <1>14, <1>15,
     ZenonT(60)
  DEF Next, CoreGoesOn, WorkerGoesOn, ClientGoesOn, Asks, Still

\* A busy worker keeps its Core.
LEMMA StepWorkers == ASSUME Inv, TypeOK', [Next]_vars PROVE WorkerInv'
<1> USE DEF Inv, WorkerInv
<1>0. TypeOK
  OBVIOUS
<1>1. ASSUME NEW c \in Core, CoreGoesOn(c) PROVE WorkerInv'
  <2>1. UNCHANGED worker
    BY <1>1, ZenonT(60) DEF CoreGoesOn, Recover, Check, WriteTmp, Replace, Listen, Leave, Unlink, tasks
  <2>2. worker[c] = Idle \/ Listen(c)
    BY <1>1, ZenonT(60) DEF CoreGoesOn, Recover, Check, WriteTmp, Replace, Leave, Unlink
  <2>3. \A d \in Core : d # c => core'[d] = core[d]
    BY <1>0, <1>1, OthersStay, ZenonT(60)
    DEF CoreGoesOn, Recover, Check, WriteTmp, Replace, Listen, Leave, Unlink
  <2>4. ASSUME Listen(c) PROVE core'[c] = "serving"
    BY <1>0, <2>4, OthersStay DEF Listen
  <2> QED BY <2>1, <2>2, <2>3, <2>4
<1>2. ASSUME NEW c \in Core, PortTaken(c) PROVE WorkerInv'
  BY <1>0, <1>2, OthersStay DEF PortTaken, tasks
<1>3. ASSUME NEW c \in Core, Die(c) \/ (c \in Desktop /\ Close(c)) PROVE WorkerInv'
  <2>1. /\ \A d \in Core : d # c => core'[d] = core[d]
        /\ worker' = [worker EXCEPT ![c] = Idle]
    BY <1>0, <1>3, OthersStay DEF Die, Close
  <2> QED BY <1>0, <2>1 DEF TypeOK
<1>4. ASSUME NEW c \in Core, (\E k \in Task : Pick(c, k)) \/ Claim(c) \/ Finish(c) PROVE WorkerInv'
  <2>1. core[c] \in {"named", "serving", "stopping"}
    BY <1>4, IdleType, ZenonT(60) DEF Pick, Claim, Finish
  <2>2. UNCHANGED core /\ \A d \in Core : d # c => worker'[d] = worker[d]
    BY <1>0, <1>4 DEF Pick, Claim, Finish, TypeOK
  <2> QED BY <2>1, <2>2
<1>5. ASSUME NEW m \in Client, Asks(m) PROVE WorkerInv'
  BY <1>5, AsksOnly DEF tasks
<1>6. ASSUME NEW m \in Client, NEW c \in Headless, StartHeadless(m, c) PROVE WorkerInv'
  <2>1. c \in Core /\ core[c] = "unborn" /\ At(c, "starting") /\ UNCHANGED worker
    BY <1>6 DEF StartHeadless, tasks, Core
  <2> QED BY <1>0, <2>1, OthersStay
<1>7. ASSUME NEW m \in Client, Exit(m) PROVE WorkerInv'
  <2>1. \A c \in Core : core[c] # "defunct" => core'[c] = core[c]
    BY <1>7 DEF Exit
  <2>2. UNCHANGED worker
    BY <1>7 DEF Exit, tasks
  <2> QED BY <2>1, <2>2
<1>8. ASSUME NEW d \in Desktop, StopManaged(d) PROVE WorkerInv'
  <2>1. file \in Core /\ At(file, "stopping") /\ UNCHANGED worker
    BY <1>0, <1>8 DEF StopManaged, Listening, tasks, TypeOK
  <2> QED BY <1>0, <2>1, OthersStay
<1>9. ASSUME NEW d \in Desktop, StartDesktop(d) PROVE WorkerInv'
  <2>1. d \in Core /\ core[d] = "unborn" /\ At(d, "starting") /\ UNCHANGED worker
    BY <1>9 DEF StartDesktop, tasks, Core, AppInv
  <2> QED BY <1>0, <2>1, OthersStay
<1>10. CASE UNCHANGED vars
  BY <1>10 DEF vars, tasks
<1> QED
  BY <1>1, <1>2, <1>3, <1>4, <1>5, <1>6, <1>7, <1>8, <1>9, <1>10, ZenonT(60)
  DEF Next, WorkerGoesOn, ClientGoesOn, Asks, Core

\* The Core of an app that has not started it is unborn.
LEMMA StepApps == ASSUME Inv, [Next]_vars PROVE AppInv'
<1> USE DEF Inv, AppInv
<1>0. TypeOK
  OBVIOUS
<1>1. ASSUME NEW c \in Core, CoreGoesOn(c) \/ PortTaken(c) \/ Die(c) PROVE AppInv'
  <2>1. core[c] # "unborn" /\ UNCHANGED app
    BY <1>1, ZenonT(60) DEF CoreGoesOn, Recover, Check, WriteTmp, Replace, Listen, Leave, Unlink,
       PortTaken, Die, users, Starting, Published
  <2>2. \A d \in Core : d # c => core'[d] = core[d]
    BY <1>0, <1>1, OthersStay, ZenonT(60)
    DEF CoreGoesOn, Recover, Check, WriteTmp, Replace, Listen, Leave, Unlink, PortTaken, Die
  <2> QED BY <2>1, <2>2 DEF Core
<1>2. CASE Still
  BY <1>2, StillOnly
<1>3. ASSUME NEW m \in Client, NEW c \in Headless, StartHeadless(m, c) PROVE AppInv'
  <2>1. c \in Core /\ c \notin Desktop /\ At(c, "starting") /\ UNCHANGED app
    BY <1>3, DiscoveryAssumption DEF StartHeadless, Core
  <2> QED BY <1>0, <2>1, OthersStay DEF Core
<1>4. ASSUME NEW m \in Client, Exit(m) PROVE AppInv'
  <2>1. \A c \in Core : core[c] # "defunct" => core'[c] = core[c]
    BY <1>4 DEF Exit
  <2>2. UNCHANGED app
    BY <1>4 DEF Exit
  <2> QED BY <2>1, <2>2 DEF Core
<1>5. ASSUME NEW d \in Desktop, StopManaged(d) PROVE AppInv'
  <2>1. file \in Core /\ core[file] = "serving" /\ At(file, "stopping")
    BY <1>0, <1>5 DEF StopManaged, Listening, TypeOK
  <2>2. app[d] = "closed" /\ app' = [app EXCEPT ![d] = "stopping"]
    BY <1>5 DEF StopManaged
  <2> QED BY <1>0, <2>1, <2>2, OthersStay DEF Core, TypeOK
<1>6. ASSUME NEW d \in Desktop, StartDesktop(d) \/ Close(d) PROVE AppInv'
  <2>1. \A c \in Core : c # d => core'[c] = core[c]
    BY <1>0, <1>6, OthersStay DEF StartDesktop, Close, Core
  <2>2. app'[d] \in {"open", "exited"} /\ \A e \in Desktop : e # d => app'[e] = app[e]
    BY <1>0, <1>6 DEF StartDesktop, Close, TypeOK
  <2> QED BY <2>1, <2>2 DEF Core
<1> QED
  BY <1>1, <1>2, <1>3, <1>4, <1>5, <1>6, ZenonT(60)
  DEF Next, WorkerGoesOn, ClientGoesOn, Asks, Still

\* A step that starts no run keeps RunInv when it queues nothing.
LEMMA RunsEnd ==
  ASSUME RunInv,
         \A c \in Core : worker'[c] = worker[c] \/ worker'[c].stage # "running",
         \A k \in Task : status[k] # "queued" => status'[k] # "queued",
         TypeOK
  PROVE  RunInv'
<1>1. \A c \in Core : worker[c].stage = "running" => worker[c].task \in Task
  BY IdleType DEF TypeOK
<1> QED BY <1>1 DEF RunInv, OneRunner

\* No two workers run one task: the UPDATE of a claim looks for a queued one.
LEMMA StepRuns == ASSUME Inv, [Next]_vars PROVE RunInv'
<1> USE DEF Inv
<1>0. TypeOK /\ RunInv
  OBVIOUS
<1>1. ASSUME UNCHANGED <<worker, status>> PROVE RunInv'
  BY <1>0, <1>1 DEF RunInv, OneRunner
<1>2. ASSUME NEW c \in Core, Recover(c) PROVE RunInv'
  BY <1>0, <1>2, RunsEnd DEF Recover, TypeOK
<1>3. ASSUME NEW c \in Core, Die(c) \/ (c \in Desktop /\ Close(c)) PROVE RunInv'
  <2>1. worker' = [worker EXCEPT ![c] = Idle] /\ UNCHANGED status
    BY <1>3 DEF Die, Close
  <2> QED BY <1>0, <2>1, IdleType, RunsEnd DEF TypeOK
<1>4. ASSUME NEW c \in Core, NEW k \in Task, Pick(c, k) PROVE RunInv'
  <2>1. worker'[c].stage = "picked" /\ \A d \in Core : d # c => worker'[d] = worker[d]
    BY <1>0, <1>4 DEF Pick, TypeOK
  <2> QED BY <1>0, <1>4, <2>1, RunsEnd DEF Pick
<1>5. ASSUME NEW c \in Core, Claim(c) PROVE RunInv'
  <2>1. worker[c] \in [stage : {"picked", "running"}, task : Task]
    BY <1>0, <1>5, IdleType DEF Claim, TypeOK
  <2>2. CASE status[worker[c].task] = "queued"
    <3>1. /\ worker'[c].task = worker[c].task
          /\ \A d \in Core : d # c => worker'[d] = worker[d]
          /\ status'[worker[c].task] = "running"
          /\ \A k \in Task : k # worker[c].task => status'[k] = status[k]
      BY <1>0, <1>5, <2>1, <2>2 DEF Claim, TypeOK
    <3>2. \A d \in Core : worker[d].stage = "running" => worker[d].task \in Task /\ worker[d].task # worker[c].task
      BY <1>0, <2>2, IdleType DEF RunInv, TypeOK
    <3> QED BY <1>0, <3>1, <3>2 DEF RunInv, OneRunner
  <2>3. CASE status[worker[c].task] # "queued"
    <3>1. worker' = [worker EXCEPT ![c] = Idle] /\ UNCHANGED status
      BY <1>5, <2>3 DEF Claim
    <3> QED BY <1>0, <3>1, IdleType, RunsEnd DEF TypeOK
  <2> QED BY <2>2, <2>3
<1>6. ASSUME NEW c \in Core, Finish(c) PROVE RunInv'
  <2>1. /\ worker' = [worker EXCEPT ![c] = Idle]
        /\ \E end \in Outcomes : status' = [status EXCEPT ![worker[c].task] = end]
    BY <1>6 DEF Finish
  <2>2. \A k \in Task : status[k] # "queued" => status'[k] # "queued"
    BY <1>0, <2>1 DEF Outcomes, TypeOK
  <2>3. \A d \in Core : worker'[d] = worker[d] \/ worker'[d].stage # "running"
    BY <1>0, <2>1, IdleType DEF TypeOK
  <2> QED BY <1>0, <2>2, <2>3, RunsEnd
<1>7. ASSUME NEW c \in Core, CoreGoesOn(c) \/ PortTaken(c) PROVE RunInv'
  <2>1. Recover(c) \/ UNCHANGED <<worker, status>>
    BY <1>7, ZenonT(60) DEF CoreGoesOn, Check, WriteTmp, Replace, Listen, Leave, Unlink, PortTaken, tasks
  <2> QED BY <1>1, <1>2, <2>1
<1>8. ASSUME NEW m \in Client, Asks(m) \/ (\E c \in Headless : StartHeadless(m, c)) \/ Exit(m)
      PROVE  RunInv'
  BY <1>1, <1>8, AsksOnly, ZenonT(60) DEF StartHeadless, Exit, tasks
<1>9. ASSUME NEW d \in Desktop, StopManaged(d) \/ StartDesktop(d) PROVE RunInv'
  BY <1>1, <1>9 DEF StopManaged, StartDesktop, tasks
<1>10. CASE UNCHANGED vars
  BY <1>1, <1>10 DEF vars, tasks
<1> QED
  BY <1>3, <1>4, <1>5, <1>6, <1>7, <1>8, <1>9, <1>10, ZenonT(60)
  DEF Next, WorkerGoesOn, ClientGoesOn, Asks, Core

--------------------------------------------------------------------------------

\* Inv is inductive.
THEOREM Invariance == Spec => []Inv
<1>1. Inv /\ [Next]_vars => Inv'
  <2> SUFFICES ASSUME Inv, [Next]_vars PROVE Inv'
    OBVIOUS
  <2>1. TypeOK'
    BY StepType DEF Inv
  <2> QED BY <2>1, StepCores, StepWorkers, StepApps, StepRuns DEF Inv
<1> QED BY InitInv, <1>1, PTL DEF Spec

\* Files, Cores, workers, clients and apps keep their types.
THEOREM TypeCorrect == Spec => []TypeOK
<1>1. Inv => TypeOK
  BY DEF Inv
<1> QED BY <1>1, Invariance, PTL

\* Cores that start one after the other leave one Core, and core.json names it:
\* apps and clients that lose patience, deaths and stale files included.
THEOREM OneCoreTheorem == Spec => []OneCore
<1>1. Inv => OneCore
  BY DEF Inv
<1> QED BY <1>1, Invariance, PTL

\* ... so that one worker at a time works on the tasks of the database.
THEOREM OneWorkerTheorem == Spec => []OneWorker
<1>1. Inv => OneWorker
  BY DEF Inv, OneCore, WorkerInv, OneWorker, Published
<1> QED BY <1>1, Invariance, PTL

\* A task is never run twice at once, even by Cores whose starts overlapped.
THEOREM OneRunnerTheorem == Spec => []OneRunner
<1>1. Inv => OneRunner
  BY DEF Inv, RunInv
<1> QED BY <1>1, Invariance, PTL
================================================================================
