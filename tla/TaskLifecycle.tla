----------------------------- MODULE TaskLifecycle -----------------------------
(***************************************************************************)
(* What waits for an owner on one node: coding tasks (services/tasks.py)   *)
(* and local negotiations (services/negotiation.py) with their approvals   *)
(* (services/approvals.py), the routes that resolve, read and cancel them, *)
(* the single worker that runs tasks, and the recovery at start-up.        *)
(*                                                                         *)
(* An action is one read or one commit of one request.  Reads take no lock *)
(* and an UPDATE names only its row, so a request may write what it        *)
(* decided from rows that have changed since; only the claim is            *)
(* conditional.                                                            *)
(***************************************************************************)
EXTENDS Naturals, FiniteSets

CONSTANTS
  Task,         \* coding tasks
  NeedsOwner,   \* those with a level-2 operation the approval rules hold back
  Negotiation,  \* local negotiations that escalate to an owner
  Request,      \* the threads that serve requests
  MaxItems,     \* bound on tasks and negotiations in one behaviour
  MaxCrashes    \* bound on restarts

ASSUME ItemsAssumption ==
  /\ NeedsOwner \subseteq Task
  /\ Task \cap Negotiation = {}
  /\ MaxItems \in Nat
  /\ MaxCrashes \in Nat

Item == Task \cup Negotiation

VARIABLES
  approval,  \* Approval.status of an item; "overdue": pending past its expires_at
  granted,   \* the items whose approval was ever committed as approved
  status,    \* CodingTask.status or NegotiationSession.status
  started,   \* the tasks with a started_at
  agreed,    \* the negotiations with an Agreement row
  answers,   \* the message types that answered a negotiation's approval
  request,   \* what each thread is doing
  worker,    \* what the task worker is doing
  crashes    \* restarts so far

rows == <<approval, granted, status, started, agreed, answers>>
vars == <<rows, request, worker, crashes>>

Approvals == {"none", "pending", "overdue", "approved", "rejected", "expired"}
Resolved == {"approved", "rejected", "expired"}

Finished == {"completed", "failed", "cancelled", "expired"}
TaskStatuses == {"waiting_approval", "queued", "running", "cancelling"} \cup Finished
Statuses == {"none", "open", "agreed"} \cup TaskStatuses

Idle == [stage |-> "idle"]

\* seen is the task status get_task has read, "none" for a request that has not
\* read its item yet; verdict is what the request makes of the approval; cancels
\* says that get_task was called by cancel_task.
Busy == [stage : {"await", "look", "resolve", "apply", "write", "message", "refresh", "cancel"},
         item : Item, seen : Statuses, verdict : Approvals, cancels : BOOLEAN]

\* seen is the status in the worker's session, which it reads once.
Working == [stage : {"load", "run"}, task : Task, seen : Statuses]

TypeOK ==
  /\ approval \in [Item -> Approvals]
  /\ granted \in SUBSET Item
  /\ status \in [Item -> Statuses]
  /\ started \in SUBSET Task
  /\ agreed \in SUBSET Negotiation
  /\ answers \in [Item -> SUBSET {"ACCEPT", "REJECT"}]
  /\ request \in [Request -> {Idle} \cup Busy]
  /\ worker \in {Idle} \cup Working
  /\ crashes \in 0..MaxCrashes

Init ==
  /\ approval = [i \in Item |-> "none"]
  /\ granted = {}
  /\ status = [i \in Item |-> "none"]
  /\ started = {}
  /\ agreed = {}
  /\ answers = [i \in Item |-> {}]
  /\ request = [q \in Request |-> Idle]
  /\ worker = Idle
  /\ crashes = 0

--------------------------------------------------------------------------------
(* Creating what waits *)

Does(q, what) == request' = [request EXCEPT ![q] = what]

\* The request of thread q goes on with its next stage.
Goes(q, stage) == Does(q, [request[q] EXCEPT !.stage = stage])

Call(stage, i, seen, verdict, cancels) ==
  [stage |-> stage, item |-> i, seen |-> seen, verdict |-> verdict, cancels |-> cancels]

\* Item i is new, and one more is within the bound.
MayOpen(i) == status[i] = "none" /\ Cardinality({j \in Item : status[j] # "none"}) < MaxItems

\* create_task: the task and its approval in one commit, so that no worker can
\* claim it in between.
CreateTask(k) ==
  /\ MayOpen(k)
  /\ IF k \in NeedsOwner
     THEN /\ status' = [status EXCEPT ![k] = "waiting_approval"]
          /\ approval' = [approval EXCEPT ![k] = "pending"]
     ELSE /\ status' = [status EXCEPT ![k] = "queued"]
          /\ UNCHANGED approval
  /\ UNCHANGED <<granted, started, agreed, answers, request, worker, crashes>>

\* create_negotiation_approval: create_approval commits the approval and the
\* session, still open ...
Escalate(q, i) ==
  /\ request[q] = Idle
  /\ MayOpen(i)
  /\ status' = [status EXCEPT ![i] = "open"]
  /\ approval' = [approval EXCEPT ![i] = "pending"]
  /\ Does(q, Call("await", i, "none", "none", FALSE))
  /\ UNCHANGED <<granted, started, agreed, answers, worker, crashes>>

\* ... and a second commit makes the session wait for it.
Await(q) ==
  /\ request[q].stage = "await"
  /\ status' = [status EXCEPT ![request[q].item] = "waiting_approval"]
  /\ Does(q, Idle)
  /\ UNCHANGED <<approval, granted, started, agreed, answers, worker, crashes>>

\* expires_at passes.
Overdue(i) ==
  /\ approval[i] = "pending"
  /\ approval' = [approval EXCEPT ![i] = "overdue"]
  /\ UNCHANGED <<granted, status, started, agreed, answers, request, worker, crashes>>

--------------------------------------------------------------------------------
(* Resolving an approval *)

\* approve and reject of a pending approval; any of the routes, and the relay
\* worker, that meet an overdue one.
Begin(q, i, verdict) ==
  /\ request[q] = Idle
  /\ approval[i] = (IF verdict = "expired" THEN "overdue" ELSE "pending")
  /\ Does(q, Call("resolve", i, "none", verdict, FALSE))
  /\ UNCHANGED <<rows, worker, crashes>>

\* The commit of the approval row, whatever it holds by now.
Resolve(q) ==
  /\ request[q].stage = "resolve"
  /\ LET i == request[q].item
     IN  /\ approval' = [approval EXCEPT ![i] = request[q].verdict]
         /\ granted' = IF request[q].verdict = "approved" THEN granted \cup {i} ELSE granted
  /\ Goes(q, "apply")
  /\ UNCHANGED <<status, started, agreed, answers, worker, crashes>>

\* The row is read again, but the expiry of a task does not look at it.
Verdict(q) ==
  LET i == request[q].item
  IN  IF i \in Task /\ request[q].verdict = "expired" THEN "expired" ELSE approval[i]

\* The status on_approval_resolved works with: in get_task the session already
\* holds the task.
Known(q) == IF request[q].seen = "none" THEN status[request[q].item] ELSE request[q].seen

\* What follows: cancel_task reads the task again.
Ends(q) ==
  IF request[q].cancels THEN Does(q, Call("refresh", request[q].item, "none", "none", TRUE))
                        ELSE Does(q, Idle)

\* Faulty: an approval that expires leaves its task alone.
ApplyUnlessExpired(q) ==
  /\ request[q].stage = "apply"
  /\ IF Known(q) = "waiting_approval" /\ Verdict(q) # "expired"
     THEN Does(q, [request[q] EXCEPT !.stage = "write", !.verdict = Verdict(q)])
     ELSE Ends(q)
  /\ UNCHANGED <<rows, worker, crashes>>

\* on_approval_resolved: the item still waits.
Apply(q) ==
  /\ request[q].stage = "apply"
  /\ IF Known(q) = "waiting_approval"
     THEN Does(q, [request[q] EXCEPT !.stage = "write", !.verdict = Verdict(q)])
     ELSE Ends(q)
  /\ UNCHANGED <<rows, worker, crashes>>

\* Faulty: a task runs unless its approval was rejected.
TaskAfterUnlessRejected(verdict) == IF verdict = "rejected" THEN "cancelled" ELSE "queued"

\* Faulty: the status of the approval is taken over.
TaskAfterVerbatim(verdict) == verdict

TaskAfter(verdict) ==
  CASE verdict = "approved" -> "queued"
    [] verdict = "rejected" -> "cancelled"
    [] OTHER                -> "expired"

WriteTask(q) ==
  /\ request[q].stage = "write"
  /\ request[q].item \in Task
  /\ status' = [status EXCEPT ![request[q].item] = TaskAfter(request[q].verdict)]
  /\ Ends(q)
  /\ UNCHANGED <<approval, granted, started, agreed, answers, worker, crashes>>

\* An accepted negotiation: create_agreement commits the Agreement and the
\* status, or finds an Agreement and commits nothing.
WriteAgreed(q) ==
  /\ request[q].stage = "write"
  /\ request[q].verdict = "approved"
  /\ LET i == request[q].item
     IN  /\ i \in Negotiation
         /\ status' = [status EXCEPT ![i] = "agreed"]
         /\ agreed' = agreed \cup {i}
         /\ IF i \in agreed
            THEN answers' = [answers EXCEPT ![i] = @ \cup {"ACCEPT"}] /\ Does(q, Idle)
            ELSE Goes(q, "message") /\ UNCHANGED answers
  /\ UNCHANGED <<approval, granted, started, worker, crashes>>

\* The ACCEPT message of the conversation, in a commit of its own.
WriteMessage(q) ==
  /\ request[q].stage = "message"
  /\ answers' = [answers EXCEPT ![request[q].item] = @ \cup {"ACCEPT"}]
  /\ Does(q, Idle)
  /\ UNCHANGED <<approval, granted, status, started, agreed, worker, crashes>>

\* A refused or expired negotiation.
WriteFailed(q) ==
  /\ request[q].stage = "write"
  /\ request[q].verdict # "approved"
  /\ LET i == request[q].item
     IN  /\ i \in Negotiation
         /\ status' = [status EXCEPT ![i] = "failed"]
         /\ answers' = [answers EXCEPT ![i] = @ \cup {"REJECT"}]
  /\ Does(q, Idle)
  /\ UNCHANGED <<approval, granted, started, agreed, worker, crashes>>

--------------------------------------------------------------------------------
(* Reading and cancelling a task *)

\* cancel_task on a task that can still be cancelled.
MayCancel(s) == s \notin Finished \cup {"cancelling"}

\* get_task of a task with an approval, alone or as the start of cancel_task:
\* reads the task.  Alone, it changes nothing of a task that does not wait.
GetTask(q, k, cancels) ==
  /\ request[q] = Idle
  /\ k \in NeedsOwner
  /\ IF cancels THEN status[k] # "none" ELSE status[k] = "waiting_approval"
  /\ Does(q, Call("look", k, status[k], "none", cancels))
  /\ UNCHANGED <<rows, worker, crashes>>

\* cancel_task of a task without one decides from the first read.
CancelUngated(q, k) ==
  /\ request[q] = Idle
  /\ k \notin NeedsOwner
  /\ status[k] # "none" /\ MayCancel(status[k])
  /\ Does(q, Call("cancel", k, status[k], "none", TRUE))
  /\ UNCHANGED <<rows, worker, crashes>>

\* get_approval: expires an overdue approval; a resolved one is applied to the
\* task as it was read before.
Look(q) ==
  /\ request[q].stage = "look"
  /\ LET a == approval[request[q].item]
     IN  IF a = "overdue"
         THEN Does(q, [request[q] EXCEPT !.stage = "resolve", !.verdict = "expired"])
         ELSE IF a \in Resolved /\ request[q].seen = "waiting_approval"
         THEN Does(q, [request[q] EXCEPT !.stage = "write", !.verdict = a])
         ELSE Ends(q)
  /\ UNCHANGED <<rows, worker, crashes>>

\* session.refresh: the status cancel_task decides from.
Refresh(q) ==
  /\ request[q].stage = "refresh"
  /\ LET s == status[request[q].item]
     IN  IF MayCancel(s)
         THEN Does(q, [request[q] EXCEPT !.stage = "cancel", !.seen = s])
         ELSE Does(q, Idle)
  /\ UNCHANGED <<rows, worker, crashes>>

Cancel(q) ==
  /\ request[q].stage = "cancel"
  /\ status' = [status EXCEPT ![request[q].item] =
                  IF request[q].seen = "running" THEN "cancelling" ELSE "cancelled"]
  /\ Does(q, Idle)
  /\ UNCHANGED <<approval, granted, started, agreed, answers, worker, crashes>>

--------------------------------------------------------------------------------
(* The task worker *)

\* claim_next_task: the conditional UPDATE.  Which of the queued tasks is the
\* oldest is left open.
Claim(k) ==
  /\ worker = Idle
  /\ status[k] = "queued"
  /\ status' = [status EXCEPT ![k] = "running"]
  /\ started' = started \cup {k}
  /\ worker' = [stage |-> "load", task |-> k, seen |-> "none"]
  /\ UNCHANGED <<approval, granted, agreed, answers, request, crashes>>

\* _run_claimed_task reads the task; session.get returns this same object when
\* the run is over.
Load ==
  /\ worker.stage = "load"
  /\ worker' = [worker EXCEPT !.stage = "run", !.seen = status[worker.task]]
  /\ UNCHANGED <<rows, request, crashes>>

\* The provider ends with a result or an error, its time is up, or the poll of
\* _wait_for_provider_task finds that the task is being cancelled; then
\* _mark_task_finished.  The cancellation is only taken for one when it was there
\* at the load, otherwise the run has failed.
Finish ==
  /\ worker.stage = "run"
  /\ \E end \in {"failed", IF worker.seen = "cancelling" THEN "cancelled" ELSE "completed"} :
       status' = [status EXCEPT ![worker.task] = end]
  /\ worker' = Idle
  /\ UNCHANGED <<approval, granted, started, agreed, answers, request, crashes>>

--------------------------------------------------------------------------------
(* Restarting *)

\* Faulty: only a run that was being cancelled is given up.
InterruptedCancelling == {k \in Task : status[k] = "cancelling"}

\* recover_interrupted_tasks
Interrupted == {k \in Task : status[k] \in {"running", "cancelling"}}

\* The process dies and is started again.
Restart ==
  /\ crashes < MaxCrashes
  /\ crashes' = crashes + 1
  /\ request' = [q \in Request |-> Idle]
  /\ worker' = Idle
  /\ status' = [i \in Item |-> IF i \in Interrupted THEN "failed" ELSE status[i]]
  /\ UNCHANGED <<approval, granted, started, agreed, answers>>

--------------------------------------------------------------------------------

\* A request that is past its first read goes on.
Proceed(q) ==
  \/ Await(q) \/ Resolve(q) \/ Apply(q)
  \/ WriteTask(q) \/ WriteAgreed(q) \/ WriteMessage(q) \/ WriteFailed(q)
  \/ Look(q) \/ Refresh(q) \/ Cancel(q)

Next ==
  \/ \E k \in Task : CreateTask(k)
  \/ \E i \in Item : Overdue(i)
  \/ \E q \in Request :
       \/ \E i \in Negotiation : Escalate(q, i)
       \/ \E i \in Item, verdict \in Resolved : Begin(q, i, verdict)
       \/ \E k \in Task, cancels \in BOOLEAN : GetTask(q, k, cancels)
       \/ \E k \in Task : CancelUngated(q, k)
       \/ Proceed(q)
  \/ \E k \in Task : Claim(k)
  \/ Load \/ Finish
  \/ Restart

Spec == Init /\ [][Next]_vars

\* Handlers and the worker run to their end (a run has a timeout).  Nobody has
\* to send a request.
Fairness ==
  /\ \A q \in Request : WF_vars(Proceed(q))
  /\ WF_vars(\E k \in Task : Claim(k))
  /\ WF_vars(Load) /\ WF_vars(Finish)

FairSpec == Spec /\ Fairness

--------------------------------------------------------------------------------
(* Properties *)

\* A task that needs its owner is started, and a local negotiation agreed, only
\* after an approval was committed for it, however approve, reject, expiry,
\* cancel, the catch-up of get_task and restarts race.
NothingUnapproved ==
  /\ started \cap NeedsOwner \subseteq granted
  /\ agreed \subseteq granted
  /\ \A i \in Negotiation : status[i] = "agreed" => i \in agreed

\* A task that says it is running is the one the worker is busy with: no restart
\* and no late write of a request leaves a task running for ever.
RunningIsWorkedOn ==
  \A k \in Task : status[k] = "running" => worker # Idle /\ worker.task = k

\* A claimed task stops running: again and again nothing runs, since a run has a
\* timeout and a restart gives it up, whatever was written over the task meanwhile.
RunningEnds == []<>(\A k \in Task : status[k] # "running")

\* Once the approval of a task is resolved, the task stops waiting without
\* anybody asking for it, unless the process dies in between.
ResolutionReachesTask ==
  \A k \in NeedsOwner :
    approval[k] \in Resolved /\ status[k] = "waiting_approval"
      ~> status[k] # "waiting_approval" \/ crashes > 0
================================================================================
