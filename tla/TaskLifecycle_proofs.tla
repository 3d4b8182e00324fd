-------------------------- MODULE TaskLifecycle_proofs --------------------------
(***************************************************************************)
(* Type correctness, and that nothing is started, agreed or left running   *)
(* that should not be, for any tasks, negotiations, request threads and    *)
(* number of restarts.                                                     *)
(***************************************************************************)
EXTENDS TaskLifecycle, TLAPS

LEMMA TypeInit == Init => TypeOK
BY ItemsAssumption DEF Init, TypeOK, Item, Approvals, Statuses, TaskStatuses, Finished, Idle

\* A thread goes on with a well-typed request.
LEMMA DoesTyped ==
  ASSUME TypeOK, NEW q \in Request, NEW what \in {Idle} \cup Busy, Does(q, what)
  PROVE  request' \in [Request -> {Idle} \cup Busy]
BY DEF TypeOK, Does

LEMMA CallTyped ==
  ASSUME NEW s \in {"await", "look", "resolve", "apply", "write", "message", "refresh", "cancel"},
         NEW i \in Item, NEW seen \in Statuses, NEW v \in Approvals, NEW c \in BOOLEAN
  PROVE  Call(s, i, seen, v, c) \in Busy
BY DEF Call, Busy

LEMMA BusyParts ==
  ASSUME NEW r \in Busy
  PROVE  /\ r.item \in Item /\ r.seen \in Statuses
         /\ r.verdict \in Approvals /\ r.cancels \in BOOLEAN
BY DEF Busy

\* What a stage passes on is well-typed.
LEMMA GoesOnTyped ==
  ASSUME NEW r \in Busy,
         NEW s \in {"await", "look", "resolve", "apply", "write", "message", "refresh", "cancel"}
  PROVE  /\ [r EXCEPT !.stage = s] \in Busy
         /\ \A v \in Approvals : [r EXCEPT !.stage = s, !.verdict = v] \in Busy
         /\ \A seen \in Statuses : [r EXCEPT !.stage = s, !.seen = seen] \in Busy
BY DEF Busy

LEMMA EndsTyped ==
  ASSUME TypeOK, NEW q \in Request, request[q] \in Busy, Ends(q)
  PROVE  request' \in [Request -> {Idle} \cup Busy]
<1>1. Call("refresh", request[q].item, "none", "none", TRUE) \in Busy
  BY CallTyped, BusyParts DEF Statuses, Approvals
<1>2. CASE request[q].cancels
  BY <1>1, <1>2, DoesTyped DEF Ends
<1>3. CASE ~request[q].cancels
  BY <1>3, DoesTyped DEF Ends
<1> QED BY <1>2, <1>3

\* The stages of a request.
LEMMA ProceedTyped ==
  ASSUME TypeOK, NEW q \in Request, Proceed(q)
  PROVE  TypeOK'
<1> DEFINE i == request[q].item
<1>0. request[q] \in Busy
  BY DEF TypeOK, Idle, Proceed, Await, Resolve, Apply, WriteTask, WriteAgreed, WriteMessage,
         WriteFailed, Look, Refresh, Cancel
<1>b. i \in Item /\ request[q].seen \in Statuses /\ request[q].verdict \in Approvals
  BY <1>0, BusyParts
<1>c. /\ approval \in [Item -> Approvals] /\ status \in [Item -> Statuses]
      /\ answers \in [Item -> SUBSET {"ACCEPT", "REJECT"}]
      /\ approval[i] \in Approvals /\ status[i] \in Statuses
  BY <1>b DEF TypeOK
<1>d. Verdict(q) \in Approvals
  BY <1>c DEF Verdict, Approvals
<1>1. CASE Await(q)
  <2>1. request' \in [Request -> {Idle} \cup Busy]
    BY <1>1, DoesTyped DEF Await
  <2>2. status' \in [Item -> Statuses]
    BY <1>1, <1>c DEF Await, Statuses, TaskStatuses
  <2> QED BY <1>1, <2>1, <2>2 DEF Await, TypeOK
<1>2. CASE Resolve(q)
  <2>1. request' \in [Request -> {Idle} \cup Busy]
    BY <1>0, <1>2, GoesOnTyped, DoesTyped DEF Resolve, Goes
  <2>2. approval' \in [Item -> Approvals] /\ granted' \in SUBSET Item
    BY <1>2, <1>b, <1>c DEF Resolve, TypeOK
  <2> QED BY <1>2, <2>1, <2>2 DEF Resolve, TypeOK
<1>3. CASE Apply(q)
  <2>1. [request[q] EXCEPT !.stage = "write", !.verdict = Verdict(q)] \in Busy
    BY <1>0, <1>d, GoesOnTyped
  <2>2. request' \in [Request -> {Idle} \cup Busy]
    BY <1>0, <1>3, <2>1, DoesTyped, EndsTyped DEF Apply
  <2> QED BY <1>3, <2>2 DEF Apply, TypeOK, rows
<1>4. CASE WriteTask(q)
  <2>1. request' \in [Request -> {Idle} \cup Busy]
    BY <1>0, <1>4, EndsTyped DEF WriteTask
  <2>2. status' \in [Item -> Statuses]
    BY <1>4, <1>c DEF WriteTask, TaskAfter, Statuses, TaskStatuses, Finished
  <2> QED BY <1>4, <2>1, <2>2 DEF WriteTask, TypeOK
<1>5. CASE WriteAgreed(q)
  <2>1. request' \in [Request -> {Idle} \cup Busy]
    BY <1>0, <1>5, GoesOnTyped, DoesTyped DEF WriteAgreed, Goes
  <2>2. /\ status' \in [Item -> Statuses]
        /\ agreed' \in SUBSET Negotiation
        /\ answers' \in [Item -> SUBSET {"ACCEPT", "REJECT"}]
    <3>1. i \in Negotiation
      BY <1>5 DEF WriteAgreed
    <3>2. status' \in [Item -> Statuses] /\ agreed' \in SUBSET Negotiation
      BY <1>5, <1>c, <3>1 DEF WriteAgreed, Statuses, TypeOK
    <3>3. answers' \in [Item -> SUBSET {"ACCEPT", "REJECT"}]
      BY <1>b, <1>c, <1>5 DEF WriteAgreed
    <3> QED BY <3>2, <3>3
  <2> QED BY <1>5, <2>1, <2>2 DEF WriteAgreed, TypeOK
<1>6. CASE WriteMessage(q)
  <2>1. request' \in [Request -> {Idle} \cup Busy]
    BY <1>6, DoesTyped DEF WriteMessage
  <2>2. answers' \in [Item -> SUBSET {"ACCEPT", "REJECT"}]
    BY <1>6, <1>c DEF WriteMessage
  <2> QED BY <1>6, <2>1, <2>2 DEF WriteMessage, TypeOK
<1>7. CASE WriteFailed(q)
  <2>1. request' \in [Request -> {Idle} \cup Busy]
    BY <1>7, DoesTyped DEF WriteFailed
  <2>2. status' \in [Item -> Statuses] /\ answers' \in [Item -> SUBSET {"ACCEPT", "REJECT"}]
    BY <1>7, <1>c DEF WriteFailed, Statuses, TaskStatuses, Finished
  <2> QED BY <1>7, <2>1, <2>2 DEF WriteFailed, TypeOK
<1>8. CASE Look(q)
  <2>1. /\ [request[q] EXCEPT !.stage = "resolve", !.verdict = "expired"] \in Busy
        /\ [request[q] EXCEPT !.stage = "write", !.verdict = approval[i]] \in Busy
    BY <1>0, <1>c, GoesOnTyped DEF Approvals
  <2>2. request' \in [Request -> {Idle} \cup Busy]
    BY <1>0, <1>8, <2>1, DoesTyped, EndsTyped DEF Look
  <2> QED BY <1>8, <2>2 DEF Look, TypeOK, rows
<1>9. CASE Refresh(q)
  <2>1. [request[q] EXCEPT !.stage = "cancel", !.seen = status[i]] \in Busy
    BY <1>0, <1>c, GoesOnTyped
  <2>2. request' \in [Request -> {Idle} \cup Busy]
    BY <1>9, <2>1, DoesTyped DEF Refresh
  <2> QED BY <1>9, <2>2 DEF Refresh, TypeOK, rows
<1>10. CASE Cancel(q)
  <2>1. request' \in [Request -> {Idle} \cup Busy]
    BY <1>10, DoesTyped DEF Cancel
  <2>2. status' \in [Item -> Statuses]
    BY <1>10, <1>c DEF Cancel, Statuses, TaskStatuses, Finished
  <2> QED BY <1>10, <2>1, <2>2 DEF Cancel, TypeOK
<1> QED BY <1>1, <1>2, <1>3, <1>4, <1>5, <1>6, <1>7, <1>8, <1>9, <1>10 DEF Proceed

LEMMA TypeStep == TypeOK /\ [Next]_vars => TypeOK'
<1> SUFFICES ASSUME TypeOK, [Next]_vars PROVE TypeOK'
  OBVIOUS
<1> USE ItemsAssumption DEF TypeOK, Item, Approvals, Resolved, Statuses, TaskStatuses, Finished,
        Idle, Busy, Working, Does, Call
<1>1. ASSUME NEW k \in Task, CreateTask(k) PROVE TypeOK'
  BY <1>1 DEF CreateTask
<1>2. ASSUME NEW i \in Item, Overdue(i) PROVE TypeOK'
  BY <1>2 DEF Overdue
<1>3. ASSUME NEW q \in Request, NEW i \in Negotiation, Escalate(q, i) PROVE TypeOK'
  BY <1>3 DEF Escalate
<1>4. ASSUME NEW q \in Request, NEW i \in Item, NEW v \in Resolved, Begin(q, i, v) PROVE TypeOK'
  BY <1>4 DEF Begin, rows
<1>5. ASSUME NEW q \in Request, NEW k \in Task, NEW c \in BOOLEAN, GetTask(q, k, c) PROVE TypeOK'
  BY <1>5 DEF GetTask, rows
<1>6. ASSUME NEW q \in Request, NEW k \in Task, CancelUngated(q, k) PROVE TypeOK'
  BY <1>6 DEF CancelUngated, rows
<1>7. ASSUME NEW q \in Request, Proceed(q) PROVE TypeOK'
  BY <1>7, ProceedTyped
<1>8. ASSUME NEW k \in Task, Claim(k) PROVE TypeOK'
  BY <1>8 DEF Claim
<1>9. CASE Load
  <2>1. worker \in Working
    BY <1>9 DEF Load
  <2>2. [worker EXCEPT !.stage = "run", !.seen = status[worker.task]] \in Working
    BY <2>1
  <2> QED BY <1>9, <2>2 DEF Load, rows
<1>10. CASE Finish BY <1>10 DEF Finish
<1>11. CASE Restart BY <1>11 DEF Restart, Interrupted
<1>12. CASE UNCHANGED vars BY <1>12 DEF vars, rows
<1> QED BY <1>1, <1>2, <1>3, <1>4, <1>5, <1>6, <1>7, <1>8, <1>9, <1>10, <1>11, <1>12 DEF Next

\* Every row and every request in flight keeps its type, for any sets of items
\* and threads.
THEOREM TypeCorrect == Spec => []TypeOK
BY TypeInit, TypeStep, PTL DEF Spec

--------------------------------------------------------------------------------
(* Nothing is started or agreed without an approval *)

\* Whatever may still set an item going holds an approval that was committed: a
\* queued task, an approved row, and a request about to write an approved verdict.
Granted ==
  /\ \A k \in NeedsOwner : status[k] = "queued" \/ k \in started => k \in granted
  /\ \A i \in Item : approval[i] = "approved" => i \in granted
  /\ \A q \in Request :
       request[q].stage = "write" /\ request[q].verdict = "approved"
         => request[q].item \in granted
  /\ agreed \subseteq granted
  /\ \A i \in Negotiation : status[i] = "agreed" => i \in agreed

LEMMA GrantedInit == Init => Granted
BY ItemsAssumption DEF Init, Granted, Item, Idle

\* A request that goes on somewhere else than to a write changes nothing here.
LEMMA EndsElsewhere ==
  ASSUME NEW q \in Request, request \in [Request -> {Idle} \cup Busy], Ends(q)
  PROVE  /\ request'[q].stage # "write"
         /\ \A p \in Request \ {q} : request'[p] = request[p]
BY DEF Ends, Does, Call, Idle

LEMMA GrantedProceed ==
  ASSUME TypeOK, Granted, NEW q \in Request, Proceed(q)
  PROVE  Granted'
<1> DEFINE i == request[q].item
<1>0. request[q] \in Busy
  BY DEF TypeOK, Idle, Proceed, Await, Resolve, Apply, WriteTask, WriteAgreed, WriteMessage,
         WriteFailed, Look, Refresh, Cancel
<1>b. i \in Item /\ request[q].verdict \in Approvals
  BY <1>0, BusyParts
<1>c. /\ approval \in [Item -> Approvals] /\ status \in [Item -> Statuses]
      /\ request \in [Request -> {Idle} \cup Busy]
  BY DEF TypeOK
<1>s. NeedsOwner \subseteq Item /\ Negotiation \subseteq Item
  BY ItemsAssumption DEF Item
<1>v. Verdict(q) = "approved" => i \in granted
  BY <1>b DEF Verdict, Granted
<1>1. CASE Await(q)
  BY <1>1, <1>b, <1>c, <1>s DEF Await, Does, Idle, Granted
<1>2. CASE Resolve(q)
  <2>1. /\ \A j \in Item : approval'[j] = "approved" => j \in granted'
        /\ granted \subseteq granted'
    BY <1>2, <1>b, <1>c DEF Resolve, Granted
  <2>2. /\ request'[q].stage # "write"
        /\ \A p \in Request \ {q} : request'[p] = request[p]
    BY <1>0, <1>2, <1>c DEF Resolve, Goes, Does, Busy
  <2>3. UNCHANGED <<status, started, agreed>>
    BY <1>2 DEF Resolve
  <2> QED BY <2>1, <2>2, <2>3 DEF Granted
<1>3. CASE Apply(q)
  <2>1. UNCHANGED <<approval, granted, status, started, agreed>>
    BY <1>3 DEF Apply, rows
  <2>2. CASE Known(q) = "waiting_approval"
    <3>1. request' = [request EXCEPT ![q] = [request[q] EXCEPT !.stage = "write",
                                                              !.verdict = Verdict(q)]]
      BY <1>3, <2>2 DEF Apply, Does
    <3>2. request'[q].verdict = Verdict(q) /\ request'[q].item = i
      BY <1>0, <1>c, <3>1 DEF Busy
    <3>3. \A p \in Request \ {q} : request'[p] = request[p]
      BY <1>c, <3>1
    <3> QED BY <1>v, <2>1, <3>2, <3>3 DEF Granted
  <2>3. CASE Known(q) # "waiting_approval"
    BY <1>3, <1>c, <2>1, <2>3, EndsElsewhere DEF Apply, Granted
  <2> QED BY <2>2, <2>3
<1>4. CASE WriteTask(q)
  <2>1. TaskAfter(request[q].verdict) # "agreed"
        /\ (TaskAfter(request[q].verdict) = "queued" => request[q].verdict = "approved")
    BY DEF TaskAfter
  <2>2. /\ \A j \in Item : status'[j] = IF j = i THEN TaskAfter(request[q].verdict) ELSE status[j]
        /\ UNCHANGED <<approval, granted, started, agreed>>
    BY <1>4, <1>c DEF WriteTask
  <2>3. /\ request'[q].stage # "write"
        /\ \A p \in Request \ {q} : request'[p] = request[p]
    BY <1>4, <1>c, EndsElsewhere DEF WriteTask
  <2>4. request[q].stage = "write"
    BY <1>4 DEF WriteTask
  <2> QED BY <1>s, <2>1, <2>2, <2>3, <2>4 DEF Granted
<1>5. CASE WriteAgreed(q)
  <2>1. /\ i \in Negotiation /\ i \in granted
        /\ agreed' = agreed \cup {i}
        /\ \A j \in Item : status'[j] = IF j = i THEN "agreed" ELSE status[j]
        /\ UNCHANGED <<approval, granted, started>>
    BY <1>5, <1>c DEF WriteAgreed, Granted
  <2>2. /\ request'[q].stage # "write"
        /\ \A p \in Request \ {q} : request'[p] = request[p]
    BY <1>0, <1>5, <1>c DEF WriteAgreed, Goes, Does, Idle, Busy
  <2> QED BY <1>s, <2>1, <2>2 DEF Granted
<1>6. CASE WriteMessage(q)
  BY <1>6, <1>c DEF WriteMessage, Does, Idle, Granted
<1>7. CASE WriteFailed(q)
  BY <1>7, <1>b, <1>c, <1>s DEF WriteFailed, Does, Idle, Granted
<1>8. CASE Look(q)
  <2>1. UNCHANGED <<approval, granted, status, started, agreed>>
    BY <1>8 DEF Look, rows
  <2>2. CASE approval[i] = "overdue"
    <3>1. request' = [request EXCEPT ![q] = [request[q] EXCEPT !.stage = "resolve",
                                                              !.verdict = "expired"]]
      BY <1>8, <2>2 DEF Look, Does
    <3>2. request'[q].stage = "resolve"
      BY <1>0, <1>c, <3>1 DEF Busy
    <3>3. \A p \in Request \ {q} : request'[p] = request[p]
      BY <1>c, <3>1
    <3> QED BY <2>1, <3>2, <3>3 DEF Granted
  <2>3. CASE /\ approval[i] # "overdue"
             /\ approval[i] \in Resolved /\ request[q].seen = "waiting_approval"
    <3>1. request' = [request EXCEPT ![q] = [request[q] EXCEPT !.stage = "write",
                                                              !.verdict = approval[i]]]
      BY <1>8, <2>3 DEF Look, Does
    <3>2. request'[q].verdict = approval[i] /\ request'[q].item = i
      BY <1>0, <1>c, <3>1 DEF Busy
    <3>3. \A p \in Request \ {q} : request'[p] = request[p]
      BY <1>c, <3>1
    <3> QED BY <1>b, <2>1, <3>2, <3>3 DEF Granted
  <2>4. CASE /\ approval[i] # "overdue"
             /\ ~(approval[i] \in Resolved /\ request[q].seen = "waiting_approval")
    BY <1>8, <1>c, <2>1, <2>4, EndsElsewhere DEF Look, Granted
  <2> QED BY <2>2, <2>3, <2>4
<1>9. CASE Refresh(q)
  <2>1. UNCHANGED <<approval, granted, status, started, agreed>>
    BY <1>9 DEF Refresh, rows
  <2>2. /\ request'[q].stage # "write"
        /\ \A p \in Request \ {q} : request'[p] = request[p]
    <3>1. CASE MayCancel(status[i])
      <4>1. request' = [request EXCEPT ![q] = [request[q] EXCEPT !.stage = "cancel",
                                                                !.seen = status[i]]]
        BY <1>9, <3>1 DEF Refresh, Does
      <4>2. request'[q].stage = "cancel"
        BY <1>0, <1>c, <4>1 DEF Busy
      <4> QED BY <1>c, <4>1, <4>2
    <3>2. CASE ~MayCancel(status[i])
      BY <1>9, <1>c, <3>2 DEF Refresh, Does, Idle
    <3> QED BY <3>1, <3>2
  <2> QED BY <2>1, <2>2 DEF Granted
<1>10. CASE Cancel(q)
  BY <1>10, <1>b, <1>c, <1>s DEF Cancel, Does, Idle, Granted
<1> QED BY <1>1, <1>2, <1>3, <1>4, <1>5, <1>6, <1>7, <1>8, <1>9, <1>10 DEF Proceed

LEMMA GrantedStep == TypeOK /\ Granted /\ [Next]_vars => Granted'
<1> SUFFICES ASSUME TypeOK, Granted, [Next]_vars PROVE Granted'
  OBVIOUS
<1> USE ItemsAssumption DEF Granted, Item, Does, Call, Idle
<1>t. /\ approval \in [Item -> Approvals] /\ status \in [Item -> Statuses]
      /\ request \in [Request -> {Idle} \cup Busy]
  BY DEF TypeOK
<1>1. ASSUME NEW k \in Task, CreateTask(k) PROVE Granted'
  BY <1>t, <1>1 DEF CreateTask
<1>2. ASSUME NEW i \in Item, Overdue(i) PROVE Granted'
  BY <1>t, <1>2 DEF Overdue
<1>3. ASSUME NEW q \in Request, NEW i \in Negotiation, Escalate(q, i) PROVE Granted'
  BY <1>t, <1>3 DEF Escalate
<1>4. ASSUME NEW q \in Request, NEW i \in Item, NEW v \in Resolved, Begin(q, i, v) PROVE Granted'
  BY <1>t, <1>4 DEF Begin, rows
<1>5. ASSUME NEW q \in Request, NEW k \in Task, NEW c \in BOOLEAN, GetTask(q, k, c) PROVE Granted'
  BY <1>t, <1>5 DEF GetTask, rows
<1>6. ASSUME NEW q \in Request, NEW k \in Task, CancelUngated(q, k) PROVE Granted'
  BY <1>t, <1>6 DEF CancelUngated, rows
<1>7. ASSUME NEW q \in Request, Proceed(q) PROVE Granted'
  BY <1>7, GrantedProceed
<1>8. ASSUME NEW k \in Task, Claim(k) PROVE Granted'
  BY <1>t, <1>8 DEF Claim
<1>9. CASE Load BY <1>9 DEF Load, rows
<1>10. CASE Finish
  <2>1. worker.task \in Task
    BY <1>10 DEF Finish, TypeOK, Working
  <2> QED BY <1>t, <1>10, <2>1 DEF Finish
<1>11. CASE Restart BY <1>t, <1>11 DEF Restart
<1>12. CASE UNCHANGED vars BY <1>12 DEF vars, rows
<1> QED BY <1>1, <1>2, <1>3, <1>4, <1>5, <1>6, <1>7, <1>8, <1>9, <1>10, <1>11, <1>12 DEF Next

\* A task that needs its owner is started, and a negotiation agreed, only after
\* an approval was committed for it, for any number of requests, tasks and
\* restarts: no interleaving of approve, reject, expiry, cancel and catch-up
\* turns a stale read into a start.
THEOREM ApprovalTheorem == Spec => []NothingUnapproved
<1>1. Granted => NothingUnapproved
  BY ItemsAssumption DEF Granted, NothingUnapproved
<1> QED BY <1>1, TypeInit, TypeStep, GrantedInit, GrantedStep, PTL DEF Spec

--------------------------------------------------------------------------------
(* A running task is the worker's *)

LEMMA RunningStep == TypeOK /\ RunningIsWorkedOn /\ [Next]_vars => RunningIsWorkedOn'
<1> SUFFICES ASSUME TypeOK, RunningIsWorkedOn, [Next]_vars PROVE RunningIsWorkedOn'
  OBVIOUS
<1>t. status \in [Item -> Statuses] /\ Task \subseteq Item
  BY DEF TypeOK, Item
<1>1. ASSUME NEW k \in Task, CreateTask(k) PROVE RunningIsWorkedOn'
  BY <1>t, <1>1 DEF CreateTask, RunningIsWorkedOn
<1>2. ASSUME NEW i \in Item, Overdue(i) PROVE RunningIsWorkedOn'
  BY <1>2 DEF Overdue, RunningIsWorkedOn
<1>3. ASSUME NEW q \in Request, NEW i \in Negotiation, Escalate(q, i) PROVE RunningIsWorkedOn'
  BY <1>t, <1>3 DEF Escalate, RunningIsWorkedOn
<1>4. ASSUME NEW q \in Request, NEW i \in Item, NEW v \in Resolved, Begin(q, i, v) PROVE RunningIsWorkedOn'
  BY <1>4 DEF Begin, rows, RunningIsWorkedOn
<1>5. ASSUME NEW q \in Request, NEW k \in Task, NEW c \in BOOLEAN, GetTask(q, k, c) PROVE RunningIsWorkedOn'
  BY <1>5 DEF GetTask, rows, RunningIsWorkedOn
<1>6. ASSUME NEW q \in Request, NEW k \in Task, CancelUngated(q, k) PROVE RunningIsWorkedOn'
  BY <1>6 DEF CancelUngated, rows, RunningIsWorkedOn
<1>7. ASSUME NEW q \in Request, Proceed(q) PROVE RunningIsWorkedOn'
  <2>1. worker' = worker
    BY <1>7 DEF Proceed, Await, Resolve, Apply, WriteTask, WriteAgreed, WriteMessage,
                WriteFailed, Look, Refresh, Cancel
  <2>2. \A k \in Task : status'[k] = "running" => status[k] = "running"
    BY <1>t, <1>7 DEF Proceed, Await, Resolve, Apply, WriteTask, TaskAfter, WriteAgreed,
                      WriteMessage, WriteFailed, Look, Refresh, Cancel, rows
  <2> QED BY <2>1, <2>2 DEF RunningIsWorkedOn
<1>8. ASSUME NEW k \in Task, Claim(k) PROVE RunningIsWorkedOn'
  BY <1>t, <1>8 DEF Claim, RunningIsWorkedOn, Idle
<1>9. CASE Load
  <2>1. worker \in Working
    BY <1>9 DEF Load, TypeOK, Idle
  <2>2. worker'.task = worker.task /\ worker'.stage = "run"
    BY <1>9, <2>1 DEF Load, Working
  <2> QED BY <1>9, <2>2 DEF Load, rows, RunningIsWorkedOn, Idle
<1>10. CASE Finish
  BY <1>t, <1>10 DEF Finish, RunningIsWorkedOn
<1>11. CASE Restart
  BY <1>t, <1>11 DEF Restart, Interrupted, RunningIsWorkedOn
<1>12. CASE UNCHANGED vars
  BY <1>12 DEF vars, rows, RunningIsWorkedOn
<1> QED BY <1>1, <1>2, <1>3, <1>4, <1>5, <1>6, <1>7, <1>8, <1>9, <1>10, <1>11, <1>12 DEF Next

\* Only the worker's own task is ever running, after any number of restarts and
\* late writes: a restart leaves no task behind that says it runs.
THEOREM RunningTheorem == Spec => []RunningIsWorkedOn
<1>1. Init => RunningIsWorkedOn
  BY DEF Init, RunningIsWorkedOn, Item
<1> QED BY <1>1, TypeInit, TypeStep, RunningStep, PTL DEF Spec
=================================================================================
