------------------------- MODULE RunLifecycleProofs -------------------------
(***************************************************************************)
(* Theorems about RunLifecycle for every set of runs, workers and          *)
(* requests, whatever requests are sent and processes die.                 *)
(***************************************************************************)
EXTENDS RunLifecycle, TLAPS

Typed == TypeOK /\ WorkersOK

USE RunsAssumption, NoneAssumption, OpKindsAssumption, TimedRunsAssumption,
    BoundsAssumption, SwitchAssumption

\* What a request writes is a status of a run.
LEMMA OutcomeIsStatus ==
    ASSUME NEW op \in OpKinds, NEW s \in Statuses
    PROVE  Outcome(op, s) \in Statuses
BY DEF Outcome, PauseOf, ResumeOf, CancelOf, Statuses, Terminal

\* Only a resume writes `queued`.
LEMMA OnlyResumeQueues ==
    ASSUME NEW op \in OpKinds, NEW s \in Statuses, Outcome(op, s) = "queued"
    PROVE  s = "queued" \/ op = "resume"
BY DEF Outcome, PauseOf, ResumeOf, CancelOf, Statuses, Terminal

LEMMA TypedInit == Init => Typed
BY DEF Init, Typed, TypeOK, WorkersOK, Statuses, Terminal, Places, Unheld, Working

\* Submissions and requests leave the workers alone.
LEMMA TypedRequests ==
    ASSUME Typed,
           \/ \E r \in Runs : SubmitRun(r)
           \/ \E q \in Requests : RequestStep(q)
    PROVE  Typed'
<1> USE DEF Typed
<1>1. CASE \E r \in Runs : SubmitRun(r)
  <2>1. PICK r \in Runs : SubmitRun(r) BY <1>1
  <2>2. order' \in Seq(Runs) BY <2>1 DEF SubmitRun, TypeOK
  <2> QED
    BY <2>1, <2>2 DEF SubmitRun, TypeOK, WorkersOK, workVars, histVars, Statuses
<1>2. CASE \E q \in Requests, op \in OpKinds, r \in Runs : ReadRow(q, op, r)
  BY <1>2 DEF ReadRow, TypeOK, WorkersOK, runVars, workVars, histVars
<1>3. CASE \E q \in Requests : CommitRow(q)
  <2>1. PICK q \in Requests : CommitRow(q) BY <1>3
  <2>2. request[q] \in [op : OpKinds, run : Runs, read : Statuses]
    BY <2>1 DEF CommitRow, TypeOK
  <2>3. Outcome(request[q].op, request[q].read) \in Statuses
    BY <2>2, OutcomeIsStatus
  <2>4. status' \in [Runs -> Statuses]
    <3>1. \/ status' = status
          \/ status' = [status EXCEPT ![request[q].run] =
                           Outcome(request[q].op, request[q].read)]
      BY <2>1, Zenon DEF CommitRow
    <3> QED BY <2>2, <2>3, <3>1 DEF TypeOK
  <2>5. requeues' \in [Runs -> Nat]
    BY <2>1, <2>2 DEF CommitRow, TypeOK
  <2>6. request' \in [Requests -> [op : OpKinds, run : Runs, read : Statuses]
                                     \union {None}]
    BY <2>1 DEF CommitRow, TypeOK
  <2>7. stale' \in [Runs -> BOOLEAN]
    <3>1. PICK b \in BOOLEAN :
             stale' = [stale EXCEPT ![request[q].run] = b] \/ stale' = stale
      BY <2>1 DEF CommitRow
    <3> QED BY <2>2, <3>1 DEF TypeOK
  <2>8. UNCHANGED <<order, saved, workVars, orphan, late>>
    BY <2>1 DEF CommitRow
  <2> QED BY <2>4, <2>5, <2>6, <2>7, <2>8 DEF TypeOK, WorkersOK, workVars
<1> QED BY <1>1, <1>2, <1>3 DEF RequestStep

\* The frame of a step of worker w: the other workers stay where they are, so
\* only what becomes of w is to be shown.
LEMMA WorkersFrame ==
    ASSUME TypeOK, WorkersOK, NEW w \in Workers,
           \A v \in Workers \ {w} :
               pc'[v] = pc[v] /\ held'[v] = held[v] /\ local'[v] = local[v],
           pc'[w] \in Unheld <=> held'[w] = None,
           pc'[w] \in Working => local'[w] \in Progress,
           pc'[w] \in Working \ {"start", "finish"} => local'[w].left > 0
    PROVE  WorkersOK'
BY DEF TypeOK, WorkersOK

\* A step of a worker, or something that befalls its process.
LEMMA TypedWorker ==
    ASSUME Typed, NEW w \in Workers, RunStep(w) \/ ProcessStep(w)
    PROVE  Typed'
<1> USE DEF Typed
<1>0. /\ pc[w] \in Places
      /\ pc[w] \notin Unheld => held[w] \in Runs
  BY DEF TypeOK, WorkersOK
<1>1. CASE SelectCandidate(w)
  BY <1>0, <1>1 DEF SelectCandidate, OldestQueued, Goto, TypeOK, WorkersOK, runVars, histVars, Working, Places, Unheld, Progress, Statuses, Terminal
<1>2. CASE Claim(w)
  <2>1. held[w] \in Runs BY <1>0, <1>2 DEF Claim, Unheld
  <2>2. TypeOK'
    BY <1>0, <2>1, <1>2 DEF Claim, Release, Goto, TypeOK, histVars, Places, Unheld, Statuses
  <2>3. CASE status[held[w]] = "queued"
    <3>1. \A v \in Workers \ {w} :
            pc'[v] = pc[v] /\ held'[v] = held[v] /\ local'[v] = local[v]
      BY <2>1, <2>3, <1>2 DEF Claim, Goto, TypeOK
    <3>2. pc'[w] \in Unheld <=> held'[w] = None
      BY <2>1, <2>3, <1>2 DEF Claim, Goto, TypeOK, Unheld
    <3>3. /\ pc'[w] \in Working => local'[w] \in Progress
          /\ pc'[w] \in Working \ {"start", "finish"} => local'[w].left > 0
      BY <2>1, <2>3, <1>2 DEF Claim, Goto, TypeOK, Working, Places, Unheld
    <3> QED BY <2>2, <3>1, <3>2, <3>3, WorkersFrame
  <2>4. CASE status[held[w]] # "queued"
    <3>1. \A v \in Workers \ {w} :
            pc'[v] = pc[v] /\ held'[v] = held[v] /\ local'[v] = local[v]
      BY <2>1, <2>4, <1>2 DEF Claim, Release, Goto, TypeOK
    <3>2. pc'[w] \in Unheld <=> held'[w] = None
      BY <2>1, <2>4, <1>2 DEF Claim, Release, Goto, TypeOK, Unheld
    <3>3. /\ pc'[w] \in Working => local'[w] \in Progress
          /\ pc'[w] \in Working \ {"start", "finish"} => local'[w].left > 0
      BY <2>1, <2>4, <1>2 DEF Claim, Release, Goto, TypeOK, Working, Places, Unheld
    <3> QED BY <2>2, <3>1, <3>2, <3>3, WorkersFrame
  <2> QED BY <2>2, <2>3, <2>4
<1>3. CASE LoadState(w)
  <2>1. held[w] \in Runs BY <1>0, <1>3 DEF LoadState, Unheld
  <2>2. PICK state \in Progress : local' = [local EXCEPT ![w] = state]
    BY <2>1, <1>3 DEF LoadState, TypeOK, Fresh, Progress
  <2>3. TypeOK'
    BY <2>2, <1>3 DEF LoadState, Goto, TypeOK, runVars, histVars, Places, Unheld
  <2>4. WorkersOK'
    BY <2>1, <2>2, <1>3, WorkersFrame
    DEF LoadState, Goto, TypeOK, Working, Places, Unheld
  <2> QED BY <2>3, <2>4
<1>4. CASE StartRun(w)
  BY <1>0, <1>4 DEF StartRun, NextPlace, Goto, TypeOK, WorkersOK, runVars, histVars, Working, Places, Unheld, Progress, Statuses, Terminal
<1>5. CASE CheckControl(w)
  <2>1. held[w] \in Runs BY <1>0, <1>5 DEF CheckControl, Unheld
  <2>2. PICK place \in {"cancel", "park", "wait_again", "step", "expire"} :
           pc' = [pc EXCEPT ![w] = place]
    BY <1>5 DEF CheckControl, Goto, ControlPlace
  <2>3. UNCHANGED <<runVars, held, local, stop, request, histVars>>
    BY <1>5 DEF CheckControl
  <2>4. local[w] \in Progress /\ local[w].left > 0
    BY <1>5 DEF CheckControl, WorkersOK, Working, Places, Unheld
  <2>5. TypeOK'
    BY <2>1, <2>2, <2>3 DEF TypeOK, runVars, histVars, Places, Unheld
  <2>6. WorkersOK'
    BY <2>1, <2>2, <2>3, <2>4, WorkersFrame
    DEF TypeOK, Working, Places, Unheld
  <2> QED BY <2>5, <2>6
<1>6. CASE ExpireRun(w)
  BY <1>0, <1>6 DEF ExpireRun, EndRun, Release, Goto, TypeOK, WorkersOK, runVars, histVars, Working, Places, Unheld, Progress, Statuses, Terminal
<1>7. CASE CancelRun(w)
  BY <1>0, <1>7 DEF CancelRun, EndRun, Release, Goto, TypeOK, WorkersOK, runVars, histVars, Working, Places, Unheld, Progress, Statuses, Terminal
<1>8. CASE Park(w)
  BY <1>0, <1>8 DEF Park, Goto, TypeOK, WorkersOK, runVars, histVars, Working, Places, Unheld, Progress, Statuses, Terminal
<1>9. CASE Poll(w)
  <2>1. held[w] \in Runs BY <1>0, <1>9 DEF Poll, Unheld
  <2>2. PICK place \in {"cancel", "unpark"} : pc' = [pc EXCEPT ![w] = place]
    BY <1>9 DEF Poll, Goto
  <2>3. UNCHANGED <<runVars, held, local, stop, request, histVars>>
    BY <1>9 DEF Poll
  <2>4. local[w] \in Progress /\ local[w].left > 0
    BY <1>9 DEF Poll, WorkersOK, Working, Places, Unheld
  <2>5. TypeOK'
    BY <2>2, <2>3 DEF TypeOK, runVars, histVars, Places
  <2>6. WorkersOK'
    <3>1. \A v \in Workers \ {w} :
            pc'[v] = pc[v] /\ held'[v] = held[v] /\ local'[v] = local[v]
      BY <2>1, <2>2, <2>3, <2>4 DEF runVars, TypeOK
    <3>2. pc'[w] \in Unheld <=> held'[w] = None
      BY <2>1, <2>2, <2>3, <2>4 DEF runVars, TypeOK, Unheld
    <3>3. /\ pc'[w] \in Working => local'[w] \in Progress
          /\ pc'[w] \in Working \ {"start", "finish"} => local'[w].left > 0
      BY <2>1, <2>2, <2>3, <2>4 DEF runVars, TypeOK, Working, Places, Unheld
    <3> QED BY <3>1, <3>2, <3>3, WorkersFrame
  <2> QED BY <2>5, <2>6
<1>10. CASE Unpark(w)
  BY <1>0, <1>10 DEF Unpark, Goto, TypeOK, WorkersOK, runVars, histVars, Working, Places, Unheld, Progress, Statuses, Terminal
<1>11. CASE LeavePark(w)
  BY <1>0, <1>11 DEF LeavePark, Release, Goto, TypeOK, WorkersOK, runVars, histVars, Working, Places, Unheld, Progress, Statuses, Terminal
<1>12. CASE BeginNode(w)
  <2>1. held[w] \in Runs BY <1>0, <1>12 DEF BeginNode, Unheld
  <2>2. late' \in [Runs -> 0..2]
    <3>1. late \in [Runs -> 0..2] /\ late[held[w]] \in 0..2
      BY <2>1 DEF TypeOK
    <3>2. \/ late' = late
          \/ late[held[w]] < 2 /\ late' = [late EXCEPT ![held[w]] = late[held[w]] + 1]
      BY <1>12 DEF BeginNode
    <3> QED BY <3>1, <3>2
  <2>3. pc' = [pc EXCEPT ![w] = "exec"]
    BY <1>12 DEF BeginNode, Goto
  <2>4. UNCHANGED <<runVars, held, local, stop, request, requeues, orphan, stale>>
    BY <1>12 DEF BeginNode
  <2>5. local[w] \in Progress /\ local[w].left > 0
    BY <1>12 DEF BeginNode, WorkersOK, Working, Places, Unheld
  <2>6. TypeOK'
    BY <2>2, <2>3, <2>4 DEF TypeOK, runVars, Places
  <2>7. WorkersOK'
    <3>1. \A v \in Workers \ {w} :
            pc'[v] = pc[v] /\ held'[v] = held[v] /\ local'[v] = local[v]
      BY <2>1, <2>3, <2>4, <2>5 DEF runVars, TypeOK
    <3>2. pc'[w] \in Unheld <=> held'[w] = None
      BY <2>1, <2>3, <2>4, <2>5 DEF runVars, TypeOK, Unheld
    <3>3. /\ pc'[w] \in Working => local'[w] \in Progress
          /\ pc'[w] \in Working \ {"start", "finish"} => local'[w].left > 0
      BY <2>1, <2>3, <2>4, <2>5 DEF runVars, TypeOK, Working, Places, Unheld
    <3> QED BY <3>1, <3>2, <3>3, WorkersFrame
  <2> QED BY <2>6, <2>7
<1>13. CASE NodeSucceeds(w)
  <2> DEFINE state == [left |-> local[w].left - 1, tries |-> 0]
  <2>1. held[w] \in Runs BY <1>0, <1>13 DEF NodeSucceeds, Unheld
  <2>2. local[w] \in Progress /\ local[w].left > 0
    BY <1>13 DEF NodeSucceeds, WorkersOK, Working, Places, Unheld
  <2>3. state \in Progress BY <2>2 DEF Progress
  <2>4. /\ local' = [local EXCEPT ![w] = state]
        /\ saved' = [saved EXCEPT ![held[w]] = state]
        /\ pc' = [pc EXCEPT ![w] = NextPlace(state.left)]
        /\ UNCHANGED <<status, order, held, stop, request, histVars>>
    BY <1>13 DEF NodeSucceeds, Goto
  <2>5. /\ NextPlace(state.left) \in {"finish", "control"}
        /\ NextPlace(state.left) = "control" => state.left > 0
    BY <2>2 DEF NextPlace, Progress
  <2> HIDE DEF state
  <2>6. TypeOK'
    BY <2>1, <2>3, <2>4, <2>5 DEF TypeOK, histVars, Places
  <2>7. WorkersOK'
    BY <2>1, <2>3, <2>4, <2>5, WorkersFrame DEF TypeOK, Working, Places, Unheld
  <2> QED BY <2>6, <2>7
<1>14. CASE NodeFails(w)
  <2>1. held[w] \in Runs BY <1>0, <1>14 DEF NodeFails, Unheld
  <2>2. local[w] \in Progress /\ local[w].left > 0
    BY <1>14 DEF NodeFails, WorkersOK, Working, Places, Unheld
  <2>3. CASE local[w].tries + 1 < MaxAttempts
    <3> DEFINE state == [local[w] EXCEPT !.tries = @ + 1]
    <3>1. state \in Progress /\ state.left > 0 BY <2>2, <2>3 DEF Progress
    <3>2. /\ local' = [local EXCEPT ![w] = state]
          /\ saved' = [saved EXCEPT ![held[w]] = state]
          /\ pc' = [pc EXCEPT ![w] = "control"]
          /\ UNCHANGED <<status, order, held, stop, request, histVars>>
      BY <2>3, <1>14 DEF NodeFails, Goto
    <3> HIDE DEF state
    <3>3. TypeOK'
      BY <3>1, <3>2 DEF TypeOK, histVars, Places
    <3>4. WorkersOK'
      BY <2>1, <3>1, <3>2, WorkersFrame DEF TypeOK, Working, Places, Unheld
    <3> QED BY <3>3, <3>4
  <2>4. CASE ~(local[w].tries + 1 < MaxAttempts)
    <3>1. /\ pc' = [pc EXCEPT ![w] = "fail"]
          /\ UNCHANGED <<local, saved, status, order, held, stop, request, histVars>>
      BY <2>4, <1>14 DEF NodeFails, Goto
    <3>2. TypeOK' BY <3>1 DEF TypeOK, histVars, Places
    <3>3. WorkersOK'
      BY <2>1, <2>2, <3>1, WorkersFrame DEF TypeOK, Working, Places, Unheld
    <3> QED BY <3>2, <3>3
  <2> QED BY <2>3, <2>4
<1>15. CASE NodeWaits(w)
  BY <1>0, <1>15 DEF NodeWaits, Goto, TypeOK, WorkersOK, runVars, histVars, Working, Places, Unheld, Progress, Statuses, Terminal
<1>16. CASE WaitForHuman(w)
  BY <1>0, <1>16 DEF WaitForHuman, Goto, TypeOK, WorkersOK, runVars, histVars, Working, Places, Unheld, Progress, Statuses, Terminal
<1>17. CASE SaveWaiting(w)
  BY <1>0, <1>17 DEF SaveWaiting, Release, Goto, TypeOK, WorkersOK, runVars, histVars, Working, Places, Unheld, Progress, Statuses, Terminal
<1>18. CASE FailRun(w)
  BY <1>0, <1>18 DEF FailRun, EndRun, Release, Goto, TypeOK, WorkersOK, runVars, histVars, Working, Places, Unheld, Progress, Statuses, Terminal
<1>19. CASE SucceedRun(w)
  BY <1>0, <1>19 DEF SucceedRun, EndRun, Release, Goto, TypeOK, WorkersOK, runVars, histVars, Working, Places, Unheld, Progress, Statuses, Terminal
<1>20. CASE StopWorker(w)
  BY <1>0, <1>20 DEF StopWorker, Goto, TypeOK, WorkersOK, runVars, histVars, Working, Places, Unheld, Progress, Statuses, Terminal
<1>21. CASE Shutdown(w)
  BY <1>0, <1>21 DEF Shutdown, Goto, TypeOK, WorkersOK, runVars, histVars, Working, Places, Unheld, Progress, Statuses, Terminal
<1>22. CASE Crash(w)
  BY <1>0, <1>22 DEF Crash, Goto, TypeOK, WorkersOK, runVars, histVars, Working, Places, Unheld, Progress, Statuses, Terminal
<1>23. CASE RestartWorker(w)
  BY <1>0, <1>23 DEF RestartWorker, Goto, TypeOK, WorkersOK, runVars, histVars, Working, Places, Unheld, Progress, Statuses, Terminal
<1> QED BY <1>1, <1>2, <1>3, <1>4, <1>5, <1>6, <1>7, <1>8, <1>9, <1>10, <1>11, <1>12, <1>13, <1>14, <1>15, <1>16, <1>17, <1>18, <1>19, <1>20, <1>21, <1>22, <1>23 DEF RunStep, ProcessStep

LEMMA TypedStep == Typed /\ [Next]_vars => Typed'
<1>1. CASE Typed /\ Next
  BY <1>1, TypedRequests, TypedWorker DEF Next
<1>2. CASE Typed /\ UNCHANGED vars
  BY <1>2 DEF vars, runVars, workVars, histVars, Typed, TypeOK, WorkersOK
<1> QED BY <1>1, <1>2

(***************************************************************************)
(* Every reachable state is well typed, and every worker has the run, the  *)
(* queue and the node that its place in the program needs.                 *)
(***************************************************************************)
THEOREM TypeCorrect == Spec => []TypeOK
<1>1. Init => Typed BY TypedInit
<1> QED BY <1>1, TypedStep, PTL DEF Spec, Typed

-----------------------------------------------------------------------------
(* One worker per run until it is resumed                                  *)

Exclusive == ExclusiveUntilRequeued /\ UnclaimedIsUnheld

\* A request that changes a status never makes a run absent.
LEMMA NoRunVanishes ==
    ASSUME NEW op \in OpKinds, NEW s \in Statuses, Outcome(op, s) # s
    PROVE  Outcome(op, s) # "absent"
BY DEF Outcome, PauseOf, ResumeOf, CancelOf, Statuses, Terminal

\* A step that gives no worker a run, and puts no run in the queue, keeps the
\* workers exclusive.
LEMMA QuietStep ==
    ASSUME Exclusive,
           UNCHANGED requeues,
           \A v \in Workers, r \in Runs : Holds(v, r)' => Holds(v, r),
           \A r \in Runs :
               status'[r] \in {"absent", "queued"} => status'[r] = status[r]
    PROVE  Exclusive'
BY DEF Exclusive, ExclusiveUntilRequeued, UnclaimedIsUnheld

\* No step of a worker but its claim gives it a run.
LEMMA QuietWorker ==
    ASSUME Typed, Exclusive, NEW w \in Workers,
           RunStep(w) \/ ProcessStep(w), ~Claim(w)
    PROVE  Exclusive'
<1> DEFINE Quiet ==
        /\ UNCHANGED requeues
        /\ \A v \in Workers, r \in Runs : Holds(v, r)' => Holds(v, r)
        /\ \A r \in Runs :
               status'[r] \in {"absent", "queued"} => status'[r] = status[r]
<1>0. /\ pc \in [Workers -> Places] /\ held \in [Workers -> Runs \union {None}]
      /\ status \in [Runs -> Statuses]
      /\ pc[w] \notin Unheld => held[w] \in Runs
      /\ pc[w] \in Unheld => held[w] = None
  BY DEF Typed, TypeOK, WorkersOK
<1>1. CASE SelectCandidate(w)
  BY <1>0, <1>1, QuietStep
  DEF SelectCandidate, Goto, Holds, runVars, histVars, Unheld
<1>2. CASE LoadState(w)
  <2> Quiet
    BY <1>0, <1>2 DEF LoadState, Goto, Holds, runVars, histVars, Unheld
  <2> QED BY QuietStep
<1>3. CASE StartRun(w)
  <2> Quiet
    BY <1>0, <1>3 DEF StartRun, Goto, Holds, runVars, histVars, Unheld
  <2> QED BY QuietStep
<1>4. CASE CheckControl(w)
  <2> Quiet
    BY <1>0, <1>4 DEF CheckControl, Goto, Holds, runVars, histVars, Unheld
  <2> QED BY QuietStep
<1>5. CASE ExpireRun(w)
  <2> Quiet
    BY <1>0, <1>5 DEF ExpireRun, EndRun, Release, Goto, Holds, runVars, histVars, Unheld
  <2> QED BY QuietStep
<1>6. CASE CancelRun(w)
  <2> Quiet
    BY <1>0, <1>6 DEF CancelRun, EndRun, Release, Goto, Holds, runVars, histVars, Unheld
  <2> QED BY QuietStep
<1>7. CASE Park(w)
  <2> Quiet
    BY <1>0, <1>7 DEF Park, Goto, Holds, runVars, histVars, Unheld
  <2> QED BY QuietStep
<1>8. CASE Poll(w)
  <2> Quiet
    BY <1>0, <1>8 DEF Poll, Goto, Holds, runVars, histVars, Unheld
  <2> QED BY QuietStep
<1>9. CASE Unpark(w)
  <2> Quiet
    BY <1>0, <1>9 DEF Unpark, Goto, Holds, runVars, histVars, Unheld
  <2> QED BY QuietStep
<1>10. CASE LeavePark(w)
  <2> Quiet
    BY <1>0, <1>10 DEF LeavePark, Release, Goto, Holds, runVars, histVars, Unheld
  <2> QED BY QuietStep
<1>11. CASE BeginNode(w)
  <2> Quiet
    BY <1>0, <1>11 DEF BeginNode, Goto, Holds, runVars, histVars, Unheld
  <2> QED BY QuietStep
<1>12. CASE NodeSucceeds(w)
  <2> Quiet
    BY <1>0, <1>12 DEF NodeSucceeds, Goto, Holds, runVars, histVars, Unheld
  <2> QED BY QuietStep
<1>13. CASE NodeFails(w)
  <2> Quiet
    BY <1>0, <1>13 DEF NodeFails, Goto, Holds, runVars, histVars, Unheld
  <2> QED BY QuietStep
<1>14. CASE NodeWaits(w)
  <2> Quiet
    BY <1>0, <1>14 DEF NodeWaits, Goto, Holds, runVars, histVars, Unheld
  <2> QED BY QuietStep
<1>15. CASE WaitForHuman(w)
  <2> Quiet
    BY <1>0, <1>15 DEF WaitForHuman, Goto, Holds, runVars, histVars, Unheld
  <2> QED BY QuietStep
<1>16. CASE SaveWaiting(w)
  <2> Quiet
    BY <1>0, <1>16 DEF SaveWaiting, Release, Goto, Holds, runVars, histVars, Unheld
  <2> QED BY QuietStep
<1>17. CASE FailRun(w)
  <2> Quiet
    BY <1>0, <1>17 DEF FailRun, EndRun, Release, Goto, Holds, runVars, histVars, Unheld
  <2> QED BY QuietStep
<1>18. CASE SucceedRun(w)
  <2> Quiet
    BY <1>0, <1>18 DEF SucceedRun, EndRun, Release, Goto, Holds, runVars, histVars, Unheld
  <2> QED BY QuietStep
<1>19. CASE StopWorker(w)
  <2> Quiet
    BY <1>0, <1>19 DEF StopWorker, Goto, Holds, runVars, histVars, Unheld
  <2> QED BY QuietStep
<1>20. CASE Shutdown(w)
  <2> Quiet
    BY <1>0, <1>20 DEF Shutdown, Goto, Holds, runVars, histVars, Unheld
  <2> QED BY QuietStep
<1>21. CASE Crash(w)
  <2> Quiet
    BY <1>0, <1>21 DEF Crash, Goto, Holds, runVars, histVars, Unheld
  <2> QED BY QuietStep
<1>22. CASE RestartWorker(w)
  <2> Quiet
    BY <1>0, <1>22 DEF RestartWorker, Goto, Holds, runVars, histVars, Unheld
  <2> QED BY QuietStep
<1> QED
  BY <1>1, <1>2, <1>3, <1>4, <1>5, <1>6, <1>7, <1>8, <1>9, <1>10, <1>11, <1>12, <1>13, <1>14, <1>15, <1>16, <1>17, <1>18, <1>19, <1>20, <1>21, <1>22
  DEF RunStep, ProcessStep

\* A claim takes a queued run, which nobody holds if it was never requeued.
LEMMA ExclusiveClaim ==
    ASSUME Typed, Exclusive, NEW w \in Workers, Claim(w)
    PROVE  Exclusive'
<1>1. held[w] \in Runs
  BY DEF Claim, Typed, TypeOK, WorkersOK, Unheld
<1>2. CASE status[held[w]] = "queued"
  <2>1. \A v \in Workers, r \in Runs :
           Holds(v, r)' => Holds(v, r) \/ (v = w /\ r = held[w])
    BY <1>2 DEF Claim, Goto, Holds, Typed, TypeOK
  <2>2. /\ status' = [status EXCEPT ![held[w]] = "running"]
        /\ UNCHANGED requeues
    BY <1>2 DEF Claim, histVars
  <2>3. requeues[held[w]] = 0 => \A v \in Workers : ~Holds(v, held[w])
    BY <1>1, <1>2 DEF Exclusive, UnclaimedIsUnheld
  <2>4. ExclusiveUntilRequeued'
    BY <2>1, <2>2, <2>3 DEF Exclusive, ExclusiveUntilRequeued
  <2>5. UnclaimedIsUnheld'
    BY <1>1, <2>1, <2>2 DEF Exclusive, UnclaimedIsUnheld, Typed, TypeOK
  <2> QED BY <2>4, <2>5 DEF Exclusive
<1>3. CASE status[held[w]] # "queued"
  <2>1. \A v \in Workers, r \in Runs : Holds(v, r)' => Holds(v, r)
    BY <1>3 DEF Claim, Release, Goto, Holds, Typed, TypeOK
  <2> QED BY <1>3, <2>1, QuietStep DEF Claim, histVars
<1> QED BY <1>2, <1>3

\* A request that puts a run back in the queue counts as a requeue of it.
LEMMA ExclusiveRequests ==
    ASSUME Typed, Exclusive,
           \/ \E r \in Runs : SubmitRun(r)
           \/ \E q \in Requests : RequestStep(q)
    PROVE  Exclusive'
<1>1. UNCHANGED <<pc, held>>
  BY DEF SubmitRun, RequestStep, ReadRow, CommitRow, workVars
<1>2. \A v \in Workers, r \in Runs : Holds(v, r)' <=> Holds(v, r)
  BY <1>1 DEF Holds
<1>3. CASE \E r \in Runs : SubmitRun(r)
  BY <1>2, <1>3
  DEF SubmitRun, Exclusive, ExclusiveUntilRequeued, UnclaimedIsUnheld, histVars,
      Typed, TypeOK
<1>4. CASE \E q \in Requests, op \in OpKinds, r \in Runs : ReadRow(q, op, r)
  BY <1>2, <1>4, QuietStep DEF ReadRow, runVars, histVars
<1>5. CASE \E q \in Requests : CommitRow(q)
  <2>1. PICK q \in Requests : CommitRow(q) BY <1>5
  <2> DEFINE run == request[q].run
             new == Outcome(request[q].op, request[q].read)
  <2>2. /\ request[q] \in [op : OpKinds, run : Runs, read : Statuses]
        /\ requeues \in [Runs -> Nat] /\ status \in [Runs -> Statuses]
    BY <2>1 DEF CommitRow, Typed, TypeOK
  <2>3. CASE ~Writes(request[q])
    BY <1>2, <2>1, <2>3, QuietStep DEF CommitRow
  <2>4. CASE Writes(request[q]) /\ new # "queued"
    <3>1. status' = [status EXCEPT ![run] = new] /\ UNCHANGED requeues
      BY <2>1, <2>4 DEF CommitRow
    <3>2. new # "absent"
      BY <2>2, <2>4, NoRunVanishes DEF Writes
    <3> HIDE DEF new
    <3> QED BY <1>2, <2>2, <2>4, <3>1, <3>2, QuietStep
  <2>5. CASE Writes(request[q]) /\ new = "queued"
    <3>1. /\ status' = [status EXCEPT ![run] = "queued"]
          /\ requeues' = [requeues EXCEPT ![run] = requeues[run] + 1]
      BY <2>1, <2>5 DEF CommitRow
    <3>2. /\ \A r \in Runs : requeues'[r] = 0 => requeues[r] = 0 /\ r # run
          /\ \A r \in Runs \ {run} : status'[r] = status[r]
          /\ status'[run] # "absent" /\ requeues'[run] # 0
      BY <2>2, <3>1
    <3>3. ExclusiveUntilRequeued'
      BY <1>2, <3>2 DEF Exclusive, ExclusiveUntilRequeued
    <3>4. UnclaimedIsUnheld'
      <4> SUFFICES ASSUME NEW r \in Runs,
                          \/ status'[r] = "absent"
                          \/ status'[r] = "queued" /\ requeues'[r] = 0
                   PROVE  \A w \in Workers : ~Holds(w, r)
        BY <1>2 DEF UnclaimedIsUnheld
      <4>1. r # run /\ status[r] = status'[r] BY <3>2
      <4> QED BY <4>1, <3>2 DEF Exclusive, UnclaimedIsUnheld
    <3> QED BY <3>3, <3>4 DEF Exclusive
  <2> QED BY <2>3, <2>4, <2>5
<1> QED BY <1>3, <1>4, <1>5 DEF RequestStep

LEMMA ExclusiveStep == Typed /\ Exclusive /\ [Next]_vars => Exclusive'
<1>1. CASE Typed /\ Exclusive /\ Next
  BY <1>1, ExclusiveRequests, ExclusiveClaim, QuietWorker DEF Next
<1>2. CASE Exclusive /\ UNCHANGED vars
  BY <1>2, QuietStep DEF vars, runVars, workVars, histVars, Holds
<1> QED BY <1>1, <1>2

(***************************************************************************)
(* Until a resume has put a run back in the queue, at most one worker      *)
(* executes it.  The claim is what makes it so: ExclusiveUntilRequeued is  *)
(* not inductive by itself, because it does not say that a queued run is   *)
(* free, which UnclaimedIsUnheld adds.                                     *)
(***************************************************************************)
THEOREM ExclusiveExecution == Spec => []ExclusiveUntilRequeued
<1>1. Init => Typed BY TypedInit
<1>2. Init => Exclusive
  BY NoneAssumption
  DEF Init, Exclusive, ExclusiveUntilRequeued, UnclaimedIsUnheld, Holds
<1> QED BY <1>1, <1>2, TypedStep, ExclusiveStep, PTL DEF Spec, Exclusive

-----------------------------------------------------------------------------
(* A run that is active has a worker                                       *)

Active == {"running", "pause_requested", "cancelling"}

\* Worker w is at work on run r and not about to leave it or polling for it.
Engaged(w, r) == Holds(w, r) /\ pc[w] \notin {"parked", "save_wait"}

Attended ==
    \A r \in Runs : status[r] \in Active =>
        stale[r] \/ orphan[r] \/ \E w \in Workers : Engaged(w, r)

\* A step keeps runs attended when it leaves no active run without its
\* worker, and makes no run active without giving it one.
AttendedStep ==
    \A r \in Runs :
        /\ stale[r] => stale'[r]
        /\ orphan[r] => orphan'[r]
        /\ status'[r] \in Active =>
               \/ stale'[r]
               \/ \E w \in Workers : Engaged(w, r)'
               \/ /\ status[r] \in Active
                  /\ \A w \in Workers : Engaged(w, r) => Engaged(w, r)' \/ orphan'[r]

LEMMA AttendedFrame ==
    ASSUME Attended, AttendedStep
    PROVE  Attended'
BY DEF Attended, AttendedStep

LEMMA AttendedWorker ==
    ASSUME Typed, Attended, NEW w \in Workers, RunStep(w) \/ ProcessStep(w)
    PROVE  Attended'
<1>0. /\ pc \in [Workers -> Places] /\ held \in [Workers -> Runs \union {None}]
      /\ status \in [Runs -> Statuses]
      /\ pc[w] \notin Unheld => held[w] \in Runs
      /\ pc[w] \in Unheld => held[w] = None
  BY DEF Typed, TypeOK, WorkersOK
<1>1. CASE SelectCandidate(w)
  <2> AttendedStep
    BY <1>0, <1>1 DEF SelectCandidate, Goto, AttendedStep, Active, Engaged, Holds, runVars, histVars, Unheld, Terminal
  <2> QED BY AttendedFrame
<1>2. CASE Claim(w)
  <2> AttendedStep
    BY <1>0, <1>2 DEF Claim, Release, Goto, AttendedStep, Active, Engaged, Holds, runVars, histVars, Unheld, Terminal
  <2> QED BY AttendedFrame
<1>3. CASE LoadState(w)
  <2> AttendedStep
    BY <1>0, <1>3 DEF LoadState, Goto, AttendedStep, Active, Engaged, Holds, runVars, histVars, Unheld, Terminal
  <2> QED BY AttendedFrame
<1>4. CASE StartRun(w)
  <2> AttendedStep
    BY <1>0, <1>4 DEF StartRun, Goto, NextPlace, AttendedStep, Active, Engaged, Holds, runVars, histVars, Unheld, Terminal
  <2> QED BY AttendedFrame
<1>5. CASE CheckControl(w)
  <2> AttendedStep
    BY <1>0, <1>5 DEF CheckControl, Goto, ControlPlace, AttendedStep, Active, Engaged, Holds, runVars, histVars, Unheld, Terminal
  <2> QED BY AttendedFrame
<1>6. CASE ExpireRun(w)
  <2> AttendedStep
    BY <1>0, <1>6 DEF ExpireRun, EndRun, Release, Goto, AttendedStep, Active, Engaged, Holds, runVars, histVars, Unheld, Terminal
  <2> QED BY AttendedFrame
<1>7. CASE CancelRun(w)
  <2> AttendedStep
    BY <1>0, <1>7 DEF CancelRun, EndRun, Release, Goto, AttendedStep, Active, Engaged, Holds, runVars, histVars, Unheld, Terminal
  <2> QED BY AttendedFrame
<1>8. CASE Park(w)
  <2> AttendedStep
    BY <1>0, <1>8 DEF Park, Goto, AttendedStep, Active, Engaged, Holds, runVars, histVars, Unheld, Terminal
  <2> QED BY AttendedFrame
<1>9. CASE Poll(w)
  <2> AttendedStep
    BY <1>0, <1>9 DEF Poll, Goto, AttendedStep, Active, Engaged, Holds, runVars, histVars, Unheld, Terminal
  <2> QED BY AttendedFrame
<1>10. CASE Unpark(w)
  <2> AttendedStep
    BY <1>0, <1>10 DEF Unpark, Goto, AttendedStep, Active, Engaged, Holds, runVars, histVars, Unheld, Terminal
  <2> QED BY AttendedFrame
<1>11. CASE LeavePark(w)
  <2> AttendedStep
    BY <1>0, <1>11 DEF LeavePark, Release, Goto, AttendedStep, Active, Engaged, Holds, runVars, histVars, Unheld, Terminal
  <2> QED BY AttendedFrame
<1>12. CASE BeginNode(w)
  <2> AttendedStep
    BY <1>0, <1>12 DEF BeginNode, Goto, AttendedStep, Active, Engaged, Holds, runVars, histVars, Unheld, Terminal
  <2> QED BY AttendedFrame
<1>13. CASE NodeSucceeds(w)
  <2> AttendedStep
    BY <1>0, <1>13 DEF NodeSucceeds, Goto, NextPlace, AttendedStep, Active, Engaged, Holds, runVars, histVars, Unheld, Terminal
  <2> QED BY AttendedFrame
<1>14. CASE NodeFails(w)
  <2> AttendedStep
    BY <1>0, <1>14 DEF NodeFails, Goto, AttendedStep, Active, Engaged, Holds, runVars, histVars, Unheld, Terminal
  <2> QED BY AttendedFrame
<1>15. CASE NodeWaits(w)
  <2> AttendedStep
    BY <1>0, <1>15 DEF NodeWaits, Goto, AttendedStep, Active, Engaged, Holds, runVars, histVars, Unheld, Terminal
  <2> QED BY AttendedFrame
<1>16. CASE WaitForHuman(w)
  <2> AttendedStep
    BY <1>0, <1>16 DEF WaitForHuman, Goto, AttendedStep, Active, Engaged, Holds, runVars, histVars, Unheld, Terminal
  <2> QED BY AttendedFrame
<1>17. CASE SaveWaiting(w)
  <2> AttendedStep
    BY <1>0, <1>17 DEF SaveWaiting, Release, Goto, AttendedStep, Active, Engaged, Holds, runVars, histVars, Unheld, Terminal
  <2> QED BY AttendedFrame
<1>18. CASE FailRun(w)
  <2> AttendedStep
    BY <1>0, <1>18 DEF FailRun, EndRun, Release, Goto, AttendedStep, Active, Engaged, Holds, runVars, histVars, Unheld, Terminal
  <2> QED BY AttendedFrame
<1>19. CASE SucceedRun(w)
  <2> AttendedStep
    BY <1>0, <1>19 DEF SucceedRun, EndRun, Release, Goto, AttendedStep, Active, Engaged, Holds, runVars, histVars, Unheld, Terminal
  <2> QED BY AttendedFrame
<1>20. CASE StopWorker(w)
  <2> AttendedStep
    BY <1>0, <1>20 DEF StopWorker, Goto, AttendedStep, Active, Engaged, Holds, runVars, histVars, Unheld, Terminal
  <2> QED BY AttendedFrame
<1>21. CASE Shutdown(w)
  <2> AttendedStep
    BY <1>0, <1>21 DEF Shutdown, Goto, AttendedStep, Active, Engaged, Holds, runVars, histVars, Unheld, Terminal
  <2> QED BY AttendedFrame
<1>22. CASE Crash(w)
  <2> AttendedStep
    BY <1>0, <1>22 DEF Crash, Goto, AttendedStep, Active, Engaged, Holds, runVars, histVars, Unheld, Terminal
  <2> QED BY AttendedFrame
<1>23. CASE RestartWorker(w)
  <2> AttendedStep
    BY <1>0, <1>23 DEF RestartWorker, Goto, AttendedStep, Active, Engaged, Holds, runVars, histVars, Unheld, Terminal
  <2> QED BY AttendedFrame
<1> QED
  BY <1>1, <1>2, <1>3, <1>4, <1>5, <1>6, <1>7, <1>8, <1>9, <1>10, <1>11, <1>12, <1>13, <1>14, <1>15, <1>16, <1>17, <1>18, <1>19, <1>20, <1>21, <1>22, <1>23
  DEF RunStep, ProcessStep

\* A request makes a run active only if it read it so, or did not see that it
\* had changed.
LEMMA ActiveOutcome ==
    ASSUME NEW op \in OpKinds, NEW s \in Statuses, Outcome(op, s) \in Active
    PROVE  s \in Active
BY DEF Outcome, PauseOf, ResumeOf, CancelOf, Statuses, Terminal, Active

\* What a commit that writes does to the row of its run.
LEMMA CommitEffect ==
    ASSUME Typed, NEW q \in Requests, CommitRow(q), Writes(request[q])
    PROVE  /\ request[q].run \in Runs /\ request[q].op \in OpKinds
           /\ request[q].read \in Statuses
           /\ status' = [status EXCEPT ![request[q].run] =
                            Outcome(request[q].op, request[q].read)]
           /\ \A r \in Runs \ {request[q].run} :
                  stale'[r] = stale[r] /\ requeues'[r] = requeues[r]
           /\ stale'[request[q].run] =
                  (stale[request[q].run] \/ status[request[q].run] # request[q].read)
           /\ IF Outcome(request[q].op, request[q].read) = "queued"
              THEN requeues'[request[q].run] # 0
              ELSE requeues'[request[q].run] = requeues[request[q].run]
           /\ UNCHANGED <<pc, held, orphan, late>>
<1>1. /\ request[q] \in [op : OpKinds, run : Runs, read : Statuses]
      /\ requeues \in [Runs -> Nat] /\ stale \in [Runs -> BOOLEAN]
  BY DEF CommitRow, Typed, TypeOK
<1> DEFINE new == Outcome(request[q].op, request[q].read)
           run == request[q].run
<1>2. /\ status' = [status EXCEPT ![run] = new]
      /\ stale' = [stale EXCEPT ![run] = @ \/ status[run] # request[q].read]
      /\ IF new = "queued" THEN requeues' = [requeues EXCEPT ![run] = @ + 1]
                           ELSE UNCHANGED requeues
      /\ UNCHANGED <<pc, held, orphan, late>>
  BY DEF CommitRow, workVars
<1>3. run \in Runs BY <1>1
<1>4. stale'[run] = (stale[run] \/ status[run] # request[q].read)
  BY <1>1, <1>2, <1>3, Zenon
<1>5. \A r \in Runs \ {run} : stale'[r] = stale[r]
  BY <1>1, <1>2, <1>3, Zenon
<1> HIDE DEF new
<1>6. \A r \in Runs \ {run} : requeues'[r] = requeues[r]
  BY <1>1, <1>2, <1>3
<1>7. IF new = "queued" THEN requeues'[run] # 0 ELSE requeues'[run] = requeues[run]
  BY <1>1, <1>2, <1>3
<1> QED BY <1>1, <1>2, <1>4, <1>5, <1>6, <1>7 DEF new

\* A commit that writes nothing leaves the row alone.
LEMMA IdleCommit ==
    ASSUME NEW q \in Requests, CommitRow(q), ~Writes(request[q])
    PROVE  UNCHANGED <<status, requeues, stale, pc, held, orphan, late>>
BY DEF CommitRow, workVars

LEMMA AttendedRequests ==
    ASSUME Typed, Attended,
           \/ \E r \in Runs : SubmitRun(r)
           \/ \E q \in Requests : RequestStep(q)
    PROVE  Attended'
<1>1. UNCHANGED <<pc, held>>
  BY DEF SubmitRun, RequestStep, ReadRow, CommitRow, workVars
<1>2. \A w \in Workers, r \in Runs : Engaged(w, r)' <=> Engaged(w, r)
  BY <1>1 DEF Engaged, Holds
<1>3. CASE \E r \in Runs : SubmitRun(r)
  <2> AttendedStep
    BY <1>2, <1>3 DEF SubmitRun, AttendedStep, Active, histVars, Typed, TypeOK
  <2> QED BY AttendedFrame
<1>4. CASE \E q \in Requests, op \in OpKinds, r \in Runs : ReadRow(q, op, r)
  <2> AttendedStep
    BY <1>2, <1>4 DEF ReadRow, AttendedStep, runVars, histVars
  <2> QED BY AttendedFrame
<1>5. CASE \E q \in Requests : CommitRow(q)
  <2>1. PICK q \in Requests : CommitRow(q) BY <1>5
  <2>2. CASE ~Writes(request[q])
    <3> AttendedStep BY <1>2, <2>1, <2>2, IdleCommit DEF AttendedStep
    <3> QED BY AttendedFrame
  <2>3. CASE Writes(request[q])
    <3> DEFINE run == request[q].run
               read == request[q].read
               new == Outcome(request[q].op, read)
    <3>1. /\ run \in Runs
          /\ new \in Active => read \in Active
          /\ status' = [status EXCEPT ![run] = new]
          /\ \A r \in Runs \ {run} : stale'[r] = stale[r]
          /\ stale'[run] = (stale[run] \/ status[run] # read)
          /\ UNCHANGED orphan
      BY <2>1, <2>3, CommitEffect, ActiveOutcome
    <3> HIDE DEF run, read, new
    <3>2. status'[run] = new /\ \A r \in Runs \ {run} : status'[r] = status[r]
      BY <3>1 DEF Typed, TypeOK
    <3> AttendedStep BY <1>2, <3>1, <3>2 DEF AttendedStep
    <3> QED BY AttendedFrame
  <2> QED BY <2>2, <2>3
<1> QED BY <1>3, <1>4, <1>5 DEF RequestStep

(***************************************************************************)
(* A run that is shown as running, or was asked to pause or to cancel, has *)
(* a worker, unless its worker died or a request overwrote a status it had *)
(* not read.  The invariant says more, that one of the workers that hold   *)
(* it is neither parked nor about to leave it: the others may go.          *)
(***************************************************************************)
THEOREM ActiveRunsAreHeld == Spec => []ActiveRunHasWorker
<1>1. Init => Typed BY TypedInit
<1>2. Init => Attended
  BY DEF Init, Attended, Active
<1>3. Typed /\ Attended /\ [Next]_vars => Attended'
  <2>1. CASE Typed /\ Attended /\ Next
    BY <2>1, AttendedWorker, AttendedRequests DEF Next
  <2>2. CASE Attended /\ UNCHANGED vars
    BY <2>2 DEF vars, runVars, workVars, histVars, Attended, Engaged, Holds
  <2> QED BY <2>1, <2>2
<1>4. Attended => ActiveRunHasWorker
  BY DEF Attended, ActiveRunHasWorker, Active, Engaged
<1> QED BY <1>1, <1>2, <1>3, <1>4, TypedStep, PTL DEF Spec

-----------------------------------------------------------------------------
(* Runs that nobody resumed and no stale request wrote                     *)

\* The status of a run that worker w holds agrees with the worker's place.
Agrees(w, r) ==
    \/ pc[w] = "parked" /\ status[r] \in {"paused", "cancelled"}
    \/ pc[w] = "save_wait" /\ status[r] \in {"waiting_human", "cancelled"}
    \/ pc[w] \notin {"parked", "save_wait", "unpark", "wait_again"} /\ status[r] \in Active

Tracked ==
    \A r \in Runs : Orderly(r) => \A w \in Workers : Holds(w, r) => Agrees(w, r)

\* A run one of whose nodes started although it was to stop is never running
\* again, and its worker makes a control check before any other node.
Warned == {"pause_requested", "cancelling", "paused", "waiting_human"} \union Terminal

Unchecked == {"load", "start", "step"}

Heeded ==
    \A r \in Runs : Orderly(r) =>
        \/ late[r] = 0
        \/ /\ late[r] = 1 /\ status[r] \in Warned
           /\ \A w \in Workers : Holds(w, r) => pc[w] \notin Unchecked

Followed == Tracked /\ Heeded

\* The frame of a step of a worker that holds a run.
LEMMA FollowedFrame ==
    ASSUME Typed, Exclusive, Followed, NEW w \in Workers, NEW r \in Runs,
           Holds(w, r), UNCHANGED <<requeues, stale>>,
           \A v \in Workers \ {w} : pc'[v] = pc[v] /\ held'[v] = held[v],
           \A t \in Runs \ {r} : status'[t] = status[t] /\ late'[t] = late[t],
           \/ held'[w] = None
           \/ held'[w] = r /\ (Orderly(r) => Agrees(w, r)'),
           Orderly(r) =>
               \/ late'[r] = 0
               \/ /\ late'[r] = 1 /\ status'[r] \in Warned
                  /\ held'[w] = None \/ pc'[w] \notin Unchecked
    PROVE  Followed'
<1>1. held[w] = r BY DEF Holds
<1>2. \A t \in Runs : Orderly(t)' <=> Orderly(t) BY DEF Orderly
<1>3. Orderly(r) => \A v \in Workers \ {w} : ~Holds(v, r)
  BY DEF Orderly, Exclusive, ExclusiveUntilRequeued
<1>4. \A v \in Workers \ {w}, t \in Runs : Holds(v, t)' <=> Holds(v, t)
  BY DEF Holds
<1>5. \A t \in Runs \ {r} : ~Holds(w, t)'
  BY DEF Holds
<1>6. Tracked'
  BY <1>2, <1>3, <1>4, <1>5 DEF Followed, Tracked, Agrees, Holds
<1>7. Heeded'
  BY <1>2, <1>3, <1>4, <1>5 DEF Followed, Heeded, Holds
<1> QED BY <1>6, <1>7 DEF Followed

\* A step that moves no run and takes no worker to one.
LEMMA FollowedQuiet ==
    ASSUME Followed, UNCHANGED <<status, requeues, stale, late>>,
           \A v \in Workers, r \in Runs : Holds(v, r)' => Holds(v, r) /\ pc'[v] = pc[v]
    PROVE  Followed'
BY DEF Followed, Tracked, Heeded, Agrees, Orderly

LEMMA FollowedWorker ==
    ASSUME Typed, Exclusive, Followed, NEW w \in Workers,
           RunStep(w) \/ ProcessStep(w), ~Claim(w)
    PROVE  Followed'
<1>0. /\ pc \in [Workers -> Places] /\ held \in [Workers -> Runs \union {None}]
      /\ status \in [Runs -> Statuses] /\ late \in [Runs -> 0..2]
      /\ pc[w] \notin Unheld => held[w] \in Runs
      /\ pc[w] \in Unheld => held[w] = None
  BY DEF Typed, TypeOK, WorkersOK
<1> DEFINE r == held[w]
<1>a. pc[w] \notin Unheld \union {"claim"} => r \in Runs /\ Holds(w, r)
  BY <1>0 DEF Holds
<1>b. r \in Runs /\ Holds(w, r) /\ Orderly(r) =>
          /\ Agrees(w, r)
          /\ \/ late[r] = 0
             \/ late[r] = 1 /\ status[r] \in Warned /\ pc[w] \notin Unchecked
  BY DEF Followed, Tracked, Heeded
<1> DEFINE Frame ==
        /\ UNCHANGED <<requeues, stale>>
        /\ \A v \in Workers \ {w} : pc'[v] = pc[v] /\ held'[v] = held[v]
        /\ \A t \in Runs \ {r} : status'[t] = status[t] /\ late'[t] = late[t]
           Moved ==
        /\ \/ held'[w] = None
           \/ held'[w] = r /\ (Orderly(r) => Agrees(w, r)')
        /\ Orderly(r) =>
               \/ late'[r] = 0
               \/ /\ late'[r] = 1 /\ status'[r] \in Warned
                  /\ held'[w] = None \/ pc'[w] \notin Unchecked
           Still ==
        /\ UNCHANGED <<status, requeues, stale, late>>
        /\ \A v \in Workers, t \in Runs : Holds(v, t)' => Holds(v, t) /\ pc'[v] = pc[v]
<1>1. CASE LoadState(w)
  <2>1. r \in Runs /\ Holds(w, r)
    BY <1>a, <1>1 DEF LoadState, Unheld
  <2>2. Frame
    BY <1>0, <1>1 DEF LoadState, Goto, runVars, histVars
  <2>3. Moved
    BY <1>0, <1>b, <2>1, <1>1 DEF LoadState, Goto, Agrees, Active, Warned, Unchecked, Terminal, runVars, histVars
  <2> QED BY <2>1, <2>2, <2>3, FollowedFrame
<1>2. CASE StartRun(w)
  <2>1. r \in Runs /\ Holds(w, r)
    BY <1>a, <1>2 DEF StartRun, Unheld
  <2>2. Frame
    BY <1>0, <1>2 DEF StartRun, Goto, NextPlace, runVars, histVars
  <2>3. Moved
    BY <1>0, <1>b, <2>1, <1>2 DEF StartRun, Goto, NextPlace, Agrees, Active, Warned, Unchecked, Terminal, runVars, histVars
  <2> QED BY <2>1, <2>2, <2>3, FollowedFrame
<1>3. CASE CheckControl(w)
  <2>1. r \in Runs /\ Holds(w, r)
    BY <1>a, <1>3 DEF CheckControl, Unheld
  <2>2. Frame
    BY <1>0, <1>3 DEF CheckControl, Goto, ControlPlace, runVars, histVars
  <2>3. Moved
    BY <1>0, <1>b, <2>1, <1>3 DEF CheckControl, Goto, ControlPlace, Agrees, Active, Warned, Unchecked, Terminal, runVars, histVars
  <2> QED BY <2>1, <2>2, <2>3, FollowedFrame
<1>4. CASE ExpireRun(w)
  <2>1. r \in Runs /\ Holds(w, r)
    BY <1>a, <1>4 DEF ExpireRun, Unheld
  <2>2. Frame
    BY <1>0, <1>4 DEF ExpireRun, EndRun, Release, Goto, runVars, histVars
  <2>3. Moved
    BY <1>0, <1>b, <2>1, <1>4 DEF ExpireRun, EndRun, Release, Goto, Agrees, Active, Warned, Unchecked, Terminal, runVars, histVars
  <2> QED BY <2>1, <2>2, <2>3, FollowedFrame
<1>5. CASE CancelRun(w)
  <2>1. r \in Runs /\ Holds(w, r)
    BY <1>a, <1>5 DEF CancelRun, Unheld
  <2>2. Frame
    BY <1>0, <1>5 DEF CancelRun, EndRun, Release, Goto, runVars, histVars
  <2>3. Moved
    BY <1>0, <1>b, <2>1, <1>5 DEF CancelRun, EndRun, Release, Goto, Agrees, Active, Warned, Unchecked, Terminal, runVars, histVars
  <2> QED BY <2>1, <2>2, <2>3, FollowedFrame
<1>6. CASE Park(w)
  <2>1. r \in Runs /\ Holds(w, r)
    BY <1>a, <1>6 DEF Park, Unheld
  <2>2. Frame
    BY <1>0, <1>6 DEF Park, Goto, runVars, histVars
  <2>3. Moved
    BY <1>0, <1>b, <2>1, <1>6 DEF Park, Goto, Agrees, Active, Warned, Unchecked, Terminal, runVars, histVars
  <2> QED BY <2>1, <2>2, <2>3, FollowedFrame
<1>7. CASE Poll(w)
  <2>1. r \in Runs /\ Holds(w, r)
    BY <1>a, <1>7 DEF Poll, Unheld
  <2>2. Frame
    BY <1>0, <1>7 DEF Poll, Goto, runVars, histVars
  <2>3. Moved
    BY <1>0, <1>b, <2>1, <1>7 DEF Poll, Goto, Agrees, Active, Warned, Unchecked, Terminal, runVars, histVars
  <2> QED BY <2>1, <2>2, <2>3, FollowedFrame
<1>8. CASE Unpark(w)
  <2>1. r \in Runs /\ Holds(w, r)
    BY <1>a, <1>8 DEF Unpark, Unheld
  <2>2. Frame
    BY <1>0, <1>8 DEF Unpark, Goto, runVars, histVars
  <2>3. Moved
    BY <1>0, <1>b, <2>1, <1>8 DEF Unpark, Goto, Agrees, Active, Warned, Unchecked, Terminal, runVars, histVars
  <2> QED BY <2>1, <2>2, <2>3, FollowedFrame
<1>9. CASE LeavePark(w)
  <2>1. r \in Runs /\ Holds(w, r)
    BY <1>a, <1>9 DEF LeavePark, Unheld
  <2>2. Frame
    BY <1>0, <1>9 DEF LeavePark, Release, Goto, runVars, histVars
  <2>3. Moved
    BY <1>0, <1>b, <2>1, <1>9 DEF LeavePark, Release, Goto, Agrees, Active, Warned, Unchecked, Terminal, runVars, histVars
  <2> QED BY <2>1, <2>2, <2>3, FollowedFrame
<1>10. CASE BeginNode(w)
  <2>1. r \in Runs /\ Holds(w, r)
    BY <1>a, <1>10 DEF BeginNode, Unheld
  <2>2. Frame
    BY <1>0, <1>10 DEF BeginNode, Goto, Stopping, runVars, histVars
  <2>3. Moved
    BY <1>0, <1>b, <2>1, <1>10 DEF BeginNode, Goto, Stopping, Agrees, Active, Warned, Unchecked, Terminal, runVars, histVars
  <2> QED BY <2>1, <2>2, <2>3, FollowedFrame
<1>11. CASE NodeSucceeds(w)
  <2>1. r \in Runs /\ Holds(w, r)
    BY <1>a, <1>11 DEF NodeSucceeds, Unheld
  <2>2. Frame
    BY <1>0, <1>11 DEF NodeSucceeds, Goto, NextPlace, runVars, histVars
  <2>3. Moved
    BY <1>0, <1>b, <2>1, <1>11 DEF NodeSucceeds, Goto, NextPlace, Agrees, Active, Warned, Unchecked, Terminal, runVars, histVars
  <2> QED BY <2>1, <2>2, <2>3, FollowedFrame
<1>12. CASE NodeFails(w)
  <2>1. r \in Runs /\ Holds(w, r)
    BY <1>a, <1>12 DEF NodeFails, Unheld
  <2>2. Frame
    BY <1>0, <1>12 DEF NodeFails, Goto, runVars, histVars
  <2>3. Moved
    BY <1>0, <1>b, <2>1, <1>12 DEF NodeFails, Goto, Agrees, Active, Warned, Unchecked, Terminal, runVars, histVars
  <2> QED BY <2>1, <2>2, <2>3, FollowedFrame
<1>13. CASE NodeWaits(w)
  <2>1. r \in Runs /\ Holds(w, r)
    BY <1>a, <1>13 DEF NodeWaits, Unheld
  <2>2. Frame
    BY <1>0, <1>13 DEF NodeWaits, Goto, runVars, histVars
  <2>3. Moved
    BY <1>0, <1>b, <2>1, <1>13 DEF NodeWaits, Goto, Agrees, Active, Warned, Unchecked, Terminal, runVars, histVars
  <2> QED BY <2>1, <2>2, <2>3, FollowedFrame
<1>14. CASE WaitForHuman(w)
  <2>1. r \in Runs /\ Holds(w, r)
    BY <1>a, <1>14 DEF WaitForHuman, Unheld
  <2>2. Frame
    BY <1>0, <1>14 DEF WaitForHuman, Goto, runVars, histVars
  <2>3. Moved
    BY <1>0, <1>b, <2>1, <1>14 DEF WaitForHuman, Goto, Agrees, Active, Warned, Unchecked, Terminal, runVars, histVars
  <2> QED BY <2>1, <2>2, <2>3, FollowedFrame
<1>15. CASE SaveWaiting(w)
  <2>1. r \in Runs /\ Holds(w, r)
    BY <1>a, <1>15 DEF SaveWaiting, Unheld
  <2>2. Frame
    BY <1>0, <1>15 DEF SaveWaiting, Release, Goto, runVars, histVars
  <2>3. Moved
    BY <1>0, <1>b, <2>1, <1>15 DEF SaveWaiting, Release, Goto, Agrees, Active, Warned, Unchecked, Terminal, runVars, histVars
  <2> QED BY <2>1, <2>2, <2>3, FollowedFrame
<1>16. CASE FailRun(w)
  <2>1. r \in Runs /\ Holds(w, r)
    BY <1>a, <1>16 DEF FailRun, Unheld
  <2>2. Frame
    BY <1>0, <1>16 DEF FailRun, EndRun, Release, Goto, runVars, histVars
  <2>3. Moved
    BY <1>0, <1>b, <2>1, <1>16 DEF FailRun, EndRun, Release, Goto, Agrees, Active, Warned, Unchecked, Terminal, runVars, histVars
  <2> QED BY <2>1, <2>2, <2>3, FollowedFrame
<1>17. CASE SucceedRun(w)
  <2>1. r \in Runs /\ Holds(w, r)
    BY <1>a, <1>17 DEF SucceedRun, Unheld
  <2>2. Frame
    BY <1>0, <1>17 DEF SucceedRun, EndRun, Release, Goto, runVars, histVars
  <2>3. Moved
    BY <1>0, <1>b, <2>1, <1>17 DEF SucceedRun, EndRun, Release, Goto, Agrees, Active, Warned, Unchecked, Terminal, runVars, histVars
  <2> QED BY <2>1, <2>2, <2>3, FollowedFrame
<1>18. CASE SelectCandidate(w)
  <2> Still
    BY <1>0, <1>18 DEF SelectCandidate, Goto, Holds, runVars, histVars, Unheld
  <2> QED BY FollowedQuiet
<1>19. CASE StopWorker(w)
  <2> Still
    BY <1>0, <1>19 DEF StopWorker, Goto, Holds, runVars, histVars, Unheld
  <2> QED BY FollowedQuiet
<1>20. CASE Shutdown(w)
  <2> Still
    BY <1>0, <1>20 DEF Shutdown, Goto, Holds, runVars, histVars, Unheld
  <2> QED BY FollowedQuiet
<1>21. CASE Crash(w)
  <2> Still
    BY <1>0, <1>21 DEF Crash, Goto, Holds, runVars, histVars, Unheld
  <2> QED BY FollowedQuiet
<1>22. CASE RestartWorker(w)
  <2> Still
    BY <1>0, <1>22 DEF RestartWorker, Goto, Holds, runVars, histVars, Unheld
  <2> QED BY FollowedQuiet
<1> QED
  BY <1>1, <1>2, <1>3, <1>4, <1>5, <1>6, <1>7, <1>8, <1>9, <1>10, <1>11, <1>12, <1>13, <1>14, <1>15, <1>16, <1>17, <1>18, <1>19, <1>20, <1>21, <1>22
  DEF RunStep, ProcessStep

\* A claim makes a queued run running, and the worker its only holder.
LEMMA FollowedClaim ==
    ASSUME Typed, Exclusive, Followed, NEW w \in Workers, Claim(w)
    PROVE  Followed'
<1> DEFINE r == held[w]
<1>1. /\ r \in Runs /\ pc \in [Workers -> Places]
      /\ held \in [Workers -> Runs \union {None}] /\ status \in [Runs -> Statuses]
  BY DEF Claim, Typed, TypeOK, WorkersOK, Unheld
<1>2. CASE status[r] = "queued"
  <2>1. /\ pc' = [pc EXCEPT ![w] = "load"] /\ UNCHANGED <<held, requeues, stale, late>>
        /\ status' = [status EXCEPT ![r] = "running"]
    BY <1>2 DEF Claim, Goto, histVars
  <2>2. Orderly(r) => late[r] = 0 /\ \A v \in Workers : ~Holds(v, r)
    BY <1>1, <1>2
    DEF Followed, Heeded, Warned, Terminal, Orderly, Exclusive, UnclaimedIsUnheld
  <2>3. \A t \in Runs : Orderly(t)' <=> Orderly(t)
    BY <2>1 DEF Orderly
  <2>4. \A v \in Workers, t \in Runs \ {r} :
           (Holds(v, t)' <=> Holds(v, t)) /\ (Holds(v, t) => pc'[v] = pc[v])
    BY <1>1, <2>1 DEF Holds
  <2>5. \A v \in Workers : Holds(v, r)' => Holds(v, r) \/ v = w
    BY <1>1, <2>1 DEF Holds
  <2>6. Tracked'
    BY <1>1, <2>1, <2>2, <2>3, <2>4, <2>5 DEF Followed, Tracked, Agrees, Active
  <2>7. Heeded'
    BY <1>1, <2>1, <2>2, <2>3, <2>4 DEF Followed, Heeded
  <2> QED BY <2>6, <2>7 DEF Followed
<1>3. CASE status[r] # "queued"
  <2>1. \A v \in Workers, t \in Runs : Holds(v, t)' => Holds(v, t) /\ pc'[v] = pc[v]
    BY <1>1, <1>3 DEF Claim, Release, Goto, Holds, Typed, TypeOK
  <2> QED BY <1>3, <2>1, FollowedQuiet DEF Claim, histVars
<1> QED BY <1>2, <1>3

\* What a request does to a run it leaves orderly: it moves it only to where a
\* worker that is parked or at a node still finds the run stopping or ended.
LEMMA OrderlyOutcome ==
    ASSUME NEW op \in OpKinds, NEW s \in Statuses, Outcome(op, s) # s,
           Outcome(op, s) # "queued"
    PROVE  /\ s \in Active => Outcome(op, s) \in Active
           /\ s \in {"paused", "waiting_human"} => Outcome(op, s) = "cancelled"
           /\ s \in Warned => Outcome(op, s) \in Warned
           /\ s \notin Terminal
BY DEF Outcome, PauseOf, ResumeOf, CancelOf, Statuses, Terminal, Active, Warned

LEMMA FollowedRequests ==
    ASSUME Typed, Exclusive, Followed,
           \/ \E r \in Runs : SubmitRun(r)
           \/ \E q \in Requests : RequestStep(q)
    PROVE  Followed'
<1>1. UNCHANGED <<pc, held, late>>
  BY DEF SubmitRun, RequestStep, ReadRow, CommitRow, workVars, histVars
<1>2. \A w \in Workers, r \in Runs : Holds(w, r)' <=> Holds(w, r)
  BY <1>1 DEF Holds
<1>3. CASE \E r \in Runs : SubmitRun(r)
  <2>1. PICK r \in Runs : SubmitRun(r) BY <1>3
  <2>2. Orderly(r) => late[r] = 0 /\ \A w \in Workers : ~Holds(w, r)
    BY <2>1 DEF SubmitRun, Followed, Heeded, Warned, Terminal, Exclusive, UnclaimedIsUnheld
  <2>3. /\ \A t \in Runs : Orderly(t)' <=> Orderly(t)
        /\ \A t \in Runs \ {r} : status'[t] = status[t]
    BY <2>1 DEF SubmitRun, Orderly, histVars, Typed, TypeOK
  <2> QED
    BY <1>1, <1>2, <2>2, <2>3 DEF Followed, Tracked, Heeded, Agrees
<1>4. CASE \E q \in Requests, op \in OpKinds, r \in Runs : ReadRow(q, op, r)
  BY <1>1, <1>2, <1>4, FollowedQuiet DEF ReadRow, runVars, histVars
<1>5. CASE \E q \in Requests : CommitRow(q)
  <2>1. PICK q \in Requests : CommitRow(q) BY <1>5
  <2>2. CASE ~Writes(request[q])
    BY <1>1, <1>2, <2>1, <2>2, IdleCommit, FollowedQuiet
  <2>3. CASE Writes(request[q])
    <3>1. PICK run, read, new :
             /\ run \in Runs /\ read \in Statuses
             /\ status' = [status EXCEPT ![run] = new]
             /\ \A r \in Runs \ {run} : stale'[r] = stale[r] /\ requeues'[r] = requeues[r]
             /\ stale'[run] = (stale[run] \/ status[run] # read)
             /\ IF new = "queued" THEN requeues'[run] # 0
                                  ELSE requeues'[run] = requeues[run]
             /\ new = Outcome(request[q].op, read)
             /\ request[q].op \in OpKinds /\ new # read
      <4>1. Outcome(request[q].op, request[q].read) # request[q].read
        BY <2>3 DEF Writes
      <4> QED BY <2>1, <2>3, <4>1, CommitEffect
    <3>2. new # "queued" =>
              /\ read \in Active => new \in Active
              /\ read \in {"paused", "waiting_human"} => new = "cancelled"
              /\ read \in Warned => new \in Warned
              /\ read \notin Terminal
      BY <3>1, OrderlyOutcome
    <3>3. status'[run] = new /\ \A r \in Runs \ {run} : status'[r] = status[r]
      BY <3>1 DEF Typed, TypeOK
    <3>4. Orderly(run)' => Orderly(run) /\ status[run] = read /\ new # "queued"
      BY <3>1, Zenon DEF Orderly
    <3>5. \A r \in Runs \ {run} : Orderly(r)' <=> Orderly(r)
      BY <3>1 DEF Orderly
    <3>6. \A w \in Workers : Agrees(w, run) /\ Orderly(run)' => Agrees(w, run)'
      BY <1>1, <3>1, <3>2, <3>3, <3>4 DEF Agrees, Terminal
    <3>7. Tracked'
      BY <1>1, <1>2, <3>3, <3>4, <3>5, <3>6 DEF Followed, Tracked, Agrees
    <3>8. Heeded'
      BY <1>1, <1>2, <3>2, <3>3, <3>4, <3>5 DEF Followed, Heeded
    <3> QED BY <3>7, <3>8 DEF Followed
  <2> QED BY <2>2, <2>3
<1> QED BY <1>3, <1>4, <1>5 DEF RequestStep

LEMMA FollowedStep == Typed /\ Exclusive /\ Followed /\ [Next]_vars => Followed'
<1>1. CASE Typed /\ Exclusive /\ Followed /\ Next
  BY <1>1, FollowedRequests, FollowedClaim, FollowedWorker DEF Next
<1>2. CASE Followed /\ UNCHANGED vars
  BY <1>2, FollowedQuiet DEF vars, runVars, workVars, histVars, Holds
<1> QED BY <1>1, <1>2

\* The invariants of the workers and of the runs they hold.
RInv == Typed /\ Exclusive /\ Followed

LEMMA RInvHolds == Spec => []RInv
<1>1. Init => RInv
  <2> SUFFICES ASSUME Init PROVE RInv OBVIOUS
  <2>1. Typed BY TypedInit
  <2>2. Exclusive
    BY NoneAssumption DEF Init, Exclusive, ExclusiveUntilRequeued, UnclaimedIsUnheld, Holds
  <2>3. Followed
    BY NoneAssumption DEF Init, Followed, Tracked, Heeded, Holds
  <2> QED BY <2>1, <2>2, <2>3 DEF RInv
<1>2. RInv /\ [Next]_vars => RInv'
  BY TypedStep, ExclusiveStep, FollowedStep DEF RInv
<1> QED BY <1>1, <1>2, PTL DEF Spec

(***************************************************************************)
(* At most one node of a run starts after it was told to stop, for any     *)
(* number of requests and of nodes.  The invariant follows the run of the  *)
(* late node to its end: whatever its status becomes without a resume, it  *)
(* is none that a control check lets pass.                                 *)
(***************************************************************************)
THEOREM StopsPromptly == Spec => []PromptStop
<1>1. RInv => PromptStop
  <2> SUFFICES ASSUME RInv, NEW r \in Runs, Orderly(r)
               PROVE  late[r] <= 1
    BY DEF PromptStop
  <2>1. late[r] = 0 \/ late[r] = 1
    BY DEF RInv, Followed, Heeded
  <2> QED BY <2>1
<1> QED BY <1>1, RInvHolds, PTL

(***************************************************************************)
(* No node starts in a run that has ended, unless a resume or a request on *)
(* a stale read brought it back: a worker at a node holds an active run.   *)
(***************************************************************************)
THEOREM NoNodeStartsAfterEnd == Spec => NoNodeAfterEnd
<1>1. RInv /\ [Next]_vars =>
         [\A w \in Workers : BeginNode(w) /\ Orderly(held[w]) =>
              status[held[w]] \notin Terminal]_vars
  <2> SUFFICES ASSUME RInv, NEW w \in Workers, BeginNode(w), Orderly(held[w])
               PROVE  status[held[w]] \notin Terminal
    OBVIOUS
  <2>1. held[w] \in Runs /\ Holds(w, held[w]) /\ pc[w] = "step"
    BY DEF RInv, Typed, TypeOK, WorkersOK, BeginNode, Unheld, Holds
  <2>2. Agrees(w, held[w]) BY <2>1 DEF RInv, Followed, Tracked
  <2> QED BY <2>1, <2>2 DEF Agrees, Active, Terminal
<1> QED BY <1>1, RInvHolds, PTL DEF Spec, NoNodeAfterEnd

\* The runs that this step leaves orderly keep a terminal status.
KeepsTheEnd ==
    \A r \in Runs : status[r] \in Terminal /\ Orderly(r)' => status'[r] = status[r]

\* A worker writes only the status of the run it holds, and not from a place
\* to which a run that has ended leads.
LEMMA WorkerKeepsTheEnd ==
    ASSUME RInv, NEW w \in Workers, RunStep(w) \/ ProcessStep(w)
    PROVE  KeepsTheEnd
<1>0. /\ pc \in [Workers -> Places] /\ held \in [Workers -> Runs \union {None}]
      /\ status \in [Runs -> Statuses]
      /\ pc[w] \notin Unheld => held[w] \in Runs
  BY DEF RInv, Typed, TypeOK, WorkersOK
<1>1. CASE UNCHANGED status BY <1>1 DEF KeepsTheEnd
<1>2. CASE Claim(w)
  <2>1. \A r \in Runs : status'[r] # status[r] => status[r] = "queued"
    BY <1>0, <1>2 DEF Claim
  <2> QED BY <2>1 DEF KeepsTheEnd, Terminal
<1>3. CASE \/ ExpireRun(w) \/ CancelRun(w) \/ FailRun(w) \/ SucceedRun(w)
           \/ Park(w) \/ Unpark(w) \/ WaitForHuman(w)
  <2>1. /\ pc[w] \notin Unheld \union {"claim", "parked", "save_wait"}
        /\ UNCHANGED <<requeues, stale>>
        /\ \A r \in Runs \ {held[w]} : status'[r] = status[r]
    BY <1>0, <1>3
    DEF ExpireRun, CancelRun, FailRun, SucceedRun, EndRun, Park, Unpark, WaitForHuman,
        histVars, Unheld
  <2>2. held[w] \in Runs /\ Holds(w, held[w]) BY <1>0, <2>1 DEF Holds
  <2>3. Orderly(held[w]) => status[held[w]] \in Active
    BY <2>1, <2>2 DEF RInv, Followed, Tracked, Agrees
  <2>4. \A r \in Runs : Orderly(r)' <=> Orderly(r) BY <2>1 DEF Orderly
  <2> QED BY <2>1, <2>3, <2>4 DEF KeepsTheEnd, Active, Terminal
<1> QED
  BY <1>1, <1>2, <1>3
  DEF RunStep, ProcessStep, SelectCandidate, LoadState, StartRun, CheckControl, Poll,
      LeavePark, BeginNode, NodeSucceeds, NodeFails, NodeWaits, SaveWaiting, StopWorker,
      Shutdown, Crash, RestartWorker, runVars

LEMMA RequestKeepsTheEnd ==
    ASSUME RInv,
           \/ \E r \in Runs : SubmitRun(r)
           \/ \E q \in Requests : RequestStep(q)
    PROVE  KeepsTheEnd
<1>0. status \in [Runs -> Statuses] BY DEF RInv, Typed, TypeOK
<1>1. CASE \E r \in Runs : SubmitRun(r)
  <2>1. \A r \in Runs : status'[r] # status[r] => status[r] = "absent"
    BY <1>0, <1>1 DEF SubmitRun
  <2> QED BY <2>1 DEF KeepsTheEnd, Terminal
<1>2. CASE \E q \in Requests, op \in OpKinds, r \in Runs : ReadRow(q, op, r)
  BY <1>2 DEF ReadRow, runVars, KeepsTheEnd
<1>3. CASE \E q \in Requests : CommitRow(q)
  <2>1. PICK q \in Requests : CommitRow(q) BY <1>3
  <2>2. CASE ~Writes(request[q]) BY <2>1, <2>2, IdleCommit DEF KeepsTheEnd
  <2>3. CASE Writes(request[q])
    <3> DEFINE run == request[q].run
               read == request[q].read
               new == Outcome(request[q].op, read)
    <3>1. /\ run \in Runs
          /\ status' = [status EXCEPT ![run] = new]
          /\ stale'[run] = (stale[run] \/ status[run] # read)
          /\ new = "queued" => requeues'[run] # 0
          /\ new # "queued" => read \notin Terminal
      BY <2>1, <2>3, CommitEffect, OrderlyOutcome DEF RInv, Writes
    <3> HIDE DEF run, read, new
    <3> QED BY <1>0, <3>1 DEF KeepsTheEnd, Orderly
  <2> QED BY <2>2, <2>3
<1> QED BY <1>1, <1>2, <1>3 DEF RequestStep

(***************************************************************************)
(* A terminal status is final for every run that is not resumed and that   *)
(* no request writes on a stale read: the worker that ends a run was the   *)
(* last to hold it, and the one parked on a cancelled run never acts.      *)
(***************************************************************************)
THEOREM TheEndIsFinal == Spec => TerminalIsFinal
<1>1. RInv /\ [Next]_vars => [KeepsTheEnd]_vars
  BY WorkerKeepsTheEnd, RequestKeepsTheEnd DEF Next
<1>2. [KeepsTheEnd]_vars => [\A r \in Runs : status[r] \in Terminal /\ Orderly(r)' =>
           status'[r] = status[r]]_vars
  BY DEF KeepsTheEnd
<1> QED BY <1>1, <1>2, RInvHolds, PTL DEF Spec, TerminalIsFinal
=============================================================================
