----------------------------- MODULE SwitchGuard -----------------------------
(***************************************************************************)
(* The switch guard (switchGuard.ts): a queue of switch requests and the   *)
(* flag processing.  The steps a task takes while it holds the guard are   *)
(* those of the switch flows; here they are any steps (Work).              *)
(***************************************************************************)
EXTENDS Naturals, Sequences

CONSTANTS
  Tasks,   \* the calls of runWithSwitchGuard
  Stages   \* where a task may be while its action runs

ASSUME GuardAssumption ==
  Stages \cap {"none", "queued", "settled", "done"} = {} /\ "start" \in Stages

VARIABLES
  pendingQueue,  \* the tasks that wait
  processing,    \* whether a task has been shifted and not been released
  pc             \* where each task is

guardVars == <<pendingQueue, processing, pc>>

GuardInit ==
  /\ pendingQueue = <<>>
  /\ processing = FALSE
  /\ pc = [t \in Tasks |-> "none"]

\* processQueue with processing unset: the first task of queue q starts.
ProcessQueue(q, at) ==
  IF q = <<>>
  THEN pendingQueue' = q /\ processing' = FALSE /\ pc' = at
  ELSE /\ pendingQueue' = Tail(q)
       /\ processing' = TRUE
       /\ pc' = [at EXCEPT ![Head(q)] = "start"]

\* Mutant: the flag processing is not looked at.
RunAtOnce(t) ==
  pc[t] = "none" /\ ProcessQueue(Append(pendingQueue, t), [pc EXCEPT ![t] = "queued"])

\* runWithSwitchGuard: the task is queued and the queue processed.
RunWithSwitchGuard(t) ==
  /\ pc[t] = "none"
  /\ LET q == Append(pendingQueue, t)
         at == [pc EXCEPT ![t] = "queued"]
     IN IF processing
        THEN pendingQueue' = q /\ pc' = at /\ processing' = processing
        ELSE ProcessQueue(q, at)

\* A step of the task's action that leads to another stage of it.
GoOn(t, stage) ==
  pc' = [pc EXCEPT ![t] = stage] /\ UNCHANGED <<pendingQueue, processing>>

\* The action ends and the promise of the caller settles.
Settle(t) ==
  pc' = [pc EXCEPT ![t] = "settled"] /\ UNCHANGED <<pendingQueue, processing>>

\* Mutant: the queue is not processed after the release.
ReleaseOnly(t) ==
  /\ pc[t] = "settled"
  /\ pc' = [pc EXCEPT ![t] = "done"]
  /\ processing' = FALSE
  /\ pendingQueue' = pendingQueue

\* The finally of the task: the guard is released and the queue processed.
Release(t) ==
  pc[t] = "settled" /\ ProcessQueue(pendingQueue, [pc EXCEPT ![t] = "done"])

Work(t) == pc[t] \in Stages /\ (Settle(t) \/ \E stage \in Stages : GoOn(t, stage))

GuardNext == \E t \in Tasks : RunWithSwitchGuard(t) \/ Work(t) \/ Release(t)

GuardSpec == GuardInit /\ [][GuardNext]_guardVars

Running == {t \in Tasks : pc[t] \in Stages}
Ended == {t \in Tasks : pc[t] \in {"settled", "done"}}

Queue == INSTANCE SwitchQueue WITH waiting <- pendingQueue, running <- Running, ended <- Ended

\* The guard serves its tasks as SwitchQueue says, one at a time and in the order
\* of the calls of runWithSwitchGuard.
ServedInOrder == Queue!Spec

\* The same, and no task waits or runs for ever: whatever the action of one does,
\* its finally makes processQueue start the next.
ServedInTurn == Queue!FairSpec
=============================================================================
