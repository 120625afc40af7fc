-------------------------- MODULE SwitchGuardProofs --------------------------
(***************************************************************************)
(* The switch guard implements the serial queue of SwitchQueue, for every  *)
(* number of tasks and whatever steps their actions take.                  *)
(***************************************************************************)
EXTENDS SwitchGuard, TLAPS

Idle == {"none", "queued", "settled", "done"}

\* Whether task t has been shifted from the queue and not been released.
Busy(t) == pc[t] \in Stages \cup {"settled"}

GuardType ==
  /\ pendingQueue \in Seq(Tasks)
  /\ processing \in BOOLEAN
  /\ pc \in [Tasks -> Stages \cup Idle]

\* The flag is set exactly while a task is busy, and there is at most one; what
\* is in the queue waits, and nothing waits while the guard is free.
GuardInv ==
  /\ GuardType
  /\ ~processing => pendingQueue = <<>> /\ \A t \in Tasks : ~Busy(t)
  /\ \A t, u \in Tasks : Busy(t) /\ Busy(u) => t = u
  /\ \A i \in DOMAIN pendingQueue : pc[pendingQueue[i]] = "queued"
  /\ \A i, j \in DOMAIN pendingQueue : pendingQueue[i] = pendingQueue[j] => i = j

----------------------------------------------------------------------------
\* The tail of a sequence holds the other elements, one place nearer.
LEMMA TailElements ==
  ASSUME NEW S, NEW q \in Seq(S), q # <<>>
  PROVE  /\ Tail(q) \in Seq(S)
         /\ Head(q) = q[1] /\ q[1] \in S /\ 1 \in DOMAIN q
         /\ \A i \in DOMAIN Tail(q) : i + 1 \in DOMAIN q /\ i # 0 /\ i \in Nat /\ Tail(q)[i] = q[i + 1]
  OBVIOUS

\* Appending keeps the elements and adds one at the end.
LEMMA AppendElements ==
  ASSUME NEW S, NEW q \in Seq(S), NEW e \in S
  PROVE  /\ Append(q, e) \in Seq(S)
         /\ \A i \in DOMAIN Append(q, e) :
              \/ i \in DOMAIN q /\ Append(q, e)[i] = q[i]
              \/ i = Len(q) + 1 /\ Append(q, e)[i] = e
         /\ ~(Len(q) + 1 \in DOMAIN q)
  OBVIOUS

\* runWithSwitchGuard with the guard free: the task it queues is the one that starts.
LEMMA SingletonQueue ==
  ASSUME NEW S, NEW e \in S
  PROVE  /\ Append(<<>>, e) # <<>>
         /\ Head(Append(<<>>, e)) = e
         /\ Tail(Append(<<>>, e)) = <<>>
  OBVIOUS

----------------------------------------------------------------------------
\* Each operation keeps the invariant and is a step of SwitchQueue, or none.

LEMMA InitInv == GuardInit => GuardInv
  <1> SUFFICES ASSUME GuardInit PROVE GuardInv
    OBVIOUS
  <1>1. GuardType
    <2>1. "none" \in Stages \cup Idle
      BY DEF Idle
    <2>2. <<>> \in Seq(Tasks)
      OBVIOUS
    <2> QED
      BY <2>1, <2>2 DEF GuardInit, GuardType
  <1>2. \A t \in Tasks : ~Busy(t)
    BY GuardAssumption DEF GuardInit, Busy
  <1> QED
    BY <1>1, <1>2 DEF GuardInit, GuardInv

LEMMA InitQueue == GuardInit => Queue!Init
  BY GuardAssumption DEF GuardInit, Queue!Init, Running, Ended

\* runWithSwitchGuard while another task is busy: the new one waits.
LEMMA RequestWaits ==
  ASSUME GuardInv, NEW t \in Tasks, RunWithSwitchGuard(t), processing
  PROVE  GuardInv' /\ Queue!Next
  <1> DEFINE q == Append(pendingQueue, t)
  <1>1. /\ pc[t] = "none" /\ pendingQueue' = q /\ processing' = processing
        /\ pc' = [pc EXCEPT ![t] = "queued"]
    BY DEF RunWithSwitchGuard
  <1>2. GuardType'
    BY <1>1, AppendElements DEF GuardInv, GuardType, Idle
  <1>3. \A u \in Tasks : u # t => pc'[u] = pc[u]
    BY <1>1 DEF GuardInv, GuardType
  <1>4. pc'[t] = "queued"
    BY <1>1 DEF GuardInv, GuardType
  <1>5. \A u \in Tasks : Busy(u)' <=> Busy(u)
    BY <1>1, <1>3, <1>4, GuardAssumption DEF Busy
  <1>6. \A i \in DOMAIN pendingQueue : pendingQueue[i] \in Tasks /\ pendingQueue[i] # t
    BY <1>1 DEF GuardInv, GuardType
  <1>7. \A i \in DOMAIN q :
          \/ i \in DOMAIN pendingQueue /\ q[i] = pendingQueue[i]
          \/ i = Len(pendingQueue) + 1 /\ q[i] = t
    BY AppendElements DEF GuardInv, GuardType
  <1>8. \A i \in DOMAIN q : pc'[q[i]] = "queued"
    BY <1>3, <1>4, <1>6, <1>7 DEF GuardInv
  <1>9. \A i, j \in DOMAIN q : q[i] = q[j] => i = j
    BY <1>6, <1>7 DEF GuardInv
  <1>10. GuardInv'
    <2> HIDE DEF q
    <2> QED
      BY <1>1, <1>2, <1>5, <1>8, <1>9 DEF GuardInv
  <1>11. Running' = Running /\ Ended' = Ended
    BY <1>1, <1>3, <1>4, GuardAssumption DEF Running, Ended
  <1>12. ~Queue!Known(t)
    BY <1>1, <1>6, GuardAssumption DEF Queue!Known, Running, Ended
  <1>13. Queue!Request(t)
    BY <1>1, <1>11, <1>12 DEF Queue!Request
  <1> QED
    BY <1>10, <1>13 DEF Queue!Next

\* runWithSwitchGuard with the guard free: the task starts.
LEMMA RequestStarts ==
  ASSUME GuardInv, NEW t \in Tasks, RunWithSwitchGuard(t), ~processing
  PROVE  GuardInv' /\ Queue!Next
  <1>1. pendingQueue = <<>> /\ \A u \in Tasks : ~Busy(u)
    BY DEF GuardInv
  <1>2. pc[t] = "none" /\ ProcessQueue(Append(<<>>, t), [pc EXCEPT ![t] = "queued"])
    BY <1>1 DEF RunWithSwitchGuard
  <1>3. /\ pendingQueue' = <<>> /\ processing' = TRUE
        /\ pc' = [[pc EXCEPT ![t] = "queued"] EXCEPT ![t] = "start"]
    BY <1>2, SingletonQueue DEF ProcessQueue
  <1>4. /\ pc' \in [Tasks -> Stages \cup Idle] /\ pc'[t] = "start"
        /\ \A u \in Tasks : u # t => pc'[u] = pc[u]
    BY <1>3, GuardAssumption DEF GuardInv, GuardType
  <1>5. \A u \in Tasks : Busy(u)' <=> u = t
    BY <1>1, <1>4, GuardAssumption DEF Busy
  <1>6. GuardInv'
    BY <1>3, <1>4, <1>5 DEF GuardInv, GuardType
  <1>7. Running = {} /\ Running' = {t}
    BY <1>1, <1>4, GuardAssumption DEF Running, Busy
  <1>8. Ended' = Ended
    BY <1>2, <1>4, GuardAssumption DEF Ended
  <1>9. ~Queue!Known(t)
    BY <1>1, <1>2, GuardAssumption DEF Queue!Known, Running, Ended
  <1>10. Queue!Request(t)
    BY <1>1, <1>3, <1>7, <1>8, <1>9 DEF Queue!Request
  <1> QED
    BY <1>6, <1>10 DEF Queue!Next

\* A step of the action of a task: it goes on, or it settles and is finished.
LEMMA WorkStep ==
  ASSUME GuardInv, NEW t \in Tasks, Work(t)
  PROVE  GuardInv' /\ [Queue!Next]_Queue!vars
  <1>1. pc[t] \in Stages /\ Busy(t)
    BY DEF Work, Busy
  <1>2. PICK s \in Stages \cup {"settled"} : pc' = [pc EXCEPT ![t] = s]
    BY DEF Work, Settle, GoOn
  <1>3. pendingQueue' = pendingQueue /\ processing' = processing
    BY DEF Work, Settle, GoOn
  <1>4. /\ pc' \in [Tasks -> Stages \cup Idle] /\ pc'[t] = s
        /\ \A u \in Tasks : u # t => pc'[u] = pc[u]
    BY <1>2 DEF GuardInv, GuardType, Idle
  <1>5. \A u \in Tasks : Busy(u)' <=> Busy(u)
    BY <1>1, <1>4 DEF Busy
  <1>6. \A i \in DOMAIN pendingQueue : pendingQueue[i] \in Tasks /\ pendingQueue[i] # t
    BY <1>1, GuardAssumption DEF GuardInv, GuardType
  <1>7. GuardInv'
    BY <1>3, <1>4, <1>5, <1>6 DEF GuardInv, GuardType
  <1>8. Running = {t}
    BY <1>1 DEF Running, Busy, GuardInv
  <1>9. CASE s \in Stages
    <2>1. Running' = Running /\ Ended' = Ended
      BY <1>1, <1>4, <1>9, GuardAssumption DEF Running, Ended
    <2> QED
      BY <1>3, <1>7, <2>1 DEF Queue!vars
  <1>10. CASE s = "settled"
    <2>1. Running' = {}
      BY <1>4, <1>8, <1>10, GuardAssumption DEF Running
    <2>2. Ended' = Ended \cup Running
      BY <1>4, <1>8, <1>10, GuardAssumption DEF Ended
    <2>3. Queue!Finish
      BY <1>3, <1>8, <2>1, <2>2 DEF Queue!Finish
    <2> QED
      BY <1>7, <2>3 DEF Queue!Next
  <1> QED
    BY <1>9, <1>10

\* The finally of a task: the next one is served, if there is one.
LEMMA ReleaseServes ==
  ASSUME GuardInv, NEW t \in Tasks, Release(t)
  PROVE  GuardInv' /\ [Queue!Next]_Queue!vars
  <1> DEFINE at == [pc EXCEPT ![t] = "done"]
  <1>1. pc[t] = "settled" /\ Busy(t) /\ ProcessQueue(pendingQueue, at)
    BY DEF Release, Busy
  <1>2. /\ at \in [Tasks -> Stages \cup Idle] /\ at[t] = "done"
        /\ \A u \in Tasks : u # t => at[u] = pc[u]
    BY DEF GuardInv, GuardType, Idle
  <1>3. \A u \in Tasks : u # t => ~Busy(u)
    BY <1>1 DEF GuardInv
  <1>4. Running = {}
    BY <1>1, <1>3, GuardAssumption DEF Running, Busy
  <1>5. \A i \in DOMAIN pendingQueue : pendingQueue[i] \in Tasks /\ pendingQueue[i] # t
    BY <1>1 DEF GuardInv, GuardType
  <1> HIDE DEF at
  <1>6. CASE pendingQueue = <<>>
    <2>1. pendingQueue' = <<>> /\ processing' = FALSE /\ pc' = at
      BY <1>1, <1>6 DEF ProcessQueue
    <2>2. \A u \in Tasks : ~Busy(u)'
      BY <1>2, <1>3, <2>1, GuardAssumption DEF Busy
    <2>3. GuardType'
      BY <1>2, <1>6, <2>1 DEF GuardInv, GuardType
    <2>4. \A i \in DOMAIN pendingQueue' : FALSE
      BY <2>1
    <2>5. GuardInv'
      BY <2>1, <2>2, <2>3, <2>4 DEF GuardInv
    <2>6. Running' = Running
      BY <1>4, <2>2 DEF Running, Busy
    <2>7. Ended' = Ended
      BY <1>1, <1>2, <2>1 DEF Ended
    <2> QED
      BY <1>6, <2>1, <2>5, <2>6, <2>7 DEF Queue!vars
  <1>7. CASE pendingQueue # <<>>
    <2> DEFINE h == Head(pendingQueue)
    <2>1. /\ pendingQueue' = Tail(pendingQueue) /\ processing' = TRUE
          /\ pc' = [at EXCEPT ![h] = "start"]
      BY <1>1, <1>7 DEF ProcessQueue
    <2>2. /\ Tail(pendingQueue) \in Seq(Tasks)
          /\ h = pendingQueue[1] /\ h \in Tasks /\ 1 \in DOMAIN pendingQueue
          /\ \A i \in DOMAIN Tail(pendingQueue) :
               /\ i + 1 \in DOMAIN pendingQueue /\ i # 0 /\ i \in Nat
               /\ Tail(pendingQueue)[i] = pendingQueue[i + 1]
      BY <1>7, TailElements DEF GuardInv, GuardType
    <2>3. h # t /\ pc[h] = "queued"
      BY <1>5, <2>2 DEF GuardInv
    <2> HIDE DEF h
    <2>4. /\ pc' \in [Tasks -> Stages \cup Idle] /\ pc'[h] = "start" /\ pc'[t] = "done"
          /\ \A u \in Tasks : u # t /\ u # h => pc'[u] = pc[u]
      BY <1>2, <2>1, <2>2, <2>3, GuardAssumption
    <2>5. \A u \in Tasks : Busy(u)' <=> u = h
      BY <1>3, <2>2, <2>3, <2>4, GuardAssumption DEF Busy
    <2>6. \A i \in DOMAIN pendingQueue' : pc'[pendingQueue'[i]] = "queued"
      <3> SUFFICES ASSUME NEW i \in DOMAIN Tail(pendingQueue)
                   PROVE  pc'[pendingQueue[i + 1]] = "queued"
        BY <2>1, <2>2
      <3>1. i + 1 \in DOMAIN pendingQueue /\ i + 1 # 1
        BY <2>2
      <3>2. pendingQueue[i + 1] # h /\ pendingQueue[i + 1] # t /\ pendingQueue[i + 1] \in Tasks
        BY <1>5, <2>2, <3>1 DEF GuardInv
      <3> QED
        BY <2>4, <3>1, <3>2 DEF GuardInv
    <2>7. \A i, j \in DOMAIN pendingQueue' : pendingQueue'[i] = pendingQueue'[j] => i = j
      <3> SUFFICES ASSUME NEW i \in DOMAIN Tail(pendingQueue), NEW j \in DOMAIN Tail(pendingQueue),
                          pendingQueue[i + 1] = pendingQueue[j + 1]
                   PROVE  i = j
        BY <2>1, <2>2
      <3>1. i + 1 = j + 1
        BY <2>2 DEF GuardInv
      <3> QED
        BY <2>2, <3>1
    <2>8. GuardInv'
      BY <2>1, <2>2, <2>4, <2>5, <2>6, <2>7 DEF GuardInv, GuardType
    <2>9. Running' = {h}
      BY <1>4, <2>2, <2>4, GuardAssumption DEF Running
    <2>10. Ended' = Ended
      BY <1>1, <2>2, <2>3, <2>4, GuardAssumption DEF Ended
    <2>11. Queue!Serve
      BY <1>4, <1>7, <2>1, <2>9, <2>10 DEF Queue!Serve, h
    <2> QED
      BY <2>8, <2>11 DEF Queue!Next
  <1> QED
    BY <1>6, <1>7

\* Every step of the guard keeps the invariant and implements the queue.
LEMMA GuardStep ==
  ASSUME GuardInv, [GuardNext]_guardVars
  PROVE  GuardInv' /\ [Queue!Next]_Queue!vars
  <1>1. CASE UNCHANGED guardVars
    BY <1>1 DEF guardVars, GuardInv, GuardType, Busy, Queue!vars, Running, Ended
  <1>2. ASSUME NEW t \in Tasks, RunWithSwitchGuard(t)
        PROVE  GuardInv' /\ [Queue!Next]_Queue!vars
    BY <1>2, RequestWaits, RequestStarts
  <1>3. ASSUME NEW t \in Tasks, Work(t)
        PROVE  GuardInv' /\ [Queue!Next]_Queue!vars
    BY <1>3, WorkStep
  <1>4. ASSUME NEW t \in Tasks, Release(t)
        PROVE  GuardInv' /\ [Queue!Next]_Queue!vars
    BY <1>4, ReleaseServes
  <1> QED
    BY <1>1, <1>2, <1>3, <1>4 DEF GuardNext

\* switchGuard.ts: at most one switch holds the guard, the flag processing says
\* so, and a free guard has an empty queue.
THEOREM GuardSafe == GuardSpec => []GuardInv
  <1>1. GuardInv /\ [GuardNext]_guardVars => GuardInv'
    BY GuardStep
  <1> QED
    BY InitInv, <1>1, PTL DEF GuardSpec

\* switchGuard.ts: the queue and the flag serve switches one at a time, in the
\* order of the calls.
THEOREM GuardServesInOrder == GuardSpec => ServedInOrder
  <1>1. GuardInv /\ [GuardNext]_guardVars => [Queue!Next]_Queue!vars
    BY GuardStep
  <1> QED
    BY InitQueue, GuardSafe, <1>1, PTL DEF GuardSpec, ServedInOrder, Queue!Spec
=============================================================================
