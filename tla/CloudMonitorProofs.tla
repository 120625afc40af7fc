------------------------- MODULE CloudMonitorProofs -------------------------
(***************************************************************************)
(* The monitor and the switching together, for every number of polls,      *)
(* tasks and accounts: the types, serial switches in the order of the      *)
(* requests, agreeing machine ids, a recorded account that is logged in,   *)
(* and at most one automatic switch under way.                             *)
(***************************************************************************)
EXTENDS CloudMonitor, AccountSwitchProofs

\* What the record of a poll holds at which point.
PollOk(r) ==
  /\ r \in PollType
  /\ r.pc \in {"fetch", "mark"} => r.account \in Accounts
  /\ r.pc \in {"decide", "best", "await"} => r.targets # <<>>
  /\ r.pc = "await" => r.task \in Tasks

\* One poll is at work at a time, isPolling tells whether there is one, and it
\* waits for the switch of the monitor that is under way.
PollInv ==
  /\ isPolling \in BOOLEAN /\ enabled \in BOOLEAN
  /\ poll = [p \in Polls |-> poll[p]]
  /\ \A p \in Polls : PollOk(poll[p])
  /\ isPolling <=> \E p \in Polls : Polling(p)
  /\ \A p, q \in Polls : Polling(p) /\ Polling(q) => p = q
  /\ \A t \in Tasks : UnderWay(t) => \E p \in Polls : poll[p].pc = "await" /\ poll[p].task = t

Inv == SwitchInv /\ PollInv

----------------------------------------------------------------------------
LEMMA RowTypes == ASSUME NEW s \in Statuses, NEW q \in Quotas PROVE Row(s, q) \in RowType
  BY DEF Row, RowType

LEMMA NoPollType ==
  /\ NoPoll \in PollType
  /\ [a \in Accounts |-> Row("active", "none")] \in [Accounts -> RowType]
  <1>1. Row("active", "none") \in RowType
    BY DEF Row, RowType, Statuses, Quotas
  <1> QED
    BY <1>1 DEF NoPoll, PollType, PollPcs

LEMMA InvTypes == Inv => TypeOK
  <1> SUFFICES ASSUME Inv PROVE TypeOK
    OBVIOUS
  <1>1. poll \in [Polls -> PollType]
    <2>1. \A p \in Polls : poll[p] \in PollType
      BY DEF Inv, PollInv, PollOk
    <2>2. poll = [p \in Polls |-> poll[p]]
      BY DEF Inv, PollInv
    <2> QED
      BY <2>1, <2>2
  <1> QED
    BY <1>1, SwitchInvTypes DEF Inv, PollInv, TypeOK

LEMMA InitHolds == Init => Inv
  <1> SUFFICES ASSUME Init PROVE Inv
    OBVIOUS
  <1>1. SwitchInv
    BY SwitchInitInv DEF Init
  <1>2. PollOk(NoPoll) /\ NoPoll.pc = "new"
    BY NoPollType DEF PollOk, NoPoll
  <1>3. \A p \in Polls : poll[p] = NoPoll /\ ~Polling(p)
    BY <1>2 DEF Init, Polling
  <1>4. \A t \in Tasks : ~UnderWay(t)
    BY DEF Init, SwitchInit, UnderWay, NoTask
  <1> QED
    BY <1>1, <1>2, <1>3, <1>4 DEF Init, Inv, PollInv

\* A poll gets the record r: what is to be shown for PollInv.
LEMMA PollMoves ==
  ASSUME PollInv, NEW p \in Polls, NEW r, PollOk(r), poll' = [poll EXCEPT ![p] = r],
         isPolling' \in BOOLEAN, enabled' \in BOOLEAN,
         r.pc \notin {"new", "over"} => \A q \in Polls : q # p => ~Polling(q),
         isPolling' <=> r.pc \notin {"new", "over"} \/ \E q \in Polls : q # p /\ Polling(q),
         \A t \in Tasks : UnderWay(t)' =>
            \/ UnderWay(t) /\ ~(poll[p].pc = "await" /\ poll[p].task = t)
            \/ r.pc = "await" /\ r.task = t
  PROVE  PollInv'
  <1>1. /\ poll'[p] = r /\ \A q \in Polls : q # p => poll'[q] = poll[q]
        /\ poll' = [q \in Polls |-> poll'[q]]
    BY DEF PollInv
  <1>2. \A q \in Polls : PollOk(poll'[q])
    BY <1>1 DEF PollInv
  <1>3. \A q \in Polls : Polling(q)' <=> IF q = p THEN r.pc \notin {"new", "over"} ELSE Polling(q)
    BY <1>1 DEF Polling
  <1>4. isPolling' <=> \E q \in Polls : Polling(q)'
    BY <1>3
  <1>5. \A q, o \in Polls : Polling(q)' /\ Polling(o)' => q = o
    BY <1>3 DEF PollInv
  <1>6. ASSUME NEW t \in Tasks, UnderWay(t)'
        PROVE  \E q \in Polls : poll'[q].pc = "await" /\ poll'[q].task = t
    <2>1. CASE r.pc = "await" /\ r.task = t
      BY <1>1, <2>1
    <2>2. CASE UnderWay(t) /\ ~(poll[p].pc = "await" /\ poll[p].task = t)
      <3>1. PICK q \in Polls : poll[q].pc = "await" /\ poll[q].task = t
        BY <2>2 DEF PollInv
      <3> QED
        BY <1>1, <2>2, <3>1
    <2> QED
      BY <1>6, <2>1, <2>2
  <1>7. \A q \in Polls : PollOk(poll[q])'
    BY <1>2 DEF PollOk, PollType, RowType
  <1> QED
    BY <1>1, <1>4, <1>5, <1>6, <1>7 DEF PollInv

\* A poll that is at work moves on, while the guard and its tasks stay as they are.
LEMMA AtWork ==
  ASSUME PollInv, NEW p \in Polls, Polling(p), NEW r, PollOk(r), poll' = [poll EXCEPT ![p] = r],
         IF r.pc \in {"new", "over"} THEN isPolling' = FALSE ELSE isPolling' = isPolling,
         enabled' = enabled,
         UNCHANGED <<pc, task>>,
         \A t \in Tasks : poll[p].pc = "await" /\ poll[p].task = t => ~UnderWay(t)
  PROVE  PollInv'
  <1>1. isPolling = TRUE /\ isPolling' \in BOOLEAN /\ enabled' \in BOOLEAN
    BY DEF PollInv
  <1>2. \A q \in Polls : q # p => ~Polling(q)
    BY DEF PollInv
  <1>3. \A t \in Tasks : UnderWay(t)' => UnderWay(t)
    BY DEF UnderWay
  <1> QED
    BY <1>1, <1>2, <1>3, PollMoves

----------------------------------------------------------------------------
(* The steps of the switching *)

\* A flow changes nothing of who asked for a task.
LEMMA FlowTasks ==
  ASSUME TaskInv, NEW t \in Tasks, FlowStep(t)
  PROVE  \A u \in Tasks : task'[u].by = task[u].by
  <1>0. ASSUME NEW r, task' = [task EXCEPT ![t] = r], r.by = task[t].by
        PROVE  \A u \in Tasks : task'[u].by = task[u].by
    BY <1>0 DEF TaskInv
  <1>1. ASSUME NEW ok, Done(t, ok) PROVE \A u \in Tasks : task'[u].by = task[u].by
    <2> DEFINE r == [task[t] EXCEPT !.ok = ok]
    <2>1. task' = [task EXCEPT ![t] = r]
      BY <1>1 DEF Done, TaskInv
    <2>2. r.by = task[t].by
      BY DEF TaskInv, TaskType
    <2> QED
      BY <1>0, <2>1, <2>2
  <1>2. CASE Start(t) \/ SetupCloud(t) \/ RefreshCache(t) \/ Close(t) \/ Launch(t) \/ ReleaseStep(t)
    BY <1>1, <1>2 DEF Start, SetupCloud, RefreshCache, Close, Launch, ReleaseStep
  <1>3. CASE SetupLocal(t)
    <2> DEFINE r == [task[t] EXCEPT !.applies = ~safe, !.index = exists \cap Locals]
    <2>1. Done(t, FALSE) \/ task' = [task EXCEPT ![t] = r]
      BY <1>3 DEF SetupLocal, TaskInv
    <2>2. r.by = task[t].by
      BY DEF TaskInv, TaskType
    <2> QED
      BY <1>0, <1>1, <2>1, <2>2
  <1>4. CASE Prepare(t)
    <2> DEFINE r == [task[t] EXCEPT !.applies = ~safe]
    <2>1. Done(t, FALSE) \/ task' = [task EXCEPT ![t] = r]
      BY <1>4 DEF Prepare, TaskInv
    <2>2. r.by = task[t].by
      BY DEF TaskInv, TaskType
    <2> QED
      BY <1>0, <1>1, <2>1, <2>2
  <1>5. \A f, spent : PerformCloud(t, f, spent) \/ PerformLocal(t, f, spent) =>
          \A u \in Tasks : task'[u].by = task[u].by
    BY <1>1 DEF PerformCloud, PerformLocal
  <1>6. CASE ApplyStep(t)
    BY <1>1, <1>5, <1>6 DEF ApplyStep
  <1>7. CASE Backup(t)
    BY <1>5, <1>7 DEF Backup
  <1> QED
    BY <1>2, <1>3, <1>4, <1>6, <1>7 DEF FlowStep

\* A step of a task or its release starts no new task and takes up no old one.
LEMMA FlowPcs ==
  ASSUME GuardInv, NEW t \in Tasks, Work(t) \/ Release(t)
  PROVE  \A u \in Tasks : pc[u] \in {"settled", "done"} => pc'[u] \in {"settled", "done"}
  <1>1. pc \in [Tasks -> Stages \cup Idle] /\ pendingQueue \in Seq(Tasks)
    BY DEF GuardInv, GuardType
  <1>2. CASE Work(t)
    <2>1. pc[t] \in Stages /\ \E s : pc' = [pc EXCEPT ![t] = s]
      BY <1>2 DEF Work, Settle, GoOn
    <2> QED
      BY <1>1, <2>1, GuardAssumption
  <1>3. CASE Release(t) /\ pendingQueue = <<>>
    BY <1>1, <1>3 DEF Release, ProcessQueue
  <1>4. CASE Release(t) /\ pendingQueue # <<>>
    <2>1. Head(pendingQueue) = pendingQueue[1] /\ 1 \in DOMAIN pendingQueue
      BY <1>1, <1>4, TailElements
    <2>2. pc[Head(pendingQueue)] = "queued"
      BY <2>1 DEF GuardInv
    <2>3. pc' = [[pc EXCEPT ![t] = "done"] EXCEPT ![Head(pendingQueue)] = "start"]
      BY <1>4 DEF Release, ProcessQueue
    <2> QED
      BY <1>1, <2>2, <2>3
  <1> QED
    BY <1>2, <1>3, <1>4

LEMMA SamePolls ==
  ASSUME PollInv, UNCHANGED <<poll, isPolling, enabled>>,
         \A t \in Tasks : UnderWay(t)' => UnderWay(t)
  PROVE  PollInv'
  <1>1. \A p \in Polls : PollOk(poll[p])'
    BY DEF PollInv, PollOk, PollType, RowType
  <1>2. \A p \in Polls : Polling(p)' <=> Polling(p)
    BY DEF Polling
  <1> QED
    BY <1>1, <1>2 DEF PollInv

LEMMA GuardOf ==
  ASSUME GuardInv, NEW t \in Tasks, RunWithSwitchGuard(t) \/ Work(t) \/ Release(t)
  PROVE  GuardInv' /\ GuardNext
  <1>1. GuardNext
    BY DEF GuardNext
  <1> QED
    BY <1>1, GuardStep

LEMMA UserStep ==
  ASSUME Inv, UserAsks, UNCHANGED <<poll, isPolling, enabled>>
  PROVE  Inv' /\ GuardNext
  <1>1. PICK t \in Tasks, a \in exists, g \in Targets : Ask(t, "user", a, g)
    BY DEF UserAsks
  <1>2. a \in Accounts \cup Locals
    BY DEF Inv, SwitchInv, StoreInv, StoreType
  <1>3. /\ RunWithSwitchGuard(t) /\ task'[t].by = "user"
        /\ \A u \in Tasks : u # t => pc'[u] = pc[u] /\ task'[u] = task[u]
    BY <1>1, <1>2, AskKeeps DEF Inv, SwitchInv
  <1>4. \A u \in Tasks : UnderWay(u)' => UnderWay(u)
    BY <1>3 DEF UnderWay
  <1>5. PollInv'
    BY <1>4, SamePolls DEF Inv
  <1>6. Kept
    BY UserAsksKeeps DEF Inv
  <1>7. GuardInv' /\ GuardNext
    BY <1>3, GuardOf DEF Inv, SwitchInv
  <1> QED
    BY <1>5, <1>6, <1>7 DEF Inv, SwitchInv, Kept

LEMMA FlowOfTask ==
  ASSUME Inv, NEW t \in Tasks, Flow(t)
  PROVE  Inv' /\ GuardNext
  <1>1. FlowStep(t) /\ UNCHANGED <<poll, isPolling, enabled>>
    BY DEF Flow
  <1>2. Kept /\ (Work(t) \/ Release(t))
    BY <1>1, FlowKeeps DEF Inv
  <1>3. GuardInv' /\ GuardNext
    BY <1>2, GuardOf DEF Inv, SwitchInv
  <1>4. \A u \in Tasks : UnderWay(u)' => UnderWay(u)
    BY <1>1, <1>2, FlowTasks, FlowPcs DEF UnderWay, Inv, SwitchInv
  <1>5. PollInv'
    BY <1>1, <1>4, SamePolls DEF Inv
  <1> QED
    BY <1>2, <1>3, <1>5 DEF Inv, SwitchInv, Kept

LEMMA BesideStep ==
  ASSUME Inv, Beside, UNCHANGED <<poll, isPolling, enabled>>
  PROVE  Inv' /\ UNCHANGED guardVars
  <1>1. Kept /\ UNCHANGED <<guardVars, task>>
    BY BesideKeeps DEF Inv
  <1>2. PollInv'
    BY <1>1, SamePolls DEF Inv, UnderWay, guardVars
  <1>3. GuardInv'
    BY <1>1, GuardStep DEF Inv, SwitchInv
  <1> QED
    BY <1>1, <1>2, <1>3 DEF Inv, SwitchInv, Kept

----------------------------------------------------------------------------
(* The steps of a poll *)

\* A step that leaves the switching alone.
LEMMA SwitchSame ==
  ASSUME SwitchInv, UNCHANGED switchVars
  PROVE  SwitchInv' /\ UNCHANGED guardVars /\ UNCHANGED <<pc, task>>
  <1>1. /\ UNCHANGED guardVars /\ UNCHANGED profileVars /\ UNCHANGED <<storeVars, files>>
        /\ UNCHANGED <<pc, task>> /\ faults' = faults
    BY DEF switchVars, guardVars, profileVars, counts
  <1>2. GuardInv'
    BY <1>1, GuardStep DEF SwitchInv
  <1>3. TaskInv'
    BY <1>1 DEF SwitchInv, TaskInv
  <1>4. ProfileInv' /\ StoreInv'
    BY <1>1, SameProfile, SameStore DEF SwitchInv, StoreInv, StoreType
  <1> QED
    BY <1>1, <1>2, <1>3, <1>4 DEF SwitchInv

\* A step that changes rows, and spends a fault perhaps.
LEMMA RowsChange ==
  ASSUME SwitchInv, rows' \in [Accounts -> RowType], faults' \in 0..MaxFaults,
         UNCHANGED <<guardVars, profileVars, task, exists, archives, bound, active, recorded,
                     cred, strayed>>
  PROVE  SwitchInv' /\ UNCHANGED guardVars /\ UNCHANGED <<pc, task>>
  <1>1. UNCHANGED guardVars /\ UNCHANGED profileVars /\ files' = files /\ UNCHANGED <<pc, task>>
    BY DEF guardVars, profileVars
  <1>2. GuardInv'
    BY <1>1, GuardStep DEF SwitchInv
  <1>3. TaskInv'
    BY <1>1 DEF SwitchInv, TaskInv
  <1>4. ProfileInv'
    BY <1>1, SameProfile DEF SwitchInv
  <1>5. StoreInv'
    BY <1>1 DEF SwitchInv, StoreInv, StoreType, RecordedIsLoggedIn, Login
  <1> QED
    BY <1>1, <1>2, <1>3, <1>4, <1>5 DEF SwitchInv

\* The record of a poll when it reads the accounts.
LEMMA ReadRecord ==
  ASSUME SwitchInv, PollInv, NEW p \in Polls, NEW stage \in PollPcs, Read(p, stage)
  PROVE  \E r : /\ poll' = [poll EXCEPT ![p] = r] /\ r \in PollType
                /\ r.pc = stage /\ r.targets = poll[p].targets
  <1> DEFINE r == [poll[p] EXCEPT !.pc = stage, !.seen = rows, !.seenIds = exists \cap Accounts,
                     !.lead = active]
  <1>1. /\ poll[p] \in PollType /\ rows \in [Accounts -> RowType]
        /\ active \in Accounts \cup {NoAccount} /\ exists \cap Accounts \in SUBSET Accounts
    BY DEF PollInv, PollOk, SwitchInv, StoreInv, StoreType
  <1>2. r \in PollType /\ r.pc = stage /\ r.targets = poll[p].targets
    BY <1>1 DEF PollType
  <1>3. poll' = [poll EXCEPT ![p] = r]
    BY DEF Read, PollInv
  <1> QED
    BY <1>2, <1>3

LEMMA AtRecord ==
  ASSUME PollInv, NEW p \in Polls, NEW stage \in PollPcs, At(p, stage)
  PROVE  \E r : /\ poll' = [poll EXCEPT ![p] = r] /\ r \in PollType
                /\ r.pc = stage /\ r.account = poll[p].account
  <1> DEFINE r == [poll[p] EXCEPT !.pc = stage]
  <1>1. r \in PollType /\ r.pc = stage /\ r.account = poll[p].account
    BY DEF PollInv, PollOk, PollType
  <1>2. poll' = [poll EXCEPT ![p] = r]
    BY DEF At, PollInv
  <1> QED
    BY <1>1, <1>2

\* What a poll turns to after an account or a target.
LEMMA NextAccountRecord ==
  ASSUME NEW p \in Polls, NEW left \in SUBSET Accounts, NextAccount(p, left)
  PROVE  \E r : poll' = [poll EXCEPT ![p] = r] /\ PollOk(r) /\ r.pc \in {"check", "fetch"}
  <1>1. CASE left = {}
    <2> DEFINE r == [NoPoll EXCEPT !.pc = "check", !.targets = <<"classic", "ide">>]
    <2>1. PollOk(r) /\ r.pc = "check"
      BY NoPollType DEF PollOk, PollType, PollPcs
    <2> QED
      BY <1>1, <2>1 DEF NextAccount
  <1>2. CASE left # {}
    <2>1. PICK a \in left :
            poll' = [poll EXCEPT ![p] = [NoPoll EXCEPT !.pc = "fetch", !.account = a, !.left = left \ {a}]]
      BY <1>2 DEF NextAccount
    <2> DEFINE r == [NoPoll EXCEPT !.pc = "fetch", !.account = a, !.left = left \ {a}]
    <2>2. PollOk(r) /\ r.pc = "fetch"
      BY NoPollType DEF PollOk, PollType, PollPcs
    <2> QED
      BY <2>1, <2>2
  <1> QED
    BY <1>1, <1>2

LEMMA NextTargetRecord ==
  ASSUME PollInv, NEW p \in Polls, poll[p].targets # <<>>, NextTarget(p)
  PROVE  \E r : poll' = [poll EXCEPT ![p] = r] /\ PollOk(r) /\ r.pc = "check"
  <1>1. poll[p].targets \in {<<"classic", "ide">>, <<"ide">>}
    BY DEF PollInv, PollOk, PollType
  <1>2. Tail(poll[p].targets) \in {<<"classic", "ide">>, <<"ide">>, <<>>}
    <2>1. Tail(<<"classic", "ide">>) = <<"ide">> /\ Tail(<<"ide">>) = <<>>
      OBVIOUS
    <2> QED
      BY <1>1, <2>1
  <1>3. PICK rest \in {<<"classic", "ide">>, <<"ide">>, <<>>} : rest = Tail(poll[p].targets)
    BY <1>2
  <1> DEFINE r == [NoPoll EXCEPT !.pc = "check", !.targets = rest]
  <1>4. PollOk(r) /\ r.pc = "check"
    <2>1. NoPoll \in PollType /\ "check" \in PollPcs
      BY NoPollType DEF PollPcs
    <2>2. r \in PollType /\ r.pc = "check"
      BY <2>1 DEF PollType
    <2> HIDE DEF r
    <2> QED
      BY <2>2 DEF PollOk
  <1>5. poll' = [poll EXCEPT ![p] = r]
    BY <1>3 DEF NextTarget
  <1> QED
    BY <1>4, <1>5

LEMMA OverRecord ==
  ASSUME NEW p \in Polls, Over(p)
  PROVE  \E r : /\ poll' = [poll EXCEPT ![p] = r] /\ PollOk(r) /\ r.pc = "over"
                /\ isPolling' = FALSE
  <1> DEFINE r == [NoPoll EXCEPT !.pc = "over"]
  <1>1. PollOk(r) /\ r.pc = "over"
    BY NoPollType DEF PollOk, PollType, PollPcs
  <1> QED
    BY <1>1 DEF Over

\* A poll is called.
LEMMA StartPollKeeps ==
  ASSUME Inv, NEW p \in Polls, poll[p].pc = "new", StartPoll(p), UNCHANGED switchVars,
         enabled' \in BOOLEAN
  PROVE  Inv' /\ UNCHANGED guardVars
  <1>1. SwitchInv' /\ UNCHANGED guardVars /\ UNCHANGED <<pc, task>>
    BY SwitchSame DEF Inv
  <1>2. \A t \in Tasks : UnderWay(t)' => UnderWay(t)
    BY <1>1 DEF UnderWay
  <1>3. CASE isPolling
    <2>1. At(p, "over") /\ isPolling' = isPolling
      BY <1>3 DEF StartPoll
    <2>2. PICK r : poll' = [poll EXCEPT ![p] = r] /\ r \in PollType /\ r.pc = "over"
      BY <2>1, AtRecord DEF Inv, PollPcs
    <2>3. PollOk(r)
      BY <2>2 DEF PollOk
    <2>4. isPolling' = TRUE /\ \E q \in Polls : q # p /\ Polling(q)
      BY <1>3, <2>1 DEF Inv, PollInv, Polling
    <2> QED
      BY <1>1, <1>2, <2>2, <2>3, <2>4, PollMoves DEF Inv
  <1>4. CASE ~isPolling
    <2>1. Read(p, "list") /\ isPolling' = TRUE
      BY <1>4 DEF StartPoll
    <2>2. PICK r : poll' = [poll EXCEPT ![p] = r] /\ r \in PollType /\ r.pc = "list"
      BY <2>1, ReadRecord DEF Inv, PollPcs
    <2>3. PollOk(r)
      BY <2>2 DEF PollOk
    <2>4. \A q \in Polls : ~Polling(q)
      BY <1>4 DEF Inv, PollInv
    <2> QED
      BY <1>1, <1>2, <2>1, <2>2, <2>3, <2>4, PollMoves DEF Inv
  <1> QED
    BY <1>3, <1>4

LEMMA EnabledKeeps ==
  ASSUME Inv, SetAutoSwitchEnabled
  PROVE  Inv' /\ UNCHANGED guardVars
  <1>1. CASE enabled /\ enabled' = FALSE /\ UNCHANGED <<poll, isPolling>>
    <2>1. SwitchInv' /\ UNCHANGED guardVars /\ UNCHANGED <<pc, task>>
      BY SwitchSame DEF Inv, SetAutoSwitchEnabled
    <2>2. \A t \in Tasks : UnderWay(t)' <=> UnderWay(t)
      BY <2>1 DEF UnderWay
    <2>3. \A p \in Polls : PollOk(poll[p])' /\ (Polling(p)' <=> Polling(p))
      BY <1>1 DEF Inv, PollInv, PollOk, PollType, RowType, Polling
    <2>4. PollInv'
      BY <1>1, <2>2, <2>3 DEF Inv, PollInv
    <2> QED
      BY <2>1, <2>4 DEF Inv
  <1>2. CASE /\ ~enabled /\ enabled' = TRUE
             /\ \E p \in Polls : poll[p].pc = "new" /\ StartPoll(p)
    BY <1>2, StartPollKeeps DEF SetAutoSwitchEnabled
  <1> QED
    BY <1>1, <1>2 DEF SetAutoSwitchEnabled

\* A poll moves on and spends a fault perhaps; the switching changes only in its rows.
LEMMA PollMovesOn ==
  ASSUME Inv, NEW p \in Polls, Polling(p), NEW r, PollOk(r), poll' = [poll EXCEPT ![p] = r],
         IF r.pc \in {"new", "over"} THEN isPolling' = FALSE ELSE isPolling' = isPolling,
         enabled' = enabled, rows' \in [Accounts -> RowType], faults' \in 0..MaxFaults,
         \A t \in Tasks : poll[p].pc = "await" /\ poll[p].task = t => ~UnderWay(t),
         UNCHANGED <<guardVars, profileVars, task, exists, archives, bound, active, recorded,
                     cred, strayed>>
  PROVE  Inv' /\ UNCHANGED guardVars
  <1>1. SwitchInv' /\ UNCHANGED guardVars /\ UNCHANGED <<pc, task>>
    BY RowsChange DEF Inv
  <1>2. PollInv'
    BY <1>1, AtWork DEF Inv
  <1> QED
    BY <1>1, <1>2 DEF Inv

\* The same with a poll that ends.
LEMMA PollOver ==
  ASSUME Inv, NEW p \in Polls, Polling(p), Over(p),
         enabled' = enabled, rows' \in [Accounts -> RowType], faults' \in 0..MaxFaults,
         \A t \in Tasks : poll[p].pc = "await" /\ poll[p].task = t => ~UnderWay(t),
         UNCHANGED <<guardVars, profileVars, task, exists, archives, bound, active, recorded,
                     cred, strayed>>
  PROVE  Inv' /\ UNCHANGED guardVars
  <1>1. PICK r : poll' = [poll EXCEPT ![p] = r] /\ PollOk(r) /\ r.pc = "over" /\ isPolling' = FALSE
    BY OverRecord
  <1> QED
    BY <1>1, PollMovesOn

\* What one more fault, or none, leaves of the bound.
LEMMA FaultsTyped ==
  ASSUME Inv
  PROVE  /\ rows \in [Accounts -> RowType] /\ faults \in 0..MaxFaults
         /\ Works(faults) => faults' \in 0..MaxFaults
         /\ \A kind : Fault(kind) => faults' \in 0..MaxFaults
  <1>1. rows \in [Accounts -> RowType] /\ faults \in 0..MaxFaults /\ MaxFaults \in Nat
    BY SwitchAssumption DEF Inv, SwitchInv, StoreInv, StoreType
  <1> QED
    BY <1>1 DEF Works, Fault, FaultAfter

\* The accounts cannot be listed.
LEMMA NoListKeeps ==
  ASSUME Inv, NEW p \in Polls, Polling(p), poll[p].pc # "await", NoList(p), enabled' = enabled
  PROVE  Inv' /\ UNCHANGED guardVars
  <1>1. /\ rows' \in [Accounts -> RowType] /\ faults' \in 0..MaxFaults /\ Over(p)
        /\ UNCHANGED <<guardVars, profileVars, task, exists, archives, bound, active, recorded,
                       cred, strayed>>
    BY FaultsTyped DEF NoList, storeVars
  <1> QED
    BY <1>1, PollOver

LEMMA ListedKeeps ==
  ASSUME Inv, NEW p \in Polls, Listed(p)
  PROVE  Inv' /\ UNCHANGED guardVars
  <1>1. Polling(p) /\ poll[p].pc # "await" /\ enabled' = enabled
    BY DEF Listed, Polling
  <1>2. CASE NextAccount(p, poll[p].seenIds) /\ UNCHANGED <<switchVars, isPolling>>
    <2>1. poll[p].seenIds \in SUBSET Accounts
      BY DEF Inv, PollInv, PollOk, PollType
    <2>2. PICK r : poll' = [poll EXCEPT ![p] = r] /\ PollOk(r) /\ r.pc \in {"check", "fetch"}
      BY <1>2, <2>1, NextAccountRecord
    <2>3. /\ rows' \in [Accounts -> RowType] /\ faults' \in 0..MaxFaults
          /\ UNCHANGED <<guardVars, profileVars, task, exists, archives, bound, active, recorded,
                         cred, strayed>>
      BY <1>2, FaultsTyped DEF switchVars, storeVars, counts
    <2> QED
      BY <1>1, <1>2, <2>2, <2>3, PollMovesOn
  <1>3. CASE NoList(p)
    BY <1>1, <1>3, NoListKeeps
  <1> QED
    BY <1>2, <1>3 DEF Listed

LEMMA FetchedKeeps ==
  ASSUME Inv, NEW p \in Polls, Fetched(p)
  PROVE  Inv' /\ UNCHANGED guardVars
  <1> DEFINE a == poll[p].account
  <1>1. /\ Polling(p) /\ poll[p].pc # "await" /\ enabled' = enabled
        /\ UNCHANGED <<guardVars, profileVars, task, exists, archives, bound, active, recorded,
                       cred, strayed>>
    BY DEF Fetched, Polling
  <1>2. a \in Accounts /\ poll[p].left \in SUBSET Accounts
    BY DEF Fetched, Inv, PollInv, PollOk, PollType
  <1>3. CASE /\ \E q \in {"low", "ok"} : SetRow(a, [rows[a] EXCEPT !.quota = q])
             /\ At(p, "mark") /\ Works(faults) /\ UNCHANGED isPolling
    <2>1. rows' \in [Accounts -> RowType] /\ faults' \in 0..MaxFaults
      BY <1>2, <1>3, FaultsTyped DEF SetRow, RowType, Quotas
    <2>2. PICK r : /\ poll' = [poll EXCEPT ![p] = r] /\ r \in PollType
                   /\ r.pc = "mark" /\ r.account = a
      BY <1>3, AtRecord DEF PollPcs, Inv
    <2>3. PollOk(r)
      BY <1>2, <2>2 DEF PollOk
    <2> QED
      BY <1>1, <1>3, <2>1, <2>2, <2>3, PollMovesOn
  <1>4. CASE /\ Fault("fetch")
             /\ \E s \in {rows[a].status, "rate_limited", "expired"} :
                  SetRow(a, [rows[a] EXCEPT !.status = s])
             /\ NextAccount(p, poll[p].left) /\ UNCHANGED isPolling
    <2>1. rows' \in [Accounts -> RowType] /\ faults' \in 0..MaxFaults
      BY <1>2, <1>4, FaultsTyped DEF SetRow, RowType, Statuses
    <2>2. PICK r : poll' = [poll EXCEPT ![p] = r] /\ PollOk(r) /\ r.pc \in {"check", "fetch"}
      BY <1>2, <1>4, NextAccountRecord
    <2> QED
      BY <1>1, <1>4, <2>1, <2>2, PollMovesOn
  <1>5. CASE Fault("status") /\ Over(p) /\ UNCHANGED rows
    <2>1. rows' \in [Accounts -> RowType] /\ faults' \in 0..MaxFaults
      BY <1>5, FaultsTyped
    <2> QED
      BY <1>1, <1>5, <2>1, PollOver
  <1> QED
    BY <1>3, <1>4, <1>5 DEF Fetched

LEMMA MarkedActiveKeeps ==
  ASSUME Inv, NEW p \in Polls, MarkedActive(p)
  PROVE  Inv' /\ UNCHANGED guardVars
  <1>1. /\ Polling(p) /\ poll[p].pc # "await" /\ enabled' = enabled /\ isPolling' = isPolling
        /\ UNCHANGED <<guardVars, profileVars, task, exists, archives, bound, active, recorded,
                       cred, strayed>>
    BY DEF MarkedActive, Polling
  <1>2. poll[p].account \in Accounts /\ poll[p].left \in SUBSET Accounts
    BY DEF MarkedActive, Inv, PollInv, PollOk, PollType
  <1>3. rows' \in [Accounts -> RowType] /\ faults' \in 0..MaxFaults
    BY <1>2, FaultsTyped DEF MarkedActive, SetRow, RowType, Statuses
  <1>4. PICK r : poll' = [poll EXCEPT ![p] = r] /\ PollOk(r) /\ r.pc \in {"check", "fetch"}
    BY <1>2, NextAccountRecord DEF MarkedActive
  <1> QED
    BY <1>1, <1>3, <1>4, PollMovesOn

LEMMA CheckKeeps ==
  ASSUME Inv, NEW p \in Polls, Check(p)
  PROVE  Inv' /\ UNCHANGED guardVars
  <1>1. /\ Polling(p) /\ poll[p].pc # "await" /\ enabled' = enabled
        /\ UNCHANGED <<guardVars, profileVars, task, exists, archives, bound, active, recorded,
                       cred, strayed>>
    BY DEF Check, Polling, storeVars
  <1>2. rows' \in [Accounts -> RowType] /\ faults' \in 0..MaxFaults
    BY FaultsTyped DEF Check, storeVars
  <1>3. CASE Over(p)
    BY <1>1, <1>2, <1>3, PollOver
  <1>4. CASE poll[p].targets # <<>> /\ NextTarget(p) /\ UNCHANGED isPolling
    <2>1. PICK r : poll' = [poll EXCEPT ![p] = r] /\ PollOk(r) /\ r.pc = "check"
      BY <1>4, NextTargetRecord DEF Inv
    <2> QED
      BY <1>1, <1>2, <1>4, <2>1, PollMovesOn
  <1>5. CASE poll[p].targets # <<>> /\ Read(p, "decide") /\ UNCHANGED isPolling
    <2>1. PICK r : /\ poll' = [poll EXCEPT ![p] = r] /\ r \in PollType
                   /\ r.pc = "decide" /\ r.targets = poll[p].targets
      BY <1>5, ReadRecord DEF PollPcs, Inv
    <2>2. PollOk(r)
      BY <1>5, <2>1 DEF PollOk
    <2> QED
      BY <1>1, <1>2, <1>5, <2>1, <2>2, PollMovesOn
  <1> QED
    BY <1>3, <1>4, <1>5 DEF Check

LEMMA DecideKeeps ==
  ASSUME Inv, NEW p \in Polls, Decide(p)
  PROVE  Inv' /\ UNCHANGED guardVars
  <1>1. /\ Polling(p) /\ poll[p].pc # "await" /\ enabled' = enabled
        /\ poll[p] \in PollType /\ poll[p].targets # <<>>
    BY DEF Decide, Polling, Inv, PollInv, PollOk
  <1>2. ASSUME NEW setting, DecideOn(p, Current(p, setting)), Works(faults) \/ Fault("setting"),
               UNCHANGED <<guardVars, profileVars, task, storeVars, isPolling>>
        PROVE  Inv' /\ UNCHANGED guardVars
    <2>1. /\ rows' \in [Accounts -> RowType] /\ faults' \in 0..MaxFaults
          /\ UNCHANGED <<guardVars, profileVars, task, exists, archives, bound, active, recorded,
                         cred, strayed>>
      BY <1>2, FaultsTyped DEF storeVars
    <2>2. CASE NextTarget(p)
      <3>1. PICK r : poll' = [poll EXCEPT ![p] = r] /\ PollOk(r) /\ r.pc = "check"
        BY <1>1, <2>2, NextTargetRecord DEF Inv
      <3> QED
        BY <1>1, <1>2, <2>1, <3>1, PollMovesOn
    <2>3. CASE ~NextTarget(p)
      <3>1. PICK current : current = Current(p, setting)
        OBVIOUS
      <3> DEFINE r == [poll[p] EXCEPT !.pc = "best", !.current = current, !.seen = rows,
                         !.seenIds = exists \cap Accounts, !.lead = NoAccount]
      <3>2. poll' = [poll EXCEPT ![p] = r]
        BY <1>2, <2>3, <3>1 DEF DecideOn, Inv, PollInv
      <3>3. current \in Accounts \cup {NoAccount} /\ exists \cap Accounts \in SUBSET Accounts
        BY <1>1, <3>1 DEF Current, PollType
      <3>4. rows \in [Accounts -> RowType]
        BY FaultsTyped
      <3>5. r \in PollType /\ r.pc = "best" /\ r.targets = poll[p].targets
        BY <1>1, <3>3, <3>4 DEF PollType, PollPcs
      <3> HIDE DEF r
      <3>6. PollOk(r)
        BY <1>1, <3>5 DEF PollOk
      <3> QED
        BY <1>1, <1>2, <2>1, <3>2, <3>5, <3>6, PollMovesOn
    <2> QED
      BY <2>2, <2>3
  <1>3. CASE NoList(p)
    BY <1>1, <1>3, NoListKeeps
  <1> QED
    BY <1>2, <1>3 DEF Decide

LEMMA SwitchedKeeps ==
  ASSUME Inv, NEW p \in Polls, Switched(p)
  PROVE  Inv' /\ UNCHANGED guardVars
  <1>1. /\ Polling(p) /\ enabled' = enabled /\ poll[p].targets # <<>>
        /\ rows' \in [Accounts -> RowType] /\ faults' \in 0..MaxFaults
        /\ UNCHANGED <<guardVars, profileVars, task, exists, archives, bound, active, recorded,
                       cred, strayed>>
    BY FaultsTyped DEF Switched, Polling, Inv, PollInv, PollOk, switchVars, storeVars, counts
  <1>2. \A t \in Tasks : poll[p].pc = "await" /\ poll[p].task = t => ~UnderWay(t)
    BY DEF Switched, UnderWay
  <1>3. CASE Over(p)
    BY <1>1, <1>2, <1>3, PollOver
  <1>4. CASE NextTarget(p) /\ UNCHANGED isPolling
    <2>1. PICK r : poll' = [poll EXCEPT ![p] = r] /\ PollOk(r) /\ r.pc = "check"
      BY <1>1, <1>4, NextTargetRecord DEF Inv
    <2> QED
      BY <1>1, <1>2, <1>4, <2>1, PollMovesOn
  <1> QED
    BY <1>3, <1>4 DEF Switched

\* A switch is asked for: no other one of the monitor is under way, because the
\* poll that would wait for it is this one.
LEMMA SwitchToKeeps ==
  ASSUME Inv, NEW p \in Polls, SwitchTo(p)
  PROVE  Inv' /\ (GuardNext \/ UNCHANGED guardVars)
  <1>1. /\ Polling(p) /\ poll[p].pc = "best" /\ PollOk(poll[p]) /\ SwitchInv /\ PollInv
        /\ enabled' = enabled
    BY DEF Inv, PollInv, Polling, SwitchTo
  <1>2. poll[p].targets # <<>> /\ poll[p].targets \in {<<"classic", "ide">>, <<"ide">>, <<>>}
    BY <1>1 DEF PollOk, PollType
  <1>3. CASE NoList(p)
    BY <1>1, <1>3, NoListKeeps
  <1>4. CASE NextTarget(p) /\ UNCHANGED <<switchVars, isPolling>>
    <2>1. PICK r : poll' = [poll EXCEPT ![p] = r] /\ PollOk(r) /\ r.pc = "check"
      BY <1>1, <1>2, <1>4, NextTargetRecord
    <2>2. /\ rows' \in [Accounts -> RowType] /\ faults' \in 0..MaxFaults
          /\ UNCHANGED <<guardVars, profileVars, task, exists, archives, bound, active, recorded,
                         cred, strayed>>
      BY <1>4, FaultsTyped DEF switchVars, storeVars, counts
    <2> QED
      BY <1>1, <1>4, <2>1, <2>2, PollMovesOn
  <1>5. ASSUME NEW a \in BestAccounts(p), NEW t \in Tasks,
               Ask(t, "monitor", a, Head(poll[p].targets)), Await(p, t),
               UNCHANGED <<profileVars, storeVars, counts, isPolling>>
        PROVE  Inv' /\ GuardNext
    <2>0. ProfileInv' /\ StoreInv'
      <3>1. UNCHANGED profileVars /\ UNCHANGED <<storeVars, files>> /\ faults' = faults
        BY <1>5 DEF profileVars, counts
      <3> QED
        BY <1>1, <3>1, SameProfile, SameStore DEF SwitchInv, StoreInv, StoreType
    <2>1. a \in Accounts
      BY <1>1 DEF BestAccounts, PollOk, PollType
    <2>2. Head(poll[p].targets) \in Targets
      <3>1. Head(<<"classic", "ide">>) = "classic" /\ Head(<<"ide">>) = "ide"
        OBVIOUS
      <3> QED
        BY <1>2, <3>1 DEF Targets
    <2>3. PICK g \in Targets : Ask(t, "monitor", a, g)
      BY <1>5, <2>2
    <2>4. /\ TaskInv' /\ RunWithSwitchGuard(t)
          /\ \A u \in Tasks : u # t => pc'[u] = pc[u] /\ task'[u] = task[u]
      BY <1>1, <2>1, <2>3, AskKeeps DEF SwitchInv
    <2>5. GuardInv' /\ GuardNext
      BY <1>1, <2>4, GuardOf DEF SwitchInv
    <2> DEFINE r == [NoPoll EXCEPT !.pc = "await", !.task = t, !.targets = poll[p].targets]
    <2>6. poll' = [poll EXCEPT ![p] = r]
      BY <1>5 DEF Await
    <2>7. PollOk(r) /\ r.pc = "await" /\ r.task = t
      BY <1>2, NoPollType DEF PollOk, PollType, PollPcs, NoPoll
    <2>8. \A q \in Polls : q # p => ~Polling(q)
      BY <1>1 DEF PollInv
    <2>9. \A u \in Tasks : ~UnderWay(u)
      BY <1>1, <2>8 DEF PollInv, Polling
    <2>10. \A u \in Tasks : UnderWay(u)' => u = t
      BY <2>4, <2>9 DEF UnderWay
    <2>11. isPolling' = TRUE /\ enabled' \in BOOLEAN
      BY <1>1, <1>5 DEF PollInv
    <2> HIDE DEF r
    <2>12. PollInv'
      BY <1>1, <2>6, <2>7, <2>8, <2>10, <2>11, PollMoves
    <2> QED
      BY <2>0, <2>4, <2>5, <2>12 DEF Inv, SwitchInv
  <1> QED
    BY <1>3, <1>4, <1>5 DEF SwitchTo

\* Every step keeps the invariant and is a step of the guard, or none of it.
LEMMA Step ==
  ASSUME Inv, [Next]_vars
  PROVE  Inv' /\ [GuardNext]_guardVars
  <1>1. CASE UserAsks /\ UNCHANGED <<poll, isPolling, enabled>>
    BY <1>1, UserStep
  <1>2. CASE \E t \in Tasks : Flow(t)
    BY <1>2, FlowOfTask
  <1>3. CASE Beside /\ UNCHANGED <<poll, isPolling, enabled>>
    BY <1>3, BesideStep
  <1>4. ASSUME NEW p \in Polls, PollCalled(p) PROVE Inv' /\ [GuardNext]_guardVars
    <2>1. poll[p].pc = "new" /\ StartPoll(p) /\ UNCHANGED switchVars /\ enabled' \in BOOLEAN
      BY <1>4 DEF PollCalled, Inv, PollInv
    <2> QED
      BY <2>1, StartPollKeeps
  <1>5. ASSUME NEW p \in Polls, PollStep(p) PROVE Inv' /\ [GuardNext]_guardVars
    BY <1>5, ListedKeeps, FetchedKeeps, MarkedActiveKeeps, CheckKeeps, DecideKeeps,
       SwitchToKeeps, SwitchedKeeps DEF PollStep
  <1>6. CASE SetAutoSwitchEnabled
    BY <1>6, EnabledKeeps
  <1>7. CASE UNCHANGED vars
    <2>1. UNCHANGED switchVars /\ UNCHANGED <<poll, isPolling, enabled>>
      BY <1>7 DEF vars
    <2>2. SwitchInv' /\ UNCHANGED guardVars /\ UNCHANGED <<pc, task>>
      BY <2>1, SwitchSame DEF Inv
    <2>3. PollInv'
      BY <2>1, <2>2, SamePolls DEF Inv, UnderWay
    <2> QED
      BY <2>2, <2>3 DEF Inv
  <1> QED
    BY <1>1, <1>2, <1>3, <1>4, <1>5, <1>6, <1>7 DEF Next

----------------------------------------------------------------------------
LEMMA AlwaysInv == Spec => []Inv
  <1>1. Inv /\ [Next]_vars => Inv'
    BY Step
  <1> QED
    BY InitHolds, <1>1, PTL DEF Spec

\* The types of CloudMonitor: what a flow and a poll hold is what their next step
\* needs, and the faults stay within their bound.
THEOREM TypeCorrect == Spec => []TypeOK
  BY AlwaysInv, InvTypes, PTL

\* switchGuard.ts under the real flows and the monitor: switches are served one
\* at a time and in the order of the requests.
THEOREM SwitchesInOrder == Spec => ServedInOrder
  <1>1. Init => GuardInit
    BY DEF Init, SwitchInit
  <1>2. Inv /\ [Next]_vars => [GuardNext]_guardVars
    BY Step
  <1>3. Spec => GuardSpec
    BY AlwaysInv, <1>1, <1>2, PTL DEF Spec, GuardSpec
  <1> QED
    BY <1>3, GuardServesInOrder, PTL

\* applyDeviceProfile: whichever of the operations in FaultKinds fail, in any number
\* of applies, the profile and the machine id of a target agree, unless the last
\* apply reported rollback_failed or could not read the id that it checked after it
\* had restored an older copy or files that did not agree before.
THEOREM MachineIdsAgreeCorrect == Spec => []MachineIdsAgree
  <1>1. Inv => MachineIdsAgree
    BY DEF Inv, SwitchInv, ProfileInv
  <1> QED
    BY AlwaysInv, <1>1, PTL

\* switchCloudAccount: the account recorded for a target is the one its editor
\* is logged in with, unless a local account or a failure came in between.
THEOREM RecordedIsLoggedInCorrect == Spec => []RecordedIsLoggedIn
  <1>1. Inv => RecordedIsLoggedIn
    BY DEF Inv, SwitchInv, StoreInv
  <1> QED
    BY AlwaysInv, <1>1, PTL

\* isPolling: however polls are called and whatever ends them, at most one is at
\* work, and the flag is set exactly while one is.
THEOREM OnePollCorrect == Spec => []OnePoll
  <1>1. Inv => OnePoll
    BY DEF Inv, PollInv, OnePoll
  <1> QED
    BY AlwaysInv, <1>1, PTL

\* isPolling and the await of the switch: however many polls are called, the
\* monitor has at most one switch under way.
THEOREM OneAutoSwitchCorrect == Spec => []OneAutoSwitch
  <1>1. Inv => OneAutoSwitch
    <2> SUFFICES ASSUME Inv, NEW t \in Tasks, NEW u \in Tasks, UnderWay(t), UnderWay(u) PROVE t = u
      BY DEF OneAutoSwitch
    <2>1. PICK p \in Polls : poll[p].pc = "await" /\ poll[p].task = t
      BY DEF Inv, PollInv
    <2>2. PICK q \in Polls : poll[q].pc = "await" /\ poll[q].task = u
      BY DEF Inv, PollInv
    <2>3. Polling(p) /\ Polling(q)
      BY <2>1, <2>2 DEF Polling
    <2> QED
      BY <2>1, <2>2, <2>3 DEF Inv, PollInv
  <1> QED
    BY AlwaysInv, <1>1, PTL
=============================================================================
