-------------------------- MODULE TaskBillingProofs --------------------------
(* A video task is billed once: proved for every number of tasks, of polling *)
(* nodes, of database errors and of crashes.  The argument is the CAS: a node *)
(* bills a task only after it has moved the row out of an unfinished status,  *)
(* and no copy that any node holds lets it do that a second time.             *)
EXTENDS TaskPollingProofs, FiniteSetTheorems

\* A node is billing task t.
Bills(p, t) == poller[p].cur = t /\ poller[p].at \in {"funding", "token"}

PollInv(p) ==
  /\ poller[p].at # "save"
  /\ poller[p].at \in {"sleep", "next"} => poller[p].cur = NoTask

\* What node p knows of task t: a copy was taken of an unfinished row; while
\* p bills t, the task has ended and nothing else has touched its ledger.
CopyInv(p, t) ==
  LET P == poller[p]
      c == P.copy[t]
      q == row[t].quota IN
  /\ c # Absent => row[t] # Absent /\ c.quota = q /\ c.status \in Unfinished
  /\ P.cur = t => c # Absent
  /\ P.cur = t /\ P.at = "answered" /\ P.answer = "SUCCESS" => upstream[t] = "SUCCESS"
  /\ Bills(p, t) =>
       /\ row[t].status \in Final
       /\ tokenPaid[t] = q
       /\ paid[t] = IF P.at = "token" THEN q + P.amount ELSE q
       /\ P.amount >= -q
       /\ t \notin forced => q + P.amount \in Due(t)

TaskInv(t) ==
  /\ paid[t] >= 0 /\ tokenPaid[t] >= 0
  /\ row[t] = Absent \/ row[t].status \in Unfinished \cup Final
  /\ row[t].status \in Unfinished =>
       /\ ~row[t].full
       /\ paid[t] = row[t].quota /\ tokenPaid[t] = row[t].quota
       /\ \A p \in Pollers : ~Bills(p, t)
  /\ row[t].status = "SUCCESS" => upstream[t] = "SUCCESS"
  /\ \A p, q \in Pollers : Bills(p, t) /\ Bills(q, t) => p = q
  /\ row[t] # Absent /\ t \notin disturbed /\ t \notin forced /\ (\A p \in Pollers : ~Bills(p, t))
       => paid[t] \in Due(t) /\ tokenPaid[t] = paid[t]

BillingInv ==
  /\ \A p \in Pollers : PollInv(p)
  /\ \A t \in Tasks : TaskInv(t)
  /\ \A p \in Pollers, t \in Tasks : CopyInv(p, t)

\* The scope of the theorems.  Songs are saved without a CAS, a real-time
\* fetch changes the status without billing, and a submission whose settlement
\* failed stores a quota that was not charged: the runs show what these do.
VideosOnly == Suno = {} /\ Realtime = {} /\ "settle" \notin FaultPoints

-----------------------------------------------------------------------------
(* Steps that do not concern a task.                                         *)

SameTask(t) ==
  /\ row'[t] = row[t] /\ paid'[t] = paid[t] /\ tokenPaid'[t] = tokenPaid[t]
  /\ upstream'[t] = upstream[t] /\ cost'[t] = cost[t]
  /\ t \in disturbed => t \in disturbed'
  /\ t \in forced' <=> t \in forced

SameHold(p, t) ==
  \/ /\ poller'[p].cur = poller[p].cur /\ poller'[p].at = poller[p].at
     /\ poller'[p].amount = poller[p].amount /\ poller'[p].answer = poller[p].answer
  \/ poller[p].cur # t /\ poller'[p].cur # t

LEMMA FrameTask ==
  ASSUME NEW t \in Tasks, TaskInv(t), SameTask(t), \A p \in Pollers : SameHold(p, t)
  PROVE  TaskInv(t)'
<1>1. \A p \in Pollers : Bills(p, t)' <=> Bills(p, t)
  BY DEF SameHold, Bills
<1>2. Due(t)' = Due(t)
  BY DEF SameTask, Due
<1> QED
  BY <1>1, <1>2 DEF TaskInv, SameTask

LEMMA FrameCopy ==
  ASSUME NEW p \in Pollers, NEW t \in Tasks, CopyInv(p, t), SameTask(t), SameHold(p, t),
         \/ poller'[p].copy[t] = poller[p].copy[t]
         \/ poller'[p].copy[t] = Absent /\ poller'[p].cur # t
  PROVE  CopyInv(p, t)'
<1>1. Bills(p, t)' <=> Bills(p, t)
  BY DEF SameHold, Bills
<1>2. Due(t)' = Due(t)
  BY DEF SameTask, Due
<1> QED
  BY <1>1, <1>2 DEF CopyInv, SameTask, SameHold, Bills

\* The other nodes and the other tasks, when node p deals with task t.
LEMMA FrameOthers ==
  ASSUME BillingInv, NEW p \in Pollers, NEW t \in Tasks,
         poller[p].cur \in {t, NoTask}, poller'[p].cur \in {t, NoTask},
         \A u \in Tasks : u # t => poller'[p].copy[u] = poller[p].copy[u],
         \A q \in Pollers : q # p => poller'[q] = poller[q],
         \A u \in Tasks : u # t => SameTask(u),
         PollInv(p)', TaskInv(t)', \A q \in Pollers : CopyInv(q, t)'
  PROVE  BillingInv'
<1>1. \A u \in Tasks : u # NoTask
  BY TaskAssumption DEF NoTask
<1>2. ASSUME NEW u \in Tasks, u # t PROVE \A q \in Pollers : SameHold(q, u)
  BY <1>1, <1>2 DEF SameHold
<1>3. ASSUME NEW u \in Tasks, u # t PROVE TaskInv(u)'
  BY <1>2, <1>3, FrameTask DEF BillingInv
<1>4. ASSUME NEW u \in Tasks, u # t, NEW q \in Pollers PROVE CopyInv(q, u)'
  <2>1. poller'[q].copy[u] = poller[q].copy[u] /\ SameHold(q, u) /\ CopyInv(q, u) /\ SameTask(u)
    BY <1>2, <1>4 DEF BillingInv
  <2> QED
    BY <2>1, FrameCopy
<1>5. \A q \in Pollers : PollInv(q)'
  BY DEF BillingInv, PollInv
<1> QED
  BY <1>3, <1>4, <1>5 DEF BillingInv

\* A copy of a row that is still unfinished: the task has been charged its
\* quota and no node is billing it.
LEMMA Won ==
  ASSUME TypeOK, BillingInv, NEW p \in Pollers, NEW t \in Tasks,
         poller[p].copy[t] # Absent, CAS(t, poller[p].copy[t].status)
  PROVE  /\ poller[p].copy[t].quota = row[t].quota /\ row[t].quota \in Nat
         /\ paid[t] = row[t].quota /\ tokenPaid[t] = row[t].quota
         /\ \A q \in Pollers : ~Bills(q, t)
<1>1. CopyInv(p, t) /\ TaskInv(t) /\ row[t].quota \in Nat
  BY RowTyped DEF BillingInv, TypeOK
<1> QED
  BY <1>1 DEF CopyInv, TaskInv, CAS

\* The winner of a CAS to a final status bills the task.
LEMMA WinBill ==
  ASSUME TypeOK, BillingInv, NEW p \in Pollers, NEW t \in Tasks, NEW s \in Final, NEW d \in Int,
         poller[p].cur \in {t, NoTask}, poller[p].copy[t] # Absent,
         CAS(t, poller[p].copy[t].status),
         row' = [row EXCEPT ![t] = Row(s, TRUE, poller[p].copy[t].quota)],
         Bill(p, t, d), UNCHANGED <<env, ledger, disturbed, forced>>,
         d >= -row[t].quota, row[t].quota + d \in Due(t)', s = "SUCCESS" => upstream[t] = "SUCCESS"
  PROVE  BillingInv'
<1> USE DEF env, ledger
<1> DEFINE q0 == row[t].quota
<1>1. /\ poller[p].copy[t].quota = q0 /\ q0 \in Nat
      /\ paid[t] = q0 /\ tokenPaid[t] = q0 /\ \A q \in Pollers : ~Bills(q, t)
  BY Won
<1>2. /\ poller'[p].at = "funding" /\ poller'[p].cur = t /\ poller'[p].amount = d
      /\ poller'[p].copy = poller[p].copy
      /\ \A q \in Pollers : q # p => poller'[q] = poller[q]
  BY BillEffect
<1>3. /\ row'[t] = Row(s, TRUE, q0) /\ row'[t].status = s /\ row'[t].quota = q0
      /\ row'[t] # Absent
      /\ \A u \in Tasks : u # t => row'[u] = row[u]
  BY <1>1 DEF TypeOK, Row, Absent, Final
<1>4. \A q \in Pollers : Bills(q, t)' <=> q = p
  BY <1>1, <1>2 DEF Bills
<1>5. TaskInv(t)'
  <2>1. \A q, r \in Pollers : Bills(q, t)' /\ Bills(r, t)' => q = r
    BY <1>4
  <2>2. s \notin Unfinished /\ s \in Unfinished \cup Final
    BY DEF Final, Unfinished
  <2>3. paid'[t] = q0 /\ tokenPaid'[t] = q0 /\ upstream'[t] = upstream[t] /\ Bills(p, t)'
    BY <1>1, <1>4
  <2>4. \E q \in Pollers : Bills(q, t)'
    BY <2>3
  <2>5. row'[t].status \notin Unfinished
    BY <2>2, <1>3
  <2>7. paid'[t] >= 0 /\ tokenPaid'[t] >= 0
    <3>1. \A n \in Nat : n >= 0
      OBVIOUS
    <3>2. paid'[t] \in Nat /\ tokenPaid'[t] \in Nat
      BY <1>1, <2>3
    <3> QED
      BY <3>1, <3>2
  <2>6. row'[t].status \in Unfinished \cup Final /\ (row'[t].status = "SUCCESS" => upstream'[t] = "SUCCESS")
    BY <2>2, <2>3, <1>3
  <2> QED
    BY <2>1, <2>4, <2>5, <2>6, <2>7 DEF TaskInv
<1>6. ASSUME NEW q \in Pollers PROVE CopyInv(q, t)'
  <2>1. CopyInv(q, t) /\ (Bills(q, t)' <=> q = p)
    BY <1>4 DEF BillingInv
  <2>2. CASE q = p
    BY <2>1, <2>2, <1>1, <1>2, <1>3 DEF CopyInv
  <2>3. CASE q # p
    <3>1. poller'[q] = poller[q] /\ ~Bills(q, t)' /\ upstream' = upstream
      BY <2>1, <2>3, <1>2
    <3> QED
      BY <3>1, <2>1, <1>3 DEF CopyInv
  <2> QED
    BY <2>2, <2>3
<1>7. PollInv(p)'
  BY <1>2 DEF PollInv
<1>8. \A u \in Tasks : u # t => SameTask(u)
  BY <1>3 DEF SameTask
<1> QED
  BY <1>2, <1>5, <1>6, <1>7, <1>8, FrameOthers

\* The winner of a CAS that calls for no billing is done with the task.
LEMMA WinDrop ==
  ASSUME TypeOK, BillingInv, NEW p \in Pollers, NEW t \in Tasks, NEW s \in Final \cup Unfinished,
         poller[p].cur \in {t, NoTask}, poller[p].copy[t] # Absent,
         CAS(t, poller[p].copy[t].status),
         row' = [row EXCEPT ![t] = Row(s, s \in Final, poller[p].copy[t].quota)],
         Drop(p, t), UNCHANGED <<env, ledger, disturbed, forced>>,
         row[t].quota \in Due(t)', s = "SUCCESS" => upstream[t] = "SUCCESS"
  PROVE  BillingInv'
<1> USE DEF env, ledger
<1> DEFINE q0 == row[t].quota
<1>1. /\ poller[p].copy[t].quota = q0 /\ q0 \in Nat
      /\ paid[t] = q0 /\ tokenPaid[t] = q0 /\ \A q \in Pollers : ~Bills(q, t)
  BY Won
<1>2. /\ poller'[p].at = "next" /\ poller'[p].cur = NoTask
      /\ poller'[p].copy = [poller[p].copy EXCEPT ![t] = Absent]
      /\ poller[p].copy \in [Tasks -> RowType]
      /\ \A q \in Pollers : q # p => poller'[q] = poller[q]
  BY DropEffect, PollerFields DEF TypeOK
<1>3. /\ row'[t].status = s /\ row'[t].quota = q0 /\ (row'[t].full <=> s \in Final)
      /\ row'[t] # Absent
      /\ \A u \in Tasks : u # t => row'[u] = row[u]
  BY <1>1 DEF TypeOK, Row, Absent, Final, Unfinished
<1>4. t # NoTask /\ \A q \in Pollers : ~Bills(q, t)'
  BY <1>1, <1>2, TaskAssumption DEF Bills, NoTask
<1>5. TaskInv(t)'
  BY <1>1, <1>3, <1>4 DEF TaskInv, Final, Unfinished
<1>6. ASSUME NEW q \in Pollers PROVE CopyInv(q, t)'
  <2>1. CopyInv(q, t) /\ ~Bills(q, t)'
    BY <1>4 DEF BillingInv
  <2>2. CASE q = p
    BY <2>1, <2>2, <1>2, <1>4 DEF CopyInv
  <2>3. CASE q # p
    <3>1. poller'[q] = poller[q] /\ upstream' = upstream
      BY <2>3, <1>2
    <3> QED
      BY <3>1, <2>1, <1>3 DEF CopyInv
  <2> QED
    BY <2>2, <2>3
<1>7. PollInv(p)'
  BY <1>2 DEF PollInv
<1>8. \A u \in Tasks : u # t => SameTask(u)
  BY <1>3 DEF SameTask
<1>9. \A u \in Tasks : u # t => poller'[p].copy[u] = poller[p].copy[u]
  BY <1>2
<1> QED
  BY <1>2, <1>5, <1>6, <1>7, <1>8, <1>9, FrameOthers

\* A node that does nothing to the task it has taken.
LEMMA JustDrop ==
  ASSUME TypeOK, BillingInv, NEW p \in Pollers, NEW t \in Tasks,
         poller[p].cur \in {t, NoTask}, ~Bills(p, t), Drop(p, t),
         UNCHANGED <<row, env, ledger, disturbed, forced>>
  PROVE  BillingInv'
<1> USE DEF env, ledger
<1>2. /\ poller'[p].at = "next" /\ poller'[p].cur = NoTask
      /\ poller'[p].copy = [poller[p].copy EXCEPT ![t] = Absent]
      /\ poller[p].copy \in [Tasks -> RowType]
      /\ \A q \in Pollers : q # p => poller'[q] = poller[q]
  BY DropEffect, PollerFields DEF TypeOK
<1>4. t # NoTask
  BY TaskAssumption DEF NoTask
<1>3. \A q \in Pollers : Bills(q, t)' <=> Bills(q, t)
  BY <1>2, <1>4 DEF Bills
<1>5. TaskInv(t)'
  BY <1>3 DEF BillingInv, TaskInv, Due
<1>6. ASSUME NEW q \in Pollers PROVE CopyInv(q, t)'
  <2>1. CopyInv(q, t) /\ (Bills(q, t)' <=> Bills(q, t))
    BY <1>3 DEF BillingInv
  <2>2. CASE q = p
    BY <2>1, <2>2, <1>2, <1>4 DEF CopyInv
  <2>3. CASE q # p
    <3>1. poller'[q] = poller[q]
      BY <2>3, <1>2
    <3> QED
      BY <3>1, <2>1 DEF CopyInv, Due
  <2> QED
    BY <2>2, <2>3
<1>7. PollInv(p)'
  BY <1>2 DEF PollInv
<1>8. \A u \in Tasks : u # t => SameTask(u)
  BY DEF SameTask
<1>9. \A u \in Tasks : u # t => poller'[p].copy[u] = poller[p].copy[u]
  BY <1>2
<1> QED
  BY <1>2, <1>5, <1>6, <1>7, <1>8, <1>9, FrameOthers

-----------------------------------------------------------------------------
(* The invariant.                                                            *)

LEMMA BillingInit == Init => BillingInv
<1> SUFFICES ASSUME Init PROVE BillingInv
  OBVIOUS
<1>0. \A t \in Tasks : t # NoTask
  BY TaskAssumption DEF NoTask
<1>1. \A p \in Pollers : /\ poller[p].at = "sleep" /\ poller[p].cur = NoTask
                         /\ \A t \in Tasks : poller[p].copy[t] = Absent
  BY DEF Init, Asleep, NoCopies
<1>2. \A t \in Tasks : /\ row[t] = Absent /\ row[t].status = "absent"
                       /\ paid[t] = 0 /\ tokenPaid[t] = 0
  BY DEF Init, NoCopies, Absent, Row
<1>3. \A p \in Pollers : PollInv(p)
  BY <1>1 DEF PollInv
<1>4. \A p \in Pollers, t \in Tasks : ~Bills(p, t) /\ CopyInv(p, t)
  BY <1>0, <1>1 DEF CopyInv, Bills
<1>5. \A t \in Tasks : TaskInv(t)
  BY <1>2, <1>4 DEF TaskInv, Unfinished
<1> QED
  BY <1>3, <1>4, <1>5 DEF BillingInv

\* Loading rows: the copies taken are of unfinished rows.
LEMMA LoadKeeps ==
  ASSUME TypeOK, BillingInv, NEW p \in Pollers, NEW phase \in {"sweep", "poll"}, NEW S,
         poller[p].at \in {"sleep", "next"},
         \A t \in S : t \in Tasks => UnfinishedRow(row[t]),
         Round(p, phase, Copies(S)), UNCHANGED <<row, env, ledger, disturbed, forced>>
  PROVE  BillingInv'
<1> USE DEF env, ledger
<1>1. /\ poller'[p].at = "next" /\ poller'[p].cur = NoTask /\ poller'[p].copy = Copies(S)
      /\ \A q \in Pollers : q # p => poller'[q] = poller[q]
  BY CopiesTyped, RoundEffect
<1>2. poller[p].cur = NoTask /\ \A t \in Tasks : t # NoTask
  BY TaskAssumption DEF BillingInv, PollInv, NoTask
<1>3. \A q \in Pollers : PollInv(q)'
  BY <1>1 DEF BillingInv, PollInv
<1>4. \A t \in Tasks : SameTask(t) /\ \A q \in Pollers : SameHold(q, t)
  BY <1>1, <1>2 DEF SameTask, SameHold
<1>5. \A t \in Tasks : TaskInv(t)'
  BY <1>4, FrameTask DEF BillingInv
<1>6. ASSUME NEW q \in Pollers, NEW t \in Tasks PROVE CopyInv(q, t)'
  <2>1. CASE q # p
    BY <2>1, <1>1, <1>4, FrameCopy DEF BillingInv
  <2>2. CASE q = p
    <3>1. \/ poller'[p].copy[t] = Absent
          \/ poller'[p].copy[t] = row[t] /\ row[t].status \in Unfinished
      BY <1>1 DEF Copies, UnfinishedRow
    <3>2. ~Bills(p, t)' /\ poller'[p].cur # t
      BY <1>1, <1>2 DEF Bills
    <3> QED
      BY <2>2, <3>1, <3>2 DEF CopyInv
  <2> QED
    BY <2>1, <2>2
<1> QED
  BY <1>3, <1>5, <1>6 DEF BillingInv

LEMMA BillingStep ==
  ASSUME TypeInv, BillingInv, [Next]_vars, VideosOnly
  PROVE  BillingInv'
<1> USE DEF env, ledger, counters
<1>0. TypeOK /\ (\A p \in Pollers : PollerOK(p)) /\ (\A t \in Tasks : GetOK(t))
  BY DEF TypeInv
<1>n. \A t \in Tasks : t # NoTask /\ t \notin Suno /\ t \notin Realtime
  BY TaskAssumption DEF NoTask, VideosOnly
<1>i. /\ \A p \in Pollers : PollInv(p)
      /\ \A t \in Tasks : TaskInv(t)
      /\ \A p \in Pollers, t \in Tasks : CopyInv(p, t)
  BY DEF BillingInv
<1>s. ASSUME NEW p \in Pollers
      PROVE  poller[p].copy \in [Tasks -> RowType] /\ poller[p].amount \in Int
  BY <1>0, PollerFields DEF TypeOK
<1>q. ASSUME NEW t \in Tasks
      PROVE  row[t].quota \in Nat /\ paid[t] \in Int /\ tokenPaid[t] \in Int /\ cost[t] \in Nat
  BY <1>0, RowTyped DEF TypeOK
<1>1. ASSUME NEW t \in Tasks, NEW pre \in PreQuotas, NEW q \in Quotas, Submit(t, pre, q)
      PROVE  BillingInv'
  <2>1. /\ row[t] = Absent /\ poller' = poller /\ upstream' = upstream /\ forced' = forced
        /\ cost' = cost
    BY <1>1 DEF Submit
  <2>2. \A p \in Pollers : poller[p].copy[t] = Absent /\ poller[p].cur # t
    BY <2>1, <1>i DEF CopyInv
  <2>3. /\ paid' = [paid EXCEPT ![t] = q] /\ tokenPaid' = [tokenPaid EXCEPT ![t] = q]
        /\ \/ row' = [row EXCEPT ![t] = Row("NOT_START", FALSE, q)] /\ disturbed' = disturbed
           \/ row' = row /\ disturbed' = disturbed \cup {t}
    BY <1>1 DEF Submit, VideosOnly, Fault
  <2>4. q \in Nat
    BY TaskAssumption
  <2>5. \A p \in Pollers : ~Bills(p, t)' /\ CopyInv(p, t)'
    BY <2>1, <2>2 DEF CopyInv, Bills
  <2>6. TaskInv(t)'
    <3>1. paid'[t] = q /\ tokenPaid'[t] = q
      BY <2>3, <1>0 DEF TypeOK
    <3>2. CASE row' = [row EXCEPT ![t] = Row("NOT_START", FALSE, q)]
      <4>1. /\ row'[t].status = "NOT_START" /\ row'[t].quota = q /\ ~row'[t].full
        BY <3>2, <1>0 DEF TypeOK, Row
      <4>2. q \in Due(t)'
        BY <4>1 DEF Due
      <4> QED
        BY <4>1, <4>2, <3>1, <2>4, <2>5 DEF TaskInv, Unfinished
    <3>3. CASE row' = row /\ disturbed' = disturbed \cup {t}
      <4>1. row'[t] = Absent /\ row'[t].status = "absent"
        BY <3>3, <2>1 DEF Absent, Row
      <4> QED
        BY <4>1, <3>1, <2>4, <2>5 DEF TaskInv, Unfinished
    <3> QED
      BY <2>3, <3>2, <3>3
  <2>7. ASSUME NEW u \in Tasks, u # t PROVE SameTask(u) /\ \A p \in Pollers : SameHold(p, u)
    BY <2>1, <2>3, <2>7, <1>0 DEF SameTask, SameHold, TypeOK
  <2>8. \A u \in Tasks : TaskInv(u)'
    BY <2>6, <2>7, <1>i, FrameTask
  <2>9. ASSUME NEW p \in Pollers, NEW u \in Tasks PROVE CopyInv(p, u)'
    BY <2>1, <2>5, <2>7, <1>i, FrameCopy
  <2>10. \A p \in Pollers : PollInv(p)'
    BY <2>1, <1>i DEF PollInv
  <2> QED
    BY <2>8, <2>9, <2>10 DEF BillingInv
<1>2. ASSUME NEW t \in Tasks, UpstreamEnds(t) PROVE BillingInv'
  <2>1. /\ upstream[t] = "IN_PROGRESS" /\ row[t].status # "SUCCESS"
        /\ \A u \in Tasks : u # t => upstream'[u] = upstream[u] /\ cost'[u] = cost[u]
    BY <1>2, <1>0, <1>i DEF UpstreamEnds, TaskInv, TypeOK
  <2>2. \A u \in Tasks : Due(u)' = Due(u)
    BY <1>2, <2>1 DEF UpstreamEnds, Due
  <2>3. \A u \in Tasks : upstream[u] = "SUCCESS" => upstream'[u] = "SUCCESS"
    BY <2>1
  <2>4. /\ poller' = poller /\ row' = row /\ paid' = paid /\ tokenPaid' = tokenPaid
        /\ disturbed' = disturbed /\ forced' = forced
    BY <1>2 DEF UpstreamEnds
  <2>5. \A u \in Tasks : TaskInv(u)'
    BY <2>2, <2>3, <2>4, <1>i DEF TaskInv, Bills
  <2>6. \A p \in Pollers, u \in Tasks : CopyInv(p, u)'
    BY <2>2, <2>3, <2>4, <1>i DEF CopyInv, Bills
  <2>7. \A p \in Pollers : PollInv(p)'
    BY <2>4, <1>i DEF PollInv
  <2> QED
    BY <2>5, <2>6, <2>7 DEF BillingInv
<1>3. CASE UNCHANGED <<row, upstream, cost, poller, ledger, disturbed, forced>>
  <2>1. \A u \in Tasks : SameTask(u) /\ \A p \in Pollers : SameHold(p, u)
    BY <1>3 DEF SameTask, SameHold
  <2>2. \A u \in Tasks : TaskInv(u)'
    BY <2>1, <1>i, FrameTask
  <2>3. \A p \in Pollers, u \in Tasks : CopyInv(p, u)'
    BY <1>3, <2>1, <1>i, FrameCopy
  <2>4. \A p \in Pollers : PollInv(p)'
    BY <1>3, <1>i DEF PollInv
  <2> QED
    BY <2>2, <2>3, <2>4 DEF BillingInv
<1>5. ASSUME NEW p \in Pollers, SweepRead(p) PROVE BillingInv'
  <2> DEFINE S == IF Timeouts THEN First({t \in Tasks : TimedOut(t)}, SweepLimit) ELSE {}
  <2>1. \A t \in S : t \in Tasks => UnfinishedRow(row[t])
    BY DEF First, TimedOut
  <2>2. Round(p, "sweep", Copies(S))
    BY <1>5 DEF SweepRead
  <2> HIDE DEF S
  <2> QED
    BY <1>5, <2>1, <2>2, <1>0, LoadKeeps DEF SweepRead
<1>6. ASSUME NEW p \in Pollers, NEW t \in Tasks, SweepTask(p, t) PROVE BillingInv'
  <2> DEFINE c == poller[p].copy[t]
  <2>1. /\ c # Absent /\ poller[p].cur = NoTask /\ ~Bills(p, t)
        /\ UNCHANGED <<env, ledger, disturbed, forced>>
    BY <1>6, <1>i, <1>n DEF SweepTask, PollInv, Bills
  <2>2. CASE /\ CAS(t, c.status)
             /\ row' = [row EXCEPT ![t] = Row("FAILURE", TRUE, c.quota)]
             /\ IF t \notin Legacy /\ c.quota # 0 THEN Bill(p, t, -c.quota) ELSE Drop(p, t)
    <3>1. c.quota = row[t].quota /\ row[t].quota \in Nat
      BY <2>1, <2>2, <1>0, Won
    <3>2. row'[t].status = "FAILURE" /\ row'[t].quota = c.quota
      BY <2>2, <1>0 DEF TypeOK, Row
    <3>3. CASE Bill(p, t, -c.quota)
      <4>1. row[t].quota + (-c.quota) \in Due(t)'
        BY <3>1, <3>2 DEF Due
      <4>2. -c.quota \in Int /\ -c.quota >= -row[t].quota /\ "FAILURE" \in Final
        BY <3>1 DEF Final
      <4> QED
        BY <2>1, <2>2, <3>3, <4>1, <4>2, <1>0, WinBill
    <3>4. CASE Drop(p, t) /\ (t \in Legacy \/ c.quota = 0)
      <4>1. row[t].quota \in Due(t)'
        BY <3>1, <3>2, <3>4 DEF Due
      <4>2. "FAILURE" \in Final \cup Unfinished /\ ("FAILURE" \in Final) = TRUE
        BY DEF Final
      <4> QED
        BY <2>1, <2>2, <3>4, <4>1, <4>2, <1>0, WinDrop
    <3> QED
      BY <2>2, <3>3, <3>4
  <2>3. CASE Drop(p, t) /\ UNCHANGED row
    BY <2>1, <2>3, <1>0, JustDrop
  <2> QED
    BY <1>6, <2>2, <2>3 DEF SweepTask
<1>7. ASSUME NEW p \in Pollers, Load(p) PROVE BillingInv'
  <2> DEFINE S == First({t \in Tasks : UnfinishedRow(row[t])}, QueryLimit)
  <2>1. \A t \in S : t \in Tasks => UnfinishedRow(row[t])
    BY DEF First
  <2>2. Round(p, "poll", Copies(S))
    BY <1>7 DEF Load
  <2> HIDE DEF S
  <2> QED
    BY <1>7, <2>1, <2>2, <1>0, LoadKeeps DEF Load
<1>8. ASSUME NEW p \in Pollers, EndRound(p) PROVE BillingInv'
  <2>1. /\ poller'[p].at = "sleep" /\ poller'[p].cur = NoTask
        /\ \A t \in Tasks : poller'[p].copy[t] = Absent
        /\ \A q \in Pollers : q # p => poller'[q] = poller[q]
    <3>1. poller' = [poller EXCEPT ![p] = Asleep]
      BY <1>8 DEF EndRound
    <3>2. /\ poller'[p].at = "sleep" /\ poller'[p].cur = NoTask /\ poller'[p].copy = NoCopies
          /\ \A q \in Pollers : q # p => poller'[q] = poller[q]
      BY <1>0, <3>1, SleepEffect
    <3> QED
      BY <3>2 DEF NoCopies
  <2>2. poller[p].cur = NoTask /\ UNCHANGED <<row, env, ledger, disturbed, forced>>
    BY <1>8, <1>i DEF EndRound, PollInv
  <2>3. \A u \in Tasks : SameTask(u) /\ \A q \in Pollers : SameHold(q, u)
    BY <2>1, <2>2, <1>n DEF SameTask, SameHold
  <2>4. \A u \in Tasks : TaskInv(u)'
    BY <2>3, <1>i, FrameTask
  <2>5. ASSUME NEW q \in Pollers, NEW u \in Tasks PROVE CopyInv(q, u)'
    BY <2>1, <2>3, <1>i, <1>n, FrameCopy
  <2>6. \A q \in Pollers : PollInv(q)'
    BY <2>1, <1>i DEF PollInv
  <2> QED
    BY <2>4, <2>5, <2>6 DEF BillingInv
<1>9. ASSUME NEW p \in Pollers, NEW t \in Tasks, BulkFail(p, t) PROVE BillingInv'
  <2>1. /\ poller[p].copy[t] # Absent /\ poller[p].cur = NoTask /\ ~Bills(p, t) /\ Drop(p, t)
        /\ UNCHANGED <<env, ledger, disturbed>>
    BY <1>9, <1>i, <1>n DEF BulkFail, PollInv, Bills
  <2>2. CASE row' = [row EXCEPT ![t] = Row("FAILURE", TRUE, row[t].quota)] /\ forced' = forced \cup {t}
    <3>1. /\ poller'[p].at = "next" /\ poller'[p].cur = NoTask
          /\ poller'[p].copy = [poller[p].copy EXCEPT ![t] = Absent]
          /\ \A q \in Pollers : q # p => poller'[q] = poller[q]
      BY <2>1, <1>0, DropEffect
    <3>2. /\ row'[t].status = "FAILURE" /\ row'[t].quota = row[t].quota /\ row'[t] # Absent
          /\ \A u \in Tasks : u # t => row'[u] = row[u]
      BY <2>2, <1>0 DEF TypeOK, Row, Absent
    <3>3. \A q \in Pollers : Bills(q, t)' <=> Bills(q, t)
      BY <3>1, <2>1, <1>n DEF Bills
    <3>4. t \in forced' /\ paid' = paid /\ tokenPaid' = tokenPaid /\ upstream' = upstream
      BY <2>1, <2>2
    <3>5. TaskInv(t)'
      BY <3>2, <3>3, <3>4, <1>i DEF TaskInv, Unfinished, Final
    <3>6. ASSUME NEW q \in Pollers PROVE CopyInv(q, t)'
      <4>1. CASE q = p
        BY <4>1, <3>1, <3>3, <2>1, <1>n, <1>s DEF CopyInv
      <4>2. CASE q # p
        <5>1. poller'[q] = poller[q] /\ CopyInv(q, t) /\ (Bills(q, t)' <=> Bills(q, t))
          BY <4>2, <3>1, <3>3, <1>i
        <5> QED
          BY <5>1, <3>2, <3>4 DEF CopyInv, Final
      <4> QED
        BY <4>1, <4>2
    <3>7. \A u \in Tasks : u # t => SameTask(u)
      BY <2>1, <2>2, <3>2 DEF SameTask
    <3>8. PollInv(p)' /\ \A u \in Tasks : u # t => poller'[p].copy[u] = poller[p].copy[u]
      BY <3>1, <1>s DEF PollInv
    <3> QED
      BY <2>1, <3>1, <3>5, <3>6, <3>7, <3>8, FrameOthers
  <2>3. CASE UNCHANGED <<row, forced>>
    BY <2>1, <2>3, <1>0, JustDrop
  <2> QED
    BY <1>9, <2>2, <2>3 DEF BulkFail
<1>10. ASSUME NEW p \in Pollers, NEW t \in Tasks, Fetch(p, t) PROVE BillingInv'
  <2>1. /\ poller[p].copy[t] # Absent /\ poller[p].cur = NoTask /\ ~Bills(p, t)
        /\ UNCHANGED <<row, env, ledger, disturbed, forced>>
    BY <1>10, <1>i, <1>n DEF Fetch, PollInv, Bills
  <2>2. CASE Drop(p, t)
    BY <2>1, <2>2, <1>0, JustDrop
  <2>3. ASSUME NEW s \in Answers(t), Hold(p, "answered", t, s, 0) PROVE BillingInv'
    <3>1. s \in AnswerType /\ (s = "SUCCESS" => upstream[t] = "SUCCESS")
      <4>1. s \in {upstream[t], "FAILURE"}
        BY <2>3, <1>n DEF Answers
      <4> QED
        BY <4>1, <1>0 DEF AnswerType, TypeOK, Final
    <3>2. /\ poller'[p].at = "answered" /\ poller'[p].cur = t /\ poller'[p].answer = s
          /\ poller'[p].copy = poller[p].copy
          /\ \A q \in Pollers : q # p => poller'[q] = poller[q]
      BY <2>3, <3>1, <1>0, HoldEffect
    <3>3. \A q \in Pollers : Bills(q, t)' <=> Bills(q, t)
      BY <3>2, <2>1 DEF Bills
    <3>4. TaskInv(t)'
      BY <3>3, <2>1, <1>i DEF TaskInv, Due
    <3>5. ASSUME NEW q \in Pollers PROVE CopyInv(q, t)'
      <4>0. CopyInv(q, t) /\ (Bills(q, t)' <=> Bills(q, t)) /\ Due(t)' = Due(t)
        BY <3>3, <2>1, <1>i DEF Due
      <4>1. CASE q = p
        BY <4>0, <4>1, <3>1, <3>2, <2>1 DEF CopyInv
      <4>2. CASE q # p
        BY <4>0, <4>2, <3>2, <2>1 DEF CopyInv
      <4> QED
        BY <4>1, <4>2
    <3>6. PollInv(p)' /\ \A u \in Tasks : u # t => SameTask(u)
      BY <3>2, <2>1 DEF PollInv, SameTask
    <3> QED
      BY <2>1, <3>2, <3>4, <3>5, <3>6, FrameOthers
  <2> QED
    BY <1>10, <2>2, <2>3 DEF Fetch
<1>11. ASSUME NEW p \in Pollers, SaveVideo(p) PROVE BillingInv'
  <2>0. PICK t \in Tasks : t = poller[p].cur /\ poller[p].at = "answered"
    BY <1>11, <1>0 DEF SaveVideo, PollerOK
  <2>s. PICK s : s = poller[p].answer
    OBVIOUS
  <2>c. PICK c : c = poller[p].copy[t]
    OBVIOUS
  <2>d. PICK d : d = IF s = "SUCCESS" THEN SettleAmount(t, c.quota)
                     ELSE IF s = "FAILURE" THEN -c.quota ELSE 0
    OBVIOUS
  <2>1. /\ c # Absent /\ ~Bills(p, t)
        /\ s \in {"IN_PROGRESS", "SUCCESS", "FAILURE"} /\ (s = "SUCCESS" => upstream[t] = "SUCCESS")
        /\ UNCHANGED <<env, ledger, disturbed, forced>>
    <3>2. CopyInv(p, t) /\ s \in KnownAnswers(t) /\ t \notin Suno
      BY <2>0, <2>s, <1>0, <1>i, <1>n DEF PollerOK
    <3> QED
      BY <1>11, <2>0, <2>s, <2>c, <3>2 DEF SaveVideo, CopyInv, Bills, KnownAnswers
  <2>2. CASE /\ CAS(t, c.status)
             /\ row' = [row EXCEPT ![t] = Row(s, s \in Final, c.quota)]
             /\ IF d # 0 THEN Bill(p, t, d) ELSE Drop(p, t)
    <3>1. c.quota = row[t].quota /\ row[t].quota \in Nat
      BY <2>c, <2>1, <2>2, <1>0, Won
    <3>2. /\ row'[t].status = s /\ row'[t].quota = c.quota /\ cost' = cost
          /\ (row'[t].full <=> s \in Final)
      BY <2>1, <2>2, <1>0 DEF TypeOK, Row
    <3>3. d \in Int /\ d >= -row[t].quota /\ row[t].quota + d \in Due(t)'
      <4>0. row[t].quota \in Nat /\ cost[t] \in Nat /\ t \notin Suno
        BY <1>q, <1>n
      <4>1. CASE s = "SUCCESS"
        <5>1. Due(t)' = {IF cost[t] = 0 THEN row[t].quota ELSE cost[t]}
          BY <4>0, <4>1, <3>1, <3>2 DEF Due
        <5>2. d = IF cost[t] > 0 THEN cost[t] - row[t].quota ELSE 0
          BY <2>d, <4>1, <3>1 DEF SettleAmount
        <5> QED
          BY <4>0, <5>1, <5>2
      <4>2. CASE s = "FAILURE"
        <5>1. 0 \in Due(t)' /\ d = -row[t].quota
          BY <2>d, <4>2, <3>1, <3>2 DEF Due
        <5> QED
          BY <4>0, <5>1
      <4>3. CASE s = "IN_PROGRESS"
        <5>1. d = 0 /\ ~row'[t].full /\ row'[t].status = "IN_PROGRESS"
          BY <2>d, <4>3, <3>2 DEF Final
        <5>2. row'[t].quota \in Due(t)'
          BY <5>1 DEF Due
        <5> QED
          BY <4>0, <5>1, <5>2, <3>1, <3>2
      <4> QED
        BY <2>1, <4>1, <4>2, <4>3
    <3>4. CASE Bill(p, t, d) /\ d # 0
      <4>1. s \in Final /\ row' = [row EXCEPT ![t] = Row(s, TRUE, poller[p].copy[t].quota)]
        <5>1. s \in Final
          BY <2>d, <2>1, <3>4 DEF Final
        <5>2. Row(s, s \in Final, c.quota) = Row(s, TRUE, poller[p].copy[t].quota)
          BY <5>1, <2>c DEF Row
        <5> QED
          BY <2>2, <5>1, <5>2
      <4>2. poller[p].cur \in {t, NoTask} /\ poller[p].copy[t] # Absent /\ CAS(t, poller[p].copy[t].status)
        BY <2>0, <2>c, <2>1, <2>2
      <4> QED
        BY <2>1, <3>3, <3>4, <4>1, <4>2, <1>0, WinBill
    <3>5. CASE Drop(p, t) /\ d = 0
      <4>1. row[t].quota \in Due(t)' /\ s \in Final \cup Unfinished
        BY <3>1, <3>3, <3>5, <2>1 DEF Final, Unfinished
      <4>2. poller[p].cur \in {t, NoTask} /\ poller[p].copy[t] # Absent /\ CAS(t, poller[p].copy[t].status)
        BY <2>0, <2>c, <2>1, <2>2
      <4>3. row' = [row EXCEPT ![t] = Row(s, s \in Final, poller[p].copy[t].quota)]
        BY <2>2, <2>c
      <4> QED
        BY <2>1, <3>5, <4>1, <4>2, <4>3, <1>0, WinDrop
    <3> QED
      BY <2>2, <3>4, <3>5
  <2>3. CASE Drop(p, t) /\ UNCHANGED row
    BY <2>0, <2>1, <2>3, <1>0, JustDrop
  <2> QED
    BY <1>11, <2>0, <2>s, <2>c, <2>d, <2>2, <2>3 DEF SaveVideo
<1>12. ASSUME NEW p \in Pollers, UpdateSuno(p) \/ SaveSuno(p) PROVE FALSE
  BY <1>12, <1>i DEF UpdateSuno, SaveSuno, PollInv, VideosOnly
<1>14. ASSUME NEW p \in Pollers, BillFunding(p) \/ BillToken(p) PROVE BillingInv'
  <2>0. PICK t \in Tasks : t = poller[p].cur
    BY <1>14, <1>0 DEF BillFunding, BillToken, PollerOK
  <2>q. PICK q0 : q0 = row[t].quota
    OBVIOUS
  <2>a. PICK a : a = poller[p].amount
    OBVIOUS
  <2>1. Bills(p, t) /\ poller[p].cur = t /\ UNCHANGED <<row, env, forced>>
    BY <1>14, <2>0 DEF BillFunding, BillToken, Bills
  <2>2. /\ row[t].status \in Final /\ tokenPaid[t] = q0 /\ q0 \in Nat /\ a \in Int /\ a >= -q0
        /\ paid[t] = (IF poller[p].at = "token" THEN q0 + a ELSE q0)
        /\ t \notin forced => q0 + a \in Due(t)
        /\ poller[p].copy[t] # Absent
        /\ \A q \in Pollers : Bills(q, t) => q = p
    <3>1. CopyInv(p, t) /\ TaskInv(t) /\ q0 \in Nat /\ a \in Int
      BY <2>q, <2>a, <1>i, <1>s, <1>q
    <3> QED
      BY <2>q, <2>a, <2>1, <3>1 DEF CopyInv, TaskInv
  <2>t. row[t].status \notin Unfinished /\ Due(t)' = Due(t) /\ TaskInv(t) /\ t # NoTask
    <3>1. Due(t)' = Due(t)
      BY <2>1 DEF Due
    <3> QED
      BY <2>2, <3>1, <1>i, <1>n DEF Final, Unfinished
  <2>3. CASE /\ poller[p].at = "funding" /\ Hold(p, "token", t, "none", a)
             /\ paid' = [paid EXCEPT ![t] = @ + a] /\ UNCHANGED <<tokenPaid, disturbed>>
    <3>0. "none" \in AnswerType
      BY DEF AnswerType
    <3>1. /\ poller'[p].at = "token" /\ poller'[p].cur = t /\ poller'[p].amount = a
          /\ poller'[p].answer = "none" /\ poller'[p].copy = poller[p].copy
          /\ \A q \in Pollers : q # p => poller'[q] = poller[q]
      BY <2>1, <2>2, <2>3, <3>0, <1>0, HoldEffect
    <3>2. paid'[t] = q0 + a /\ \A u \in Tasks : u # t => paid'[u] = paid[u]
      BY <2>1, <2>2, <2>3, <1>0 DEF TypeOK
    <3>3. \A q \in Pollers : Bills(q, t)' <=> q = p
      BY <2>1, <2>2, <3>1 DEF Bills
    <3>4. TaskInv(t)'
      BY <2>1, <2>2, <2>3, <2>t, <3>2, <3>3 DEF TaskInv
    <3>5. ASSUME NEW q \in Pollers PROVE CopyInv(q, t)'
      <4>0. CopyInv(q, t) /\ (Bills(q, t)' <=> q = p)
        BY <2>1, <3>3, <1>i
      <4>1. CASE q = p
        BY <4>0, <4>1, <2>1, <2>2, <2>3, <2>t, <3>1, <3>2 DEF CopyInv
      <4>2. CASE q # p
        BY <4>0, <4>2, <2>1, <3>1 DEF CopyInv
      <4> QED
        BY <4>1, <4>2
    <3>6. PollInv(p)' /\ \A u \in Tasks : u # t => SameTask(u)
      BY <2>1, <2>3, <3>1, <3>2 DEF PollInv, SameTask
    <3> QED
      BY <2>1, <3>1, <3>4, <3>5, <3>6, FrameOthers
  <2>4. CASE /\ Billed(p)
             /\ \A u \in Tasks : u # t => paid'[u] = paid[u] /\ tokenPaid'[u] = tokenPaid[u]
             /\ paid'[t] >= 0 /\ tokenPaid'[t] >= 0
             /\ disturbed \subseteq disturbed'
             /\ t \in disturbed' \/ (paid'[t] = q0 + a /\ tokenPaid'[t] = q0 + a)
    <3>1. /\ poller'[p].at = "next" /\ poller'[p].cur = NoTask
          /\ poller'[p].copy = [poller[p].copy EXCEPT ![t] = Absent]
          /\ \A q \in Pollers : q # p => poller'[q] = poller[q]
      BY <2>1, <2>4, <1>0, <1>n, BilledEffect
    <3>3. \A q \in Pollers : ~Bills(q, t)'
      BY <2>1, <2>2, <2>t, <3>1 DEF Bills
    <3>4. TaskInv(t)'
      BY <2>1, <2>2, <2>4, <2>t, <3>3 DEF TaskInv
    <3>5. ASSUME NEW q \in Pollers PROVE CopyInv(q, t)'
      <4>0. CopyInv(q, t) /\ ~Bills(q, t)'
        BY <2>1, <3>3, <1>i
      <4>1. CASE q = p
        BY <4>0, <4>1, <2>1, <2>t, <3>1, <1>s DEF CopyInv
      <4>2. CASE q # p
        BY <4>0, <4>2, <2>1, <3>1 DEF CopyInv
      <4> QED
        BY <4>1, <4>2
    <3>6. PollInv(p)' /\ \A u \in Tasks : u # t => SameTask(u)
      BY <2>1, <2>4, <3>1 DEF PollInv, SameTask
    <3>7. \A u \in Tasks : u # t => poller'[p].copy[u] = poller[p].copy[u]
      BY <2>1, <3>1, <1>s
    <3> QED
      BY <2>1, <3>1, <3>4, <3>5, <3>6, <3>7, FrameOthers
  <2>5. CASE BillFunding(p)
    <3>1. CASE Fault("funding") /\ disturbed' = disturbed \cup {t} /\ Billed(p) /\ UNCHANGED <<paid, tokenPaid>>
      BY <3>1, <2>2, <2>4, <2>t DEF TaskInv
    <3> QED
      BY <2>0, <2>a, <2>3, <2>5, <3>1 DEF BillFunding
  <2>6. CASE BillToken(p)
    <3>0. poller[p].at = "token" /\ Billed(p) /\ paid' = paid /\ paid[t] = q0 + a
      BY <2>6, <2>2 DEF BillToken
    <3>1. CASE tokenPaid' = [tokenPaid EXCEPT ![t] = @ + a] /\ disturbed' = disturbed
      <4>1. tokenPaid'[t] = q0 + a /\ \A u \in Tasks : u # t => tokenPaid'[u] = tokenPaid[u]
        BY <3>1, <2>1, <2>2, <1>0 DEF TypeOK
      <4> QED
        BY <3>0, <3>1, <4>1, <2>2, <2>4
    <3>2. CASE tokenPaid' = tokenPaid /\ disturbed' = disturbed \cup {t}
      BY <3>0, <3>2, <2>2, <2>4, <2>t DEF TaskInv
    <3> QED
      BY <2>0, <2>a, <2>6, <3>1, <3>2 DEF BillToken
  <2> QED
    BY <1>14, <2>5, <2>6
<1>16. ASSUME NEW p \in Pollers, Crash(p) PROVE BillingInv'
  <2>1. /\ poller'[p].at = "sleep" /\ poller'[p].cur = NoTask
        /\ \A t \in Tasks : poller'[p].copy[t] = Absent
        /\ \A q \in Pollers : q # p => poller'[q] = poller[q]
    BY <1>16, <1>0, SleepEffect DEF Crash, NoCopies
  <2>2. /\ UNCHANGED <<row, env, ledger, forced>>
        /\ \A t \in Tasks : t \in disturbed => t \in disturbed'
        /\ \A t \in Tasks : Bills(p, t) => t \in disturbed'
    BY <1>16 DEF Crash, Bills
  <2>3. \A t \in Tasks : SameTask(t)
    BY <2>2 DEF SameTask
  <2>4. ASSUME NEW t \in Tasks PROVE TaskInv(t)'
    <3>1. \A q \in Pollers : Bills(q, t)' <=> Bills(q, t) /\ q # p
      BY <2>1, <1>n DEF Bills
    <3>2. Due(t)' = Due(t) /\ TaskInv(t)
      BY <2>2, <1>i DEF Due
    <3>3. CASE Bills(p, t)
      BY <2>2, <3>1, <3>2, <3>3 DEF TaskInv
    <3>4. CASE ~Bills(p, t)
      BY <2>2, <3>1, <3>2, <3>4 DEF TaskInv
    <3> QED
      BY <3>3, <3>4
  <2>5. ASSUME NEW q \in Pollers, NEW t \in Tasks PROVE CopyInv(q, t)'
    <3>1. CASE q = p
      BY <3>1, <2>1, <1>n DEF CopyInv, Bills
    <3>2. CASE q # p
      BY <3>2, <2>1, <2>3, <1>i, FrameCopy DEF SameHold
    <3> QED
      BY <3>1, <3>2
  <2>6. \A q \in Pollers : PollInv(q)'
    BY <2>1, <1>i DEF PollInv
  <2> QED
    BY <2>4, <2>5, <2>6 DEF BillingInv
<1>17. ASSUME NEW t \in Tasks, UserRead(t) \/ UserFetch(t) \/ UserSave(t) PROVE FALSE
  BY <1>17, <1>0, <1>n DEF UserRead, UserFetch, UserSave, GetOK
<1>18. ASSUME NEW t \in Tasks, Age(t) \/ DeleteChannel(t) PROVE BillingInv'
  BY <1>3, <1>18 DEF Age, DeleteChannel
<1>19. CASE UNCHANGED vars
  BY <1>3, <1>19 DEF vars
<1> QED
  BY <1>1, <1>2, <1>5, <1>6, <1>7, <1>8, <1>9, <1>10, <1>11, <1>12, <1>14, <1>16, <1>17,
     <1>18, <1>19 DEF Next, PollLoop

-----------------------------------------------------------------------------
(* The theorems.                                                             *)

LEMMA BillingInvariant ==
  ASSUME VideosOnly
  PROVE  Spec => [](TypeInv /\ BillingInv)
<1>1. Init => TypeInv /\ BillingInv
  BY TypeInit, BillingInit
<1>2. (TypeInv /\ BillingInv) /\ [Next]_vars => (TypeInv /\ BillingInv)'
  BY TypeStep, BillingStep
<1> QED
  BY <1>1, <1>2, PTL DEF Spec

\* A video task is never refunded more than it was charged, however many
\* nodes poll and sweep it (updateVideoSingleTask, sweepTimedOutTasks).
THEOREM NoOverRefundCorrect ==
  ASSUME VideosOnly
  PROVE  Spec => []NoOverRefund
<1>1. BillingInv => NoOverRefund
  BY DEF BillingInv, TaskInv, NoOverRefund
<1> QED
  BY <1>1, BillingInvariant, PTL

\* A video task has been charged what its status says whenever no node is
\* billing it, unless its billing was cut short or a bulk update, which does
\* not bill, ended it.
THEOREM BilledUnlessForcedCorrect ==
  ASSUME VideosOnly
  PROVE  Spec => []BilledUnlessForced
<1>1. BillingInv => BilledUnlessForced
  <2> SUFFICES ASSUME BillingInv, NEW t \in Tasks, t \notin forced, row[t] # Absent,
                      t \notin disturbed, \A p \in Pollers : ~Billing(p, t)
               PROVE  paid[t] \in Due(t) /\ tokenPaid[t] = paid[t]
    BY DEF BilledUnlessForced, BilledRight
  <2>1. \A p \in Pollers : ~Bills(p, t)
    BY DEF Billing, Bills
  <2> QED
    BY <2>1 DEF BillingInv, TaskInv
<1> QED
  BY <1>1, BillingInvariant, PTL

\* A step changes the status of a row only away from an unfinished one, but for the
\* bulk update.
LEMMA FinalStep ==
  ASSUME TypeInv, BillingInv, [Next]_vars, VideosOnly
  PROVE  KeepsFinal
<1>0. TypeOK /\ (\A p \in Pollers : PollerOK(p)) /\ (\A t \in Tasks : GetOK(t))
  BY DEF TypeInv
<1>1. ASSUME NEW t \in Tasks, NEW r, row' = [row EXCEPT ![t] = r], row[t].status \notin Final
      PROVE  KeepsFinal
  BY <1>0, <1>1 DEF KeepsFinal, TypeOK
<1>2. ASSUME NEW p \in Pollers, NEW t \in Tasks, poller[p].copy[t] # Absent,
             CAS(t, poller[p].copy[t].status)
      PROVE  row[t].status \notin Final
  BY <1>2 DEF BillingInv, CopyInv, CAS, Final, Unfinished
<1>3. CASE row' = row
  BY <1>3 DEF KeepsFinal
<1>4. ASSUME NEW t \in Tasks, NEW pre \in PreQuotas, NEW q \in Quotas, Submit(t, pre, q)
      PROVE  KeepsFinal
  BY <1>1, <1>3, <1>4 DEF Submit, Absent, Row, Final
<1>5. ASSUME NEW p \in Pollers, NEW t \in Tasks, SweepTask(p, t) PROVE KeepsFinal
  BY <1>1, <1>2, <1>3, <1>5 DEF SweepTask
<1>6. ASSUME NEW p \in Pollers, NEW t \in Tasks, BulkFail(p, t) PROVE KeepsFinal
  <2>1. CASE row' = [row EXCEPT ![t] = Row("FAILURE", TRUE, row[t].quota)]
    BY <1>0, <1>6, <2>1 DEF BulkFail, KeepsFinal, TypeOK, Row
  <2> QED
    BY <1>3, <1>6, <2>1 DEF BulkFail
<1>7. ASSUME NEW p \in Pollers, SaveVideo(p) PROVE KeepsFinal
  <2>1. PICK t \in Tasks : t = poller[p].cur
    BY <1>7, <1>0 DEF SaveVideo, PollerOK
  <2>2. poller[p].copy[t] # Absent
    BY <2>1 DEF BillingInv, CopyInv
  <2> QED
    BY <1>1, <1>2, <1>3, <1>7, <2>1, <2>2 DEF SaveVideo
<1>8. ASSUME NEW p \in Pollers, UpdateSuno(p) \/ SaveSuno(p) PROVE FALSE
  BY <1>8 DEF BillingInv, UpdateSuno, SaveSuno, PollInv, VideosOnly
<1>9. ASSUME NEW t \in Tasks, UserSave(t) PROVE FALSE
  BY <1>9, <1>0, TaskAssumption DEF UserSave, GetOK, VideosOnly
<1>10. ASSUME NEW p \in Pollers,
              \/ SweepRead(p) \/ Load(p) \/ EndRound(p) \/ BillFunding(p) \/ BillToken(p) \/ Crash(p)
              \/ \E t \in Tasks : Fetch(p, t)
       PROVE  KeepsFinal
  BY <1>3, <1>10 DEF SweepRead, Load, EndRound, BillFunding, BillToken, Crash, Fetch
<1>11. ASSUME NEW t \in Tasks,
              UpstreamEnds(t) \/ Age(t) \/ DeleteChannel(t) \/ UserRead(t) \/ UserFetch(t)
       PROVE  KeepsFinal
  BY <1>3, <1>11 DEF UpstreamEnds, Age, DeleteChannel, UserRead, UserFetch
<1>12. CASE UNCHANGED vars
  BY <1>3, <1>12 DEF vars
<1> QED
  BY <1>4, <1>5, <1>6, <1>7, <1>8, <1>9, <1>10, <1>11, <1>12 DEF Next, PollLoop

\* No channel is deleted, so no bulk update changes a status, and no user fetch
\* does for a video without one.
NothingForced == orphan = {} /\ forced = {}

LEMMA NothingForcedInvariant ==
  ASSUME VideosOnly, MaxOrphans = 0
  PROVE  Spec => []NothingForced
<1>1. Init => NothingForced
  BY DEF Init, NothingForced
<1>2. TypeInv /\ NothingForced /\ [Next]_vars => NothingForced'
  <2> SUFFICES ASSUME TypeInv, orphan = {}, forced = {}, [Next]_vars
               PROVE  orphan' = {} /\ forced' = {}
    BY DEF NothingForced
  <2>1. ASSUME NEW t \in Tasks, DeleteChannel(t) PROVE FALSE
    BY <2>1, FS_EmptySet DEF DeleteChannel
  <2>2. CASE UNCHANGED vars
    BY <2>2 DEF vars, env
  <2>3. ASSUME NEW p \in Pollers, NEW t \in Tasks, BulkFail(p, t) PROVE FALSE
    BY <2>3 DEF BulkFail
  <2>4. ASSUME NEW t \in Tasks, UserSave(t) PROVE FALSE
    BY <2>4, TaskAssumption DEF TypeInv, UserSave, GetOK, VideosOnly
  <2>5. ASSUME NEW p \in Pollers, PollLoop(p) \/ Crash(p) PROVE orphan' = {} /\ forced' = {}
    BY <2>3, <2>5 DEF PollLoop, Crash, SweepRead, Load, EndRound, SweepTask, Fetch, SaveVideo,
       UpdateSuno, SaveSuno, BillFunding, BillToken, env
  <2>6. ASSUME NEW t \in Tasks, NEW pre \in PreQuotas, NEW q \in Quotas, Submit(t, pre, q)
        PROVE  orphan' = {} /\ forced' = {}
    BY <2>6 DEF Submit, env
  <2>7. ASSUME NEW t \in Tasks, UpstreamEnds(t) \/ Age(t) \/ UserRead(t) \/ UserFetch(t)
        PROVE  orphan' = {} /\ forced' = {}
    BY <2>7 DEF UpstreamEnds, Age, UserRead, UserFetch, env
  <2> QED
    BY <2>1, <2>2, <2>4, <2>5, <2>6, <2>7 DEF Next
<1> QED
  BY <1>1, <1>2, BillingInvariant, PTL DEF Spec

\* As long as no channel is deleted, every video task outside of a billing under
\* way is charged what its status says, however many nodes poll and sweep it and
\* whatever writes fail (settleTaskBillingOnComplete, RefundTaskQuota).
THEOREM BilledAsFinishedCorrect ==
  ASSUME VideosOnly, MaxOrphans = 0
  PROVE  Spec => []BilledAsFinished
<1>1. NothingForced /\ BilledUnlessForced => BilledAsFinished
  BY DEF NothingForced, BilledUnlessForced, BilledAsFinished
<1> QED
  BY <1>1, NothingForcedInvariant, BilledUnlessForcedCorrect, PTL

\* The status a video task has ended with never changes again: a poller and the
\* sweep of another node, or two pollers, never overwrite each other's verdict
\* (UpdateWithStatus).  Only the bulk update, which has no CAS, still makes a
\* failure of a task whose channel was deleted.
THEOREM FinishedStaysCorrect ==
  ASSUME VideosOnly
  PROVE  Spec => FinishedStays
<1>1. TypeInv /\ BillingInv /\ [Next]_vars => [KeepsFinal]_vars
  BY FinalStep
<1>2. Spec => [][KeepsFinal]_vars
  BY <1>1, BillingInvariant, PTL DEF Spec
<1> QED
  BY <1>2, PTL DEF FinishedStays

=============================================================================
