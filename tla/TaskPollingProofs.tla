-------------------------- MODULE TaskPollingProofs --------------------------
(* TaskPolling proved for every number of tasks, nodes, errors and crashes. *)
EXTENDS TaskPolling, TLAPS

\* What an upstream may answer for a task, by its platform.
KnownAnswers(t) ==
  {"IN_PROGRESS", "SUCCESS", "FAILURE"} \cup IF t \in Suno THEN {"REASON", "REJECTED"} ELSE {}

\* TypeOK is not inductive: a poller past the fetch holds a task, and an
\* answer in hand is one that the platform of the task can give.
PollerOK(p) ==
  /\ poller[p].at \in {"answered", "funding", "token", "save"} => poller[p].cur \in Tasks
  /\ poller[p].at = "answered" => poller[p].answer \in KnownAnswers(poller[p].cur)

GetOK(t) ==
  /\ get[t].at # "none" => t \in Realtime
  /\ get[t].at = "answered" => get[t].answer \in KnownAnswers(t)

TypeInv ==
  /\ TypeOK
  /\ \A p \in Pollers : PollerOK(p)
  /\ \A t \in Tasks : GetOK(t)

-----------------------------------------------------------------------------
(* The shapes of rows and of pollers.                                        *)

LEMMA RowMade ==
  ASSUME NEW s \in Unfinished \cup Final, NEW b \in BOOLEAN, NEW n \in Nat
  PROVE  Row(s, b, n) \in RowType
BY DEF Row, RowType

LEMMA RowTyped ==
  /\ Absent \in RowType
  /\ \A r \in RowType : r.status \in Unfinished \cup Final \cup {"absent"}
                        /\ r.full \in BOOLEAN /\ r.quota \in Nat
BY DEF Absent, Row, RowType

LEMMA CopiesTyped ==
  ASSUME TypeOK, NEW S
  PROVE  Copies(S) \in [Tasks -> RowType] /\ NoCopies \in [Tasks -> RowType]
BY RowTyped DEF TypeOK, Copies, NoCopies

LEMMA AsleepTyped == Asleep \in PollerType
BY RowTyped DEF Asleep, PollerType, NoCopies, NoTask, AnswerType

LEMMA PollerFields ==
  ASSUME NEW P \in PollerType
  PROVE  /\ P.at \in {"sleep", "next", "answered", "funding", "token", "save"}
         /\ P.phase \in {"sweep", "poll"} /\ P.copy \in [Tasks -> RowType]
         /\ P.cur \in Tasks \cup {NoTask} /\ P.answer \in AnswerType /\ P.amount \in Int
BY DEF PollerType

\* A poller that goes on to the next row holds no task.
LEMMA RoundEffect ==
  ASSUME TypeOK, NEW p \in Pollers, NEW phase \in {"sweep", "poll"},
         NEW copy \in [Tasks -> RowType], Round(p, phase, copy)
  PROVE  /\ poller' \in [Pollers -> PollerType]
         /\ poller'[p].at = "next" /\ poller'[p].phase = phase
         /\ poller'[p].cur = NoTask /\ poller'[p].copy = copy
         /\ \A q \in Pollers : q # p => poller'[q] = poller[q]
BY DEF TypeOK, Round, PollerType, AnswerType

\* A poller that is done with a task has forgotten it, and only it.
LEMMA DropEffect ==
  ASSUME TypeOK, NEW p \in Pollers, NEW t \in Tasks, Drop(p, t)
  PROVE  /\ poller' \in [Pollers -> PollerType]
         /\ poller'[p].at = "next" /\ poller'[p].phase = poller[p].phase
         /\ poller'[p].cur = NoTask
         /\ poller'[p].copy = [poller[p].copy EXCEPT ![t] = Absent]
         /\ \A q \in Pollers : q # p => poller'[q] = poller[q]
<1>1. poller[p] \in PollerType
  BY DEF TypeOK
<1>2. [poller[p].copy EXCEPT ![t] = Absent] \in [Tasks -> RowType]
  BY <1>1, PollerFields, RowTyped
<1> QED
  BY <1>1, <1>2, PollerFields, RoundEffect DEF Drop

\* A poller that takes a task in hand keeps its copies.
LEMMA HoldEffect ==
  ASSUME TypeOK, NEW p \in Pollers, NEW at \in {"answered", "funding", "token", "save"},
         NEW t \in Tasks, NEW s \in AnswerType, NEW d \in Int, Hold(p, at, t, s, d)
  PROVE  /\ poller' \in [Pollers -> PollerType]
         /\ poller'[p].at = at /\ poller'[p].phase = poller[p].phase
         /\ poller'[p].copy = poller[p].copy
         /\ poller'[p].cur = t /\ poller'[p].answer = s /\ poller'[p].amount = d
         /\ \A q \in Pollers : q # p => poller'[q] = poller[q]
<1>1. poller[p] \in PollerType /\ poller \in [Pollers -> PollerType]
  BY DEF TypeOK
<1> QED
  BY <1>1, PollerFields DEF Hold, PollerType

LEMMA BillEffect ==
  ASSUME TypeOK, NEW p \in Pollers, NEW t \in Tasks, NEW d \in Int, Bill(p, t, d)
  PROVE  /\ poller' \in [Pollers -> PollerType]
         /\ poller'[p].at = "funding" /\ poller'[p].phase = poller[p].phase
         /\ poller'[p].copy = poller[p].copy
         /\ poller'[p].cur = t /\ poller'[p].answer = "none" /\ poller'[p].amount = d
         /\ \A q \in Pollers : q # p => poller'[q] = poller[q]
BY HoldEffect DEF Bill, AnswerType

\* The end of a billing: a Suno task is saved next, any other is dropped.
LEMMA BilledEffect ==
  ASSUME TypeOK, NEW p \in Pollers, poller[p].cur \in Tasks, Billed(p)
  PROVE  /\ poller' \in [Pollers -> PollerType]
         /\ \/ /\ poller[p].cur \in Suno
               /\ poller'[p].at = "save" /\ poller'[p].cur = poller[p].cur
            \/ /\ poller'[p].at = "next" /\ poller'[p].cur = NoTask
               /\ poller'[p].copy = [poller[p].copy EXCEPT ![poller[p].cur] = Absent]
         /\ \A q \in Pollers : q # p => poller'[q] = poller[q]
<1> DEFINE t == poller[p].cur
<1>1. CASE Hold(p, "save", t, "none", 0) /\ t \in Suno
  <2>1. "none" \in AnswerType /\ 0 \in Int
    BY DEF AnswerType
  <2> QED
    BY <1>1, <2>1, HoldEffect
<1>2. CASE Drop(p, t)
  BY <1>2, DropEffect
<1> QED
  BY <1>1, <1>2 DEF Billed

\* A poller that sleeps has no copies.
LEMMA SleepEffect ==
  ASSUME TypeOK, NEW p \in Pollers, poller' = [poller EXCEPT ![p] = Asleep]
  PROVE  /\ poller' \in [Pollers -> PollerType]
         /\ poller'[p].at = "sleep" /\ poller'[p].cur = NoTask /\ poller'[p].copy = NoCopies
         /\ \A q \in Pollers : q # p => poller'[q] = poller[q]
BY AsleepTyped DEF TypeOK, Asleep

-----------------------------------------------------------------------------
(* Type correctness.                                                         *)

LEMMA TypeInit == Init => TypeInv
<1> SUFFICES ASSUME Init PROVE TypeInv
  OBVIOUS
<1>1. TypeOK
  BY TaskAssumption, RowTyped, AsleepTyped DEF Init, TypeOK, NoCopies, NoGet, GetType, AnswerType
<1>2. \A p \in Pollers : PollerOK(p)
  BY DEF Init, PollerOK, Asleep
<1>3. \A t \in Tasks : GetOK(t)
  BY DEF Init, GetOK, NoGet
<1> QED
  BY <1>1, <1>2, <1>3 DEF TypeInv

\* A database error is counted within its bound.
LEMMA FaultTyped ==
  ASSUME TypeOK, NEW w, Fault(w)
  PROVE  faults' \in 0 .. MaxFaults /\ crashes' \in 0 .. MaxCrashes /\ fetches' \in 0 .. MaxFetches
BY TaskAssumption DEF TypeOK, Fault

LEMMA AnswersKnown == TypeOK => \A t \in Tasks : Answers(t) \subseteq KnownAnswers(t)
BY DEF TypeOK, Answers, KnownAnswers

\* KnownAnswers gives answers, and statuses for a video.
LEMMA KnownTyped ==
  \A t \in Tasks : /\ KnownAnswers(t) \subseteq AnswerType
                   /\ t \notin Suno => KnownAnswers(t) \subseteq Unfinished \cup Final
BY DEF KnownAnswers, AnswerType, Unfinished, Final

LEMMA TypeStep == TypeInv /\ [Next]_vars => TypeInv'
<1> SUFFICES ASSUME TypeInv, [Next]_vars PROVE TypeInv'
  OBVIOUS
<1> USE DEF env, ledger, counters
<1>0. TypeOK /\ (\A p \in Pollers : PollerOK(p)) /\ (\A t \in Tasks : GetOK(t))
  BY DEF TypeInv
<1>s. ASSUME NEW p \in Pollers
      PROVE  /\ poller[p] \in PollerType
             /\ poller[p].phase \in {"sweep", "poll"} /\ poller[p].copy \in [Tasks -> RowType]
             /\ poller[p].amount \in Int
  BY <1>0, PollerFields DEF TypeOK
<1>r. ASSUME NEW p \in Pollers, NEW t \in Tasks
      PROVE  poller[p].copy[t] \in RowType /\ poller[p].copy[t].quota \in Nat
  BY <1>s, RowTyped
<1>1. ASSUME NEW t \in Tasks, NEW pre \in PreQuotas, NEW q \in Quotas, Submit(t, pre, q)
      PROVE  TypeInv'
  <2>1. Row("NOT_START", FALSE, q) \in RowType /\ pre \in Int /\ q \in Int
    BY TaskAssumption DEF Unfinished, Row, RowType
  <2>3. row' \in [Tasks -> RowType]
    BY <1>1, <1>0, <2>1 DEF Submit, TypeOK
  <2>4. paid' \in [Tasks -> Int] /\ tokenPaid' \in [Tasks -> Int]
    <3>1. PICK n \in {pre, q} : /\ paid' = [paid EXCEPT ![t] = n]
                                /\ tokenPaid' = [tokenPaid EXCEPT ![t] = n]
      BY <1>1, Zenon DEF Submit
    <3> QED
      BY <3>1, <2>1, <1>0 DEF TypeOK
  <2>5. disturbed' \subseteq Tasks
    BY <1>1, <1>0 DEF Submit, TypeOK
  <2>6. /\ faults' \in 0 .. MaxFaults /\ crashes' \in 0 .. MaxCrashes
        /\ fetches' \in 0 .. MaxFetches
    <3>1. CASE UNCHANGED counters
      BY <3>1, <1>0 DEF TypeOK
    <3>2. CASE Fault("settle") \/ Fault("insert")
      BY <3>2, <1>0, FaultTyped
    <3> QED
      BY <1>1, <3>1, <3>2 DEF Submit
  <2>2. TypeOK'
    BY <1>1, <1>0, <2>3, <2>4, <2>5, <2>6 DEF Submit, TypeOK
  <2> QED
    BY <1>1, <1>0, <2>2 DEF Submit, TypeInv, PollerOK, GetOK
<1>2. ASSUME NEW t \in Tasks, UpstreamEnds(t) PROVE TypeInv'
  BY <1>2, <1>0, TaskAssumption DEF UpstreamEnds, TypeInv, TypeOK, PollerOK, GetOK
<1>3. ASSUME NEW t \in Tasks, Age(t) PROVE TypeInv'
  BY <1>3, <1>0 DEF Age, TypeInv, TypeOK, PollerOK, GetOK
<1>4. ASSUME NEW t \in Tasks, DeleteChannel(t) PROVE TypeInv'
  BY <1>4, <1>0 DEF DeleteChannel, TypeInv, TypeOK, PollerOK, GetOK
<1>5. ASSUME NEW p \in Pollers, SweepRead(p) PROVE TypeInv'
  <2>1. PICK S : Round(p, "sweep", Copies(S))
    BY <1>5 DEF SweepRead
  <2>2. poller' \in [Pollers -> PollerType] /\ \A q \in Pollers : PollerOK(q)'
    BY <2>1, <1>0, CopiesTyped, RoundEffect DEF PollerOK
  <2> QED
    BY <1>5, <1>0, <2>2 DEF SweepRead, TypeInv, TypeOK, GetOK
<1>6. ASSUME NEW p \in Pollers, NEW t \in Tasks, SweepTask(p, t) PROVE TypeInv'
  <2> DEFINE c == poller[p].copy[t]
  <2>1. Drop(p, t) \/ Bill(p, t, -c.quota)
    BY <1>6 DEF SweepTask
  <2>2. -c.quota \in Int /\ Row("FAILURE", TRUE, c.quota) \in RowType
    BY <1>r DEF Final, Row, RowType
  <2>3. poller' \in [Pollers -> PollerType] /\ \A q \in Pollers : PollerOK(q)'
    <3>1. CASE Drop(p, t)
      BY <3>1, <1>0, DropEffect DEF PollerOK
    <3>2. CASE Bill(p, t, -c.quota)
      BY <3>2, <2>2, <1>0, BillEffect DEF PollerOK
    <3> QED
      BY <2>1, <3>1, <3>2
  <2>4. TypeOK'
    BY <1>6, <1>0, <2>2, <2>3, FaultTyped DEF SweepTask, TypeOK
  <2> QED
    BY <1>6, <1>0, <2>3, <2>4 DEF SweepTask, TypeInv, GetOK
<1>7. ASSUME NEW p \in Pollers, Load(p) PROVE TypeInv'
  <2>1. PICK S : Round(p, "poll", Copies(S))
    BY <1>7 DEF Load
  <2>2. poller' \in [Pollers -> PollerType] /\ \A q \in Pollers : PollerOK(q)'
    BY <2>1, <1>0, CopiesTyped, RoundEffect DEF PollerOK
  <2> QED
    BY <1>7, <1>0, <2>2 DEF Load, TypeInv, TypeOK, GetOK
<1>8. ASSUME NEW p \in Pollers, EndRound(p) PROVE TypeInv'
  <2>2. poller' \in [Pollers -> PollerType] /\ \A q \in Pollers : PollerOK(q)'
    BY <1>8, <1>0, SleepEffect DEF EndRound, PollerOK
  <2> QED
    BY <1>8, <1>0, <2>2 DEF EndRound, TypeInv, TypeOK, GetOK
<1>9. ASSUME NEW p \in Pollers, NEW t \in Tasks, BulkFail(p, t) PROVE TypeInv'
  <2>2. Row("FAILURE", TRUE, row[t].quota) \in RowType
    BY <1>0, RowTyped DEF TypeOK, Final, Row, RowType
  <2>3. poller' \in [Pollers -> PollerType] /\ \A q \in Pollers : PollerOK(q)'
    BY <1>9, <1>0, DropEffect DEF BulkFail, PollerOK
  <2>4. row' \in [Tasks -> RowType]
    BY <1>9, <1>0, <2>2 DEF BulkFail, TypeOK
  <2>5. TypeOK'
    BY <1>9, <1>0, <2>3, <2>4, FaultTyped DEF BulkFail, TypeOK
  <2> QED
    BY <1>9, <1>0, <2>3, <2>5 DEF BulkFail, TypeInv, GetOK
<1>10. ASSUME NEW p \in Pollers, NEW t \in Tasks, Fetch(p, t) PROVE TypeInv'
  <2>1. poller' \in [Pollers -> PollerType] /\ \A q \in Pollers : PollerOK(q)'
    <3>1. CASE Drop(p, t)
      BY <3>1, <1>0, DropEffect DEF PollerOK
    <3>2. ASSUME NEW s \in Answers(t), Hold(p, "answered", t, s, 0)
          PROVE  poller' \in [Pollers -> PollerType] /\ \A q \in Pollers : PollerOK(q)'
      <4>1. s \in KnownAnswers(t) /\ s \in AnswerType
        BY <1>0, <3>2, AnswersKnown, KnownTyped
      <4> QED
        BY <3>2, <4>1, <1>0, HoldEffect DEF PollerOK, KnownAnswers
    <3> QED
      BY <1>10, <3>1, <3>2 DEF Fetch
  <2> QED
    BY <1>10, <1>0, <2>1 DEF Fetch, TypeInv, TypeOK, GetOK
<1>11. ASSUME NEW p \in Pollers, SaveVideo(p) PROVE TypeInv'
  <2> DEFINE t == poller[p].cur
             s == poller[p].answer
             c == poller[p].copy[t]
  <2>1. t \in Tasks /\ t \notin Suno /\ s \in Unfinished \cup Final
    BY <1>11, <1>0, KnownTyped DEF SaveVideo, PollerOK
  <2>2. c.quota \in Nat /\ -c.quota \in Int /\ SettleAmount(t, c.quota) \in Int
    BY <2>1, <1>r, <1>0 DEF SettleAmount, TypeOK
  <2>3. Row(s, s \in Final, c.quota) \in RowType
    BY <2>1, <2>2 DEF Row, RowType
  <2>4. Drop(p, t) \/ \E d \in Int : Bill(p, t, d)
    BY <1>11, <2>2 DEF SaveVideo
  <2>5. poller' \in [Pollers -> PollerType] /\ \A q \in Pollers : PollerOK(q)'
    <3>1. CASE Drop(p, t)
      BY <2>1, <3>1, <1>0, DropEffect DEF PollerOK
    <3>2. CASE \E d \in Int : Bill(p, t, d)
      BY <2>1, <3>2, <1>0, BillEffect DEF PollerOK
    <3> QED
      BY <2>4, <3>1, <3>2
  <2>6. row' \in [Tasks -> RowType]
    BY <1>11, <1>0, <2>3 DEF SaveVideo, TypeOK
  <2>7. TypeOK'
    BY <1>11, <1>0, <2>5, <2>6, FaultTyped DEF SaveVideo, TypeOK
  <2> QED
    BY <1>11, <1>0, <2>5, <2>7 DEF SaveVideo, TypeInv, GetOK
<1>12. ASSUME NEW p \in Pollers, UpdateSuno(p) PROVE TypeInv'
  <2> DEFINE t == poller[p].cur
             s == poller[p].answer
             c == poller[p].copy[t]
             failed == s \in {"FAILURE", "REASON", "REJECTED"}
             new == Row(IF s = "REASON" THEN "IN_PROGRESS" ELSE s, failed \/ s = "SUCCESS", c.quota)
  <2>1. t \in Tasks /\ s \in {"IN_PROGRESS", "SUCCESS", "FAILURE", "REASON", "REJECTED"}
    BY <1>12, <1>0 DEF UpdateSuno, PollerOK, KnownAnswers
  <2>2. c.quota \in Nat /\ -c.quota \in Int
    BY <2>1, <1>r
  <2>3. new \in RowType
    BY <2>1, <2>2 DEF Unfinished, Final, Row, RowType
  <2>4. [poller[p].copy EXCEPT ![t] = new] \in [Tasks -> RowType]
    BY <2>1, <2>3, <1>s
  <2>5. poller' \in [Pollers -> PollerType] /\ \A q \in Pollers : PollerOK(q)'
    <3>1. CASE Drop(p, t)
      BY <3>1, <2>1, <1>0, DropEffect DEF PollerOK
    <3>2. ASSUME NEW at \in {"funding", "save"}, NEW n \in Int,
                 poller' = [poller EXCEPT ![p] =
                   [at |-> at, phase |-> "poll", copy |-> [poller[p].copy EXCEPT ![t] = new],
                    cur |-> t, answer |-> "none", amount |-> n]]
          PROVE  poller' \in [Pollers -> PollerType] /\ \A q \in Pollers : PollerOK(q)'
      BY <3>2, <2>1, <2>4, <1>0, SMTT(30) DEF TypeOK, PollerType, AnswerType, PollerOK
    <3>3. ASSUME ~Drop(p, t)
          PROVE  poller' \in [Pollers -> PollerType] /\ \A q \in Pollers : PollerOK(q)'
      <4> DEFINE at == IF failed /\ c.quota # 0 THEN "funding" ELSE "save"
                 n == IF failed /\ c.quota # 0 THEN -c.quota ELSE 0
      <4>1. at \in {"funding", "save"} /\ n \in Int
        BY <2>2
      <4>2. poller' = [poller EXCEPT ![p] =
              [at |-> at, phase |-> "poll", copy |-> [poller[p].copy EXCEPT ![t] = new],
               cur |-> t, answer |-> "none", amount |-> n]]
        BY <1>12, <3>3 DEF UpdateSuno
      <4> HIDE DEF at, n, new
      <4> QED
        BY <3>2, <4>1, <4>2
    <3> QED
      BY <3>1, <3>3
  <2> QED
    BY <1>12, <1>0, <2>5 DEF UpdateSuno, TypeInv, TypeOK, GetOK
<1>13. ASSUME NEW p \in Pollers, SaveSuno(p) PROVE TypeInv'
  <2>1. poller[p].cur \in Tasks
    BY <1>13, <1>0 DEF SaveSuno, PollerOK
  <2>2. poller' \in [Pollers -> PollerType] /\ \A q \in Pollers : PollerOK(q)'
    BY <1>13, <2>1, <1>0, DropEffect DEF SaveSuno, PollerOK
  <2>3. row' \in [Tasks -> RowType]
    BY <1>13, <1>0, <2>1, <1>r DEF SaveSuno, TypeOK
  <2>4. TypeOK'
    BY <1>13, <1>0, <2>2, <2>3, FaultTyped DEF SaveSuno, TypeOK
  <2> QED
    BY <1>13, <1>0, <2>2, <2>4 DEF SaveSuno, TypeInv, GetOK
<1>14. ASSUME NEW p \in Pollers, BillFunding(p) PROVE TypeInv'
  <2>1. poller[p].cur \in Tasks
    BY <1>14, <1>0 DEF BillFunding, PollerOK
  <2>2. Hold(p, "token", poller[p].cur, "none", poller[p].amount) \/ Billed(p)
    BY <1>14 DEF BillFunding
  <2>3. poller' \in [Pollers -> PollerType] /\ \A q \in Pollers : PollerOK(q)'
    <3>1. CASE Hold(p, "token", poller[p].cur, "none", poller[p].amount)
      <4>1. "none" \in AnswerType
        BY DEF AnswerType
      <4> QED
        BY <3>1, <4>1, <2>1, <1>0, <1>s, HoldEffect DEF PollerOK
    <3>2. CASE Billed(p)
      BY <3>2, <2>1, <1>0, BilledEffect DEF PollerOK
    <3> QED
      BY <2>2, <3>1, <3>2
  <2>4. TypeOK'
    BY <1>14, <1>0, <1>s, <2>1, <2>3, FaultTyped DEF BillFunding, TypeOK
  <2> QED
    BY <1>14, <1>0, <2>3, <2>4 DEF BillFunding, TypeInv, GetOK
<1>15. ASSUME NEW p \in Pollers, BillToken(p) PROVE TypeInv'
  <2>1. poller[p].cur \in Tasks /\ Billed(p)
    BY <1>15, <1>0 DEF BillToken, PollerOK
  <2>3. poller' \in [Pollers -> PollerType] /\ \A q \in Pollers : PollerOK(q)'
    BY <2>1, <1>0, BilledEffect DEF PollerOK
  <2>4. TypeOK'
    BY <1>15, <1>0, <1>s, <2>1, <2>3, FaultTyped DEF BillToken, TypeOK
  <2> QED
    BY <1>15, <1>0, <2>3, <2>4 DEF BillToken, TypeInv, GetOK
<1>16. ASSUME NEW p \in Pollers, Crash(p) PROVE TypeInv'
  <2>1. poller[p].at \in {"funding", "token"} => poller[p].cur \in Tasks
    BY <1>0 DEF PollerOK
  <2>2. poller' \in [Pollers -> PollerType] /\ \A q \in Pollers : PollerOK(q)'
    BY <1>16, <1>0, SleepEffect DEF Crash, PollerOK
  <2>3. crashes' \in 0 .. MaxCrashes
    BY <1>16, <1>0, TaskAssumption DEF Crash, TypeOK
  <2>5. disturbed' \subseteq Tasks
    <3>1. CASE poller[p].at \in {"funding", "token"}
      BY <1>16, <1>0, <2>1, <3>1 DEF Crash, TypeOK
    <3>2. CASE poller[p].at \notin {"funding", "token"}
      BY <1>16, <1>0, <3>2 DEF Crash, TypeOK
    <3> QED
      BY <3>1, <3>2
  <2>4. TypeOK'
    BY <1>16, <1>0, <2>2, <2>3, <2>5 DEF Crash, TypeOK
  <2> QED
    BY <1>16, <1>0, <2>2, <2>4 DEF Crash, TypeInv, GetOK
<1>17. ASSUME NEW t \in Tasks, UserRead(t) PROVE TypeInv'
  <2>2. get' \in [Tasks -> GetType] /\ \A u \in Tasks : GetOK(u)'
    BY <1>17, <1>0 DEF UserRead, TypeOK, GetType, AnswerType, GetOK
  <2>3. TypeOK'
    BY <1>17, <1>0, <2>2, TaskAssumption DEF UserRead, TypeOK
  <2> QED
    BY <1>17, <1>0, <2>2, <2>3 DEF UserRead, TypeInv, PollerOK
<1>18. ASSUME NEW t \in Tasks, UserFetch(t) PROVE TypeInv'
  <2>1. get' \in [Tasks -> GetType] /\ \A u \in Tasks : GetOK(u)'
    <3>1. CASE get' = [get EXCEPT ![t] = NoGet]
      BY <3>1, <1>0, RowTyped DEF TypeOK, NoGet, GetType, AnswerType, GetOK
    <3>2. ASSUME NEW s \in Answers(t),
                 get' = [get EXCEPT ![t] = [at |-> "answered", copy |-> get[t].copy, answer |-> s]]
          PROVE  get' \in [Tasks -> GetType] /\ \A u \in Tasks : GetOK(u)'
      <4>1. s \in KnownAnswers(t) /\ s \in AnswerType /\ t \in Realtime
        BY <1>18, <1>0, <3>2, AnswersKnown, KnownTyped DEF UserFetch, GetOK
      <4>2. get[t] \in GetType /\ get \in [Tasks -> GetType]
        BY <1>0 DEF TypeOK
      <4> QED
        BY <3>2, <4>1, <4>2, <1>0 DEF GetType, GetOK, KnownAnswers
    <3> QED
      BY <1>18, <3>1, <3>2 DEF UserFetch
  <2> QED
    BY <1>18, <1>0, <2>1 DEF UserFetch, TypeInv, TypeOK, PollerOK
<1>19. ASSUME NEW t \in Tasks, UserSave(t) PROVE TypeInv'
  <2> DEFINE c == get[t].copy
             s == get[t].answer
  <2>1. s \in Unfinished \cup Final /\ c.quota \in Nat
    BY <1>19, <1>0, KnownTyped, RowTyped, TaskAssumption DEF UserSave, GetOK, TypeOK, GetType
  <2>2. Row(s, s \in Final, c.quota) \in RowType
    BY <2>1 DEF Row, RowType
  <2>3. row' \in [Tasks -> RowType]
    BY <1>19, <1>0, <2>2 DEF UserSave, TypeOK
  <2>4. get' \in [Tasks -> GetType] /\ \A u \in Tasks : GetOK(u)'
    BY <1>19, <1>0, RowTyped DEF UserSave, TypeOK, NoGet, GetType, AnswerType, GetOK
  <2>5. TypeOK'
    BY <1>19, <1>0, <2>3, <2>4 DEF UserSave, TypeOK
  <2> QED
    BY <1>19, <1>0, <2>4, <2>5 DEF UserSave, TypeInv, PollerOK
<1>20. CASE UNCHANGED vars
  BY <1>20, <1>0 DEF vars, TypeInv, TypeOK, PollerOK, GetOK
<1> QED
  BY <1>1, <1>2, <1>3, <1>4, <1>5, <1>6, <1>7, <1>8, <1>9, <1>10, <1>11, <1>12, <1>13,
     <1>14, <1>15, <1>16, <1>17, <1>18, <1>19, <1>20 DEF Next, PollLoop

\* Every variable keeps its type: in particular a row's status is one of the
\* known ones whatever an upstream answers.
THEOREM TypeCorrect == Spec => []TypeOK
<1>1. Spec => []TypeInv
  BY TypeInit, TypeStep, PTL DEF Spec
<1>2. TypeInv => TypeOK
  BY DEF TypeInv
<1> QED
  BY <1>1, <1>2, PTL

=============================================================================
