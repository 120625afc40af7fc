----------------------------- MODULE TaskPolling -----------------------------
(***************************************************************************)
(* The life of asynchronous tasks (videos, songs) after their submission:  *)
(* the poll loops that every master node runs, with the sweep of timed-out *)
(* tasks, the user requests that fetch a Gemini or Vertex task in real     *)
(* time, and the billing that goes with a change of status: the refund of  *)
(* a failed task and the settlement of a successful one.                   *)
(*                                                                         *)
(* A step is one database statement or one answer of the upstream.  A      *)
(* task's row is abstracted to its status, whether its progress is 100%,   *)
(* and its quota; a copy of it in memory has the same fields.  Every task  *)
(* has a channel of its own.                                               *)
(***************************************************************************)
EXTENDS Integers, FiniteSets

CONSTANTS
  Tasks,       \* the tasks, by primary key
  Pollers,     \* the nodes that run TaskPollingLoop
  Suno,        \* the tasks of the Suno platform; the others are videos
  Realtime,    \* the tasks of a Gemini or Vertex channel
  Legacy,      \* the tasks submitted before legacyTaskCutoff
  PreQuotas,   \* the quotas a submission may have pre-consumed
  Quotas,      \* the quotas a submission may be charged (result.Quota)
  Costs,       \* what a successful task may turn out to cost, 0: not adjusted
  Timeouts,    \* constant.TaskTimeoutMinutes > 0
  QueryLimit,  \* constant.TaskQueryLimit
  SweepLimit,  \* the limit of sweepTimedOutTasks
  FaultPoints, \* the writes that may return a database error
  MaxFaults,   \* bound: database errors in a behaviour
  MaxCrashes,  \* bound: crashes of a poller in a behaviour
  MaxFetches,  \* bound: user fetches in a behaviour
  MaxOrphans   \* bound: channels deleted in a behaviour

WritePoints ==
  {"settle", "insert", "sweep", "save", "sunoSave", "bulk", "funding", "token"}

ASSUME TaskAssumption ==
  /\ Tasks \subseteq Nat \ {0}
  /\ Suno \subseteq Tasks
  /\ Realtime \subseteq Tasks \ Suno
  /\ Legacy \subseteq Tasks
  /\ PreQuotas \subseteq Nat /\ Quotas \subseteq Nat
  /\ Costs \subseteq Nat
  /\ Timeouts \in BOOLEAN
  /\ QueryLimit \in Nat \ {0}
  /\ SweepLimit \in Nat \ {0}
  /\ FaultPoints \subseteq WritePoints
  /\ MaxFaults \in Nat /\ MaxCrashes \in Nat /\ MaxFetches \in Nat /\ MaxOrphans \in Nat

VARIABLES
  row,       \* the tasks table
  upstream,  \* the state of the task at the provider
  cost,      \* what the provider's answer makes a successful task cost
  old,       \* the tasks submitted more than TaskTimeoutMinutes ago
  orphan,    \* the tasks whose channel was deleted
  poller,    \* the local state of each poll loop
  get,       \* the user fetch in progress for each task
  paid,      \* history: net quota a task took from its funding source
  tokenPaid, \* history: net quota a task took from its token
  disturbed, \* history: tasks whose submission or billing met an error or a crash
  forced,    \* history: tasks whose status was changed without billing
  faults, crashes, fetches

env == <<upstream, cost, old, orphan>>
ledger == <<paid, tokenPaid>>
counters == <<faults, crashes, fetches>>
vars == <<row, env, poller, get, ledger, disturbed, forced, counters>>

\* NOT_START, SUBMITTED and QUEUED are treated alike, and as IN_PROGRESS so is a
\* status of a song that is not known.  "REJECTED" is the SUCCESS of a song
\* together with a fail_reason.
Unfinished == {"NOT_START", "IN_PROGRESS"}
Final == {"SUCCESS", "FAILURE", "REJECTED"}

Row(status, full, quota) == [status |-> status, full |-> full, quota |-> quota]
Absent == Row("absent", FALSE, 0)
RowType == [status : Unfinished \cup Final \cup {"absent"}, full : BOOLEAN, quota : Nat]

\* "REASON" is an unfinished Suno status together with a fail_reason.
AnswerType == {"none", "IN_PROGRESS", "REASON"} \cup Final

NoTask == 0
NoCopies == [t \in Tasks |-> Absent]

\* phase: sweepTimedOutTasks or the main loop; copy: the rows loaded and not
\* yet dealt with; cur: the task in hand; amount: the billing under way.
Asleep ==
  [at |-> "sleep", phase |-> "sweep", copy |-> NoCopies, cur |-> NoTask,
   answer |-> "none", amount |-> 0]

PollerType ==
  [at : {"sleep", "next", "answered", "funding", "token", "save"},
   phase : {"sweep", "poll"}, copy : [Tasks -> RowType], cur : Tasks \cup {NoTask},
   answer : AnswerType, amount : Int]

NoGet == [at |-> "none", copy |-> Absent, answer |-> "none"]
GetType == [at : {"none", "read", "answered"}, copy : RowType, answer : AnswerType]

Init ==
  /\ row = NoCopies
  /\ upstream = [t \in Tasks |-> "IN_PROGRESS"]
  /\ cost = [t \in Tasks |-> 0]
  /\ old = {} /\ orphan = {}
  /\ poller = [p \in Pollers |-> Asleep]
  /\ get = [t \in Tasks |-> NoGet]
  /\ paid = [t \in Tasks |-> 0]
  /\ tokenPaid = [t \in Tasks |-> 0]
  /\ disturbed = {} /\ forced = {}
  /\ faults = 0 /\ crashes = 0 /\ fetches = 0

Fault(w) ==
  /\ w \in FaultPoints
  /\ faults < MaxFaults
  /\ faults' = faults + 1
  /\ UNCHANGED <<crashes, fetches>>

\* Mutant: the progress is not looked at.
UnfinishedStatus(r) == r.status \in Unfinished

\* The tasks GetAllUnFinishSyncTasks and GetTimedOutUnfinishedTasks select.
UnfinishedRow(r) == r.status \in Unfinished /\ ~r.full

\* Mutant: a task that was never seen running does not time out.
TimedOutRunning(t) == UnfinishedRow(row[t]) /\ row[t].status = "IN_PROGRESS" /\ t \in old

TimedOut(t) == UnfinishedRow(row[t]) /\ t \in old

\* The first n of S by primary key.
First(S, n) == {t \in S : Cardinality({u \in S : u < t}) < n}

Copies(S) == [t \in Tasks |-> IF t \in S THEN row[t] ELSE Absent]

\* Mutant: the status is not compared.
CASAlways(t, from) == row[t] # Absent

\* The WHERE clause of UpdateWithStatus.
CAS(t, from) == row[t].status = from

\* A poller is about to take the next of the rows it has loaded.
Round(p, phase, copy) ==
  poller' = [poller EXCEPT ![p] = [at |-> "next", phase |-> phase, copy |-> copy,
                                   cur |-> NoTask, answer |-> "none", amount |-> 0]]

\* It is done with task t of them.
Drop(p, t) == Round(p, poller[p].phase, [poller[p].copy EXCEPT ![t] = Absent])

\* It has task t in hand.
Hold(p, at, t, answer, amount) ==
  poller' = [poller EXCEPT ![p] = [at |-> at, phase |-> poller[p].phase,
                                   copy |-> poller[p].copy, cur |-> t,
                                   answer |-> answer, amount |-> amount]]

\* It starts billing t by amount d (negative: a refund).
Bill(p, t, d) == Hold(p, "funding", t, "none", d)

-----------------------------------------------------------------------------
(* RelayTask after an accepted submission, and the world outside.           *)

\* SettleBilling, then the insertion of the task.  Both errors are only
\* logged: a settlement that fails leaves the pre-consumption pre, a row that
\* is not inserted (or a crash before it) leaves a charge without a task.
\* Primary keys are given out in the order of the insertions.
Submit(t, pre, q) ==
  LET charge(n) == /\ paid' = [paid EXCEPT ![t] = n]
                   /\ tokenPaid' = [tokenPaid EXCEPT ![t] = n]
      insert == row' = [row EXCEPT ![t] = Row("NOT_START", FALSE, q)] IN
  /\ row[t] = Absent /\ t \notin disturbed
  /\ \A u \in Tasks : u < t => row[u] # Absent \/ u \in disturbed
  /\ \/ charge(q) /\ insert /\ UNCHANGED <<disturbed, counters>>
     \/ charge(pre) /\ insert /\ Fault("settle") /\ disturbed' = disturbed \cup {t}
     \/ charge(q) /\ Fault("insert") /\ disturbed' = disturbed \cup {t} /\ UNCHANGED row
  /\ UNCHANGED <<env, poller, get, forced>>

\* The provider finishes the task.
UpstreamEnds(t) ==
  /\ row[t] # Absent
  /\ upstream[t] = "IN_PROGRESS"
  /\ \/ upstream' = [upstream EXCEPT ![t] = "FAILURE"] /\ UNCHANGED cost
     \/ \E c \in Costs : /\ upstream' = [upstream EXCEPT ![t] = "SUCCESS"]
                         /\ cost' = [cost EXCEPT ![t] = c]
  /\ UNCHANGED <<row, old, orphan, poller, get, ledger, disturbed, forced, counters>>

\* TaskTimeoutMinutes have passed since the submission of t.
Age(t) ==
  /\ Timeouts
  /\ row[t] # Absent /\ t \notin old
  /\ old' = old \cup {t}
  /\ UNCHANGED <<row, upstream, cost, orphan, poller, get, ledger, disturbed, forced, counters>>

\* An administrator deletes the channel of t.
DeleteChannel(t) ==
  /\ Cardinality(orphan) < MaxOrphans
  /\ row[t] # Absent /\ t \notin orphan
  /\ orphan' = orphan \cup {t}
  /\ UNCHANGED <<row, upstream, cost, old, poller, get, ledger, disturbed, forced, counters>>

\* Mutant: a status that is not known is taken over.
AnswersUnchecked(t) == {upstream[t], "UNKNOWN"}

\* What the upstream may answer for t.  Any error body it sends for a video is
\* read as a failure of the task; a Suno item may carry a fail_reason.
Answers(t) ==
  {upstream[t]} \cup
  IF t \notin Suno THEN {"FAILURE"}
  ELSE CASE upstream[t] = "IN_PROGRESS" -> {"REASON"}
         [] upstream[t] = "SUCCESS" -> {"REJECTED"}
         [] OTHER -> {}

-----------------------------------------------------------------------------
(* TaskPollingLoop.                                                         *)

\* sweepTimedOutTasks reads the timed-out tasks.
SweepRead(p) ==
  /\ poller[p].at = "sleep"
  /\ Round(p, "sweep", Copies(IF Timeouts THEN First({t \in Tasks : TimedOut(t)}, SweepLimit)
                                          ELSE {}))
  /\ UNCHANGED <<row, env, get, ledger, disturbed, forced, counters>>

\* One timed-out task is failed by a CAS and, if that is won, refunded.
SweepTask(p, t) ==
  LET c == poller[p].copy[t] IN
  /\ poller[p].at = "next" /\ poller[p].phase = "sweep" /\ c # Absent
  /\ \/ /\ CAS(t, c.status)
        /\ row' = [row EXCEPT ![t] = Row("FAILURE", TRUE, c.quota)]
        /\ IF t \notin Legacy /\ c.quota # 0 THEN Bill(p, t, -c.quota) ELSE Drop(p, t)
        /\ UNCHANGED counters
     \/ ~CAS(t, c.status) /\ Drop(p, t) /\ UNCHANGED <<row, counters>>
     \/ Fault("sweep") /\ Drop(p, t) /\ UNCHANGED row
  /\ UNCHANGED <<env, get, ledger, disturbed, forced>>

\* GetAllUnFinishSyncTasks, once the sweep is over.  Each row has an upstream id,
\* at the least its own task id, so that none is failed here for the lack of one.
Load(p) ==
  /\ poller[p].at = "next" /\ poller[p].phase = "sweep" /\ poller[p].copy = NoCopies
  /\ Round(p, "poll", Copies(First({t \in Tasks : UnfinishedRow(row[t])}, QueryLimit)))
  /\ UNCHANGED <<row, env, get, ledger, disturbed, forced, counters>>

EndRound(p) ==
  /\ poller[p].at = "next" /\ poller[p].phase = "poll" /\ poller[p].copy = NoCopies
  /\ poller' = [poller EXCEPT ![p] = Asleep]
  /\ UNCHANGED <<row, env, get, ledger, disturbed, forced, counters>>

\* The channel is gone: TaskBulkUpdateByID, without CAS and without a refund.
BulkFail(p, t) ==
  /\ poller[p].at = "next" /\ poller[p].phase = "poll" /\ poller[p].copy[t] # Absent
  /\ t \in orphan
  /\ \/ /\ row' = [row EXCEPT ![t] = Row("FAILURE", TRUE, row[t].quota)]
        /\ forced' = forced \cup {t}
        /\ UNCHANGED counters
     \/ Fault("bulk") /\ UNCHANGED <<row, forced>>
  /\ Drop(p, t)
  /\ UNCHANGED <<env, get, ledger, disturbed>>

\* FetchTask.  An error, a 429 or a status that is not known leaves the task
\* to the next round.
Fetch(p, t) ==
  /\ poller[p].at = "next" /\ poller[p].phase = "poll" /\ poller[p].copy[t] # Absent
  /\ t \notin orphan
  /\ (\E s \in Answers(t) : Hold(p, "answered", t, s, 0)) \/ Drop(p, t)
  /\ UNCHANGED <<row, env, get, ledger, disturbed, forced, counters>>

\* Mutant: the cost is charged on top of the quota.
SettleCost(t, quota) == cost[t]

\* settleTaskBillingOnComplete: what a success adds to the charge.
SettleAmount(t, quota) == IF cost[t] > 0 THEN cost[t] - quota ELSE 0

\* The rest of updateVideoSingleTask: the new status by a CAS and, when that
\* is won and the task has ended, its billing.
SaveVideo(p) ==
  LET t == poller[p].cur
      s == poller[p].answer
      c == poller[p].copy[t]
      d == IF s = "SUCCESS" THEN SettleAmount(t, c.quota)
           ELSE IF s = "FAILURE" THEN -c.quota ELSE 0 IN
  /\ poller[p].at = "answered" /\ t \notin Suno
  /\ \/ /\ CAS(t, c.status)
        /\ row' = [row EXCEPT ![t] = Row(s, s \in Final, c.quota)]
        /\ IF d # 0 THEN Bill(p, t, d) ELSE Drop(p, t)
        /\ UNCHANGED counters
     \/ ~CAS(t, c.status) /\ Drop(p, t) /\ UNCHANGED <<row, counters>>
     \/ Fault("save") /\ Drop(p, t) /\ UNCHANGED row
  /\ UNCHANGED <<env, get, ledger, disturbed, forced>>

\* The loop body of updateSunoTasks up to task.Update(): the refund comes
\* first.  An item without news (taskNeedsUpdate) is skipped.
UpdateSuno(p) ==
  LET t == poller[p].cur
      s == poller[p].answer
      c == poller[p].copy[t]
      failed == s \in {"FAILURE", "REASON", "REJECTED"}
      new == Row(IF s = "REASON" THEN "IN_PROGRESS" ELSE s, failed \/ s = "SUCCESS", c.quota)
      refund == failed /\ c.quota # 0 IN
  /\ poller[p].at = "answered" /\ t \in Suno
  /\ \/ poller' = [poller EXCEPT ![p] =
          [at |-> IF refund THEN "funding" ELSE "save", phase |-> "poll",
           copy |-> [poller[p].copy EXCEPT ![t] = new], cur |-> t, answer |-> "none",
           amount |-> IF refund THEN -c.quota ELSE 0]]
     \/ s = c.status /\ Drop(p, t)
  /\ UNCHANGED <<row, env, get, ledger, disturbed, forced, counters>>

\* task.Update(): the whole row, whatever its status is by now.
SaveSuno(p) ==
  LET t == poller[p].cur IN
  /\ poller[p].at = "save"
  /\ \/ row' = [row EXCEPT ![t] = poller[p].copy[t]] /\ UNCHANGED counters
     \/ Fault("sunoSave") /\ UNCHANGED row
  /\ Drop(p, t)
  /\ UNCHANGED <<env, get, ledger, disturbed, forced>>

-----------------------------------------------------------------------------
(* RefundTaskQuota and RecalculateTaskQuota.                                *)

\* Billing is over: a Suno task of the main loop is saved now.
Billed(p) ==
  LET t == poller[p].cur IN
  IF t \in Suno /\ poller[p].phase = "poll"
    THEN Hold(p, "save", t, "none", 0)
    ELSE Drop(p, t)

\* taskAdjustFunding; an error ends the billing.
BillFunding(p) ==
  LET t == poller[p].cur IN
  /\ poller[p].at = "funding"
  /\ \/ /\ paid' = [paid EXCEPT ![t] = @ + poller[p].amount]
        /\ Hold(p, "token", t, "none", poller[p].amount)
        /\ UNCHANGED <<disturbed, counters>>
     \/ /\ Fault("funding")
        /\ disturbed' = disturbed \cup {t}
        /\ Billed(p)
        /\ UNCHANGED paid
  /\ UNCHANGED <<row, env, get, tokenPaid, forced>>

\* taskAdjustTokenQuota; an error is only logged.
BillToken(p) ==
  LET t == poller[p].cur IN
  /\ poller[p].at = "token"
  /\ \/ /\ tokenPaid' = [tokenPaid EXCEPT ![t] = @ + poller[p].amount]
        /\ UNCHANGED <<disturbed, counters>>
     \/ /\ Fault("token")
        /\ disturbed' = disturbed \cup {t}
        /\ UNCHANGED tokenPaid
  /\ Billed(p)
  /\ UNCHANGED <<row, env, get, paid, forced>>

\* The node dies and restarts; a billing under way is lost.
Crash(p) ==
  /\ crashes < MaxCrashes
  /\ poller[p].at # "sleep"
  /\ crashes' = crashes + 1
  /\ poller' = [poller EXCEPT ![p] = Asleep]
  /\ disturbed' = IF poller[p].at \in {"funding", "token"}
                    THEN disturbed \cup {poller[p].cur} ELSE disturbed
  /\ UNCHANGED <<row, env, get, ledger, forced, faults, fetches>>

-----------------------------------------------------------------------------
(* videoFetchByIDRespBodyBuilder and tryRealtimeFetch: a user asks for the  *)
(* task.                                                                    *)

UserRead(t) ==
  /\ t \in Realtime
  /\ row[t] # Absent
  /\ get[t] = NoGet
  /\ fetches < MaxFetches
  /\ fetches' = fetches + 1
  /\ get' = [get EXCEPT ![t] = [at |-> "read", copy |-> row[t], answer |-> "none"]]
  /\ UNCHANGED <<row, env, poller, ledger, disturbed, forced, faults, crashes>>

\* The channel is gone, the fetch fails, or the upstream answers.
UserFetch(t) ==
  /\ get[t].at = "read"
  /\ \/ get' = [get EXCEPT ![t] = NoGet]
     \/ /\ t \notin orphan
        /\ \E s \in Answers(t) :
             get' = [get EXCEPT ![t] = [at |-> "answered", copy |-> get[t].copy, answer |-> s]]
  /\ UNCHANGED <<row, env, poller, ledger, disturbed, forced, counters>>

\* The answer is saved by a CAS whatever the status was; nothing is billed.
UserSave(t) ==
  LET c == get[t].copy
      s == get[t].answer IN
  /\ get[t].at = "answered"
  /\ IF CAS(t, c.status)
       THEN /\ row' = [row EXCEPT ![t] = Row(s, s \in Final, c.quota)]
            /\ forced' = IF s = c.status THEN forced ELSE forced \cup {t}
       ELSE UNCHANGED <<row, forced>>
  /\ get' = [get EXCEPT ![t] = NoGet]
  /\ UNCHANGED <<env, poller, ledger, disturbed, counters>>

-----------------------------------------------------------------------------

PollLoop(p) ==
  \/ SweepRead(p) \/ Load(p) \/ EndRound(p)
  \/ \E t \in Tasks : SweepTask(p, t) \/ BulkFail(p, t) \/ Fetch(p, t)
  \/ SaveVideo(p) \/ UpdateSuno(p) \/ SaveSuno(p)
  \/ BillFunding(p) \/ BillToken(p)

Next ==
  \/ \E p \in Pollers : PollLoop(p) \/ Crash(p)
  \/ \E t \in Tasks :
       \/ \E pre \in PreQuotas, q \in Quotas : Submit(t, pre, q)
       \/ UpstreamEnds(t) \/ Age(t) \/ DeleteChannel(t)
       \/ UserRead(t) \/ UserFetch(t) \/ UserSave(t)

Spec == Init /\ [][Next]_vars

\* The loop is never left and time passes.  Nothing is assumed of the
\* provider or of the users.
FairSpec ==
  /\ Spec
  /\ \A p \in Pollers : WF_vars(PollLoop(p))
  /\ \A t \in Tasks : WF_vars(Age(t))

-----------------------------------------------------------------------------
(* Properties.                                                              *)

TypeOK ==
  /\ row \in [Tasks -> RowType]
  /\ upstream \in [Tasks -> {"IN_PROGRESS", "SUCCESS", "FAILURE"}]
  /\ cost \in [Tasks -> Nat]
  /\ old \subseteq Tasks /\ orphan \subseteq Tasks
  /\ poller \in [Pollers -> PollerType]
  /\ get \in [Tasks -> GetType]
  /\ paid \in [Tasks -> Int]
  /\ tokenPaid \in [Tasks -> Int]
  /\ disturbed \subseteq Tasks /\ forced \subseteq Tasks
  /\ faults \in 0 .. MaxFaults
  /\ crashes \in 0 .. MaxCrashes
  /\ fetches \in 0 .. MaxFetches

\* A poller is billing task t, or has billed it and not yet saved it.
Billing(p, t) == poller[p].cur = t /\ poller[p].at \in {"funding", "token", "save"}

\* What the status of a task says it should have been charged.  A task from
\* before the cutoff is not refunded when it times out.
Due(t) ==
  LET q == row[t].quota IN
  IF row[t].status = "SUCCESS" THEN {IF t \in Suno \/ cost[t] = 0 THEN q ELSE cost[t]}
  ELSE IF row[t].status = "FAILURE" \/ row[t].full
    THEN {0} \cup IF t \in Legacy THEN {q} ELSE {}
    ELSE {q}

BilledRight(t) ==
  row[t] # Absent /\ t \notin disturbed /\ (\A p \in Pollers : ~Billing(p, t))
    => paid[t] \in Due(t) /\ tokenPaid[t] = paid[t]

\* Outside of a billing under way, a task has been charged what its status
\* says, on the funding source and on the token: its quota while it is
\* running, its cost when it has succeeded, nothing when it has failed (unless
\* a write failed or the node died in the middle of its billing).
BilledAsFinished == \A t \in Tasks : BilledRight(t)

\* The same, for the tasks whose status no bulk update or user fetch changed.
BilledUnlessForced == \A t \in Tasks \ forced : BilledRight(t)

\* However many nodes poll, sweep, fail and restart, a task is never refunded
\* more than it was charged.
NoOverRefund == \A t \in Tasks : paid[t] >= 0 /\ tokenPaid[t] >= 0

\* The bulk update of the tasks of a deleted channel has no CAS.
KeepsFinal ==
  \A t \in Tasks : row[t].status \in Final =>
     row'[t].status = row[t].status \/ (t \in orphan /\ row'[t].status = "FAILURE")

\* The status a task has ended with stays: no poller or sweep of any node
\* overwrites a verdict with an answer it has held for too long.  Two others do:
\* the bulk update, which makes a failure of every task of a deleted channel, and
\* the fetch by a user, which no run or theorem about this property has.
FinishedStays == [][KeepsFinal]_vars

\* A song that the provider reported as running, together with a fail_reason: it
\* is refunded, but neither the poll nor the sweep selects a progress of 100%.
GivenUp(t) == t \in Suno /\ row[t].status \in Unfinished /\ row[t].full

\* A task ends, whatever the provider does and however many tasks are stuck
\* before it in the list: at the latest the sweep ends it.  Only a song that was
\* given up stays unfinished for ever.
TaskFinishes ==
  \A t \in Tasks : row[t] # Absent ~> row[t].status \in Final \/ GivenUp(t)

=============================================================================
