---------------------------- MODULE CloudMonitor ----------------------------
(***************************************************************************)
(* The monitor of the cloud accounts, composed with the switching it may   *)
(* ask for: a poll refreshes the quota and the status of every account and *)
(* then looks, for one target after the other, whether its account is used *)
(* up and another one is better.  Polls are started by the timer, by the   *)
(* focus of the window and by the user.                                    *)
(***************************************************************************)
EXTENDS AccountSwitch

CONSTANT
  Polls   \* the calls of poll

\* A poll asks for at most one switch per target.
ASSUME MonitorAssumption ==
  Tasks = 1..Cardinality(Tasks) /\ Cardinality(Tasks) >= MaxAsks + 2 * Cardinality(Polls)

VARIABLES
  poll,      \* each call of poll
  isPolling,
  enabled    \* the setting auto_switch_enabled

vars == <<switchVars, poll, isPolling, enabled>>

PollPcs == {"new", "list", "fetch", "mark", "check", "decide", "best", "await", "over"}

\* left: the accounts still to look at; account: the one looked at; targets: those
\* still to be checked; seen: the rows read, of the accounts in seenIds, lead the
\* active one of them; current: the account to leave; task: the switch waited for.
NoPoll ==
  [pc |-> "new", left |-> {}, account |-> NoAccount, targets |-> <<>>,
   seen |-> [a \in Accounts |-> Row("active", "none")], seenIds |-> {},
   lead |-> NoAccount, current |-> NoAccount, task |-> 0]

Init ==
  /\ SwitchInit
  /\ poll = [p \in Polls |-> NoPoll]
  /\ isPolling = FALSE
  /\ enabled \in BOOLEAN

At(p, stage) == poll' = [poll EXCEPT ![p].pc = stage]

\* Mutant: the flag is not reset.
OverStillPolling(p) ==
  poll' = [poll EXCEPT ![p] = [NoPoll EXCEPT !.pc = "over"]] /\ UNCHANGED isPolling

\* The finally of poll.
Over(p) == poll' = [poll EXCEPT ![p] = [NoPoll EXCEPT !.pc = "over"]] /\ isPolling' = FALSE

\* getAccounts: the rows are read at once and decrypted later.
Read(p, stage) ==
  poll' = [poll EXCEPT ![p].pc = stage, ![p].seen = rows, ![p].seenIds = exists \cap Accounts,
             ![p].lead = active]

\* poll is called: it returns at once while another one is at work.
StartPoll(p) ==
  IF isPolling
  THEN At(p, "over") /\ UNCHANGED isPolling
  ELSE Read(p, "list") /\ isPolling' = TRUE

\* start, the timer, handleAppFocus and forcePollCloudMonitor.
PollCalled(p) ==
  /\ poll[p].pc = "new"
  /\ StartPoll(p)
  /\ UNCHANGED <<switchVars, enabled>>

\* setAutoSwitchEnabled: switching it on starts a poll.
SetAutoSwitchEnabled ==
  /\ \/ enabled /\ enabled' = FALSE /\ UNCHANGED <<poll, isPolling>>
     \/ /\ ~enabled /\ enabled' = TRUE
        /\ \E p \in Polls : poll[p].pc = "new" /\ StartPoll(p)
  /\ UNCHANGED switchVars

\* The next account of the list, or the targets when there is none left.
NextAccount(p, left) ==
  IF left = {}
  THEN poll' = [poll EXCEPT ![p] = [NoPoll EXCEPT !.pc = "check", !.targets = <<"classic", "ide">>]]
  ELSE \E a \in left :
         poll' = [poll EXCEPT ![p] = [NoPoll EXCEPT !.pc = "fetch", !.account = a, !.left = left \ {a}]]

\* getAccounts throws and so ends the poll.
NoList(p) ==
  /\ Fault("list")
  /\ Over(p)
  /\ UNCHANGED <<guardVars, profileVars, task, storeVars>>

Listed(p) ==
  /\ poll[p].pc = "list"
  /\ \/ NextAccount(p, poll[p].seenIds) /\ UNCHANGED <<switchVars, isPolling>>
     \/ NoList(p)
  /\ UNCHANGED enabled

SetRow(a, row) == rows' = IF a \in exists THEN [rows EXCEPT ![a] = row] ELSE rows

\* The token is refreshed if it is near its expiry and the quota fetched: the
\* new quota is saved, or the error is classified and saved as the status.  If
\* that cannot be saved either, which counts as one fault here, the poll is over.
Fetched(p) ==
  /\ poll[p].pc = "fetch"
  /\ LET a == poll[p].account IN
     \/ /\ \E q \in {"low", "ok"} : SetRow(a, [rows[a] EXCEPT !.quota = q])
        /\ At(p, "mark")
        /\ Works(faults)
        /\ UNCHANGED isPolling
     \/ /\ Fault("fetch")
        /\ \E s \in {rows[a].status, "rate_limited", "expired"} :
             SetRow(a, [rows[a] EXCEPT !.status = s])
        /\ NextAccount(p, poll[p].left)
        /\ UNCHANGED isPolling
     \/ /\ Fault("status")
        /\ Over(p)
        /\ UNCHANGED rows
  /\ UNCHANGED <<guardVars, profileVars, task, exists, archives, bound, active, recorded,
                 cred, strayed, enabled>>

\* The status of an account whose quota was fetched becomes active; an error is
\* not one of those that are classified.
MarkedActive(p) ==
  /\ poll[p].pc = "mark"
  /\ \/ /\ SetRow(poll[p].account, [rows[poll[p].account] EXCEPT !.status = "active"])
        /\ Works(faults)
     \/ Fault("status") /\ UNCHANGED rows
  /\ NextAccount(p, poll[p].left)
  /\ UNCHANGED <<guardVars, profileVars, task, exists, archives, bound, active, recorded,
                 cred, strayed, isPolling, enabled>>

----------------------------------------------------------------------------
(* checkAndSwitchIfNeeded, for the targets in turn *)

NextTarget(p) ==
  poll' = [poll EXCEPT ![p] = [NoPoll EXCEPT !.pc = "check", !.targets = Tail(poll[p].targets)]]

\* A setting that cannot be read has its default: no automatic switch.
Check(p) ==
  /\ poll[p].pc = "check"
  /\ \/ poll[p].targets = <<>> /\ Over(p) /\ Works(faults)
     \/ /\ poll[p].targets # <<>>
        /\ (~enabled /\ Works(faults)) \/ (enabled /\ Fault("setting"))
        /\ NextTarget(p) /\ UNCHANGED isPolling
     \/ /\ poll[p].targets # <<>> /\ enabled /\ Works(faults)
        /\ Read(p, "decide") /\ UNCHANGED isPolling
  /\ UNCHANGED <<guardVars, profileVars, task, storeVars, enabled>>

\* The current account of a target, among the rows that were read: the one that
\* the setting names, if any, else the active one.
Current(p, setting) ==
  LET id == IF setting # NoAccount THEN setting ELSE poll[p].lead
  IN IF id \in poll[p].seenIds THEN id ELSE NoAccount

UsedUp(row) == row.quota = "low" \/ row.status = "rate_limited"

\* A current account that is used up: the accounts are read again for the best.
DecideOn(p, current) ==
  IF current # NoAccount /\ UsedUp(poll[p].seen[current])
  THEN poll' = [poll EXCEPT ![p].pc = "best", ![p].current = current,
                  ![p].seen = rows, ![p].seenIds = exists \cap Accounts,
                  ![p].lead = NoAccount]
  ELSE NextTarget(p)

Decide(p) ==
  /\ poll[p].pc = "decide"
  /\ \/ /\ \/ DecideOn(p, Current(p, recorded[Head(poll[p].targets)])) /\ Works(faults)
           \/ DecideOn(p, Current(p, NoAccount)) /\ Fault("setting")
        /\ UNCHANGED <<guardVars, profileVars, task, storeVars, isPolling>>
     \/ NoList(p)
  /\ UNCHANGED enabled

\* findBestAccount.  Which of the healthy accounts has the most left is open.
BestAccounts(p) ==
  {a \in poll[p].seenIds \ {poll[p].current} : poll[p].seen[a] = Row("active", "ok")}

\* Mutant: the switch is not waited for.
NoAwait(p, t) == NextTarget(p)

\* The switch asked for is waited for before the next target is looked at.
Await(p, t) ==
  poll' = [poll EXCEPT ![p] = [NoPoll EXCEPT !.pc = "await", !.task = t,
             !.targets = poll[p].targets]]

SwitchTo(p) ==
  /\ poll[p].pc = "best"
  /\ \/ BestAccounts(p) = {} /\ NextTarget(p) /\ UNCHANGED <<switchVars, isPolling>>
     \/ \E a \in BestAccounts(p), t \in Tasks :
          /\ Ask(t, "monitor", a, Head(poll[p].targets))
          /\ Await(p, t)
          /\ UNCHANGED <<profileVars, storeVars, counts, isPolling>>
     \/ NoList(p)
  /\ UNCHANGED enabled

\* The switch ended: the next target, or the end of the poll if it failed.
Switched(p) ==
  /\ poll[p].pc = "await"
  /\ pc[poll[p].task] \in {"settled", "done"}
  /\ IF task[poll[p].task].ok THEN NextTarget(p) /\ UNCHANGED isPolling ELSE Over(p)
  /\ UNCHANGED <<switchVars, enabled>>

PollStep(p) ==
  \/ Listed(p) \/ Fetched(p) \/ MarkedActive(p)
  \/ Check(p) \/ Decide(p) \/ SwitchTo(p) \/ Switched(p)

----------------------------------------------------------------------------
Flow(t) == FlowStep(t) /\ UNCHANGED <<poll, isPolling, enabled>>

Next ==
  \/ UserAsks /\ UNCHANGED <<poll, isPolling, enabled>>
  \/ \E t \in Tasks : Flow(t)
  \/ Beside /\ UNCHANGED <<poll, isPolling, enabled>>
  \/ \E p \in Polls : PollCalled(p) \/ PollStep(p)
  \/ SetAutoSwitchEnabled

Spec == Init /\ [][Next]_vars

\* Every await of a flow and of a poll ends: requests to Google time out, the
\* exit and the start of the editor are waited for with limits, and the others
\* are database statements and timers.  One rests on an assumption: openUri waits
\* for the system's command that opens a URI without a limit of its own.
FairSpec ==
  /\ Spec
  /\ \A t \in Tasks : WF_vars(Flow(t))
  /\ \A p \in Polls : WF_vars(PollStep(p))
----------------------------------------------------------------------------
PollType ==
  [pc : PollPcs, left : SUBSET Accounts, account : Accounts \cup {NoAccount},
   targets : {<<"classic", "ide">>, <<"ide">>, <<>>}, seen : [Accounts -> RowType],
   seenIds : SUBSET Accounts, lead : Accounts \cup {NoAccount},
   current : Accounts \cup {NoAccount}, task : Tasks \cup {0}]

\* The types of the switching and of the monitor.
TypeOK ==
  /\ SwitchTypeOK
  /\ poll \in [Polls -> PollType] /\ isPolling \in BOOLEAN /\ enabled \in BOOLEAN

\* Whether poll p is at work.
Polling(p) == poll[p].pc \notin {"new", "over"}

\* isPolling of poll: at most one poll is at work, and the flag is set exactly
\* while one is, however polls are started and whatever ends them.
OnePoll ==
  /\ \A p, q \in Polls : Polling(p) /\ Polling(q) => p = q
  /\ isPolling <=> \E p \in Polls : Polling(p)

UnderWay(t) == task[t].by = "monitor" /\ pc[t] \notin {"settled", "done"}

\* However polls are started, checkAndSwitchIfNeeded has at most one switch under way.
OneAutoSwitch == \A t, u \in Tasks : UnderWay(t) /\ UnderWay(u) => t = u

\* A poll ends, the switches it waits for behind others included, so that the
\* next one is not turned away for ever.
PollEnds == isPolling ~> ~isPolling
=============================================================================
