---------------------------- MODULE TokenManager ----------------------------
(***************************************************************************)
(* The token manager of the antigravity gateway: the pool of accounts that *)
(* every proxied request draws a token from, with its refreshes, project   *)
(* lookups, penalties and session bindings, and the store of accounts      *)
(* behind it.                                                              *)
(*                                                                         *)
(* The service is single-threaded: a step is what a call of it does        *)
(* between two awaits.  A token object is shared by reference between the  *)
(* pool and the calls that picked it, so the objects made for an account   *)
(* live in a heap and the pool holds the index of one of them.  An access  *)
(* token is abstracted to its generation; times are abstracted to the set  *)
(* of penalties that still run and to the newest generation that is near   *)
(* its expiry.  Round robin is any choice of a candidate.                  *)
(***************************************************************************)
EXTENDS Integers, Sequences, FiniteSets

CONSTANTS
  Accounts,    \* account ids
  Stored,      \* the accounts of the store; the others come from a file or a header
  Scoped,      \* the accounts sent along with the requests of the one scope
  Requests,    \* the proxied requests
  Models,      \* the models requests ask for
  Preferred,   \* preferred_account_id: a set with at most one account
  ParityOn,    \* parity_enabled and not parity_kill_switch
  ShadowOn,    \* parity_shadow_enabled
  CacheFirst,  \* scheduling_mode = "cache-first"
  Resets,      \* what a quota answer may say of the reset time
  Known,       \* whether the project ids are known from the start
  MaxIssued,   \* bound: generations of access tokens told apart
  MaxReloads,  \* bound: changes of the external credentials file
  MaxFaults    \* bound: failed lookups and database errors in a behaviour

AnyModel == "any"
NoAccount == "no account"
NoOne == "no one"

ASSUME TokenAssumption ==
  /\ Stored \subseteq Accounts
  /\ Scoped \subseteq Accounts \ Stored
  /\ Preferred \subseteq Accounts /\ Cardinality(Preferred) <= 1
  /\ {ParityOn, ShadowOn, CacheFirst, Known} \subseteq BOOLEAN
  /\ Resets \subseteq {"none", "past", "future"}
  /\ {MaxIssued, MaxReloads, MaxFaults} \subseteq Nat
  /\ NoAccount \notin Accounts /\ NoOne \notin Requests

VARIABLES
  pool,        \* tokens: the object of each account in the pool, 0 if none
  heap,        \* the TokenData objects made for each account
  store,       \* the token column of the accounts table, the file or the header
  cooling,     \* accountCooldowns that lie in the future
  locked,      \* lockoutByKey entries that lie in the future
  bound,       \* sessionBindings: the account a scope's session is bound to
  refreshLock, \* refreshLocks: the call that owns the refresh of an account
  projectLock, \* projectIdLocks: the call that owns the project lookup
  fingerprint, \* scopedCredentialFingerprints: the credentials last taken over
  noGo,        \* noGoBlocked
  changed,     \* the credentials file differs from externalCredentialsMtimeMs
  call,        \* the getNextToken or markFromUpstreamError call of a request
  issued,      \* the newest generation Google issued for an account
  aged,        \* the newest generation that is inside the expiry buffer
  reloads, faults

limits == <<cooling, locked>>
locks == <<refreshLock, projectLock>>
env == <<issued, aged, reloads, faults>>
tokenVars == <<pool, heap, store, limits, bound, locks, fingerprint, noGo, changed, call, env>>

\* A token: its generation, whether its project id is known, and what its
\* cached quota says of the reset times ("unknown": no quota yet).
Token(gen, project, reset) == [gen |-> gen, project |-> project, reset |-> reset]
TokenType ==
  [gen : 0..MaxIssued, project : BOOLEAN, reset : {"unknown", "none", "past", "future"}]

CallPcs ==
  {"idle", "load", "reload", "select", "wait", "refresh", "refreshing", "merge", "write",
   "joined", "quota", "project", "projecting", "projectMerge", "projectWrite",
   "projectJoined", "finish", "realtime", "realtimeDone", "done"}

Blank == Token(0, FALSE, "unknown")
NoRows == [a \in Accounts |-> Blank]
NoClock == [a \in Accounts |-> -1]
NoObjs == [a \in Accounts |-> 0]

\* scope: whether the call is for the scope; session: whether it has a session
\* key; account, obj: the entry picked; latest: the object a lookup works on;
\* row: the row persistTokenState read, what it writes, and at the end the token
\* returned; rows: what a load read; asOf: the clock (nowSeconds) of the call;
\* pool, free: the candidates of a cache-first wait, and those free before it;
\* failed: a refresh that failed left or put an old token into the call's object.
NoCall ==
  [pc |-> "idle", scope |-> FALSE, session |-> FALSE, model |-> AnyModel, exclude |-> {},
   account |-> NoAccount, obj |-> 0, latest |-> 0, row |-> Blank,
   rows |-> NoRows, asOf |-> NoClock, pool |-> NoObjs, free |-> {}, failed |-> FALSE]

Go(r, pc) == call' = [call EXCEPT ![r].pc = pc]

Obj(a, o) == heap[a][o]
Near(a, o, asOf) == Obj(a, o).gen <= asOf[a]
Pooled == {a \in Accounts : pool[a] # 0}
Penalised(a, m) == a \in cooling \/ <<a, AnyModel>> \in locked \/ <<a, m>> \in locked

TokenInit ==
  /\ pool = [a \in Accounts |-> IF a \in Scoped THEN 0 ELSE 1]
  /\ store = [a \in Accounts |-> Token(0, Known, IF a \in Stored THEN "none" ELSE "unknown")]
  /\ heap = [a \in Accounts |-> IF a \in Scoped THEN <<>> ELSE <<store[a]>>]
  /\ cooling = {} /\ locked = {}
  /\ bound = [s \in BOOLEAN |-> NoAccount]
  /\ refreshLock = [a \in Accounts |-> NoOne]
  /\ projectLock = [a \in Accounts |-> NoOne]
  /\ fingerprint = {}
  /\ noGo = FALSE /\ changed = FALSE
  /\ issued = [a \in Accounts |-> 0]
  /\ aged = [a \in Accounts |-> -1]
  /\ reloads = 0 /\ faults = 0
  /\ call = [r \in Requests |-> NoCall]

----------------------------------------------------------------------------
(* Loading and replacing the pool *)

\* The part of loadAccounts after its await: every entry is dropped, scoped ones
\* too, and the rows that were read and the file's credentials are put in.
FillPool(rows) ==
  /\ heap' = [a \in Accounts |->
       IF a \in Scoped THEN heap[a]
       ELSE Append(heap[a], IF a \in Stored THEN rows[a] ELSE store[a])]
  /\ pool' = [a \in Accounts |-> IF a \in Scoped THEN 0 ELSE Len(heap[a]) + 1]
  /\ changed' = FALSE

\* upsertScopedExternalCredentials, called before the retry loop of a request.
UpsertScoped(creds) ==
  IF creds = {} \/ fingerprint = creds
  THEN UNCHANGED <<pool, heap, limits, fingerprint>>
  ELSE LET gone == {a \in Scoped : pool[a] # 0} \ creds IN
       /\ heap' = [a \in Accounts |->
            IF a \in creds THEN Append(heap[a], store[a]) ELSE heap[a]]
       /\ pool' = [a \in Accounts |->
            IF a \in creds THEN Len(heap[a]) + 1 ELSE IF a \in gone THEN 0 ELSE pool[a]]
       /\ cooling' = cooling \ gone
       /\ locked' = {l \in locked : ~(l[1] \in gone /\ l[2] = AnyModel)}
       /\ fingerprint' = creds

----------------------------------------------------------------------------
(* getNextToken *)

\* ProxyService calls getNextToken.  An unscoped call reloads when the credentials
\* file changed; any call loads when the pool is empty.  The rows are read at the
\* start of the load.
CallGetNext(r, scope, session, model, exclude) ==
  LET pc == IF ~scope /\ changed THEN "reload" ELSE IF Pooled = {} THEN "load" ELSE "select"
  IN call' = [call EXCEPT ![r] = [NoCall EXCEPT !.pc = pc, !.scope = scope,
                !.session = session, !.model = model, !.exclude = exclude,
                !.rows = IF pc = "select" THEN NoRows ELSE store]]

\* A load that fails leaves the pool as it was.
Loaded(r) ==
  /\ call[r].pc \in {"load", "reload"}
  /\ \/ FillPool(call[r].rows) /\ faults' = faults
     \/ /\ faults < MaxFaults
        /\ faults' = faults + 1
        /\ UNCHANGED <<pool, heap, changed>>
  /\ LET pc == IF \E a \in Accounts : pool'[a] # 0 THEN "select"
               ELSE IF call[r].pc = "reload" THEN "load" ELSE "done"
     IN call' = [call EXCEPT ![r].pc = pc, ![r].rows = IF pc = "load" THEN store ELSE NoRows]
  /\ UNCHANGED <<store, limits, bound, locks, fingerprint, noGo, issued, aged, reloads>>

\* Mutant: the fallback is the whole pool.
CandidatesOfAnyScope(c) ==
  LET rest == {a \in Pooled : (a \in Scoped) = c.scope} \ c.exclude
  IN IF rest # {} THEN rest ELSE Pooled

\* The accounts of the call's scope, without the ones to exclude unless none is left.
Candidates(c) ==
  LET full == {a \in Pooled : (a \in Scoped) = c.scope}
      rest == full \ c.exclude
  IN IF rest # {} THEN rest ELSE full

Eligible(S, m) == {a \in S : ~Penalised(a, m)}

Sticky(c, S) == IF c.session THEN {bound[c.scope]} \cap S ELSE {}

FirstNonEmpty(A, B, C) == IF A # {} THEN A ELSE IF B # {} THEN B ELSE C

\* selectLegacyTokenCandidate looks at the cooldowns only.
LegacyChoice(c, S) ==
  LET free == S \ cooling
      from == IF free # {} THEN free ELSE S
  IN FirstNonEmpty(Sticky(c, from), from, {})

\* selectParityTokenCandidate, but for the cache-first wait.
ParityChoice(c, S) ==
  LET free == Eligible(S, c.model)
  IN FirstNonEmpty(Preferred \cap free, Sticky(c, free), free)

Parity == ParityOn /\ ~noGo

\* The shadow comparison of the two selections.  A mismatch may push the
\* mismatch rate over its threshold, and then noGoBlocked stays set.
ShadowStep(c, S) ==
  IF ShadowOn /\ ~Parity /\ ~noGo /\ LegacyChoice(c, S) # ParityChoice(c, S)
  THEN noGo' \in {noGo, TRUE}
  ELSE noGo' = noGo

\* A sticky account under a lockout, for which a cache-first call may wait.
WaitsFor(c, S) ==
  /\ CacheFirst /\ c.session
  /\ bound[c.scope] # NoAccount
  /\ <<bound[c.scope], AnyModel>> \in locked \/ <<bound[c.scope], c.model>> \in locked
  /\ Preferred \cap Eligible(S, c.model) = {}
  /\ Sticky(c, Eligible(S, c.model)) = {}
  /\ Eligible(S, c.model) # {}

Pick(r, a) ==
  call' = [call EXCEPT ![r].pc = "refresh", ![r].account = a,
             ![r].obj = pool[a], ![r].asOf = aged]

Select(r) ==
  /\ call[r].pc = "select"
  /\ LET c == call[r]
         S == Candidates(c)
     IN \/ /\ S = {} \/ (Parity /\ Eligible(S, c.model) = {})
           /\ Go(r, "done")
           /\ ShadowStep(c, S)
        \/ \E a \in IF Parity THEN ParityChoice(c, S) ELSE LegacyChoice(c, S) :
             Pick(r, a) /\ ShadowStep(c, S)
        \/ /\ Parity /\ WaitsFor(c, S)
           /\ call' = [call EXCEPT ![r].pc = "wait", ![r].asOf = aged,
                         ![r].account = bound[c.scope], ![r].free = Eligible(S, c.model),
                         ![r].pool = [a \in Accounts |-> IF a \in S THEN pool[a] ELSE 0]]
           /\ noGo' = noGo
  /\ UNCHANGED <<pool, heap, store, limits, bound, locks, fingerprint, changed, env>>

\* After the wait the candidates of before are looked at again: the sticky one
\* first, then any that is free, then any that was free before the wait.
Wake(r) ==
  /\ call[r].pc = "wait"
  /\ LET c == call[r]
         S == {a \in Accounts : c.pool[a] # 0}
         free == Eligible(S, c.model)
     IN \E a \in FirstNonEmpty(free \cap {c.account}, free, c.free) :
          call' = [call EXCEPT ![r].pc = "refresh", ![r].account = a, ![r].obj = c.pool[a],
                     ![r].pool = NoObjs, ![r].free = {}]
  /\ UNCHANGED <<pool, heap, store, limits, bound, locks, fingerprint, noGo, changed, env>>

----------------------------------------------------------------------------
(* finalizeSelectedToken *)

\* Where a call with this token goes after the refresh: a scoped token without a
\* quota asks for it.
AfterRefresh(a, token) ==
  IF a \in Scoped /\ token.reset = "unknown" THEN "quota" ELSE "project"

\* Where call q goes after the lock it joined, or owned.
After(q, joined) ==
  IF joined = "joined"
  THEN AfterRefresh(call[q].account, heap'[call[q].account][call[q].obj])
  ELSE "finish"

\* The lock's promise settles and the calls that joined it go on; what follows
\* their awaits runs before anything else is taken up.  The objects in spoilt were
\* to get a new token and did not; a call that works on one of them is marked.
Settle(r, joined, spoilt) ==
  call' = [q \in Requests |->
    LET c == [call[q] EXCEPT !.failed =
                @ \/ (call[q].account = call[r].account /\ call[q].obj \in spoilt)]
    IN IF q = r THEN [c EXCEPT !.pc = After(q, joined), !.latest = 0, !.row = Blank]
       ELSE IF call[q].pc = joined /\ call[q].account = call[r].account
         THEN [c EXCEPT !.pc = After(q, joined)]
       ELSE c]

\* The objects of the calls that joined a lock.
Waiting(joined, a) ==
  {call[q].obj : q \in {q \in Requests : call[q].pc = joined /\ call[q].account = a}}

\* Mutant: the calls that joined a refresh keep the token they picked.
SyncNothing(a, o, S) == UNCHANGED heap

\* syncTokenDataFromCache for the objects S, with o the object in the pool.
SyncFrom(a, o, S) ==
  heap' = IF o = 0 THEN heap
          ELSE [heap EXCEPT ![a] = [i \in DOMAIN @ |-> IF i \in S THEN @[o] ELSE @[i]]]

\* Mutant: the promise is not put into the map.
TakeNothing(lock, a, r) == lock

\* runAccountLock: the promise of call r is put into the map.
Take(lock, a, r) == [lock EXCEPT ![a] = r]

\* refreshSelectedTokenIfNeeded up to its first await, with runAccountLock and
\* the second check of refreshSelectedTokenLocked.
StartRefresh(r) ==
  /\ call[r].pc = "refresh"
  /\ LET c == call[r]
         a == c.account
         o == IF pool[a] # 0 THEN pool[a] ELSE c.obj
     IN \/ /\ ~Near(a, c.obj, c.asOf)
           /\ Go(r, AfterRefresh(a, Obj(a, c.obj)))
           /\ UNCHANGED <<heap, refreshLock>>
        \/ /\ Near(a, c.obj, c.asOf) /\ refreshLock[a] # NoOne
           /\ Go(r, "joined")
           /\ UNCHANGED <<heap, refreshLock>>
        \/ /\ Near(a, c.obj, c.asOf) /\ refreshLock[a] = NoOne
           /\ pool[a] # 0 /\ ~Near(a, pool[a], c.asOf)
           /\ heap' = [heap EXCEPT ![a][c.obj] = Obj(a, pool[a])]
           /\ Go(r, AfterRefresh(a, Obj(a, pool[a])))
           /\ UNCHANGED refreshLock
        \/ /\ Near(a, c.obj, c.asOf) /\ refreshLock[a] = NoOne
           /\ pool[a] # 0 => Near(a, pool[a], c.asOf)
           /\ refreshLock' = Take(refreshLock, a, r)
           /\ call' = [call EXCEPT ![r].pc = "refreshing", ![r].latest = o]
           /\ UNCHANGED heap
  /\ UNCHANGED <<pool, store, limits, bound, projectLock, fingerprint, noGo, changed, env>>

\* Google answers a refresh: the objects get the new token and persistTokenState
\* reads the row.  A failure is only logged and the old token is used.
RefreshAnswered(r) ==
  /\ call[r].pc = "refreshing"
  /\ LET c == call[r]
         a == c.account
         gen == IF issued[a] < MaxIssued THEN issued[a] + 1 ELSE issued[a]
     IN \/ /\ issued' = [issued EXCEPT ![a] = gen]
           /\ LET new == [Obj(a, c.latest) EXCEPT !.gen = gen]
              IN heap' = [heap EXCEPT ![a] = [@ EXCEPT ![c.latest] = new, ![c.obj] = new]]
           /\ call' = [call EXCEPT ![r].pc = "merge", ![r].row = store[a]]
           /\ UNCHANGED <<refreshLock, faults>>
        \/ /\ faults < MaxFaults
           /\ faults' = faults + 1
           /\ refreshLock' = [refreshLock EXCEPT ![a] = NoOne]
           /\ SyncFrom(a, pool[a], {c.obj} \cup Waiting("joined", a))
           /\ Settle(r, "joined", {c.obj} \cup Waiting("joined", a))
           /\ UNCHANGED issued
  /\ UNCHANGED <<pool, store, limits, bound, projectLock, fingerprint, noGo, changed, aged, reloads>>

\* persistTokenState merges the token into the row it read; the fields are read
\* from the object at this point.
Merge(r, from, to) ==
  /\ call[r].pc = from
  /\ LET c == call[r]
         t == Obj(c.account, c.latest)
     IN call' = [call EXCEPT ![r].pc = to,
                   ![r].row = Token(t.gen, t.project \/ c.row.project, c.row.reset)]
  /\ UNCHANGED <<pool, heap, store, limits, bound, locks, fingerprint, noGo, changed, env>>

\* The UPDATE of updateToken, if the account has a row; a database error is only logged.
SaveRow(r) ==
  \/ /\ store' = IF call[r].account \in Stored
                THEN [store EXCEPT ![call[r].account] =
                        Token(call[r].row.gen, call[r].row.project, @.reset)]
                ELSE store
     /\ faults' = faults
  \/ /\ call[r].account \in Stored
     /\ faults < MaxFaults
     /\ faults' = faults + 1
     /\ UNCHANGED store

MergeRefreshed(r) == Merge(r, "merge", "write")

\* Mutant: the calls that joined the refresh are not resumed.
RefreshSavedAlone(r) ==
  /\ call[r].pc = "write"
  /\ SaveRow(r)
  /\ pool' = [pool EXCEPT ![call[r].account] = call[r].latest]
  /\ refreshLock' = [refreshLock EXCEPT ![call[r].account] = NoOne]
  /\ call' = [call EXCEPT ![r].pc = "project", ![r].latest = 0, ![r].row = Blank]
  /\ UNCHANGED <<heap, limits, bound, projectLock, fingerprint, noGo, changed, issued, aged, reloads>>

\* The refreshed object goes (back) into the pool and the lock is released.
RefreshSaved(r) ==
  /\ call[r].pc = "write"
  /\ SaveRow(r)
  /\ pool' = [pool EXCEPT ![call[r].account] = call[r].latest]
  /\ refreshLock' = [refreshLock EXCEPT ![call[r].account] = NoOne]
  /\ SyncFrom(call[r].account, call[r].latest,
       {call[r].obj} \cup Waiting("joined", call[r].account))
  /\ Settle(r, "joined", {})
  /\ UNCHANGED <<limits, bound, projectLock, fingerprint, noGo, changed, issued, aged, reloads>>

\* refreshScopedQuotaSnapshotIfNeeded answers: the token goes into the pool with
\* its quota; an error is only logged.
ScopedQuota(r) ==
  /\ call[r].pc = "quota"
  /\ \/ /\ \E reset \in Resets : heap' = [heap EXCEPT ![call[r].account][call[r].obj].reset = reset]
        /\ pool' = [pool EXCEPT ![call[r].account] = call[r].obj]
        /\ faults' = faults
     \/ /\ faults < MaxFaults
        /\ faults' = faults + 1
        /\ UNCHANGED <<heap, pool>>
  /\ Go(r, "project")
  /\ UNCHANGED <<store, limits, bound, locks, fingerprint, noGo, changed, issued, aged, reloads>>

\* resolveProjectIdWithLock up to its first await.
StartProject(r) ==
  /\ call[r].pc = "project"
  /\ LET c == call[r]
         a == c.account
         o == IF pool[a] # 0 THEN pool[a] ELSE c.obj
     IN \/ /\ Obj(a, c.obj).project \/ Obj(a, o).project
           /\ heap' = [heap EXCEPT ![a][c.obj].project = TRUE]
           /\ Go(r, "finish")
           /\ UNCHANGED projectLock
        \/ /\ ~Obj(a, c.obj).project /\ ~Obj(a, o).project /\ projectLock[a] # NoOne
           /\ Go(r, "projectJoined")
           /\ UNCHANGED <<heap, projectLock>>
        \/ /\ ~Obj(a, c.obj).project /\ ~Obj(a, o).project /\ projectLock[a] = NoOne
           /\ projectLock' = Take(projectLock, a, r)
           /\ call' = [call EXCEPT ![r].pc = "projecting", ![r].latest = o]
           /\ UNCHANGED heap
  /\ UNCHANGED <<pool, store, limits, bound, refreshLock, fingerprint, noGo, changed, env>>

\* The project lookup answers; without an id, or on an error, the call and the
\* ones that joined it go on with the fallback project.
ProjectAnswered(r) ==
  /\ call[r].pc = "projecting"
  /\ LET c == call[r]
         a == c.account
     IN \/ /\ heap' = [heap EXCEPT ![a][c.latest].project = TRUE, ![a][c.obj].project = TRUE]
           /\ call' = [call EXCEPT ![r].pc = "projectMerge", ![r].row = store[a]]
           /\ UNCHANGED <<projectLock, faults>>
        \/ /\ faults < MaxFaults
           /\ faults' = faults + 1
           /\ projectLock' = [projectLock EXCEPT ![a] = NoOne]
           /\ Settle(r, "projectJoined", {})
           /\ UNCHANGED heap
  /\ UNCHANGED <<pool, store, limits, bound, refreshLock, fingerprint, noGo, changed, issued, aged, reloads>>

MergeProject(r) == Merge(r, "projectMerge", "projectWrite")

\* The id found is copied to the objects of the calls that joined the lookup.
ProjectSaved(r) ==
  /\ call[r].pc = "projectWrite"
  /\ SaveRow(r)
  /\ LET a == call[r].account
     IN /\ pool' = [pool EXCEPT ![a] = call[r].latest]
        /\ projectLock' = [projectLock EXCEPT ![a] = NoOne]
        /\ heap' = [heap EXCEPT ![a] = [o \in DOMAIN @ |->
             IF o \in Waiting("projectJoined", a) THEN [@[o] EXCEPT !.project = TRUE] ELSE @[o]]]
  /\ Settle(r, "projectJoined", {})
  /\ UNCHANGED <<limits, bound, refreshLock, fingerprint, noGo, changed, issued, aged, reloads>>

\* The end of finalizeSelectedToken: markSuccess, the session binding, the result.
Finish(r) ==
  /\ call[r].pc = "finish"
  /\ LET c == call[r] IN
       /\ locked' = locked \ {<<c.account, AnyModel>>}
       /\ bound' = IF c.session THEN [bound EXCEPT ![c.scope] = c.account] ELSE bound
       /\ call' = [call EXCEPT ![r].pc = "done", ![r].row = Obj(c.account, c.obj)]
  /\ UNCHANGED <<pool, heap, store, cooling, locks, fingerprint, noGo, changed, env>>

----------------------------------------------------------------------------
(* Penalties *)

\* recordParityError: an error may push the error rate over its threshold.
ParityError == IF Parity THEN noGo' \in {noGo, TRUE} ELSE noGo' = noGo

\* markAsForbidden and markAsRateLimited.
CoolDown(a) == cooling' = cooling \cup {a} /\ locked' = locked

\* trackFromUpstreamError for a limit of the whole account: a lockout and the
\* account's cooldown.
LockAccount(a) == cooling' = cooling \cup {a} /\ locked' = locked \cup {<<a, AnyModel>>}

\* A lockout of one model: an exhausted quota does not cool the account down.
LockModel(a, m) == cooling' = cooling /\ locked' = locked \cup {<<a, m>>}

\* setLockoutUntilIso: the reset time replaces the lockout of the model, so that a
\* time in the past ends one that runs.
LockUntil(a, m, reset) ==
  IF reset = "future" THEN LockModel(a, m) ELSE cooling' = cooling /\ locked' = locked \ {<<a, m>>}

\* markFromUpstreamError for a 429 without a retry window, up to its await: the
\* quota is asked for with the token in the pool.
AskRealtime(r, a, m) ==
  call' = [call EXCEPT ![r] = [NoCall EXCEPT !.account = a, !.model = m, !.obj = pool[a],
             !.pc = IF pool[a] = 0 THEN "realtimeDone" ELSE "realtime"]]

\* The quota answer is put on the object, the object into the pool and the quota
\* into the row.  If updateQuota fails the answer is not used, but the object has it.
RealtimeAnswered(r) ==
  /\ call[r].pc = "realtime"
  /\ LET a == call[r].account IN
     \/ \E reset \in Resets :
          /\ heap' = [heap EXCEPT ![a][call[r].obj].reset = reset]
          /\ pool' = [pool EXCEPT ![a] = call[r].obj]
          /\ \/ /\ store' = IF a \in Stored THEN [store EXCEPT ![a].reset = reset] ELSE store
                /\ call' = [call EXCEPT ![r].pc = "realtimeDone",
                              ![r].row = [Blank EXCEPT !.reset = reset]]
                /\ faults' = faults
             \/ /\ a \in Stored /\ faults < MaxFaults
                /\ faults' = faults + 1
                /\ Go(r, "realtimeDone")
                /\ UNCHANGED store
     \/ /\ faults < MaxFaults
        /\ faults' = faults + 1
        /\ Go(r, "realtimeDone")
        /\ UNCHANGED <<heap, pool, store>>
  /\ UNCHANGED <<limits, bound, locks, fingerprint, noGo, changed, issued, aged, reloads>>

\* The lockout until the reset time of the answer, else of the cached quota,
\* else the tracker's backoff, for the model or for the account.
RealtimeDone(r) ==
  /\ call[r].pc = "realtimeDone"
  /\ LET c == call[r]
         a == c.account
         cached == IF pool[a] = 0 THEN "none" ELSE Obj(a, pool[a]).reset
     IN IF c.row.reset \in {"past", "future"} THEN LockUntil(a, c.model, c.row.reset)
        ELSE IF cached \in {"past", "future"} THEN LockUntil(a, c.model, cached)
        ELSE LockModel(a, c.model) \/ LockAccount(a)
  /\ Go(r, "done")
  /\ UNCHANGED <<pool, heap, store, bound, locks, fingerprint, noGo, changed, env>>

----------------------------------------------------------------------------
(* The passing of time, and the credentials file *)

Idle == UNCHANGED <<pool, heap, store, locks, fingerprint, noGo, call, issued, faults>>

\* A cooldown or a lockout ends.
Lapse ==
  /\ \/ \E a \in cooling : cooling' = cooling \ {a} /\ locked' = locked
     \/ \E l \in locked : locked' = locked \ {l} /\ cooling' = cooling
  /\ Idle /\ UNCHANGED <<bound, changed, aged, reloads>>

\* A session binding outlives its ten minutes.
Unbind ==
  /\ \E s \in BOOLEAN : bound[s] # NoAccount /\ bound' = [bound EXCEPT ![s] = NoAccount]
  /\ Idle /\ UNCHANGED <<limits, changed, aged, reloads>>

\* The tokens issued so far for an account come within 300 s of their expiry,
\* which is long after the refresh that brought the newest one is over.
Age ==
  /\ \E a \in Accounts :
       /\ aged[a] < issued[a] /\ issued[a] < MaxIssued /\ refreshLock[a] = NoOne
       /\ aged' = [aged EXCEPT ![a] = issued[a]]
  /\ Idle /\ UNCHANGED <<limits, bound, changed, reloads>>

\* The external credentials file is written.
TouchFile ==
  /\ reloads < MaxReloads
  /\ reloads' = reloads + 1
  /\ changed' = TRUE
  /\ Idle /\ UNCHANGED <<limits, bound, aged>>

CallStep(r) ==
  \/ Loaded(r) \/ Select(r) \/ Wake(r)
  \/ StartRefresh(r) \/ RefreshAnswered(r) \/ MergeRefreshed(r) \/ RefreshSaved(r)
  \/ ScopedQuota(r)
  \/ StartProject(r) \/ ProjectAnswered(r) \/ MergeProject(r) \/ ProjectSaved(r)
  \/ Finish(r) \/ RealtimeAnswered(r) \/ RealtimeDone(r)

Time == Lapse \/ Unbind \/ Age \/ TouchFile
=============================================================================
