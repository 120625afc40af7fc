------------------------- MODULE ProxyServiceProofs -------------------------
(***************************************************************************)
(* The gateway, for any number of requests, accounts, models and tokens:   *)
(* type correctness, one refresh and one project lookup per account, no    *)
(* expired token handed out, no account of another scope, no account twice *)
(* before all have been tried.                                             *)
(***************************************************************************)
EXTENDS ProxyService, SequenceTheorems, FiniteSetTheorems, TLAPS

\* Where a call has no account yet.
Early == {"idle", "load", "reload", "select"}

\* Where a call of getNextToken has picked an account, and where it is done
\* with the refresh of its token.
Renewed == {"quota", "project", "projecting", "projectMerge", "projectWrite", "projectJoined", "finish"}
Picked == {"refresh", "joined"} \cup Refreshing \cup Renewed
Landed == {"merge", "write"}

GetNextPcs == {"load", "reload", "select", "wait", "done"} \cup Picked
MarkPcs == {"realtime", "realtimeDone", "done"}
SendType == [account : Accounts, again : BOOLEAN]
HeapType == [Accounts -> Seq(TokenType)]
Clock == [Accounts -> -1..MaxIssued]

\* The pool holds every account that is not scoped; no token is newer than the
\* newest one issued, and that one is not near its expiry when no more are told
\* apart.
PoolInv ==
  /\ heap \in HeapType
  /\ pool \in [Accounts -> Nat]
  /\ store \in [Accounts -> TokenType]
  /\ issued \in [Accounts -> 0..MaxIssued]
  /\ aged \in Clock
  /\ \A a \in Accounts :
       /\ pool[a] <= Len(heap[a])
       /\ a \notin Scoped => pool[a] # 0
       /\ store[a].gen <= issued[a]
       /\ \A i \in 1..Len(heap[a]) : heap[a][i].gen <= issued[a]
       /\ aged[a] <= issued[a] /\ aged[a] < MaxIssued

RestInv ==
  /\ cooling \subseteq Accounts
  /\ locked \subseteq Accounts \X (Models \cup {AnyModel})
  /\ bound \in [BOOLEAN -> Accounts \cup {NoAccount}]
  /\ fingerprint \subseteq Scoped
  /\ noGo \in BOOLEAN /\ changed \in BOOLEAN
  /\ reloads \in 0..MaxReloads /\ faults \in 0..MaxFaults

\* The predicates on calls, locks and handlers take the parts of the state they
\* are about as parameters: h is the heap, is and ag are issued and aged.

\* What a call refers to exists.
RefsOK(c, h, is, ag) ==
  /\ c.account # NoAccount =>
       /\ c.obj <= Len(h[c.account]) /\ c.latest <= Len(h[c.account])
       /\ c.row.gen <= is[c.account]
  /\ \A a \in Accounts :
       c.asOf[a] <= ag[a] /\ c.rows[a].gen <= is[a] /\ c.pool[a] <= Len(h[a])

\* What a call needs for the step it is at.
StageOK(c) ==
  /\ c.pc \in Picked \cup {"realtime"} => c.account # NoAccount /\ c.obj # 0
  /\ c.pc = "realtimeDone" => c.account # NoAccount
  /\ c.pc \in Refreshing \cup Projecting => c.latest # 0
  /\ c.pc \in Early => c.account = NoAccount
  /\ c.pc \in Early \cup {"wait"} => c.obj = 0 /\ c.latest = 0 /\ c.row = Blank

\* Account a may be returned by the call c: it is of the call's scope, and it is
\* one to exclude only if they all are.
Choosable(c, a) ==
  /\ a \in Scoped <=> c.scope
  /\ ~c.scope /\ a \in c.exclude => Accounts \ Scoped \subseteq c.exclude

\* The candidates of a call that waits.
WaitOK(c) ==
  /\ \A a \in Accounts : c.pool[a] # 0 => Choosable(c, a)
  /\ \A a \in c.free : c.pool[a] # 0

\* The token a call works on is fresh once its refresh is over; a refresh that
\* was answered holds the newest token.
FreshOK(c, h, is, ag) ==
  /\ c.pc \in Renewed /\ ~c.failed => h[c.account][c.obj].gen > c.asOf[c.account]
  /\ c.pc \in Landed =>
       h[c.account][c.latest].gen = is[c.account] /\ is[c.account] > ag[c.account]

CallOK(c, h, is, ag) ==
  /\ c \in CallType /\ StageOK(c) /\ WaitOK(c)
  /\ RefsOK(c, h, is, ag) /\ FreshOK(c, h, is, ag)

\* A lock is held by the one call that runs what it guards, and by one if
\* somebody waits for it.
LockOK(lock, calls, busy, joined) ==
  /\ lock \in [Accounts -> Requests \cup {NoOne}]
  /\ \A r \in Requests, a \in Accounts :
       lock[a] = r <=> calls[r].account = a /\ calls[r].pc \in busy
  /\ \A r \in Requests : calls[r].pc = joined => lock[calls[r].account] # NoOne

LockInv ==
  /\ LockOK(refreshLock, call, Refreshing, "joined")
  /\ LockOK(projectLock, call, Projecting, "projectJoined")

Accounted(s) == {s[i].account : i \in DOMAIN s}

\* No account of s is repeated but for a grace retry, or after all of them.
Distinct(s) ==
  \A j \in DOMAIN s :
    LET before == {s[i].account : i \in 1..(j - 1)} IN
    s[j].account \in before => s[j].again \/ Accounts \ Scoped \subseteq before

\* What the requests that went out as s, and the handler q, have in common.
SendsOK(q, s) ==
  /\ q \in ReqType /\ s \in Seq(SendType)
  /\ q.pc = "new" => s = <<>> /\ q = NoReq
  /\ q.pc \in {"select", "token"} => Len(s) = q.i
  /\ q.pc \in {"sent", "marking"} => Len(s) = q.i + 1
  /\ Len(s) <= MaxRetries
  /\ q.pc \in {"select", "token", "sent", "marking"} => q.tried = Accounted(s)
  /\ q.pc \in {"sent", "marking"} \/ q.grace =>
       q.account # NoAccount /\ (q.account \in Scoped <=> q.scope)
  /\ \A i \in DOMAIN s : s[i].account \in Scoped <=> q.scope
  /\ q.scope \/ Distinct(s)

\* The call c is the one that the handler q waits for.
LinkOK(q, c) ==
  /\ q.pc \notin {"token", "marking"} => c = NoCall
  /\ q.pc = "marking" => c.pc \in MarkPcs
  /\ q.pc = "token" =>
       /\ c.pc \in GetNextPcs
       /\ c.scope = q.scope /\ c.exclude = q.tried
       /\ c.pc # "wait" /\ c.account # NoAccount => Choosable(c, c.account)
       /\ c.pc = "done" /\ c.account # NoAccount /\ ~c.failed => c.row.gen > c.asOf[c.account]

CallInv ==
  /\ call \in [Requests -> CallType]
  /\ \A r \in Requests : CallOK(call[r], heap, issued, aged)

HandlerInv ==
  /\ req \in [Requests -> ReqType]
  /\ sends \in [Requests -> Seq(SendType)]
  /\ \A r \in Requests : SendsOK(req[r], sends[r])

LinkInv == \A r \in Requests : LinkOK(req[r], call[r])

Inv == PoolInv /\ RestInv /\ LockInv /\ CallInv /\ HandlerInv /\ LinkInv

----------------------------------------------------------------------------
(* Constants *)

LEMMA Bounds == MaxIssued \in Nat /\ MaxReloads \in Nat /\ MaxFaults \in Nat /\ MaxRetries \in Nat \ {0}
  BY TokenAssumption, ProxyAssumption

LEMMA Clocks ==
  /\ \A f \in Clock, a \in Accounts : f[a] \in -1..MaxIssued /\ f[a] \in Int
  /\ \A f \in [Accounts -> 0..MaxIssued], a \in Accounts : f[a] \in 0..MaxIssued /\ f[a] \in Int
  /\ \A t \in TokenType : t.gen \in 0..MaxIssued /\ t.gen \in Int
  <1>1. \A i \in -1..MaxIssued : i \in Int
    BY Bounds
  <1>2. \A i \in 0..MaxIssued : i \in Int
    BY Bounds
  <1>3. \A t \in TokenType : t.gen \in 0..MaxIssued
    BY DEF TokenType
  <1> QED
    BY <1>1, <1>2, <1>3 DEF Clock

LEMMA BlankTypes ==
  /\ Blank \in TokenType /\ Blank.gen = 0
  /\ NoRows \in [Accounts -> TokenType]
  /\ \A a \in Accounts : NoRows[a].gen = 0
  /\ NoClock \in [Accounts -> -1..MaxIssued]
  /\ \A a \in Accounts : NoClock[a] = -1
  /\ NoObjs \in [Accounts -> Nat]
  /\ \A a \in Accounts : NoObjs[a] = 0
  <1>1. Blank \in TokenType /\ Blank.gen = 0
    BY Bounds DEF Blank, Token, TokenType
  <1> QED
    BY <1>1, Bounds DEF NoRows, NoClock, NoObjs

LEMMA NoCallType ==
  /\ NoCall \in CallType
  /\ NoCall.pc = "idle" /\ NoCall.account = NoAccount /\ NoCall.obj = 0 /\ NoCall.latest = 0
  /\ NoCall.row = Blank /\ NoCall.rows = NoRows /\ NoCall.asOf = NoClock
  /\ NoCall.pool = NoObjs /\ NoCall.free = {} /\ NoCall.failed = FALSE
  /\ NoCall.scope = FALSE /\ NoCall.exclude = {}
  BY BlankTypes DEF NoCall, CallType, CallPcs

----------------------------------------------------------------------------
(* The heap *)

\* Objects are only added, and tokens only replaced by newer ones.
Grown(h, k) ==
  \A a \in Accounts :
    /\ Len(h[a]) <= Len(k[a])
    /\ \A i \in 1..Len(h[a]) : h[a][i].gen <= k[a][i].gen

LEMMA SameHeap == ASSUME NEW h \in HeapType PROVE Grown(h, h)
  <1>1. \A a \in Accounts : h[a] \in Seq(TokenType)
    BY DEF HeapType
  <1>2. \A a \in Accounts : \A i \in 1..Len(h[a]) : h[a][i] \in TokenType
    BY <1>1, ElementOfSeq
  <1> QED
    BY <1>1, <1>2, Bounds DEF Grown, TokenType

\* One object is written.
Written(h, a, i, t) == [h EXCEPT ![a] = [h[a] EXCEPT ![i] = t]]

LEMMA HeapWrite ==
  ASSUME NEW h \in HeapType, NEW a \in Accounts, NEW i \in 1..Len(h[a]), NEW t \in TokenType,
         NEW k, k = Written(h, a, i, t)
  PROVE  /\ k \in HeapType
         /\ \A b \in Accounts : Len(k[b]) = Len(h[b])
         /\ \A b \in Accounts : \A j \in 1..Len(h[b]) :
              k[b][j] = IF b = a /\ j = i THEN t ELSE h[b][j]
  <1>1. h[a] \in Seq(TokenType)
    BY DEF HeapType
  <1> DEFINE new == [h[a] EXCEPT ![i] = t]
  <1>2. /\ new \in Seq(TokenType) /\ Len(new) = Len(h[a])
        /\ \A j \in 1..Len(h[a]) : new[j] = IF j = i THEN t ELSE h[a][j]
    BY <1>1, ExceptSeq
  <1>3. k = [h EXCEPT ![a] = new]
    BY DEF Written
  <1> HIDE DEF new
  <1> QED
    BY <1>2, <1>3 DEF HeapType

\* k is h with one object written.
WroteAt(k, h, a, i, t) ==
  /\ k \in HeapType /\ \A b \in Accounts : Len(k[b]) = Len(h[b])
  /\ \A b \in Accounts : \A j \in 1..Len(h[b]) :
       k[b][j] = IF b = a /\ j = i THEN t ELSE h[b][j]

LEMMA HeapWrote ==
  ASSUME NEW h \in HeapType, NEW a \in Accounts, NEW i \in 1..Len(h[a]), NEW t \in TokenType
  PROVE  WroteAt(Written(h, a, i, t), h, a, i, t)
  <1> DEFINE k == Written(h, a, i, t)
  <1>1. k = Written(h, a, i, t)
    OBVIOUS
  <1> HIDE DEF k
  <1>2. WroteAt(k, h, a, i, t)
    BY <1>1, HeapWrite DEF WroteAt
  <1> QED
    BY <1>1, <1>2

\* The objects of one account are written.
Rewritten(h, a, new) == [h EXCEPT ![a] = new]

LEMMA HeapMap ==
  ASSUME NEW h \in HeapType, NEW a \in Accounts, NEW new \in [1..Len(h[a]) -> TokenType],
         NEW k, k = Rewritten(h, a, new)
  PROVE  /\ k \in HeapType
         /\ \A b \in Accounts : Len(k[b]) = Len(h[b])
         /\ \A b \in Accounts : \A j \in 1..Len(h[b]) :
              k[b][j] = IF b = a THEN new[j] ELSE h[b][j]
  <1>1. h[a] \in Seq(TokenType) /\ Len(h[a]) \in Nat
    BY LenProperties DEF HeapType
  <1>2. new \in Seq(TokenType)
    BY <1>1, SeqDef
  <1>3. Len(new) = Len(h[a])
    BY <1>1, <1>2, LenProperties
  <1> QED
    BY <1>2, <1>3 DEF HeapType, Rewritten

\* An object is appended for each account of A.
Appended(h, A, t) == [a \in Accounts |-> IF a \in A THEN Append(h[a], t[a]) ELSE h[a]]

LEMMA HeapAppend ==
  ASSUME NEW h \in HeapType, NEW A, NEW t \in [Accounts -> TokenType],
         NEW k, k = Appended(h, A, t)
  PROVE  /\ k \in HeapType
         /\ \A a \in Accounts : Len(k[a]) = IF a \in A THEN Len(h[a]) + 1 ELSE Len(h[a])
         /\ \A a \in Accounts : \A i \in 1..Len(h[a]) : k[a][i] = h[a][i]
         /\ \A a \in Accounts : a \in A => k[a][Len(h[a]) + 1] = t[a]
  <1>1. \A a \in Accounts : h[a] \in Seq(TokenType) /\ Len(h[a]) \in Nat
    BY LenProperties DEF HeapType
  <1>2. ASSUME NEW a \in Accounts
        PROVE  /\ k[a] \in Seq(TokenType)
               /\ Len(k[a]) = IF a \in A THEN Len(h[a]) + 1 ELSE Len(h[a])
               /\ \A i \in 1..Len(h[a]) : k[a][i] = h[a][i]
               /\ a \in A => k[a][Len(h[a]) + 1] = t[a]
    BY <1>1 DEF Appended
  <1> QED
    BY <1>2 DEF HeapType, Appended

LEMMA Elements ==
  ASSUME NEW h \in HeapType, NEW a \in Accounts
  PROVE  /\ Len(h[a]) \in Nat
         /\ \A i \in 1..Len(h[a]) : h[a][i] \in TokenType /\ h[a][i].gen \in 0..MaxIssued
  <1>1. h[a] \in Seq(TokenType)
    BY DEF HeapType
  <1>2. Len(h[a]) \in Nat /\ \A i \in 1..Len(h[a]) : h[a][i] \in TokenType
    BY <1>1, LenProperties, ElementOfSeq
  <1>3. \A t \in TokenType : t.gen \in 0..MaxIssued
    BY DEF TokenType
  <1> QED
    BY <1>2, <1>3

\* A call keeps its invariant while the heap grows and time passes.
LEMMA CallFrame ==
  ASSUME NEW h \in HeapType, NEW k \in HeapType, Grown(h, k),
         NEW is \in [Accounts -> 0..MaxIssued], NEW ix \in [Accounts -> 0..MaxIssued],
         NEW ag \in Clock, NEW ax \in Clock,
         \A a \in Accounts : is[a] <= ix[a] /\ ag[a] <= ax[a],
         \A a \in Accounts : \A i \in 1..Len(k[a]) : k[a][i].gen <= ix[a],
         NEW c, CallOK(c, h, is, ag),
         c.pc \in Landed => ix[c.account] = is[c.account] /\ ax[c.account] = ag[c.account]
  PROVE  CallOK(c, k, ix, ax)
  <1>1. /\ c.pc \in CallPcs /\ c.account \in Accounts \cup {NoAccount} /\ c.obj \in Nat
        /\ c.latest \in Nat /\ c.row \in TokenType /\ c.rows \in [Accounts -> TokenType]
        /\ c.asOf \in Clock /\ c.pool \in [Accounts -> Nat]
    BY DEF CallOK, CallType, Clock
  <1>3. RefsOK(c, k, ix, ax)
    <2>1. \A a \in Accounts : /\ Len(h[a]) \in Nat /\ Len(k[a]) \in Nat
                            /\ Len(h[a]) <= Len(k[a]) /\ is[a] <= ix[a] /\ ag[a] <= ax[a]
                            /\ is[a] \in Int /\ ix[a] \in Int /\ ag[a] \in Int /\ ax[a] \in Int
                            /\ c.asOf[a] \in Int /\ c.rows[a].gen \in Int /\ c.pool[a] \in Int
      <3> SUFFICES ASSUME NEW a \in Accounts
                   PROVE  /\ Len(h[a]) \in Nat /\ Len(k[a]) \in Nat
                          /\ Len(h[a]) <= Len(k[a]) /\ is[a] <= ix[a] /\ ag[a] <= ax[a]
                          /\ is[a] \in Int /\ ix[a] \in Int /\ ag[a] \in Int /\ ax[a] \in Int
                          /\ c.asOf[a] \in Int /\ c.rows[a].gen \in Int /\ c.pool[a] \in Int
        OBVIOUS
      <3>1. Len(h[a]) \in Nat /\ Len(k[a]) \in Nat /\ Len(h[a]) <= Len(k[a])
        BY Elements DEF Grown
      <3>2. /\ is[a] \in Int /\ ix[a] \in Int /\ ag[a] \in Int /\ ax[a] \in Int
            /\ c.asOf[a] \in Int /\ c.rows[a].gen \in Int /\ c.pool[a] \in Int
        BY <1>1, Clocks
      <3> QED
        BY <3>1, <3>2
    <2>2. c.row.gen \in Int
      BY <1>1, Clocks
    <2>3. RefsOK(c, h, is, ag)
      BY DEF CallOK
    <2>4. ASSUME c.account # NoAccount
          PROVE  /\ c.obj <= Len(k[c.account]) /\ c.latest <= Len(k[c.account])
                 /\ c.row.gen <= ix[c.account]
      <3>1. c.account \in Accounts
        BY <1>1, <2>4
      <3>2. /\ c.obj <= Len(h[c.account]) /\ c.latest <= Len(h[c.account])
            /\ c.row.gen <= is[c.account]
        BY <2>3, <2>4 DEF RefsOK
      <3> QED
        BY <1>1, <2>1, <2>2, <3>1, <3>2
    <2>5. ASSUME NEW a \in Accounts
          PROVE  c.asOf[a] <= ax[a] /\ c.rows[a].gen <= ix[a] /\ c.pool[a] <= Len(k[a])
      <3>1. c.asOf[a] <= ag[a] /\ c.rows[a].gen <= is[a] /\ c.pool[a] <= Len(h[a])
        BY <2>3 DEF RefsOK
      <3> QED
        BY <2>1, <3>1
    <2> QED
      BY <2>4, <2>5 DEF RefsOK
  <1>4. c.pc \in Picked => c.account \in Accounts /\ c.obj \in 1..Len(h[c.account])
    BY <1>1, Elements DEF CallOK, RefsOK, StageOK
  <1>5. c.pc \in Landed => c.account \in Accounts /\ c.latest \in 1..Len(h[c.account])
    BY <1>1, <1>4, Elements DEF CallOK, RefsOK, StageOK, Landed, Refreshing, Picked
  <1>6. c.pc \in Renewed /\ ~c.failed => k[c.account][c.obj].gen > c.asOf[c.account]
    <2> SUFFICES ASSUME c.pc \in Renewed, ~c.failed
                 PROVE  k[c.account][c.obj].gen > c.asOf[c.account]
      OBVIOUS
    <2>1. c.account \in Accounts /\ c.obj \in 1..Len(h[c.account])
      BY <1>4 DEF Picked
    <2>2. h[c.account][c.obj].gen > c.asOf[c.account]
      BY DEF CallOK, FreshOK
    <2>3. h[c.account][c.obj].gen <= k[c.account][c.obj].gen /\ c.obj \in 1..Len(k[c.account])
      BY <2>1, Elements DEF Grown
    <2> QED
      <3>1. h[c.account][c.obj] \in TokenType /\ k[c.account][c.obj] \in TokenType
        BY <2>1, <2>3, Elements
      <3>2. /\ h[c.account][c.obj].gen \in Int /\ k[c.account][c.obj].gen \in Int
            /\ c.asOf[c.account] \in Int
        BY <1>1, <2>1, <3>1, Clocks
      <3> QED
        BY <2>2, <2>3, <3>2
  <1>7. c.pc \in Landed =>
          k[c.account][c.latest].gen = ix[c.account] /\ ix[c.account] > ax[c.account]
    <2> SUFFICES ASSUME c.pc \in Landed
                 PROVE  k[c.account][c.latest].gen = ix[c.account] /\ ix[c.account] > ax[c.account]
      OBVIOUS
    <2>1. c.account \in Accounts /\ c.latest \in 1..Len(h[c.account])
      BY <1>5
    <2>2. h[c.account][c.latest].gen = is[c.account] /\ is[c.account] > ag[c.account]
      BY DEF CallOK, FreshOK
    <2>3. h[c.account][c.latest].gen <= k[c.account][c.latest].gen /\ c.latest \in 1..Len(k[c.account])
      BY <2>1, Elements DEF Grown
    <2> QED
      BY <2>1, <2>2, <2>3, Bounds, Elements
  <1> QED
    BY <1>3, <1>6, <1>7 DEF CallOK, FreshOK

----------------------------------------------------------------------------
(* One call takes a step *)

\* The account and the object a call works on, and what it has seen, are as before.
Moves(c, n) ==
  /\ n.account = c.account /\ n.obj = c.obj /\ n.asOf = c.asOf /\ n.rows = c.rows
  /\ n.scope = c.scope /\ n.exclude = c.exclude /\ n.pool = c.pool /\ n.free = c.free

LEMMA Fields ==
  ASSUME NEW c \in CallType
  PROVE  /\ c.pc \in CallPcs /\ c.account \in Accounts \cup {NoAccount} /\ c.obj \in Nat
         /\ c.latest \in Nat /\ c.row \in TokenType /\ c.rows \in [Accounts -> TokenType]
         /\ c.asOf \in Clock /\ c.pool \in [Accounts -> Nat] /\ c.free \subseteq Accounts
         /\ c.failed \in BOOLEAN /\ c.scope \in BOOLEAN /\ c.exclude \subseteq Accounts
         /\ c.model \in Models \cup {AnyModel} /\ c.row.gen \in 0..MaxIssued
  <1>1. /\ c.pc \in CallPcs /\ c.account \in Accounts \cup {NoAccount} /\ c.obj \in Nat
        /\ c.latest \in Nat /\ c.row \in TokenType /\ c.rows \in [Accounts -> TokenType]
        /\ c.asOf \in Clock /\ c.pool \in [Accounts -> Nat] /\ c.free \subseteq Accounts
        /\ c.failed \in BOOLEAN /\ c.scope \in BOOLEAN /\ c.exclude \subseteq Accounts
        /\ c.model \in Models \cup {AnyModel}
    BY DEF CallType, Clock
  <1> QED
    BY <1>1, Clocks

\* A call that works on an object moves on.
LEMMA MoveOK ==
  ASSUME NEW h, NEW is, NEW ag, NEW c, CallOK(c, h, is, ag),
         NEW n \in CallType, Moves(c, n),
         c.pc \in Picked \cup {"realtime", "realtimeDone"},
         n.pc \in Picked \cup {"realtimeDone", "done"},
         n.pc \in Picked => c.pc \in Picked,
         n.pc \in Refreshing \cup Projecting => n.latest # 0,
         n.latest <= Len(h[c.account]), n.row.gen <= is[c.account],
         FreshOK(n, h, is, ag)
  PROVE  CallOK(n, h, is, ag)
  <1>1. c.account # NoAccount /\ (c.pc \in Picked => c.obj # 0)
    BY DEF CallOK, StageOK
  <1>2. StageOK(n)
    BY <1>1 DEF StageOK, Moves, Picked, Refreshing, Projecting, Renewed, Early
  <1>3. WaitOK(n)
    BY DEF CallOK, WaitOK, Moves, Choosable
  <1>4. RefsOK(n, h, is, ag)
    BY <1>1 DEF CallOK, RefsOK, Moves
  <1> QED
    BY <1>2, <1>3, <1>4 DEF CallOK

\* The call r changes, the others look on while the heap grows.
LEMMA OneCall ==
  ASSUME PoolInv, PoolInv', CallInv, NEW r \in Requests, NEW n,
         call' = [call EXCEPT ![r] = n], CallOK(n, heap', issued', aged'),
         Grown(heap, heap'),
         \A a \in Accounts : issued[a] <= issued'[a] /\ aged[a] <= aged'[a],
         \A q \in Requests \ {r} : call[q].pc \in Landed =>
            issued'[call[q].account] = issued[call[q].account] /\ aged'[call[q].account] = aged[call[q].account]
  PROVE  CallInv'
  <1>1. n \in CallType
    BY DEF CallOK
  <1>2. call' \in [Requests -> CallType] /\ call'[r] = n /\ \A q \in Requests \ {r} : call'[q] = call[q]
    BY <1>1 DEF CallInv
  <1>3. ASSUME NEW q \in Requests, q # r PROVE CallOK(call[q], heap', issued', aged')
    <2>1. /\ heap \in HeapType /\ heap' \in HeapType
          /\ issued \in [Accounts -> 0..MaxIssued] /\ issued' \in [Accounts -> 0..MaxIssued]
          /\ aged \in Clock /\ aged' \in Clock
          /\ \A a \in Accounts : \A i \in 1..Len(heap'[a]) : heap'[a][i].gen <= issued'[a]
      BY DEF PoolInv, HeapType, Clock
    <2>2. CallOK(call[q], heap, issued, aged)
      BY DEF CallInv
    <2> QED
      BY <1>3, <2>1, <2>2, CallFrame
  <1> QED
    BY <1>2, <1>3 DEF CallInv

LEMMA Untouched ==
  ASSUME PoolInv, CallInv, NEW r \in Requests, NEW n, call' = [call EXCEPT ![r] = n],
         CallOK(n, heap, issued, aged), UNCHANGED <<heap, issued, aged>>
  PROVE  CallInv'
  <1>1. n \in CallType
    BY DEF CallOK
  <1> QED
    BY <1>1 DEF CallInv

----------------------------------------------------------------------------
(* Locks *)

LEMMA LockStays ==
  ASSUME NEW lock, NEW busy, NEW joined, NEW c \in [Requests -> CallType], LockOK(lock, c, busy, joined),
         NEW r \in Requests, NEW n, NEW d, d = [c EXCEPT ![r] = n],
         n.pc \in busy <=> c[r].pc \in busy, n.pc \in busy => n.account = c[r].account,
         n.pc = joined => lock[n.account] # NoOne
  PROVE  LockOK(lock, d, busy, joined)
  <1>1. d[r] = n /\ \A q \in Requests \ {r} : d[q] = c[q]
    OBVIOUS
  <1> QED
    BY <1>1 DEF LockOK

LEMMA LockTaken ==
  ASSUME NEW lock, NEW busy, NEW joined, NEW c \in [Requests -> CallType], LockOK(lock, c, busy, joined),
         NEW r \in Requests, NEW n, NEW d, d = [c EXCEPT ![r] = n],
         c[r].account \in Accounts, lock[c[r].account] = NoOne, c[r].pc \notin busy,
         n.pc \in busy, n.account = c[r].account, joined \notin busy,
         NEW taken, taken = [lock EXCEPT ![c[r].account] = r]
  PROVE  LockOK(taken, d, busy, joined)
  <1>1. d[r] = n /\ \A q \in Requests \ {r} : d[q] = c[q]
    OBVIOUS
  <1>2. NoOne \notin Requests
    BY TokenAssumption
  <1>3. /\ taken \in [Accounts -> Requests \cup {NoOne}] /\ taken[c[r].account] = r
        /\ \A a \in Accounts : a # c[r].account => taken[a] = lock[a]
    BY DEF LockOK
  <1> QED
    BY <1>1, <1>2, <1>3 DEF LockOK

\* The lock is released and nobody is left at joined for this account.
LEMMA LockFreed ==
  ASSUME NEW lock, NEW busy, NEW joined, NEW c \in [Requests -> CallType], LockOK(lock, c, busy, joined),
         NEW r \in Requests, NEW d, c[r].account \in Accounts, c[r].pc \in busy,
         joined \notin busy, d[r].pc \notin busy \cup {joined},
         \A q \in Requests : d[q].account = c[q].account,
         \A q \in Requests : c[q].pc = joined => c[q].account \in Accounts,
         \A q \in Requests \ {r} : \/ d[q].pc = c[q].pc /\ (c[q].pc # joined \/ c[q].account # c[r].account)
                                   \/ c[q].pc = joined /\ d[q].pc \notin busy \cup {joined},
         NEW freed, freed = [lock EXCEPT ![c[r].account] = NoOne]
  PROVE  LockOK(freed, d, busy, joined)
  <1>1. NoOne \notin Requests
    BY TokenAssumption
  <1>2. /\ freed \in [Accounts -> Requests \cup {NoOne}] /\ freed[c[r].account] = NoOne
        /\ \A a \in Accounts : a # c[r].account => freed[a] = lock[a]
    BY DEF LockOK
  <1>3. lock[c[r].account] = r
    BY DEF LockOK
  <1>4. ASSUME NEW q \in Requests, NEW a \in Accounts
        PROVE  freed[a] = q <=> d[q].account = a /\ d[q].pc \in busy
    BY <1>1, <1>2, <1>3 DEF LockOK
  <1>5. ASSUME NEW q \in Requests, d[q].pc = joined PROVE freed[d[q].account] # NoOne
    <2>1. q # r /\ c[q].pc = joined /\ c[q].account # c[r].account /\ d[q].account = c[q].account
      BY <1>5
    <2>2. lock[c[q].account] # NoOne
      BY <2>1 DEF LockOK
    <2> QED
      BY <1>2, <2>1, <2>2
  <1> QED
    BY <1>2, <1>4, <1>5 DEF LockOK

----------------------------------------------------------------------------
(* Calls and handlers *)

\* A call of getNextToken goes on, with the account it has or a choosable one.
LEMMA LinkGoesOn ==
  ASSUME NEW q, NEW c, LinkOK(q, c), c.pc \in GetNextPcs \ {"done"},
         NEW n, n.pc \in GetNextPcs, n.scope = c.scope, n.exclude = c.exclude,
         \/ n.account = c.account /\ c.pc # "wait"
         \/ n.pc = "wait"
         \/ Choosable(c, n.account),
         n.pc = "done" /\ n.account # NoAccount /\ ~n.failed => n.row.gen > n.asOf[n.account]
  PROVE  LinkOK(q, n)
  <1>1. c # NoCall /\ c.pc \notin MarkPcs
    BY NoCallType DEF GetNextPcs, MarkPcs, Picked, Refreshing, Renewed
  <1>2. q.pc = "token"
    BY <1>1 DEF LinkOK
  <1>3. c.pc # "wait" /\ c.account # NoAccount => Choosable(c, c.account)
    BY <1>2 DEF LinkOK
  <1>4. n.pc # "wait" /\ n.account # NoAccount => Choosable(c, n.account)
    BY <1>3
  <1>5. n.pc # "wait" /\ n.account # NoAccount => Choosable(n, n.account)
    BY <1>4 DEF Choosable
  <1> QED
    BY <1>2, <1>5 DEF LinkOK

\* A call of markFromUpstreamError goes on.
LEMMA LinkMarks ==
  ASSUME NEW q, NEW c, LinkOK(q, c), c.pc \in {"realtime", "realtimeDone"}, NEW n, n.pc \in MarkPcs
  PROVE  LinkOK(q, n)
  <1>1. c # NoCall /\ c.pc \notin GetNextPcs
    BY NoCallType DEF GetNextPcs, MarkPcs, Picked, Refreshing, Renewed
  <1> QED
    BY <1>1 DEF LinkOK

LEMMA LinkStep ==
  ASSUME CallInv, LinkInv, UNCHANGED req, NEW r \in Requests, NEW n, call' = [call EXCEPT ![r] = n],
         LinkOK(req[r], n)
  PROVE  LinkInv'
  <1>1. call'[r] = n /\ \A q \in Requests \ {r} : call'[q] = call[q]
    BY DEF CallInv
  <1> QED
    BY <1>1 DEF LinkInv

LEMMA HandlersStay ==
  ASSUME HandlerInv, UNCHANGED <<req, sends>> PROVE HandlerInv'
  BY DEF HandlerInv

\* What the invariant says of a call.
LEMMA CallFacts ==
  ASSUME Inv, NEW r \in Requests
  PROVE  /\ call[r] \in CallType /\ CallOK(call[r], heap, issued, aged) /\ LinkOK(req[r], call[r])
         /\ call \in [Requests -> CallType] /\ heap \in HeapType
         /\ issued \in [Accounts -> 0..MaxIssued] /\ aged \in Clock
         /\ store \in [Accounts -> TokenType] /\ pool \in [Accounts -> Nat]
  BY DEF Inv, CallInv, LinkInv, PoolInv

LEMMA WorksOn ==
  ASSUME Inv, NEW r \in Requests, call[r].pc \in Picked \cup {"realtime"}
  PROVE  /\ call[r].account \in Accounts /\ call[r].obj \in 1..Len(heap[call[r].account])
         /\ call[r].pc \in Refreshing \cup Projecting => call[r].latest \in 1..Len(heap[call[r].account])
         /\ call[r].latest \in 0..Len(heap[call[r].account])
  <1>1. CallOK(call[r], heap, issued, aged) /\ call[r] \in CallType /\ heap \in HeapType
    BY CallFacts
  <1>2. /\ call[r].account \in Accounts \cup {NoAccount} /\ call[r].obj \in Nat /\ call[r].latest \in Nat
    BY <1>1, Fields
  <1>3. call[r].account \in Accounts /\ call[r].obj # 0
    BY <1>1, <1>2 DEF CallOK, StageOK
  <1>4. Len(heap[call[r].account]) \in Nat
    BY <1>1, <1>3, Elements
  <1>5. call[r].account # NoAccount
    BY <1>1 DEF CallOK, StageOK
  <1>6. call[r].obj <= Len(heap[call[r].account]) /\ call[r].latest <= Len(heap[call[r].account])
    BY <1>1, <1>5 DEF CallOK, RefsOK
  <1>7. call[r].pc \in Refreshing \cup Projecting => call[r].latest # 0
    BY <1>1 DEF CallOK, StageOK
  <1> QED
    BY <1>2, <1>3, <1>4, <1>6, <1>7

\* The names of the steps do not overlap.
LEMMA Stages ==
  /\ "joined" \notin Refreshing /\ "projectJoined" \notin Projecting
  /\ "joined" \notin Projecting /\ "projectJoined" \notin Refreshing
  /\ \A p \in Refreshing : p \notin Projecting \cup Renewed
  /\ Projecting \subseteq Renewed /\ Renewed \subseteq Picked /\ Refreshing \subseteq Picked
  /\ Landed \subseteq Refreshing /\ Picked \subseteq GetNextPcs \ {"done"} /\ Picked \subseteq CallPcs
  /\ \A p \in {"idle", "load", "reload", "select", "wait", "done", "realtime", "realtimeDone"} :
       p \notin Picked
  BY DEF Refreshing, Projecting, Renewed, Picked, Landed, GetNextPcs, CallPcs

----------------------------------------------------------------------------
(* Steps of a call that leave the heap alone *)

LEMMA ServiceStep ==
  ASSUME Inv, UNCHANGED <<req, sends>>, NEW r \in Requests, NEW n, call' = [call EXCEPT ![r] = n],
         PoolInv', RestInv', LockInv', CallInv', LinkOK(req[r], n)
  PROVE  Inv'
  BY LinkStep, HandlersStay DEF Inv

LEMMA PoolSame ==
  ASSUME PoolInv, UNCHANGED <<pool, heap, store, issued, aged>> PROVE PoolInv'
  BY DEF PoolInv

\* A step that neither takes nor releases a lock.
LEMMA LocksStay ==
  ASSUME LockInv, CallInv, UNCHANGED locks, NEW r \in Requests, NEW n, call' = [call EXCEPT ![r] = n],
         n.pc \in Refreshing <=> call[r].pc \in Refreshing,
         n.pc \in Projecting <=> call[r].pc \in Projecting,
         n.pc \in Refreshing \cup Projecting => n.account = call[r].account,
         n.pc = "joined" => refreshLock[n.account] # NoOne,
         n.pc = "projectJoined" => projectLock[n.account] # NoOne
  PROVE  LockInv'
  <1>1. call \in [Requests -> CallType]
    BY DEF CallInv
  <1>2. LockOK(refreshLock, call', Refreshing, "joined")
    BY <1>1, LockStays DEF LockInv
  <1>3. LockOK(projectLock, call', Projecting, "projectJoined")
    BY <1>1, LockStays DEF LockInv
  <1> QED
    BY <1>2, <1>3 DEF LockInv, locks

LEMMA MergeKeeps ==
  ASSUME Inv, NEW r \in Requests, UNCHANGED <<req, sends>>,
         NEW from, NEW to, <<from, to>> \in {<<"merge", "write">>, <<"projectMerge", "projectWrite">>},
         Merge(r, from, to)
  PROVE  Inv'
  <1> DEFINE c == call[r]
             t == heap[c.account][c.latest]
             w == Token(t.gen, t.project \/ c.row.project, c.row.reset)
             n == [c EXCEPT !.pc = to, !.row = w]
  <1>1. /\ c.pc = from /\ UNCHANGED <<pool, heap, store, limits, bound, locks, fingerprint, noGo, changed, env>>
        /\ call' = [call EXCEPT ![r] = n]
    BY DEF Merge, Obj
  <1>2. /\ from \in Picked /\ to \in Picked /\ from \in Refreshing \cup Projecting
        /\ (from \in Refreshing <=> to \in Refreshing) /\ (from \in Projecting <=> to \in Projecting)
        /\ (from \in Landed <=> to \in Landed) /\ (from \in Renewed <=> to \in Renewed)
        /\ to \in Refreshing \cup Projecting /\ to \in CallPcs
        /\ to # "joined" /\ to # "projectJoined" /\ to # "done" /\ to # "wait" /\ from # "wait"
    BY DEF Picked, Refreshing, Projecting, Renewed, Landed, CallPcs
  <1>3. /\ c \in CallType /\ CallOK(c, heap, issued, aged) /\ LinkOK(req[r], c) /\ heap \in HeapType
    BY CallFacts
  <1>4. c.account \in Accounts /\ c.latest \in 1..Len(heap[c.account])
    BY <1>1, <1>2, WorksOn
  <1>5. t \in TokenType /\ t.gen \in 0..MaxIssued /\ t.gen <= issued[c.account]
    BY <1>3, <1>4, Elements DEF Inv, PoolInv
  <1>6. c.row \in TokenType
    BY <1>3, Fields
  <1>7. w \in TokenType /\ w.gen = t.gen
    BY <1>5, <1>6 DEF TokenType, Token
  <1> HIDE DEF w
  <1>8. /\ n \in CallType /\ n.pc = to /\ Moves(c, n)
        /\ n.latest = c.latest /\ n.row = w /\ n.failed = c.failed
    BY <1>2, <1>3, <1>7 DEF CallType, Moves
  <1> HIDE DEF n
  <1>9. FreshOK(n, heap, issued, aged)
    BY <1>1, <1>2, <1>3, <1>8 DEF CallOK, FreshOK, Moves
  <1>10. n.latest <= Len(heap[c.account]) /\ n.latest # 0 /\ n.row.gen <= issued[c.account]
    BY <1>3, <1>4, <1>5, <1>7, <1>8, Elements
  <1>11. CallOK(n, heap, issued, aged)
    BY <1>1, <1>2, <1>3, <1>8, <1>9, <1>10, MoveOK
  <1>12. CallInv'
    BY <1>1, <1>11, Untouched DEF Inv, env
  <1>13. LockInv'
    BY <1>1, <1>2, <1>8, LocksStay DEF Inv, Moves
  <1>14. LinkOK(req[r], n)
    BY <1>1, <1>2, <1>3, <1>8, Stages, LinkGoesOn DEF Moves
  <1>15. PoolInv' /\ RestInv'
    BY <1>1, PoolSame DEF Inv, RestInv, env, limits
  <1> QED
    BY <1>1, <1>12, <1>13, <1>14, <1>15, ServiceStep

LEMMA FinishKeeps ==
  ASSUME Inv, NEW r \in Requests, UNCHANGED <<req, sends>>, Finish(r)
  PROVE  Inv'
  <1> DEFINE c == call[r]
             t == heap[c.account][c.obj]
             n == [c EXCEPT !.pc = "done", !.row = t]
  <1>1. /\ c.pc = "finish" /\ UNCHANGED <<pool, heap, store, cooling, locks, fingerprint, noGo, changed, env>>
        /\ locked' = locked \ {<<c.account, AnyModel>>}
        /\ bound' = IF c.session THEN [bound EXCEPT ![c.scope] = c.account] ELSE bound
        /\ call' = [call EXCEPT ![r] = n]
    BY DEF Finish, Obj
  <1>2. /\ c.pc \in Picked /\ c.pc \in Renewed /\ "done" \in CallPcs
        /\ c.pc \notin Refreshing \cup Projecting /\ "done" \notin Refreshing \cup Projecting
        /\ "done" \notin Picked /\ "done" \notin Renewed /\ "done" \notin Landed /\ c.pc # "wait"
        /\ "done" \in GetNextPcs
    BY <1>1 DEF Picked, Refreshing, Projecting, Renewed, Landed, CallPcs, GetNextPcs
  <1>3. /\ c \in CallType /\ CallOK(c, heap, issued, aged) /\ LinkOK(req[r], c) /\ heap \in HeapType
    BY CallFacts
  <1>4. c.account \in Accounts /\ c.obj \in 1..Len(heap[c.account]) /\ c.latest \in 0..Len(heap[c.account])
    BY <1>2, WorksOn
  <1>5. t \in TokenType /\ t.gen <= issued[c.account]
    BY <1>3, <1>4, Elements DEF Inv, PoolInv
  <1>6. ~c.failed => t.gen > c.asOf[c.account]
    BY <1>2, <1>3 DEF CallOK, FreshOK
  <1> HIDE DEF t
  <1>8. /\ n \in CallType /\ n.pc = "done" /\ Moves(c, n)
        /\ n.latest = c.latest /\ n.row = t /\ n.failed = c.failed
    BY <1>2, <1>3, <1>5 DEF CallType, Moves
  <1> HIDE DEF n
  <1>9. FreshOK(n, heap, issued, aged)
    BY <1>2, <1>8 DEF FreshOK
  <1>10. n.latest <= Len(heap[c.account]) /\ n.row.gen <= issued[c.account]
    BY <1>3, <1>4, <1>5, <1>8, Elements
  <1>11. CallOK(n, heap, issued, aged)
    BY <1>2, <1>3, <1>8, <1>9, <1>10, MoveOK
  <1>12. CallInv'
    BY <1>1, <1>11, Untouched DEF Inv, env
  <1>13. LockInv'
    BY <1>1, <1>2, <1>8, LocksStay DEF Inv
  <1>14. LinkOK(req[r], n)
    BY <1>1, <1>2, <1>3, <1>6, <1>8, Stages, LinkGoesOn DEF Moves
  <1>15. PoolInv'
    BY <1>1, PoolSame DEF Inv, env
  <1>16. c.scope \in BOOLEAN
    BY <1>3, Fields
  <1>17. RestInv'
    BY <1>1, <1>4, <1>16 DEF Inv, RestInv, env
  <1> QED
    BY <1>1, <1>12, <1>13, <1>14, <1>15, <1>17, ServiceStep

\* The lockouts and cooldowns of an error.
LEMMA LimitsTyped ==
  ASSUME RestInv, NEW a \in Accounts, NEW m \in Models \cup {AnyModel}, NEW reset,
         LockUntil(a, m, reset) \/ LockModel(a, m) \/ LockAccount(a) \/ CoolDown(a) \/ UNCHANGED limits
  PROVE  cooling' \subseteq Accounts /\ locked' \subseteq Accounts \X (Models \cup {AnyModel})
  BY DEF RestInv, LockUntil, LockModel, LockAccount, CoolDown, limits

LEMMA RealtimeDoneKeeps ==
  ASSUME Inv, NEW r \in Requests, UNCHANGED <<req, sends>>, RealtimeDone(r)
  PROVE  Inv'
  <1> DEFINE c == call[r]
             n == [c EXCEPT !.pc = "done"]
  <1>1. /\ c.pc = "realtimeDone" /\ UNCHANGED <<pool, heap, store, bound, locks, fingerprint, noGo, changed, env>>
        /\ call' = [call EXCEPT ![r] = n]
    BY DEF RealtimeDone, Go
  <1>2. \E reset : LockUntil(c.account, c.model, reset) \/ LockModel(c.account, c.model) \/ LockAccount(c.account)
    BY DEF RealtimeDone
  <1>3. /\ c \in CallType /\ CallOK(c, heap, issued, aged) /\ LinkOK(req[r], c) /\ heap \in HeapType
    BY CallFacts
  <1>4. /\ c.account \in Accounts /\ c.latest \in Nat /\ c.model \in Models \cup {AnyModel}
    BY <1>1, <1>3, Fields DEF CallOK, StageOK
  <1>5. /\ "done" \in CallPcs /\ c.pc \notin Refreshing \cup Projecting /\ "done" \notin Refreshing \cup Projecting
        /\ "done" \notin Picked /\ "done" \notin Renewed /\ "done" \notin Landed /\ "done" \in MarkPcs
    BY <1>1 DEF Picked, Refreshing, Projecting, Renewed, Landed, CallPcs, MarkPcs
  <1>6. /\ n \in CallType /\ n.pc = "done" /\ Moves(c, n)
        /\ n.latest = c.latest /\ n.row = c.row /\ n.failed = c.failed
    BY <1>3, <1>5 DEF CallType, Moves
  <1> HIDE DEF n
  <1>7. FreshOK(n, heap, issued, aged)
    BY <1>5, <1>6 DEF FreshOK
  <1>8. c.account # NoAccount
    BY <1>1, <1>3 DEF CallOK, StageOK
  <1>9. n.latest <= Len(heap[c.account]) /\ n.row.gen <= issued[c.account]
    BY <1>3, <1>6, <1>8 DEF CallOK, RefsOK
  <1>10. CallOK(n, heap, issued, aged)
    BY <1>1, <1>3, <1>5, <1>6, <1>7, <1>9, MoveOK
  <1>11. CallInv'
    BY <1>1, <1>10, Untouched DEF Inv, env
  <1>12. LockInv'
    BY <1>1, <1>5, <1>6, LocksStay DEF Inv
  <1>13. LinkOK(req[r], n)
    BY <1>1, <1>3, <1>5, <1>6, LinkMarks
  <1>14. PoolInv'
    BY <1>1, PoolSame DEF Inv, env
  <1>15. RestInv'
    <2>1. cooling' \subseteq Accounts /\ locked' \subseteq Accounts \X (Models \cup {AnyModel})
      BY <1>2, <1>4, LimitsTyped DEF Inv
    <2> QED
      BY <1>1, <2>1 DEF Inv, RestInv, env
  <1> QED
    BY <1>1, <1>11, <1>12, <1>13, <1>14, <1>15, ServiceStep

\* Whatever is chosen is a candidate, and a candidate is choosable.
LEMMA Candidate ==
  ASSUME PoolInv, NEW c, NEW a \in Candidates(c), c.scope \in BOOLEAN
  PROVE  a \in Accounts /\ pool[a] # 0 /\ Choosable(c, a)
  <1>1. a \in Accounts /\ pool[a] # 0 /\ (a \in Scoped <=> c.scope)
    BY DEF Candidates, Pooled
  <1>2. ASSUME ~c.scope, a \in c.exclude PROVE Accounts \ Scoped \subseteq c.exclude
    <2>1. \A b \in Accounts \ Scoped : pool[b] # 0
      BY DEF PoolInv
    <2> QED
      BY <1>2, <2>1 DEF Candidates, Pooled
  <1> QED
    BY <1>1, <1>2 DEF Choosable

LEMMA Choices ==
  ASSUME NEW c, NEW S
  PROVE  ParityChoice(c, S) \subseteq S /\ LegacyChoice(c, S) \subseteq S /\ Eligible(S, c.model) \subseteq S
  <1>1. Eligible(S, c.model) \subseteq S
    BY DEF Eligible
  <1>2. \A T : Sticky(c, T) \subseteq T
    BY DEF Sticky
  <1>3. ParityChoice(c, S) \subseteq S
    BY <1>1, <1>2 DEF ParityChoice, FirstNonEmpty
  <1>4. LegacyChoice(c, S) \subseteq S
    BY <1>2 DEF LegacyChoice, FirstNonEmpty
  <1> QED
    BY <1>1, <1>3, <1>4

\* A call picks the object o of an account.
LEMMA PickOK ==
  ASSUME PoolInv, NEW c, CallOK(c, heap, issued, aged), c.pc \in {"select", "wait"},
         NEW a \in Accounts, NEW o \in 1..Len(heap[a]), NEW n \in CallType,
         n.pc = "refresh", n.account = a, n.obj = o, n.latest = c.latest, n.row = c.row,
         n.rows = c.rows, n.asOf \in {c.asOf, aged},
         \A b \in Accounts : n.pool[b] \in {0, c.pool[b]}, n.free \in {{}, c.free},
         n.pool = c.pool \/ n.free = {}, n.scope = c.scope, n.exclude = c.exclude
  PROVE  CallOK(n, heap, issued, aged)
  <1>1. /\ heap \in HeapType /\ issued \in [Accounts -> 0..MaxIssued] /\ aged \in Clock /\ c \in CallType
    BY DEF PoolInv, CallOK
  <1>2. Len(heap[a]) \in Nat /\ issued[a] \in 0..MaxIssued
    BY <1>1, Elements
  <1>3. c.latest = 0 /\ c.row = Blank
    BY DEF CallOK, StageOK, Early
  <1>4. StageOK(n)
    BY <1>2, TokenAssumption DEF StageOK, Early, Refreshing, Projecting, Picked, Renewed
  <1>5. \A b \in Accounts : aged[b] \in Int /\ Len(heap[b]) \in Nat
    BY <1>1, Clocks, Elements
  <1>6. \A b \in Accounts : c.asOf[b] <= aged[b] /\ c.rows[b].gen <= issued[b] /\ c.pool[b] <= Len(heap[b])
    BY DEF CallOK, RefsOK
  <1>7. n.row.gen <= issued[a] /\ n.latest <= Len(heap[a]) /\ n.obj <= Len(heap[a])
    BY <1>2, <1>3, BlankTypes, Bounds
  <1>8. ASSUME NEW b \in Accounts
        PROVE  n.asOf[b] <= aged[b] /\ n.rows[b].gen <= issued[b] /\ n.pool[b] <= Len(heap[b])
    BY <1>5, <1>6
  <1>9. RefsOK(n, heap, issued, aged)
    BY <1>7, <1>8 DEF RefsOK
  <1>10. WaitOK(n)
    BY DEF CallOK, WaitOK, Choosable
  <1>11. FreshOK(n, heap, issued, aged)
    BY DEF FreshOK, Renewed, Landed
  <1> QED
    BY <1>4, <1>9, <1>10, <1>11 DEF CallOK
LEMMA WakeKeeps ==
  ASSUME Inv, NEW r \in Requests, UNCHANGED <<req, sends>>, Wake(r)
  PROVE  Inv'
  <1> DEFINE c == call[r]
             S == {a \in Accounts : c.pool[a] # 0}
             chosen == FirstNonEmpty(Eligible(S, c.model) \cap {c.account}, Eligible(S, c.model), c.free)
  <1>1. c.pc = "wait" /\ UNCHANGED <<pool, heap, store, limits, bound, locks, fingerprint, noGo, changed, env>>
    BY DEF Wake
  <1>2. PICK a \in chosen :
          call' = [call EXCEPT ![r].pc = "refresh", ![r].account = a, ![r].obj = c.pool[a],
                     ![r].pool = NoObjs, ![r].free = {}]
    BY DEF Wake
  <1>3. /\ c \in CallType /\ CallOK(c, heap, issued, aged) /\ LinkOK(req[r], c) /\ heap \in HeapType
    BY CallFacts
  <1>4. /\ c.free \subseteq Accounts /\ c.pool \in [Accounts -> Nat] /\ WaitOK(c)
        /\ \A b \in Accounts : c.pool[b] <= Len(heap[b])
    BY <1>3, Fields DEF CallOK, RefsOK
  <1>5. a \in Accounts /\ c.pool[a] # 0
    BY <1>4 DEF FirstNonEmpty, Eligible, WaitOK
  <1>6. Choosable(c, a) /\ c.pool[a] \in 1..Len(heap[a])
    BY <1>3, <1>4, <1>5, Elements DEF WaitOK
  <1> HIDE DEF chosen
  <1> DEFINE n == [c EXCEPT !.pc = "refresh", !.account = a, !.obj = c.pool[a], !.pool = NoObjs, !.free = {}]
  <1>7. call' = [call EXCEPT ![r] = n]
    BY <1>2
  <1>8. "refresh" \in CallPcs /\ c.pool[a] \in Nat
    BY <1>4, <1>5 DEF CallPcs
  <1>9. /\ n \in CallType /\ n.pc = "refresh" /\ n.account = a /\ n.obj = c.pool[a]
        /\ n.latest = c.latest /\ n.row = c.row /\ n.rows = c.rows /\ n.asOf = c.asOf
        /\ n.pool = NoObjs /\ n.free = {} /\ n.scope = c.scope /\ n.exclude = c.exclude
    BY <1>3, <1>5, <1>8, BlankTypes DEF CallType
  <1> HIDE DEF n
  <1>10. CallOK(n, heap, issued, aged)
    BY <1>1, <1>3, <1>5, <1>6, <1>9, BlankTypes, PickOK DEF Inv
  <1>11. CallInv'
    BY <1>1, <1>7, <1>10, Untouched DEF Inv, env
  <1>12. /\ n.pc \notin Refreshing \cup Projecting /\ c.pc \notin Refreshing \cup Projecting
         /\ n.pc \in GetNextPcs /\ c.pc \in GetNextPcs \ {"done"}
    BY <1>1, <1>9 DEF Refreshing, Projecting, GetNextPcs, Picked
  <1>13. LockInv'
    BY <1>1, <1>7, <1>9, <1>12, LocksStay DEF Inv
  <1>14. LinkOK(req[r], n)
    BY <1>3, <1>6, <1>9, <1>12, LinkGoesOn
  <1>15. PoolInv' /\ RestInv'
    BY <1>1, PoolSame DEF Inv, RestInv, env, limits
  <1> QED
    BY <1>7, <1>11, <1>13, <1>14, <1>15, ServiceStep

\* A call that has not picked an account goes on, or gives up.
LEMMA EarlyOK ==
  ASSUME NEW h, NEW is, NEW ag, NEW c, CallOK(c, h, is, ag), c.pc \in Early,
         NEW n \in CallType, n.pc \in Early \cup {"done"},
         n.account = c.account, n.obj = c.obj, n.latest = c.latest, n.row = c.row,
         n.asOf = c.asOf, n.pool = c.pool, n.free = c.free, n.scope = c.scope, n.exclude = c.exclude,
         \A a \in Accounts : n.rows[a].gen <= is[a]
  PROVE  CallOK(n, h, is, ag)
  <1>1. c.account = NoAccount /\ c.obj = 0 /\ c.latest = 0 /\ c.row = Blank
    BY DEF CallOK, StageOK
  <1>2. StageOK(n)
    BY <1>1 DEF StageOK, Early, Picked, Refreshing, Projecting, Renewed
  <1>3. WaitOK(n)
    BY DEF CallOK, WaitOK, Choosable
  <1>4. RefsOK(n, h, is, ag)
    BY <1>1 DEF CallOK, RefsOK
  <1>5. FreshOK(n, h, is, ag)
    BY DEF FreshOK, Early, Renewed, Landed
  <1> QED
    BY <1>2, <1>3, <1>4, <1>5 DEF CallOK

LEMMA SelectKeeps ==
  ASSUME Inv, NEW r \in Requests, UNCHANGED <<req, sends>>, Select(r)
  PROVE  Inv'
  <1> DEFINE c == call[r]
             S == Candidates(c)
  <1>1. c.pc = "select" /\ UNCHANGED <<pool, heap, store, limits, bound, locks, fingerprint, changed, env>>
    BY DEF Select
  <1>2. /\ c \in CallType /\ CallOK(c, heap, issued, aged) /\ LinkOK(req[r], c) /\ heap \in HeapType
        /\ aged \in Clock /\ pool \in [Accounts -> Nat]
    BY CallFacts
  <1>3. /\ c.scope \in BOOLEAN /\ c.account = NoAccount /\ c.obj = 0 /\ c.latest = 0 /\ c.row = Blank
        /\ c.rows \in [Accounts -> TokenType]
    BY <1>1, <1>2, Fields DEF CallOK, StageOK, Early
  <1>4. \A a \in S : a \in Accounts /\ pool[a] \in 1..Len(heap[a]) /\ Choosable(c, a)
    <2>1. ASSUME NEW a \in S PROVE a \in Accounts /\ pool[a] # 0 /\ Choosable(c, a)
      BY <1>3, Candidate DEF Inv
    <2> QED
      BY <1>2, <2>1, Elements DEF Inv, PoolInv
  <1>5. noGo' \in BOOLEAN
    BY DEF Select, ShadowStep, Inv, RestInv
  <1>6. /\ PoolInv'
        /\ RestInv'
    <2>1. PoolInv'
      BY <1>1, PoolSame DEF Inv, env
    <2>2. RestInv'
      BY <1>1, <1>5 DEF Inv, RestInv, env, limits
    <2> QED
      BY <2>1, <2>2
  <1>7. SUFFICES ASSUME NEW n \in CallType, call' = [call EXCEPT ![r] = n],
                        CallOK(n, heap, issued, aged), n.pc \in {"done", "refresh", "wait"},
                        n.scope = c.scope, n.exclude = c.exclude,
                        \/ n.account = NoAccount
                        \/ n.pc = "refresh" /\ Choosable(c, n.account)
                        \/ n.pc = "wait"
                 PROVE  Inv'
    <2>1. CASE call' = [call EXCEPT ![r].pc = "done"]
      <3> DEFINE n == [c EXCEPT !.pc = "done"]
      <3>1. call' = [call EXCEPT ![r] = n]
        BY <2>1
      <3>2. "done" \in CallPcs
        BY DEF CallPcs
      <3>3. /\ n \in CallType /\ n.pc = "done" /\ Moves(c, n) /\ n.latest = c.latest /\ n.row = c.row
        BY <1>2, <3>2 DEF CallType, Moves
      <3> HIDE DEF n
      <3>4. CallOK(n, heap, issued, aged)
        BY <1>1, <1>2, <3>3, EarlyOK DEF Early, Moves, CallOK, RefsOK
      <3> QED
        BY <1>3, <1>7, <3>1, <3>3, <3>4 DEF Moves
    <2>2. CASE \E a \in S : Pick(r, a)
      <3>1. PICK a \in S : Pick(r, a)
        BY <2>2
      <3> DEFINE n == [c EXCEPT !.pc = "refresh", !.account = a, !.obj = pool[a], !.asOf = aged]
      <3>2. call' = [call EXCEPT ![r] = n]
        BY <3>1 DEF Pick
      <3>3. "refresh" \in CallPcs /\ a \in Accounts /\ pool[a] \in 1..Len(heap[a]) /\ pool[a] \in Nat /\ Choosable(c, a)
        BY <1>2, <1>4 DEF CallPcs
      <3>4. /\ n \in CallType /\ n.pc = "refresh" /\ n.account = a /\ n.obj = pool[a]
            /\ n.latest = c.latest /\ n.row = c.row /\ n.rows = c.rows /\ n.asOf = aged
            /\ n.pool = c.pool /\ n.free = c.free /\ n.scope = c.scope /\ n.exclude = c.exclude
        BY <1>2, <3>3 DEF CallType, Clock
      <3> HIDE DEF n
      <3>5. CallOK(n, heap, issued, aged)
        BY <1>1, <1>2, <3>3, <3>4, PickOK DEF Inv
      <3> QED
        BY <1>7, <3>2, <3>3, <3>4, <3>5
    <2>3. CASE /\ WaitsFor(c, S)
               /\ call' = [call EXCEPT ![r].pc = "wait", ![r].asOf = aged,
                         ![r].account = bound[c.scope], ![r].free = Eligible(S, c.model),
                         ![r].pool = [a \in Accounts |-> IF a \in S THEN pool[a] ELSE 0]]
      <3> DEFINE p == [a \in Accounts |-> IF a \in S THEN pool[a] ELSE 0]
                 f == Eligible(S, c.model)
                 b == bound[c.scope]
                 n == [c EXCEPT !.pc = "wait", !.asOf = aged, !.account = b, !.free = f, !.pool = p]
      <3>1. call' = [call EXCEPT ![r] = n]
        BY <2>3
      <3>2. /\ "wait" \in CallPcs /\ b \in Accounts /\ f \subseteq S /\ f \subseteq Accounts
            /\ p \in [Accounts -> Nat] /\ \A a \in Accounts : p[a] # 0 <=> a \in S
        <4>1. bound \in [BOOLEAN -> Accounts \cup {NoAccount}]
          BY DEF Inv, RestInv
        <4>2. b \in Accounts
          BY <1>3, <2>3, <4>1 DEF WaitsFor
        <4>3. f \subseteq S
          BY Choices
        <4> QED
          BY <1>2, <1>4, <4>2, <4>3 DEF CallPcs
      <3>3. \A a \in Accounts : p[a] <= Len(heap[a])
        BY <1>2, <1>4, Elements
      <3> HIDE DEF p, f, b
      <3>4. /\ n \in CallType /\ n.pc = "wait" /\ n.account = b /\ n.obj = c.obj
            /\ n.latest = c.latest /\ n.row = c.row /\ n.rows = c.rows /\ n.asOf = aged
            /\ n.pool = p /\ n.free = f /\ n.scope = c.scope /\ n.exclude = c.exclude
        BY <1>2, <3>2 DEF CallType, Clock
      <3> HIDE DEF n
      <3>5. StageOK(n)
        BY <1>3, <3>4 DEF StageOK, Early, Picked, Refreshing, Projecting, Renewed
      <3>6. WaitOK(n)
        BY <1>4, <3>2, <3>4 DEF WaitOK, Choosable
      <3>7. FreshOK(n, heap, issued, aged)
        BY <3>4 DEF FreshOK, Renewed, Landed
      <3>8. RefsOK(n, heap, issued, aged)
        <4>1. Len(heap[b]) \in Nat /\ issued[b] \in 0..MaxIssued
          BY <1>2, <3>2, Elements, CallFacts
        <4>2. n.obj <= Len(heap[b]) /\ n.latest <= Len(heap[b]) /\ n.row.gen <= issued[b]
          BY <1>3, <3>4, <4>1, BlankTypes, Bounds
        <4>3. \A a \in Accounts : aged[a] <= aged[a] /\ c.rows[a].gen <= issued[a]
          BY <1>2, Clocks DEF CallOK, RefsOK
        <4> QED
          BY <3>3, <3>4, <4>2, <4>3 DEF RefsOK
      <3>9. CallOK(n, heap, issued, aged)
        BY <3>4, <3>5, <3>6, <3>7, <3>8 DEF CallOK
      <3> QED
        BY <1>7, <3>1, <3>4, <3>9
    <2>4. ASSUME NEW a, a \in (IF Parity THEN ParityChoice(c, S) ELSE LegacyChoice(c, S)), Pick(r, a)
          PROVE  \E b \in S : Pick(r, b)
      BY <2>4, Choices
    <2> QED
      BY <2>1, <2>2, <2>3, <2>4 DEF Select, Go
  <1>8. CallInv'
    BY <1>1, <1>7, Untouched DEF Inv, env
  <1>9. /\ n.pc \notin Refreshing \cup Projecting /\ c.pc \notin Refreshing \cup Projecting
        /\ n.pc \in GetNextPcs /\ c.pc \in GetNextPcs \ {"done"} /\ n.pc \notin {"joined", "projectJoined"}
    BY <1>1, <1>7 DEF Refreshing, Projecting, GetNextPcs, Picked
  <1>10. LockInv'
    BY <1>1, <1>7, <1>9, LocksStay DEF Inv
  <1>11. LinkOK(req[r], n)
    BY <1>1, <1>2, <1>3, <1>7, <1>9, LinkGoesOn
  <1> QED
    BY <1>6, <1>7, <1>8, <1>10, <1>11, ServiceStep

----------------------------------------------------------------------------
(* Loading the pool *)

\* New objects are put into the heap and maybe into the pool.
LEMMA PoolRefilled ==
  ASSUME PoolInv, UNCHANGED <<store, issued, aged>>, NEW A, NEW t \in [Accounts -> TokenType],
         \A a \in Accounts : t[a].gen <= issued[a],
         heap' = Appended(heap, A, t),
         pool' \in [Accounts -> Nat],
         \A a \in Accounts : /\ a \in A => pool'[a] \in {0, Len(heap[a]) + 1}
                             /\ a \notin A => pool'[a] \in {0, pool[a]}
                             /\ a \notin Scoped => pool'[a] # 0
  PROVE  PoolInv' /\ Grown(heap, heap')
  <1>1. heap \in HeapType
    BY DEF PoolInv
  <1>2. /\ heap' \in HeapType
        /\ \A a \in Accounts : Len(heap'[a]) = IF a \in A THEN Len(heap[a]) + 1 ELSE Len(heap[a])
        /\ \A a \in Accounts : \A i \in 1..Len(heap[a]) : heap'[a][i] = heap[a][i]
        /\ \A a \in Accounts : a \in A => heap'[a][Len(heap[a]) + 1] = t[a]
    BY <1>1, HeapAppend
  <1>3. ASSUME NEW a \in Accounts
        PROVE  /\ pool'[a] <= Len(heap'[a])
               /\ Len(heap[a]) <= Len(heap'[a])
               /\ \A i \in 1..Len(heap'[a]) : heap'[a][i].gen <= issued[a]
               /\ \A i \in 1..Len(heap[a]) : heap[a][i].gen <= heap'[a][i].gen
    <2>1. Len(heap[a]) \in Nat /\ \A i \in 1..Len(heap[a]) : heap[a][i].gen \in 0..MaxIssued
      BY <1>1, Elements
    <2>2. pool[a] <= Len(heap[a]) /\ pool[a] \in Nat /\ \A i \in 1..Len(heap[a]) : heap[a][i].gen <= issued[a]
      BY DEF PoolInv
    <2>3. pool'[a] <= Len(heap'[a]) /\ Len(heap[a]) <= Len(heap'[a])
      BY <1>2, <2>1, <2>2
    <2>4. ASSUME NEW i \in 1..Len(heap'[a]) PROVE heap'[a][i].gen <= issued[a]
      <3>1. i \in 1..Len(heap[a]) \/ (a \in A /\ i = Len(heap[a]) + 1)
        BY <1>2, <2>1
      <3> QED
        BY <1>2, <2>2, <3>1
    <2>5. \A i \in 1..Len(heap[a]) : heap[a][i].gen <= heap'[a][i].gen
      BY <1>2, <2>1, Bounds
    <2> QED
      BY <2>3, <2>4, <2>5
  <1>4. Grown(heap, heap')
    BY <1>3 DEF Grown
  <1>5. PoolInv'
    BY <1>2, <1>3 DEF PoolInv, HeapType, Clock
  <1> QED
    BY <1>4, <1>5

LEMMA LoadedKeeps ==
  ASSUME Inv, NEW r \in Requests, UNCHANGED <<req, sends>>, Loaded(r)
  PROVE  Inv'
  <1> DEFINE c == call[r]
             p == IF \E a \in Accounts : pool'[a] # 0 THEN "select"
                  ELSE IF c.pc = "reload" THEN "load" ELSE "done"
             w == IF p = "load" THEN store ELSE NoRows
             n == [c EXCEPT !.pc = p, !.rows = w]
  <1>1. /\ c.pc \in {"load", "reload"} /\ call' = [call EXCEPT ![r] = n]
        /\ UNCHANGED <<store, limits, bound, locks, fingerprint, noGo, issued, aged, reloads>>
    BY DEF Loaded
  <1>2. /\ c \in CallType /\ CallOK(c, heap, issued, aged) /\ LinkOK(req[r], c) /\ heap \in HeapType
        /\ store \in [Accounts -> TokenType] /\ issued \in [Accounts -> 0..MaxIssued] /\ aged \in Clock
        /\ pool \in [Accounts -> Nat] /\ call \in [Requests -> CallType]
    BY CallFacts
  <1>3. /\ \A a \in Accounts : c.rows[a].gen <= issued[a] /\ store[a].gen <= issued[a]
        /\ c.rows \in [Accounts -> TokenType]
    BY <1>2, Fields DEF CallOK, RefsOK, Inv, PoolInv
  <1>4. PoolInv' /\ Grown(heap, heap') /\ changed' \in BOOLEAN /\ faults' \in 0..MaxFaults
    <2>1. CASE FillPool(c.rows) /\ faults' = faults
      <3> DEFINE t == [a \in Accounts |-> IF a \in Stored THEN c.rows[a] ELSE store[a]]
                 A == Accounts \ Scoped
      <3>1. t \in [Accounts -> TokenType] /\ \A a \in Accounts : t[a].gen <= issued[a]
        BY <1>2, <1>3
      <3>2. heap' = Appended(heap, A, t)
        BY <2>1 DEF FillPool, Appended
      <3>3. \A a \in Accounts : Len(heap[a]) \in Nat
        BY <1>2, Elements
      <3>4. /\ pool' \in [Accounts -> Nat]
            /\ \A a \in Accounts : /\ a \in A => pool'[a] \in {0, Len(heap[a]) + 1}
                                   /\ a \notin A => pool'[a] \in {0, pool[a]}
                                   /\ a \notin Scoped => pool'[a] # 0
        BY <2>1, <3>3 DEF FillPool
      <3> HIDE DEF t, A
      <3>5. PoolInv' /\ Grown(heap, heap')
        BY <1>1, <3>1, <3>2, <3>4, PoolRefilled DEF Inv
      <3>6. changed' = FALSE
        BY <2>1 DEF FillPool
      <3> QED
        BY <2>1, <3>5, <3>6 DEF Inv, RestInv
    <2>2. CASE faults < MaxFaults /\ faults' = faults + 1 /\ UNCHANGED <<pool, heap, changed>>
      <3>1. PoolInv' /\ Grown(heap, heap')
        BY <1>1, <1>2, <2>2, PoolSame, SameHeap DEF Inv
      <3> QED
        BY <2>2, <3>1, Bounds DEF Inv, RestInv
    <2> QED
      BY <2>1, <2>2 DEF Loaded
  <1>5. /\ p \in {"select", "load", "done"} /\ p \in CallPcs /\ w \in [Accounts -> TokenType]
        /\ \A a \in Accounts : w[a].gen <= issued[a]
    <2>1. \A a \in Accounts : issued[a] \in 0..MaxIssued
      BY <1>2
    <2>2. w \in [Accounts -> TokenType]
      BY <1>2, BlankTypes
    <2>3. p \in {"select", "load", "done"} /\ p \in CallPcs
      BY DEF CallPcs
    <2> QED
      BY <1>3, <2>1, <2>2, <2>3, BlankTypes, Bounds
  <1> HIDE DEF p, w
  <1>6. /\ n \in CallType /\ n.pc = p /\ n.account = c.account /\ n.obj = c.obj /\ n.latest = c.latest
        /\ n.row = c.row /\ n.asOf = c.asOf /\ n.pool = c.pool /\ n.free = c.free
        /\ n.scope = c.scope /\ n.exclude = c.exclude /\ n.rows = w
    BY <1>2, <1>5 DEF CallType
  <1> HIDE DEF n
  <1>7. c.pc \notin Landed /\ c.pc \in Early /\ n.pc \in Early \cup {"done"} /\ c.account = NoAccount
    BY <1>1, <1>2, <1>5, <1>6 DEF Landed, Early, CallOK, StageOK
  <1>8. CallOK(n, heap', issued', aged')
    <2>1. /\ heap' \in HeapType /\ issued' \in [Accounts -> 0..MaxIssued] /\ aged' \in Clock
          /\ \A a \in Accounts : \A i \in 1..Len(heap'[a]) : heap'[a][i].gen <= issued'[a]
      BY <1>4 DEF PoolInv, HeapType, Clock
    <2>2. \A a \in Accounts : issued[a] <= issued'[a] /\ aged[a] <= aged'[a]
      BY <1>1, <1>2, Clocks
    <2>3. CallOK(c, heap', issued', aged')
      BY <1>2, <1>4, <1>7, <2>1, <2>2, CallFrame
    <2>4. \A a \in Accounts : n.rows[a].gen <= issued'[a]
      BY <1>1, <1>5, <1>6
    <2> QED
      BY <1>6, <1>7, <2>3, <2>4, EarlyOK
  <1>9. CallInv'
    <2>1. \A a \in Accounts : issued[a] <= issued'[a] /\ aged[a] <= aged'[a]
      BY <1>1, <1>2, Clocks
    <2> QED
      BY <1>1, <1>4, <1>8, <2>1, OneCall DEF Inv
  <1>10. /\ n.pc \notin Refreshing \cup Projecting /\ c.pc \notin Refreshing \cup Projecting
        /\ n.pc \in GetNextPcs /\ c.pc \in GetNextPcs \ {"done"} /\ n.pc \notin {"joined", "projectJoined"}
    BY <1>1, <1>5, <1>6 DEF Refreshing, Projecting, GetNextPcs, Picked
  <1>11. LockInv'
    BY <1>1, <1>10, LocksStay DEF Inv
  <1>12. LinkOK(req[r], n)
    BY <1>1, <1>2, <1>6, <1>7, <1>10, LinkGoesOn
  <1>13. RestInv'
    BY <1>1, <1>4 DEF Inv, RestInv, limits
  <1> QED
    BY <1>1, <1>4, <1>9, <1>11, <1>12, <1>13, ServiceStep

----------------------------------------------------------------------------
(* Steps that leave the generations of the tokens alone *)

\* Objects get newer tokens, and one may go into the pool.
LEMMA HeapNewer ==
  ASSUME PoolInv, UNCHANGED aged, heap' \in HeapType, issued' \in [Accounts -> 0..MaxIssued],
         \A a \in Accounts : issued[a] <= issued'[a],
         \A a \in Accounts : Len(heap'[a]) = Len(heap[a]),
         \A a \in Accounts : \A i \in 1..Len(heap[a]) :
           heap[a][i].gen <= heap'[a][i].gen /\ heap'[a][i].gen <= issued'[a],
         store' \in [Accounts -> TokenType], \A a \in Accounts : store'[a].gen <= issued'[a],
         pool' \in [Accounts -> Nat], \A a \in Accounts : pool'[a] \in {pool[a]} \cup 1..Len(heap[a])
  PROVE  PoolInv' /\ Grown(heap, heap')
  <1>1. heap \in HeapType /\ issued \in [Accounts -> 0..MaxIssued] /\ aged \in Clock
    BY DEF PoolInv
  <1>2. ASSUME NEW a \in Accounts
        PROVE  /\ pool'[a] <= Len(heap'[a]) /\ (a \notin Scoped => pool'[a] # 0)
               /\ Len(heap[a]) <= Len(heap'[a])
               /\ aged[a] <= issued'[a] /\ aged[a] < MaxIssued
    <2>1. Len(heap[a]) \in Nat
      BY <1>1, Elements
    <2>2. /\ pool[a] <= Len(heap[a]) /\ pool[a] \in Nat /\ (a \notin Scoped => pool[a] # 0)
          /\ aged[a] <= issued[a] /\ aged[a] < MaxIssued
      BY DEF PoolInv
    <2>3. aged[a] \in Int /\ issued[a] \in Int /\ issued'[a] \in Int
      BY <1>1, Clocks
    <2> QED
      BY <2>1, <2>2, <2>3
  <1>3. Grown(heap, heap')
    BY <1>2 DEF Grown
  <1>4. PoolInv'
    BY <1>1, <1>2 DEF PoolInv, HeapType, Clock
  <1> QED
    BY <1>3, <1>4

\* Objects get a quota or a project.
LEMMA Relabelled ==
  ASSUME PoolInv, UNCHANGED <<issued, aged>>, heap' \in HeapType,
         \A a \in Accounts : Len(heap'[a]) = Len(heap[a]),
         \A a \in Accounts : \A i \in 1..Len(heap[a]) : heap'[a][i].gen = heap[a][i].gen,
         store' \in [Accounts -> TokenType], \A a \in Accounts : store'[a].gen <= issued[a],
         pool' \in [Accounts -> Nat], \A a \in Accounts : pool'[a] \in {pool[a]} \cup 1..Len(heap[a])
  PROVE  PoolInv' /\ Grown(heap, heap')
  <1>1. heap \in HeapType /\ issued \in [Accounts -> 0..MaxIssued] /\ issued' = issued
    BY DEF PoolInv
  <1>2. \A a \in Accounts : issued[a] <= issued'[a]
    BY <1>1, Clocks
  <1>3. ASSUME NEW a \in Accounts, NEW i \in 1..Len(heap[a])
        PROVE  heap[a][i].gen <= heap'[a][i].gen /\ heap'[a][i].gen <= issued'[a]
    <2>1. heap[a][i].gen \in 0..MaxIssued /\ heap[a][i].gen <= issued[a]
      BY <1>1, Elements DEF PoolInv
    <2> QED
      BY <1>1, <2>1, Bounds
  <1> QED
    BY <1>1, <1>2, <1>3, HeapNewer

LEMMA StillGood ==
  ASSUME PoolInv, PoolInv', Grown(heap, heap'), \A a \in Accounts : issued[a] <= issued'[a] /\ aged[a] <= aged'[a],
         NEW c, CallOK(c, heap, issued, aged), c.pc \notin Landed
  PROVE  CallOK(c, heap', issued', aged')
  <1>1. /\ heap \in HeapType /\ heap' \in HeapType
        /\ issued \in [Accounts -> 0..MaxIssued] /\ issued' \in [Accounts -> 0..MaxIssued]
        /\ aged \in Clock /\ aged' \in Clock
        /\ \A a \in Accounts : \A i \in 1..Len(heap'[a]) : heap'[a][i].gen <= issued'[a]
    BY DEF PoolInv, HeapType, Clock
  <1> QED
    BY <1>1, CallFrame

LEMMA StillOK ==
  ASSUME Inv, PoolInv', Grown(heap, heap'), UNCHANGED <<issued, aged>>, NEW q \in Requests
  PROVE  CallOK(call[q], heap', issued', aged')
  <1>1. /\ heap \in HeapType /\ heap' \in HeapType
        /\ issued \in [Accounts -> 0..MaxIssued] /\ issued' \in [Accounts -> 0..MaxIssued]
        /\ aged \in Clock /\ aged' \in Clock
        /\ \A a \in Accounts : \A i \in 1..Len(heap'[a]) : heap'[a][i].gen <= issued'[a]
    BY DEF Inv, PoolInv, HeapType, Clock
  <1>2. CallOK(call[q], heap, issued, aged)
    BY CallFacts
  <1>3. \A a \in Accounts : issued[a] <= issued'[a] /\ aged[a] <= aged'[a]
    BY <1>1, Clocks
  <1> QED
    BY <1>1, <1>2, <1>3, CallFrame

LEMMA MovedOn ==
  ASSUME Inv, PoolInv', Grown(heap, heap'), UNCHANGED <<issued, aged>>, NEW r \in Requests,
         NEW n \in CallType, call' = [call EXCEPT ![r] = n], Moves(call[r], n),
         call[r].pc \in Picked \cup {"realtime", "realtimeDone"},
         n.pc \in Picked \cup {"realtimeDone", "done"},
         n.pc \in Picked => call[r].pc \in Picked,
         n.pc \in Refreshing \cup Projecting => n.latest # 0,
         n.latest <= Len(heap'[call[r].account]), n.row.gen <= issued[call[r].account],
         FreshOK(n, heap', issued', aged')
  PROVE  CallInv'
  <1>1. CallOK(call[r], heap', issued', aged')
    BY StillOK
  <1>2. CallOK(n, heap', issued', aged')
    BY <1>1, MoveOK
  <1>3. \A a \in Accounts : issued[a] <= issued'[a] /\ aged[a] <= aged'[a]
    <2>1. issued \in [Accounts -> 0..MaxIssued] /\ aged \in Clock
      BY DEF Inv, PoolInv
    <2> QED
      BY <2>1, Clocks
  <1> QED
    BY <1>2, <1>3, OneCall DEF Inv

\* One object is written, with a token that is not older.
LEMMA Labelled ==
  ASSUME Inv, UNCHANGED <<issued, aged>>,
         NEW a \in Accounts, NEW o \in 1..Len(heap[a]), NEW t \in TokenType,
         heap[a][o].gen <= t.gen, t.gen <= issued[a], heap' = Written(heap, a, o, t),
         store' \in [Accounts -> TokenType], \A b \in Accounts : store'[b].gen <= issued[b],
         pool' \in {pool, [pool EXCEPT ![a] = o]}
  PROVE  PoolInv' /\ Grown(heap, heap') /\ heap'[a][o] = t /\ \A b \in Accounts : Len(heap'[b]) = Len(heap[b])
  <1>1. heap \in HeapType /\ pool \in [Accounts -> Nat]
    BY DEF Inv, PoolInv
  <1>2. /\ heap' \in HeapType
        /\ \A b \in Accounts : Len(heap'[b]) = Len(heap[b])
        /\ \A b \in Accounts : \A j \in 1..Len(heap[b]) :
             heap'[b][j] = IF b = a /\ j = o THEN t ELSE heap[b][j]
    BY <1>1, HeapWrite
  <1>3. Len(heap[a]) \in Nat
    BY <1>1, Elements
  <1>4. pool' \in [Accounts -> Nat] /\ \A b \in Accounts : pool'[b] \in {pool[b]} \cup 1..Len(heap[b])
    BY <1>1, <1>3
  <1>5. ASSUME NEW b \in Accounts, NEW j \in 1..Len(heap[b])
        PROVE  heap[b][j].gen <= heap'[b][j].gen /\ heap'[b][j].gen <= issued'[b]
    <2>1. heap[b][j].gen \in 0..MaxIssued /\ heap[b][j].gen <= issued[b]
      BY <1>1, Elements DEF Inv, PoolInv
    <2> QED
      BY <1>2, <2>1, Bounds
  <1>6. issued' \in [Accounts -> 0..MaxIssued] /\ \A b \in Accounts : issued[b] <= issued'[b]
    BY Clocks DEF Inv, PoolInv
  <1>7. PoolInv' /\ Grown(heap, heap')
    BY <1>2, <1>4, <1>5, <1>6, HeapNewer DEF Inv
  <1> QED
    BY <1>2, <1>7

LEMMA SameGen ==
  ASSUME Inv, NEW a \in Accounts, NEW o \in 1..Len(heap[a]), NEW t, t.gen = heap[a][o].gen
  PROVE  heap[a][o].gen <= t.gen /\ t.gen <= issued[a]
  <1>1. heap \in HeapType /\ heap[a][o].gen <= issued[a]
    BY DEF Inv, PoolInv
  <1>2. heap[a][o].gen \in 0..MaxIssued
    BY <1>1, Elements
  <1> QED
    BY <1>1, <1>2, Bounds

LEMMA RowKept ==
  ASSUME NEW r \in Requests, call[r] \in CallType, Go(r, "realtimeDone")
  PROVE  call' = [call EXCEPT ![r] = [call[r] EXCEPT !.pc = "realtimeDone", !.row = call[r].row]]
  <1>1. [call[r] EXCEPT !.pc = "realtimeDone", !.row = call[r].row] = [call[r] EXCEPT !.pc = "realtimeDone"]
    BY DEF CallType
  <1> QED
    BY <1>1 DEF Go

LEMMA RealtimeAnsweredKeeps ==
  ASSUME Inv, NEW r \in Requests, UNCHANGED <<req, sends>>, RealtimeAnswered(r)
  PROVE  Inv'
  <1> DEFINE c == call[r]
             a == c.account
             o == c.obj
  <1>1. c.pc = "realtime" /\ UNCHANGED <<limits, bound, locks, fingerprint, noGo, changed, issued, aged, reloads>>
    BY DEF RealtimeAnswered
  <1>2. /\ c \in CallType /\ CallOK(c, heap, issued, aged) /\ LinkOK(req[r], c) /\ heap \in HeapType
        /\ store \in [Accounts -> TokenType] /\ issued \in [Accounts -> 0..MaxIssued]
        /\ \A b \in Accounts : store[b].gen <= issued[b]
    BY CallFacts DEF Inv, PoolInv
  <1>3. a \in Accounts /\ o \in 1..Len(heap[a]) /\ c.latest \in 0..Len(heap[a]) /\ Len(heap[a]) \in Nat
    BY <1>1, <1>2, WorksOn, Elements
  <1>4. /\ faults \in 0..MaxFaults /\ (faults < MaxFaults => faults + 1 \in 0..MaxFaults)
        /\ 0 <= issued[a]
    BY <1>2, <1>3, Bounds DEF Inv, RestInv
  <1>5. SUFFICES ASSUME NEW w \in TokenType, w.gen <= issued[a],
                        call' = [call EXCEPT ![r] = [c EXCEPT !.pc = "realtimeDone", !.row = w]],
                        PoolInv', Grown(heap, heap'), faults' \in 0..MaxFaults,
                        Len(heap'[a]) = Len(heap[a])
                 PROVE  Inv'
    <2>1. ASSUME NEW reset \in Resets,
                 heap' = [heap EXCEPT ![a][o].reset = reset],
                 pool' = [pool EXCEPT ![a] = o],
                 \/ /\ store' = IF a \in Stored THEN [store EXCEPT ![a].reset = reset] ELSE store
                    /\ call' = [call EXCEPT ![r].pc = "realtimeDone",
                                  ![r].row = [Blank EXCEPT !.reset = reset]]
                    /\ faults' = faults
                 \/ /\ faults < MaxFaults /\ faults' = faults + 1
                    /\ Go(r, "realtimeDone") /\ UNCHANGED store
          PROVE  Inv'
      <3> DEFINE t == [heap[a][o] EXCEPT !.reset = reset]
                 w == [Blank EXCEPT !.reset = reset]
      <3>1. reset \in {"unknown", "none", "past", "future"}
        BY TokenAssumption
      <3>2. heap[a][o] \in TokenType
        BY <1>2, <1>3, Elements
      <3>3. t \in TokenType /\ t.gen = heap[a][o].gen
        BY <3>1, <3>2 DEF TokenType
      <3>4. w \in TokenType /\ w.gen = 0
        BY <3>1, BlankTypes DEF TokenType
      <3>5. heap' = Written(heap, a, o, t)
        BY <2>1 DEF Written
      <3>6. store' \in [Accounts -> TokenType] /\ \A b \in Accounts : store'[b].gen <= issued[b]
        <4>1. CASE UNCHANGED store
          BY <1>2, <4>1
        <4>2. CASE store' = IF a \in Stored THEN [store EXCEPT ![a].reset = reset] ELSE store
          BY <1>2, <3>1, <4>2 DEF TokenType
        <4> QED
          BY <2>1, <4>1, <4>2
      <3> HIDE DEF t
      <3>7. PoolInv' /\ Grown(heap, heap') /\ Len(heap'[a]) = Len(heap[a])
        <4>1. heap[a][o].gen <= t.gen /\ t.gen <= issued[a] /\ pool' = [pool EXCEPT ![a] = o]
          BY <1>3, <2>1, <3>3, SameGen
        <4>2. UNCHANGED <<issued, aged>>
          BY <1>1
        <4> QED
          BY <1>3, <3>3, <3>5, <3>6, <4>1, <4>2, Labelled
      <3>8. issued[a] \in 0..MaxIssued /\ faults' \in 0..MaxFaults
        BY <1>2, <1>3, <1>4, <2>1
      <3>9. CASE call' = [call EXCEPT ![r].pc = "realtimeDone", ![r].row = w]
        <4>1. call' = [call EXCEPT ![r] = [c EXCEPT !.pc = "realtimeDone", !.row = w]]
          BY <3>9
        <4> HIDE DEF w
        <4>2. w.gen <= issued[a]
          BY <1>4, <3>4
        <4> QED
          BY <1>5, <3>4, <3>7, <3>8, <4>1, <4>2
      <3>10. CASE Go(r, "realtimeDone")
        <4>1. c.row \in TokenType /\ c.row.gen <= issued[a]
          BY <1>1, <1>2, Fields DEF CallOK, RefsOK, StageOK
        <4>2. call' = [call EXCEPT ![r] = [c EXCEPT !.pc = "realtimeDone", !.row = c.row]]
          BY <1>2, <3>10, RowKept
        <4> QED
          BY <1>5, <3>7, <3>8, <4>1, <4>2
      <3> QED
        BY <2>1, <3>9, <3>10
    <2>2. ASSUME faults < MaxFaults, faults' = faults + 1, Go(r, "realtimeDone"), UNCHANGED <<heap, pool, store>>
          PROVE  Inv'
      <3>1. PoolInv' /\ Grown(heap, heap')
        BY <1>1, <1>2, <2>2, PoolSame, SameHeap DEF Inv
      <3>2. faults' \in 0..MaxFaults
        BY <1>4, <2>2
      <3>3. c.row \in TokenType /\ c.row.gen <= issued[a]
        BY <1>1, <1>2, Fields DEF CallOK, RefsOK, StageOK
      <3>4. call' = [call EXCEPT ![r] = [c EXCEPT !.pc = "realtimeDone", !.row = c.row]]
        BY <1>2, <2>2, RowKept
      <3> QED
        BY <1>5, <2>2, <3>1, <3>2, <3>3, <3>4
    <2> QED
      BY <2>1, <2>2 DEF RealtimeAnswered
  <1> DEFINE n == [c EXCEPT !.pc = "realtimeDone", !.row = w]
  <1>6. /\ "realtimeDone" \in CallPcs /\ "realtimeDone" \in MarkPcs
        /\ "realtimeDone" \notin Refreshing \cup Projecting \cup Renewed \cup Landed \cup Picked
        /\ c.pc \notin Refreshing \cup Projecting
    BY <1>1 DEF CallPcs, MarkPcs, Refreshing, Projecting, Renewed, Landed, Picked
  <1>7. n \in CallType /\ n.pc = "realtimeDone" /\ Moves(c, n) /\ n.latest = c.latest /\ n.row = w
    BY <1>2, <1>6 DEF CallType, Moves
  <1> HIDE DEF n
  <1>8. FreshOK(n, heap', issued', aged')
    BY <1>6, <1>7 DEF FreshOK
  <1>9. n.latest <= Len(heap'[a])
    BY <1>3, <1>5, <1>7
  <1>10. call' = [call EXCEPT ![r] = n]
    BY <1>5 DEF n
  <1>11. CallInv'
    BY <1>1, <1>5, <1>6, <1>7, <1>8, <1>9, <1>10, MovedOn
  <1>12. LockInv'
    BY <1>1, <1>6, <1>7, <1>10, LocksStay DEF Inv
  <1>13. LinkOK(req[r], n)
    BY <1>1, <1>2, <1>6, <1>7, LinkMarks
  <1>14. RestInv'
    BY <1>1, <1>5 DEF Inv, RestInv, limits
  <1> QED
    BY <1>5, <1>10, <1>11, <1>12, <1>13, <1>14, ServiceStep

LEMMA ScopedQuotaKeeps ==
  ASSUME Inv, NEW r \in Requests, UNCHANGED <<req, sends>>, ScopedQuota(r)
  PROVE  Inv'
  <1> DEFINE c == call[r]
             a == c.account
             o == c.obj
             n == [c EXCEPT !.pc = "project"]
  <1>1. /\ c.pc = "quota" /\ call' = [call EXCEPT ![r] = n]
        /\ UNCHANGED <<store, limits, bound, locks, fingerprint, noGo, changed, issued, aged, reloads>>
    BY DEF ScopedQuota, Go
  <1>2. /\ c \in CallType /\ CallOK(c, heap, issued, aged) /\ LinkOK(req[r], c) /\ heap \in HeapType
        /\ store \in [Accounts -> TokenType] /\ issued \in [Accounts -> 0..MaxIssued]
        /\ \A b \in Accounts : store[b].gen <= issued[b]
    BY CallFacts DEF Inv, PoolInv
  <1>3. /\ c.pc \in Picked /\ c.pc \in Renewed /\ "project" \in Picked /\ "project" \in Renewed
        /\ "project" \in CallPcs /\ "project" \notin Refreshing \cup Projecting /\ "project" \notin Landed
        /\ c.pc \notin Refreshing \cup Projecting
        /\ "project" \in GetNextPcs /\ c.pc \in GetNextPcs \ {"done"}
    BY <1>1 DEF CallPcs, Refreshing, Projecting, Renewed, Landed, Picked, GetNextPcs
  <1>4. a \in Accounts /\ o \in 1..Len(heap[a]) /\ c.latest \in 0..Len(heap[a]) /\ Len(heap[a]) \in Nat
    BY <1>2, <1>3, WorksOn, Elements
  <1>5. PoolInv' /\ Grown(heap, heap') /\ faults' \in 0..MaxFaults /\ Len(heap'[a]) = Len(heap[a])
    <2>1. CASE /\ \E reset \in Resets : heap' = [heap EXCEPT ![a][o].reset = reset]
               /\ pool' = [pool EXCEPT ![a] = o]
               /\ faults' = faults
      <3>1. PICK reset \in Resets : heap' = [heap EXCEPT ![a][o].reset = reset]
        BY <2>1
      <3> DEFINE t == [heap[a][o] EXCEPT !.reset = reset]
      <3>2. reset \in {"unknown", "none", "past", "future"} /\ heap[a][o] \in TokenType
        BY <1>2, <1>4, TokenAssumption, Elements
      <3>3. t \in TokenType /\ t.gen = heap[a][o].gen
        BY <3>2 DEF TokenType
      <3>4. heap' = Written(heap, a, o, t)
        BY <3>1 DEF Written
      <3> HIDE DEF t
      <3>5. store' \in [Accounts -> TokenType] /\ \A b \in Accounts : store'[b].gen <= issued[b]
        BY <1>1, <1>2
      <3>6. PoolInv' /\ Grown(heap, heap') /\ Len(heap'[a]) = Len(heap[a])
        BY <1>1, <1>4, <2>1, <3>3, <3>4, <3>5, SameGen, Labelled
      <3> QED
        BY <2>1, <3>6 DEF Inv, RestInv
    <2>2. CASE faults < MaxFaults /\ faults' = faults + 1 /\ UNCHANGED <<heap, pool>>
      <3>1. PoolInv' /\ Grown(heap, heap')
        BY <1>1, <1>2, <2>2, PoolSame, SameHeap DEF Inv
      <3> QED
        BY <2>2, <3>1, Bounds DEF Inv, RestInv
    <2> QED
      BY <2>1, <2>2 DEF ScopedQuota
  <1>6. n \in CallType /\ n.pc = "project" /\ Moves(c, n) /\ n.latest = c.latest /\ n.row = c.row /\ n.failed = c.failed
    BY <1>2, <1>3 DEF CallType, Moves
  <1> HIDE DEF n
  <1>7. CallOK(c, heap', issued', aged')
    BY <1>1, <1>5, StillOK
  <1>8. FreshOK(n, heap', issued', aged')
    BY <1>3, <1>6, <1>7 DEF CallOK, FreshOK, Moves
  <1>9. n.latest <= Len(heap'[a]) /\ n.row.gen <= issued[a]
    BY <1>2, <1>3, <1>4, <1>5, <1>6 DEF CallOK, RefsOK, StageOK
  <1>10. CallInv'
    BY <1>1, <1>3, <1>5, <1>6, <1>8, <1>9, MovedOn
  <1>11. LockInv'
    BY <1>1, <1>3, <1>6, LocksStay DEF Inv
  <1>12. LinkOK(req[r], n)
    BY <1>1, <1>2, <1>3, <1>6, LinkGoesOn DEF Moves
  <1>13. RestInv'
    BY <1>1, <1>5 DEF Inv, RestInv, limits
  <1> QED
    BY <1>1, <1>5, <1>10, <1>11, <1>12, <1>13, ServiceStep

----------------------------------------------------------------------------
(* Settling a lock *)

LEMMA AfterPcs ==
  ASSUME NEW q, NEW joined \in {"joined", "projectJoined"}
  PROVE  /\ After(q, joined) \in Renewed /\ After(q, joined) \in CallPcs /\ After(q, joined) \in GetNextPcs
         /\ After(q, joined) \notin Refreshing \cup Projecting \cup {"joined", "projectJoined", "wait", "done"}
  <1>1. After(q, joined) \in {"quota", "project", "finish"}
    BY DEF After, AfterRefresh
  <1> QED
    BY <1>1 DEF Renewed, CallPcs, GetNextPcs, Picked, Refreshing, Projecting

\* What Settle does to the calls: r and those that joined go on, and only the
\* mark of a failed refresh may change in the others.
Goes(q, r, joined) == q = r \/ (call[q].pc = joined /\ call[q].account = call[r].account)
Spoilt(q, r, spoilt) == call[q].failed \/ (call[q].account = call[r].account /\ call[q].obj \in spoilt)

LEMMA Settled ==
  ASSUME call \in [Requests -> CallType], NEW r \in Requests, NEW joined \in {"joined", "projectJoined"},
         NEW spoilt, Settle(r, joined, spoilt), NEW q \in Requests
  PROVE  /\ call'[q] \in CallType /\ Moves(call[q], call'[q])
         /\ call'[q].pc = IF Goes(q, r, joined) THEN After(q, joined) ELSE call[q].pc
         /\ call'[q].latest = IF q = r THEN 0 ELSE call[q].latest
         /\ call'[q].row = IF q = r THEN Blank ELSE call[q].row
         /\ call'[q].failed = Spoilt(q, r, spoilt)
         /\ ~Goes(q, r, joined) => call'[q] = [call[q] EXCEPT !.failed = Spoilt(q, r, spoilt)]
  <1> DEFINE f == Spoilt(q, r, spoilt)
             p == After(q, joined)
             c == call[q]
             d == [c EXCEPT !.failed = f]
  <1>1. f \in BOOLEAN /\ p \in CallPcs /\ c \in CallType
    BY AfterPcs DEF Spoilt, CallType
  <1>2. f = (c.failed \/ (c.account = call[r].account /\ c.obj \in spoilt))
    BY DEF Spoilt
  <1> HIDE DEF f, p
  <1>3. call'[q] = IF q = r THEN [d EXCEPT !.pc = p, !.latest = 0, !.row = Blank]
                   ELSE IF c.pc = joined /\ c.account = call[r].account THEN [d EXCEPT !.pc = p]
                   ELSE d
    BY <1>2 DEF Settle, p
  <1>4. d \in CallType /\ Moves(c, d) /\ d.pc = c.pc /\ d.latest = c.latest /\ d.row = c.row /\ d.failed = f
    BY <1>1 DEF CallType, Moves
  <1> DEFINE m == [d EXCEPT !.pc = p]
             n == [d EXCEPT !.pc = p, !.latest = 0, !.row = Blank]
  <1> HIDE DEF d
  <1>5. m \in CallType /\ Moves(c, m) /\ m.pc = p /\ m.latest = c.latest /\ m.row = c.row /\ m.failed = f
    BY <1>1, <1>4 DEF CallType, Moves
  <1>6. n \in CallType /\ Moves(c, n) /\ n.pc = p /\ n.latest = 0 /\ n.row = Blank /\ n.failed = f
    BY <1>1, <1>4, BlankTypes DEF CallType, Moves
  <1>7. call'[q] = IF q = r THEN n ELSE IF Goes(q, r, joined) THEN m ELSE d
    BY <1>3 DEF Goes
  <1>8. Goes(r, r, joined)
    BY DEF Goes
  <1> HIDE DEF m, n, c
  <1>9. /\ call'[q] \in CallType /\ Moves(c, call'[q])
        /\ call'[q].pc = IF Goes(q, r, joined) THEN p ELSE c.pc
        /\ call'[q].latest = IF q = r THEN 0 ELSE c.latest
        /\ call'[q].row = IF q = r THEN Blank ELSE c.row
        /\ call'[q].failed = f
        /\ ~Goes(q, r, joined) => call'[q] = d
    BY <1>4, <1>5, <1>6, <1>7, <1>8
  <1> QED
    BY <1>9 DEF c, d, f, p

\* The lock on the other lookup is not concerned.
LEMMA OtherLock ==
  ASSUME NEW lock, NEW busy, NEW joined, NEW c, LockOK(lock, c, busy, joined), NEW d,
         \A q \in Requests : /\ d[q].account = c[q].account
                             /\ d[q].pc \in busy <=> c[q].pc \in busy
                             /\ d[q].pc = joined => c[q].pc = joined
  PROVE  LockOK(lock, d, busy, joined)
  BY DEF LockOK

\* Only the mark of a failed refresh changes.
LEMMA LinkSpoilt ==
  ASSUME NEW q, NEW c \in CallType, LinkOK(q, c), NEW f \in BOOLEAN, c.failed => f,
         c.account = NoAccount => f = c.failed, NEW n, n = [c EXCEPT !.failed = f]
  PROVE  LinkOK(q, n)
  <1>1. /\ n.pc = c.pc /\ n.scope = c.scope /\ n.exclude = c.exclude /\ n.account = c.account
        /\ n.row = c.row /\ n.asOf = c.asOf /\ n.failed = f
    BY DEF CallType
  <1>2. f = c.failed => n = c
    BY DEF CallType
  <1>3. c = NoCall => n = NoCall
    BY <1>2, NoCallType
  <1>4. c.failed \in BOOLEAN
    BY Fields
  <1> HIDE DEF LinkOK
  <1>5. CASE q.pc \notin {"token", "marking"}
    BY <1>3, <1>5 DEF LinkOK
  <1>6. CASE q.pc = "marking"
    BY <1>1, <1>6 DEF LinkOK
  <1>7. CASE q.pc = "token"
    BY <1>1, <1>4, <1>7 DEF LinkOK, Choosable
  <1> QED
    BY <1>5, <1>6, <1>7

LEMMA SettleStep ==
  ASSUME Inv, NEW r \in Requests, UNCHANGED <<req, sends, issued, aged>>,
         NEW joined \in {"joined", "projectJoined"}, NEW spoilt, Settle(r, joined, spoilt),
         \/ /\ joined = "joined" /\ call[r].pc \in Refreshing
            /\ refreshLock' = [refreshLock EXCEPT ![call[r].account] = NoOne] /\ UNCHANGED projectLock
         \/ /\ joined = "projectJoined" /\ call[r].pc \in Projecting
            /\ projectLock' = [projectLock EXCEPT ![call[r].account] = NoOne] /\ UNCHANGED refreshLock,
         PoolInv', RestInv', \A a \in Accounts : Len(heap'[a]) = Len(heap[a]),
         \A q \in Requests : FreshOK(call'[q], heap', issued', aged')
  PROVE  Inv'
  <1>1. call[r].pc \in Picked /\ call[r].pc # joined
    BY Stages
  <1>2. /\ call \in [Requests -> CallType] /\ heap \in HeapType /\ issued \in [Accounts -> 0..MaxIssued]
        /\ call[r].account \in Accounts
    BY <1>1, CallFacts, WorksOn
  <1>3. ASSUME NEW q \in Requests
        PROVE  /\ call'[q] \in CallType /\ Moves(call[q], call'[q])
               /\ call'[q].pc = IF Goes(q, r, joined) THEN After(q, joined) ELSE call[q].pc
               /\ call'[q].latest = IF q = r THEN 0 ELSE call[q].latest
               /\ call'[q].row = IF q = r THEN Blank ELSE call[q].row
               /\ call'[q].failed = Spoilt(q, r, spoilt)
               /\ ~Goes(q, r, joined) => call'[q] = [call[q] EXCEPT !.failed = Spoilt(q, r, spoilt)]
    BY <1>2, Settled
  <1>4. call' \in [Requests -> CallType]
    <2>1. call' = [q \in Requests |-> call'[q]]
      BY DEF Settle
    <2> QED
      BY <1>3, <2>1
  <1>5. ASSUME NEW q \in Requests, Goes(q, r, joined)
        PROVE  call[q].pc \in Picked /\ call[q].account # NoAccount /\ call[q].obj # 0
    <2>1. call[q].pc \in Picked
      BY <1>1, <1>5 DEF Goes, Picked, Renewed
    <2>2. CallOK(call[q], heap, issued, aged)
      BY CallFacts
    <2> QED
      BY <2>1, <2>2 DEF CallOK, StageOK
  <1>6. CallInv'
    <2>1. ASSUME NEW q \in Requests PROVE CallOK(call'[q], heap', issued', aged')
      <3> DEFINE c == call[q]
                 n == call'[q]
      <3>1. CallOK(c, heap, issued, aged) /\ n \in CallType /\ Moves(c, n)
        BY <1>3, CallFacts
      <3>2. /\ n.pc = IF Goes(q, r, joined) THEN After(q, joined) ELSE c.pc
            /\ n.latest = IF q = r THEN 0 ELSE c.latest
            /\ n.row = IF q = r THEN Blank ELSE c.row
        BY <1>3
      <3>3. Goes(r, r, joined)
        BY DEF Goes
      <3>4. FreshOK(n, heap', issued', aged')
        OBVIOUS
      <3>5. WaitOK(c) /\ StageOK(c) /\ RefsOK(c, heap, issued, aged)
        BY <3>1 DEF CallOK
      <3> HIDE DEF n, c
      <3>6. WaitOK(n)
        BY <3>1, <3>5 DEF WaitOK, Moves, Choosable
      <3>7. StageOK(n)
        <4>1. CASE Goes(q, r, joined)
          <5>1. n.pc \in Renewed /\ n.pc \notin Refreshing \cup Projecting
            BY <3>2, <4>1, AfterPcs
          <5>2. n.account # NoAccount /\ n.obj # 0
            BY <1>5, <3>1, <4>1 DEF Moves, c
          <5> QED
            BY <5>1, <5>2 DEF StageOK, Renewed, Early
        <4>2. CASE ~Goes(q, r, joined)
          BY <3>1, <3>2, <3>3, <3>5, <4>2 DEF StageOK, Moves
        <4> QED
          BY <4>1, <4>2
      <3>8. RefsOK(n, heap', issued', aged')
        <4>1. n.account # NoAccount => n.account \in Accounts
          BY <3>1, Fields
        <4>2. n.account \in Accounts => Len(heap[n.account]) \in Nat /\ issued[n.account] \in 0..MaxIssued
          BY <1>2, Elements
        <4>3. n.account # NoAccount => n.latest <= Len(heap[n.account]) /\ n.row.gen <= issued[n.account]
          BY <3>1, <3>2, <3>5, <4>1, <4>2, BlankTypes, Bounds DEF RefsOK, Moves
        <4> QED
          BY <3>1, <3>5, <4>1, <4>3 DEF RefsOK, Moves
      <3> QED
        BY <3>1, <3>4, <3>6, <3>7, <3>8 DEF CallOK, n
    <2> QED
      BY <1>4, <2>1 DEF CallInv
  <1>7. LinkInv'
    <2> SUFFICES ASSUME NEW q \in Requests PROVE LinkOK(req[q], call'[q])
      BY DEF LinkInv
    <2>1. LinkOK(req[q], call[q]) /\ call[q] \in CallType
      BY CallFacts
    <2>2. CASE Goes(q, r, joined)
      <3>1. call'[q].pc \in GetNextPcs /\ call'[q].pc # "done"
        BY <1>3, <2>2, AfterPcs
      <3>2. call[q].pc \in GetNextPcs \ {"done"} /\ call[q].pc # "wait"
        BY <1>5, <2>2, Stages
      <3> QED
        BY <1>3, <2>1, <3>1, <3>2, LinkGoesOn DEF Moves
    <2>3. CASE ~Goes(q, r, joined)
      <3>1. call'[q] = [call[q] EXCEPT !.failed = Spoilt(q, r, spoilt)]
        BY <1>3, <2>3
      <3>2. Spoilt(q, r, spoilt) \in BOOLEAN /\ (call[q].failed => Spoilt(q, r, spoilt))
        BY <2>1, Fields DEF Spoilt
      <3>3. call[q].account = NoAccount => Spoilt(q, r, spoilt) = call[q].failed
        <4>1. call[r].account # NoAccount /\ call[q].failed \in BOOLEAN
          BY <1>2, <2>1, TokenAssumption, Fields
        <4> QED
          BY <4>1 DEF Spoilt
      <3> QED
        BY <2>1, <3>1, <3>2, <3>3, LinkSpoilt
    <2> QED
      BY <2>2, <2>3
  <1>8. LockInv'
    <2>1. ASSUME NEW q \in Requests
          PROVE  /\ call'[q].account = call[q].account
                 /\ call[q].pc \in {"joined", "projectJoined"} => call[q].account \in Accounts
                 /\ Goes(q, r, joined) => call'[q].pc \notin Refreshing \cup Projecting \cup {"joined", "projectJoined"}
                 /\ ~Goes(q, r, joined) => call'[q].pc = call[q].pc
      <3>1. call[q].pc \in {"joined", "projectJoined"} => call[q].account \in Accounts
        BY WorksOn DEF Picked, Renewed
      <3>2. /\ call'[q].account = call[q].account
            /\ call'[q].pc = IF Goes(q, r, joined) THEN After(q, joined) ELSE call[q].pc
        BY <1>3 DEF Moves
      <3>3. After(q, joined) \notin Refreshing \cup Projecting \cup {"joined", "projectJoined"}
        BY AfterPcs
      <3> QED
        BY <3>1, <3>2, <3>3
    <2>2. LockOK(refreshLock, call, Refreshing, "joined") /\ LockOK(projectLock, call, Projecting, "projectJoined")
      BY DEF Inv, LockInv
    <2>3. CASE joined = "joined"
      <3>1. LockOK(refreshLock', call', Refreshing, "joined")
        <4>1. /\ refreshLock' = [refreshLock EXCEPT ![call[r].account] = NoOne]
              /\ call[r].pc \in Refreshing /\ "joined" \notin Refreshing
          BY <2>3, Stages
        <4>2. \A q \in Requests \ {r} :
                \/ call'[q].pc = call[q].pc /\ (call[q].pc # "joined" \/ call[q].account # call[r].account)
                \/ call[q].pc = "joined" /\ call'[q].pc \notin Refreshing \cup {"joined"}
          BY <2>1, <2>3 DEF Goes
        <4>3. call'[r].pc \notin Refreshing \cup {"joined"}
          BY <2>1 DEF Goes
        <4> QED
          BY <1>2, <2>1, <2>2, <4>1, <4>2, <4>3, LockFreed
      <3>2. LockOK(projectLock, call', Projecting, "projectJoined")
        <4>1. \A q \in Requests : Goes(q, r, joined) => call[q].pc \notin Projecting
          BY <2>3, Stages DEF Goes
        <4>2. \A q \in Requests : /\ call'[q].account = call[q].account
                                  /\ call'[q].pc \in Projecting <=> call[q].pc \in Projecting
                                  /\ call'[q].pc = "projectJoined" => call[q].pc = "projectJoined"
          BY <2>1, <4>1
        <4> QED
          BY <2>2, <4>2, OtherLock
      <3>3. projectLock' = projectLock
        BY <2>3
      <3> QED
        BY <3>1, <3>2, <3>3 DEF LockInv
    <2>4. CASE joined = "projectJoined"
      <3>1. LockOK(projectLock', call', Projecting, "projectJoined")
        <4>1. /\ projectLock' = [projectLock EXCEPT ![call[r].account] = NoOne]
              /\ call[r].pc \in Projecting /\ "projectJoined" \notin Projecting
          BY <2>4, Stages
        <4>2. \A q \in Requests \ {r} :
                \/ call'[q].pc = call[q].pc /\ (call[q].pc # "projectJoined" \/ call[q].account # call[r].account)
                \/ call[q].pc = "projectJoined" /\ call'[q].pc \notin Projecting \cup {"projectJoined"}
          BY <2>1, <2>4 DEF Goes
        <4>3. call'[r].pc \notin Projecting \cup {"projectJoined"}
          BY <2>1 DEF Goes
        <4> QED
          BY <1>2, <2>1, <2>2, <4>1, <4>2, <4>3, LockFreed
      <3>2. LockOK(refreshLock, call', Refreshing, "joined")
        <4>1. \A q \in Requests : Goes(q, r, joined) => call[q].pc \notin Refreshing
          BY <2>4, Stages DEF Goes
        <4>2. \A q \in Requests : /\ call'[q].account = call[q].account
                                  /\ call'[q].pc \in Refreshing <=> call[q].pc \in Refreshing
                                  /\ call'[q].pc = "joined" => call[q].pc = "joined"
          BY <2>1, <4>1
        <4> QED
          BY <2>2, <4>2, OtherLock
      <3>3. refreshLock' = refreshLock
        BY <2>4
      <3> QED
        BY <3>1, <3>2, <3>3 DEF LockInv
    <2> QED
      BY <2>3, <2>4
  <1>9. HandlerInv'
    BY HandlersStay DEF Inv
  <1> QED
    BY <1>6, <1>7, <1>8, <1>9 DEF Inv

----------------------------------------------------------------------------
(* The project lookup *)

LEMMA StartProjectKeeps ==
  ASSUME Inv, NEW r \in Requests, UNCHANGED <<req, sends>>, StartProject(r)
  PROVE  Inv'
  <1> DEFINE c == call[r]
             a == c.account
             o == IF pool[a] # 0 THEN pool[a] ELSE c.obj
  <1>1. c.pc = "project" /\ UNCHANGED <<pool, store, limits, bound, refreshLock, fingerprint, noGo, changed, env>>
    BY DEF StartProject
  <1>2. /\ c \in CallType /\ CallOK(c, heap, issued, aged) /\ LinkOK(req[r], c) /\ heap \in HeapType
        /\ call \in [Requests -> CallType]
        /\ store \in [Accounts -> TokenType] /\ issued \in [Accounts -> 0..MaxIssued]
        /\ \A b \in Accounts : store[b].gen <= issued[b]
    BY CallFacts DEF Inv, PoolInv
  <1>3. /\ c.pc \in Picked /\ c.pc \in Renewed /\ c.pc \notin Refreshing \cup Projecting
        /\ c.pc \in GetNextPcs \ {"done"}
    BY <1>1 DEF Refreshing, Projecting, Renewed, Picked, GetNextPcs
  <1>4. /\ a \in Accounts /\ c.obj \in 1..Len(heap[a]) /\ c.latest \in 0..Len(heap[a]) /\ Len(heap[a]) \in Nat
    BY <1>2, <1>3, WorksOn, Elements
  <1>5. o \in 1..Len(heap[a]) /\ o \in Nat
    BY <1>4 DEF Inv, PoolInv
  <1>6. c.row.gen <= issued[a]
    BY <1>2, <1>3 DEF CallOK, RefsOK, StageOK
  <1>7. SUFFICES ASSUME NEW n \in CallType, call' = [call EXCEPT ![r] = n], Moves(c, n),
                        n.row = c.row, n.failed = c.failed, n.latest \in 0..Len(heap[a]),
                        n.pc \in {"finish", "projecting", "projectJoined"},
                        n.pc = "projecting" => n.latest # 0,
                        PoolInv', Grown(heap, heap'), Len(heap'[a]) = Len(heap[a]),
                        \/ n.pc = "finish" /\ UNCHANGED projectLock
                        \/ n.pc = "projectJoined" /\ projectLock[a] # NoOne /\ UNCHANGED projectLock
                        \/ n.pc = "projecting" /\ projectLock[a] = NoOne /\ projectLock' = [projectLock EXCEPT ![a] = r]
                 PROVE  Inv'
    <2>1. ASSUME NEW p \in {"finish", "projecting", "projectJoined"}, NEW l \in Nat
          PROVE  LET n == [c EXCEPT !.pc = p, !.latest = l] IN
                 n \in CallType /\ n.pc = p /\ Moves(c, n) /\ n.latest = l /\ n.row = c.row /\ n.failed = c.failed
      <3>1. p \in CallPcs
        BY DEF CallPcs
      <3> QED
        BY <1>2, <3>1 DEF CallType, Moves
    <2>2. \A p : [c EXCEPT !.pc = p] = [c EXCEPT !.pc = p, !.latest = c.latest]
      BY <1>2 DEF CallType
    <2>3. c.latest \in Nat /\ c.latest \in 0..Len(heap[a])
      BY <1>2, <1>4, Fields
    <2>4. ASSUME UNCHANGED heap PROVE PoolInv' /\ Grown(heap, heap')
      BY <1>1, <1>2, <2>4, PoolSame, SameHeap DEF Inv, env
    <2>5. CASE /\ heap' = [heap EXCEPT ![a][c.obj].project = TRUE]
               /\ Go(r, "finish") /\ UNCHANGED projectLock
      <3> DEFINE t == [heap[a][c.obj] EXCEPT !.project = TRUE]
                 n == [c EXCEPT !.pc = "finish", !.latest = c.latest]
      <3>1. heap[a][c.obj] \in TokenType
        BY <1>2, <1>4, Elements
      <3>2. t \in TokenType /\ t.gen = heap[a][c.obj].gen
        BY <3>1 DEF TokenType
      <3>3. heap' = Written(heap, a, c.obj, t)
        BY <2>5 DEF Written
      <3> HIDE DEF t
      <3>4. store' \in [Accounts -> TokenType] /\ (\A b \in Accounts : store'[b].gen <= issued[b]) /\ pool' = pool
        BY <1>1, <1>2
      <3>5. PoolInv' /\ Grown(heap, heap') /\ Len(heap'[a]) = Len(heap[a])
        BY <1>1, <1>4, <3>2, <3>3, <3>4, SameGen, Labelled DEF env
      <3>6. call' = [call EXCEPT ![r] = n]
        BY <2>2, <2>5 DEF Go
      <3>7. n \in CallType /\ n.pc = "finish" /\ Moves(c, n) /\ n.latest = c.latest /\ n.row = c.row /\ n.failed = c.failed
        BY <2>1, <2>3
      <3> HIDE DEF n
      <3> QED
        BY <1>7, <2>3, <2>5, <3>5, <3>6, <3>7
    <2>6. CASE projectLock[a] # NoOne /\ Go(r, "projectJoined") /\ UNCHANGED <<heap, projectLock>>
      <3> DEFINE n == [c EXCEPT !.pc = "projectJoined", !.latest = c.latest]
      <3>1. call' = [call EXCEPT ![r] = n]
        BY <2>2, <2>6 DEF Go
      <3>2. n \in CallType /\ n.pc = "projectJoined" /\ Moves(c, n) /\ n.latest = c.latest /\ n.row = c.row /\ n.failed = c.failed
        BY <2>1, <2>3
      <3> HIDE DEF n
      <3> QED
        BY <1>7, <2>3, <2>4, <2>6, <3>1, <3>2
    <2>7. CASE /\ projectLock[a] = NoOne /\ projectLock' = Take(projectLock, a, r)
               /\ call' = [call EXCEPT ![r].pc = "projecting", ![r].latest = o]
               /\ UNCHANGED heap
      <3> DEFINE n == [c EXCEPT !.pc = "projecting", !.latest = o]
      <3>1. call' = [call EXCEPT ![r] = n]
        BY <2>7
      <3>2. n \in CallType /\ n.pc = "projecting" /\ Moves(c, n) /\ n.latest = o /\ n.row = c.row /\ n.failed = c.failed
        BY <1>5, <2>1
      <3>3. projectLock' = [projectLock EXCEPT ![a] = r] /\ o # 0 /\ o \in 0..Len(heap[a])
        BY <1>4, <1>5, <2>7 DEF Take
      <3> HIDE DEF n, o
      <3> QED
        BY <1>7, <2>4, <2>7, <3>1, <3>2, <3>3
    <2> QED
      BY <2>5, <2>6, <2>7 DEF StartProject
  <1>8. /\ n.pc \in Picked /\ n.pc \in Renewed /\ n.pc \notin Landed /\ n.pc \notin Refreshing
        /\ (n.pc \in Projecting <=> n.pc = "projecting") /\ n.pc \in GetNextPcs /\ n.pc # "joined"
    BY <1>7 DEF Refreshing, Projecting, Renewed, Picked, GetNextPcs, Landed
  <1>9. CallOK(c, heap', issued', aged')
    BY <1>1, <1>7, StillOK DEF env
  <1>10. FreshOK(n, heap', issued', aged')
    BY <1>3, <1>7, <1>8, <1>9 DEF CallOK, FreshOK, Moves
  <1>11. CallInv'
    <2>1. n.latest <= Len(heap'[a]) /\ n.row.gen <= issued[a]
      BY <1>4, <1>6, <1>7
    <2>2. n.pc \in Refreshing \cup Projecting => n.latest # 0
      BY <1>7, <1>8
    <2> QED
      BY <1>1, <1>3, <1>7, <1>8, <1>10, <2>1, <2>2, MovedOn DEF env
  <1>12. LockInv'
    <2>1. LockOK(refreshLock, call, Refreshing, "joined") /\ LockOK(projectLock, call, Projecting, "projectJoined")
      BY DEF Inv, LockInv
    <2>2. LockOK(refreshLock, call', Refreshing, "joined")
      BY <1>2, <1>3, <1>7, <1>8, <2>1, LockStays
    <2>3. LockOK(projectLock', call', Projecting, "projectJoined")
      <3>1. CASE n.pc # "projecting"
        BY <1>2, <1>3, <1>7, <1>8, <2>1, <3>1, LockStays DEF Moves
      <3>2. CASE n.pc = "projecting"
        <4>1. /\ projectLock[c.account] = NoOne /\ projectLock' = [projectLock EXCEPT ![c.account] = r]
              /\ n.account = c.account /\ n.pc \in Projecting /\ c.pc \notin Projecting
              /\ "projectJoined" \notin Projecting
          BY <1>3, <1>7, <1>8, <3>2, Stages DEF Moves
        <4> QED
          BY <1>2, <1>4, <1>7, <2>1, <4>1, LockTaken
      <3> QED
        BY <3>1, <3>2
    <2>4. refreshLock' = refreshLock
      BY <1>1
    <2> QED
      BY <2>2, <2>3, <2>4 DEF LockInv
  <1>13. LinkOK(req[r], n)
    BY <1>1, <1>2, <1>3, <1>7, <1>8, LinkGoesOn DEF Moves
  <1>14. RestInv'
    BY <1>1 DEF Inv, RestInv, limits, env
  <1> QED
    BY <1>7, <1>11, <1>12, <1>13, <1>14, ServiceStep

\* The store after the UPDATE, or without it.
LEMMA RowSaved ==
  ASSUME Inv, NEW r \in Requests, call[r].account \in Accounts, SaveRow(r)
  PROVE  /\ store' \in [Accounts -> TokenType] /\ \A a \in Accounts : store'[a].gen <= issued[a]
         /\ faults' \in 0..MaxFaults
  <1> DEFINE c == call[r]
             a == c.account
             t == Token(c.row.gen, c.row.project, store[a].reset)
  <1>1. c \in CallType /\ CallOK(c, heap, issued, aged) /\ store \in [Accounts -> TokenType]
    BY CallFacts
  <1>2. c.row \in TokenType /\ c.row.gen <= issued[a] /\ store[a] \in TokenType
    BY <1>1, TokenAssumption, Fields DEF CallOK, RefsOK
  <1>3. t \in TokenType /\ t.gen <= issued[a]
    BY <1>2 DEF TokenType, Token
  <1>4. faults' \in 0..MaxFaults
    BY Bounds DEF SaveRow, Inv, RestInv
  <1>5. store' \in {store, [store EXCEPT ![a] = t]}
    BY DEF SaveRow
  <1>6. \A b \in Accounts : store[b].gen <= issued[b]
    BY DEF Inv, PoolInv
  <1> HIDE DEF t
  <1> QED
    BY <1>1, <1>3, <1>4, <1>5, <1>6

\* Freshness of the calls after a lock on the project lookup is settled.
LEMMA ProjectSettled ==
  ASSUME Inv, NEW r \in Requests, UNCHANGED <<issued, aged>>, PoolInv', Grown(heap, heap'),
         call[r].pc \in Projecting, NEW joined, joined = "projectJoined", NEW spoilt, spoilt = {},
         Settle(r, joined, spoilt), NEW q \in Requests
  PROVE  FreshOK(call'[q], heap', issued', aged')
  <1>1. call \in [Requests -> CallType]
    BY CallFacts
  <1>2. /\ Moves(call[q], call'[q])
        /\ call'[q].pc = IF Goes(q, r, joined) THEN After(q, joined) ELSE call[q].pc
        /\ call'[q].latest = IF q = r THEN 0 ELSE call[q].latest
        /\ call'[q].failed = Spoilt(q, r, spoilt)
    <2>1. joined \in {"joined", "projectJoined"}
      OBVIOUS
    <2>2. /\ call'[q] \in CallType /\ Moves(call[q], call'[q])
          /\ call'[q].pc = IF Goes(q, r, joined) THEN After(q, joined) ELSE call[q].pc
          /\ call'[q].latest = IF q = r THEN 0 ELSE call[q].latest
          /\ call'[q].row = IF q = r THEN Blank ELSE call[q].row
          /\ call'[q].failed = Spoilt(q, r, spoilt)
          /\ ~Goes(q, r, joined) => call'[q] = [call[q] EXCEPT !.failed = Spoilt(q, r, spoilt)]
      BY <1>1, <2>1, Settled
    <2> QED
      BY <2>2
  <1>3. CallOK(call[q], heap', issued', aged')
    BY StillOK
  <1>4. call'[q].failed = call[q].failed
    BY <1>1, <1>2, Fields DEF Spoilt
  <1>5. Goes(q, r, joined) => call[q].pc \in Renewed
    BY DEF Goes, Renewed, Projecting
  <1>6. After(q, joined) \notin Landed
    BY AfterPcs, Stages
  <1>7. call'[q].pc \in Renewed => call[q].pc \in Renewed
    BY <1>2, <1>5
  <1>8. call'[q].pc \in Landed => call[q].pc \in Landed /\ q # r
    BY <1>2, <1>6 DEF Goes
  <1>9. call'[q].pc \in Landed => call'[q].latest = call[q].latest
    BY <1>2, <1>8
  <1> QED
    BY <1>2, <1>3, <1>4, <1>7, <1>8, <1>9 DEF CallOK, FreshOK, Moves

LEMMA ProjectAnsweredKeeps ==
  ASSUME Inv, NEW r \in Requests, UNCHANGED <<req, sends>>, ProjectAnswered(r)
  PROVE  Inv'
  <1> DEFINE c == call[r]
             a == c.account
  <1>1. /\ c.pc = "projecting"
        /\ UNCHANGED <<pool, store, limits, bound, refreshLock, fingerprint, noGo, changed, issued, aged, reloads>>
    BY DEF ProjectAnswered
  <1>2. /\ c \in CallType /\ CallOK(c, heap, issued, aged) /\ LinkOK(req[r], c) /\ heap \in HeapType
        /\ call \in [Requests -> CallType] /\ pool \in [Accounts -> Nat]
        /\ store \in [Accounts -> TokenType] /\ issued \in [Accounts -> 0..MaxIssued]
        /\ \A b \in Accounts : store[b].gen <= issued[b]
    BY CallFacts DEF Inv, PoolInv
  <1>3. /\ c.pc \in Picked /\ c.pc \in Renewed /\ c.pc \in Projecting /\ c.pc \notin Refreshing
        /\ c.pc \in GetNextPcs \ {"done"}
    BY <1>1 DEF Refreshing, Projecting, Renewed, Picked, GetNextPcs
  <1>4. /\ a \in Accounts /\ c.obj \in 1..Len(heap[a]) /\ c.latest \in 1..Len(heap[a]) /\ Len(heap[a]) \in Nat
    BY <1>2, <1>3, WorksOn, Elements
  <1>5. CASE /\ heap' = [heap EXCEPT ![a][c.latest].project = TRUE, ![a][c.obj].project = TRUE]
             /\ call' = [call EXCEPT ![r].pc = "projectMerge", ![r].row = store[a]]
             /\ UNCHANGED <<projectLock, faults>>
    <2> DEFINE t == [heap[a][c.latest] EXCEPT !.project = TRUE]
               h == Written(heap, a, c.latest, t)
               u == [h[a][c.obj] EXCEPT !.project = TRUE]
               n == [c EXCEPT !.pc = "projectMerge", !.row = store[a]]
    <2>1. heap[a][c.latest] \in TokenType
      BY <1>2, <1>4, Elements
    <2>2. t \in TokenType /\ t.gen = heap[a][c.latest].gen
      BY <2>1 DEF TokenType
    <2>3. heap' = Written(h, a, c.obj, u)
      BY <1>5 DEF Written
    <2>4. call' = [call EXCEPT ![r] = n]
      BY <1>5
    <2> HIDE DEF t
    <2>5. /\ h \in HeapType /\ \A b \in Accounts : Len(h[b]) = Len(heap[b])
          /\ \A b \in Accounts : \A j \in 1..Len(heap[b]) :
               h[b][j] = IF b = a /\ j = c.latest THEN t ELSE heap[b][j]
      <3> DEFINE l == c.latest
                 k == h
      <3>1. heap \in HeapType /\ a \in Accounts /\ l \in 1..Len(heap[a]) /\ t \in TokenType
        BY <1>2, <1>4, <2>2
      <3>2. k = Written(heap, a, l, t)
        OBVIOUS
      <3> HIDE DEF a, l, k, h, c, u, n
      <3>3. WroteAt(k, heap, a, l, t)
        BY <3>1, <3>2, HeapWrote
      <3> QED
        BY <3>3 DEF WroteAt, k, l
    <2> HIDE DEF h
    <2>6. c.obj \in 1..Len(h[a]) /\ h[a][c.obj] \in TokenType
      BY <1>4, <2>5, Elements
    <2>7. u \in TokenType /\ u.gen = h[a][c.obj].gen
      BY <2>6 DEF TokenType
    <2> HIDE DEF u
    <2>8. /\ heap' \in HeapType /\ \A b \in Accounts : Len(heap'[b]) = Len(h[b])
          /\ \A b \in Accounts : \A j \in 1..Len(h[b]) :
               heap'[b][j] = IF b = a /\ j = c.obj THEN u ELSE h[b][j]
      <3> DEFINE o == c.obj
                 k == heap'
      <3>1. h \in HeapType /\ a \in Accounts /\ o \in 1..Len(h[a]) /\ u \in TokenType
        BY <1>4, <2>5, <2>6, <2>7
      <3>2. k = Written(h, a, o, u)
        BY <2>3
      <3> HIDE DEF a, o, k, c, n
      <3>3. WroteAt(k, h, a, o, u)
        BY <3>1, <3>2, HeapWrote
      <3> QED
        BY <3>3 DEF WroteAt, k, o
    <2>9. /\ \A b \in Accounts : Len(heap'[b]) = Len(heap[b])
          /\ \A b \in Accounts : \A j \in 1..Len(heap[b]) : heap'[b][j].gen = heap[b][j].gen
      <3>1. ASSUME NEW b \in Accounts PROVE Len(h[b]) = Len(heap[b]) /\ Len(heap'[b]) = Len(heap[b])
        BY <2>5, <2>8
      <3>2. ASSUME NEW b \in Accounts, NEW j \in 1..Len(heap[b]) PROVE heap'[b][j].gen = heap[b][j].gen
        <4>1. h[b][j] = IF b = a /\ j = c.latest THEN t ELSE heap[b][j]
          BY <2>5
        <4>2. h[b][j].gen = heap[b][j].gen
          BY <2>2, <4>1
        <4>3. j \in 1..Len(h[b])
          BY <3>1
        <4>4. heap'[b][j] = IF b = a /\ j = c.obj THEN u ELSE h[b][j]
          BY <2>8, <4>3
        <4>5. heap'[b][j].gen = h[b][j].gen
          BY <2>7, <4>4
        <4> QED
          BY <4>2, <4>5
      <3> QED
        BY <3>1, <3>2
    <2>10. PoolInv' /\ Grown(heap, heap')
      <3>1. /\ store' \in [Accounts -> TokenType] /\ \A b \in Accounts : store'[b].gen <= issued[b]
            /\ pool' \in [Accounts -> Nat] /\ \A b \in Accounts : pool'[b] \in {pool[b]} \cup 1..Len(heap[b])
        BY <1>1, <1>2
      <3> QED
        BY <1>1, <2>8, <2>9, <3>1, Relabelled DEF Inv
    <2>11. "projectMerge" \in CallPcs /\ store[a] \in TokenType
      BY <1>2, <1>4 DEF CallPcs
    <2>12. /\ n \in CallType /\ n.pc = "projectMerge" /\ Moves(c, n)
           /\ n.latest = c.latest /\ n.row = store[a] /\ n.failed = c.failed
      BY <1>2, <2>11 DEF CallType, Moves
    <2> HIDE DEF n
    <2>13. /\ n.pc \in Picked /\ n.pc \in Renewed /\ n.pc \in Projecting /\ n.pc \notin Refreshing
           /\ n.pc \notin Landed /\ n.pc \in GetNextPcs /\ n.pc \notin {"joined", "projectJoined", "done", "wait"}
      BY <2>12 DEF Refreshing, Projecting, Renewed, Picked, GetNextPcs, Landed
    <2>14. CallOK(c, heap', issued', aged')
      BY <1>1, <2>10, StillOK
    <2>15. FreshOK(n, heap', issued', aged')
      BY <1>3, <2>12, <2>13, <2>14 DEF CallOK, FreshOK, Moves
    <2>16. n.latest <= Len(heap'[a]) /\ n.latest # 0 /\ n.row.gen <= issued[a]
      BY <1>2, <1>4, <2>9, <2>12
    <2>17. CallInv'
      BY <1>1, <1>3, <2>4, <2>10, <2>12, <2>13, <2>15, <2>16, MovedOn
    <2>18. LockInv'
      BY <1>1, <1>3, <1>5, <2>4, <2>12, <2>13, LocksStay DEF Inv, locks, Moves
    <2>19. LinkOK(req[r], n)
      BY <1>1, <1>2, <1>3, <2>12, <2>13, LinkGoesOn DEF Moves
    <2>20. RestInv'
      BY <1>1, <1>5 DEF Inv, RestInv, limits
    <2> QED
      BY <2>4, <2>10, <2>17, <2>18, <2>19, <2>20, ServiceStep
  <1>6. CASE /\ faults < MaxFaults /\ faults' = faults + 1
             /\ projectLock' = [projectLock EXCEPT ![a] = NoOne]
             /\ Settle(r, "projectJoined", {})
             /\ UNCHANGED heap
    <2>1. PoolInv' /\ Grown(heap, heap')
      BY <1>1, <1>2, <1>6, PoolSame, SameHeap DEF Inv
    <2>2. faults' \in 0..MaxFaults
      BY <1>6, Bounds DEF Inv, RestInv
    <2>3. RestInv'
      BY <1>1, <2>2 DEF Inv, RestInv, limits
    <2>4. \A q \in Requests : FreshOK(call'[q], heap', issued', aged')
      BY <1>1, <1>3, <1>6, <2>1, ProjectSettled
    <2>5. \A b \in Accounts : Len(heap'[b]) = Len(heap[b])
      BY <1>6
    <2> QED
      BY <1>1, <1>3, <1>6, <2>1, <2>3, <2>4, <2>5, SettleStep
  <1> QED
    BY <1>5, <1>6 DEF ProjectAnswered

LEMMA ProjectSavedKeeps ==
  ASSUME Inv, NEW r \in Requests, UNCHANGED <<req, sends>>, ProjectSaved(r)
  PROVE  Inv'
  <1> DEFINE c == call[r]
             a == c.account
             W == Waiting("projectJoined", a)
             new == [o \in DOMAIN heap[a] |-> IF o \in W THEN [heap[a][o] EXCEPT !.project = TRUE] ELSE heap[a][o]]
  <1>1. /\ c.pc = "projectWrite" /\ SaveRow(r)
        /\ pool' = [pool EXCEPT ![a] = c.latest]
        /\ projectLock' = [projectLock EXCEPT ![a] = NoOne]
        /\ heap' = Rewritten(heap, a, new)
        /\ Settle(r, "projectJoined", {})
        /\ UNCHANGED <<limits, bound, refreshLock, fingerprint, noGo, changed, issued, aged, reloads>>
    BY DEF ProjectSaved, Rewritten
  <1>2. heap \in HeapType /\ pool \in [Accounts -> Nat] /\ heap \in [Accounts -> Seq(TokenType)]
    BY CallFacts DEF HeapType
  <1>3. /\ c.pc \in Picked /\ c.pc \in Projecting
    BY <1>1 DEF Projecting, Renewed, Picked
  <1>4. /\ a \in Accounts /\ c.latest \in 1..Len(heap[a]) /\ Len(heap[a]) \in Nat /\ DOMAIN heap[a] = 1..Len(heap[a])
    BY <1>2, <1>3, WorksOn, Elements, LenProperties
  <1>5. \A o \in 1..Len(heap[a]) : heap[a][o] \in TokenType
    BY <1>2, <1>4, Elements
  <1> HIDE DEF W
  <1>6. new \in [1..Len(heap[a]) -> TokenType] /\ \A o \in 1..Len(heap[a]) : new[o].gen = heap[a][o].gen
    BY <1>4, <1>5 DEF TokenType
  <1> HIDE DEF new
  <1>7. /\ heap' \in HeapType
        /\ \A b \in Accounts : Len(heap'[b]) = Len(heap[b])
        /\ \A b \in Accounts : \A j \in 1..Len(heap[b]) : heap'[b][j] = IF b = a THEN new[j] ELSE heap[b][j]
    <2>1. heap' = Rewritten(heap, a, new)
      BY <1>1
    <2> HIDE DEF a
    <2> QED
      BY <1>2, <1>4, <1>6, <2>1, HeapMap
  <1>8. \A b \in Accounts : \A j \in 1..Len(heap[b]) : heap'[b][j].gen = heap[b][j].gen
    BY <1>6, <1>7
  <1>9. /\ store' \in [Accounts -> TokenType] /\ \A b \in Accounts : store'[b].gen <= issued[b]
        /\ faults' \in 0..MaxFaults
    BY <1>1, <1>4, RowSaved
  <1>10. pool' \in [Accounts -> Nat] /\ \A b \in Accounts : pool'[b] \in {pool[b]} \cup 1..Len(heap[b])
    BY <1>1, <1>2, <1>4
  <1>11. PoolInv' /\ Grown(heap, heap')
    BY <1>1, <1>7, <1>8, <1>9, <1>10, Relabelled DEF Inv
  <1>12. RestInv'
    BY <1>1, <1>9 DEF Inv, RestInv, limits
  <1>13. \A q \in Requests : FreshOK(call'[q], heap', issued', aged')
    BY <1>1, <1>3, <1>11, ProjectSettled
  <1> QED
    BY <1>1, <1>3, <1>7, <1>11, <1>12, <1>13, SettleStep

----------------------------------------------------------------------------
(* The refresh *)

LEMMA AfterRefreshPcs ==
  ASSUME NEW a, NEW t
  PROVE  /\ AfterRefresh(a, t) \in {"quota", "project"}
         /\ AfterRefresh(a, t) \in CallPcs /\ AfterRefresh(a, t) \in Renewed
  BY DEF AfterRefresh, CallPcs, Renewed

LEMMA StartRefreshKeeps ==
  ASSUME Inv, NEW r \in Requests, UNCHANGED <<req, sends>>, StartRefresh(r)
  PROVE  Inv'
  <1> DEFINE c == call[r]
             a == c.account
             o == IF pool[a] # 0 THEN pool[a] ELSE c.obj
  <1>1. c.pc = "refresh" /\ UNCHANGED <<pool, store, limits, bound, projectLock, fingerprint, noGo, changed, env>>
    BY DEF StartRefresh
  <1>2. /\ c \in CallType /\ CallOK(c, heap, issued, aged) /\ LinkOK(req[r], c) /\ heap \in HeapType
        /\ call \in [Requests -> CallType]
        /\ store \in [Accounts -> TokenType] /\ issued \in [Accounts -> 0..MaxIssued]
        /\ \A b \in Accounts : store[b].gen <= issued[b]
    BY CallFacts DEF Inv, PoolInv
  <1>3. /\ c.pc \in Picked /\ c.pc \notin Refreshing \cup Projecting /\ c.pc \in GetNextPcs \ {"done"}
    BY <1>1 DEF Refreshing, Projecting, Renewed, Picked, GetNextPcs
  <1>4. /\ a \in Accounts /\ c.obj \in 1..Len(heap[a]) /\ c.latest \in 0..Len(heap[a]) /\ Len(heap[a]) \in Nat
        /\ c.latest \in Nat
    BY <1>2, <1>3, WorksOn, Elements
  <1>5. o \in 1..Len(heap[a]) /\ o \in Nat
    BY <1>4 DEF Inv, PoolInv
  <1>6. c.row.gen <= issued[a]
    BY <1>2, <1>3 DEF CallOK, RefsOK, StageOK
  <1>7. /\ c.asOf[a] \in Int /\ heap[a][c.obj] \in TokenType /\ heap[a][o] \in TokenType
        /\ heap[a][c.obj].gen \in Int /\ heap[a][o].gen \in Int
        /\ heap[a][o].gen <= issued[a] /\ heap[a][c.obj].gen <= issued[a]
    <2>1. heap[a][c.obj] \in TokenType /\ heap[a][o] \in TokenType
      BY <1>2, <1>4, <1>5, Elements
    <2>2. heap[a][o].gen <= issued[a] /\ heap[a][c.obj].gen <= issued[a]
      BY <1>4, <1>5 DEF Inv, PoolInv
    <2>3. c.asOf \in Clock
      BY <1>2, Fields
    <2> QED
      BY <1>4, <2>1, <2>2, <2>3, Clocks
  <1>8. \/ ~Near(a, c.obj, c.asOf) /\ heap[a][c.obj].gen > c.asOf[a]
        \/ Near(a, c.obj, c.asOf) /\ heap[a][c.obj].gen <= c.asOf[a]
    BY <1>7 DEF Near, Obj
  <1>9. pool[a] # 0 /\ ~Near(a, pool[a], c.asOf) => o = pool[a] /\ heap[a][o].gen > c.asOf[a]
    BY <1>7 DEF Near, Obj
  <1>10. SUFFICES ASSUME NEW n \in CallType, call' = [call EXCEPT ![r] = n], Moves(c, n),
                        n.row = c.row, n.failed = c.failed, n.latest \in 0..Len(heap[a]),
                        n.pc \in {"quota", "project", "joined", "refreshing"},
                        n.pc = "refreshing" => n.latest # 0,
                        PoolInv', Grown(heap, heap'), Len(heap'[a]) = Len(heap[a]),
                        \/ n.pc \in {"quota", "project"} /\ heap'[a][c.obj].gen > c.asOf[a] /\ UNCHANGED refreshLock
                        \/ n.pc = "joined" /\ refreshLock[a] # NoOne /\ UNCHANGED refreshLock
                        \/ n.pc = "refreshing" /\ refreshLock[a] = NoOne /\ refreshLock' = [refreshLock EXCEPT ![a] = r]
                 PROVE  Inv'
    <2>1. ASSUME NEW p \in {"quota", "project", "joined", "refreshing"}, NEW l \in Nat
          PROVE  LET n == [c EXCEPT !.pc = p, !.latest = l] IN
                 n \in CallType /\ n.pc = p /\ Moves(c, n) /\ n.latest = l /\ n.row = c.row /\ n.failed = c.failed
      <3>1. p \in CallPcs
        BY DEF CallPcs
      <3> QED
        BY <1>2, <3>1 DEF CallType, Moves
    <2>2. \A p : [c EXCEPT !.pc = p] = [c EXCEPT !.pc = p, !.latest = c.latest]
      BY <1>2 DEF CallType
    <2>3. ASSUME UNCHANGED heap PROVE PoolInv' /\ Grown(heap, heap')
      BY <1>1, <1>2, <2>3, PoolSame, SameHeap DEF Inv, env
    <2>4. CASE /\ ~Near(a, c.obj, c.asOf)
               /\ Go(r, AfterRefresh(a, Obj(a, c.obj)))
               /\ UNCHANGED <<heap, refreshLock>>
      <3> DEFINE p == AfterRefresh(a, Obj(a, c.obj))
                 n == [c EXCEPT !.pc = p, !.latest = c.latest]
      <3>1. call' = [call EXCEPT ![r] = n]
        BY <2>2, <2>4 DEF Go
      <3>2. p \in {"quota", "project"} /\ p \in CallPcs
        BY AfterRefreshPcs
      <3> HIDE DEF p
      <3>3. n \in CallType /\ n.pc = p /\ Moves(c, n) /\ n.latest = c.latest /\ n.row = c.row /\ n.failed = c.failed
        BY <1>2, <1>4, <3>2 DEF CallType, Moves
      <3> HIDE DEF n
      <3> QED
        <4>1. /\ heap'[a][c.obj].gen > c.asOf[a] /\ PoolInv' /\ Grown(heap, heap')
              /\ Len(heap'[a]) = Len(heap[a]) /\ UNCHANGED refreshLock
          BY <1>8, <2>3, <2>4
        <4>2. n.latest \in 0..Len(heap[a]) /\ n.pc \in {"quota", "project"} /\ n.pc # "refreshing"
          BY <1>4, <3>2, <3>3
        <4> QED
          BY <1>10, <3>1, <3>3, <4>1, <4>2
    <2>5. CASE refreshLock[a] # NoOne /\ Go(r, "joined") /\ UNCHANGED <<heap, refreshLock>>
      <3> DEFINE n == [c EXCEPT !.pc = "joined", !.latest = c.latest]
      <3>1. call' = [call EXCEPT ![r] = n]
        BY <2>2, <2>5 DEF Go
      <3>2. n \in CallType /\ n.pc = "joined" /\ Moves(c, n) /\ n.latest = c.latest /\ n.row = c.row /\ n.failed = c.failed
        BY <1>4, <2>1
      <3> HIDE DEF n
      <3> QED
        BY <1>4, <1>10, <2>3, <2>5, <3>1, <3>2
    <2>6. CASE /\ Near(a, c.obj, c.asOf)
               /\ pool[a] # 0 /\ ~Near(a, pool[a], c.asOf)
               /\ heap' = [heap EXCEPT ![a][c.obj] = Obj(a, pool[a])]
               /\ Go(r, AfterRefresh(a, Obj(a, pool[a])))
               /\ UNCHANGED refreshLock
      <3> DEFINE p == AfterRefresh(a, Obj(a, pool[a]))
                 t == heap[a][o]
                 n == [c EXCEPT !.pc = p, !.latest = c.latest]
      <3>1. call' = [call EXCEPT ![r] = n]
        BY <2>2, <2>6 DEF Go
      <3>2. p \in {"quota", "project"} /\ p \in CallPcs
        BY AfterRefreshPcs
      <3> HIDE DEF p
      <3>3. n \in CallType /\ n.pc = p /\ Moves(c, n) /\ n.latest = c.latest /\ n.row = c.row /\ n.failed = c.failed
        BY <1>2, <1>4, <3>2 DEF CallType, Moves
      <3> HIDE DEF n
      <3>4. o = pool[a] /\ t.gen > c.asOf[a] /\ heap[a][c.obj].gen <= c.asOf[a]
        BY <1>8, <1>9, <2>6
      <3>5. heap' = Written(heap, a, c.obj, t)
        <4>1. Obj(a, pool[a]) = t
          BY <3>4 DEF Obj
        <4>2. heap' = [heap EXCEPT ![a] = [heap[a] EXCEPT ![c.obj] = Obj(a, pool[a])]]
          BY <2>6
        <4> HIDE DEF t
        <4> QED
          BY <4>1, <4>2 DEF Written
      <3>6. t \in TokenType /\ heap[a][c.obj].gen <= t.gen /\ t.gen <= issued[a]
        <4>1. t \in TokenType /\ t.gen \in Int /\ t.gen <= issued[a]
          BY <1>7
        <4> HIDE DEF t, o
        <4> QED
          BY <1>7, <3>4, <4>1
      <3>7. store' \in [Accounts -> TokenType] /\ (\A b \in Accounts : store'[b].gen <= issued[b]) /\ pool' = pool
        BY <1>1, <1>2
      <3>8. UNCHANGED <<issued, aged>>
        BY <1>1 DEF env
      <3> HIDE DEF t
      <3>9. PoolInv' /\ Grown(heap, heap') /\ heap'[a][c.obj] = t /\ Len(heap'[a]) = Len(heap[a])
        BY <1>4, <3>5, <3>6, <3>7, <3>8, Labelled
      <3> QED
        <4>1. heap'[a][c.obj].gen > c.asOf[a] /\ UNCHANGED refreshLock
          BY <2>6, <3>4, <3>9
        <4>2. n.latest \in 0..Len(heap[a]) /\ n.pc \in {"quota", "project"} /\ n.pc # "refreshing"
          BY <1>4, <3>2, <3>3
        <4> QED
          BY <1>10, <3>1, <3>3, <3>9, <4>1, <4>2
    <2>7. CASE /\ refreshLock[a] = NoOne /\ refreshLock' = Take(refreshLock, a, r)
               /\ call' = [call EXCEPT ![r].pc = "refreshing", ![r].latest = o]
               /\ UNCHANGED heap
      <3> DEFINE n == [c EXCEPT !.pc = "refreshing", !.latest = o]
      <3>1. call' = [call EXCEPT ![r] = n]
        BY <2>7
      <3>2. n \in CallType /\ n.pc = "refreshing" /\ Moves(c, n) /\ n.latest = o /\ n.row = c.row /\ n.failed = c.failed
        BY <1>5, <2>1
      <3>3. refreshLock' = [refreshLock EXCEPT ![a] = r] /\ o # 0 /\ o \in 0..Len(heap[a])
        BY <1>4, <1>5, <2>7 DEF Take
      <3> HIDE DEF n, o
      <3> QED
        BY <1>10, <2>3, <2>7, <3>1, <3>2, <3>3
    <2> QED
      BY <2>4, <2>5, <2>6, <2>7 DEF StartRefresh
  <1>11. /\ n.pc \in Picked /\ n.pc \notin Landed /\ n.pc \notin Projecting /\ n.pc \in GetNextPcs
         /\ (n.pc \in Refreshing <=> n.pc = "refreshing") /\ n.pc # "projectJoined"
         /\ (n.pc \in Renewed <=> n.pc \in {"quota", "project"})
    BY <1>10 DEF Refreshing, Projecting, Renewed, Picked, GetNextPcs, Landed
  <1>12. FreshOK(n, heap', issued', aged')
    BY <1>10, <1>11 DEF FreshOK, Moves
  <1>13. CallInv'
    <2>1. n.latest <= Len(heap'[a]) /\ n.row.gen <= issued[a]
      BY <1>4, <1>6, <1>10
    <2>2. n.pc \in Refreshing \cup Projecting => n.latest # 0
      BY <1>10, <1>11
    <2> QED
      BY <1>1, <1>3, <1>10, <1>11, <1>12, <2>1, <2>2, MovedOn DEF env
  <1>14. LockInv'
    <2>1. LockOK(refreshLock, call, Refreshing, "joined") /\ LockOK(projectLock, call, Projecting, "projectJoined")
      BY DEF Inv, LockInv
    <2>2. LockOK(projectLock, call', Projecting, "projectJoined")
      BY <1>2, <1>3, <1>10, <1>11, <2>1, LockStays
    <2>3. LockOK(refreshLock', call', Refreshing, "joined")
      <3>1. CASE n.pc # "refreshing"
        BY <1>2, <1>3, <1>10, <1>11, <2>1, <3>1, LockStays DEF Moves
      <3>2. CASE n.pc = "refreshing"
        <4>1. /\ refreshLock[c.account] = NoOne /\ refreshLock' = [refreshLock EXCEPT ![c.account] = r]
              /\ n.account = c.account /\ n.pc \in Refreshing /\ c.pc \notin Refreshing
              /\ "joined" \notin Refreshing
          BY <1>3, <1>10, <1>11, <3>2, Stages DEF Moves
        <4> QED
          BY <1>2, <1>4, <1>10, <2>1, <4>1, LockTaken
      <3> QED
        BY <3>1, <3>2
    <2>4. projectLock' = projectLock
      BY <1>1
    <2> QED
      BY <2>2, <2>3, <2>4 DEF LockInv
  <1>15. LinkOK(req[r], n)
    BY <1>1, <1>2, <1>3, <1>10, <1>11, LinkGoesOn DEF Moves
  <1>16. RestInv'
    BY <1>1 DEF Inv, RestInv, limits, env
  <1> QED
    BY <1>10, <1>13, <1>14, <1>15, <1>16, ServiceStep

LEMMA SoleRefresh ==
  ASSUME Inv, NEW r \in Requests, NEW q \in Requests,
         call[r].pc \in Refreshing, call[q].pc \in Refreshing, call[q].account = call[r].account
  PROVE  q = r
  <1>1. call[r].account \in Accounts
    BY WorksOn, Stages
  <1>2. LockOK(refreshLock, call, Refreshing, "joined")
    BY DEF Inv, LockInv
  <1> QED
    BY <1>1, <1>2 DEF LockOK

LEMMA Synced ==
  ASSUME NEW a \in Accounts, heap \in HeapType, NEW o \in 0..Len(heap[a]), NEW S, SyncFrom(a, o, S)
  PROVE  /\ heap' \in HeapType
         /\ \A b \in Accounts : Len(heap'[b]) = Len(heap[b])
         /\ \A b \in Accounts : \A j \in 1..Len(heap[b]) :
              heap'[b][j] = IF o # 0 /\ b = a /\ j \in S THEN heap[a][o] ELSE heap[b][j]
  <1>1. CASE o = 0
    BY <1>1 DEF SyncFrom, HeapType
  <1>2. CASE o # 0
    <2> DEFINE new == [i \in DOMAIN heap[a] |-> IF i \in S THEN heap[a][o] ELSE heap[a][i]]
    <2>1. heap[a] \in Seq(TokenType) /\ Len(heap[a]) \in Nat
      BY Elements DEF HeapType
    <2>2. DOMAIN heap[a] = 1..Len(heap[a]) /\ o \in 1..Len(heap[a])
      BY <1>2, <2>1, LenProperties
    <2>3. \A i \in 1..Len(heap[a]) : heap[a][i] \in TokenType
      BY Elements
    <2>4. heap' = Rewritten(heap, a, new)
      BY <1>2 DEF SyncFrom, Rewritten
    <2>5. /\ new \in [1..Len(heap[a]) -> TokenType]
          /\ \A i \in 1..Len(heap[a]) : new[i] = IF i \in S THEN heap[a][o] ELSE heap[a][i]
      BY <2>2, <2>3
    <2> HIDE DEF new
    <2>6. /\ heap' \in HeapType
          /\ \A b \in Accounts : Len(heap'[b]) = Len(heap[b])
          /\ \A b \in Accounts : \A j \in 1..Len(heap[b]) : heap'[b][j] = IF b = a THEN new[j] ELSE heap[b][j]
      BY <2>4, <2>5, HeapMap
    <2> QED
      BY <1>2, <2>5, <2>6
  <1> QED
    BY <1>1, <1>2

\* The calls that a refresh concerns work on the objects it hands on.
LEMMA Concerned ==
  ASSUME NEW r \in Requests, NEW q \in Requests, Goes(q, r, "joined")
  PROVE  call[q].obj \in {call[r].obj} \cup Waiting("joined", call[r].account)
  BY DEF Goes, Waiting

\* Google issues a token.
LEMMA NewestToken ==
  ASSUME PoolInv, NEW a \in Accounts, NEW gen,
         gen = IF issued[a] < MaxIssued THEN issued[a] + 1 ELSE issued[a]
  PROVE  gen \in 0..MaxIssued /\ issued[a] <= gen /\ gen > aged[a]
  <1>1. issued[a] \in 0..MaxIssued /\ aged[a] \in -1..MaxIssued /\ aged[a] <= issued[a] /\ aged[a] < MaxIssued
    BY DEF PoolInv, Clock
  <1> QED
    BY <1>1, Bounds

\* Objects of account a get the token that Google issued.
LEMMA RefreshedHeap ==
  ASSUME PoolInv, UNCHANGED <<pool, store, aged>>, NEW a \in Accounts,
         issued' \in [Accounts -> 0..MaxIssued], issued[a] <= issued'[a],
         \A b \in Accounts : b # a => issued'[b] = issued[b],
         heap' \in HeapType, \A b \in Accounts : Len(heap'[b]) = Len(heap[b]),
         \A b \in Accounts : \A j \in 1..Len(heap[b]) :
           heap'[b][j].gen = heap[b][j].gen \/ (b = a /\ heap'[b][j].gen = issued'[a])
  PROVE  PoolInv' /\ Grown(heap, heap') /\ \A b \in Accounts : issued[b] <= issued'[b]
  <1>1. /\ heap \in HeapType /\ pool \in [Accounts -> Nat] /\ aged \in Clock
        /\ store \in [Accounts -> TokenType] /\ issued \in [Accounts -> 0..MaxIssued]
        /\ \A b \in Accounts : store[b].gen <= issued[b]
    BY DEF PoolInv
  <1>2. ASSUME NEW b \in Accounts
        PROVE  issued[b] <= issued'[b] /\ issued[b] \in Int /\ issued'[b] \in Int /\ store[b].gen \in Int
    <2>1. issued[b] \in Int /\ issued'[b] \in Int /\ store[b].gen \in Int
      BY <1>1, Clocks
    <2> QED
      BY <2>1
  <1>3. ASSUME NEW b \in Accounts, NEW i \in 1..Len(heap[b])
        PROVE  heap[b][i].gen <= heap'[b][i].gen /\ heap'[b][i].gen <= issued'[b]
    <2>1. heap[b][i].gen <= issued[b] /\ heap[b][i].gen \in 0..MaxIssued
      BY <1>1, Elements DEF PoolInv
    <2>2. heap[b][i].gen \in Int
      BY <2>1, Bounds
    <2> QED
      BY <1>2, <2>1, <2>2
  <1>4. /\ store' \in [Accounts -> TokenType] /\ \A b \in Accounts : store'[b].gen <= issued'[b]
        /\ pool' \in [Accounts -> Nat] /\ \A b \in Accounts : pool'[b] \in {pool[b]} \cup 1..Len(heap[b])
    BY <1>1, <1>2
  <1>5. PoolInv' /\ Grown(heap, heap')
    BY <1>2, <1>3, <1>4, HeapNewer
  <1> QED
    BY <1>2, <1>5

LEMMA RefreshSucceeds ==
  ASSUME Inv, NEW r \in Requests, UNCHANGED <<req, sends>>, call[r].pc = "refreshing",
         UNCHANGED <<pool, store, limits, bound, projectLock, fingerprint, noGo, changed, aged, reloads,
                     refreshLock, faults>>,
         NEW a, a = call[r].account, PoolInv', Grown(heap, heap'),
         \A b \in Accounts : Len(heap'[b]) = Len(heap[b]),
         \A b \in Accounts : issued[b] <= issued'[b] /\ (b # a => issued'[b] = issued[b]),
         heap'[a][call[r].latest].gen = issued'[a], issued'[a] > aged[a],
         NEW n \in CallType, call' = [call EXCEPT ![r] = n], n.pc = "merge", Moves(call[r], n),
         n.latest = call[r].latest, n.row = store[a], n.failed = call[r].failed
  PROVE  Inv'
  <1> DEFINE c == call[r]
             o == c.obj
             l == c.latest
  <1>1. /\ c \in CallType /\ CallOK(c, heap, issued, aged) /\ LinkOK(req[r], c) /\ heap \in HeapType
        /\ call \in [Requests -> CallType] /\ pool \in [Accounts -> Nat] /\ aged \in Clock
        /\ store \in [Accounts -> TokenType] /\ issued \in [Accounts -> 0..MaxIssued]
        /\ \A b \in Accounts : store[b].gen <= issued[b]
    BY CallFacts DEF Inv, PoolInv
  <1>2. /\ c.pc \in Picked /\ c.pc \notin Renewed /\ c.pc \notin Projecting /\ c.pc \in Refreshing /\ c.pc \notin Landed
        /\ c.pc \in GetNextPcs \ {"done", "wait"}
    BY DEF Refreshing, Projecting, Renewed, Picked, GetNextPcs, Landed
  <1>3. a \in Accounts /\ o \in 1..Len(heap[a]) /\ l \in 1..Len(heap[a]) /\ Len(heap[a]) \in Nat
    BY <1>1, <1>2, WorksOn, Elements
  <1>5. /\ n.pc \in Picked /\ n.pc \notin Renewed /\ n.pc \in Refreshing /\ n.pc \notin Projecting
         /\ n.pc \in GetNextPcs /\ n.pc \notin {"joined", "projectJoined", "done", "wait"}
    BY DEF Refreshing, Projecting, Renewed, Picked, GetNextPcs
  <1>6. \A b \in Accounts : aged[b] <= aged'[b]
    BY <1>1, Clocks
  <1>7. CallOK(n, heap', issued', aged')
    <2>2. CallOK(c, heap', issued', aged')
      BY <1>1, <1>2, <1>6, StillGood DEF Inv
    <2>3. heap'[a][l].gen = issued'[a] /\ issued'[a] > aged'[a]
      OBVIOUS
    <2>4. FreshOK(n, heap', issued', aged')
      BY <1>5, <2>3 DEF FreshOK, Moves
    <2>5. store[a].gen <= issued'[a] /\ n.latest <= Len(heap'[a]) /\ n.latest # 0
      <3>1. store'[a].gen <= issued'[a]
        BY <1>3 DEF PoolInv
      <3> QED
        BY <1>3, <3>1
    <2> QED
      BY <1>2, <1>5, <2>2, <2>4, <2>5, MoveOK
  <1>8. CallInv'
    <2>1. ASSUME NEW q \in Requests \ {r}, call[q].pc \in Landed
          PROVE  issued'[call[q].account] = issued[call[q].account] /\ aged'[call[q].account] = aged[call[q].account]
      <3>1. call[q].pc \in Refreshing
        BY <2>1, Stages
      <3>2. call[q].account # a /\ call[q].account \in Accounts
        BY <1>2, <3>1, SoleRefresh, WorksOn, Stages
      <3> QED
        BY <3>2
    <2> QED
      BY <1>6, <1>7, <2>1, OneCall DEF Inv
  <1>9. LockInv'
    BY <1>2, <1>5, LocksStay DEF Inv, locks, Moves
  <1>10. LinkOK(req[r], n)
    BY <1>1, <1>2, <1>5, LinkGoesOn DEF Moves
  <1>11. RestInv'
    BY DEF Inv, RestInv, limits
  <1> QED
    BY <1>8, <1>9, <1>10, <1>11, ServiceStep

\* A failed refresh: the objects it concerned get the pool's token, and their
\* calls are marked.
LEMMA RefreshFails ==
  ASSUME Inv, NEW r \in Requests, UNCHANGED <<issued, aged>>, call[r].pc = "refreshing",
         NEW S, NEW joined, joined = "joined",
         \A q \in Requests : Goes(q, r, joined) => call[q].obj \in S,
         SyncFrom(call[r].account, pool[call[r].account], S), Settle(r, joined, S),
         UNCHANGED <<pool, store>>
  PROVE  /\ PoolInv' /\ \A a \in Accounts : Len(heap'[a]) = Len(heap[a])
         /\ \A q \in Requests : FreshOK(call'[q], heap', issued', aged')
  <1> DEFINE a == call[r].account
             p == pool[a]
  <1>1. /\ call \in [Requests -> CallType] /\ heap \in HeapType /\ pool \in [Accounts -> Nat]
        /\ store \in [Accounts -> TokenType] /\ issued \in [Accounts -> 0..MaxIssued] /\ aged \in Clock
    BY CallFacts
  <1>2. call[r].pc \in Refreshing /\ call[r].pc \in Picked
    BY DEF Refreshing, Picked
  <1>3. a \in Accounts /\ p \in 0..Len(heap[a]) /\ Len(heap[a]) \in Nat
    BY <1>1, <1>2, WorksOn, Elements DEF Inv, PoolInv
  <1>4. /\ heap' \in HeapType
        /\ \A b \in Accounts : Len(heap'[b]) = Len(heap[b])
        /\ \A b \in Accounts : \A j \in 1..Len(heap[b]) :
             heap'[b][j] = IF p # 0 /\ b = a /\ j \in S THEN heap[a][p] ELSE heap[b][j]
    BY <1>1, <1>3, Synced
  <1>5. PoolInv'
    <2>1. ASSUME NEW b \in Accounts, NEW i \in 1..Len(heap'[b]) PROVE heap'[b][i].gen <= issued[b]
      <3>1. i \in 1..Len(heap[b])
        BY <1>4
      <3>2. p # 0 => p \in 1..Len(heap[a])
        BY <1>3
      <3>3. heap[b][i].gen <= issued[b] /\ (p # 0 => heap[a][p].gen <= issued[a])
        BY <1>3, <3>1, <3>2 DEF Inv, PoolInv
      <3> QED
        BY <1>4, <3>1, <3>3
    <2>2. \A b \in Accounts : pool[b] <= Len(heap'[b])
      BY <1>4 DEF Inv, PoolInv
    <2> QED
      BY <1>4, <2>1, <2>2 DEF Inv, PoolInv, HeapType, Clock
  <1>6. ASSUME NEW q \in Requests PROVE FreshOK(call'[q], heap', issued', aged')
    <2> DEFINE c == call[q]
               n == call'[q]
    <2>1. joined \in {"joined", "projectJoined"}
      OBVIOUS
    <2>2. /\ call'[q] \in CallType /\ Moves(call[q], call'[q])
          /\ call'[q].pc = IF Goes(q, r, joined) THEN After(q, joined) ELSE call[q].pc
          /\ call'[q].latest = IF q = r THEN 0 ELSE call[q].latest
          /\ call'[q].row = IF q = r THEN Blank ELSE call[q].row
          /\ call'[q].failed = Spoilt(q, r, S)
          /\ ~Goes(q, r, joined) => call'[q] = [call[q] EXCEPT !.failed = Spoilt(q, r, S)]
      BY <1>1, <2>1, Settled
    <2>3. Goes(q, r, joined) => c.account = a /\ c.obj \in S
      BY DEF Goes
    <2>4. CallOK(c, heap, issued, aged)
      BY CallFacts
    <2>5. ASSUME n.pc \in Renewed, ~n.failed PROVE heap'[n.account][n.obj].gen > n.asOf[n.account]
      <3>1. ~(c.account = a /\ c.obj \in S) /\ ~c.failed
        BY <2>2, <2>5 DEF Spoilt
      <3>2. ~Goes(q, r, joined) /\ n.pc = c.pc
        BY <2>2, <2>3, <3>1
      <3>3. c.account \in Accounts /\ c.obj \in 1..Len(heap[c.account])
        BY <2>5, <3>2, WorksOn, Stages
      <3>4. heap[c.account][c.obj].gen > c.asOf[c.account]
        BY <2>4, <2>5, <3>1, <3>2 DEF CallOK, FreshOK
      <3>5. heap'[c.account][c.obj] = heap[c.account][c.obj]
        BY <1>4, <3>1, <3>3
      <3> QED
        BY <2>2, <3>4, <3>5 DEF Moves
    <2>6. ASSUME n.pc \in Landed
          PROVE  heap'[n.account][n.latest].gen = issued'[n.account] /\ issued'[n.account] > aged'[n.account]
      <3>1. ~Goes(q, r, joined) /\ n.pc = c.pc
        <4>1. After(q, joined) \notin Landed
          BY <2>1, AfterPcs, Stages
        <4> QED
          BY <2>2, <2>6, <4>1
      <3>2. q # r /\ c.pc \in Refreshing
        BY <2>6, <3>1, Stages DEF Goes
      <3>3. c.account # a /\ c.account \in Accounts /\ c.latest \in 1..Len(heap[c.account])
        BY <1>2, <3>2, SoleRefresh, WorksOn, Stages
      <3>4. heap[c.account][c.latest].gen = issued[c.account] /\ issued[c.account] > aged[c.account]
        BY <2>4, <2>6, <3>1 DEF CallOK, FreshOK
      <3>5. n.account = c.account /\ n.latest = c.latest
        BY <2>2, <3>2 DEF Moves
      <3> QED
        BY <1>4, <3>3, <3>4, <3>5
    <2> QED
      BY <2>5, <2>6 DEF FreshOK
  <1> QED
    BY <1>4, <1>5, <1>6

LEMMA RefreshAnsweredKeeps ==
  ASSUME Inv, NEW r \in Requests, UNCHANGED <<req, sends>>, RefreshAnswered(r)
  PROVE  Inv'
  <1> DEFINE c == call[r]
             a == c.account
             gen == IF issued[a] < MaxIssued THEN issued[a] + 1 ELSE issued[a]
             new == [heap[a][c.latest] EXCEPT !.gen = gen]
             S == {c.obj} \cup Waiting("joined", a)
  <1>1. /\ c.pc = "refreshing"
        /\ UNCHANGED <<pool, store, limits, bound, projectLock, fingerprint, noGo, changed, aged, reloads>>
    BY DEF RefreshAnswered
  <1>2. /\ c \in CallType /\ heap \in HeapType /\ store \in [Accounts -> TokenType]
        /\ issued \in [Accounts -> 0..MaxIssued]
    BY CallFacts
  <1>3. c.pc \in Picked /\ c.pc \in Refreshing
    BY <1>1 DEF Refreshing, Picked
  <1>4. a \in Accounts /\ c.obj \in 1..Len(heap[a]) /\ c.latest \in 1..Len(heap[a]) /\ Len(heap[a]) \in Nat
    BY <1>2, <1>3, WorksOn, Elements
  <1>5. CASE /\ issued' = [issued EXCEPT ![a] = gen]
             /\ heap' = [heap EXCEPT ![a] = [heap[a] EXCEPT ![c.latest] = new, ![c.obj] = new]]
             /\ call' = [call EXCEPT ![r].pc = "merge", ![r].row = store[a]]
             /\ UNCHANGED <<refreshLock, faults>>
    <2> DEFINE s == [heap[a] EXCEPT ![c.latest] = new, ![c.obj] = new]
               n == [c EXCEPT !.pc = "merge", !.row = store[a]]
               P == {c.latest, c.obj}
    <2>1. gen \in 0..MaxIssued /\ issued[a] <= gen /\ gen > aged[a]
      BY <1>4, NewestToken DEF Inv
    <2>2. heap' = Rewritten(heap, a, s) /\ issued' = [issued EXCEPT ![a] = gen]
      BY <1>5 DEF Rewritten
    <2>3. call' = [call EXCEPT ![r] = n]
      BY <1>5
    <2> HIDE DEF gen
    <2>4. new \in TokenType /\ new.gen = gen
      <3>1. heap[a][c.latest] \in TokenType
        BY <1>2, <1>4, Elements
      <3> QED
        BY <2>1, <3>1 DEF TokenType
    <2> HIDE DEF new
    <2>5. /\ s \in [1..Len(heap[a]) -> TokenType]
          /\ \A i \in 1..Len(heap[a]) : s[i] = IF i \in P THEN new ELSE heap[a][i]
      <3>1. heap[a] \in [1..Len(heap[a]) -> TokenType]
        BY <1>2, <1>4, LenProperties, ElementOfSeq DEF HeapType
      <3> QED
        BY <1>4, <2>4, <3>1
    <2>6. c.latest \in P
      OBVIOUS
    <2> HIDE DEF s, P
    <2>7. /\ PoolInv' /\ Grown(heap, heap') /\ \A b \in Accounts : Len(heap'[b]) = Len(heap[b])
          /\ issued'[a] = gen /\ \A b \in Accounts : b # a => issued'[b] = issued[b]
          /\ \A b \in Accounts : issued[b] <= issued'[b]
          /\ \A i \in 1..Len(heap[a]) : i \in P => heap'[a][i] = new
      <3>1. /\ issued' \in [Accounts -> 0..MaxIssued] /\ issued'[a] = gen
            /\ \A b \in Accounts : b # a => issued'[b] = issued[b]
        <4> HIDE DEF a
        <4> QED
          BY <1>2, <1>4, <2>1, <2>2
      <3>2. heap' = Rewritten(heap, a, s)
        BY <2>2
      <3>3. UNCHANGED <<pool, store, aged>> /\ PoolInv
        BY <1>1 DEF Inv
      <3> HIDE DEF a
      <3>4. /\ heap' \in HeapType
            /\ \A b \in Accounts : Len(heap'[b]) = Len(heap[b])
            /\ \A b \in Accounts : \A j \in 1..Len(heap[b]) : heap'[b][j] = IF b = a THEN s[j] ELSE heap[b][j]
        BY <1>2, <1>4, <2>5, <3>2, HeapMap
      <3>5. /\ \A i \in 1..Len(heap[a]) : i \in P => heap'[a][i] = new
            /\ \A b \in Accounts : \A j \in 1..Len(heap[b]) :
                 heap'[b][j].gen = heap[b][j].gen \/ (b = a /\ heap'[b][j].gen = issued'[a])
        BY <1>4, <2>4, <2>5, <3>1, <3>4
      <3>6. issued[a] <= issued'[a]
        BY <2>1, <3>1
      <3>7. PoolInv' /\ Grown(heap, heap') /\ \A b \in Accounts : issued[b] <= issued'[b]
        BY <1>4, <3>1, <3>3, <3>4, <3>5, <3>6, RefreshedHeap
      <3> QED
        BY <3>1, <3>4, <3>5, <3>7
    <2>8. heap'[a][c.latest].gen = issued'[a] /\ issued'[a] > aged[a]
      BY <1>4, <2>1, <2>4, <2>6, <2>7
    <2>9. /\ n \in CallType /\ n.pc = "merge" /\ Moves(c, n) /\ n.latest = c.latest
          /\ n.row = store[a] /\ n.failed = c.failed
      <3>1. "merge" \in CallPcs /\ store[a] \in TokenType
        BY <1>2, <1>4 DEF CallPcs
      <3> QED
        BY <1>2, <3>1 DEF CallType, Moves
    <2> HIDE DEF n
    <2>10. UNCHANGED <<refreshLock, faults>>
      BY <1>5
    <2> QED
      BY <1>1, <2>3, <2>7, <2>8, <2>9, <2>10, RefreshSucceeds
  <1>6. CASE /\ faults < MaxFaults /\ faults' = faults + 1
             /\ refreshLock' = [refreshLock EXCEPT ![a] = NoOne]
             /\ SyncFrom(a, pool[a], S)
             /\ Settle(r, "joined", S)
             /\ UNCHANGED issued
    <2> DEFINE joined == "joined"
    <2>1. \A q \in Requests : Goes(q, r, joined) => call[q].obj \in S
      BY Concerned
    <2>2. Settle(r, joined, S) /\ SyncFrom(c.account, pool[c.account], S) /\ joined = "joined"
      BY <1>6
    <2> HIDE DEF S, joined
    <2>3. /\ PoolInv' /\ \A b \in Accounts : Len(heap'[b]) = Len(heap[b])
          /\ \A q \in Requests : FreshOK(call'[q], heap', issued', aged')
      <3>1. UNCHANGED <<issued, aged, pool, store>>
        BY <1>1, <1>6
      <3> QED
        BY <1>1, <2>1, <2>2, <3>1, RefreshFails
    <2>4. faults' \in 0..MaxFaults
      BY <1>6, Bounds DEF Inv, RestInv
    <2>5. RestInv'
      BY <1>1, <2>4 DEF Inv, RestInv, limits
    <2>6. joined \in {"joined", "projectJoined"}
      BY <2>2
    <2> QED
      BY <1>1, <1>3, <1>6, <2>2, <2>3, <2>5, <2>6, SettleStep
  <1> QED
    BY <1>5, <1>6 DEF RefreshAnswered, Obj

LEMMA RefreshSavedKeeps ==
  ASSUME Inv, NEW r \in Requests, UNCHANGED <<req, sends>>, RefreshSaved(r)
  PROVE  Inv'
  <1> DEFINE c == call[r]
             a == c.account
             l == c.latest
             S == {c.obj} \cup Waiting("joined", a)
             joined == "joined"
             spoilt == {}
  <1>1. /\ c.pc = "write" /\ SaveRow(r) /\ pool' = [pool EXCEPT ![a] = l]
        /\ refreshLock' = [refreshLock EXCEPT ![a] = NoOne]
        /\ UNCHANGED <<limits, bound, projectLock, fingerprint, noGo, changed, issued, aged, reloads>>
    BY DEF RefreshSaved
  <1>2. SyncFrom(a, l, S) /\ Settle(r, joined, spoilt)
    BY DEF RefreshSaved
  <1>3. \A q \in Requests : Goes(q, r, joined) => call[q].account = a /\ call[q].obj \in S
    BY Concerned DEF Goes
  <1>4. joined = "joined" /\ joined \in {"joined", "projectJoined"} /\ \A q : Spoilt(q, r, spoilt) = (call[q].failed \/ FALSE)
    BY DEF Spoilt
  <1> HIDE DEF S, joined, spoilt
  <1>5. /\ call \in [Requests -> CallType] /\ heap \in HeapType /\ pool \in [Accounts -> Nat]
        /\ store \in [Accounts -> TokenType] /\ issued \in [Accounts -> 0..MaxIssued] /\ aged \in Clock
        /\ CallOK(c, heap, issued, aged)
    BY CallFacts
  <1>6. c.pc \in Picked /\ c.pc \in Refreshing /\ c.pc \in Landed
    BY <1>1 DEF Refreshing, Picked, Landed
  <1>7. a \in Accounts /\ l \in 1..Len(heap[a]) /\ l \in 0..Len(heap[a]) /\ l # 0 /\ Len(heap[a]) \in Nat
    BY <1>5, <1>6, WorksOn, Elements
  <1>8. /\ heap' \in HeapType
        /\ \A b \in Accounts : Len(heap'[b]) = Len(heap[b])
        /\ \A b \in Accounts : \A j \in 1..Len(heap[b]) :
             heap'[b][j] = IF l # 0 /\ b = a /\ j \in S THEN heap[a][l] ELSE heap[b][j]
    BY <1>2, <1>5, <1>7, Synced
  <1>9. heap[a][l].gen = issued[a] /\ issued[a] > aged[a]
    BY <1>5, <1>6 DEF CallOK, FreshOK
  <1>10. ASSUME NEW b \in Accounts, NEW i \in 1..Len(heap[b])
         PROVE  heap[b][i].gen <= heap'[b][i].gen /\ heap'[b][i].gen <= issued'[b]
    <2>1. heap[b][i].gen <= issued[b] /\ heap[b][i].gen \in 0..MaxIssued /\ issued[b] \in 0..MaxIssued
      BY <1>5, Elements DEF Inv, PoolInv
    <2>2. heap'[b][i].gen \in {heap[b][i].gen, issued[b]}
      BY <1>7, <1>8, <1>9
    <2> QED
      BY <1>1, <2>1, <2>2, Bounds
  <1>11. /\ store' \in [Accounts -> TokenType] /\ \A b \in Accounts : store'[b].gen <= issued[b]
         /\ faults' \in 0..MaxFaults
    BY <1>1, <1>7, RowSaved
  <1>12. PoolInv' /\ Grown(heap, heap')
    <2>1. pool' \in [Accounts -> Nat] /\ \A b \in Accounts : pool'[b] \in {pool[b]} \cup 1..Len(heap[b])
      BY <1>1, <1>5, <1>7
    <2>2. /\ issued' \in [Accounts -> 0..MaxIssued] /\ UNCHANGED aged
          /\ \A b \in Accounts : issued[b] <= issued'[b] /\ store'[b].gen <= issued'[b]
      BY <1>1, <1>5, <1>11, Clocks
    <2> QED
      BY <1>8, <1>10, <1>11, <2>1, <2>2, HeapNewer DEF Inv
  <1>13. RestInv'
    BY <1>1, <1>11 DEF Inv, RestInv, limits
  <1>14. ASSUME NEW q \in Requests PROVE FreshOK(call'[q], heap', issued', aged')
    <2> DEFINE d == call[q]
               n == call'[q]
    <2>1. /\ call'[q] \in CallType /\ Moves(call[q], call'[q])
          /\ call'[q].pc = IF Goes(q, r, joined) THEN After(q, joined) ELSE call[q].pc
          /\ call'[q].latest = IF q = r THEN 0 ELSE call[q].latest
          /\ call'[q].row = IF q = r THEN Blank ELSE call[q].row
          /\ call'[q].failed = Spoilt(q, r, spoilt)
          /\ ~Goes(q, r, joined) => call'[q] = [call[q] EXCEPT !.failed = Spoilt(q, r, spoilt)]
      BY <1>2, <1>4, <1>5, Settled
    <2>2. CallOK(d, heap', issued', aged') /\ CallOK(d, heap, issued, aged) /\ d \in CallType
      BY <1>1, <1>12, StillOK, CallFacts
    <2>3. n.failed = d.failed
      BY <1>4, <2>1, <2>2, Fields
    <2>4. ASSUME n.pc \in Renewed, ~n.failed PROVE heap'[n.account][n.obj].gen > n.asOf[n.account]
      <3>1. CASE Goes(q, r, joined)
        <4>1. d.pc \in Picked
          BY <1>4, <1>6, <3>1 DEF Goes, Picked
        <4>2. d.account = a /\ d.obj \in S /\ d.obj \in 1..Len(heap[a])
          BY <1>3, <3>1, <4>1, WorksOn
        <4>3. heap'[a][d.obj].gen = issued[a]
          BY <1>7, <1>8, <1>9, <4>2
        <4>4. d.asOf[a] <= aged[a] /\ d.asOf[a] \in Int /\ aged[a] \in Int /\ issued[a] \in Int
          BY <1>5, <1>7, <2>2, Fields, Clocks DEF CallOK, RefsOK
        <4>5. n.account = a /\ n.obj = d.obj /\ n.asOf = d.asOf
          BY <2>1, <4>2 DEF Moves
        <4> QED
          BY <1>9, <4>3, <4>4, <4>5
      <3>2. CASE ~Goes(q, r, joined)
        BY <2>1, <2>2, <2>3, <2>4, <3>2 DEF CallOK, FreshOK, Moves
      <3> QED
        BY <3>1, <3>2
    <2>5. ASSUME n.pc \in Landed
          PROVE  heap'[n.account][n.latest].gen = issued'[n.account] /\ issued'[n.account] > aged'[n.account]
      <3>1. ~Goes(q, r, joined) /\ n.pc = d.pc
        <4>1. After(q, joined) \notin Landed
          BY <1>4, AfterPcs, Stages
        <4> QED
          BY <2>1, <2>5, <4>1
      <3>2. n.latest = d.latest /\ n.account = d.account
        BY <2>1, <3>1 DEF Goes, Moves
      <3> QED
        BY <2>2, <2>5, <3>1, <3>2 DEF CallOK, FreshOK
    <2> QED
      BY <2>4, <2>5 DEF FreshOK
  <1> QED
    BY <1>1, <1>2, <1>4, <1>6, <1>8, <1>12, <1>13, <1>14, SettleStep

----------------------------------------------------------------------------
(* Time *)

\* The calls look on while the heap grows and tokens age.
LEMMA LookOn ==
  ASSUME PoolInv, PoolInv', CallInv, UNCHANGED <<call, issued>>, Grown(heap, heap'),
         \A a \in Accounts : aged[a] <= aged'[a],
         \A q \in Requests : call[q].pc \in Landed => aged'[call[q].account] = aged[call[q].account]
  PROVE  CallInv'
  <1>1. /\ heap \in HeapType /\ heap' \in HeapType
        /\ issued \in [Accounts -> 0..MaxIssued] /\ issued' \in [Accounts -> 0..MaxIssued]
        /\ aged \in Clock /\ aged' \in Clock
        /\ \A a \in Accounts : \A i \in 1..Len(heap'[a]) : heap'[a][i].gen <= issued'[a]
    BY DEF PoolInv, HeapType, Clock
  <1>2. \A a \in Accounts : issued[a] <= issued'[a]
    BY <1>1, Clocks
  <1>3. ASSUME NEW q \in Requests PROVE CallOK(call[q], heap', issued', aged')
    <2>1. CallOK(call[q], heap, issued, aged)
      BY DEF CallInv
    <2>2. call[q].pc \in Landed => issued'[call[q].account] = issued[call[q].account]
                                /\ aged'[call[q].account] = aged[call[q].account]
      OBVIOUS
    <2> QED
      BY <1>1, <1>2, <2>1, <2>2, CallFrame
  <1> QED
    BY <1>3 DEF CallInv

LEMMA AgeKeeps ==
  ASSUME Inv, UNCHANGED <<req, sends>>, Age PROVE Inv'
  <1>1. PICK a \in Accounts : /\ aged[a] < issued[a] /\ issued[a] < MaxIssued /\ refreshLock[a] = NoOne
                              /\ aged' = [aged EXCEPT ![a] = issued[a]]
    BY DEF Age
  <1>2. /\ UNCHANGED <<pool, heap, store, locks, fingerprint, noGo, call, issued, faults>>
        /\ UNCHANGED <<limits, bound, changed, reloads>>
    BY DEF Age, Idle
  <1>3. /\ aged \in Clock /\ issued \in [Accounts -> 0..MaxIssued] /\ heap \in HeapType
    BY DEF Inv, PoolInv
  <1>4. /\ aged' \in Clock /\ aged'[a] = issued[a]
        /\ \A b \in Accounts \ {a} : aged'[b] = aged[b]
    BY <1>1, <1>3, Bounds DEF Clock
  <1>5. PoolInv'
    <2>1. \A b \in Accounts : aged'[b] <= issued[b] /\ aged'[b] < MaxIssued
      <3> SUFFICES ASSUME NEW b \in Accounts PROVE aged'[b] <= issued[b] /\ aged'[b] < MaxIssued
        OBVIOUS
      <3>1. CASE b = a
        BY <1>1, <1>3, <1>4, <3>1, Clocks
      <3>2. CASE b # a
        BY <1>4, <3>2 DEF Inv, PoolInv
      <3> QED
        BY <3>1, <3>2
    <2> QED
      BY <1>2, <1>4, <2>1 DEF Inv, PoolInv
  <1>6. \A b \in Accounts : aged[b] <= aged'[b]
    <2> SUFFICES ASSUME NEW b \in Accounts PROVE aged[b] <= aged'[b]
      OBVIOUS
    <2>1. aged[b] \in Int /\ issued[b] \in Int
      BY <1>3, Clocks
    <2> QED
      BY <1>1, <1>4, <2>1
  <1>7. ASSUME NEW q \in Requests, call[q].pc \in Landed
        PROVE  aged'[call[q].account] = aged[call[q].account]
    <2>1. call[q].pc \in Refreshing /\ call[q].account \in Accounts
      BY <1>7, Stages, WorksOn
    <2>2. refreshLock[call[q].account] = q
      BY <2>1 DEF Inv, LockInv, LockOK
    <2>3. NoOne \notin Requests
      BY TokenAssumption
    <2> QED
      BY <1>1, <1>4, <2>1, <2>2, <2>3
  <1>8. CallInv'
    BY <1>2, <1>3, <1>5, <1>6, <1>7, SameHeap, LookOn DEF Inv
  <1>9. RestInv' /\ LockInv' /\ LinkInv' /\ HandlerInv'
    BY <1>2 DEF Inv, RestInv, LockInv, LinkInv, HandlerInv, limits, locks
  <1> QED
    BY <1>5, <1>8, <1>9 DEF Inv

LEMMA TimeKeeps ==
  ASSUME Inv, UNCHANGED <<req, sends>>, Time PROVE Inv'
  <1>1. CASE Age
    BY <1>1, AgeKeeps
  <1>2. CASE Lapse \/ Unbind \/ TouchFile
    <2>1. UNCHANGED <<pool, heap, store, locks, fingerprint, noGo, call, issued, faults, aged>>
      BY <1>2 DEF Lapse, Unbind, TouchFile, Idle
    <2>2. PoolInv' /\ CallInv' /\ LockInv' /\ LinkInv' /\ HandlerInv'
      BY <2>1 DEF Inv, PoolInv, CallInv, LockInv, LinkInv, HandlerInv, locks
    <2>3. RestInv'
      <3>1. CASE Lapse
        BY <2>1, <3>1 DEF Lapse, Inv, RestInv
      <3>2. CASE Unbind
        BY <2>1, <3>2 DEF Unbind, Inv, RestInv, limits
      <3>3. CASE TouchFile
        BY <2>1, <3>3, Bounds DEF TouchFile, Inv, RestInv, limits
      <3> QED
        BY <1>2, <3>1, <3>2, <3>3
    <2> QED
      BY <2>2, <2>3 DEF Inv
  <1> QED
    BY <1>1, <1>2 DEF Time

----------------------------------------------------------------------------
(* Handlers *)

LEMMA ReqFields ==
  ASSUME NEW q \in ReqType
  PROVE  /\ q.i \in 0..(MaxRetries - 1) /\ q.i \in Nat /\ q.scope \in BOOLEAN
         /\ q.model \in Models \cup {AnyModel} /\ q.tried \subseteq Accounts
         /\ q.grace \in BOOLEAN /\ q.account \in Accounts \cup {NoAccount}
  <1>1. /\ q.i \in 0..(MaxRetries - 1) /\ q.scope \in BOOLEAN
        /\ q.model \in Models \cup {AnyModel} /\ q.tried \subseteq Accounts
        /\ q.grace \in BOOLEAN /\ q.account \in Accounts \cup {NoAccount}
    BY DEF ReqType
  <1>2. \A i \in 0..(MaxRetries - 1) : i \in Nat
    BY Bounds
  <1> QED
    BY <1>1, <1>2, Zenon

LEMMA NoReqType ==
  NoReq \in ReqType /\ NoReq.grace = FALSE /\ NoReq.tried = {} /\ NoReq.i = 0
  <1>1. 0 \in 0..(MaxRetries - 1)
    BY Bounds
  <1> QED
    BY <1>1 DEF NoReq, ReqType

\* A request that ends keeps only its scope.
LEMMA EndOK ==
  ASSUME NEW q, NEW s, SendsOK(q, s), NEW p \in {"answered", "failed"}
  PROVE  SendsOK(EndAs(q, p), s) /\ EndAs(q, p).pc = p
  <1> DEFINE e == EndAs(q, p)
  <1>1. q.scope \in BOOLEAN
    BY ReqFields DEF SendsOK
  <1>2. e \in ReqType /\ e.pc = p /\ e.scope = q.scope /\ e.grace = FALSE
    BY <1>1, NoReqType DEF EndAs, ReqType
  <1> HIDE DEF e
  <1>3. SendsOK(e, s)
    BY <1>2 DEF SendsOK
  <1> QED
    BY <1>2, <1>3 DEF e

\* The next attempt counts the sends there were.
LEMMA NextOK ==
  ASSUME NEW q, NEW s, SendsOK(q, s), q.pc \in {"sent", "marking"}
  PROVE  SendsOK(NextAttempt(q), s) /\ NextAttempt(q).pc \in {"select", "failed"}
  <1>1. q \in ReqType /\ q.i \in 0..(MaxRetries - 1) /\ MaxRetries \in Nat
    BY ReqFields, Bounds DEF SendsOK
  <1>2. CASE q.i + 1 < MaxRetries
    <2> DEFINE i == q.i + 1
               n == [q EXCEPT !.pc = "select", !.i = i]
    <2>1. i \in 0..(MaxRetries - 1) /\ Len(s) = i
      BY <1>1, <1>2 DEF SendsOK
    <2>2. NextAttempt(q) = n
      BY <1>2 DEF NextAttempt
    <2> HIDE DEF i
    <2>3. /\ n \in ReqType /\ n.pc = "select" /\ n.i = i /\ n.scope = q.scope /\ n.tried = q.tried
          /\ n.grace = q.grace /\ n.account = q.account
      BY <1>1, <2>1 DEF ReqType
    <2> HIDE DEF n
    <2>4. SendsOK(n, s)
      BY <2>1, <2>3 DEF SendsOK
    <2> QED
      BY <2>2, <2>3, <2>4
  <1>3. CASE ~(q.i + 1 < MaxRetries)
    BY <1>3, EndOK DEF NextAttempt
  <1> QED
    BY <1>2, <1>3

LEMMA GraceOK ==
  ASSUME NEW q, NEW s, SendsOK(q, s), q.pc = "sent", NEW n, n = [q EXCEPT !.grace = TRUE]
  PROVE  SendsOK(n, s) /\ n.pc = "sent"
  <1>1. q \in ReqType
    BY DEF SendsOK
  <1>2. /\ n \in ReqType /\ n.pc = "sent" /\ n.i = q.i /\ n.scope = q.scope /\ n.tried = q.tried
        /\ n.account = q.account
    BY <1>1 DEF ReqType
  <1> QED
    BY <1>2 DEF SendsOK

\* A request goes out with account a.
SentAs(q, a) == [q EXCEPT !.pc = "sent", !.account = a, !.tried = @ \cup {a}, !.grace = FALSE]
SentBy(q, s, a) == Append(s, [account |-> a, again |-> q.grace])

LEMMA SentOK ==
  ASSUME NEW q, NEW s, SendsOK(q, s), q.pc \in {"select", "token"}, NEW a \in Accounts,
         a \in Scoped <=> q.scope,
         ~q.scope /\ a \in q.tried => q.grace \/ Accounts \ Scoped \subseteq q.tried,
         NEW p, p = SentAs(q, a), NEW t, t = SentBy(q, s, a)
  PROVE  SendsOK(p, t) /\ p.pc = "sent"
  <1>1. /\ q \in ReqType /\ s \in Seq(SendType) /\ Len(s) = q.i /\ q.tried = Accounted(s)
        /\ \A i \in DOMAIN s : s[i].account \in Scoped <=> q.scope
    BY DEF SendsOK
  <1>2. /\ q.i \in 0..(MaxRetries - 1) /\ q.i \in Nat /\ MaxRetries \in Nat /\ q.grace \in BOOLEAN
        /\ q.tried \subseteq Accounts
    BY <1>1, ReqFields, Bounds
  <1>3. /\ p \in ReqType /\ p.pc = "sent" /\ p.i = q.i /\ p.scope = q.scope /\ p.tried = q.tried \cup {a}
        /\ p.account = a /\ p.grace = FALSE
    BY <1>1, <1>2 DEF ReqType, SentAs
  <1> DEFINE e == [account |-> a, again |-> q.grace]
  <1>4. e \in SendType /\ e.account = a /\ e.again = q.grace
    BY <1>2 DEF SendType
  <1>5. t = Append(s, e)
    BY DEF SentBy
  <1> HIDE DEF e
  <1>6. /\ t \in Seq(SendType) /\ Len(t) = Len(s) + 1 /\ DOMAIN t = 1..(Len(s) + 1)
        /\ \A i \in 1..Len(s) : t[i] = s[i]
        /\ t[Len(s) + 1] = e /\ DOMAIN s = 1..Len(s) /\ Len(s) \in Nat
    BY <1>1, <1>4, <1>5, AppendProperties, LenProperties
  <1>7. \A i \in DOMAIN t : i \in DOMAIN s \/ i = Len(s) + 1
    BY <1>6
  <1>8. Accounted(t) = q.tried \cup {a}
    <2>1. \A i \in DOMAIN t : t[i].account \in Accounted(s) \cup {a}
      BY <1>4, <1>6, <1>7 DEF Accounted
    <2>2. \A i \in DOMAIN s : i \in DOMAIN t /\ t[i] = s[i]
      BY <1>6
    <2>3. Len(s) + 1 \in DOMAIN t /\ t[Len(s) + 1].account = a
      BY <1>4, <1>6
    <2> QED
      BY <1>1, <2>1, <2>2, <2>3 DEF Accounted
  <1>9. \A i \in DOMAIN t : t[i].account \in Scoped <=> p.scope
    BY <1>1, <1>3, <1>4, <1>6, <1>7
  <1>10. ASSUME ~q.scope PROVE Distinct(t)
    <2> SUFFICES ASSUME NEW j \in DOMAIN t
                 PROVE  LET before == {t[i].account : i \in 1..(j - 1)}
                        IN t[j].account \in before => t[j].again \/ Accounts \ Scoped \subseteq before
      BY DEF Distinct
    <2> DEFINE before == {t[i].account : i \in 1..(j - 1)}
               earlier == {s[i].account : i \in 1..(j - 1)}
    <2>1. \A i \in 1..(j - 1) : i \in DOMAIN s /\ t[i] = s[i]
      BY <1>6
    <2>2. before = earlier
      BY <2>1
    <2>3. CASE j \in DOMAIN s
      <3>1. s[j].account \in earlier => s[j].again \/ Accounts \ Scoped \subseteq earlier
        BY <1>10, <2>3 DEF SendsOK, Distinct
      <3>2. t[j] = s[j]
        BY <1>6, <2>3
      <3> QED
        BY <2>2, <3>1, <3>2
    <2>4. CASE j = Len(s) + 1
      <3>1. 1..(j - 1) = DOMAIN s
        BY <1>6, <2>4
      <3>2. earlier = q.tried
        BY <1>1, <3>1 DEF Accounted
      <3>3. t[j] = e
        BY <1>6, <2>4
      <3> QED
        BY <1>4, <1>10, <2>2, <3>2, <3>3
    <2> QED
      BY <1>7, <2>3, <2>4
  <1>11. Len(t) = p.i + 1 /\ Len(t) <= MaxRetries
    BY <1>1, <1>2, <1>3, <1>6
  <1>12. a # NoAccount
    BY TokenAssumption
  <1> QED
    BY <1>3, <1>6, <1>8, <1>9, <1>10, <1>11, <1>12 DEF SendsOK

\* The handler of r moves on, and its call with it.
LEMMA HandlerStep ==
  ASSUME Inv, NEW r \in Requests, PoolInv', RestInv', LockInv', CallInv',
         NEW q, req' = [req EXCEPT ![r] = q], NEW s, sends' = [sends EXCEPT ![r] = s],
         NEW n, call'[r] = n, \A p \in Requests \ {r} : call'[p] = call[p],
         SendsOK(q, s), LinkOK(q, n)
  PROVE  Inv'
  <1>1. q \in ReqType /\ s \in Seq(SendType)
    BY DEF SendsOK
  <1>2. req \in [Requests -> ReqType] /\ sends \in [Requests -> Seq(SendType)]
    BY DEF Inv, HandlerInv
  <1>3. /\ req' \in [Requests -> ReqType] /\ req'[r] = q
        /\ \A p \in Requests \ {r} : req'[p] = req[p]
    BY <1>1, <1>2
  <1>4. /\ sends' \in [Requests -> Seq(SendType)] /\ sends'[r] = s
        /\ \A p \in Requests \ {r} : sends'[p] = sends[p]
    BY <1>1, <1>2
  <1>5. HandlerInv'
    BY <1>3, <1>4 DEF Inv, HandlerInv
  <1>6. LinkInv'
    BY <1>3 DEF Inv, LinkInv
  <1> QED
    BY <1>5, <1>6 DEF Inv

LEMMA SendsSame ==
  ASSUME Inv, NEW r \in Requests, UNCHANGED sends
  PROVE  sends' = [sends EXCEPT ![r] = sends[r]]
  BY DEF Inv, HandlerInv

\* What the invariant says of a handler.
LEMMA HandlerFacts ==
  ASSUME Inv, NEW r \in Requests
  PROVE  /\ req[r] \in ReqType /\ SendsOK(req[r], sends[r]) /\ LinkOK(req[r], call[r])
         /\ CallOK(call[r], heap, issued, aged) /\ call[r] \in CallType
         /\ call \in [Requests -> CallType]
  BY DEF Inv, HandlerInv, LinkInv, CallInv

\* A call is made, or there is none.
LEMMA NewCallOK ==
  ASSUME PoolInv, NEW n \in CallType, n.latest = 0, n.row = Blank,
         n.asOf = NoClock, n.pool = NoObjs, n.free = {},
         \A a \in Accounts : n.rows[a].gen <= issued[a],
         \/ n.pc \in Early /\ n.account = NoAccount /\ n.obj = 0
         \/ /\ n.pc \in {"realtime", "realtimeDone"} /\ n.account \in Accounts
            /\ n.obj <= Len(heap[n.account]) /\ (n.pc = "realtime" => n.obj # 0)
  PROVE  CallOK(n, heap, issued, aged)
  <1>1. NoAccount \notin Accounts
    BY TokenAssumption
  <1>2. StageOK(n)
    BY <1>1 DEF StageOK, Early, Picked, Refreshing, Projecting, Renewed
  <1>3. WaitOK(n)
    BY BlankTypes DEF WaitOK
  <1>4. \A a \in Accounts : -1 <= aged[a] /\ 0 <= issued[a] /\ 0 <= Len(heap[a])
    <2> SUFFICES ASSUME NEW a \in Accounts
                 PROVE  -1 <= aged[a] /\ 0 <= issued[a] /\ 0 <= Len(heap[a])
      OBVIOUS
    <2>1. aged[a] \in -1..MaxIssued /\ issued[a] \in 0..MaxIssued
      BY Clocks DEF PoolInv
    <2>2. Len(heap[a]) \in Nat
      BY Elements DEF PoolInv
    <2> QED
      BY <2>1, <2>2, Bounds
  <1>5. n.account # NoAccount => n.account \in Accounts /\ n.obj <= Len(heap[n.account])
    BY <1>1
  <1>6. RefsOK(n, heap, issued, aged)
    BY <1>4, <1>5, BlankTypes DEF RefsOK
  <1>7. FreshOK(n, heap, issued, aged)
    BY DEF FreshOK, Early, Renewed, Landed
  <1> QED
    BY <1>2, <1>3, <1>6, <1>7 DEF CallOK

LEMMA NoCallOK == ASSUME PoolInv PROVE CallOK(NoCall, heap, issued, aged)
  <1>1. \A a \in Accounts : 0 <= issued[a]
    BY Bounds DEF PoolInv
  <1>2. "idle" \in Early
    BY DEF Early
  <1> QED
    BY <1>1, <1>2, NoCallType, BlankTypes, NewCallOK

\* A call that neither works nor waits is replaced by one that neither works nor waits.
LEMMA NewCall ==
  ASSUME Inv, NEW r \in Requests, NEW n, call' = [call EXCEPT ![r] = n],
         CallOK(n, heap, issued, aged),
         call[r].pc \in {"idle", "done"}, n.pc \in Early \cup {"realtime", "realtimeDone"},
         UNCHANGED <<pool, heap, store, locks, issued, aged>>
  PROVE  PoolInv' /\ LockInv' /\ CallInv' /\ call'[r] = n /\ \A p \in Requests \ {r} : call'[p] = call[p]
  <1>1. PoolInv'
    BY PoolSame DEF Inv
  <1>2. CallInv'
    BY Untouched DEF Inv
  <1>3. /\ call[r].pc \notin Refreshing \cup Projecting /\ n.pc \notin Refreshing \cup Projecting
        /\ n.pc # "joined" /\ n.pc # "projectJoined"
    BY DEF Early, Refreshing, Projecting
  <1>4. LockInv'
    BY <1>3, LocksStay DEF Inv
  <1>5. call'[r] = n /\ \A p \in Requests \ {r} : call'[p] = call[p]
    BY HandlerFacts
  <1> QED
    BY <1>1, <1>2, <1>4, <1>5

\* Nothing but the handlers and the penalties changes.
LEMMA CallsSame ==
  ASSUME Inv, UNCHANGED <<pool, heap, store, locks, issued, aged, call>>
  PROVE  PoolInv' /\ LockInv' /\ CallInv'
  BY PoolSame DEF Inv, LockInv, CallInv, locks

LEMMA RestSame ==
  ASSUME Inv, UNCHANGED <<limits, bound, fingerprint, noGo, changed, reloads, faults>> PROVE RestInv'
  BY DEF Inv, RestInv, limits

LEMMA AnsweredKeeps ==
  ASSUME Inv, NEW r \in Requests, Answered(r) PROVE Inv'
  <1> DEFINE q == EndAs(req[r], "answered")
  <1>1. /\ req[r].pc = "sent" /\ req' = [req EXCEPT ![r] = q] /\ UNCHANGED <<tokenVars, sends>>
    BY DEF Answered
  <1>2. SendsOK(req[r], sends[r]) /\ LinkOK(req[r], call[r])
    BY HandlerFacts
  <1>3. SendsOK(q, sends[r]) /\ q.pc = "answered"
    BY <1>2, EndOK
  <1> HIDE DEF q
  <1>4. call[r] = NoCall /\ LinkOK(q, call[r])
    BY <1>1, <1>2, <1>3 DEF LinkOK
  <1>5. PoolInv' /\ LockInv' /\ CallInv' /\ RestInv'
    BY <1>1, CallsSame, RestSame DEF tokenVars, env
  <1>6. call' = call /\ sends' = [sends EXCEPT ![r] = sends[r]]
    BY <1>1, SendsSame DEF tokenVars
  <1> QED
    BY <1>1, <1>3, <1>4, <1>5, <1>6, HandlerStep

LEMMA MarkedKeeps ==
  ASSUME Inv, NEW r \in Requests, Marked(r) PROVE Inv'
  <1> DEFINE q == NextAttempt(req[r])
  <1>1. /\ req[r].pc = "marking" /\ call[r].pc = "done" /\ req' = [req EXCEPT ![r] = q]
        /\ call' = [call EXCEPT ![r] = NoCall]
        /\ UNCHANGED <<pool, heap, store, limits, bound, locks, fingerprint, noGo, changed, env, sends>>
    BY DEF Marked
  <1>2. SendsOK(req[r], sends[r])
    BY HandlerFacts
  <1>3. SendsOK(q, sends[r]) /\ q.pc \in {"select", "failed"}
    BY <1>1, <1>2, NextOK
  <1> HIDE DEF q
  <1>4. LinkOK(q, NoCall)
    BY <1>3 DEF LinkOK
  <1>5. CallOK(NoCall, heap, issued, aged) /\ NoCall.pc \in Early
    BY NoCallOK, NoCallType DEF Inv, Early
  <1>6. /\ PoolInv' /\ LockInv' /\ CallInv' /\ call'[r] = NoCall
        /\ \A p \in Requests \ {r} : call'[p] = call[p]
    BY <1>1, <1>5, NewCall DEF env
  <1>7. RestInv' /\ sends' = [sends EXCEPT ![r] = sends[r]]
    BY <1>1, RestSame, SendsSame DEF env
  <1> QED
    BY <1>1, <1>3, <1>4, <1>6, <1>7, HandlerStep

LEMMA TokenReturnedKeeps ==
  ASSUME Inv, NEW r \in Requests, TokenReturned(r) PROVE Inv'
  <1> DEFINE a == call[r].account
  <1>1. /\ req[r].pc = "token" /\ call[r].pc = "done" /\ call' = [call EXCEPT ![r] = NoCall]
        /\ UNCHANGED <<pool, heap, store, limits, bound, locks, fingerprint, noGo, changed, env>>
    BY DEF TokenReturned
  <1>2. SendsOK(req[r], sends[r]) /\ LinkOK(req[r], call[r]) /\ call[r] \in CallType
    BY HandlerFacts
  <1>3. CallOK(NoCall, heap, issued, aged) /\ NoCall.pc \in Early
    BY NoCallOK, NoCallType DEF Inv, Early
  <1>4. /\ PoolInv' /\ LockInv' /\ CallInv' /\ call'[r] = NoCall
        /\ \A p \in Requests \ {r} : call'[p] = call[p]
    BY <1>1, <1>3, NewCall DEF env
  <1>5. RestInv'
    BY <1>1, RestSame DEF env
  <1>6. CASE a = NoAccount
    <2> DEFINE q == EndAs(req[r], "failed")
    <2>1. req' = [req EXCEPT ![r] = q] /\ UNCHANGED sends
      BY <1>6 DEF TokenReturned
    <2>2. SendsOK(q, sends[r]) /\ q.pc = "failed"
      BY <1>2, EndOK
    <2> HIDE DEF q
    <2>3. LinkOK(q, NoCall)
      BY <2>2 DEF LinkOK
    <2>4. sends' = [sends EXCEPT ![r] = sends[r]]
      BY <2>1, SendsSame
    <2> QED
      BY <1>4, <1>5, <2>1, <2>2, <2>3, <2>4, HandlerStep
  <1>7. CASE a # NoAccount
    <2> DEFINE q == SentAs(req[r], a)
               s == SentBy(req[r], sends[r], a)
    <2>1. req' = [req EXCEPT ![r] = q] /\ sends' = [sends EXCEPT ![r] = s]
      BY <1>7 DEF TokenReturned, Sent, SentAs, SentBy
    <2>2. a \in Accounts
      BY <1>2, <1>7, Fields
    <2>3. /\ call[r].scope = req[r].scope /\ call[r].exclude = req[r].tried
          /\ Choosable(call[r], a)
      BY <1>1, <1>2, <1>7 DEF LinkOK
    <2>4. /\ a \in Scoped <=> req[r].scope
          /\ ~req[r].scope /\ a \in req[r].tried => Accounts \ Scoped \subseteq req[r].tried
      BY <2>3 DEF Choosable
    <2> HIDE DEF q, s, a
    <2>5. SendsOK(q, s) /\ q.pc = "sent"
      BY <1>1, <1>2, <2>2, <2>4, SentOK DEF q, s
    <2>6. LinkOK(q, NoCall)
      BY <2>5 DEF LinkOK
    <2> QED
      BY <1>4, <1>5, <2>1, <2>5, <2>6, HandlerStep
  <1> QED
    BY <1>6, <1>7

LEMMA SelectRetryTokenKeeps ==
  ASSUME Inv, NEW r \in Requests, SelectRetryToken(r) PROVE Inv'
  <1>1. /\ req[r].pc = "select"
        /\ UNCHANGED <<pool, heap, store, limits, bound, locks, fingerprint, noGo, changed, env>>
    BY DEF SelectRetryToken
  <1>2. /\ SendsOK(req[r], sends[r]) /\ LinkOK(req[r], call[r]) /\ req[r] \in ReqType
        /\ call \in [Requests -> CallType]
    BY HandlerFacts
  <1>3. call[r] = NoCall
    BY <1>1, <1>2 DEF LinkOK
  <1>4. RestInv'
    BY <1>1, RestSame DEF env
  <1>5. CASE req[r].grace
    <2> DEFINE a == req[r].account
               q == SentAs(req[r], a)
               s == SentBy(req[r], sends[r], a)
    <2>1. req' = [req EXCEPT ![r] = q] /\ sends' = [sends EXCEPT ![r] = s] /\ call' = call
      BY <1>5 DEF SelectRetryToken, Sent, SentAs, SentBy
    <2>2. a \in Accounts /\ (a \in Scoped <=> req[r].scope)
      <3>1. a \in Accounts \cup {NoAccount}
        BY <1>2, ReqFields
      <3> QED
        BY <1>2, <1>5, <3>1 DEF SendsOK
    <2> HIDE DEF a, q, s
    <2>3. SendsOK(q, s) /\ q.pc = "sent"
      BY <1>1, <1>2, <1>5, <2>2, SentOK DEF q, s
    <2>4. LinkOK(q, call[r])
      BY <1>3, <2>3 DEF LinkOK
    <2>5. PoolInv' /\ LockInv' /\ CallInv'
      BY <1>1, <2>1, CallsSame DEF env
    <2> QED
      BY <1>4, <2>1, <2>3, <2>4, <2>5, HandlerStep
  <1>6. CASE ~req[r].grace
    <2> DEFINE q == [req[r] EXCEPT !.pc = "token"]
               p == IF ~req[r].scope /\ changed THEN "reload" ELSE IF Pooled = {} THEN "load" ELSE "select"
               w == IF p = "select" THEN NoRows ELSE store
               n == [NoCall EXCEPT !.pc = p, !.scope = req[r].scope, !.session = r \in WithSession,
                       !.model = req[r].model, !.exclude = req[r].tried, !.rows = w]
    <2>1. req' = [req EXCEPT ![r] = q] /\ sends' = sends /\ call' = [call EXCEPT ![r] = n]
      BY <1>6 DEF SelectRetryToken, CallGetNext
    <2>2. p \in {"reload", "load", "select"}
      OBVIOUS
    <2>3. w \in [Accounts -> TokenType] /\ \A a \in Accounts : w[a].gen <= issued[a]
      <3>1. /\ store \in [Accounts -> TokenType] /\ \A a \in Accounts : store[a].gen <= issued[a]
        BY DEF Inv, PoolInv
      <3>2. \A a \in Accounts : 0 <= issued[a]
        BY Bounds DEF Inv, PoolInv
      <3> QED
        BY <3>1, <3>2, BlankTypes
    <2>4. /\ req[r].scope \in BOOLEAN /\ req[r].tried \subseteq Accounts /\ (r \in WithSession) \in BOOLEAN
          /\ req[r].model \in Models \cup {AnyModel}
      BY <1>2, ReqFields
    <2> HIDE DEF p, w
    <2>5. p \in CallPcs /\ p \in Early /\ p \in GetNextPcs
      BY <2>2 DEF CallPcs, Early, GetNextPcs
    <2>6. n \in CallType
      BY <2>3, <2>4, <2>5, NoCallType DEF CallType
    <2>7. /\ n.pc = p /\ n.scope = req[r].scope /\ n.exclude = req[r].tried /\ n.rows = w
          /\ n.account = NoAccount /\ n.obj = 0 /\ n.latest = 0 /\ n.row = Blank
          /\ n.asOf = NoClock /\ n.pool = NoObjs /\ n.free = {} /\ n.failed = FALSE
      BY NoCallType DEF CallType
    <2> HIDE DEF n
    <2>8. CallOK(n, heap, issued, aged)
      BY <2>3, <2>5, <2>6, <2>7, NewCallOK DEF Inv
    <2>9. /\ PoolInv' /\ LockInv' /\ CallInv' /\ call'[r] = n
          /\ \A x \in Requests \ {r} : call'[x] = call[x]
      BY <1>1, <1>3, <2>1, <2>5, <2>7, <2>8, NoCallType, NewCall DEF env
    <2>10. /\ q \in ReqType /\ q.pc = "token" /\ q.i = req[r].i /\ q.scope = req[r].scope
           /\ q.tried = req[r].tried /\ q.grace = req[r].grace /\ q.account = req[r].account
      BY <1>2 DEF ReqType
    <2> HIDE DEF q
    <2>11. SendsOK(q, sends[r])
      BY <1>1, <1>2, <2>10 DEF SendsOK
    <2>12. LinkOK(q, n)
      BY <2>2, <2>5, <2>7, <2>10 DEF LinkOK
    <2>13. sends' = [sends EXCEPT ![r] = sends[r]]
      BY <2>1, SendsSame
    <2> QED
      BY <1>4, <2>1, <2>9, <2>11, <2>12, <2>13, HandlerStep
  <1> QED
    BY <1>5, <1>6

LEMMA PenaliseKeeps ==
  ASSUME Inv, NEW r \in Requests, NEW a, a = req[r].account, NEW m \in Models, NEW error,
         req[r].pc = "sent", Penalise(r, a, m, error),
         UNCHANGED <<pool, heap, store, bound, locks, fingerprint, changed, env, sends>>
  PROVE  Inv'
  <1>1. /\ SendsOK(req[r], sends[r]) /\ LinkOK(req[r], call[r]) /\ req[r] \in ReqType
        /\ call \in [Requests -> CallType]
    BY HandlerFacts
  <1>2. call[r] = NoCall
    BY <1>1 DEF LinkOK
  <1>3. a \in Accounts /\ m \in Models \cup {AnyModel}
    <2>1. a \in Accounts \cup {NoAccount}
      BY <1>1, ReqFields
    <2> QED
      BY <1>1, <2>1 DEF SendsOK
  <1>4. sends' = [sends EXCEPT ![r] = sends[r]]
    BY SendsSame
  <1>5. noGo' \in BOOLEAN
    BY DEF Penalise, ParityError, Inv, RestInv
  <1>6. CASE /\ CoolDown(a) \/ LockAccount(a) \/ LockModel(a, m) \/ UNCHANGED limits
             /\ req' = [req EXCEPT ![r] = NextAttempt(req[r])] /\ UNCHANGED call
    <2> DEFINE q == NextAttempt(req[r])
    <2>1. SendsOK(q, sends[r]) /\ q.pc \in {"select", "failed"}
      BY <1>1, NextOK
    <2>2. req' = [req EXCEPT ![r] = q]
      BY <1>6
    <2> HIDE DEF q
    <2>3. LinkOK(q, call[r])
      BY <1>2, <2>1 DEF LinkOK
    <2>4. cooling' \subseteq Accounts /\ locked' \subseteq Accounts \X (Models \cup {AnyModel})
      BY <1>3, <1>6, LimitsTyped DEF Inv
    <2>5. RestInv'
      BY <1>5, <2>4 DEF Inv, RestInv, env
    <2>6. PoolInv' /\ LockInv' /\ CallInv' /\ call' = call
      BY <1>6, CallsSame DEF env
    <2> QED
      BY <1>4, <2>1, <2>2, <2>3, <2>5, <2>6, HandlerStep
  <1>7. CASE AskRealtime(r, a, m) /\ req' = [req EXCEPT ![r].pc = "marking"] /\ UNCHANGED limits
    <2> DEFINE q == [req[r] EXCEPT !.pc = "marking"]
               p == IF pool[a] = 0 THEN "realtimeDone" ELSE "realtime"
               o == pool[a]
               n == [NoCall EXCEPT !.account = a, !.model = m, !.obj = o, !.pc = p]
    <2>1. req' = [req EXCEPT ![r] = q] /\ call' = [call EXCEPT ![r] = n]
      BY <1>7 DEF AskRealtime
    <2>2. /\ p \in {"realtime", "realtimeDone"} /\ (p = "realtime" => o # 0) /\ o \in Nat
          /\ o <= Len(heap[a])
      BY <1>3 DEF Inv, PoolInv
    <2> HIDE DEF p, o
    <2>3. p \in CallPcs /\ p \in MarkPcs
      BY <2>2 DEF CallPcs, MarkPcs
    <2>4. n \in CallType
      BY <1>3, <2>2, <2>3, NoCallType DEF CallType
    <2>5. /\ n.pc = p /\ n.account = a /\ n.obj = o /\ n.latest = 0 /\ n.row = Blank
          /\ n.asOf = NoClock /\ n.pool = NoObjs /\ n.free = {} /\ n.rows = NoRows
      BY NoCallType DEF CallType
    <2> HIDE DEF n
    <2>6. \A b \in Accounts : n.rows[b].gen <= issued[b]
      <3>1. \A b \in Accounts : 0 <= issued[b]
        BY Bounds DEF Inv, PoolInv
      <3> QED
        BY <2>5, <3>1, BlankTypes
    <2>7. CallOK(n, heap, issued, aged)
      BY <1>3, <2>2, <2>4, <2>5, <2>6, NewCallOK DEF Inv
    <2>8. /\ PoolInv' /\ LockInv' /\ CallInv' /\ call'[r] = n
          /\ \A x \in Requests \ {r} : call'[x] = call[x]
      BY <1>2, <2>1, <2>2, <2>5, <2>7, NoCallType, NewCall DEF env
    <2>9. /\ q \in ReqType /\ q.pc = "marking" /\ q.i = req[r].i /\ q.scope = req[r].scope
          /\ q.tried = req[r].tried /\ q.grace = req[r].grace /\ q.account = req[r].account
      BY <1>1 DEF ReqType
    <2> HIDE DEF q
    <2>10. SendsOK(q, sends[r])
      BY <1>1, <2>9 DEF SendsOK
    <2>11. LinkOK(q, n)
      BY <2>3, <2>5, <2>9 DEF LinkOK
    <2>12. RestInv'
      BY <1>5, <1>7 DEF Inv, RestInv, env, limits
    <2> QED
      BY <1>4, <2>1, <2>8, <2>10, <2>11, <2>12, HandlerStep
  <1> QED
    BY <1>6, <1>7 DEF Penalise

LEMMA FailedKeeps ==
  ASSUME Inv, NEW r \in Requests, Failed(r) PROVE Inv'
  <1>1. /\ req[r].pc = "sent"
        /\ UNCHANGED <<pool, heap, store, bound, locks, fingerprint, changed, env, sends>>
    BY DEF Failed
  <1>2. CASE \E m \in Models : \E error : Penalise(r, req[r].account, m, error)
    BY <1>1, <1>2, PenaliseKeeps
  <1>3. CASE /\ req' = [req EXCEPT ![r] = NextAttempt([req[r] EXCEPT !.grace = TRUE])]
             /\ UNCHANGED <<limits, noGo, call>>
    <2> DEFINE g == [req[r] EXCEPT !.grace = TRUE]
               q == NextAttempt(g)
    <2>1. SendsOK(req[r], sends[r]) /\ LinkOK(req[r], call[r])
      BY HandlerFacts
    <2>2. SendsOK(g, sends[r]) /\ g.pc = "sent"
      BY <1>1, <2>1, GraceOK
    <2>3. req' = [req EXCEPT ![r] = q]
      BY <1>3
    <2> HIDE DEF g
    <2>4. SendsOK(q, sends[r]) /\ q.pc \in {"select", "failed"}
      BY <2>2, NextOK
    <2> HIDE DEF q
    <2>5. LinkOK(q, call[r])
      BY <1>1, <2>1, <2>4 DEF LinkOK
    <2>6. PoolInv' /\ LockInv' /\ CallInv' /\ RestInv' /\ call' = call
      BY <1>1, <1>3, CallsSame, RestSame DEF env
    <2>7. sends' = [sends EXCEPT ![r] = sends[r]]
      BY <1>1, SendsSame
    <2> QED
      BY <2>3, <2>4, <2>5, <2>6, <2>7, HandlerStep
  <1> QED
    BY <1>2, <1>3 DEF Failed

LEMMA ArriveKeeps ==
  ASSUME Inv, NEW r \in Requests, Arrive(r) PROVE Inv'
  <1>1. req[r].pc = "new" /\ UNCHANGED <<store, bound, locks, noGo, changed, call, env, sends>>
    BY DEF Arrive
  <1>2. PICK m \in Models, creds \in SUBSET Scoped :
          /\ UpsertScoped(creds)
          /\ req' = [req EXCEPT ![r].pc = "select", ![r].scope = creds # {}, ![r].model = m]
    BY DEF Arrive
  <1>3. SendsOK(req[r], sends[r]) /\ LinkOK(req[r], call[r])
    BY HandlerFacts
  <1>4. PoolInv' /\ Grown(heap, heap') /\ RestInv'
    <2>1. CASE creds = {} \/ fingerprint = creds
      <3>1. UNCHANGED <<pool, heap, limits, fingerprint>>
        BY <1>2, <2>1 DEF UpsertScoped
      <3>2. PoolInv' /\ Grown(heap, heap')
        BY <1>1, <3>1, PoolSame, SameHeap DEF Inv, PoolInv, env
      <3> QED
        BY <1>1, <3>1, <3>2, RestSame DEF env
    <2>2. CASE ~(creds = {} \/ fingerprint = creds)
      <3> DEFINE gone == {a \in Scoped : pool[a] # 0} \ creds
      <3>1. /\ heap' = [a \in Accounts |-> IF a \in creds THEN Append(heap[a], store[a]) ELSE heap[a]]
            /\ pool' = [a \in Accounts |->
                 IF a \in creds THEN Len(heap[a]) + 1 ELSE IF a \in gone THEN 0 ELSE pool[a]]
            /\ cooling' = cooling \ gone
            /\ locked' = {l \in locked : ~(l[1] \in gone /\ l[2] = AnyModel)}
            /\ fingerprint' = creds
        BY <1>2, <2>2 DEF UpsertScoped
      <3>2. heap' = Appended(heap, creds, store)
        BY <3>1 DEF Appended
      <3>3. /\ store \in [Accounts -> TokenType] /\ pool \in [Accounts -> Nat]
            /\ \A a \in Accounts : store[a].gen <= issued[a] /\ (a \notin Scoped => pool[a] # 0)
        BY DEF Inv, PoolInv
      <3>4. \A a \in Accounts : Len(heap[a]) \in Nat
        BY Elements DEF Inv, PoolInv
      <3>5. /\ pool' \in [Accounts -> Nat]
            /\ \A a \in Accounts : /\ a \in creds => pool'[a] \in {0, Len(heap[a]) + 1}
                                   /\ a \notin creds => pool'[a] \in {0, pool[a]}
                                   /\ a \notin Scoped => pool'[a] # 0
        BY <3>1, <3>3, <3>4
      <3> HIDE DEF gone
      <3>6. PoolInv' /\ Grown(heap, heap')
        BY <1>1, <3>2, <3>3, <3>5, PoolRefilled DEF Inv, env
      <3>7. cooling' \subseteq Accounts /\ locked' \subseteq Accounts \X (Models \cup {AnyModel})
        BY <3>1 DEF Inv, RestInv
      <3>8. RestInv'
        BY <1>1, <3>1, <3>7 DEF Inv, RestInv, env
      <3> QED
        BY <3>6, <3>8
    <2> QED
      BY <2>1, <2>2
  <1>5. CallInv'
    <2>1. \A a \in Accounts : aged[a] <= aged'[a]
      BY <1>1, Clocks DEF env, Inv, PoolInv
    <2> QED
      BY <1>1, <1>4, <2>1, LookOn DEF env, Inv
  <1>6. LockInv' /\ call' = call
    BY <1>1 DEF Inv, LockInv, locks
  <1> DEFINE q == [NoReq EXCEPT !.pc = "select", !.scope = creds # {}, !.model = m]
  <1>7. req[r] = NoReq /\ sends[r] = <<>> /\ call[r] = NoCall
    BY <1>1, <1>3 DEF SendsOK, LinkOK
  <1>8. req' = [req EXCEPT ![r] = q]
    BY <1>2, <1>7
  <1>9. /\ q \in ReqType /\ q.pc = "select" /\ q.i = 0 /\ q.tried = {} /\ q.grace = FALSE
    BY NoReqType DEF ReqType
  <1> HIDE DEF q
  <1>10. SendsOK(q, <<>>)
    <2>1. /\ <<>> \in Seq(SendType) /\ Len(<<>>) = 0 /\ DOMAIN <<>> = {}
      BY EmptySeq
    <2>2. Accounted(<<>>) = {} /\ Distinct(<<>>)
      BY <2>1 DEF Accounted, Distinct
    <2>3. 0 <= MaxRetries
      BY Bounds
    <2> QED
      BY <1>9, <2>1, <2>2, <2>3 DEF SendsOK
  <1>11. LinkOK(q, NoCall)
    BY <1>9 DEF LinkOK
  <1>12. sends' = [sends EXCEPT ![r] = <<>>]
    BY <1>1, <1>7, SendsSame
  <1> QED
    BY <1>4, <1>5, <1>6, <1>7, <1>8, <1>10, <1>11, <1>12, HandlerStep

----------------------------------------------------------------------------
(* The invariant *)

LEMMA InitKeeps == ASSUME Init PROVE Inv
  <1>1. PoolInv
    <2> DEFINE w(a) == Token(0, Known, IF a \in Stored THEN "none" ELSE "unknown")
    <2>1. Known \in BOOLEAN /\ 0 \in 0..MaxIssued
      BY TokenAssumption, Bounds
    <2>2. \A a \in Accounts : w(a) \in TokenType /\ w(a).gen = 0
      BY <2>1 DEF Token, TokenType
    <2>3. store = [a \in Accounts |-> w(a)]
      BY DEF Init, TokenInit
    <2> HIDE DEF w
    <2>4. store \in [Accounts -> TokenType] /\ \A a \in Accounts : store[a].gen = 0
      BY <2>2, <2>3
    <2>5. /\ pool = [a \in Accounts |-> IF a \in Scoped THEN 0 ELSE 1]
          /\ heap = [a \in Accounts |-> IF a \in Scoped THEN <<>> ELSE <<store[a]>>]
          /\ issued = [a \in Accounts |-> 0] /\ aged = [a \in Accounts |-> -1]
      BY DEF Init, TokenInit
    <2>6. ASSUME NEW a \in Accounts
          PROVE  /\ heap[a] \in Seq(TokenType)
                 /\ a \notin Scoped => Len(heap[a]) = 1 /\ heap[a][1].gen = 0
                 /\ a \in Scoped => Len(heap[a]) = 0
      <3>1. CASE a \in Scoped
        <4>1. heap[a] = <<>>
          BY <2>5, <3>1
        <4> QED
          BY <3>1, <4>1, EmptySeq
      <3>2. CASE a \notin Scoped
        <4> DEFINE t == store[a]
        <4>1. heap[a] = <<t>> /\ t \in TokenType /\ t.gen = 0
          BY <2>4, <2>5, <3>2
        <4> HIDE DEF t
        <4>2. <<t>> \in Seq(TokenType) /\ Len(<<t>>) = 1 /\ <<t>>[1] = t
          BY <4>1
        <4> QED
          BY <3>2, <4>1, <4>2
      <3> QED
        BY <3>1, <3>2
    <2>7. heap \in HeapType /\ pool \in [Accounts -> Nat]
      BY <2>5, <2>6 DEF HeapType
    <2>8. issued \in [Accounts -> 0..MaxIssued] /\ aged \in Clock
      BY <2>5, Bounds DEF Clock
    <2>9. ASSUME NEW a \in Accounts
          PROVE  /\ pool[a] <= Len(heap[a]) /\ (a \notin Scoped => pool[a] # 0)
                 /\ store[a].gen <= issued[a]
                 /\ \A i \in 1..Len(heap[a]) : heap[a][i].gen <= issued[a]
                 /\ aged[a] <= issued[a] /\ aged[a] < MaxIssued
      <3>1. store[a].gen = 0 /\ issued[a] = 0 /\ aged[a] = -1
        BY <2>4, <2>5
      <3>2. CASE a \in Scoped
        <4>1. pool[a] = 0 /\ Len(heap[a]) = 0
          BY <2>5, <2>6, <3>2
        <4> QED
          BY <3>1, <3>2, <4>1, Bounds
      <3>3. CASE a \notin Scoped
        <4>1. pool[a] = 1 /\ Len(heap[a]) = 1 /\ heap[a][1].gen = 0
          BY <2>5, <2>6, <3>3
        <4> QED
          BY <3>1, <4>1, Bounds
      <3> QED
        BY <3>2, <3>3
    <2> QED
      BY <2>4, <2>7, <2>8, <2>9 DEF PoolInv
  <1>2. RestInv
    <2>1. /\ cooling = {} /\ locked = {} /\ fingerprint = {} /\ noGo = FALSE /\ changed = FALSE
          /\ bound = [s \in BOOLEAN |-> NoAccount]
      BY DEF Init, TokenInit
    <2>2. reloads \in 0..MaxReloads /\ faults \in 0..MaxFaults
      BY Bounds DEF Init, TokenInit
    <2>3. bound \in [BOOLEAN -> Accounts \cup {NoAccount}]
      BY <2>1
    <2> QED
      BY <2>1, <2>2, <2>3 DEF RestInv
  <1>3. /\ call = [r \in Requests |-> NoCall] /\ req = [r \in Requests |-> NoReq]
        /\ sends = [r \in Requests |-> <<>>]
        /\ refreshLock = [a \in Accounts |-> NoOne] /\ projectLock = [a \in Accounts |-> NoOne]
    BY DEF Init, TokenInit
  <1>4. CallInv
    <2>1. CallOK(NoCall, heap, issued, aged) /\ NoCall \in CallType
      BY <1>1, NoCallOK, NoCallType
    <2>2. \A r \in Requests : call[r] = NoCall
      BY <1>3
    <2>3. call \in [Requests -> CallType]
      BY <1>3, <2>1
    <2> QED
      BY <2>1, <2>2, <2>3 DEF CallInv
  <1>5. LockInv
    <2>1. /\ NoOne \notin Requests /\ NoCall.pc \notin Refreshing /\ NoCall.pc \notin Projecting
          /\ NoCall.pc # "joined" /\ NoCall.pc # "projectJoined"
      BY TokenAssumption, NoCallType DEF Refreshing, Projecting
    <2> QED
      BY <1>3, <2>1 DEF LockInv, LockOK
  <1>6. HandlerInv
    <2>1. /\ <<>> \in Seq(SendType) /\ Len(<<>>) = 0 /\ DOMAIN <<>> = {}
      BY EmptySeq
    <2>2. 0 <= MaxRetries /\ Distinct(<<>>)
      BY <2>1, Bounds DEF Distinct
    <2>3. NoReq.pc = "new"
      BY DEF NoReq
    <2>4. SendsOK(NoReq, <<>>)
      BY <2>1, <2>2, <2>3, NoReqType DEF SendsOK
    <2> QED
      BY <1>3, <2>1, <2>4, NoReqType DEF HandlerInv
  <1>7. LinkInv
    <2>1. LinkOK(NoReq, NoCall)
      BY DEF LinkOK, NoReq
    <2> QED
      BY <1>3, <2>1 DEF LinkInv
  <1> QED
    BY <1>1, <1>2, <1>4, <1>5, <1>6, <1>7 DEF Inv

LEMMA CallStepKeeps ==
  ASSUME Inv, NEW r \in Requests, UNCHANGED <<req, sends>>, CallStep(r) PROVE Inv'
  <1>1. CASE MergeRefreshed(r)
    BY <1>1, MergeKeeps DEF MergeRefreshed
  <1>2. CASE MergeProject(r)
    BY <1>2, MergeKeeps DEF MergeProject
  <1> QED
    BY <1>1, <1>2, LoadedKeeps, SelectKeeps, WakeKeeps, StartRefreshKeeps, RefreshAnsweredKeeps,
       RefreshSavedKeeps, ScopedQuotaKeeps, StartProjectKeeps, ProjectAnsweredKeeps, ProjectSavedKeeps,
       FinishKeeps, RealtimeAnsweredKeeps, RealtimeDoneKeeps DEF CallStep

LEMMA NextKeeps == ASSUME Inv, [Next]_vars PROVE Inv'
  <1>1. CASE \E r \in Requests : Arrive(r) \/ Handler(r)
    BY <1>1, ArriveKeeps, SelectRetryTokenKeeps, TokenReturnedKeeps, AnsweredKeeps, FailedKeeps,
       MarkedKeeps DEF Handler
  <1>2. CASE \E r \in Requests : Service(r)
    BY <1>2, CallStepKeeps DEF Service
  <1>3. CASE Time /\ UNCHANGED <<req, sends>>
    BY <1>3, TimeKeeps
  <1>4. CASE UNCHANGED vars
    <2>1. UNCHANGED <<pool, heap, store, limits, bound, locks, fingerprint, noGo, changed, call, env, req, sends>>
      BY <1>4 DEF vars, tokenVars
    <2>2. PoolInv' /\ LockInv' /\ CallInv' /\ RestInv'
      BY <2>1, CallsSame, RestSame DEF env
    <2>3. HandlerInv' /\ LinkInv'
      BY <2>1 DEF Inv, HandlerInv, LinkInv
    <2> QED
      BY <2>2, <2>3 DEF Inv
  <1> QED
    BY <1>1, <1>2, <1>3, <1>4 DEF Next

\* The inductive invariant holds throughout, for every step of the handlers, the
\* calls and the clock.
THEOREM Invariance == Spec => []Inv
  BY InitKeeps, NextKeeps, PTL DEF Spec

----------------------------------------------------------------------------
(* What follows *)

LEMMA InvTypes == ASSUME Inv PROVE TypeOK
  <1>1. \A a \in Accounts : heap[a] \in Seq(TokenType) /\ pool[a] \in 0..Len(heap[a])
    <2> SUFFICES ASSUME NEW a \in Accounts PROVE heap[a] \in Seq(TokenType) /\ pool[a] \in 0..Len(heap[a])
      OBVIOUS
    <2>1. heap[a] \in Seq(TokenType) /\ pool[a] \in Nat /\ pool[a] <= Len(heap[a])
      BY DEF Inv, PoolInv, HeapType
    <2>2. Len(heap[a]) \in Nat
      BY <2>1, LenProperties
    <2> QED
      BY <2>1, <2>2
  <1>2. \A r \in Requests : call[r].account # NoAccount =>
          {call[r].obj, call[r].latest} \subseteq 0..Len(heap[call[r].account])
    <2> SUFFICES ASSUME NEW r \in Requests, call[r].account # NoAccount
                 PROVE  {call[r].obj, call[r].latest} \subseteq 0..Len(heap[call[r].account])
      OBVIOUS
    <2>1. call[r] \in CallType /\ RefsOK(call[r], heap, issued, aged) /\ heap \in HeapType
      BY CallFacts DEF CallOK
    <2>2. call[r].account \in Accounts /\ call[r].obj \in Nat /\ call[r].latest \in Nat
      BY <2>1, Fields
    <2>3. Len(heap[call[r].account]) \in Nat
      BY <2>1, <2>2, Elements
    <2> QED
      BY <2>1, <2>2, <2>3 DEF RefsOK
  <1>3. \A r \in Requests : sends[r] \in Seq([account : Accounts, again : BOOLEAN]) /\ Len(sends[r]) <= MaxRetries
    BY DEF Inv, HandlerInv, SendsOK, SendType
  <1>4. /\ store \in [Accounts -> TokenType]
        /\ issued \in [Accounts -> 0..MaxIssued] /\ aged \in [Accounts -> -1..MaxIssued]
    BY DEF Inv, PoolInv, Clock
  <1>5. /\ refreshLock \in [Accounts -> Requests \cup {NoOne}]
        /\ projectLock \in [Accounts -> Requests \cup {NoOne}]
    BY DEF Inv, LockInv, LockOK
  <1>6. call \in [Requests -> CallType] /\ req \in [Requests -> ReqType]
    BY DEF Inv, CallInv, HandlerInv
  <1>7. RestInv
    BY DEF Inv
  <1> QED
    BY <1>1, <1>2, <1>3, <1>4, <1>5, <1>6, <1>7 DEF TypeOK, RestInv

\* A set all of whose elements are one has at most one.
LEMMA AtMostOne ==
  ASSUME NEW S, NEW x, \A y \in S : y = x PROVE Cardinality(S) <= 1
  <1>1. CASE S = {}
    BY <1>1, FS_EmptySet
  <1>2. CASE S # {}
    <2>1. S = {x}
      BY <1>2
    <2> QED
      BY <2>1, FS_Singleton
  <1> QED
    BY <1>1, <1>2

LEMMA InvSingle == ASSUME Inv PROVE SingleFlight
  <1> SUFFICES ASSUME NEW a \in Accounts
               PROVE  /\ Cardinality(At(a, Refreshing)) <= 1
                      /\ Cardinality(At(a, Projecting)) <= 1
                      /\ At(a, {"joined"}) # {} => At(a, Refreshing) # {}
                      /\ At(a, {"projectJoined"}) # {} => At(a, Projecting) # {}
    BY DEF SingleFlight
  <1>1. LockOK(refreshLock, call, Refreshing, "joined") /\ LockOK(projectLock, call, Projecting, "projectJoined")
    BY DEF Inv, LockInv
  <1>2. \A r \in At(a, Refreshing) : r = refreshLock[a]
    BY <1>1 DEF LockOK, At
  <1>3. \A r \in At(a, Projecting) : r = projectLock[a]
    BY <1>1 DEF LockOK, At
  <1>4. At(a, {"joined"}) # {} => At(a, Refreshing) # {}
    BY <1>1 DEF LockOK, At
  <1>5. At(a, {"projectJoined"}) # {} => At(a, Projecting) # {}
    BY <1>1 DEF LockOK, At
  <1>6. Cardinality(At(a, Refreshing)) <= 1
    BY <1>2, AtMostOne
  <1>7. Cardinality(At(a, Projecting)) <= 1
    BY <1>3, AtMostOne
  <1> QED
    BY <1>4, <1>5, <1>6, <1>7

LEMMA InvFresh == ASSUME Inv PROVE GrantedFresh
  BY DEF Inv, LinkInv, LinkOK, GrantedFresh

LEMMA InvScope == ASSUME Inv PROVE InScope
  BY DEF Inv, HandlerInv, SendsOK, InScope

LEMMA InvDistinct == ASSUME Inv PROVE DistinctAttempts
  <1>1. \A r \in Requests : req[r].scope \/ Distinct(sends[r])
    BY DEF Inv, HandlerInv, SendsOK
  <1> QED
    BY <1>1 DEF Distinct, DistinctAttempts

\* The state has the types of the code's maps and records, every reference of a
\* pool entry or of a call is to a token object that exists, and no request is
\* sent more than maxRetries times.
THEOREM Types == Spec => []TypeOK
  BY Invariance, InvTypes, PTL

\* runAccountLock keeps refreshes and project lookups apart: one of each per
\* account, and whoever waits for one waits for one that runs.
THEOREM OneAtATime == Spec => []SingleFlight
  BY Invariance, InvSingle, PTL

\* getNextToken hands out no token inside its expiry buffer at the call's clock,
\* unless a refresh of the token's object failed.
THEOREM FreshTokens == Spec => []GrantedFresh
  BY Invariance, InvFresh, PTL

\* A request is sent with accounts of its own scope only.
THEOREM OwnScope == Spec => []InScope
  BY Invariance, InvScope, PTL

\* A request goes back to an account only for a grace retry, or when it has been
\* through all of them.
THEOREM NewAccounts == Spec => []DistinctAttempts
  BY Invariance, InvDistinct, PTL

=============================================================================
