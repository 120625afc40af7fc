---------------------------- MODULE ProxyService ----------------------------
(***************************************************************************)
(* The retry loop that the four request handlers of the antigravity        *)
(* gateway share, composed with the token manager it draws accounts from:  *)
(* up to maxRetries attempts, each with an account the request has not     *)
(* tried, a second call without the project on a project error, a grace    *)
(* retry on the same account after a short limit, and a penalty for the    *)
(* account otherwise.                                                      *)
(***************************************************************************)
EXTENDS TokenManager

CONSTANTS
  Anthropic,   \* the requests of handleAnthropicMessages
  WithSession, \* the requests with a session key
  Errors,      \* the errors an upstream call may end with
  MaxRetries   \* maxRetries

\* "grace": a 429 with a short delay.  "forbidden": a 401 or 403.  "limit": a
\* tracked status that limits the account.  "model": an exhausted quota with a
\* retry window.  "quota": a 429 without a window.  "message": an error without
\* a status whose text tells of a rate limit.  "project": an error of the project
\* context.  "other": anything that carries no penalty.
ErrorKinds == {"grace", "forbidden", "limit", "model", "quota", "message", "project", "other"}

ASSUME ProxyAssumption ==
  /\ Anthropic \cup WithSession \subseteq Requests
  /\ Errors \subseteq ErrorKinds
  /\ MaxRetries \in Nat \ {0}

VARIABLES
  req,   \* the handler of each request
  sends  \* history: the accounts a request was sent with, in order, and whether
         \* it was a grace retry

vars == <<tokenVars, req, sends>>

\* tried: attemptedAccountIds; grace: graceRetryToken is set.
NoReq == [pc |-> "new", i |-> 0, scope |-> FALSE, model |-> AnyModel,
          tried |-> {}, grace |-> FALSE, account |-> NoAccount]

Init ==
  /\ TokenInit
  /\ req = [r \in Requests |-> NoReq]
  /\ sends = [r \in Requests |-> <<>>]

\* A request arrives: its scope's credentials are taken over and the loop starts.
Arrive(r) ==
  /\ req[r].pc = "new"
  /\ \E m \in Models, creds \in SUBSET Scoped :
       /\ UpsertScoped(creds)
       /\ req' = [req EXCEPT ![r].pc = "select", ![r].scope = creds # {}, ![r].model = m]
  /\ UNCHANGED <<store, bound, locks, noGo, changed, call, env, sends>>

EndAs(q, pc) == [NoReq EXCEPT !.pc = pc, !.scope = q.scope]

\* Mutant: the account is not recorded as attempted.
SentUnrecorded(r, a) ==
  /\ sends' = [sends EXCEPT ![r] = Append(@, [account |-> a, again |-> req[r].grace])]
  /\ req' = [req EXCEPT ![r].pc = "sent", ![r].account = a, ![r].grace = FALSE]

Sent(r, a) ==
  /\ sends' = [sends EXCEPT ![r] = Append(@, [account |-> a, again |-> req[r].grace])]
  /\ req' = [req EXCEPT ![r].pc = "sent", ![r].account = a,
               ![r].tried = @ \cup {a}, ![r].grace = FALSE]

\* selectRetryToken: the grace token, or a call of getNextToken.
SelectRetryToken(r) ==
  /\ req[r].pc = "select"
  /\ \/ /\ req[r].grace
        /\ Sent(r, req[r].account)
        /\ UNCHANGED call
     \/ /\ ~req[r].grace
        /\ CallGetNext(r, req[r].scope, r \in WithSession, req[r].model, req[r].tried)
        /\ req' = [req EXCEPT ![r].pc = "token"]
        /\ UNCHANGED sends
  /\ UNCHANGED <<pool, heap, store, limits, bound, locks, fingerprint, noGo, changed, env>>

\* getNextToken returns: the request goes out, or fails without an account.
TokenReturned(r) ==
  /\ req[r].pc = "token" /\ call[r].pc = "done"
  /\ IF call[r].account = NoAccount
     THEN req' = [req EXCEPT ![r] = EndAs(@, "failed")] /\ UNCHANGED sends
     ELSE Sent(r, call[r].account)
  /\ call' = [call EXCEPT ![r] = NoCall]
  /\ UNCHANGED <<pool, heap, store, limits, bound, locks, fingerprint, noGo, changed, env>>

\* Mutant: one attempt too many.
NextAttemptOnceMore(q) ==
  IF q.i < MaxRetries THEN [q EXCEPT !.pc = "select", !.i = @ + 1] ELSE EndAs(q, "failed")

\* The next attempt, or the end of the loop.
NextAttempt(q) ==
  IF q.i + 1 < MaxRetries THEN [q EXCEPT !.pc = "select", !.i = @ + 1] ELSE EndAs(q, "failed")

Answered(r) ==
  /\ req[r].pc = "sent"
  /\ req' = [req EXCEPT ![r] = EndAs(@, "answered")]
  /\ UNCHANGED <<tokenVars, sends>>

\* applyUpstreamPenalty.  What a project error is charged as depends on its status.
Penalise(r, a, m, error) ==
  /\ ParityError
  /\ \/ /\ \/ error \in {"forbidden", "message", "project"} /\ CoolDown(a)
           \/ error \in {"limit", "project"} /\ LockAccount(a)
           \/ error = "model" /\ LockModel(a, m)
           \/ error \in {"other", "project"} /\ UNCHANGED limits
        /\ req' = [req EXCEPT ![r] = NextAttempt(@)]
        /\ UNCHANGED call
     \/ /\ error = "quota"
        /\ AskRealtime(r, a, m)
        /\ req' = [req EXCEPT ![r].pc = "marking"]
        /\ UNCHANGED limits

\* The upstream call fails.  On a project error it is made again without the
\* project, and may succeed; if not, handleAnthropicMessages charges the first
\* error to the account, the other handlers the second one.  A short limit is
\* retried with the same account.  The model charged is effectiveTargetModel, what
\* the account's forwarding rules make of the one asked for.
Failed(r) ==
  /\ req[r].pc = "sent"
  /\ \E first \in Errors, second \in Errors :
       LET error == IF first = "project" /\ r \notin Anthropic THEN second ELSE first IN
       \/ /\ error = "grace"
          /\ req' = [req EXCEPT ![r] = NextAttempt([@ EXCEPT !.grace = TRUE])]
          /\ UNCHANGED <<limits, noGo, call>>
       \/ /\ error # "grace"
          /\ \E m \in Models : Penalise(r, req[r].account, m, error)
  /\ UNCHANGED <<pool, heap, store, bound, locks, fingerprint, changed, env, sends>>

\* markFromUpstreamError returns.
Marked(r) ==
  /\ req[r].pc = "marking" /\ call[r].pc = "done"
  /\ req' = [req EXCEPT ![r] = NextAttempt(@)]
  /\ call' = [call EXCEPT ![r] = NoCall]
  /\ UNCHANGED <<pool, heap, store, limits, bound, locks, fingerprint, noGo, changed, env, sends>>

Handler(r) ==
  \/ SelectRetryToken(r) \/ TokenReturned(r) \/ Answered(r) \/ Failed(r) \/ Marked(r)

Service(r) == CallStep(r) /\ UNCHANGED <<req, sends>>

Ended == \A r \in Requests : req[r].pc \in {"answered", "failed"}

Next ==
  \/ \E r \in Requests : Arrive(r) \/ Handler(r) \/ Service(r)
  \/ Time /\ UNCHANGED <<req, sends>>
  \/ Ended /\ UNCHANGED vars

Spec == Init /\ [][Next]_vars

\* Every await of the code ends: calls of Google and of the upstream time out,
\* the others are timers and database statements.
FairSpec == Spec /\ \A r \in Requests : WF_vars(Handler(r) \/ Service(r))

----------------------------------------------------------------------------
CallType ==
  [pc : CallPcs, scope : BOOLEAN, session : BOOLEAN, model : Models \cup {AnyModel},
   exclude : SUBSET Accounts, account : Accounts \cup {NoAccount}, obj : Nat, latest : Nat,
   row : TokenType, rows : [Accounts -> TokenType], asOf : [Accounts -> -1..MaxIssued],
   pool : [Accounts -> Nat], free : SUBSET Accounts, failed : BOOLEAN]

ReqType ==
  [pc : {"new", "select", "token", "sent", "marking", "answered", "failed"},
   i : 0..(MaxRetries - 1), scope : BOOLEAN, model : Models \cup {AnyModel},
   tried : SUBSET Accounts, grace : BOOLEAN, account : Accounts \cup {NoAccount}]

\* The types, and every reference to a token object is to one that exists.
TypeOK ==
  /\ \A a \in Accounts : heap[a] \in Seq(TokenType) /\ pool[a] \in 0..Len(heap[a])
  /\ store \in [Accounts -> TokenType]
  /\ cooling \subseteq Accounts
  /\ locked \subseteq Accounts \X (Models \cup {AnyModel})
  /\ bound \in [BOOLEAN -> Accounts \cup {NoAccount}]
  /\ refreshLock \in [Accounts -> Requests \cup {NoOne}]
  /\ projectLock \in [Accounts -> Requests \cup {NoOne}]
  /\ fingerprint \subseteq Scoped
  /\ noGo \in BOOLEAN /\ changed \in BOOLEAN
  /\ issued \in [Accounts -> 0..MaxIssued] /\ aged \in [Accounts -> -1..MaxIssued]
  /\ reloads \in 0..MaxReloads /\ faults \in 0..MaxFaults
  /\ call \in [Requests -> CallType]
  /\ \A r \in Requests : call[r].account # NoAccount =>
       {call[r].obj, call[r].latest} \subseteq 0..Len(heap[call[r].account])
  /\ req \in [Requests -> ReqType]
  /\ \A r \in Requests : sends[r] \in Seq([account : Accounts, again : BOOLEAN]) /\ Len(sends[r]) <= MaxRetries

Refreshing == {"refreshing", "merge", "write"}
Projecting == {"projecting", "projectMerge", "projectWrite"}
At(a, pcs) == {r \in Requests : call[r].account = a /\ call[r].pc \in pcs}

\* runAccountLock: an account has at most one refresh and one project lookup in
\* progress, and nobody waits for one that is not.
SingleFlight ==
  \A a \in Accounts :
    /\ Cardinality(At(a, Refreshing)) <= 1
    /\ Cardinality(At(a, Projecting)) <= 1
    /\ At(a, {"joined"}) # {} => At(a, Refreshing) # {}
    /\ At(a, {"projectJoined"}) # {} => At(a, Projecting) # {}

\* A token that getNextToken hands out was outside its expiry buffer at the
\* call's clock, whoever refreshed it and whatever reloaded the pool meanwhile,
\* unless a refresh of the token object it works on failed (which is only logged,
\* and copies the pool's token, however old, over the object).
GrantedFresh ==
  \A r \in Requests :
    req[r].pc = "token" /\ call[r].pc = "done" /\ call[r].account # NoAccount /\ ~call[r].failed
      => call[r].row.gen > call[r].asOf[call[r].account]

\* A request is only ever sent with an account of its own scope, whatever other
\* requests bind, cool down or bring along in the meantime.
InScope ==
  \A r \in Requests : \A i \in DOMAIN sends[r] :
    sends[r][i].account \in Scoped <=> req[r].scope

\* selectRetryToken excludes what was attempted: a request goes back to an account
\* only for a grace retry, or when it has been through all of them.
DistinctAttempts ==
  \A r \in Requests : \A j \in DOMAIN sends[r] :
    LET before == {sends[r][i].account : i \in 1..(j - 1)} IN
    sends[r][j].account \in before => sends[r][j].again \/ req[r].scope \/ Accounts \ Scoped \subseteq before

\* Every request that came in is answered or fails: no lock, wait or retry holds
\* it for ever, a refresh it joined and that fails included.
EveryRequestEnds ==
  \A r \in Requests : req[r].pc = "select" ~> req[r].pc \in {"answered", "failed"}
=============================================================================
