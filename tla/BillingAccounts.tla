--------------------------- MODULE BillingAccounts ---------------------------
(* The accounts of Billing, proved for every number of concurrent requests:    *)
(* what a request took from its funding source and from the token is what its  *)
(* session holds or has settled, at every step, and so what its outcome says   *)
(* when it has ended.                                                          *)
EXTENDS BillingProofs, FiniteSetTheorems

\* Where no session is open yet, or none was opened.
BeforeOpen ==
  {"idle", "hasSub", "walletCheck", "tokenRead", "tokenPre", "fundingPre",
   "rollbackFallback", "rollbackReject", "rejected"}

\* An open session has booked the same amount on the token and on the funding
\* source; a wallet may hold more after a rollback that failed.
Booked(r) ==
  LET s == session[r]
      d == IF Reserving(r) THEN delta[r] ELSE 0 IN
  /\ s.tokenConsumed = s.pre
  /\ ~Wallet(r) => s.consumed + s.extra = s.pre
  /\ Wallet(r) => s.consumed >= s.pre + d
  /\ Wallet(r) /\ Undisturbed(r) => s.consumed = s.pre + d
  /\ d >= 0

\* What the control point of a request says of its session.
Phase(r) ==
  LET s == session[r]
      committed == s.fundingSettled \/ s.settled IN
  /\ s.consumed >= 0
  /\ committed => actual[r] >= 0
  /\ job[r] # "none" => ~committed
  /\ job[r] = "record" => ~Wallet(r)
  /\ pc[r] \in BeforeOpen =>
       /\ ~committed /\ ~s.refunded /\ actual[r] = -1
       /\ s.pre = 0 /\ s.consumed = 0 /\ s.extra = 0
  /\ pc[r] \in BeforeOpen \ {"fundingPre", "rollbackFallback", "rollbackReject"} =>
       TokenShare(r, s.tokenConsumed) = 0
  /\ pc[r] \in {"tokenPre", "reserveToken"} => ~profile[r].playground
  /\ pc[r] = "fundingPre" => s.tokenConsumed = s.need
  /\ pc[r] = "open" \/ Reserving(r) =>
       ~committed /\ ~s.refunded /\ actual[r] = -1 /\ Booked(r)
  /\ pc[r] = "settleToken" =>
       /\ s.fundingSettled /\ ~s.settled /\ ~s.refunded
       /\ s.tokenConsumed = s.pre /\ delta[r] = actual[r] - s.pre
  /\ pc[r] \in {"fee", "feeToken"} => actual[r] = -1
  /\ pc[r] \in {"fee", "feeToken", "done"} /\ actual[r] < 0 =>
       /\ ~committed
       /\ job[r] = "none" /\ Undisturbed(r) => FundingHeld(r) = 0 /\ TokenHeld(r) = 0
  /\ pc[r] = "done" /\ actual[r] >= 0 => (Undisturbed(r) => s.settled)
  /\ actual[r] >= -1

\* The inductive invariant of a request.
RequestInv(r) == Phase(r) /\ Accounts(r)

-----------------------------------------------------------------------------
(* A step of one request leaves the others alone.                            *)

\* All of the state that RequestInv(r) reads.
Local(r) ==
  <<pc[r], session[r], delta[r], job[r], paid[r], tokenPaid[r], failed[r],
    actual[r], profile[r]>>

LEMMA Frame ==
  ASSUME NEW q \in Requests, RequestInv(q), Local(q)' = Local(q)
  PROVE  RequestInv(q)'
BY DEF RequestInv, Phase, Accounts, Booked, Reserving, Wallet, FundingHeld, TokenHeld,
   TokenShare, Undisturbed, Local

\* A write that fails is recorded: nothing is claimed to be exact any more.
LEMMA FaultDisturbs ==
  ASSUME TypeOK, NEW r \in Requests, NEW w, Fault(r, w)
  PROVE  ~Undisturbed(r)'
BY DEF TypeOK, Fault, Undisturbed

LEMMA FundingErrorDisturbs ==
  ASSUME TypeOK, NEW r \in Requests, NEW d, NEW w, FundingError(r, d, w)
  PROVE  ~Undisturbed(r)'
BY DEF TypeOK, Fault, FundingError, Undisturbed

\* Before the session is open, a step that writes nothing keeps the accounts.
LEMMA EarlyAccounts ==
  ASSUME NEW r \in Requests, pc[r] \in BeforeOpen, pc'[r] \in BeforeOpen,
         Phase(r), Phase(r)', Accounts(r), job[r] = "none", job'[r] = "none",
         paid'[r] = paid[r], tokenPaid'[r] = tokenPaid[r], failed'[r] = failed[r],
         TokenShare(r, session[r].tokenConsumed)' = TokenShare(r, session[r].tokenConsumed)
  PROVE  Accounts(r)'
<1>1. /\ ~session[r].fundingSettled /\ ~session[r].settled /\ FundingHeld(r) = 0
      /\ TokenHeld(r) = TokenShare(r, session[r].tokenConsumed)
  BY DEF Phase, BeforeOpen, FundingHeld, TokenHeld, Reserving
<1>2. /\ ~session'[r].fundingSettled /\ ~session'[r].settled /\ FundingHeld(r)' = 0
      /\ TokenHeld(r)' = TokenShare(r, session[r].tokenConsumed)'
  BY DEF Phase, BeforeOpen, FundingHeld, TokenHeld, Reserving
<1>3. Undisturbed(r)' => Undisturbed(r)
  BY DEF Undisturbed, BeforeOpen
<1> QED
  BY <1>1, <1>2, <1>3 DEF Accounts

\* The violation fee leaves the accounts of the request as they are.
LEMMA FeeAccounts ==
  ASSUME NEW r \in Requests, RequestInv(r), actual[r] \in Int,
         pc[r] \in {"fee", "feeToken"}, pc'[r] \in {"feeToken", "done"},
         session'[r] = session[r], job'[r] = job[r], profile'[r] = profile[r],
         actual'[r] = actual[r], paid'[r] = paid[r], tokenPaid'[r] = tokenPaid[r],
         failed[r] \subseteq failed'[r]
  PROVE  RequestInv(r)'
<1>1. Phase(r) /\ Accounts(r)
  BY DEF RequestInv
<1>2. Undisturbed(r)' => Undisturbed(r)
  BY DEF Undisturbed
<1>3. FundingHeld(r)' = FundingHeld(r) /\ TokenHeld(r)' = TokenHeld(r)
  BY DEF FundingHeld, TokenHeld, TokenShare, Wallet, Reserving
<1>4. actual[r] = -1
  BY <1>1 DEF Phase
<1>5. Phase(r)'
  BY <1>1, <1>2, <1>3, <1>4 DEF Phase, BeforeOpen, Reserving, Wallet
<1>6. Accounts(r)'
  BY <1>1, <1>2, <1>3, <1>4 DEF Accounts, TokenShare
<1> QED
  BY <1>5, <1>6 DEF RequestInv

LEMMA AccountStep ==
  ASSUME TypeInv, TypeInv', [Next]_vars, NEW S \in SUBSET Requests,
         \A q \in S : RequestInv(q), \A q \in S : "recordSave" \notin failed'[q]
  PROVE  \A q \in S : RequestInv(q)'
<1> USE DEF stores, env, refundVars, history
<1>0. /\ TypeOK /\ TypeOK' /\ \A q \in Requests : PendingOK(q) /\ PendingOK(q)'
      /\ \A q \in S : RequestInv(q)
  BY DEF TypeInv
<1>s. ASSUME NEW q \in Requests
      PROVE  /\ session[q].pre \in Nat /\ session[q].consumed \in Int
             /\ session[q].tokenConsumed \in Nat /\ session[q].extra \in Nat
             /\ session[q].need \in Nat
             /\ delta[q] \in Int /\ paid[q] \in Int /\ tokenPaid[q] \in Int /\ actual[q] \in Int
  BY <1>0, SessionFields DEF TypeOK
<1>b. Actuals \subseteq Nat /\ ReserveTargets \subseteq Nat /\ Fees \subseteq Nat
  BY BillingAssumption
<1>1. ASSUME NEW r \in Requests, Begin(r) PROVE \A q \in S : RequestInv(q)'
  <2>1. ASSUME r \in S PROVE RequestInv(r)'
    <3> USE <2>1
    <3>1. Phase(r)'
      BY <1>1, <1>0, SMTT(30) DEF Begin, trySubscription, NewSession, PendingOK, RequestInv,
         Phase, Reserving, TokenShare, BeforeOpen, TypeOK
    <3>2. Accounts(r)'
      <4>1. /\ pc[r] \in BeforeOpen \ {"fundingPre", "rollbackFallback", "rollbackReject"}
            /\ pc'[r] \in BeforeOpen \ {"fundingPre", "rollbackFallback", "rollbackReject"}
            /\ job[r] = "none" /\ job'[r] = "none" /\ failed'[r] = failed[r]
            /\ paid'[r] = paid[r] /\ tokenPaid'[r] = tokenPaid[r]
        BY <1>1, <1>0 DEF Begin, BeforeOpen, PendingOK, TypeOK
      <4> QED
        BY <4>1, <3>1, <1>0, EarlyAccounts DEF RequestInv, Phase
    <3> QED
      BY <3>1, <3>2 DEF RequestInv
  <2>2. ASSUME NEW q \in Requests, q # r PROVE Local(q)' = Local(q)
    BY <1>1, <2>2, <1>0 DEF Begin, trySubscription, NewSession, Local, TypeOK
  <2> QED
    BY <1>0, <2>1, <2>2, Frame
<1>2. ASSUME NEW r \in Requests, HasSubscription(r) PROVE \A q \in S : RequestInv(q)'
  <2>1. ASSUME r \in S PROVE RequestInv(r)'
    <3> USE <2>1
    <3>1. /\ pc[r] = "hasSub" /\ pc'[r] \in {"tokenRead", "walletCheck"}
          /\ delta'[r] = delta[r] /\ job'[r] = job[r] /\ paid'[r] = paid[r]
          /\ tokenPaid'[r] = tokenPaid[r] /\ actual'[r] = actual[r]
          /\ profile'[r] = profile[r] /\ failed'[r] = failed[r]
      BY <1>2, <1>0 DEF HasSubscription, TypeOK
    <3>2. session'[r] = session[r] \/ session'[r] = trySubscription(r)
      BY <1>2, <1>0 DEF HasSubscription, TypeOK
    <3>3. /\ ~session'[r].fundingSettled /\ ~session'[r].settled /\ ~session'[r].refunded
          /\ session'[r].pre = 0 /\ session'[r].consumed = 0 /\ session'[r].extra = 0
          /\ TokenShare(r, session'[r].tokenConsumed) = 0
      <4>1. CASE session'[r] = session[r]
        BY <4>1, <3>1, <1>0, Zenon DEF RequestInv, Phase, BeforeOpen
      <4>2. CASE session'[r] = trySubscription(r)
        BY <4>2 DEF trySubscription, NewSession, TokenShare
      <4> QED
        BY <3>2, <4>1, <4>2
    <3>4. Phase(r)'
      BY <3>1, <3>3, <1>0, <1>s, SMTT(30) DEF RequestInv, Phase, TokenShare, BeforeOpen,
         Reserving, PendingOK
    <3>5. \/ paid[r] = 0 /\ tokenPaid[r] = 0
          \/ paid[r] >= 0 /\ tokenPaid[r] >= 0 /\ ~Undisturbed(r)
      BY <3>1, <1>0, <1>s, SMTT(30) DEF RequestInv, Phase, Accounts, FundingHeld, TokenHeld,
         TokenShare, BeforeOpen, Reserving, PendingOK
    <3>6. FundingHeld(r)' = 0 /\ TokenHeld(r)' = 0
      BY <3>1, <3>3, SMTT(30) DEF FundingHeld, TokenHeld, TokenShare, Reserving, Wallet
    <3>7. Undisturbed(r)' => Undisturbed(r)
      BY <3>1 DEF Undisturbed
    <3>8. Accounts(r)'
      BY <3>1, <3>3, <3>5, <3>6, <3>7, <1>s, SMTT(30) DEF Accounts
    <3> QED
      BY <3>4, <3>8 DEF RequestInv
  <2>2. ASSUME NEW q \in Requests, q # r PROVE Local(q)' = Local(q)
    BY <1>2, <2>2, <1>0 DEF HasSubscription, trySubscription, NewSession, Local, TypeOK
  <2> QED
    BY <1>0, <2>1, <2>2, Frame
<1>3. ASSUME NEW r \in Requests, WalletCheck(r) PROVE \A q \in S : RequestInv(q)'
  <2>1. ASSUME r \in S PROVE RequestInv(r)'
    <3> USE <2>1
    <3>1. Phase(r)'
      BY <1>3, <1>0, SMTT(30) DEF WalletCheck, tryWallet, trySubscription, NewSession,
         PendingOK, RequestInv, Phase, Reserving, TokenShare, BeforeOpen, TypeOK
    <3>2. Accounts(r)'
      <4>1. /\ pc[r] \in BeforeOpen \ {"fundingPre", "rollbackFallback", "rollbackReject"}
            /\ pc'[r] \in BeforeOpen \ {"fundingPre", "rollbackFallback", "rollbackReject"}
            /\ job[r] = "none" /\ job'[r] = "none" /\ failed'[r] = failed[r]
            /\ paid'[r] = paid[r] /\ tokenPaid'[r] = tokenPaid[r]
        BY <1>3, <1>0 DEF WalletCheck, BeforeOpen, PendingOK, TypeOK
      <4> QED
        BY <4>1, <3>1, <1>0, EarlyAccounts DEF RequestInv, Phase
    <3> QED
      BY <3>1, <3>2 DEF RequestInv
  <2>2. ASSUME NEW q \in Requests, q # r PROVE Local(q)' = Local(q)
    BY <1>3, <2>2, <1>0 DEF WalletCheck, tryWallet, trySubscription, NewSession, Local,
       TypeOK
  <2> QED
    BY <1>0, <2>1, <2>2, Frame
<1>4. ASSUME NEW r \in Requests, TokenRead(r) PROVE \A q \in S : RequestInv(q)'
  <2>1. ASSUME r \in S PROVE RequestInv(r)'
    <3> USE <2>1
    <3>1. Phase(r)'
      BY <1>4, <1>0, SMTT(120) DEF TokenRead, PendingOK, RequestInv, Phase, Reserving,
         TokenShare, BeforeOpen, TypeOK, SessionType
    <3>2. Accounts(r)'
      <4>1. /\ pc[r] \in BeforeOpen /\ pc'[r] \in BeforeOpen
            /\ job[r] = "none" /\ job'[r] = "none" /\ failed'[r] = failed[r]
            /\ paid'[r] = paid[r] /\ tokenPaid'[r] = tokenPaid[r]
        BY <1>4, <1>0 DEF TokenRead, BeforeOpen, PendingOK, TypeOK
      <4>2. TokenShare(r, session[r].tokenConsumed) = 0
        BY <1>4, <1>0 DEF TokenRead, RequestInv, Phase, BeforeOpen
      <4>3. TokenShare(r, session[r].tokenConsumed)' = 0
        BY <1>4, <1>0, <4>2 DEF TokenRead, TokenShare, TypeOK, SessionType
      <4> QED
        BY <4>1, <4>2, <4>3, <3>1, <1>0, EarlyAccounts DEF RequestInv
    <3> QED
      BY <3>1, <3>2 DEF RequestInv
  <2>2. ASSUME NEW q \in Requests, q # r PROVE Local(q)' = Local(q)
    BY <1>4, <2>2, <1>0 DEF TokenRead, Local, TypeOK
  <2> QED
    BY <1>0, <2>1, <2>2, Frame
<1>5. ASSUME NEW r \in Requests, TokenPre(r) PROVE \A q \in S : RequestInv(q)'
  <2>1. ASSUME r \in S PROVE RequestInv(r)'
    <3> USE <2>1
    <3>1. CASE TokenChange(r, session[r].need) /\ pc' = [pc EXCEPT ![r] = "fundingPre"]
              /\ session' = [session EXCEPT ![r].tokenConsumed = session[r].need]
      <4>1. /\ pc[r] = "tokenPre"
            /\ pc'[r] = "fundingPre"
            /\ tokenPaid'[r] = tokenPaid[r] + session[r].need
            /\ delta'[r] = delta[r] /\ job'[r] = job[r] /\ paid'[r] = paid[r]
            /\ actual'[r] = actual[r]
            /\ profile'[r] = profile[r] /\ failed'[r] = failed[r]
            /\ session'[r].tokenConsumed = session[r].need
            /\ session'[r].funding = session[r].funding /\ session'[r].pre = session[r].pre
            /\ session'[r].consumed = session[r].consumed /\ session'[r].extra = session[r].extra
            /\ session'[r].fundingSettled = session[r].fundingSettled /\ session'[r].settled = session[r].settled
            /\ session'[r].refunded = session[r].refunded
            /\ session'[r].need = session[r].need
        BY <1>5, <3>1, <1>0, <1>s DEF TokenPre, TokenChange, NoError, PendingOK,
           TypeOK, SessionType
      <4>3. Phase(r)'
        BY <4>1, <1>0, <1>s, SMTT(30) DEF PendingOK, RequestInv, Phase, Accounts,
           Booked, Reserving, Wallet, FundingHeld, TokenHeld, TokenShare, BeforeOpen,
           Undisturbed
      <4>4. Accounts(r)'
        BY <4>1, <1>0, <1>s, SMTT(30) DEF PendingOK, RequestInv, Phase, Accounts,
           Booked, Reserving, Wallet, FundingHeld, TokenHeld, TokenShare, BeforeOpen,
           Undisturbed
      <4> QED
        BY <4>3, <4>4 DEF RequestInv
    <3>2. CASE TokenError(r, "tokenPre") /\ pc' = [pc EXCEPT ![r] = "rejected"] /\ UNCHANGED session
      <4>0. ~Undisturbed(r)'
        BY <1>0, <3>2, FaultDisturbs DEF TokenError
      <4>1. /\ pc[r] = "tokenPre"
            /\ pc'[r] = "rejected"
            /\ delta'[r] = delta[r] /\ job'[r] = job[r] /\ paid'[r] = paid[r]
            /\ tokenPaid'[r] = tokenPaid[r] /\ actual'[r] = actual[r]
            /\ profile'[r] = profile[r]
            /\ session'[r] = session[r]
        BY <1>5, <3>2, <1>0, <1>s DEF TokenPre, TokenError, PendingOK, TypeOK,
           SessionType
      <4>3. Phase(r)'
        BY <4>1, <4>0, <1>0, <1>s, SMTT(30) DEF PendingOK, RequestInv, Phase, Accounts,
           Booked, Reserving, Wallet, FundingHeld, TokenHeld, TokenShare, BeforeOpen
      <4>4. Accounts(r)'
        BY <4>1, <4>0, <1>0, <1>s, SMTT(30) DEF PendingOK, RequestInv, Phase, Accounts,
           Booked, Reserving, Wallet, FundingHeld, TokenHeld, TokenShare, BeforeOpen
      <4> QED
        BY <4>3, <4>4 DEF RequestInv
    <3> QED
      BY <1>5, <3>1, <3>2, <1>0, <1>s DEF TokenPre
  <2>2. ASSUME NEW q \in Requests, q # r PROVE Local(q)' = Local(q)
    BY <1>5, <2>2, <1>0 DEF TokenPre, TokenChange, TokenError, Fault, NoError, Local,
       TypeOK
  <2> QED
    BY <1>0, <2>1, <2>2, Frame
<1>6. ASSUME NEW r \in Requests, FundingPre(r) PROVE \A q \in S : RequestInv(q)'
  <2>1. ASSUME r \in S PROVE RequestInv(r)'
    <3> USE <2>1
    <3> DEFINE s == session[r]
               need == s.need
    <3>0. /\ pc[r] = "fundingPre" /\ pc'[r] = "open" /\ paid'[r] = paid[r] + need
          /\ session'[r] = [s EXCEPT !.pre = need, !.consumed = need]
          /\ UNCHANGED <<job, profile, failed, actual, delta, tokenPaid>>
      BY <1>6, <1>0 DEF FundingPre, Paid, Goto, TypeOK
    <3>3. /\ session'[r].pre = need /\ session'[r].consumed = need /\ need \in Nat
          /\ session'[r].funding = s.funding /\ session'[r].tokenConsumed = s.tokenConsumed
          /\ session'[r].extra = s.extra /\ session'[r].refunded = s.refunded
          /\ session'[r].fundingSettled = s.fundingSettled /\ session'[r].settled = s.settled
      <4>1. s \in SessionType
        BY <1>0 DEF TypeOK
      <4> HIDE DEF s
      <4> QED
        BY <3>0, <4>1 DEF SessionType
    <3>4. /\ Phase(r) /\ Accounts(r) /\ PendingOK(r)
          /\ paid[r] \in Int /\ tokenPaid[r] \in Int /\ actual[r] \in Int
      BY <1>0 DEF RequestInv, TypeOK
    <3>5. /\ job[r] = "none" /\ ~s.fundingSettled /\ ~s.settled /\ ~s.refunded /\ actual[r] = -1
          /\ s.consumed = 0 /\ s.extra = 0 /\ s.tokenConsumed = need
      BY <3>0, <3>4 DEF PendingOK, Phase, BeforeOpen
    <3> HIDE DEF s, need
    <3>1. Phase(r)'
      BY <3>0, <3>3, <3>5 DEF Phase, Booked, Reserving, Wallet, BeforeOpen, s
    <3>2. Accounts(r)'
      <4>1. FundingHeld(r) = 0 /\ FundingHeld(r)' = need
        BY <3>0, <3>3, <3>5 DEF FundingHeld, Reserving, Wallet, s
      <4>2. TokenHeld(r)' = TokenHeld(r)
        BY <3>0, <3>3, <3>5 DEF TokenHeld, TokenShare, s
      <4>3. /\ paid[r] >= 0 /\ tokenPaid[r] >= TokenHeld(r)
            /\ Undisturbed(r) => paid[r] = 0 /\ tokenPaid[r] = TokenHeld(r)
        BY <3>4, <3>5, <4>1 DEF Accounts, s
      <4>4. Undisturbed(r)' => Undisturbed(r)
        BY <3>0 DEF Undisturbed
      <4> QED
        BY <3>0, <3>3, <3>4, <3>5, <4>1, <4>2, <4>3, <4>4 DEF Accounts
    <3> QED
      BY <3>1, <3>2 DEF RequestInv
  <2>2. ASSUME NEW q \in Requests, q # r PROVE Local(q)' = Local(q)
    BY <1>6, <2>2, <1>0 DEF FundingPre, Paid, Goto, Local, TypeOK
  <2> QED
    BY <1>0, <2>1, <2>2, Frame
<1>7. ASSUME NEW r \in Requests, FundingPreFails(r) PROVE \A q \in S : RequestInv(q)'
  <2>1. ASSUME r \in S PROVE RequestInv(r)'
    <3> USE <2>1
    <3>1. /\ pc[r] = "fundingPre" /\ pc'[r] \in {"rollbackFallback", "rollbackReject"}
          /\ UNCHANGED <<session, job, profile, actual, delta, paid, tokenPaid>>
      BY <1>7, <1>0 DEF FundingPreFails, TypeOK
    <3>2. Undisturbed(r)' => Undisturbed(r)
      <4>1. failed[r] \subseteq failed'[r]
        BY <1>7, <1>0 DEF FundingPreFails, Fault, NoError, TypeOK
      <4> QED
        BY <3>1, <4>1 DEF Undisturbed
    <3>3. Phase(r) /\ Accounts(r) /\ PendingOK(r)
      BY <1>0 DEF RequestInv
    <3>4. FundingHeld(r)' = FundingHeld(r) /\ TokenHeld(r)' = TokenHeld(r)
      BY <3>1 DEF FundingHeld, TokenHeld, TokenShare, Wallet, Reserving
    <3>5. Phase(r)'
      BY <3>1, <3>3 DEF Phase, BeforeOpen, Reserving, Wallet
    <3>6. Accounts(r)'
      BY <3>1, <3>2, <3>3, <3>4 DEF Accounts, TokenShare
    <3> QED
      BY <3>5, <3>6 DEF RequestInv
  <2>2. ASSUME NEW q \in Requests, q # r PROVE Local(q)' = Local(q)
    BY <1>7, <2>2, <1>0 DEF FundingPreFails, Fault, NoError, Local, TypeOK
  <2> QED
    BY <1>0, <2>1, <2>2, Frame
<1>8. ASSUME NEW r \in Requests, RollbackToken(r) PROVE \A q \in S : RequestInv(q)'
  <2>1. ASSUME r \in S PROVE RequestInv(r)'
    <3> USE <2>1
    <3>1. CASE ~profile[r].playground /\ TokenChange(r, -session[r].tokenConsumed)
              /\ session' = [session EXCEPT ![r].tokenConsumed = 0]
      <4>1. /\ pc[r] \in {"rollbackFallback", "rollbackReject"}
            /\ pc'[r] = IF pc[r] = "rollbackFallback" THEN "walletCheck" ELSE "rejected"
            /\ tokenPaid'[r] = tokenPaid[r] - session[r].tokenConsumed
            /\ delta'[r] = delta[r] /\ job'[r] = job[r] /\ paid'[r] = paid[r]
            /\ actual'[r] = actual[r]
            /\ profile'[r] = profile[r] /\ failed'[r] = failed[r]
            /\ session'[r].tokenConsumed = 0
            /\ session'[r].funding = session[r].funding /\ session'[r].pre = session[r].pre
            /\ session'[r].consumed = session[r].consumed /\ session'[r].extra = session[r].extra
            /\ session'[r].fundingSettled = session[r].fundingSettled /\ session'[r].settled = session[r].settled
            /\ session'[r].refunded = session[r].refunded
        BY <1>8, <3>1, <1>0, <1>s DEF RollbackToken, TokenChange, NoError, PendingOK,
           TypeOK, SessionType
      <4>2. ~profile[r].playground
        BY <3>1
      <4>3. Phase(r)'
        BY <4>1, <4>2, <1>0, <1>s, SMTT(30) DEF PendingOK, RequestInv, Phase, Accounts,
           Booked, Reserving, Wallet, FundingHeld, TokenHeld, TokenShare, BeforeOpen,
           Undisturbed
      <4>4. Accounts(r)'
        BY <4>1, <4>2, <1>0, <1>s, SMTT(30) DEF PendingOK, RequestInv, Phase, Accounts,
           Booked, Reserving, Wallet, FundingHeld, TokenHeld, TokenShare, BeforeOpen,
           Undisturbed
      <4> QED
        BY <4>3, <4>4 DEF RequestInv
    <3>2. CASE TokenError(r, "tokenRollback") /\ session[r].tokenConsumed > 0
              /\ session' = [session EXCEPT ![r].tokenConsumed = 0]
      <4>0. ~Undisturbed(r)'
        BY <1>0, <3>2, FaultDisturbs DEF TokenError
      <4>1. /\ pc[r] \in {"rollbackFallback", "rollbackReject"}
            /\ pc'[r] = IF pc[r] = "rollbackFallback" THEN "walletCheck" ELSE "rejected"
            /\ delta'[r] = delta[r] /\ job'[r] = job[r] /\ paid'[r] = paid[r]
            /\ tokenPaid'[r] = tokenPaid[r] /\ actual'[r] = actual[r]
            /\ profile'[r] = profile[r]
            /\ session'[r].tokenConsumed = 0
            /\ session'[r].funding = session[r].funding /\ session'[r].pre = session[r].pre
            /\ session'[r].consumed = session[r].consumed /\ session'[r].extra = session[r].extra
            /\ session'[r].fundingSettled = session[r].fundingSettled /\ session'[r].settled = session[r].settled
            /\ session'[r].refunded = session[r].refunded
        BY <1>8, <3>2, <1>0, <1>s DEF RollbackToken, TokenError, PendingOK, TypeOK,
           SessionType
      <4>3. Phase(r)'
        BY <4>1, <4>0, <1>0, <1>s, SMTT(30) DEF PendingOK, RequestInv, Phase, Accounts,
           Booked, Reserving, Wallet, FundingHeld, TokenHeld, TokenShare, BeforeOpen
      <4>4. Accounts(r)'
        BY <4>1, <4>0, <1>0, <1>s, SMTT(30) DEF PendingOK, RequestInv, Phase, Accounts,
           Booked, Reserving, Wallet, FundingHeld, TokenHeld, TokenShare, BeforeOpen
      <4> QED
        BY <4>3, <4>4 DEF RequestInv
    <3>3. CASE (session[r].tokenConsumed = 0 \/ profile[r].playground)
              /\ UNCHANGED <<token, tokenPaid, session, failed, faults>>
      <4>1. /\ pc[r] \in {"rollbackFallback", "rollbackReject"}
            /\ pc'[r] = IF pc[r] = "rollbackFallback" THEN "walletCheck" ELSE "rejected"
            /\ delta'[r] = delta[r] /\ job'[r] = job[r] /\ paid'[r] = paid[r]
            /\ tokenPaid'[r] = tokenPaid[r] /\ actual'[r] = actual[r]
            /\ profile'[r] = profile[r] /\ failed'[r] = failed[r]
            /\ session'[r] = session[r]
        BY <1>8, <3>3, <1>0, <1>s DEF RollbackToken, PendingOK, TypeOK, SessionType
      <4>2. session[r].tokenConsumed = 0 \/ profile[r].playground
        BY <3>3
      <4>3. Phase(r)'
        BY <4>1, <4>2, <1>0, <1>s, SMTT(30) DEF PendingOK, RequestInv, Phase, Accounts,
           Booked, Reserving, Wallet, FundingHeld, TokenHeld, TokenShare, BeforeOpen,
           Undisturbed
      <4>4. Accounts(r)'
        BY <4>1, <4>2, <1>0, <1>s, SMTT(30) DEF PendingOK, RequestInv, Phase, Accounts,
           Booked, Reserving, Wallet, FundingHeld, TokenHeld, TokenShare, BeforeOpen,
           Undisturbed
      <4> QED
        BY <4>3, <4>4 DEF RequestInv
    <3> QED
      BY <1>8, <3>1, <3>2, <3>3, <1>0, <1>s DEF RollbackToken, TypeOK, SessionType
  <2>2. ASSUME NEW q \in Requests, q # r PROVE Local(q)' = Local(q)
    BY <1>8, <2>2, <1>0 DEF RollbackToken, TokenChange, TokenError, Fault, NoError,
       Local, TypeOK
  <2> QED
    BY <1>0, <2>1, <2>2, Frame
<1>9. ASSUME NEW r \in Requests, NEW t \in ReserveTargets, Reserve(r, t) PROVE \A q \in S : RequestInv(q)'
  <2>1. ASSUME r \in S PROVE RequestInv(r)'
    <3> USE <2>1
    <3>0. /\ pc[r] = "open" /\ job'[r] = job[r] /\ actual'[r] = actual[r]
          /\ profile'[r] = profile[r] /\ tokenPaid'[r] = tokenPaid[r]
      BY <1>9 DEF Reserve
    <3>1. CASE FundingChange(r, t - session[r].pre) /\ pc' # pc
      <4>1. /\ pc'[r] = "reserveTokenRead" /\ failed'[r] = failed[r]
            /\ delta'[r] = t - session[r].pre /\ delta'[r] > 0
            /\ paid'[r] = paid[r] + delta'[r]
            /\ session'[r] = [session[r] EXCEPT !.consumed = IF Wallet(r) THEN @ + delta'[r] ELSE @]
        BY <1>9, <3>1, <1>0, <1>s, <1>b DEF Reserve, Paid, FundingChange, NoError, TypeOK
      <4>2. /\ session'[r].funding = session[r].funding /\ session'[r].pre = session[r].pre
            /\ session'[r].tokenConsumed = session[r].tokenConsumed
            /\ session'[r].extra = session[r].extra /\ session'[r].need = session[r].need
            /\ session'[r].settled = session[r].settled
            /\ session'[r].fundingSettled = session[r].fundingSettled
            /\ session'[r].refunded = session[r].refunded
            /\ Wallet(r) => session'[r].consumed = session[r].consumed + delta'[r]
            /\ ~Wallet(r) => session'[r].consumed = session[r].consumed
        BY <4>1, <1>0 DEF TypeOK, SessionType
      <4>3. delta'[r] \in Int /\ (Undisturbed(r)' <=> Undisturbed(r)) /\ (Wallet(r)' <=> Wallet(r))
        BY <3>0, <4>1, <4>2, <1>0 DEF TypeOK, Undisturbed, Wallet
      <4>4. Phase(r)'
        BY <3>0, <4>1, <4>2, <4>3, <1>0, <1>s, SMTT(30) DEF PendingOK, RequestInv, Phase, Booked,
           Reserving, TokenShare, BeforeOpen
      <4>5. /\ job[r] = "none" /\ Accounts(r)
            /\ ~session[r].fundingSettled /\ ~session[r].settled
        BY <3>0, <1>0 DEF PendingOK, RequestInv, Phase
      <4>6. /\ FundingHeld(r)' = FundingHeld(r) + delta'[r] /\ TokenHeld(r)' = TokenHeld(r)
            /\ FundingHeld(r) \in Int
        BY <3>0, <4>1, <4>2, <4>3, <4>5, <1>s DEF FundingHeld, TokenHeld, TokenShare, Reserving
      <4>7. Accounts(r)'
        BY <3>0, <4>1, <4>2, <4>3, <4>5, <4>6, <1>s DEF Accounts
      <4> QED
        BY <4>4, <4>7 DEF RequestInv
    <3>2. CASE FundingError(r, t - session[r].pre, "reserveFunding") /\ pc' = pc
      <4>1. ~Undisturbed(r)'
        BY <1>0, <3>2, FundingErrorDisturbs
      <4>2. /\ pc'[r] = pc[r] /\ session'[r] = session[r] /\ delta'[r] = delta[r]
            /\ paid'[r] = paid[r]
        BY <1>9, <3>2, <3>0, <1>0 DEF Reserve, TypeOK
      <4>3. Phase(r)'
        BY <3>0, <4>1, <4>2, <1>0, <1>s, SMTT(30) DEF PendingOK, RequestInv, Phase, Booked,
           Reserving, Wallet, TokenShare, BeforeOpen
      <4>4. Accounts(r)'
        BY <3>0, <4>1, <4>2, <1>0, <1>s, SMTT(30) DEF RequestInv, Phase, Accounts, Booked,
           Reserving, Wallet, FundingHeld, TokenHeld, TokenShare
      <4> QED
        BY <4>3, <4>4 DEF RequestInv
    <3> QED
      <4>1. CASE pc' = pc
        BY <1>9, <3>0, <3>2, <4>1, <1>0 DEF Reserve, TypeOK
      <4>2. CASE pc' # pc
        BY <1>9, <3>1, <4>2 DEF Reserve
      <4> QED
        BY <4>1, <4>2
  <2>2. ASSUME NEW q \in Requests, q # r PROVE Local(q)' = Local(q)
    BY <1>9, <2>2, <1>0 DEF Reserve, Paid, FundingChange, FundingError, Fault, NoError,
       Local, TypeOK
  <2> QED
    BY <1>0, <2>1, <2>2, Frame
<1>10. ASSUME NEW r \in Requests, ReserveTokenRead(r) PROVE \A q \in S : RequestInv(q)'
  <2>1. ASSUME r \in S PROVE RequestInv(r)'
    <3> USE <2>1
    <3> DEFINE s == session[r]
               d == delta[r]
    <3>0. /\ pc[r] = "reserveTokenRead"
          /\ \/ profile[r].playground /\ pc'[r] = "open" /\ session'[r] = Reserved(s, d)
             \/ /\ ~profile[r].playground /\ pc'[r] \in {"reserveToken", "reserveRollback"}
                /\ session'[r] = s
          /\ UNCHANGED <<job, profile, failed, actual, delta, paid, tokenPaid>>
      BY <1>10, <1>0 DEF ReserveTokenRead, TypeOK
    <3>3. /\ Phase(r) /\ Accounts(r) /\ PendingOK(r)
          /\ paid[r] \in Int /\ tokenPaid[r] \in Int /\ d \in Int
          /\ s.pre \in Nat /\ s.consumed \in Int /\ s.tokenConsumed \in Nat /\ s.extra \in Nat
      BY <1>0, <1>s DEF RequestInv, TypeOK
    <3>4. /\ ~s.fundingSettled /\ ~s.settled /\ ~s.refunded /\ actual[r] = -1 /\ s.consumed >= 0
          /\ Booked(r) /\ job[r] = "none" /\ Reserving(r) /\ d >= 0
      BY <3>0, <3>3 DEF Phase, PendingOK, Reserving
    <3>5. Undisturbed(r)' => Undisturbed(r)
      BY <3>0 DEF Undisturbed
    <3>6. CASE session'[r] = s /\ ~profile[r].playground /\ pc'[r] \in {"reserveToken", "reserveRollback"}
      <4>1. Booked(r)' /\ Reserving(r)'
        BY <3>0, <3>4, <3>5, <3>6 DEF Booked, Reserving, Wallet
      <4>2. Phase(r)'
        BY <3>0, <3>4, <3>6, <4>1 DEF Phase, Reserving, Wallet, BeforeOpen
      <4>3. FundingHeld(r)' = FundingHeld(r) /\ TokenHeld(r)' = TokenHeld(r)
        BY <3>0, <3>4, <3>6, <4>1 DEF FundingHeld, TokenHeld, TokenShare, Wallet
      <4>4. Accounts(r)'
        BY <3>0, <3>3, <3>4, <3>5, <3>6, <4>3 DEF Accounts
      <4> QED
        BY <4>2, <4>4 DEF RequestInv
    <3>7. CASE session'[r] = Reserved(s, d) /\ profile[r].playground /\ pc'[r] = "open"
      <4>1. /\ session'[r].pre = s.pre + d /\ session'[r].extra = s.extra + d
            /\ session'[r].tokenConsumed = s.tokenConsumed + d
            /\ session'[r].consumed = s.consumed /\ session'[r].funding = s.funding
            /\ session'[r].refunded = s.refunded
            /\ session'[r].fundingSettled = s.fundingSettled /\ session'[r].settled = s.settled
        <5>1. s \in SessionType
          BY <1>0 DEF TypeOK
        <5> HIDE DEF s, d
        <5> QED
          BY <3>7, <5>1 DEF SessionType, Reserved
      <4>2. Booked(r)'
        BY <3>0, <3>3, <3>4, <3>5, <3>7, <4>1 DEF Booked, Reserving, Wallet
      <4>3. Phase(r)'
        BY <3>0, <3>4, <3>7, <4>1, <4>2 DEF Phase, Reserving, Wallet, BeforeOpen
      <4>4. FundingHeld(r)' = FundingHeld(r)
        BY <3>0, <3>3, <3>4, <3>7, <4>1 DEF FundingHeld, Reserving, Wallet
      <4>5. TokenHeld(r)' = 0 /\ TokenHeld(r) = 0
        BY <3>0, <3>7 DEF TokenHeld, TokenShare
      <4>6. Accounts(r)'
        BY <3>0, <3>3, <3>4, <3>5, <4>1, <4>4, <4>5 DEF Accounts
      <4> QED
        BY <4>3, <4>6 DEF RequestInv
    <3> QED
      BY <3>0, <3>6, <3>7
  <2>2. ASSUME NEW q \in Requests, q # r PROVE Local(q)' = Local(q)
    BY <1>10, <2>2, <1>0 DEF ReserveTokenRead, Reserved, Local, TypeOK
  <2> QED
    BY <1>0, <2>1, <2>2, Frame
<1>11. ASSUME NEW r \in Requests, ReserveToken(r) PROVE \A q \in S : RequestInv(q)'
  <2>1. ASSUME r \in S PROVE RequestInv(r)'
    <3> USE <2>1
    <3>1. CASE TokenChange(r, delta[r]) /\ pc' = [pc EXCEPT ![r] = "open"]
              /\ session' = [session EXCEPT ![r] = Reserved(@, delta[r])]
      <4>1. /\ pc[r] = "reserveToken"
            /\ pc'[r] = "open"
            /\ tokenPaid'[r] = tokenPaid[r] + delta[r]
            /\ delta'[r] = delta[r] /\ job'[r] = job[r] /\ paid'[r] = paid[r]
            /\ actual'[r] = actual[r]
            /\ profile'[r] = profile[r] /\ failed'[r] = failed[r]
            /\ session'[r].pre = session[r].pre + delta[r]
            /\ session'[r].tokenConsumed = session[r].tokenConsumed + delta[r]
            /\ session'[r].extra = session[r].extra + delta[r]
            /\ session'[r].funding = session[r].funding /\ session'[r].consumed = session[r].consumed
            /\ session'[r].fundingSettled = session[r].fundingSettled /\ session'[r].settled = session[r].settled
            /\ session'[r].refunded = session[r].refunded
        BY <1>11, <3>1, <1>0, <1>s DEF ReserveToken, TokenChange, NoError, Reserved,
           PendingOK, TypeOK, SessionType
      <4>3. Phase(r)'
        BY <4>1, <1>0, <1>s, SMTT(30) DEF PendingOK, RequestInv, Phase, Accounts,
           Booked, Reserving, Wallet, FundingHeld, TokenHeld, TokenShare, BeforeOpen,
           Undisturbed
      <4>4. Accounts(r)'
        BY <4>1, <1>0, <1>s, SMTT(30) DEF PendingOK, RequestInv, Phase, Accounts,
           Booked, Reserving, Wallet, FundingHeld, TokenHeld, TokenShare, BeforeOpen,
           Undisturbed
      <4> QED
        BY <4>3, <4>4 DEF RequestInv
    <3>2. CASE TokenError(r, "reserveToken") /\ pc' = [pc EXCEPT ![r] = "reserveRollback"] /\ UNCHANGED session
      <4>0. ~Undisturbed(r)'
        BY <1>0, <3>2, FaultDisturbs DEF TokenError
      <4>1. /\ pc[r] = "reserveToken"
            /\ pc'[r] = "reserveRollback"
            /\ delta'[r] = delta[r] /\ job'[r] = job[r] /\ paid'[r] = paid[r]
            /\ tokenPaid'[r] = tokenPaid[r] /\ actual'[r] = actual[r]
            /\ profile'[r] = profile[r]
            /\ session'[r] = session[r]
        BY <1>11, <3>2, <1>0, <1>s DEF ReserveToken, TokenError, PendingOK, TypeOK,
           SessionType
      <4>3. Phase(r)'
        BY <4>1, <4>0, <1>0, <1>s, SMTT(30) DEF PendingOK, RequestInv, Phase, Accounts,
           Booked, Reserving, Wallet, FundingHeld, TokenHeld, TokenShare, BeforeOpen
      <4>4. Accounts(r)'
        BY <4>1, <4>0, <1>0, <1>s, SMTT(30) DEF PendingOK, RequestInv, Phase, Accounts,
           Booked, Reserving, Wallet, FundingHeld, TokenHeld, TokenShare, BeforeOpen
      <4> QED
        BY <4>3, <4>4 DEF RequestInv
    <3> QED
      BY <1>11, <3>1, <3>2, <1>0, <1>s DEF ReserveToken
  <2>2. ASSUME NEW q \in Requests, q # r PROVE Local(q)' = Local(q)
    BY <1>11, <2>2, <1>0 DEF ReserveToken, Reserved, TokenChange, TokenError, Fault,
       NoError, Local, TypeOK
  <2> QED
    BY <1>0, <2>1, <2>2, Frame
<1>12. ASSUME NEW r \in Requests, ReserveRollback(r) PROVE \A q \in S : RequestInv(q)'
  <2>1. ASSUME r \in S PROVE RequestInv(r)'
    <3> USE <2>1
    <3>1. CASE FundingChange(r, -delta[r]) /\ Paid(r, -delta[r])
              /\ session' = [session EXCEPT ![r].consumed = IF Wallet(r) THEN @ - delta[r] ELSE @]
      <4>1. /\ pc[r] = "reserveRollback"
            /\ pc'[r] = "open"
            /\ paid'[r] = paid[r] - delta[r]
            /\ delta'[r] = delta[r] /\ job'[r] = job[r] /\ tokenPaid'[r] = tokenPaid[r]
            /\ actual'[r] = actual[r]
            /\ profile'[r] = profile[r] /\ failed'[r] = failed[r]
            /\ session'[r].consumed = IF Wallet(r) THEN session[r].consumed - delta[r] ELSE session[r].consumed
            /\ session'[r].funding = session[r].funding /\ session'[r].pre = session[r].pre
            /\ session'[r].tokenConsumed = session[r].tokenConsumed /\ session'[r].extra = session[r].extra
            /\ session'[r].fundingSettled = session[r].fundingSettled /\ session'[r].settled = session[r].settled
            /\ session'[r].refunded = session[r].refunded
        BY <1>12, <3>1, <1>0, <1>s DEF ReserveRollback, FundingChange, Paid, NoError,
           Goto, PendingOK, TypeOK, SessionType
      <4>3. Phase(r)'
        BY <4>1, <1>0, <1>s, SMTT(30) DEF PendingOK, RequestInv, Phase, Accounts,
           Booked, Reserving, Wallet, FundingHeld, TokenHeld, TokenShare, BeforeOpen,
           Undisturbed
      <4>4. Accounts(r)'
        BY <4>1, <1>0, <1>s, SMTT(30) DEF PendingOK, RequestInv, Phase, Accounts,
           Booked, Reserving, Wallet, FundingHeld, TokenHeld, TokenShare, BeforeOpen,
           Undisturbed
      <4> QED
        BY <4>3, <4>4 DEF RequestInv
    <3>2. CASE FundingError(r, -delta[r], "reserveRollback") /\ UNCHANGED <<session, paid>>
      <4>0. ~Undisturbed(r)'
        BY <1>0, <3>2, FundingErrorDisturbs
      <4>1. /\ pc[r] = "reserveRollback"
            /\ pc'[r] = "open"
            /\ delta'[r] = delta[r] /\ job'[r] = job[r] /\ paid'[r] = paid[r]
            /\ tokenPaid'[r] = tokenPaid[r] /\ actual'[r] = actual[r]
            /\ profile'[r] = profile[r]
            /\ session'[r] = session[r]
        BY <1>12, <3>2, <1>0, <1>s DEF ReserveRollback, FundingError, Goto, PendingOK,
           TypeOK, SessionType
      <4>3. Phase(r)'
        BY <4>1, <4>0, <1>0, <1>s, SMTT(30) DEF PendingOK, RequestInv, Phase, Accounts,
           Booked, Reserving, Wallet, FundingHeld, TokenHeld, TokenShare, BeforeOpen
      <4>4. Accounts(r)'
        BY <4>1, <4>0, <1>0, <1>s, SMTT(30) DEF PendingOK, RequestInv, Phase, Accounts,
           Booked, Reserving, Wallet, FundingHeld, TokenHeld, TokenShare, BeforeOpen
      <4> QED
        BY <4>3, <4>4 DEF RequestInv
    <3> QED
      BY <1>12, <3>1, <3>2, <1>0, <1>s DEF ReserveRollback
  <2>2. ASSUME NEW q \in Requests, q # r PROVE Local(q)' = Local(q)
    BY <1>12, <2>2, <1>0 DEF ReserveRollback, Paid, Goto, FundingChange, FundingError,
       Fault, NoError, Local, TypeOK
  <2> QED
    BY <1>0, <2>1, <2>2, Frame
<1>13. ASSUME NEW r \in Requests, NEW a \in Actuals, Settle(r, a) PROVE \A q \in S : RequestInv(q)'
  <2>1. ASSUME r \in S PROVE RequestInv(r)'
    <3> USE <2>1
    <3>1. CASE SettleDelta(r, a) = 0 /\ pc' = [pc EXCEPT ![r] = "done"]
              /\ session' = [session EXCEPT ![r].settled = TRUE]
              /\ UNCHANGED <<wallet, sub, delta, paid, failed, faults>>
      <4>1. /\ pc[r] = "open"
            /\ pc'[r] = "done"
            /\ actual'[r] = a
            /\ delta'[r] = delta[r] /\ job'[r] = job[r] /\ paid'[r] = paid[r]
            /\ tokenPaid'[r] = tokenPaid[r]
            /\ profile'[r] = profile[r] /\ failed'[r] = failed[r]
            /\ session'[r].settled = TRUE
            /\ session'[r].funding = session[r].funding /\ session'[r].pre = session[r].pre
            /\ session'[r].consumed = session[r].consumed /\ session'[r].tokenConsumed = session[r].tokenConsumed
            /\ session'[r].extra = session[r].extra /\ session'[r].fundingSettled = session[r].fundingSettled
            /\ session'[r].refunded = session[r].refunded
        BY <1>13, <3>1, <1>0, <1>s, <1>b DEF Settle, SettleDelta, PendingOK, TypeOK,
           SessionType
      <4>2. a = session[r].pre
        BY <3>1, <1>s, <1>b DEF SettleDelta
      <4>3. Phase(r)'
        BY <4>1, <4>2, <1>0, <1>s, <1>b, SMTT(30) DEF PendingOK, RequestInv, Phase,
           Accounts, Booked, Reserving, Wallet, FundingHeld, TokenHeld, TokenShare,
           BeforeOpen, Undisturbed
      <4>4. Accounts(r)'
        BY <4>1, <4>2, <1>0, <1>s, <1>b, SMTT(30) DEF PendingOK, RequestInv, Phase,
           Accounts, Booked, Reserving, Wallet, FundingHeld, TokenHeld, TokenShare,
           BeforeOpen, Undisturbed
      <4> QED
        BY <4>3, <4>4 DEF RequestInv
    <3>2. CASE SettleDelta(r, a) # 0 /\ FundingChange(r, SettleDelta(r, a))
              /\ session' = [session EXCEPT ![r].fundingSettled = TRUE]
              /\ delta' = [delta EXCEPT ![r] = SettleDelta(r, a)]
              /\ pc' = [pc EXCEPT ![r] = "settleToken"] /\ Paid(r, SettleDelta(r, a))
      <4>1. /\ pc[r] = "open"
            /\ pc'[r] = "settleToken"
            /\ delta'[r] = a - session[r].pre
            /\ paid'[r] = paid[r] + (a - session[r].pre)
            /\ actual'[r] = a
            /\ job'[r] = job[r] /\ tokenPaid'[r] = tokenPaid[r]
            /\ profile'[r] = profile[r] /\ failed'[r] = failed[r]
            /\ session'[r].fundingSettled = TRUE
            /\ session'[r].funding = session[r].funding /\ session'[r].pre = session[r].pre
            /\ session'[r].consumed = session[r].consumed /\ session'[r].tokenConsumed = session[r].tokenConsumed
            /\ session'[r].extra = session[r].extra /\ session'[r].settled = session[r].settled
            /\ session'[r].refunded = session[r].refunded
        BY <1>13, <3>2, <1>0, <1>s, <1>b DEF Settle, SettleDelta, FundingChange, Paid,
           NoError, PendingOK, TypeOK, SessionType
      <4>3. Phase(r)'
        BY <4>1, <1>0, <1>s, <1>b, SMTT(30) DEF PendingOK, RequestInv, Phase, Accounts,
           Booked, Reserving, Wallet, FundingHeld, TokenHeld, TokenShare, BeforeOpen,
           Undisturbed
      <4>4. Accounts(r)'
        BY <4>1, <1>0, <1>s, <1>b, SMTT(30) DEF PendingOK, RequestInv, Phase, Accounts,
           Booked, Reserving, Wallet, FundingHeld, TokenHeld, TokenShare, BeforeOpen,
           Undisturbed
      <4> QED
        BY <4>3, <4>4 DEF RequestInv
    <3>3. CASE SettleDelta(r, a) # 0 /\ FundingError(r, SettleDelta(r, a), "fundingSettle")
              /\ pc' = [pc EXCEPT ![r] = "done"] /\ UNCHANGED <<session, delta, paid>>
      <4>0. ~Undisturbed(r)'
        BY <1>0, <3>3, FundingErrorDisturbs
      <4>1. /\ pc[r] = "open"
            /\ pc'[r] = "done"
            /\ actual'[r] = a
            /\ delta'[r] = delta[r] /\ job'[r] = job[r] /\ paid'[r] = paid[r]
            /\ tokenPaid'[r] = tokenPaid[r]
            /\ profile'[r] = profile[r]
            /\ session'[r] = session[r]
        BY <1>13, <3>3, <1>0, <1>s, <1>b DEF Settle, FundingError, PendingOK, TypeOK,
           SessionType
      <4>3. Phase(r)'
        BY <4>1, <4>0, <1>0, <1>s, <1>b, SMTT(30) DEF PendingOK, RequestInv, Phase,
           Accounts, Booked, Reserving, Wallet, FundingHeld, TokenHeld, TokenShare,
           BeforeOpen
      <4>4. Accounts(r)'
        BY <4>1, <4>0, <1>0, <1>s, <1>b, SMTT(30) DEF PendingOK, RequestInv, Phase,
           Accounts, Booked, Reserving, Wallet, FundingHeld, TokenHeld, TokenShare,
           BeforeOpen
      <4> QED
        BY <4>3, <4>4 DEF RequestInv
    <3> QED
      BY <1>13, <3>1, <3>2, <3>3, <1>0, <1>s DEF Settle, SettleDelta
  <2>2. ASSUME NEW q \in Requests, q # r PROVE Local(q)' = Local(q)
    BY <1>13, <2>2, <1>0 DEF Settle, SettleDelta, Paid, FundingChange, FundingError,
       Fault, NoError, Local, TypeOK
  <2> QED
    BY <1>0, <2>1, <2>2, Frame
<1>14. ASSUME NEW r \in Requests, SettleToken(r) PROVE \A q \in S : RequestInv(q)'
  <2>1. ASSUME r \in S PROVE RequestInv(r)'
    <3> USE <2>1
    <3>1. CASE ~profile[r].playground /\ TokenChange(r, delta[r])
      <4>1. /\ pc[r] = "settleToken"
            /\ pc'[r] = "done"
            /\ tokenPaid'[r] = tokenPaid[r] + delta[r]
            /\ delta'[r] = delta[r] /\ job'[r] = job[r] /\ paid'[r] = paid[r]
            /\ actual'[r] = actual[r]
            /\ profile'[r] = profile[r] /\ failed'[r] = failed[r]
            /\ session'[r].settled = TRUE
            /\ session'[r].funding = session[r].funding /\ session'[r].pre = session[r].pre
            /\ session'[r].consumed = session[r].consumed /\ session'[r].tokenConsumed = session[r].tokenConsumed
            /\ session'[r].extra = session[r].extra /\ session'[r].fundingSettled = session[r].fundingSettled
            /\ session'[r].refunded = session[r].refunded
        BY <1>14, <3>1, <1>0, <1>s DEF SettleToken, Goto, TokenChange, NoError,
           PendingOK, TypeOK, SessionType
      <4>2. ~profile[r].playground
        BY <3>1
      <4>3. Phase(r)'
        BY <4>1, <4>2, <1>0, <1>s, SMTT(30) DEF PendingOK, RequestInv, Phase, Accounts,
           Booked, Reserving, Wallet, FundingHeld, TokenHeld, TokenShare, BeforeOpen,
           Undisturbed
      <4>4. Accounts(r)'
        BY <4>1, <4>2, <1>0, <1>s, SMTT(30) DEF PendingOK, RequestInv, Phase, Accounts,
           Booked, Reserving, Wallet, FundingHeld, TokenHeld, TokenShare, BeforeOpen,
           Undisturbed
      <4> QED
        BY <4>3, <4>4 DEF RequestInv
    <3>2. CASE ~profile[r].playground /\ TokenError(r, "tokenSettle")
      <4>0. ~Undisturbed(r)'
        BY <1>0, <3>2, FaultDisturbs DEF TokenError
      <4>1. /\ pc[r] = "settleToken"
            /\ pc'[r] = "done"
            /\ delta'[r] = delta[r] /\ job'[r] = job[r] /\ paid'[r] = paid[r]
            /\ tokenPaid'[r] = tokenPaid[r] /\ actual'[r] = actual[r]
            /\ profile'[r] = profile[r]
            /\ session'[r].settled = TRUE
            /\ session'[r].funding = session[r].funding /\ session'[r].pre = session[r].pre
            /\ session'[r].consumed = session[r].consumed /\ session'[r].tokenConsumed = session[r].tokenConsumed
            /\ session'[r].extra = session[r].extra /\ session'[r].fundingSettled = session[r].fundingSettled
            /\ session'[r].refunded = session[r].refunded
        BY <1>14, <3>2, <1>0, <1>s DEF SettleToken, Goto, TokenError, PendingOK,
           TypeOK, SessionType
      <4>3. Phase(r)'
        BY <4>1, <4>0, <1>0, <1>s, SMTT(30) DEF PendingOK, RequestInv, Phase, Accounts,
           Booked, Reserving, Wallet, FundingHeld, TokenHeld, TokenShare, BeforeOpen
      <4>4. Accounts(r)'
        BY <4>1, <4>0, <1>0, <1>s, SMTT(30) DEF PendingOK, RequestInv, Phase, Accounts,
           Booked, Reserving, Wallet, FundingHeld, TokenHeld, TokenShare, BeforeOpen
      <4> QED
        BY <4>3, <4>4 DEF RequestInv
    <3>3. CASE profile[r].playground /\ UNCHANGED <<token, tokenPaid, failed, faults>>
      <4>1. /\ pc[r] = "settleToken"
            /\ pc'[r] = "done"
            /\ delta'[r] = delta[r] /\ job'[r] = job[r] /\ paid'[r] = paid[r]
            /\ tokenPaid'[r] = tokenPaid[r] /\ actual'[r] = actual[r]
            /\ profile'[r] = profile[r] /\ failed'[r] = failed[r]
            /\ session'[r].settled = TRUE
            /\ session'[r].funding = session[r].funding /\ session'[r].pre = session[r].pre
            /\ session'[r].consumed = session[r].consumed /\ session'[r].tokenConsumed = session[r].tokenConsumed
            /\ session'[r].extra = session[r].extra /\ session'[r].fundingSettled = session[r].fundingSettled
            /\ session'[r].refunded = session[r].refunded
        BY <1>14, <3>3, <1>0, <1>s DEF SettleToken, Goto, PendingOK, TypeOK, SessionType
      <4>2. profile[r].playground
        BY <3>3
      <4>3. Phase(r)'
        BY <4>1, <4>2, <1>0, <1>s, SMTT(30) DEF PendingOK, RequestInv, Phase, Accounts,
           Booked, Reserving, Wallet, FundingHeld, TokenHeld, TokenShare, BeforeOpen,
           Undisturbed
      <4>4. Accounts(r)'
        BY <4>1, <4>2, <1>0, <1>s, SMTT(30) DEF PendingOK, RequestInv, Phase, Accounts,
           Booked, Reserving, Wallet, FundingHeld, TokenHeld, TokenShare, BeforeOpen,
           Undisturbed
      <4> QED
        BY <4>3, <4>4 DEF RequestInv
    <3> QED
      BY <1>14, <3>1, <3>2, <3>3, <1>0, <1>s DEF SettleToken
  <2>2. ASSUME NEW q \in Requests, q # r PROVE Local(q)' = Local(q)
    BY <1>14, <2>2, <1>0 DEF SettleToken, Goto, TokenChange, TokenError, Fault,
       NoError, Local, TypeOK
  <2> QED
    BY <1>0, <2>1, <2>2, Frame
<1>15. ASSUME NEW r \in Requests, Refund(r) PROVE \A q \in S : RequestInv(q)'
  <2>1. ASSUME r \in S PROVE RequestInv(r)'
    <3> USE <2>1
    <3>1. CASE NeedsRefund(session[r])
      <4>1. /\ pc[r] = "open"
            /\ pc'[r] = "fee"
            /\ job'[r] = "funding"
            /\ delta'[r] = delta[r] /\ paid'[r] = paid[r] /\ tokenPaid'[r] = tokenPaid[r]
            /\ actual'[r] = actual[r]
            /\ profile'[r] = profile[r] /\ failed'[r] = failed[r]
            /\ session'[r].refunded = TRUE
            /\ session'[r].funding = session[r].funding /\ session'[r].pre = session[r].pre
            /\ session'[r].consumed = session[r].consumed /\ session'[r].tokenConsumed = session[r].tokenConsumed
            /\ session'[r].extra = session[r].extra /\ session'[r].fundingSettled = session[r].fundingSettled
            /\ session'[r].settled = session[r].settled
        BY <1>15, <3>1, <1>0, <1>s DEF Refund, Goto, PendingOK, TypeOK, SessionType
      <4>3. Phase(r)'
        BY <4>1, <1>0, <1>s, SMTT(30) DEF PendingOK, RequestInv, Phase, Accounts,
           Booked, Reserving, Wallet, FundingHeld, TokenHeld, TokenShare, BeforeOpen,
           Undisturbed
      <4>4. Accounts(r)'
        BY <4>1, <1>0, <1>s, SMTT(30) DEF PendingOK, RequestInv, Phase, Accounts,
           Booked, Reserving, Wallet, FundingHeld, TokenHeld, TokenShare, BeforeOpen,
           Undisturbed
      <4> QED
        BY <4>3, <4>4 DEF RequestInv
    <3>2. CASE ~NeedsRefund(session[r])
      <4>1. /\ pc[r] = "open"
            /\ pc'[r] = "fee"
            /\ delta'[r] = delta[r] /\ job'[r] = job[r] /\ paid'[r] = paid[r]
            /\ tokenPaid'[r] = tokenPaid[r] /\ actual'[r] = actual[r]
            /\ profile'[r] = profile[r] /\ failed'[r] = failed[r]
            /\ session'[r] = session[r]
            /\ session[r].tokenConsumed = 0
        BY <1>15, <3>2, <1>0, <1>s DEF Refund, Goto, NeedsRefund, RequestInv, Phase,
           PendingOK, TypeOK, SessionType
      <4>3. Phase(r)'
        BY <4>1, <1>0, <1>s, SMTT(30) DEF PendingOK, RequestInv, Phase, Accounts,
           Booked, Reserving, Wallet, FundingHeld, TokenHeld, TokenShare, BeforeOpen,
           Undisturbed
      <4>4. Accounts(r)'
        BY <4>1, <1>0, <1>s, SMTT(30) DEF PendingOK, RequestInv, Phase, Accounts,
           Booked, Reserving, Wallet, FundingHeld, TokenHeld, TokenShare, BeforeOpen,
           Undisturbed
      <4> QED
        BY <4>3, <4>4 DEF RequestInv
    <3> QED
      BY <1>15, <3>1, <3>2, <1>0, <1>s DEF Refund
  <2>2. ASSUME NEW q \in Requests, q # r PROVE Local(q)' = Local(q)
    BY <1>15, <2>2, <1>0 DEF Refund, NeedsRefund, Goto, Local, TypeOK
  <2> QED
    BY <1>0, <2>1, <2>2, Frame
<1>16. ASSUME NEW r \in Requests, RefundFunding(r) PROVE \A q \in S : RequestInv(q)'
  <2>1. ASSUME r \in S PROVE RequestInv(r)'
    <3> USE <2>1
    <3>1. CASE session[r].consumed <= 0 /\ job' = [job EXCEPT ![r] = "extra"]
              /\ UNCHANGED <<wallet, sub, attempts, paid, failed, faults>>
      <4>1. /\ job[r] = "funding"
            /\ job'[r] = "extra"
            /\ pc'[r] = pc[r] /\ delta'[r] = delta[r] /\ paid'[r] = paid[r]
            /\ tokenPaid'[r] = tokenPaid[r] /\ actual'[r] = actual[r]
            /\ profile'[r] = profile[r] /\ failed'[r] = failed[r]
            /\ session'[r] = session[r]
        BY <1>16, <3>1, <1>0, <1>s DEF RefundFunding, PendingOK, TypeOK, SessionType
      <4>2. session[r].consumed <= 0
        BY <3>1
      <4>3. Phase(r)'
        BY <4>1, <4>2, <1>0, <1>s, SMTT(30) DEF PendingOK, RequestInv, Phase, Accounts,
           Booked, Reserving, Wallet, FundingHeld, TokenHeld, TokenShare, BeforeOpen,
           Undisturbed
      <4>4. Accounts(r)'
        BY <4>1, <4>2, <1>0, <1>s, SMTT(30) DEF PendingOK, RequestInv, Phase, Accounts,
           Booked, Reserving, Wallet, FundingHeld, TokenHeld, TokenShare, BeforeOpen,
           Undisturbed
      <4> QED
        BY <4>3, <4>4 DEF RequestInv
    <3>2. CASE session[r].consumed > 0 /\ FundingChange(r, -session[r].consumed)
              /\ Paid(r, -session[r].consumed) /\ UNCHANGED attempts
              /\ job' = [job EXCEPT ![r] = IF Wallet(r) THEN "extra" ELSE "record"]
      <4>1. /\ job[r] = "funding"
            /\ job'[r] = IF Wallet(r) THEN "extra" ELSE "record"
            /\ paid'[r] = paid[r] - session[r].consumed
            /\ pc'[r] = pc[r] /\ delta'[r] = delta[r] /\ tokenPaid'[r] = tokenPaid[r]
            /\ actual'[r] = actual[r]
            /\ profile'[r] = profile[r] /\ failed'[r] = failed[r]
            /\ session'[r] = session[r]
        BY <1>16, <3>2, <1>0, <1>s DEF RefundFunding, FundingChange, Paid, NoError,
           PendingOK, TypeOK, SessionType
      <4>3. Phase(r)'
        BY <4>1, <1>0, <1>s, SMTT(30) DEF PendingOK, RequestInv, Phase, Accounts,
           Booked, Reserving, Wallet, FundingHeld, TokenHeld, TokenShare, BeforeOpen,
           Undisturbed
      <4>4. Accounts(r)'
        BY <4>1, <1>0, <1>s, SMTT(30) DEF PendingOK, RequestInv, Phase, Accounts,
           Booked, Reserving, Wallet, FundingHeld, TokenHeld, TokenShare, BeforeOpen,
           Undisturbed
      <4> QED
        BY <4>3, <4>4 DEF RequestInv
    <3>3. CASE session[r].consumed > 0 /\ FundingError(r, -session[r].consumed, "fundingRefund")
              /\ (IF Wallet(r) THEN GiveUp(r) ELSE Retry(r)) /\ UNCHANGED paid
      <4>0. ~Undisturbed(r)'
        BY <1>0, <3>3, FundingErrorDisturbs
      <4>1. /\ job[r] = "funding"
            /\ pc'[r] = pc[r] /\ delta'[r] = delta[r] /\ paid'[r] = paid[r]
            /\ tokenPaid'[r] = tokenPaid[r] /\ actual'[r] = actual[r]
            /\ profile'[r] = profile[r]
            /\ session'[r] = session[r]
            /\ job'[r] = "funding" \/ job'[r] = "extra"
            /\ session[r].consumed > 0
        BY <1>16, <3>3, <1>0, <1>s DEF RefundFunding, FundingError, GiveUp, Retry,
           MaxAttempts, PendingOK, TypeOK, SessionType
      <4>3. Phase(r)'
        BY <4>1, <4>0, <1>0, <1>s, SMTT(30) DEF PendingOK, RequestInv, Phase, Accounts,
           Booked, Reserving, Wallet, FundingHeld, TokenHeld, TokenShare, BeforeOpen
      <4>4. Accounts(r)'
        BY <4>1, <4>0, <1>0, <1>s, SMTT(30) DEF PendingOK, RequestInv, Phase, Accounts,
           Booked, Reserving, Wallet, FundingHeld, TokenHeld, TokenShare, BeforeOpen
      <4> QED
        BY <4>3, <4>4 DEF RequestInv
    <3> QED
      BY <1>16, <3>1, <3>2, <3>3, <1>0, <1>s DEF RefundFunding, TypeOK, SessionType
  <2>2. ASSUME NEW q \in Requests, q # r PROVE Local(q)' = Local(q)
    BY <1>16, <2>2, <1>0 DEF RefundFunding, Paid, Retry, GiveUp, FundingChange,
       FundingError, Fault, NoError, Local, TypeOK
  <2> QED
    BY <1>0, <2>1, <2>2, Frame
<1>17. ASSUME NEW r \in Requests, RefundRecord(r) PROVE \A q \in S : RequestInv(q)'
  <2>1. ASSUME r \in S PROVE RequestInv(r)'
    <3> USE <2>1
    <3>1. /\ job[r] = "record" /\ job'[r] = "extra"
          /\ UNCHANGED <<pc, session, delta, profile, actual, paid, tokenPaid, failed>>
      <4>1. CASE Fault(r, "recordSave")
        <5>1. "recordSave" \in failed'[r]
          BY <1>0, <4>1 DEF Fault, TypeOK
        <5> QED
          BY <2>1, <5>1
      <4>2. CASE ~Fault(r, "recordSave")
        BY <1>17, <1>0, <4>2 DEF RefundRecord, NoError, TypeOK
      <4> QED
        BY <4>1, <4>2
    <3>2. Phase(r) /\ Accounts(r) /\ PendingOK(r)
      BY <1>0 DEF RequestInv
    <3>3. pc[r] \in {"fee", "feeToken", "done", "crashed"} /\ ~session[r].fundingSettled /\ ~session[r].settled
      BY <3>1, <3>2 DEF PendingOK, Phase
    <3>4. FundingHeld(r)' = FundingHeld(r) /\ TokenHeld(r)' = TokenHeld(r)
      BY <3>1 DEF FundingHeld, TokenHeld, TokenShare, Wallet
    <3>5. Undisturbed(r)' => Undisturbed(r)
      BY <3>1 DEF Undisturbed
    <3>6. Phase(r)'
      BY <3>1, <3>2, <3>3, <3>5 DEF Phase, BeforeOpen, Reserving
    <3>7. Accounts(r)'
      BY <3>1, <3>2, <3>3, <3>4, <3>5 DEF Accounts
    <3> QED
      BY <3>6, <3>7 DEF RequestInv
  <2>2. ASSUME NEW q \in Requests, q # r PROVE Local(q)' = Local(q)
    BY <1>17, <2>2, <1>0 DEF RefundRecord, Retry, Fault, NoError, Local, TypeOK
  <2> QED
    BY <1>0, <2>1, <2>2, Frame
<1>18. ASSUME NEW r \in Requests, RefundExtra(r) PROVE \A q \in S : RequestInv(q)'
  <2>1. ASSUME r \in S PROVE RequestInv(r)'
    <3> USE <2>1
    <3>1. CASE ExtraOwed(r) = 0 /\ UNCHANGED <<wallet, sub, paid, failed, faults>>
      <4>1. /\ job[r] = "extra"
            /\ job'[r] = "token"
            /\ pc'[r] = pc[r] /\ delta'[r] = delta[r] /\ paid'[r] = paid[r]
            /\ tokenPaid'[r] = tokenPaid[r] /\ actual'[r] = actual[r]
            /\ profile'[r] = profile[r] /\ failed'[r] = failed[r]
            /\ session'[r] = session[r]
        BY <1>18, <3>1, <1>0, <1>s DEF RefundExtra, PendingOK, TypeOK, SessionType
      <4>2. Wallet(r) \/ session[r].extra = 0
        BY <3>1 DEF ExtraOwed
      <4>3. Phase(r)'
        BY <4>1, <4>2, <1>0, <1>s, SMTT(30) DEF PendingOK, RequestInv, Phase, Accounts,
           Booked, Reserving, Wallet, FundingHeld, TokenHeld, TokenShare, BeforeOpen,
           Undisturbed
      <4>4. Accounts(r)'
        BY <4>1, <4>2, <1>0, <1>s, SMTT(30) DEF PendingOK, RequestInv, Phase, Accounts,
           Booked, Reserving, Wallet, FundingHeld, TokenHeld, TokenShare, BeforeOpen,
           Undisturbed
      <4> QED
        BY <4>3, <4>4 DEF RequestInv
    <3>2. CASE ExtraOwed(r) > 0 /\ FundingChange(r, -ExtraOwed(r)) /\ Paid(r, -ExtraOwed(r))
      <4>1. /\ job[r] = "extra"
            /\ job'[r] = "token"
            /\ paid'[r] = paid[r] - session[r].extra
            /\ pc'[r] = pc[r] /\ delta'[r] = delta[r] /\ tokenPaid'[r] = tokenPaid[r]
            /\ actual'[r] = actual[r]
            /\ profile'[r] = profile[r] /\ failed'[r] = failed[r]
            /\ session'[r] = session[r]
            /\ ~Wallet(r)
        BY <1>18, <3>2, <1>0, <1>s DEF RefundExtra, ExtraOwed, FundingChange, Paid,
           NoError, PendingOK, TypeOK, SessionType
      <4>3. Phase(r)'
        BY <4>1, <1>0, <1>s, SMTT(30) DEF PendingOK, RequestInv, Phase, Accounts,
           Booked, Reserving, Wallet, FundingHeld, TokenHeld, TokenShare, BeforeOpen,
           Undisturbed
      <4>4. Accounts(r)'
        BY <4>1, <1>0, <1>s, SMTT(30) DEF PendingOK, RequestInv, Phase, Accounts,
           Booked, Reserving, Wallet, FundingHeld, TokenHeld, TokenShare, BeforeOpen,
           Undisturbed
      <4> QED
        BY <4>3, <4>4 DEF RequestInv
    <3>3. CASE ExtraOwed(r) > 0 /\ FundingError(r, -ExtraOwed(r), "extraRefund") /\ UNCHANGED paid
      <4>0. ~Undisturbed(r)'
        BY <1>0, <3>3, FundingErrorDisturbs
      <4>1. /\ job[r] = "extra"
            /\ job'[r] = "token"
            /\ pc'[r] = pc[r] /\ delta'[r] = delta[r] /\ paid'[r] = paid[r]
            /\ tokenPaid'[r] = tokenPaid[r] /\ actual'[r] = actual[r]
            /\ profile'[r] = profile[r]
            /\ session'[r] = session[r]
        BY <1>18, <3>3, <1>0, <1>s DEF RefundExtra, FundingError, PendingOK, TypeOK,
           SessionType
      <4>3. Phase(r)'
        BY <4>1, <4>0, <1>0, <1>s, SMTT(30) DEF PendingOK, RequestInv, Phase, Accounts,
           Booked, Reserving, Wallet, FundingHeld, TokenHeld, TokenShare, BeforeOpen
      <4>4. Accounts(r)'
        BY <4>1, <4>0, <1>0, <1>s, SMTT(30) DEF PendingOK, RequestInv, Phase, Accounts,
           Booked, Reserving, Wallet, FundingHeld, TokenHeld, TokenShare, BeforeOpen
      <4> QED
        BY <4>3, <4>4 DEF RequestInv
    <3> QED
      BY <1>18, <3>1, <3>2, <3>3, <1>0, <1>s DEF RefundExtra, ExtraOwed, TypeOK,
         SessionType
  <2>2. ASSUME NEW q \in Requests, q # r PROVE Local(q)' = Local(q)
    BY <1>18, <2>2, <1>0 DEF RefundExtra, ExtraOwed, Paid, FundingChange, FundingError,
       Fault, NoError, Local, TypeOK
  <2> QED
    BY <1>0, <2>1, <2>2, Frame
<1>19. ASSUME NEW r \in Requests, RefundToken(r) PROVE \A q \in S : RequestInv(q)'
  <2>1. ASSUME r \in S PROVE RequestInv(r)'
    <3> USE <2>1
    <3>1. CASE (session[r].tokenConsumed = 0 \/ profile[r].playground)
              /\ UNCHANGED <<token, tokenPaid, failed, faults>>
      <4>1. /\ job[r] = "token"
            /\ job'[r] = "finished"
            /\ pc'[r] = pc[r] /\ delta'[r] = delta[r] /\ paid'[r] = paid[r]
            /\ tokenPaid'[r] = tokenPaid[r] /\ actual'[r] = actual[r]
            /\ profile'[r] = profile[r] /\ failed'[r] = failed[r]
            /\ session'[r] = session[r]
        BY <1>19, <3>1, <1>0, <1>s DEF RefundToken, PendingOK, TypeOK, SessionType
      <4>2. session[r].tokenConsumed = 0 \/ profile[r].playground
        BY <3>1
      <4>3. Phase(r)'
        BY <4>1, <4>2, <1>0, <1>s, SMTT(30) DEF PendingOK, RequestInv, Phase, Accounts,
           Booked, Reserving, Wallet, FundingHeld, TokenHeld, TokenShare, BeforeOpen,
           Undisturbed
      <4>4. Accounts(r)'
        BY <4>1, <4>2, <1>0, <1>s, SMTT(30) DEF PendingOK, RequestInv, Phase, Accounts,
           Booked, Reserving, Wallet, FundingHeld, TokenHeld, TokenShare, BeforeOpen,
           Undisturbed
      <4> QED
        BY <4>3, <4>4 DEF RequestInv
    <3>2. CASE ~profile[r].playground /\ TokenChange(r, -session[r].tokenConsumed)
      <4>1. /\ job[r] = "token"
            /\ job'[r] = "finished"
            /\ tokenPaid'[r] = tokenPaid[r] - session[r].tokenConsumed
            /\ pc'[r] = pc[r] /\ delta'[r] = delta[r] /\ paid'[r] = paid[r]
            /\ actual'[r] = actual[r]
            /\ profile'[r] = profile[r] /\ failed'[r] = failed[r]
            /\ session'[r] = session[r]
        BY <1>19, <3>2, <1>0, <1>s DEF RefundToken, TokenChange, NoError, PendingOK,
           TypeOK, SessionType
      <4>2. ~profile[r].playground
        BY <3>2
      <4>3. Phase(r)'
        BY <4>1, <4>2, <1>0, <1>s, SMTT(30) DEF PendingOK, RequestInv, Phase, Accounts,
           Booked, Reserving, Wallet, FundingHeld, TokenHeld, TokenShare, BeforeOpen,
           Undisturbed
      <4>4. Accounts(r)'
        BY <4>1, <4>2, <1>0, <1>s, SMTT(30) DEF PendingOK, RequestInv, Phase, Accounts,
           Booked, Reserving, Wallet, FundingHeld, TokenHeld, TokenShare, BeforeOpen,
           Undisturbed
      <4> QED
        BY <4>3, <4>4 DEF RequestInv
    <3>3. CASE ~profile[r].playground /\ TokenError(r, "tokenRefund")
      <4>0. ~Undisturbed(r)'
        BY <1>0, <3>3, FaultDisturbs DEF TokenError
      <4>1. /\ job[r] = "token"
            /\ job'[r] = "finished"
            /\ pc'[r] = pc[r] /\ delta'[r] = delta[r] /\ paid'[r] = paid[r]
            /\ tokenPaid'[r] = tokenPaid[r] /\ actual'[r] = actual[r]
            /\ profile'[r] = profile[r]
            /\ session'[r] = session[r]
        BY <1>19, <3>3, <1>0, <1>s DEF RefundToken, TokenError, PendingOK, TypeOK,
           SessionType
      <4>3. Phase(r)'
        BY <4>1, <4>0, <1>0, <1>s, SMTT(30) DEF PendingOK, RequestInv, Phase, Accounts,
           Booked, Reserving, Wallet, FundingHeld, TokenHeld, TokenShare, BeforeOpen
      <4>4. Accounts(r)'
        BY <4>1, <4>0, <1>0, <1>s, SMTT(30) DEF PendingOK, RequestInv, Phase, Accounts,
           Booked, Reserving, Wallet, FundingHeld, TokenHeld, TokenShare, BeforeOpen
      <4> QED
        BY <4>3, <4>4 DEF RequestInv
    <3> QED
      BY <1>19, <3>1, <3>2, <3>3, <1>0, <1>s DEF RefundToken
  <2>2. ASSUME NEW q \in Requests, q # r PROVE Local(q)' = Local(q)
    BY <1>19, <2>2, <1>0 DEF RefundToken, TokenChange, TokenError, Fault, NoError,
       Local, TypeOK
  <2> QED
    BY <1>0, <2>1, <2>2, Frame
<1>20. ASSUME NEW r \in Requests, NoFee(r) PROVE \A q \in S : RequestInv(q)'
  <2>1. ASSUME r \in S PROVE RequestInv(r)'
    <3> USE <2>1
    <3>1. /\ pc[r] \in {"fee", "feeToken"} /\ pc'[r] \in {"feeToken", "done"}
          /\ UNCHANGED <<session, job, profile, actual, paid, tokenPaid, failed>>
      BY <1>20, <1>0 DEF NoFee, Goto, TypeOK
    <3> QED
      BY <1>0, <1>s, <3>1, FeeAccounts
  <2>2. ASSUME NEW q \in Requests, q # r PROVE Local(q)' = Local(q)
    BY <1>20, <2>2, <1>0 DEF NoFee, Goto, Local, TypeOK
  <2> QED
    BY <1>0, <2>1, <2>2, Frame
<1>21. ASSUME NEW r \in Requests, NEW f \in Fees, Fee(r, f) PROVE \A q \in S : RequestInv(q)'
  <2>1. ASSUME r \in S PROVE RequestInv(r)'
    <3> USE <2>1
    <3>1. /\ pc[r] \in {"fee", "feeToken"} /\ pc'[r] \in {"feeToken", "done"}
          /\ UNCHANGED <<session, job, profile, actual, paid, tokenPaid>>
      BY <1>21, <1>0 DEF Fee, TypeOK
    <3>2. failed[r] \subseteq failed'[r]
      BY <1>21, <1>0 DEF Fee, FundingChange, FundingError, Fault, NoError, TypeOK
    <3> QED
      BY <1>0, <1>s, <3>1, <3>2, FeeAccounts
  <2>2. ASSUME NEW q \in Requests, q # r PROVE Local(q)' = Local(q)
    BY <1>21, <2>2, <1>0 DEF Fee, FundingChange, FundingError, Fault, NoError, Local,
       TypeOK
  <2> QED
    BY <1>0, <2>1, <2>2, Frame
<1>22. ASSUME NEW r \in Requests, FeeToken(r) PROVE \A q \in S : RequestInv(q)'
  <2>1. ASSUME r \in S PROVE RequestInv(r)'
    <3> USE <2>1
    <3>1. /\ pc[r] \in {"fee", "feeToken"} /\ pc'[r] \in {"feeToken", "done"}
          /\ UNCHANGED <<session, job, profile, actual, paid, tokenPaid>>
      BY <1>22, <1>0 DEF FeeToken, Goto, TypeOK
    <3>2. failed[r] \subseteq failed'[r]
      BY <1>22, <1>0 DEF FeeToken, Goto, Fault, NoError, TypeOK
    <3> QED
      BY <1>0, <1>s, <3>1, <3>2, FeeAccounts
  <2>2. ASSUME NEW q \in Requests, q # r PROVE Local(q)' = Local(q)
    BY <1>22, <2>2, <1>0 DEF FeeToken, Goto, Fault, NoError, Local, TypeOK
  <2> QED
    BY <1>0, <2>1, <2>2, Frame
<1>23. ASSUME SubscriptionEnds PROVE \A q \in S : RequestInv(q)'
  <2>1. \A q \in Requests : Local(q)' = Local(q)
    BY <1>23 DEF SubscriptionEnds, Local
  <2> QED
    BY <1>0, <2>1, Frame
<1>24. ASSUME Crash PROVE \A q \in S : RequestInv(q)'
  <2> SUFFICES ASSUME NEW q \in S PROVE RequestInv(q)'
    OBVIOUS
  <2>1. /\ session'[q] = session[q] /\ delta'[q] = delta[q] /\ paid'[q] = paid[q]
        /\ tokenPaid'[q] = tokenPaid[q] /\ actual'[q] = actual[q]
        /\ profile'[q] = profile[q] /\ failed'[q] = failed[q]
        /\ pc'[q] = pc[q] \/ (pc'[q] = "crashed" /\ pc[q] \notin Terminal \cup {"idle"})
        /\ job'[q] = job[q] \/ (job'[q] = "lost" /\ job[q] \notin {"none", "finished"})
    BY <1>24, <1>0 DEF Crash, TypeOK
  <2>2. CASE pc'[q] = pc[q] /\ job'[q] = job[q]
    BY <2>1, <2>2, <1>0, Frame DEF Local
  <2>3. CASE pc'[q] = "crashed" \/ job'[q] = "lost"
    <3>1. ~Undisturbed(q)'
      BY <2>3 DEF Undisturbed
    <3>2. Phase(q)'
      BY <2>1, <2>3, <3>1, <1>0, <1>s, SMTT(30) DEF RequestInv, Phase, PendingOK, Booked,
         Reserving, Wallet, BeforeOpen, TokenShare
    <3>3. Accounts(q)'
      BY <2>1, <2>3, <3>1, <1>0, <1>s, SMTT(30) DEF RequestInv, Phase, Accounts, PendingOK,
         Booked, Reserving, Wallet, FundingHeld, TokenHeld, TokenShare, Terminal
    <3> QED
      BY <3>2, <3>3 DEF RequestInv
  <2> QED
    BY <2>1, <2>2, <2>3
<1>25. CASE UNCHANGED vars
  <2>1. \A q \in Requests : Local(q)' = Local(q)
    BY <1>25 DEF vars, Local
  <2> QED
    BY <1>0, <2>1, Frame
<1> QED
  BY <1>1, <1>2, <1>3, <1>4, <1>5, <1>6, <1>7, <1>8, <1>9, <1>10, <1>11, <1>12, <1>13,
     <1>14, <1>15, <1>16, <1>17, <1>18, <1>19, <1>20, <1>21, <1>22, <1>23, <1>24, <1>25
     DEF Next, Request, RefundJob, Done

LEMMA AccountInit == Init => \A q \in Requests : RequestInv(q)
<1> SUFFICES ASSUME Init, NEW q \in Requests PROVE RequestInv(q)
  OBVIOUS
<1>1. /\ pc[q] = "idle" /\ session[q] = NewSession("none", 0, FALSE) /\ delta[q] = 0
      /\ job[q] = "none" /\ actual[q] = -1 /\ paid[q] = 0 /\ tokenPaid[q] = 0
  BY DEF Init
<1> QED
  BY <1>1 DEF NewSession, RequestInv, Phase, Accounts, Booked, Reserving, Wallet,
     FundingHeld, TokenHeld, TokenShare, Undisturbed, BeforeOpen

-----------------------------------------------------------------------------
(* The writes that returned an error are only ever added to.                 *)

\* At most one write of one request returns an error in a step; the save of
\* the refund record only if it may fail at all.
ErrorRecorded ==
  \/ failed' = failed
  \/ \E r \in Requests, w \in WritePoints :
       /\ w = "recordSave" => w \in FaultPoints
       /\ failed' = [failed EXCEPT ![r] = @ \cup {w}]

LEMMA FaultRecorded ==
  ASSUME NEW r \in Requests, NEW w, Fault(r, w)
  PROVE  ErrorRecorded
BY BillingAssumption DEF Fault, ErrorRecorded

LEMMA FundingErrorRecorded ==
  ASSUME NEW r \in Requests, NEW d, NEW w \in WritePoints \ {"recordSave"},
         FundingError(r, d, w)
  PROVE  ErrorRecorded
BY FaultRecorded DEF FundingError, ErrorRecorded

LEMMA FailedGrows == TypeOK /\ [Next]_vars => ErrorRecorded
<1> SUFFICES ASSUME TypeOK, [Next]_vars PROVE ErrorRecorded
  OBVIOUS
<1>1. CASE failed' = failed
  BY <1>1 DEF ErrorRecorded
<1>2. ASSUME failed' # failed, NEW r \in Requests, Request(r) PROVE ErrorRecorded
  <2>1. \/ TokenPre(r) \/ FundingPreFails(r) \/ RollbackToken(r)
        \/ \E t \in ReserveTargets : Reserve(r, t)
        \/ ReserveToken(r) \/ ReserveRollback(r)
        \/ \E a \in Actuals : Settle(r, a)
        \/ SettleToken(r) \/ (\E f \in Fees : Fee(r, f)) \/ FeeToken(r)
    BY <1>2 DEF Request, Begin, HasSubscription, WalletCheck, TokenRead, FundingPre,
       ReserveTokenRead, Refund, NoFee, history
  <2>2. CASE TokenPre(r)
    BY <1>2, <2>2, FaultRecorded DEF TokenPre, TokenChange, TokenError, NoError
  <2>3. CASE FundingPreFails(r)
    BY <1>2, <2>3, FaultRecorded DEF FundingPreFails, NoError
  <2>4. CASE RollbackToken(r)
    BY <1>2, <2>4, FaultRecorded DEF RollbackToken, TokenChange, TokenError, NoError
  <2>5. ASSUME NEW t \in ReserveTargets, Reserve(r, t) PROVE ErrorRecorded
    BY <1>2, <2>5, FundingErrorRecorded DEF Reserve, FundingChange, NoError, WritePoints
  <2>6. CASE ReserveToken(r)
    BY <1>2, <2>6, FaultRecorded DEF ReserveToken, TokenChange, TokenError, NoError
  <2>7. CASE ReserveRollback(r)
    BY <1>2, <2>7, FundingErrorRecorded DEF ReserveRollback, FundingChange, NoError, WritePoints
  <2>8. ASSUME NEW a \in Actuals, Settle(r, a) PROVE ErrorRecorded
    BY <1>2, <2>8, FundingErrorRecorded DEF Settle, FundingChange, NoError, WritePoints
  <2>9. CASE SettleToken(r)
    BY <1>2, <2>9, FaultRecorded DEF SettleToken, TokenChange, TokenError, NoError
  <2>10. ASSUME NEW f \in Fees, Fee(r, f) PROVE ErrorRecorded
    BY <1>2, <2>10, FaultRecorded, FundingErrorRecorded DEF Fee, FundingChange, NoError,
       WritePoints
  <2>11. CASE FeeToken(r)
    BY <1>2, <2>11, FaultRecorded DEF FeeToken, TokenError, TokenChange, NoError
  <2> QED
    BY <2>1, <2>2, <2>3, <2>4, <2>5, <2>6, <2>7, <2>8, <2>9, <2>10, <2>11
<1>3. ASSUME failed' # failed, NEW r \in Requests, RefundJob(r) PROVE ErrorRecorded
  <2>1. CASE RefundFunding(r)
    BY <1>3, <2>1, FundingErrorRecorded DEF RefundFunding, FundingChange, NoError, WritePoints
  <2>2. CASE RefundRecord(r)
    BY <1>3, <2>2, FaultRecorded DEF RefundRecord, NoError
  <2>3. CASE RefundExtra(r)
    BY <1>3, <2>3, FundingErrorRecorded DEF RefundExtra, FundingChange, NoError, WritePoints
  <2>4. CASE RefundToken(r)
    BY <1>3, <2>4, FaultRecorded DEF RefundToken, TokenChange, TokenError, NoError
  <2> QED
    BY <1>3, <2>1, <2>2, <2>3, <2>4 DEF RefundJob
<1>4. ASSUME failed' # failed PROVE \E r \in Requests : Request(r) \/ RefundJob(r)
  BY <1>4 DEF Next, Done, vars, history, SubscriptionEnds, Crash
<1> QED
  BY <1>1, <1>2, <1>3, <1>4

-----------------------------------------------------------------------------
(* The theorems.  Every write may fail.  What is said of a request needs the *)
(* save of its refund record, where it has one, not to have failed: the run  *)
(* MCBilling_double_refund shows what happens when it does.                  *)

\* The requests whose refund record could be saved, if they came to save it.
Saved == {q \in Requests : "recordSave" \notin failed[q]}

\* RequestInv holds of every such request in every reachable state.
AccountInv == TypeInv /\ \A q \in Saved : RequestInv(q)

LEMMA AccountsStep == AccountInv /\ [Next]_vars => AccountInv'
<1> SUFFICES ASSUME AccountInv, [Next]_vars PROVE AccountInv'
  OBVIOUS
<1>1. TypeInv /\ TypeInv' /\ TypeOK /\ TypeOK'
  BY TypeStep DEF AccountInv, TypeInv
<1>2. Saved' \subseteq Saved
  BY <1>1, FailedGrows DEF ErrorRecorded, Saved, TypeOK
<1>3. /\ Saved' \in SUBSET Requests /\ \A q \in Saved' : RequestInv(q)
      /\ \A q \in Saved' : "recordSave" \notin failed'[q]
  BY <1>2 DEF AccountInv, Saved
<1>4. \A q \in Saved' : RequestInv(q)'
  BY <1>1, <1>3, AccountStep
<1> QED
  BY <1>1, <1>4 DEF AccountInv

LEMMA AccountsInvariant == Spec => []AccountInv
<1>1. Init => AccountInv
  BY TypeInit, AccountInit DEF AccountInv, Saved
<1> QED
  BY <1>1, AccountsStep, PTL DEF Spec

\* Where that save cannot fail, every request is one of them.
LEMMA AllSaved ==
  ASSUME "recordSave" \notin FaultPoints
  PROVE  Spec => [](TypeInv /\ \A q \in Requests : RequestInv(q))
<1> DEFINE Inv == TypeInv /\ \A q \in Requests : "recordSave" \notin failed[q]
<1>1. Init => Inv
  BY TypeInit DEF Init
<1>2. Inv /\ [Next]_vars => Inv'
  <2> SUFFICES ASSUME Inv, [Next]_vars PROVE Inv'
    OBVIOUS
  <2>1. TypeInv' /\ TypeOK
    BY TypeStep DEF TypeInv
  <2> QED
    BY <2>1, FailedGrows DEF ErrorRecorded, TypeOK
<1>3. Spec => []Inv
  BY <1>1, <1>2, PTL DEF Spec
<1>4. Inv /\ AccountInv => TypeInv /\ \A q \in Requests : RequestInv(q)
  BY DEF AccountInv, Saved
<1> QED
  BY <1>3, <1>4, AccountsInvariant, PTL

\* A request that RequestInv holds of has not been given back more than it paid.
LEMMA NothingGained ==
  ASSUME TypeInv, NEW r \in Requests, RequestInv(r)
  PROVE  paid[r] >= 0 /\ tokenPaid[r] >= 0
<1>1. /\ session[r] \in SessionType /\ delta[r] \in Int /\ paid[r] \in Int
      /\ tokenPaid[r] \in Int /\ actual[r] \in Int
  BY DEF TypeInv, TypeOK
<1>2. Phase(r) /\ Accounts(r) /\ PendingOK(r)
  BY DEF RequestInv, TypeInv
<1>3. /\ session[r].consumed \in Int /\ session[r].extra \in Nat
      /\ session[r].tokenConsumed \in Nat
  BY <1>1, SessionFields
<1>4. FundingHeld(r) \in Int /\ FundingHeld(r) >= 0
  BY <1>1, <1>2, <1>3, SMTT(30) DEF Phase, Booked, PendingOK, FundingHeld, Wallet, Reserving
<1>5. TokenHeld(r) \in Int /\ TokenHeld(r) >= 0
  BY <1>3 DEF TokenHeld, TokenShare
<1> QED
  BY <1>1, <1>2, <1>4, <1>5, SMTT(30) DEF Phase, Accounts

LEMMA SavedGainsNothing == AccountInv => \A q \in Saved : paid[q] >= 0 /\ tokenPaid[q] >= 0
BY NothingGained DEF AccountInv, Saved

\* At every step of every request, whatever the other requests do, which
\* other writes fail and where the process dies, the quota taken covers what
\* the session holds or has settled (billing_session.go), with equality as
\* long as no write of the request failed.
THEOREM SessionAccountsCorrect ==
  ASSUME "recordSave" \notin FaultPoints
  PROVE  Spec => []SessionAccounts
<1>1. (TypeInv /\ \A q \in Requests : RequestInv(q)) => SessionAccounts
  BY DEF RequestInv, SessionAccounts
<1> QED
  BY <1>1, AllSaved, PTL

\* Whatever writes fail, a request whose refund record could be saved is never
\* given back more than it paid, on its funding source or on its token
\* (BillingSession.Refund and Settle, RefundSubscriptionPreConsume).
THEOREM NoOverRefundIfSavedCorrect == Spec => []NoOverRefundIfSaved
<1>1. AccountInv => NoOverRefundIfSaved
  BY NothingGained DEF AccountInv, Saved, NoOverRefundIfSaved
<1> QED
  BY <1>1, AccountsInvariant, PTL

\* If that save cannot fail, no request at all is given back more than it paid.
THEOREM NoOverRefundCorrect ==
  ASSUME "recordSave" \notin FaultPoints
  PROVE  Spec => []NoOverRefund
<1>1. (TypeInv /\ \A q \in Requests : RequestInv(q)) => NoOverRefund
  BY NothingGained DEF NoOverRefund
<1> QED
  BY <1>1, AllSaved, PTL

\* A request that has ended without a failed write was charged exactly what
\* its outcome says (Settle, Refund, and the rollbacks of preConsume).
THEOREM ChargeMatchesOutcomeCorrect == Spec => []ChargeMatchesOutcome
<1>1. AccountInv => ChargeMatchesOutcome
  <2> SUFFICES ASSUME AccountInv, NEW r \in Requests,
                      Undisturbed(r)
               PROVE  /\ pc[r] = "rejected" => paid[r] = 0 /\ tokenPaid[r] = 0
                      /\ pc[r] = "done" /\ actual[r] >= 0 =>
                           paid[r] = actual[r] /\ tokenPaid[r] = TokenShare(r, actual[r])
                      /\ pc[r] = "done" /\ actual[r] = -1 /\ job[r] \in {"none", "finished"} =>
                           paid[r] = 0 /\ tokenPaid[r] = 0
    BY DEF ChargeMatchesOutcome
  <2>1. Phase(r) /\ Accounts(r) /\ PendingOK(r) /\ actual[r] \in Int
    BY DEF AccountInv, Saved, Undisturbed, RequestInv, TypeInv, TypeOK
  <2>2. CASE pc[r] = "rejected"
    <3>1. job[r] = "none" /\ ~session[r].fundingSettled /\ ~session[r].settled
      BY <2>1, <2>2 DEF Phase, PendingOK, BeforeOpen
    <3>2. FundingHeld(r) = 0 /\ TokenHeld(r) = 0
      BY <2>1, <2>2, <3>1 DEF Phase, BeforeOpen, FundingHeld, TokenHeld, Reserving
    <3> QED
      BY <2>1, <2>2, <3>1, <3>2 DEF Accounts
  <2>3. CASE pc[r] = "done" /\ actual[r] >= 0
    <3>1. session[r].settled
      BY <2>1, <2>3 DEF Phase
    <3> QED
      BY <2>1, <2>3, <3>1 DEF Accounts
  <2>4. CASE pc[r] = "done" /\ actual[r] = -1 /\ job[r] \in {"none", "finished"}
    <3>1. ~session[r].fundingSettled /\ ~session[r].settled
      BY <2>1, <2>4 DEF Phase
    <3>2. FundingHeld(r) = 0 /\ TokenHeld(r) = 0
      BY <2>1, <2>4 DEF Phase, FundingHeld, TokenHeld
    <3> QED
      BY <2>1, <2>4, <3>1, <3>2 DEF Accounts
  <2> QED
    BY <2>2, <2>3, <2>4
<1> QED
  BY <1>1, AccountsInvariant, PTL

-----------------------------------------------------------------------------
(* Sums over the requests.  The library's induction theorems cannot be used   *)
(* here: each fact is proved of a smallest set of requests that violates it.  *)

\* A set of sets of requests has a smallest member: this stands in for induction.
LEMMA Smallest ==
  ASSUME NEW B, B \subseteq SUBSET Requests, B # {}
  PROVE  \E T \in B : \A U \in B : ~(U \subseteq T /\ U # T)
<1>1. IsWellFoundedOn(StrictSubsetOrdering(Requests), FiniteSubsetsOf(Requests))
  BY FS_StrictSubsetOrderingWellFounded
<1>2. B \subseteq FiniteSubsetsOf(Requests)
  BY FiniteRequests, FS_Subset DEF FiniteSubsetsOf
<1>3. PICK T \in B : \A U \in B : ~(<<U, T>> \in StrictSubsetOrdering(Requests))
  BY <1>1, <1>2, WFMin
<1> QED
  BY <1>3 DEF StrictSubsetOrdering

\* The element a sum takes next, and what is left then.
First(s) == CHOOSE x \in s : TRUE
Rest(s) == s \ {First(s)}

LEMMA RestSmaller ==
  ASSUME NEW s, s # {}
  PROVE  First(s) \in s /\ Rest(s) \subseteq s /\ Rest(s) # s
BY DEF First, Rest

\* g holds the sums of f over the subsets of T.
Sums(f, g, T) ==
  g = [s \in SUBSET T |-> IF s = {} THEN 0 ELSE f[First(s)] + g[Rest(s)]]

LEMMA SumsAt ==
  ASSUME NEW f, NEW g, NEW T, Sums(f, g, T), NEW s, s \subseteq T
  PROVE  g[s] = IF s = {} THEN 0 ELSE f[First(s)] + g[Rest(s)]
<1> DEFINE d(t) == IF t = {} THEN 0 ELSE f[First(t)] + g[Rest(t)]
<1>1. g = [t \in SUBSET T |-> d(t)]
  BY DEF Sums
<1>2. s \in SUBSET T
  OBVIOUS
<1> HIDE DEF d
<1>3. g[s] = d(s)
  BY <1>1, <1>2
<1> QED
  BY <1>3 DEF d

LEMMA SumsUnique ==
  ASSUME NEW f, NEW g, NEW T \in SUBSET Requests, Sums(f, g, T),
         NEW h, NEW U \in SUBSET Requests, Sums(f, h, U), NEW s, s \subseteq T, s \subseteq U
  PROVE  g[s] = h[s]
<1> DEFINE B == {t \in SUBSET Requests : t \subseteq T /\ t \subseteq U /\ g[t] # h[t]}
<1> SUFFICES ASSUME B # {} PROVE FALSE
  OBVIOUS
<1>1. PICK t \in B : \A u \in B : ~(u \subseteq t /\ u # t)
  <2>1. B \subseteq SUBSET Requests
    OBVIOUS
  <2> HIDE DEF B
  <2> QED
    BY <2>1, Smallest
<1>2. t \in SUBSET Requests /\ t \subseteq T /\ t \subseteq U /\ g[t] # h[t]
  OBVIOUS
<1>3. /\ g[t] = IF t = {} THEN 0 ELSE f[First(t)] + g[Rest(t)]
      /\ h[t] = IF t = {} THEN 0 ELSE f[First(t)] + h[Rest(t)]
  BY <1>2, SumsAt
<1>4. t # {}
  BY <1>2, <1>3
<1>5. Rest(t) \subseteq t /\ Rest(t) # t
  BY <1>4, RestSmaller
<1>6. g[Rest(t)] = h[Rest(t)]
  BY <1>1, <1>2, <1>5
<1> QED
  BY <1>2, <1>3, <1>4, <1>6

LEMMA SumsExist ==
  ASSUME NEW f
  PROVE  \A T \in SUBSET Requests : \E g : Sums(f, g, T)
<1> DEFINE B == {t \in SUBSET Requests : ~(\E g : Sums(f, g, t))}
<1> SUFFICES ASSUME B # {} PROVE FALSE
  OBVIOUS
<1>1. PICK T \in B : \A u \in B : ~(u \subseteq T /\ u # T)
  <2>1. B \subseteq SUBSET Requests
    OBVIOUS
  <2> HIDE DEF B
  <2> QED
    BY <2>1, Smallest
<1> DEFINE G(u) == CHOOSE g : Sums(f, g, u)
<1>2. ASSUME NEW u, u \subseteq T, u # T PROVE Sums(f, G(u), u) /\ u \in SUBSET Requests
  BY <1>1, <1>2
<1> HIDE DEF G
<1> DEFINE last(u) == G(u)[u]
           d(s) == IF s = {} THEN 0 ELSE f[First(s)] + last(Rest(s))
           h == [s \in SUBSET T |-> d(s)]
<1>3. ASSUME NEW u, u \subseteq T, u # T PROVE last(u) = d(u)
  <2>1. Sums(f, G(u), u) /\ u \in SUBSET Requests
    BY <1>2, <1>3
  <2>2. last(u) = IF u = {} THEN 0 ELSE f[First(u)] + G(u)[Rest(u)]
    BY <2>1, SumsAt
  <2>3. ASSUME u # {} PROVE G(u)[Rest(u)] = last(Rest(u))
    <3>1. Rest(u) \subseteq u /\ Rest(u) # u
      BY <2>3, RestSmaller
    <3>2. Sums(f, G(Rest(u)), Rest(u)) /\ Rest(u) \in SUBSET Requests
      BY <1>2, <1>3, <3>1
    <3>3. Rest(u) \subseteq Rest(u)
      OBVIOUS
    <3> QED
      BY <2>1, <3>1, <3>2, <3>3, SumsUnique
  <2> QED
    BY <2>2, <2>3
<1>4. ASSUME NEW s \in SUBSET T PROVE d(s) = IF s = {} THEN 0 ELSE f[First(s)] + h[Rest(s)]
  <2>1. ASSUME s # {} PROVE h[Rest(s)] = last(Rest(s))
    <3>1. Rest(s) \subseteq T /\ Rest(s) # T
      BY <2>1, RestSmaller
    <3>2. last(Rest(s)) = d(Rest(s))
      BY <1>3, <3>1
    <3> HIDE DEF d, last
    <3>3. h[Rest(s)] = d(Rest(s))
      BY <3>1
    <3> QED
      BY <3>2, <3>3
  <2> HIDE DEF last, h
  <2> QED
    BY <2>1
<1> HIDE DEF d
<1>5. h = [s \in SUBSET T |-> IF s = {} THEN 0 ELSE f[First(s)] + h[Rest(s)]]
  <2> DEFINE e(s) == IF s = {} THEN 0 ELSE f[First(s)] + h[Rest(s)]
  <2>1. \A s \in SUBSET T : d(s) = e(s)
    BY <1>4
  <2>2. h = [s \in SUBSET T |-> d(s)]
    OBVIOUS
  <2> HIDE DEF h, e
  <2>3. h = [s \in SUBSET T |-> e(s)]
    BY <2>1, <2>2
  <2> QED
    BY <2>3 DEF e
<1>6. Sums(f, h, T)
  BY <1>5 DEF Sums
<1> HIDE DEF h
<1> QED
  BY <1>1, <1>6

\* The sums of f over the sets of requests.
Parts(f) == CHOOSE g : Sums(f, g, Requests)

LEMMA TotalIs ==
  ASSUME NEW f PROVE Sums(f, Parts(f), Requests) /\ Total(f) = Parts(f)[Requests]
<1>1. Sums(f, Parts(f), Requests)
  BY SumsExist DEF Parts
<1>2. Total(f) = Parts(f)[Requests]
  BY DEF Total, Parts, Sums, First, Rest, SumFunctionOnSet, FoldFunctionOnSet, MapThenFoldSet
<1> QED
  BY <1>1, <1>2

LEMMA PartsInt ==
  ASSUME NEW f \in [Requests -> Int] PROVE \A s \in SUBSET Requests : Parts(f)[s] \in Int
<1> DEFINE g == Parts(f)
           B == {t \in SUBSET Requests : g[t] \notin Int}
<1> SUFFICES ASSUME B # {} PROVE FALSE
  OBVIOUS
<1>1. PICK t \in B : \A u \in B : ~(u \subseteq t /\ u # t)
  <2>1. B \subseteq SUBSET Requests
    OBVIOUS
  <2> HIDE DEF B
  <2> QED
    BY <2>1, Smallest
<1>2. Sums(f, g, Requests)
  BY TotalIs
<1> HIDE DEF g
<1>3. g[t] = IF t = {} THEN 0 ELSE f[First(t)] + g[Rest(t)]
  BY <1>1, <1>2, SumsAt
<1>4. CASE t = {}
  BY <1>1, <1>3, <1>4
<1>5. CASE t # {}
  <2>1. First(t) \in t /\ Rest(t) \subseteq t /\ Rest(t) # t
    BY <1>5, RestSmaller
  <2>2. g[Rest(t)] \in Int /\ f[First(t)] \in Int
    BY <1>1, <2>1
  <2> QED
    BY <1>1, <1>3, <1>5, <2>2
<1> QED
  BY <1>4, <1>5

\* The sum of numbers that are not negative is not.
LEMMA TotalNat ==
  ASSUME NEW f \in [Requests -> Int], \A r \in Requests : f[r] >= 0
  PROVE  Total(f) \in Int /\ Total(f) >= 0
<1> DEFINE g == Parts(f)
           B == {t \in SUBSET Requests : ~(g[t] >= 0)}
<1>0. Total(f) = g[Requests] /\ Sums(f, g, Requests) /\ \A s \in SUBSET Requests : g[s] \in Int
  BY TotalIs, PartsInt
<1> HIDE DEF g
<1>1. ASSUME B # {} PROVE FALSE
  <2>1. PICK t \in B : \A u \in B : ~(u \subseteq t /\ u # t)
    <3>1. B \subseteq SUBSET Requests
      OBVIOUS
    <3> HIDE DEF B
    <3> QED
      BY <1>1, <3>1, Smallest
  <2>2. g[t] = IF t = {} THEN 0 ELSE f[First(t)] + g[Rest(t)]
    BY <1>0, <2>1, SumsAt
  <2>3. t # {}
    BY <2>1, <2>2
  <2>4. First(t) \in t /\ Rest(t) \subseteq t /\ Rest(t) # t
    BY <2>3, RestSmaller
  <2>5. g[Rest(t)] \in Int /\ g[Rest(t)] >= 0 /\ f[First(t)] \in Int /\ f[First(t)] >= 0
    BY <1>0, <2>1, <2>4
  <2> QED
    BY <2>1, <2>2, <2>3, <2>5
<1> QED
  BY <1>0, <1>1

\* A change at one request changes the sum by as much.
LEMMA TotalChanges ==
  ASSUME NEW f \in [Requests -> Int], NEW k \in [Requests -> Int], NEW r \in Requests,
         \A q \in Requests \ {r} : k[q] = f[q]
  PROVE  Total(f) \in Int /\ Total(k) = Total(f) + (k[r] - f[r])
<1> DEFINE g == Parts(f)
           h == Parts(k)
           d == k[r] - f[r]
           B == {t \in SUBSET Requests : h[t] # IF r \in t THEN g[t] + d ELSE g[t]}
<1>0. /\ Total(f) = g[Requests] /\ Sums(f, g, Requests) /\ \A s \in SUBSET Requests : g[s] \in Int
      /\ Total(k) = h[Requests] /\ Sums(k, h, Requests) /\ \A s \in SUBSET Requests : h[s] \in Int
  BY TotalIs, PartsInt
<1>d. d \in Int /\ k[r] = f[r] + d
  OBVIOUS
<1> HIDE DEF g, h, d
<1>1. ASSUME B # {} PROVE FALSE
  <2>1. PICK t \in B : \A u \in B : ~(u \subseteq t /\ u # t)
    <3>1. B \subseteq SUBSET Requests
      OBVIOUS
    <3> HIDE DEF B
    <3> QED
      BY <1>1, <3>1, Smallest
  <2>2. /\ g[t] = IF t = {} THEN 0 ELSE f[First(t)] + g[Rest(t)]
        /\ h[t] = IF t = {} THEN 0 ELSE k[First(t)] + h[Rest(t)]
    <3>1. t \subseteq Requests
      OBVIOUS
    <3> HIDE DEF B
    <3>2. g[t] = IF t = {} THEN 0 ELSE f[First(t)] + g[Rest(t)]
      BY <1>0, <3>1, SumsAt
    <3>3. h[t] = IF t = {} THEN 0 ELSE k[First(t)] + h[Rest(t)]
      BY <1>0, <3>1, SumsAt
    <3> QED
      BY <3>2, <3>3
  <2>3. t # {}
    BY <2>1, <2>2
  <2>4. First(t) \in t /\ Rest(t) \subseteq t /\ Rest(t) # t
    BY <2>3, RestSmaller
  <2>5. h[Rest(t)] = IF r \in Rest(t) THEN g[Rest(t)] + d ELSE g[Rest(t)]
    BY <2>1, <2>4
  <2>6. /\ g[Rest(t)] \in Int /\ f[First(t)] \in Int
        /\ g[t] = f[First(t)] + g[Rest(t)] /\ h[t] = k[First(t)] + h[Rest(t)]
    BY <1>0, <2>1, <2>2, <2>3, <2>4
  <2>7. r \in t <=> r \in Rest(t) \/ r = First(t)
    BY <2>4 DEF Rest
  <2>8. CASE First(t) = r
    <3>1. r \notin Rest(t) /\ r \in t
      BY <2>7, <2>8 DEF Rest
    <3>2. h[t] = g[t] + d
      BY <1>d, <2>5, <2>6, <2>8, <3>1
    <3> QED
      BY <2>1, <3>1, <3>2
  <2>9. CASE First(t) # r
    <3>1. k[First(t)] = f[First(t)] /\ (r \in Rest(t) <=> r \in t)
      BY <2>1, <2>4, <2>7, <2>9
    <3>2. h[t] = IF r \in t THEN g[t] + d ELSE g[t]
      BY <1>d, <2>5, <2>6, <3>1
    <3> QED
      BY <2>1, <3>2
  <2> QED
    BY <2>8, <2>9
<1>2. h[Requests] = g[Requests] + d
  BY <1>1
<1> QED
  BY <1>0, <1>2 DEF d

-----------------------------------------------------------------------------
(* The ledger: what is missing from a store is what the requests paid, and    *)
(* the fees.                                                                  *)

\* What the requests took from a funding source.
PaidFrom(source) ==
  [r \in Requests |-> IF session[r].funding = source THEN paid[r] ELSE 0]

\* A request pays nothing before its session is open, and only from a source.
SourceOK(r) ==
  /\ pc[r] \in BeforeOpen => paid[r] = 0
  /\ session[r].funding = "none" =>
       job[r] = "none" /\ pc[r] \in {"idle", "hasSub", "walletCheck", "rejected", "crashed"}

SourceInv == \A r \in Requests : SourceOK(r)

\* The subscription's amount is never negative, so its part of the ledger needs
\* that no request was given back more than it paid.
LedgerOK ==
  /\ wallet = InitWallet - Total(PaidFrom("wallet")) - fees["wallet"]
  /\ token = InitToken - Total(tokenPaid) - fees["token"]
  /\ Requests \subseteq Saved => sub.used = Total(PaidFrom("subscription")) + fees["subscription"]

LedgerInv == AccountInv /\ SourceInv /\ LedgerOK

\* What a step does to the stores: nothing (a session may choose its source as
\* long as nothing is paid), or one charge.
Funded(r, d) ==
  /\ session[r].funding # "none"
  /\ IF Wallet(r) THEN wallet' = wallet - d /\ sub'.used = sub.used
     ELSE wallet' = wallet /\ sub'.used = NewUsed(d)

SameSources == \A q \in Requests : session'[q].funding = session[q].funding

Quiet ==
  /\ UNCHANGED <<wallet, token, fees, paid, tokenPaid>> /\ sub'.used = sub.used
  /\ \A q \in Requests : session'[q].funding = session[q].funding \/ paid[q] = 0

Charge(r, d) ==
  /\ SameSources /\ Funded(r, d)
  /\ paid' = [paid EXCEPT ![r] = @ + d] /\ UNCHANGED <<token, tokenPaid, fees>>

TokenCharge(r, d) ==
  /\ SameSources /\ token' = token - d /\ tokenPaid' = [tokenPaid EXCEPT ![r] = @ + d]
  /\ UNCHANGED <<wallet, fees, paid>> /\ sub'.used = sub.used

FeeCharge(r, f) ==
  /\ SameSources /\ Funded(r, f)
  /\ fees' = [fees EXCEPT ![session[r].funding] = @ + f] /\ UNCHANGED <<token, tokenPaid, paid>>

TokenFee(f) ==
  /\ SameSources /\ token' = token - f /\ fees' = [fees EXCEPT !.token = @ + f]
  /\ UNCHANGED <<wallet, paid, tokenPaid>> /\ sub'.used = sub.used

Effect ==
  \/ Quiet
  \/ \E r \in Requests, d \in Int : Charge(r, d) \/ TokenCharge(r, d)
  \/ \E r \in Requests, f \in Nat : FeeCharge(r, f)
  \/ \E f \in Nat : TokenFee(f)

\* The numbers of the ledger.
LEMMA LedgerTypes ==
  ASSUME TypeOK
  PROVE  /\ wallet \in Int /\ token \in Int /\ sub.used \in Nat
         /\ fees["wallet"] \in Nat /\ fees["subscription"] \in Nat /\ fees["token"] \in Nat
         /\ PaidFrom("wallet") \in [Requests -> Int] /\ PaidFrom("subscription") \in [Requests -> Int]
         /\ paid \in [Requests -> Int] /\ tokenPaid \in [Requests -> Int]
         /\ InitWallet \in Int /\ InitToken \in Int
<1>1. paid \in [Requests -> Int] /\ tokenPaid \in [Requests -> Int]
  BY DEF TypeOK
<1>2. PaidFrom("wallet") \in [Requests -> Int] /\ PaidFrom("subscription") \in [Requests -> Int]
  BY <1>1 DEF PaidFrom
<1>3. sub.used \in Nat
  BY SubUpdates DEF TypeOK
<1> QED
  BY <1>1, <1>2, <1>3, BillingAssumption DEF TypeOK

\* The sums change by what one request pays.
LEMMA PaidMoves ==
  ASSUME TypeOK, TypeOK', NEW r \in Requests, NEW d \in Int, SameSources,
         paid' = [paid EXCEPT ![r] = @ + d], NEW source \in {"wallet", "subscription"}
  PROVE  /\ Total(PaidFrom(source)) \in Int
         /\ Total(PaidFrom(source)') =
              Total(PaidFrom(source)) + (IF session[r].funding = source THEN d ELSE 0)
<1> DEFINE f == PaidFrom(source)
           k == PaidFrom(source)'
<1>1. f \in [Requests -> Int] /\ k \in [Requests -> Int]
  <2>1. paid \in [Requests -> Int] /\ paid' \in [Requests -> Int]
    BY DEF TypeOK
  <2> QED
    BY <2>1 DEF PaidFrom
<1>2. /\ paid'[r] = paid[r] + d /\ paid[r] \in Int
      /\ \A q \in Requests \ {r} : paid'[q] = paid[q]
  BY DEF TypeOK
<1>3. \A q \in Requests \ {r} : k[q] = f[q]
  BY <1>2 DEF PaidFrom, SameSources
<1>4. k[r] - f[r] = IF session[r].funding = source THEN d ELSE 0
  BY <1>2 DEF PaidFrom, SameSources
<1> HIDE DEF f, k
<1>5. Total(f) \in Int /\ Total(k) = Total(f) + (k[r] - f[r])
  BY <1>1, <1>3, TotalChanges
<1> QED
  BY <1>4, <1>5 DEF f, k

\* Nothing is paid, and a session changes its source only before it pays.
LEMMA PaidStays ==
  ASSUME TypeOK, NEW source \in {"wallet", "subscription"}, UNCHANGED paid,
         \A q \in Requests : session'[q].funding = session[q].funding \/ paid[q] = 0
  PROVE  PaidFrom(source)' = PaidFrom(source)
BY DEF PaidFrom

LEMMA LedgerMoves ==
  ASSUME TypeOK, TypeOK', LedgerOK, Effect,
         Requests \subseteq Saved' => Requests \subseteq Saved /\ \A q \in Requests : paid'[q] >= 0
  PROVE  LedgerOK'
<1> DEFINE W == Total(PaidFrom("wallet"))
           S == Total(PaidFrom("subscription"))
           T == Total(tokenPaid)
           W1 == Total(PaidFrom("wallet")')
           S1 == Total(PaidFrom("subscription")')
           T1 == Total(tokenPaid')
           fw == fees["wallet"]
           fs == fees["subscription"]
           ft == fees["token"]
<1>1. /\ wallet \in Int /\ token \in Int /\ sub.used \in Nat
      /\ fw \in Nat /\ fs \in Nat /\ ft \in Nat
      /\ InitWallet \in Int /\ InitToken \in Int
      /\ PaidFrom("wallet") \in [Requests -> Int] /\ PaidFrom("subscription") \in [Requests -> Int]
      /\ paid \in [Requests -> Int] /\ tokenPaid \in [Requests -> Int]
  BY LedgerTypes
<1>2. W \in Int /\ S \in Int /\ T \in Int
  <2>1. ASSUME NEW f \in [Requests -> Int] PROVE Total(f) \in Int
    BY TotalIs, PartsInt
  <2> QED
    BY <1>1, <2>1
<1>3. /\ wallet = InitWallet - W - fw /\ token = InitToken - T - ft
      /\ Requests \subseteq Saved => sub.used = S + fs
  BY DEF LedgerOK
<1>4. Requests \subseteq Saved' => Requests \subseteq Saved /\ S1 >= 0
  <2> SUFFICES ASSUME Requests \subseteq Saved' PROVE S1 >= 0
    OBVIOUS
  <2> DEFINE k == PaidFrom("subscription")'
  <2>1. paid' \in [Requests -> Int]
    BY DEF TypeOK
  <2>2. k \in [Requests -> Int] /\ \A q \in Requests : k[q] >= 0
    BY <2>1 DEF PaidFrom
  <2> HIDE DEF k
  <2>3. Total(k) >= 0
    BY <2>2, TotalNat
  <2> QED
    BY <2>3 DEF k
<1>q. SUFFICES /\ wallet' = InitWallet - W1 - fees'["wallet"]
               /\ token' = InitToken - T1 - fees'["token"]
               /\ Requests \subseteq Saved' => sub'.used = S1 + fees'["subscription"]
  BY DEF LedgerOK
<1>5. CASE Quiet
  <2>1. PaidFrom("wallet")' = PaidFrom("wallet") /\ PaidFrom("subscription")' = PaidFrom("subscription")
    BY <1>5, PaidStays DEF Quiet
  <2>2. W1 = W /\ S1 = S /\ T1 = T
    BY <1>5, <2>1 DEF Quiet
  <2>3. UNCHANGED <<wallet, token, fees>> /\ sub'.used = sub.used
    BY <1>5 DEF Quiet
  <2> QED
    BY <1>3, <1>4, <2>2, <2>3
<1>6. ASSUME NEW r \in Requests, NEW d \in Int, Charge(r, d)
      PROVE  /\ wallet' = InitWallet - W1 - fees'["wallet"]
             /\ token' = InitToken - T1 - fees'["token"]
             /\ Requests \subseteq Saved' => sub'.used = S1 + fees'["subscription"]
  <2>1. /\ W1 = W + (IF session[r].funding = "wallet" THEN d ELSE 0)
        /\ S1 = S + (IF session[r].funding = "subscription" THEN d ELSE 0)
    BY <1>6, PaidMoves DEF Charge
  <2>2. T1 = T /\ fees' = fees /\ token' = token
    BY <1>6 DEF Charge
  <2>3. session[r].funding \in {"wallet", "subscription"}
    BY <1>6 DEF Charge, Funded, TypeOK, SessionType
  <2> HIDE DEF W, S, T, W1, S1, T1, fw, fs, ft
  <2>4. CASE session[r].funding = "wallet"
    <3>1. wallet' = wallet - d /\ sub'.used = sub.used
      BY <1>6, <2>4 DEF Charge, Funded, Wallet
    <3>2. W1 = W + d /\ S1 = S
      BY <1>2, <2>1, <2>4
    <3> QED
      BY <1>1, <1>2, <1>3, <1>4, <2>2, <3>1, <3>2 DEF fw, fs, ft
  <2>5. CASE session[r].funding = "subscription"
    <3>1. wallet' = wallet /\ sub'.used = NewUsed(d)
      BY <1>6, <2>5 DEF Charge, Funded, Wallet
    <3>2. W1 = W /\ S1 = S + d
      BY <1>2, <2>1, <2>5
    <3>3. Requests \subseteq Saved' => sub'.used = S1 + fs
      BY <1>1, <1>2, <1>3, <1>4, <3>1, <3>2 DEF NewUsed
    <3> QED
      BY <1>3, <2>2, <3>1, <3>2, <3>3 DEF fw, fs, ft
  <2> QED
    BY <2>3, <2>4, <2>5
<1>7. ASSUME NEW r \in Requests, NEW d \in Int, TokenCharge(r, d)
      PROVE  /\ wallet' = InitWallet - W1 - fees'["wallet"]
             /\ token' = InitToken - T1 - fees'["token"]
             /\ Requests \subseteq Saved' => sub'.used = S1 + fees'["subscription"]
  <2>1. PaidFrom("wallet")' = PaidFrom("wallet") /\ PaidFrom("subscription")' = PaidFrom("subscription")
    BY <1>7, PaidStays DEF TokenCharge, SameSources
  <2>2. W1 = W /\ S1 = S
    BY <2>1
  <2>3. /\ tokenPaid' \in [Requests -> Int] /\ tokenPaid'[r] = tokenPaid[r] + d /\ tokenPaid[r] \in Int
        /\ \A q \in Requests \ {r} : tokenPaid'[q] = tokenPaid[q]
    BY <1>1, <1>7 DEF TokenCharge, TypeOK
  <2>4. T1 = T + (tokenPaid'[r] - tokenPaid[r])
    BY <1>1, <2>3, TotalChanges
  <2>5. token' = token - d /\ UNCHANGED <<wallet, fees>> /\ sub'.used = sub.used
    BY <1>7 DEF TokenCharge
  <2> HIDE DEF W, S, T, W1, S1, T1
  <2>6. T1 = T + d
    BY <1>2, <2>3, <2>4
  <2> QED
    BY <1>1, <1>2, <1>3, <1>4, <2>2, <2>5, <2>6
<1>8. ASSUME NEW r \in Requests, NEW f \in Nat, FeeCharge(r, f)
      PROVE  /\ wallet' = InitWallet - W1 - fees'["wallet"]
             /\ token' = InitToken - T1 - fees'["token"]
             /\ Requests \subseteq Saved' => sub'.used = S1 + fees'["subscription"]
  <2>1. PaidFrom("wallet")' = PaidFrom("wallet") /\ PaidFrom("subscription")' = PaidFrom("subscription")
    BY <1>8, PaidStays DEF FeeCharge, SameSources
  <2>2. W1 = W /\ S1 = S /\ T1 = T /\ token' = token
    BY <1>8, <2>1 DEF FeeCharge
  <2>3. session[r].funding \in {"wallet", "subscription"}
    BY <1>8 DEF FeeCharge, Funded, TypeOK, SessionType
  <2> HIDE DEF W, S, T, W1, S1, T1
  <2>4. CASE session[r].funding = "wallet"
    <3>1. wallet' = wallet - f /\ sub'.used = sub.used
      BY <1>8, <2>4 DEF FeeCharge, Funded, Wallet
    <3>2. fees'["wallet"] = fw + f /\ fees'["subscription"] = fs /\ fees'["token"] = ft
      BY <1>8, <2>4 DEF FeeCharge, TypeOK
    <3> HIDE DEF fw, fs, ft
    <3> QED
      BY <1>1, <1>2, <1>3, <1>4, <2>2, <3>1, <3>2
  <2>5. CASE session[r].funding = "subscription"
    <3>1. wallet' = wallet /\ sub'.used = NewUsed(f)
      BY <1>8, <2>5 DEF FeeCharge, Funded, Wallet
    <3>2. fees'["wallet"] = fw /\ fees'["subscription"] = fs + f /\ fees'["token"] = ft
      BY <1>8, <2>5 DEF FeeCharge, TypeOK
    <3>3. NewUsed(f) = sub.used + f
      BY <1>1 DEF NewUsed
    <3> HIDE DEF fw, fs, ft
    <3> QED
      BY <1>1, <1>2, <1>3, <1>4, <2>2, <3>1, <3>2, <3>3
  <2> QED
    BY <2>3, <2>4, <2>5
<1>9. ASSUME NEW f \in Nat, TokenFee(f)
      PROVE  /\ wallet' = InitWallet - W1 - fees'["wallet"]
             /\ token' = InitToken - T1 - fees'["token"]
             /\ Requests \subseteq Saved' => sub'.used = S1 + fees'["subscription"]
  <2>1. PaidFrom("wallet")' = PaidFrom("wallet") /\ PaidFrom("subscription")' = PaidFrom("subscription")
    BY <1>9, PaidStays DEF TokenFee, SameSources
  <2>2. /\ W1 = W /\ S1 = S /\ T1 = T /\ wallet' = wallet /\ sub'.used = sub.used
        /\ token' = token - f
    BY <1>9, <2>1 DEF TokenFee
  <2>3. fees'["wallet"] = fw /\ fees'["subscription"] = fs /\ fees'["token"] = ft + f
    BY <1>9 DEF TokenFee, TypeOK
  <2> HIDE DEF W, S, T, W1, S1, T1, fw, fs, ft
  <2> QED
    BY <1>1, <1>2, <1>3, <1>4, <2>2, <2>3
<1> QED
  BY <1>5, <1>6, <1>7, <1>8, <1>9 DEF Effect

\* One request moves, the others stay as they are.
LEMMA SourceMoves ==
  ASSUME SourceInv, NEW r \in Requests, SourceOK(r)',
         \A q \in Requests \ {r} : /\ pc'[q] = pc[q] /\ paid'[q] = paid[q] /\ job'[q] = job[q]
                                   /\ session'[q].funding = session[q].funding
  PROVE  SourceInv'
BY DEF SourceInv, SourceOK

\* A write to the funding source of r, and one that failed.
LEMMA WriteEffect ==
  ASSUME TypeOK, NEW r \in Requests, NEW d
  PROVE  /\ FundingChange(r, d) /\ session[r].funding # "none" => Funded(r, d)
         /\ \A w : FundingError(r, d, w) => wallet' = wallet /\ sub'.used = sub.used
<1>1. sub \in SubType
  BY DEF TypeOK
<1> QED
  BY <1>1 DEF FundingChange, FundingError, Funded, SubType

\* Every step has one of the effects.
LEMMA EffectStep ==
  ASSUME TypeInv, SourceInv, [Next]_vars PROVE Effect /\ SourceInv'
<1> USE DEF stores, env, refundVars, history
<1>0. /\ TypeOK /\ \A q \in Requests : PendingOK(q) /\ SourceOK(q)
  BY DEF TypeInv, SourceInv
<1>s. /\ pc \in [Requests -> Control] /\ session \in [Requests -> SessionType]
      /\ job \in [Requests -> JobControl] /\ paid \in [Requests -> Int]
      /\ \A q \in Requests : /\ session[q].need \in Nat /\ session[q].consumed \in Int
                             /\ session[q].pre \in Nat /\ session[q].extra \in Nat
                             /\ session[q].tokenConsumed \in Nat /\ delta[q] \in Int
  BY <1>0, SessionFields DEF TypeOK
<1>b. Actuals \subseteq Nat /\ ReserveTargets \subseteq Nat /\ Fees \subseteq Nat
  BY BillingAssumption
<1>1. ASSUME NEW r \in Requests,
             Begin(r) \/ HasSubscription(r) \/ WalletCheck(r)
      PROVE  Effect /\ SourceInv'
  <2>1. /\ UNCHANGED <<wallet, token, sub, fees, paid, tokenPaid, job>>
        /\ pc[r] \in {"idle", "hasSub", "walletCheck"}
    BY <1>1 DEF Begin, HasSubscription, WalletCheck
  <2>2. \A q \in Requests \ {r} : pc'[q] = pc[q] /\ session'[q] = session[q]
    BY <1>1, <1>s DEF Begin, HasSubscription, WalletCheck
  <2>3. /\ pc'[r] \in {"hasSub", "walletCheck", "tokenRead", "rejected"}
        /\ pc'[r] = "tokenRead" => session'[r].funding # "none"
    BY <1>1, <1>s, SMTT(30) DEF Begin, HasSubscription, WalletCheck, trySubscription, tryWallet, NewSession
  <2>4. paid[r] = 0 /\ job[r] = "none"
    BY <1>0, <2>1 DEF SourceOK, BeforeOpen, PendingOK
  <2>5. SourceOK(r)'
    BY <2>1, <2>3, <2>4 DEF SourceOK
  <2>6. Quiet
    BY <2>1, <2>2, <2>4 DEF Quiet
  <2> QED
    BY <2>1, <2>2, <2>5, <2>6, SourceMoves DEF Effect
<1>2. ASSUME NEW r \in Requests,
             \/ TokenRead(r) \/ TokenPre(r) \/ FundingPreFails(r) \/ RollbackToken(r)
             \/ ReserveTokenRead(r) \/ ReserveToken(r) \/ SettleToken(r)
             \/ Refund(r) \/ NoFee(r) \/ FeeToken(r)
      PROVE  Effect /\ SourceInv'
  <2>1. UNCHANGED <<wallet, sub, paid>>
    BY <1>2 DEF TokenRead, TokenPre, FundingPreFails, RollbackToken, ReserveTokenRead, ReserveToken,
       SettleToken, Refund, NoFee, FeeToken
  <2>2. \A q \in Requests \ {r} : pc'[q] = pc[q] /\ job'[q] = job[q]
    BY <1>2, <1>s DEF TokenRead, TokenPre, FundingPreFails, RollbackToken, ReserveTokenRead, ReserveToken,
       SettleToken, Refund, NoFee, FeeToken, Goto
  <2>3. SameSources
    <3>1. CASE TokenRead(r)
      BY <1>s, <3>1 DEF TokenRead, SameSources, SessionType
    <3>4. CASE TokenPre(r) \/ FundingPreFails(r)
      BY <1>s, <3>4 DEF TokenPre, FundingPreFails, SameSources, SessionType
    <3>5. CASE RollbackToken(r)
      <4>1. session' = session \/ session' = [session EXCEPT ![r].tokenConsumed = 0]
        BY <3>5 DEF RollbackToken
      <4> QED
        BY <1>s, <4>1 DEF SameSources, SessionType
    <3>2. CASE ReserveTokenRead(r) \/ ReserveToken(r)
      <4>1. \/ session' = session
            \/ session' = [session EXCEPT ![r] = session[r]]
            \/ session' = [session EXCEPT ![r] = Reserved(session[r], delta[r])]
        <5>1. CASE ReserveTokenRead(r) /\ profile[r].playground
          BY <5>1 DEF ReserveTokenRead
        <5>2. CASE ReserveTokenRead(r) /\ ~profile[r].playground
          BY <5>2 DEF ReserveTokenRead
        <5>3. CASE ReserveToken(r)
          BY <5>3 DEF ReserveToken
        <5> QED
          BY <3>2, <5>1, <5>2, <5>3
      <4>2. Reserved(session[r], delta[r]).funding = session[r].funding
        BY <1>s DEF Reserved, SessionType
      <4> QED
        BY <1>s, <4>1, <4>2 DEF SameSources
    <3>3. CASE SettleToken(r) \/ Refund(r) \/ NoFee(r) \/ FeeToken(r)
      BY <1>s, <3>3 DEF SettleToken, Refund, NoFee, FeeToken, SameSources, SessionType
    <3> QED
      BY <1>2, <3>1, <3>2, <3>3, <3>4, <3>5
  <2>4. /\ pc[r] \notin {"idle", "hasSub", "walletCheck", "rejected", "crashed"}
        /\ pc[r] \in Control /\ (pc'[r] \in BeforeOpen => pc[r] \in BeforeOpen)
    BY <1>2, <1>s DEF TokenRead, TokenPre, FundingPreFails, RollbackToken, ReserveTokenRead, ReserveToken,
       SettleToken, Refund, NoFee, FeeToken, Goto, BeforeOpen
  <2>5. session[r].funding # "none"
    BY <1>0, <2>4 DEF SourceOK
  <2>6. SourceOK(r)'
    BY <1>0, <2>1, <2>3, <2>4, <2>5 DEF SourceOK, SameSources
  <2>7. SourceInv'
    BY <2>1, <2>2, <2>3, <2>6, SourceMoves DEF SameSources
  <2>8. CASE UNCHANGED <<token, fees, tokenPaid>>
    BY <2>1, <2>3, <2>7, <2>8 DEF Effect, Quiet, SameSources
  <2>9. ASSUME NEW d \in Int, TokenChange(r, d), UNCHANGED fees PROVE Effect
    BY <2>1, <2>3, <2>9 DEF Effect, TokenCharge, TokenChange
  <2>10. ASSUME ~UNCHANGED <<token, fees, tokenPaid>> PROVE Effect
    <3>1. CASE TokenPre(r)
      BY <1>s, <2>9, <2>10, <3>1 DEF TokenPre, TokenError
    <3>2. CASE RollbackToken(r)
      <4>1. -session[r].tokenConsumed \in Int
        BY <1>s
      <4> QED
        BY <2>9, <2>10, <3>2, <4>1 DEF RollbackToken, TokenError
    <3>3. CASE ReserveToken(r) \/ SettleToken(r)
      BY <1>s, <2>9, <2>10, <3>3 DEF ReserveToken, SettleToken, TokenError
    <3>4. CASE FeeToken(r)
      <4>1. delta[r] \in Nat /\ pc[r] = "feeToken"
        BY <1>0, <1>s, <3>4 DEF FeeToken, Goto, PendingOK
      <4>2. TokenFee(delta[r])
        BY <2>1, <2>3, <2>10, <3>4 DEF FeeToken, TokenFee
      <4> QED
        BY <4>1, <4>2 DEF Effect
    <3> QED
      BY <1>2, <2>10, <3>1, <3>2, <3>3, <3>4
         DEF TokenRead, FundingPreFails, ReserveTokenRead, Refund, NoFee
  <2> QED
    BY <2>7, <2>8, <2>10
<1>3. ASSUME NEW r \in Requests, FundingPre(r) PROVE Effect /\ SourceInv'
  <2> DEFINE need == session[r].need
  <2>1. /\ pc[r] = "fundingPre" /\ UNCHANGED <<token, tokenPaid, fees, job>>
        /\ paid' = [paid EXCEPT ![r] = @ + need]
    BY <1>3 DEF FundingPre, Goto, Paid
  <2>2. SameSources
    BY <1>3, <1>s DEF FundingPre, SameSources, SessionType
  <2>3. session[r].funding # "none"
    BY <1>0, <2>1 DEF SourceOK
  <2>4. Funded(r, need)
    <3>1. sub.used \in Nat /\ need \in Nat /\ sub \in SubType
      BY <1>0, <1>s, LedgerTypes DEF TypeOK
    <3>2. NewUsed(need) = sub.used + need
      BY <3>1 DEF NewUsed
    <3> QED
      BY <1>3, <2>3, <3>1, <3>2 DEF FundingPre, Funded, SubType
  <2>5. Effect
    <3>1. need \in Int
      BY <1>s
    <3> HIDE DEF need
    <3>2. Charge(r, need)
      BY <2>1, <2>2, <2>4 DEF Charge
    <3> QED
      BY <3>1, <3>2 DEF Effect
  <2>6. pc'[r] = "open" /\ \A q \in Requests \ {r} : pc'[q] = pc[q]
    BY <1>3, <1>s DEF FundingPre, Goto
  <2>7. SourceOK(r)'
    BY <2>2, <2>3, <2>6 DEF SourceOK, SameSources, BeforeOpen
  <2>8. \A q \in Requests \ {r} : paid'[q] = paid[q]
    BY <1>s, <2>1
  <2> QED
    BY <2>1, <2>2, <2>5, <2>6, <2>7, <2>8, SourceMoves DEF SameSources
<1>4. ASSUME NEW r \in Requests, NEW d \in Int,
             FundingChange(r, d), Paid(r, d), SameSources, UNCHANGED <<token, tokenPaid, fees>>,
             \A q \in Requests \ {r} : pc'[q] = pc[q] /\ job'[q] = job[q],
             pc'[r] \notin BeforeOpen, session[r].funding # "none"
      PROVE  Effect /\ SourceInv'
  <2>1. Funded(r, d)
    BY <1>0, <1>4, WriteEffect
  <2>2. paid' = [paid EXCEPT ![r] = @ + d]
    BY <1>4 DEF Paid
  <2>3. Effect
    BY <1>4, <2>1, <2>2 DEF Effect, Charge
  <2>4. \A q \in Requests \ {r} : paid'[q] = paid[q]
    BY <1>s, <2>2
  <2>5. SourceOK(r)'
    BY <1>4 DEF SourceOK, SameSources
  <2> QED
    BY <1>4, <2>3, <2>4, <2>5, SourceMoves DEF SameSources
<1>5. ASSUME NEW r \in Requests, UNCHANGED <<wallet, token, fees, paid, tokenPaid>>, sub'.used = sub.used,
             SameSources, \A q \in Requests \ {r} : pc'[q] = pc[q] /\ job'[q] = job[q],
             pc'[r] \notin BeforeOpen, session[r].funding # "none"
      PROVE  Effect /\ SourceInv'
  <2>1. Quiet
    BY <1>5 DEF Quiet, SameSources
  <2>2. SourceOK(r)'
    BY <1>5 DEF SourceOK, SameSources
  <2> QED
    BY <1>5, <2>1, <2>2, SourceMoves DEF SameSources, Effect
<1>6. ASSUME NEW r \in Requests, NEW t \in ReserveTargets, Reserve(r, t) PROVE Effect /\ SourceInv'
  <2> DEFINE d == t - session[r].pre
  <2>1. pc[r] = "open" /\ UNCHANGED <<token, tokenPaid, fees, job>> /\ d \in Int
    BY <1>6, <1>s, <1>b DEF Reserve
  <2>2. /\ SameSources /\ pc'[r] \notin BeforeOpen
        /\ \A q \in Requests \ {r} : pc'[q] = pc[q]
    BY <1>6, <1>s, <2>1 DEF Reserve, SameSources, SessionType, BeforeOpen
  <2>3. session[r].funding # "none"
    BY <1>0, <2>1 DEF SourceOK
  <2>4. \/ FundingChange(r, d) /\ Paid(r, d)
        \/ UNCHANGED paid /\ FundingError(r, d, "reserveFunding")
    BY <1>6 DEF Reserve
  <2> HIDE DEF d
  <2>5. CASE FundingChange(r, d) /\ Paid(r, d)
    BY <1>4, <2>1, <2>2, <2>3, <2>5
  <2>6. CASE UNCHANGED paid /\ FundingError(r, d, "reserveFunding")
    BY <1>0, <1>5, <2>1, <2>2, <2>3, <2>6, WriteEffect
  <2> QED
    BY <2>4, <2>5, <2>6
<1>7. ASSUME NEW r \in Requests, ReserveRollback(r) PROVE Effect /\ SourceInv'
  <2> DEFINE d == -delta[r]
  <2>1. pc[r] = "reserveRollback" /\ UNCHANGED <<token, tokenPaid, fees, job>> /\ d \in Int
    BY <1>7, <1>s DEF ReserveRollback, Goto
  <2>2. /\ SameSources /\ pc'[r] \notin BeforeOpen
        /\ \A q \in Requests \ {r} : pc'[q] = pc[q]
    BY <1>7, <1>s DEF ReserveRollback, Goto, SameSources, SessionType, BeforeOpen
  <2>3. session[r].funding # "none"
    BY <1>0, <2>1 DEF SourceOK
  <2>4. \/ FundingChange(r, d) /\ Paid(r, d)
        \/ UNCHANGED paid /\ FundingError(r, d, "reserveRollback")
    BY <1>7 DEF ReserveRollback
  <2> HIDE DEF d
  <2>5. CASE FundingChange(r, d) /\ Paid(r, d)
    BY <1>4, <2>1, <2>2, <2>3, <2>5
  <2>6. CASE UNCHANGED paid /\ FundingError(r, d, "reserveRollback")
    BY <1>0, <1>5, <2>1, <2>2, <2>3, <2>6, WriteEffect
  <2> QED
    BY <2>4, <2>5, <2>6
<1>8. ASSUME NEW r \in Requests, NEW a \in Actuals, Settle(r, a) PROVE Effect /\ SourceInv'
  <2> DEFINE d == SettleDelta(r, a)
  <2>1. pc[r] = "open" /\ UNCHANGED <<token, tokenPaid, fees, job>> /\ d \in Int
    BY <1>8, <1>s, <1>b DEF Settle, SettleDelta
  <2>2. /\ SameSources /\ pc'[r] \notin BeforeOpen
        /\ \A q \in Requests \ {r} : pc'[q] = pc[q]
    <3>1. \/ session' = session
          \/ session' = [session EXCEPT ![r].settled = TRUE]
          \/ session' = [session EXCEPT ![r].fundingSettled = TRUE]
      BY <1>8 DEF Settle
    <3>2. SameSources
      BY <1>s, <3>1 DEF SameSources, SessionType
    <3>3. \E c \in {"done", "settleToken"} : pc' = [pc EXCEPT ![r] = c]
      BY <1>8 DEF Settle
    <3> QED
      BY <1>s, <3>2, <3>3 DEF BeforeOpen
  <2>3. session[r].funding # "none"
    BY <1>0, <2>1 DEF SourceOK
  <2>4. \/ FundingChange(r, d) /\ Paid(r, d)
        \/ UNCHANGED paid /\ FundingError(r, d, "fundingSettle")
        \/ UNCHANGED <<wallet, sub, paid>>
    BY <1>8 DEF Settle
  <2> HIDE DEF d
  <2>5. CASE FundingChange(r, d) /\ Paid(r, d)
    BY <1>4, <2>1, <2>2, <2>3, <2>5
  <2>6. CASE UNCHANGED paid /\ FundingError(r, d, "fundingSettle")
    BY <1>0, <1>5, <2>1, <2>2, <2>3, <2>6, WriteEffect
  <2>7. CASE UNCHANGED <<wallet, sub, paid>>
    BY <1>5, <2>1, <2>2, <2>3, <2>7
  <2> QED
    BY <2>4, <2>5, <2>6, <2>7
<1>9. ASSUME NEW r \in Requests, job[r] \in {"funding", "record", "extra", "token"}
      PROVE  session[r].funding # "none" /\ pc[r] \notin BeforeOpen
  BY <1>0, <1>9 DEF SourceOK, PendingOK, BeforeOpen
<1>10. ASSUME NEW r \in Requests, RefundFunding(r) PROVE Effect /\ SourceInv'
  <2> DEFINE d == -session[r].consumed
  <2>1. UNCHANGED <<token, tokenPaid, fees, pc, session>> /\ d \in Int /\ SameSources
    BY <1>10, <1>s DEF RefundFunding, SameSources
  <2>2. \A q \in Requests \ {r} : job'[q] = job[q]
    BY <1>10, <1>s DEF RefundFunding, GiveUp, Retry
  <2>3. session[r].funding # "none" /\ pc'[r] \notin BeforeOpen
    BY <1>9, <1>10, <2>1 DEF RefundFunding
  <2>4. \/ FundingChange(r, d) /\ Paid(r, d)
        \/ UNCHANGED paid /\ FundingError(r, d, "fundingRefund")
        \/ UNCHANGED <<wallet, sub, paid>>
    BY <1>10 DEF RefundFunding
  <2> HIDE DEF d
  <2>5. CASE FundingChange(r, d) /\ Paid(r, d)
    BY <1>4, <2>1, <2>2, <2>3, <2>5
  <2>6. CASE UNCHANGED paid /\ FundingError(r, d, "fundingRefund")
    BY <1>0, <1>5, <2>1, <2>2, <2>3, <2>6, WriteEffect
  <2>7. CASE UNCHANGED <<wallet, sub, paid>>
    BY <1>5, <2>1, <2>2, <2>3, <2>7
  <2> QED
    BY <2>4, <2>5, <2>6, <2>7
<1>11. ASSUME NEW r \in Requests, RefundRecord(r) PROVE Effect /\ SourceInv'
  <2>1. UNCHANGED <<wallet, sub, paid, token, tokenPaid, fees, pc, session>> /\ SameSources
    BY <1>11 DEF RefundRecord, SameSources
  <2>2. \A q \in Requests \ {r} : job'[q] = job[q]
    BY <1>11, <1>s DEF RefundRecord, Retry
  <2>3. session[r].funding # "none" /\ pc'[r] \notin BeforeOpen
    BY <1>9, <1>11, <2>1 DEF RefundRecord
  <2> QED
    BY <1>5, <2>1, <2>2, <2>3
<1>12. ASSUME NEW r \in Requests, RefundExtra(r) PROVE Effect /\ SourceInv'
  <2> DEFINE d == -ExtraOwed(r)
  <2>1. UNCHANGED <<token, tokenPaid, fees, pc, session>> /\ d \in Int /\ SameSources
    BY <1>12, <1>s DEF RefundExtra, SameSources, ExtraOwed
  <2>2. \A q \in Requests \ {r} : job'[q] = job[q]
    BY <1>12, <1>s DEF RefundExtra
  <2>3. session[r].funding # "none" /\ pc'[r] \notin BeforeOpen
    BY <1>9, <1>12, <2>1 DEF RefundExtra
  <2>4. \/ FundingChange(r, d) /\ Paid(r, d)
        \/ UNCHANGED paid /\ FundingError(r, d, "extraRefund")
        \/ UNCHANGED <<wallet, sub, paid>>
    BY <1>12 DEF RefundExtra
  <2> HIDE DEF d
  <2>5. CASE FundingChange(r, d) /\ Paid(r, d)
    BY <1>4, <2>1, <2>2, <2>3, <2>5
  <2>6. CASE UNCHANGED paid /\ FundingError(r, d, "extraRefund")
    BY <1>0, <1>5, <2>1, <2>2, <2>3, <2>6, WriteEffect
  <2>7. CASE UNCHANGED <<wallet, sub, paid>>
    BY <1>5, <2>1, <2>2, <2>3, <2>7
  <2> QED
    BY <2>4, <2>5, <2>6, <2>7
<1>13. ASSUME NEW r \in Requests, RefundToken(r) PROVE Effect /\ SourceInv'
  <2> DEFINE d == -session[r].tokenConsumed
  <2>1. UNCHANGED <<wallet, sub, paid, fees, pc, session>> /\ d \in Int /\ SameSources
    BY <1>13, <1>s DEF RefundToken, SameSources
  <2>2. \A q \in Requests \ {r} : job'[q] = job[q]
    BY <1>13, <1>s DEF RefundToken
  <2>3. session[r].funding # "none" /\ pc'[r] \notin BeforeOpen
    BY <1>9, <1>13, <2>1 DEF RefundToken
  <2>4. TokenChange(r, d) \/ UNCHANGED <<token, tokenPaid>>
    BY <1>13 DEF RefundToken, TokenError
  <2> HIDE DEF d
  <2>5. CASE TokenChange(r, d)
    <3>1. TokenCharge(r, d)
      BY <2>1, <2>5 DEF TokenCharge, TokenChange
    <3>2. SourceOK(r)'
      BY <2>1, <2>3 DEF SourceOK
    <3> QED
      BY <2>1, <2>2, <3>1, <3>2, SourceMoves DEF Effect
  <2>6. CASE UNCHANGED <<token, tokenPaid>>
    BY <1>5, <2>1, <2>2, <2>3, <2>6
  <2> QED
    BY <2>4, <2>5, <2>6
<1>14. ASSUME NEW r \in Requests, NEW f \in Fees, Fee(r, f) PROVE Effect /\ SourceInv'
  <2>1. /\ pc[r] = "fee" /\ UNCHANGED <<token, tokenPaid, paid, job, session>> /\ f \in Nat
        /\ SameSources
    BY <1>14, <1>b DEF Fee, SameSources
  <2>2. pc'[r] \notin BeforeOpen /\ \A q \in Requests \ {r} : pc'[q] = pc[q]
    BY <1>14, <1>s DEF Fee, BeforeOpen
  <2>3. session[r].funding # "none"
    BY <1>0, <2>1 DEF SourceOK
  <2>4. \/ FundingChange(r, f) /\ fees' = [fees EXCEPT ![session[r].funding] = @ + f]
        \/ UNCHANGED fees /\ FundingError(r, f, "feeFunding")
    BY <1>14 DEF Fee
  <2>5. CASE FundingChange(r, f) /\ fees' = [fees EXCEPT ![session[r].funding] = @ + f]
    <3>1. Funded(r, f)
      BY <1>0, <2>3, <2>5, WriteEffect
    <3>2. FeeCharge(r, f)
      BY <2>1, <2>5, <3>1 DEF FeeCharge
    <3>3. SourceOK(r)'
      BY <2>1, <2>2, <2>3 DEF SourceOK
    <3> QED
      BY <2>1, <2>2, <3>2, <3>3, SourceMoves DEF Effect
  <2>6. CASE UNCHANGED fees /\ FundingError(r, f, "feeFunding")
    BY <1>0, <1>5, <2>1, <2>2, <2>3, <2>6, WriteEffect
  <2> QED
    BY <2>4, <2>5, <2>6
<1>15. CASE SubscriptionEnds
  <2>1. UNCHANGED <<wallet, token, fees, paid, tokenPaid, session, pc, job>>
    BY <1>15 DEF SubscriptionEnds
  <2>2. sub'.used = sub.used
    BY <1>0, <1>15 DEF SubscriptionEnds, TypeOK, SubType
  <2> QED
    BY <2>1, <2>2 DEF Effect, Quiet, SourceInv, SourceOK
<1>16. CASE Crash
  <2>1. UNCHANGED <<wallet, token, sub, fees, paid, tokenPaid, session>>
    BY <1>16 DEF Crash
  <2>2. \A q \in Requests : /\ pc'[q] \in {pc[q], "crashed"}
                            /\ job[q] = "none" => job'[q] = "none"
    BY <1>16 DEF Crash
  <2>3. SourceInv'
    BY <2>1, <2>2 DEF SourceInv, SourceOK, BeforeOpen
  <2> QED
    BY <2>1, <2>3 DEF Effect, Quiet
<1>17. CASE UNCHANGED vars
  BY <1>17 DEF vars, Effect, Quiet, SourceInv, SourceOK
<1> QED
  BY <1>1, <1>2, <1>3, <1>6, <1>7, <1>8, <1>10, <1>11, <1>12, <1>13, <1>14, <1>15, <1>16, <1>17
     DEF Next, Request, RefundJob, Done

\* The sum of nothing.
LEMMA TotalZero ==
  ASSUME NEW f \in [Requests -> Int], \A r \in Requests : f[r] = 0
  PROVE  Total(f) = 0
<1> DEFINE g == Parts(f)
           B == {t \in SUBSET Requests : g[t] # 0}
<1>0. Total(f) = g[Requests] /\ Sums(f, g, Requests)
  BY TotalIs
<1> HIDE DEF g
<1>1. ASSUME B # {} PROVE FALSE
  <2>1. PICK t \in B : \A u \in B : ~(u \subseteq t /\ u # t)
    <3>1. B \subseteq SUBSET Requests
      OBVIOUS
    <3> HIDE DEF B
    <3> QED
      BY <1>1, <3>1, Smallest
  <2>2. g[t] = IF t = {} THEN 0 ELSE f[First(t)] + g[Rest(t)]
    <3>1. t \subseteq Requests
      OBVIOUS
    <3> HIDE DEF B
    <3> QED
      BY <1>0, <3>1, SumsAt
  <2>3. t # {}
    BY <2>1, <2>2
  <2>4. First(t) \in t /\ Rest(t) \subseteq t /\ Rest(t) # t
    BY <2>3, RestSmaller
  <2>5. g[Rest(t)] = 0 /\ f[First(t)] = 0
    BY <2>1, <2>4
  <2> QED
    BY <2>1, <2>2, <2>3, <2>5
<1> QED
  BY <1>0, <1>1

LEMMA LedgerInit == Init => LedgerInv
<1> SUFFICES ASSUME Init PROVE LedgerInv
  OBVIOUS
<1>1. AccountInv /\ TypeOK
  BY TypeInit, AccountInit DEF AccountInv, Saved, TypeInv
<1>2. /\ wallet = InitWallet /\ token = InitToken /\ sub.used = 0
      /\ fees["wallet"] = 0 /\ fees["subscription"] = 0 /\ fees["token"] = 0
      /\ \A r \in Requests : /\ pc[r] = "idle" /\ job[r] = "none"
                             /\ paid[r] = 0 /\ tokenPaid[r] = 0
  BY DEF Init
<1>3. SourceInv
  BY <1>2 DEF SourceInv, SourceOK
<1>4. /\ PaidFrom("wallet") \in [Requests -> Int] /\ PaidFrom("subscription") \in [Requests -> Int]
      /\ tokenPaid \in [Requests -> Int] /\ InitWallet \in Int /\ InitToken \in Int
  BY <1>1, LedgerTypes
<1>5. Total(PaidFrom("wallet")) = 0 /\ Total(PaidFrom("subscription")) = 0 /\ Total(tokenPaid) = 0
  <2>1. \A r \in Requests : PaidFrom("wallet")[r] = 0 /\ PaidFrom("subscription")[r] = 0
    BY <1>2 DEF PaidFrom
  <2> QED
    BY <1>2, <1>4, <2>1, TotalZero
<1>6. LedgerOK
  BY <1>2, <1>4, <1>5 DEF LedgerOK
<1> QED
  BY <1>1, <1>3, <1>6 DEF LedgerInv

LEMMA NextGainsNothing == (AccountInv => \A q \in Saved : paid[q] >= 0 /\ tokenPaid[q] >= 0)'
BY SavedGainsNothing, PTL

LEMMA LedgerStep == LedgerInv /\ [Next]_vars => LedgerInv'
<1> SUFFICES ASSUME LedgerInv, [Next]_vars PROVE LedgerInv'
  OBVIOUS
<1>1. AccountInv' /\ TypeInv /\ TypeInv' /\ TypeOK /\ TypeOK'
  BY AccountsStep DEF LedgerInv, AccountInv, TypeInv
<1>2. Saved' \subseteq Saved
  BY <1>1, FailedGrows DEF ErrorRecorded, Saved, TypeOK
<1>3. Effect /\ SourceInv'
  BY <1>1, EffectStep DEF LedgerInv
<1>4. \A q \in Saved' : paid'[q] >= 0
  BY <1>1, NextGainsNothing
<1>5. LedgerOK'
  BY <1>1, <1>2, <1>3, <1>4, LedgerMoves DEF LedgerInv
<1> QED
  BY <1>1, <1>3, <1>5 DEF LedgerInv

LEMMA LedgerInvariant == Spec => []LedgerInv
BY LedgerInit, LedgerStep, PTL DEF Spec

\* When everything is over and no write failed, the wallet, the subscription
\* and the token hold what they held at the start less the settled quotas and
\* the violation fees, however many requests ran at once
\* (BillingSession.Settle and Refund, PostConsumeQuota).
THEOREM BooksBalanceCorrect == Spec => []BooksBalance
<1>1. LedgerInv => BooksBalance
  <2> SUFFICES ASSUME LedgerInv, AllDone, \A r \in Requests : Undisturbed(r)
               PROVE  /\ wallet = InitWallet - Settled("wallet") - fees["wallet"]
                      /\ sub.used = Settled("subscription") + fees["subscription"]
                      /\ token = InitToken - TokenSettled - fees["token"]
    BY DEF BooksBalance
  <2>1. TypeOK /\ LedgerOK /\ Requests \subseteq Saved /\ \A r \in Requests : RequestInv(r)
    BY DEF LedgerInv, AccountInv, Saved, Undisturbed, TypeInv
  <2>2. ASSUME NEW r \in Requests
        PROVE  /\ session[r].settled => paid[r] = actual[r] /\ tokenPaid[r] = TokenShare(r, actual[r])
               /\ ~session[r].settled => paid[r] = 0 /\ tokenPaid[r] = 0
    <3>1. /\ Phase(r) /\ Accounts(r) /\ PendingOK(r) /\ actual[r] \in Int
      BY <2>1 DEF LedgerInv, AccountInv, RequestInv, TypeInv, TypeOK
    <3>2. /\ pc[r] \in {"done", "rejected"} /\ job[r] \in {"none", "finished"} /\ Undisturbed(r)
      BY DEF AllDone, Terminal, Undisturbed
    <3>3. CASE session[r].settled
      BY <3>1, <3>2, <3>3 DEF Accounts
    <3>4. CASE ~session[r].settled
      <4>1. actual[r] < 0 /\ ~session[r].fundingSettled
        BY <3>1, <3>2, <3>4 DEF Phase, BeforeOpen
      <4>2. FundingHeld(r) = 0 /\ TokenHeld(r) = 0
        <5>1. CASE pc[r] = "rejected"
          <6>1. job[r] = "none"
            BY <3>1, <5>1 DEF PendingOK
          <6> QED
            BY <3>1, <5>1, <6>1 DEF Phase, BeforeOpen, FundingHeld, TokenHeld, Reserving
        <5>2. CASE pc[r] = "done"
          BY <3>1, <3>2, <4>1, <5>2 DEF Phase, FundingHeld, TokenHeld
        <5> QED
          BY <3>2, <5>1, <5>2
      <4> QED
        BY <3>1, <3>2, <3>4, <4>1, <4>2 DEF Accounts
    <3> QED
      BY <3>3, <3>4
  <2>3. /\ Settled("wallet") = Total(PaidFrom("wallet"))
        /\ Settled("subscription") = Total(PaidFrom("subscription"))
    <3>1. ASSUME NEW source
          PROVE  PaidFrom(source) =
                   [r \in Requests |->
                     IF session[r].settled /\ session[r].funding = source THEN actual[r] ELSE 0]
      BY <2>2 DEF PaidFrom
    <3> QED
      BY <3>1 DEF Settled
  <2>4. TokenSettled = Total(tokenPaid)
    <3>1. tokenPaid \in [Requests -> Int]
      BY <2>1 DEF TypeOK
    <3>2. tokenPaid = [r \in Requests |-> IF session[r].settled THEN TokenShare(r, actual[r]) ELSE 0]
      BY <2>2, <3>1
    <3> QED
      BY <3>2 DEF TokenSettled
  <2> QED
    BY <2>1, <2>3, <2>4 DEF LedgerOK
<1> QED
  BY <1>1, LedgerInvariant, PTL

=============================================================================
