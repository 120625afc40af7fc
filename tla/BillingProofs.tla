---------------------------- MODULE BillingProofs ----------------------------
(* Type correctness of Billing, for every number of requests, every price and *)
(* every set of database errors the assumptions allow.                        *)
EXTENDS Billing, TLAPS

-----------------------------------------------------------------------------
(* Types.                                                                    *)

\* TypeOK is not inductive: a reservation and a fee in progress are never
\* negative, the refund goroutine runs only after the request has failed, and
\* a refund that may still be retried has attempts left.
PendingOK(r) ==
  /\ Reserving(r) \/ pc[r] = "feeToken" => delta[r] >= 0
  /\ job[r] # "none" => pc[r] \in {"fee", "feeToken", "done", "crashed"}
  /\ job[r] = "none" => attempts[r] = 0
  /\ job[r] \in {"funding", "record"} => attempts[r] < MaxAttempts

TypeInv == TypeOK /\ \A r \in Requests : PendingOK(r)

\* The fields of a session have their types.
LEMMA SessionFields ==
  ASSUME NEW s \in SessionType
  PROVE  /\ s.need \in Nat /\ s.pre \in Nat /\ s.consumed \in Int
         /\ s.tokenConsumed \in Nat /\ s.extra \in Nat
BY DEF SessionType

\* A new session is typed, and so is a session with a field changed.
LEMMA SessionNew ==
  ASSUME NEW source \in {"none", "wallet", "subscription"}, NEW n \in Nat, NEW b \in BOOLEAN
  PROVE  NewSession(source, n, b) \in SessionType
BY DEF SessionType, NewSession

LEMMA SetPre ==
  \A s \in SessionType : \A n \in Nat : [s EXCEPT !.pre = n] \in SessionType
BY DEF SessionType

LEMMA SetTokenConsumed ==
  \A s \in SessionType : \A n \in Nat : [s EXCEPT !.tokenConsumed = n] \in SessionType
BY DEF SessionType

LEMMA SetExtra ==
  \A s \in SessionType : \A n \in Nat : [s EXCEPT !.extra = n] \in SessionType
BY DEF SessionType

LEMMA SetConsumed ==
  \A s \in SessionType : \A n \in Int : [s EXCEPT !.consumed = n] \in SessionType
BY DEF SessionType

LEMMA SetSettled == \A s \in SessionType : [s EXCEPT !.settled = TRUE] \in SessionType
BY DEF SessionType

LEMMA SetFundingSettled ==
  \A s \in SessionType : [s EXCEPT !.fundingSettled = TRUE] \in SessionType
BY DEF SessionType

LEMMA SetRefunded == \A s \in SessionType : [s EXCEPT !.refunded = TRUE] \in SessionType
BY DEF SessionType

LEMMA SetPreConsumed ==
  \A s \in SessionType : \A n \in Nat :
    [s EXCEPT !.pre = n, !.consumed = n] \in SessionType
<1> SUFFICES ASSUME NEW s \in SessionType, NEW n \in Nat
             PROVE  [s EXCEPT !.pre = n, !.consumed = n] \in SessionType
  OBVIOUS
<1> DEFINE t == [s EXCEPT !.pre = n]
<1>1. t \in SessionType
  BY SetPre, Zenon
<1>2. [t EXCEPT !.consumed = n] \in SessionType
  <2> HIDE DEF t
  <2> QED
    BY <1>1 DEF SessionType
<1> QED
  BY <1>2

LEMMA SetReserved ==
  \A s \in SessionType : \A d \in Nat : Reserved(s, d) \in SessionType
<1> SUFFICES ASSUME NEW s \in SessionType, NEW d \in Nat
             PROVE  Reserved(s, d) \in SessionType
  OBVIOUS
<1> DEFINE n == s.pre + d
           k == s.tokenConsumed + d
           e == s.extra + d
           t == [s EXCEPT !.pre = n]
           u == [t EXCEPT !.tokenConsumed = k]
<1>1. n \in Nat /\ k \in Nat /\ e \in Nat
  BY SessionFields
<1>2. t \in SessionType
  BY <1>1, SetPre, Zenon
<1>3. u \in SessionType
  <2> HIDE DEF t, k
  <2> QED
    BY <1>1, <1>2, SetTokenConsumed, Zenon
<1>4. [u EXCEPT !.extra = e] \in SessionType
  <2> HIDE DEF u, e
  <2> QED
    BY <1>1, <1>3, SetExtra, Zenon
<1> QED
  BY <1>4 DEF Reserved

\* The used amount of a subscription stays a natural number.
LEMMA SubUpdates ==
  ASSUME NEW u \in SubType, NEW n \in Nat
  PROVE  [u EXCEPT !.used = n] \in SubType /\ u.used \in Nat
BY DEF SubType

LEMMA ProfileFields ==
  ASSUME NEW p \in Profiles
  PROVE  p.quota \in Nat /\ p.playground \in BOOLEAN
BY BillingAssumption DEF ProfileType

LEMMA TypeInit == Init => TypeInv
<1> SUFFICES ASSUME Init PROVE TypeInv
  OBVIOUS
<1> USE BillingAssumption
<1>1. TypeOK
  BY DEF Init, TypeOK, SessionType, SubType, NewSession, Control, JobControl, MaxAttempts
<1>2. \A r \in Requests : PendingOK(r)
  BY DEF Init, PendingOK, Reserving, MaxAttempts
<1> QED
  BY <1>1, <1>2 DEF TypeInv

\* What the writes do to the types.
ErrorsTyped == failed' \in [Requests -> SUBSET WritePoints] /\ faults' \in 0 .. MaxFaults

LEMMA FaultTyped ==
  ASSUME TypeOK, NEW r \in Requests, NEW w \in WritePoints, Fault(r, w) \/ NoError
  PROVE  ErrorsTyped
BY BillingAssumption DEF TypeOK, Fault, NoError, ErrorsTyped

LEMMA FundingTyped ==
  ASSUME TypeOK, NEW r \in Requests, NEW d \in Int, NEW w \in WritePoints,
         FundingChange(r, d) \/ FundingError(r, d, w)
  PROVE  wallet' \in Int /\ sub' \in SubType /\ ErrorsTyped
<1>1. CASE FundingChange(r, d)
  <2>1. NewUsed(d) \in Nat
    BY DEF TypeOK, NewUsed, SubType
  <2>2. [sub EXCEPT !.used = NewUsed(d)] \in SubType
    BY <2>1, SubUpdates, Zenon DEF TypeOK
  <2>3. ErrorsTyped
    BY <1>1, FaultTyped DEF FundingChange
  <2> QED
    BY <1>1, <2>2, <2>3 DEF FundingChange, TypeOK
<1>2. CASE FundingError(r, d, w)
  <2>1. ErrorsTyped
    BY <1>2, FaultTyped, SMTT(20) DEF FundingError, TypeOK, ErrorsTyped
  <2> QED
    BY <1>2, <2>1 DEF FundingError, TypeOK
<1> QED
  BY <1>1, <1>2

LEMMA TokenTyped ==
  ASSUME TypeOK, NEW r \in Requests, NEW d \in Int, NEW w \in WritePoints,
         TokenChange(r, d) \/ TokenError(r, w)
  PROVE  token' \in Int /\ tokenPaid' \in [Requests -> Int] /\ ErrorsTyped
BY FaultTyped DEF TokenChange, TokenError, TypeOK

LEMMA TypeStep == TypeInv /\ [Next]_vars => TypeInv'
<1> SUFFICES ASSUME TypeInv, [Next]_vars PROVE TypeInv'
  OBVIOUS
<1> USE DEF stores, env, refundVars, history, MaxAttempts
<1>0. TypeOK /\ \A q \in Requests : PendingOK(q)
  BY DEF TypeInv
<1>s. ASSUME NEW q \in Requests
      PROVE  /\ session[q] \in SessionType
             /\ session[q].need \in Nat /\ session[q].pre \in Nat
             /\ session[q].consumed \in Int /\ session[q].tokenConsumed \in Nat
             /\ session[q].extra \in Nat
  BY <1>0, SessionFields DEF TypeOK
<1>p. ASSUME NEW q \in Requests PROVE profile[q].quota \in Nat
  BY <1>0, ProfileFields DEF TypeOK
<1>t. ASSUME NEW q \in Requests
      PROVE  trySubscription(q) \in SessionType /\ tryWallet(q) \in SessionType
  <2>1. ShouldTrust(q) \in BOOLEAN
    BY DEF ShouldTrust
  <2> QED
    BY <1>p, <2>1, SessionNew DEF trySubscription, tryWallet
<1>b. Actuals \subseteq Nat /\ ReserveTargets \subseteq Nat /\ Fees \subseteq Nat
  BY BillingAssumption
<1>1. ASSUME NEW r \in Requests, Begin(r) PROVE TypeInv'
  <2>1. session' \in [Requests -> SessionType]
    BY <1>1, <1>s, <1>0, <1>t DEF Begin, TypeOK, PendingOK, Reserving
  <2>2. TypeOK'
    BY <1>1, <1>0, <1>s, <2>1, SMTT(40) DEF Begin, Control, TypeOK, PendingOK, Reserving
  <2>3. \A q \in Requests : PendingOK(q)'
    BY <1>1, <1>0, <1>s DEF Begin, TypeOK, PendingOK, Reserving
  <2> QED
    BY <2>2, <2>3 DEF TypeInv
<1>2. ASSUME NEW r \in Requests, HasSubscription(r) PROVE TypeInv'
  <2>1. session' \in [Requests -> SessionType]
    BY <1>2, <1>s, <1>0, <1>t DEF HasSubscription, TypeOK, PendingOK, Reserving
  <2>2. TypeOK'
    BY <1>2, <1>0, <1>s, <2>1, SMTT(40) DEF HasSubscription, Control, TypeOK,
       PendingOK, Reserving
  <2>3. \A q \in Requests : PendingOK(q)'
    BY <1>2, <1>0, <1>s DEF HasSubscription, TypeOK, PendingOK, Reserving
  <2> QED
    BY <2>2, <2>3 DEF TypeInv
<1>3. ASSUME NEW r \in Requests, WalletCheck(r) PROVE TypeInv'
  <2>1. session' \in [Requests -> SessionType]
    BY <1>3, <1>s, <1>0, <1>t DEF WalletCheck, TypeOK, PendingOK, Reserving
  <2>2. TypeOK'
    BY <1>3, <1>0, <1>s, <2>1, SMTT(40) DEF WalletCheck, Control, TypeOK, PendingOK,
       Reserving
  <2>3. \A q \in Requests : PendingOK(q)'
    BY <1>3, <1>0, <1>s DEF WalletCheck, TypeOK, PendingOK, Reserving
  <2> QED
    BY <2>2, <2>3 DEF TypeInv
<1>4. ASSUME NEW r \in Requests, TokenRead(r) PROVE TypeInv'
  <2>1. session' \in [Requests -> SessionType]
    BY <1>4, <1>s, <1>0, SetTokenConsumed DEF TokenRead, TypeOK, PendingOK, Reserving
  <2>2. TypeOK'
    BY <1>4, <1>0, <1>s, <2>1, SMTT(40) DEF TokenRead, Control, TypeOK, PendingOK,
       Reserving
  <2>3. \A q \in Requests : PendingOK(q)'
    BY <1>4, <1>0, <1>s DEF TokenRead, TypeOK, PendingOK, Reserving
  <2> QED
    BY <2>2, <2>3 DEF TypeInv
<1>5. ASSUME NEW r \in Requests, TokenPre(r) PROVE TypeInv'
  <2>0. token' \in Int /\ tokenPaid' \in [Requests -> Int] /\ ErrorsTyped
    BY <1>5, <1>0, <1>s, TokenTyped DEF TokenPre, WritePoints
  <2>1. session' \in [Requests -> SessionType]
    <3>1. \/ session' = [session EXCEPT ![r].tokenConsumed = session[r].need]
          \/ session' = session
      BY <1>5 DEF TokenPre
    <3>2. [session[r] EXCEPT !.tokenConsumed = session[r].need] \in SessionType
      BY <1>s, SetTokenConsumed
    <3>3. session \in [Requests -> SessionType]
      BY <1>0 DEF TypeOK
    <3> QED
      BY <3>1, <3>2, <3>3
  <2>2. TypeOK'
    BY <1>5, <1>0, <1>s, <2>0, <2>1, SMTT(40) DEF TokenPre, ErrorsTyped, Control,
       TypeOK, PendingOK, Reserving
  <2>3. \A q \in Requests : PendingOK(q)'
    BY <1>5, <1>0, <1>s DEF TokenPre, TypeOK, PendingOK, Reserving
  <2> QED
    BY <2>2, <2>3 DEF TypeInv
<1>6. ASSUME NEW r \in Requests, FundingPre(r) PROVE TypeInv'
  <2>0. [sub EXCEPT !.used = @ + session[r].need] \in SubType
    BY <1>0, <1>s DEF TypeOK, SubType
  <2>1. session' \in [Requests -> SessionType]
    <3>1. session' = [session EXCEPT ![r] = [session[r] EXCEPT !.pre = session[r].need,
                                                               !.consumed = session[r].need]]
      BY <1>6 DEF FundingPre
    <3>2. [session[r] EXCEPT !.pre = session[r].need, !.consumed = session[r].need] \in SessionType
      BY <1>s, SetPreConsumed
    <3>3. session \in [Requests -> SessionType]
      BY <1>0 DEF TypeOK
    <3> QED
      BY <3>1, <3>2, <3>3
  <2>2. TypeOK'
    <3>1. wallet' \in Int /\ sub' \in SubType
      BY <1>6, <1>0, <1>s, <2>0 DEF FundingPre, TypeOK
    <3>2. record' \in [Requests -> {"none", "consumed", "refunded"}]
      BY <1>6, <1>0 DEF FundingPre, TypeOK
    <3>3. pc' \in [Requests -> Control] /\ paid' \in [Requests -> Int]
      BY <1>6, <1>0, <1>s DEF FundingPre, Goto, Paid, Control, TypeOK
    <3> QED
      BY <1>6, <1>0, <2>1, <3>1, <3>2, <3>3 DEF FundingPre, TypeOK
  <2>3. \A q \in Requests : PendingOK(q)'
    BY <1>6, <1>0, <1>s DEF FundingPre, Goto, TypeOK, PendingOK, Reserving
  <2> QED
    BY <2>2, <2>3 DEF TypeInv
<1>7. ASSUME NEW r \in Requests, FundingPreFails(r) PROVE TypeInv'
  <2>2. TypeOK'
    BY <1>7, <1>0, <1>s, FaultTyped, SMTT(40) DEF FundingPreFails, ErrorsTyped,
       Control, WritePoints, TypeOK, PendingOK, Reserving
  <2>3. \A q \in Requests : PendingOK(q)'
    BY <1>7, <1>0, <1>s DEF FundingPreFails, TypeOK, PendingOK, Reserving
  <2> QED
    BY <2>2, <2>3 DEF TypeInv
<1>8. ASSUME NEW r \in Requests, RollbackToken(r) PROVE TypeInv'
  <2>0. [session[r] EXCEPT !.tokenConsumed = 0] \in SessionType
    BY <1>s, SetTokenConsumed
  <2>1. session' \in [Requests -> SessionType]
    BY <1>8, <1>s, <2>0, <1>0, SetTokenConsumed DEF RollbackToken, TypeOK, PendingOK,
       Reserving
  <2>2. TypeOK'
    BY <1>8, <1>0, <1>s, <2>0, <2>1, TokenTyped, SMTT(40) DEF RollbackToken,
       ErrorsTyped, Control, WritePoints, TypeOK, PendingOK, Reserving
  <2>3. \A q \in Requests : PendingOK(q)'
    BY <1>8, <1>0, <1>s DEF RollbackToken, TypeOK, PendingOK, Reserving
  <2> QED
    BY <2>2, <2>3 DEF TypeInv
<1>9. ASSUME NEW r \in Requests, NEW t \in ReserveTargets, Reserve(r, t) PROVE TypeInv'
  <2>a. (IF Wallet(r) THEN session[r].consumed + (t - session[r].pre) ELSE session[r].consumed)
          \in Int
    BY <1>s, <1>b
  <2>0. [session[r] EXCEPT !.consumed = IF Wallet(r) THEN @ + (t - session[r].pre) ELSE @]
          \in SessionType
    BY <2>a, <1>s, SetConsumed, Zenon
  <2>1. session' \in [Requests -> SessionType]
    BY <1>9, <1>s, <2>0, <1>0, <1>b, SetConsumed DEF Reserve, TypeOK, PendingOK,
       Reserving
  <2>2. TypeOK'
    BY <1>9, <1>0, <1>s, <2>0, <2>1, FundingTyped, <1>b, SMTT(40) DEF Reserve, Paid,
       ErrorsTyped, Control, WritePoints, TypeOK, PendingOK, Reserving
  <2>3. \A q \in Requests : PendingOK(q)'
    BY <1>9, <1>0, <1>s, <1>b DEF Reserve, TypeOK, PendingOK, Reserving
  <2> QED
    BY <2>2, <2>3 DEF TypeInv
<1>10. ASSUME NEW r \in Requests, ReserveTokenRead(r) PROVE TypeInv'
  <2>1. session' \in [Requests -> SessionType]
    BY <1>10, <1>s, <1>0, SetReserved DEF ReserveTokenRead, TypeOK, PendingOK, Reserving
  <2>2. TypeOK'
    BY <1>10, <1>0, <1>s, <2>1, SMTT(40) DEF ReserveTokenRead, Control, TypeOK,
       PendingOK, Reserving
  <2>3. \A q \in Requests : PendingOK(q)'
    BY <1>10, <1>0, <1>s DEF ReserveTokenRead, TypeOK, PendingOK, Reserving
  <2> QED
    BY <2>2, <2>3 DEF TypeInv
<1>11. ASSUME NEW r \in Requests, ReserveToken(r) PROVE TypeInv'
  <2>0. Reserved(session[r], delta[r]) \in SessionType
    BY <1>11, <1>0, <1>s, SetReserved DEF ReserveToken, TypeOK, PendingOK, Reserving
  <2>1. session' \in [Requests -> SessionType]
    <3>1. session \in [Requests -> SessionType]
      BY <1>0 DEF TypeOK
    <3>2. session' = session \/ session' = [session EXCEPT ![r] = Reserved(session[r], delta[r])]
      BY <1>11 DEF ReserveToken
    <3> QED
      BY <2>0, <3>1, <3>2
  <2>2. TypeOK'
    BY <1>11, <1>0, <1>s, <2>0, <2>1, TokenTyped, SMTT(40) DEF ReserveToken,
       ErrorsTyped, Control, WritePoints, TypeOK, PendingOK, Reserving
  <2>3. \A q \in Requests : PendingOK(q)'
    BY <1>11, <1>0, <1>s DEF ReserveToken, TypeOK, PendingOK, Reserving
  <2> QED
    BY <2>2, <2>3 DEF TypeInv
<1>12. ASSUME NEW r \in Requests, ReserveRollback(r) PROVE TypeInv'
  <2>a. (IF Wallet(r) THEN session[r].consumed - delta[r] ELSE session[r].consumed) \in Int
    BY <1>0, <1>s DEF TypeOK
  <2>0. [session[r] EXCEPT !.consumed = IF Wallet(r) THEN @ - delta[r] ELSE @] \in SessionType
    BY <2>a, <1>s, SetConsumed, Zenon
  <2>1. session' \in [Requests -> SessionType]
    BY <1>12, <1>s, <2>0, <1>0, SetConsumed DEF ReserveRollback, TypeOK, PendingOK,
       Reserving
  <2>2. TypeOK'
    BY <1>12, <1>0, <1>s, <2>0, <2>1, FundingTyped, SMTT(40) DEF ReserveRollback, Paid,
       Goto, ErrorsTyped, Control, WritePoints, TypeOK, PendingOK, Reserving
  <2>3. \A q \in Requests : PendingOK(q)'
    BY <1>12, <1>0, <1>s DEF ReserveRollback, Goto, TypeOK, PendingOK, Reserving
  <2> QED
    BY <2>2, <2>3 DEF TypeInv
<1>13. ASSUME NEW r \in Requests, NEW a \in Actuals, Settle(r, a) PROVE TypeInv'
  <2>1. session' \in [Requests -> SessionType]
    BY <1>13, <1>s, <1>0, SetSettled, SetFundingSettled DEF Settle, TypeOK, PendingOK,
       Reserving
  <2>2. TypeOK'
    BY <1>13, <1>0, <1>s, <2>1, FundingTyped, <1>b, SMTT(40) DEF Settle, SettleDelta,
       Paid, ErrorsTyped, Control, WritePoints, TypeOK, PendingOK, Reserving
  <2>3. \A q \in Requests : PendingOK(q)'
    BY <1>13, <1>0, <1>s, <1>b DEF Settle, TypeOK, PendingOK, Reserving
  <2> QED
    BY <2>2, <2>3 DEF TypeInv
<1>14. ASSUME NEW r \in Requests, SettleToken(r) PROVE TypeInv'
  <2>1. session' \in [Requests -> SessionType]
    BY <1>14, <1>s, <1>0, SetSettled DEF SettleToken, TypeOK, PendingOK, Reserving
  <2>2. TypeOK'
    BY <1>14, <1>0, <1>s, <2>1, TokenTyped, SMTT(40) DEF SettleToken, Goto,
       ErrorsTyped, Control, WritePoints, TypeOK, PendingOK, Reserving
  <2>3. \A q \in Requests : PendingOK(q)'
    BY <1>14, <1>0, <1>s DEF SettleToken, Goto, TypeOK, PendingOK, Reserving
  <2> QED
    BY <2>2, <2>3 DEF TypeInv
<1>15. ASSUME NEW r \in Requests, Refund(r) PROVE TypeInv'
  <2>1. session' \in [Requests -> SessionType]
    BY <1>15, <1>s, <1>0, SetRefunded DEF Refund, TypeOK, PendingOK, Reserving
  <2>2. TypeOK'
    BY <1>15, <1>0, <1>s, <2>1, SMTT(40) DEF Refund, Goto, Control, JobControl, TypeOK,
       PendingOK, Reserving
  <2>3. \A q \in Requests : PendingOK(q)'
    BY <1>15, <1>0, <1>s DEF Refund, Goto, TypeOK, PendingOK, Reserving
  <2> QED
    BY <2>2, <2>3 DEF TypeInv
<1>16. ASSUME NEW r \in Requests, RefundFunding(r) PROVE TypeInv'
  <2>2. TypeOK'
    <3>1. -session[r].consumed \in Int /\ "fundingRefund" \in WritePoints
      BY <1>s DEF WritePoints
    <3>2. wallet' \in Int /\ sub' \in SubType /\ ErrorsTyped
      BY <1>16, <1>0, <3>1, FundingTyped DEF RefundFunding, TypeOK, ErrorsTyped
    <3>3. /\ job' \in [Requests -> JobControl]
          /\ attempts' \in [Requests -> 0 .. MaxAttempts]
      BY <1>16, <1>0 DEF RefundFunding, Retry, GiveUp, JobControl, TypeOK, PendingOK
    <3>4. paid' \in [Requests -> Int]
      BY <1>16, <1>0, <1>s DEF RefundFunding, Paid, TypeOK
    <3> QED
      BY <1>16, <1>0, <3>2, <3>3, <3>4 DEF RefundFunding, ErrorsTyped, TypeOK
  <2>3. \A q \in Requests : PendingOK(q)'
    BY <1>16, <1>0, <1>s DEF RefundFunding, Retry, GiveUp, TypeOK, PendingOK, Reserving
  <2> QED
    BY <2>2, <2>3 DEF TypeInv
<1>17. ASSUME NEW r \in Requests, RefundRecord(r) PROVE TypeInv'
  <2>2. TypeOK'
    BY <1>17, <1>0, <1>s, FaultTyped, SMTT(40) DEF RefundRecord, Retry, ErrorsTyped,
       JobControl, WritePoints, TypeOK, PendingOK, Reserving
  <2>3. \A q \in Requests : PendingOK(q)'
    BY <1>17, <1>0, <1>s DEF RefundRecord, Retry, TypeOK, PendingOK, Reserving
  <2> QED
    BY <2>2, <2>3 DEF TypeInv
<1>18. ASSUME NEW r \in Requests, RefundExtra(r) PROVE TypeInv'
  <2>2. TypeOK'
    BY <1>18, <1>0, <1>s, FundingTyped, SMTT(40) DEF RefundExtra, ExtraOwed, Paid,
       ErrorsTyped, JobControl, WritePoints, TypeOK, PendingOK, Reserving
  <2>3. \A q \in Requests : PendingOK(q)'
    BY <1>18, <1>0, <1>s DEF RefundExtra, TypeOK, PendingOK, Reserving
  <2> QED
    BY <2>2, <2>3 DEF TypeInv
<1>19. ASSUME NEW r \in Requests, RefundToken(r) PROVE TypeInv'
  <2>2. TypeOK'
    BY <1>19, <1>0, <1>s, TokenTyped, SMTT(40) DEF RefundToken, ErrorsTyped,
       JobControl, WritePoints, TypeOK, PendingOK, Reserving
  <2>3. \A q \in Requests : PendingOK(q)'
    BY <1>19, <1>0, <1>s DEF RefundToken, TypeOK, PendingOK, Reserving
  <2> QED
    BY <2>2, <2>3 DEF TypeInv
<1>20. ASSUME NEW r \in Requests, NoFee(r) PROVE TypeInv'
  <2>2. TypeOK'
    BY <1>20, <1>0, <1>s, SMTT(40) DEF NoFee, Goto, Control, TypeOK, PendingOK,
       Reserving
  <2>3. \A q \in Requests : PendingOK(q)'
    BY <1>20, <1>0, <1>s DEF NoFee, Goto, TypeOK, PendingOK, Reserving
  <2> QED
    BY <2>2, <2>3 DEF TypeInv
<1>21. ASSUME NEW r \in Requests, NEW f \in Fees, Fee(r, f) PROVE TypeInv'
  <2>2. TypeOK'
    BY <1>21, <1>0, <1>s, FundingTyped, <1>b, SMTT(80) DEF Fee, ErrorsTyped, Control,
       WritePoints, TypeOK, PendingOK, Reserving
  <2>3. \A q \in Requests : PendingOK(q)'
    BY <1>21, <1>0, <1>s, <1>b DEF Fee, TypeOK, PendingOK, Reserving
  <2> QED
    BY <2>2, <2>3 DEF TypeInv
<1>22. ASSUME NEW r \in Requests, FeeToken(r) PROVE TypeInv'
  <2>2. TypeOK'
    BY <1>22, <1>0, <1>s, FaultTyped, SMTT(40) DEF FeeToken, Goto, ErrorsTyped,
       Control, WritePoints, TypeOK, PendingOK, Reserving
  <2>3. \A q \in Requests : PendingOK(q)'
    BY <1>22, <1>0, <1>s DEF FeeToken, Goto, TypeOK, PendingOK, Reserving
  <2> QED
    BY <2>2, <2>3 DEF TypeInv
<1>23. ASSUME SubscriptionEnds PROVE TypeInv'
  <2>2. TypeOK'
    BY <1>23, <1>0, <1>s, SMTT(40) DEF SubscriptionEnds, SubType, TypeOK, PendingOK,
       Reserving
  <2>3. \A q \in Requests : PendingOK(q)'
    BY <1>23, <1>0, <1>s DEF SubscriptionEnds, TypeOK, PendingOK, Reserving
  <2> QED
    BY <2>2, <2>3 DEF TypeInv
<1>24. ASSUME Crash PROVE TypeInv'
  <2>2. TypeOK'
    BY <1>24, <1>0, <1>s, BillingAssumption, SMTT(40) DEF Crash, Terminal, Control,
       JobControl, TypeOK, PendingOK, Reserving
  <2>3. \A q \in Requests : PendingOK(q)'
    BY <1>24, <1>0, <1>s DEF Crash, Terminal, TypeOK, PendingOK, Reserving
  <2> QED
    BY <2>2, <2>3 DEF TypeInv
<1>25. CASE UNCHANGED vars
  BY <1>25, <1>0 DEF vars, TypeInv, TypeOK, PendingOK, Reserving
<1> QED
  BY <1>1, <1>2, <1>3, <1>4, <1>5, <1>6, <1>7, <1>8, <1>9, <1>10, <1>11, <1>12, <1>13,
     <1>14, <1>15, <1>16, <1>17, <1>18, <1>19, <1>20, <1>21, <1>22, <1>23, <1>24, <1>25
     DEF Next, Request, RefundJob, Done

\* Every variable keeps its type: in particular a subscription never shows a
\* negative usage and a refund is attempted at most MaxAttempts times.
THEOREM TypeCorrect == Spec => []TypeOK
<1>1. Spec => []TypeInv
  BY TypeInit, TypeStep, PTL DEF Spec
<1>2. TypeInv => TypeOK
  BY DEF TypeInv
<1> QED
  BY <1>1, <1>2, PTL

=============================================================================
