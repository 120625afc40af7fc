------------------------------- MODULE Billing -------------------------------
(***************************************************************************)
(* The life of the BillingSession of a relayed request: pre-consumption of *)
(* the token and of a funding source (wallet or subscription) with its     *)
(* fallbacks, an optional extra reservation, then either the settlement of *)
(* a successful request or the asynchronous refund of a failed one, and    *)
(* the violation fee.  Several requests of one user run concurrently on    *)
(* one token, one wallet and one subscription.                             *)
(*                                                                         *)
(* A step is one database statement or one transaction, taken to be        *)
(* isolated: between two of them any other request may run.  Every write   *)
(* may also return an error.  The quota is kept in the database only (no   *)
(* Redis, no batch updates).                                               *)
(***************************************************************************)
EXTENDS Integers, FiniteSets, Functions

CONSTANTS
  Requests,        \* the requests of the user
  Profiles,        \* what a request may be like: see ProfileType
  Actuals,         \* the quotas a successful request may turn out to cost
  ReserveTargets,  \* the targets Reserve may be called with
  Fees,            \* the violation fees a failed request may be charged
  InitWallet,      \* quota in the user's wallet at the start
  InitToken,       \* remain_quota of the token at the start
  TokenUnlimited,  \* the token's unlimited_quota
  TrustQuota,      \* common.GetTrustQuota()
  SubTotal,        \* AmountTotal of the subscription, 0 when unlimited
  FaultPoints,     \* the writes that may return a database error
  MaxFaults,       \* bound: database errors in a behaviour
  MaxCrashes       \* bound: crashes of the process in a behaviour

Preferences ==
  {"subscription_only", "wallet_only", "wallet_first", "subscription_first"}

\* quota: the pre-consumption asked for; force: ForcePreConsume (async tasks);
\* playground: IsPlayground, a request without a token.
ProfileType ==
  [pref : Preferences, quota : Nat, playground : BOOLEAN, force : BOOLEAN]

\* Every write of the session that can return an error.
WritePoints ==
  {"tokenPre", "fundingPre", "tokenRollback", "reserveFunding", "reserveToken",
   "reserveRollback", "fundingSettle", "tokenSettle", "fundingRefund",
   "recordSave", "extraRefund", "tokenRefund", "feeFunding", "feeToken"}

ASSUME BillingAssumption ==
  /\ Profiles \subseteq ProfileType
  /\ Actuals \subseteq Nat
  /\ ReserveTargets \subseteq Nat
  /\ Fees \subseteq Nat \ {0}
  /\ InitWallet \in Nat
  /\ InitToken \in Nat
  /\ TokenUnlimited \in BOOLEAN
  /\ TrustQuota \in Nat
  /\ SubTotal \in Nat
  /\ FaultPoints \subseteq WritePoints
  /\ MaxFaults \in Nat
  /\ MaxCrashes \in Nat

ASSUME FiniteRequests == IsFiniteSet(Requests)

\* refundWithRetry: const maxAttempts.
MaxAttempts == 3

VARIABLES
  wallet,    \* users.quota
  token,     \* tokens.remain_quota
  sub,       \* the user_subscriptions row: its state and amount_used
  profile,   \* the request's RelayInfo fields, fixed for its life
  pc,        \* where the request's goroutine is
  session,   \* the BillingSession with its FundingSource
  delta,     \* the adjustment in progress: Settle's, Reserve's or the fee
  seen,      \* c.GetInt("token_quota"), read by the token authentication
  job,       \* where the asynchronous refund is
  attempts,  \* failed attempts of refundWithRetry
  record,    \* status of the SubscriptionPreConsumeRecord of the request
  actual,    \* history: what a successful request cost, or -1
  fees,      \* history: violation fees taken from the funding source and the token
  paid,      \* history: net quota the request took from its funding source
  tokenPaid, \* history: net quota the request took from the token
  failed,    \* history: the writes of the request that returned an error
  faults,    \* database errors so far
  crashes    \* crashes so far

stores == <<wallet, token, sub>>
env == <<profile, seen>>
refundVars == <<job, attempts, record>>
history == <<actual, fees, paid, tokenPaid, failed, faults, crashes>>
vars == <<stores, env, pc, session, delta, refundVars, history>>

Control ==
  {"idle", "hasSub", "walletCheck", "tokenRead", "tokenPre", "fundingPre",
   "rollbackFallback", "rollbackReject", "open", "reserveTokenRead",
   "reserveToken", "reserveRollback", "settleToken", "fee", "feeToken",
   "done", "rejected", "crashed"}

Terminal == {"done", "rejected", "crashed"}

JobControl == {"none", "funding", "record", "extra", "token", "finished", "lost"}

\* A fresh session.  need is the amount to pre-consume (0 when trusted).
NewSession(source, need, trusted) ==
  [funding |-> source, need |-> need, trusted |-> trusted, pre |-> 0,
   consumed |-> 0, tokenConsumed |-> 0, extra |-> 0, fundingSettled |-> FALSE,
   settled |-> FALSE, refunded |-> FALSE]

SessionType ==
  [funding : {"none", "wallet", "subscription"}, need : Nat, trusted : BOOLEAN,
   pre : Nat, consumed : Int, tokenConsumed : Nat, extra : Nat,
   fundingSettled : BOOLEAN, settled : BOOLEAN, refunded : BOOLEAN]

SubType == [state : {"active", "expired", "deleted"}, used : Nat]

Init ==
  /\ wallet = InitWallet
  /\ token = InitToken
  /\ sub = [state |-> "active", used |-> 0]
  /\ profile \in [Requests -> Profiles]
  /\ pc = [r \in Requests |-> "idle"]
  /\ session = [r \in Requests |-> NewSession("none", 0, FALSE)]
  /\ delta = [r \in Requests |-> 0]
  /\ seen = [r \in Requests |-> 0]
  /\ job = [r \in Requests |-> "none"]
  /\ attempts = [r \in Requests |-> 0]
  /\ record = [r \in Requests |-> "none"]
  /\ actual = [r \in Requests |-> -1]
  /\ fees = [wallet |-> 0, subscription |-> 0, token |-> 0]
  /\ paid = [r \in Requests |-> 0]
  /\ tokenPaid = [r \in Requests |-> 0]
  /\ failed = [r \in Requests |-> {}]
  /\ faults = 0
  /\ crashes = 0

Goto(r, from, to) ==
  /\ pc[r] = from
  /\ pc' = [pc EXCEPT ![r] = to]

Wallet(r) == session[r].funding = "wallet"

-----------------------------------------------------------------------------
(* Writes: each either commits or returns an error, which is recorded.      *)

\* A database error at write point w.
Fault(r, w) ==
  /\ w \in FaultPoints
  /\ faults < MaxFaults
  /\ faults' = faults + 1
  /\ failed' = [failed EXCEPT ![r] = @ \cup {w}]

NoError == UNCHANGED <<failed, faults>>

\* amount_used after a change by d, never below zero.
NewUsed(d) == IF sub.used + d < 0 THEN 0 ELSE sub.used + d

\* PostConsumeUserSubscriptionDelta returns an error of its own: the row is
\* gone, or the new amount exceeds the total.
DeltaRefused(d) ==
  /\ d # 0
  /\ \/ sub.state = "deleted"
     \/ SubTotal > 0 /\ NewUsed(d) > SubTotal

\* The funding source of r changes by d (positive: charged).
FundingChange(r, d) ==
  /\ IF Wallet(r)
       THEN wallet' = wallet - d /\ UNCHANGED sub
       ELSE ~DeltaRefused(d) /\ sub' = [sub EXCEPT !.used = NewUsed(d)] /\ UNCHANGED wallet
  /\ NoError

\* The change by d of the funding source of r returns an error.
FundingError(r, d, w) ==
  /\ UNCHANGED <<wallet, sub>>
  /\ \/ Fault(r, w)
     \/ /\ ~Wallet(r) /\ DeltaRefused(d)
        /\ failed' = [failed EXCEPT ![r] = @ \cup {w}]
        /\ UNCHANGED faults

\* The token of r changes by d (positive: charged).
TokenChange(r, d) ==
  /\ token' = token - d
  /\ tokenPaid' = [tokenPaid EXCEPT ![r] = @ + d]
  /\ NoError

TokenError(r, w) ==
  /\ Fault(r, w)
  /\ UNCHANGED <<token, tokenPaid>>

\* Reading the token finds at least n, or the token has no limit.
TokenCovers(n) == TokenUnlimited \/ token >= n

\* PreConsumeUserSubscription finds no active subscription with n left.
PreConsumeRefused(n) ==
  \/ sub.state # "active"
  \/ SubTotal > 0 /\ SubTotal - sub.used < n

\* shouldTrust, for the wallet: with enough of everything nothing is
\* pre-consumed.  The token's quota is the one seen at authentication.
ShouldTrust(r) ==
  /\ ~profile[r].force
  /\ TrustQuota > 0
  /\ TokenUnlimited \/ seen[r] > TrustQuota
  /\ wallet > TrustQuota

\* The sessions the two attempts of NewBillingSession start with.
tryWallet(r) ==
  NewSession("wallet", IF ShouldTrust(r) THEN 0 ELSE profile[r].quota, ShouldTrust(r))

trySubscription(r) ==
  NewSession("subscription", IF profile[r].quota = 0 THEN 1 ELSE profile[r].quota, FALSE)

\* Mutants of refundWithRetry: one attempt too many, and retries without end.
RetryOnceMore(r) ==
  /\ attempts' = [attempts EXCEPT ![r] = @ + 1]
  /\ job' = [job EXCEPT ![r] = IF attempts[r] < MaxAttempts THEN "funding" ELSE "extra"]

RetryForever(r) == UNCHANGED <<attempts, job>>

\* refundWithRetry after a failed attempt, and a refund that is not retried.
Retry(r) ==
  /\ attempts' = [attempts EXCEPT ![r] = @ + 1]
  /\ job' = [job EXCEPT ![r] = IF attempts[r] + 1 < MaxAttempts THEN "funding" ELSE "extra"]

GiveUp(r) ==
  /\ job' = [job EXCEPT ![r] = "extra"]
  /\ UNCHANGED attempts

Paid(r, d) == paid' = [paid EXCEPT ![r] = @ + d]

-----------------------------------------------------------------------------
(* NewBillingSession: choice of the funding source and pre-consumption.     *)

\* The request is authenticated and its billing preference looked at.
Begin(r) ==
  LET pref == profile[r].pref IN
  /\ pc[r] = "idle"
  /\ pc' = [pc EXCEPT ![r] = CASE pref = "subscription_only"  -> "tokenRead"
                               [] pref = "subscription_first" -> "hasSub"
                               [] OTHER                       -> "walletCheck"]
  /\ seen' = [seen EXCEPT ![r] = token]
  /\ session' = [session EXCEPT ![r] = IF pref = "subscription_only"
                                         THEN trySubscription(r) ELSE @]
  /\ UNCHANGED <<stores, profile, delta, refundVars, history>>

\* HasActiveUserSubscription: without one, subscription_first uses the wallet.
HasSubscription(r) ==
  /\ pc[r] = "hasSub"
  /\ IF sub.state = "active"
       THEN /\ pc' = [pc EXCEPT ![r] = "tokenRead"]
            /\ session' = [session EXCEPT ![r] = trySubscription(r)]
       ELSE /\ pc' = [pc EXCEPT ![r] = "walletCheck"]
            /\ UNCHANGED session
  /\ UNCHANGED <<stores, env, delta, refundVars, history>>

\* tryWallet: the wallet must cover the pre-consumption when it is read; a
\* wallet_first request falls back to the subscription.
WalletCheck(r) ==
  LET enough == wallet > 0 /\ wallet - profile[r].quota >= 0
      fallback == profile[r].pref = "wallet_first" IN
  /\ pc[r] = "walletCheck"
  /\ pc' = [pc EXCEPT ![r] = IF enough \/ fallback THEN "tokenRead" ELSE "rejected"]
  /\ session' = [session EXCEPT ![r] = IF enough THEN tryWallet(r)
                                       ELSE IF fallback THEN trySubscription(r)
                                       ELSE @]
  /\ UNCHANGED <<stores, env, delta, refundVars, history>>

\* PreConsumeTokenQuota up to the check: the token is read, not yet charged.
TokenRead(r) ==
  LET need == session[r].need
      skip == need = 0 \/ profile[r].playground IN
  /\ pc[r] = "tokenRead"
  /\ pc' = [pc EXCEPT ![r] = IF skip THEN "fundingPre"
                             ELSE IF TokenCovers(need) THEN "tokenPre"
                             ELSE "rejected"]
  /\ session' = [session EXCEPT ![r].tokenConsumed = IF skip THEN need ELSE @]
  /\ UNCHANGED <<stores, env, delta, refundVars, history>>

\* DecreaseTokenQuota of the pre-consumption.
TokenPre(r) ==
  /\ pc[r] = "tokenPre"
  /\ \/ /\ TokenChange(r, session[r].need)
        /\ session' = [session EXCEPT ![r].tokenConsumed = session[r].need]
        /\ pc' = [pc EXCEPT ![r] = "fundingPre"]
     \/ /\ TokenError(r, "tokenPre")
        /\ pc' = [pc EXCEPT ![r] = "rejected"]
        /\ UNCHANGED session
  /\ UNCHANGED <<wallet, sub, env, delta, refundVars, actual, fees, paid, crashes>>

\* funding.PreConsume succeeds: the session is open.
FundingPre(r) ==
  LET need == session[r].need IN
  /\ Goto(r, "fundingPre", "open")
  /\ IF Wallet(r)
       THEN /\ wallet' = wallet - need
            /\ UNCHANGED <<sub, record>>
       ELSE /\ ~PreConsumeRefused(need)
            /\ sub' = [sub EXCEPT !.used = @ + need]
            /\ record' = [record EXCEPT ![r] = "consumed"]
            /\ UNCHANGED wallet
  /\ session' = [session EXCEPT ![r].pre = need, ![r].consumed = need]
  /\ Paid(r, need)
  /\ UNCHANGED <<token, env, delta, job, attempts, actual, fees, tokenPaid,
                 failed, faults, crashes>>

\* funding.PreConsume fails.  Only a subscription that is missing or short
\* lets a subscription_first request go on with the wallet.
FundingPreFails(r) ==
  LET need == session[r].need IN
  /\ pc[r] = "fundingPre"
  /\ \/ /\ ~Wallet(r) /\ PreConsumeRefused(need)
        /\ pc' = [pc EXCEPT ![r] = IF profile[r].pref = "subscription_first"
                                     THEN "rollbackFallback" ELSE "rollbackReject"]
        /\ NoError
     \/ /\ need > 0
        /\ Fault(r, "fundingPre")
        /\ pc' = [pc EXCEPT ![r] = "rollbackReject"]
  /\ UNCHANGED <<stores, env, session, delta, refundVars, actual, fees, paid,
                 tokenPaid, crashes>>

\* The token's pre-consumption is given back; an error is only logged.
RollbackToken(r) ==
  LET amount == session[r].tokenConsumed IN
  /\ pc[r] \in {"rollbackFallback", "rollbackReject"}
  /\ pc' = [pc EXCEPT ![r] = IF @ = "rollbackFallback" THEN "walletCheck" ELSE "rejected"]
  /\ \/ /\ amount > 0 /\ ~profile[r].playground
        /\ TokenChange(r, -amount) \/ TokenError(r, "tokenRollback")
        /\ session' = [session EXCEPT ![r].tokenConsumed = 0]
     \/ /\ amount = 0 \/ profile[r].playground
        /\ UNCHANGED <<token, tokenPaid, session, failed, faults>>
  /\ UNCHANGED <<wallet, sub, env, delta, refundVars, actual, fees, paid, crashes>>

-----------------------------------------------------------------------------
(* Reserve: raise the pre-consumption of an open session to a target.       *)

\* reserveFunding; a session that is trusted or already at the target is left
\* alone, and an error leaves the session as it was.
Reserve(r, target) ==
  LET d == target - session[r].pre IN
  /\ pc[r] = "open"
  /\ ~session[r].trusted
  /\ d > 0
  /\ \/ /\ FundingChange(r, d)
        /\ session' = [session EXCEPT ![r].consumed = IF Wallet(r) THEN @ + d ELSE @]
        /\ delta' = [delta EXCEPT ![r] = d]
        /\ pc' = [pc EXCEPT ![r] = "reserveTokenRead"]
        /\ Paid(r, d)
     \/ /\ FundingError(r, d, "reserveFunding")
        /\ UNCHANGED <<session, delta, pc, paid>>
  /\ UNCHANGED <<token, env, refundVars, actual, fees, tokenPaid, crashes>>

\* The funding source is charged with a reservation the session has not
\* booked yet.
Reserving(r) == pc[r] \in {"reserveTokenRead", "reserveToken", "reserveRollback"}

\* Mutant: the token's part of the reservation is not booked.
ReservedFundingOnly(s, d) == [s EXCEPT !.pre = @ + d, !.extra = @ + d]

Reserved(s, d) ==
  [s EXCEPT !.pre = @ + d, !.tokenConsumed = @ + d, !.extra = @ + d]

\* reserveToken up to the check.
ReserveTokenRead(r) ==
  /\ pc[r] = "reserveTokenRead"
  /\ pc' = [pc EXCEPT ![r] = IF profile[r].playground THEN "open"
                             ELSE IF TokenCovers(delta[r]) THEN "reserveToken"
                             ELSE "reserveRollback"]
  /\ session' = [session EXCEPT ![r] = IF profile[r].playground
                                         THEN Reserved(@, delta[r]) ELSE @]
  /\ UNCHANGED <<stores, env, delta, refundVars, history>>

ReserveToken(r) ==
  /\ pc[r] = "reserveToken"
  /\ \/ /\ TokenChange(r, delta[r])
        /\ session' = [session EXCEPT ![r] = Reserved(@, delta[r])]
        /\ pc' = [pc EXCEPT ![r] = "open"]
     \/ /\ TokenError(r, "reserveToken")
        /\ pc' = [pc EXCEPT ![r] = "reserveRollback"]
        /\ UNCHANGED session
  /\ UNCHANGED <<wallet, sub, env, delta, refundVars, actual, fees, paid, crashes>>

\* rollbackFundingReserve; an error is only logged.
ReserveRollback(r) ==
  /\ Goto(r, "reserveRollback", "open")
  /\ \/ /\ FundingChange(r, -delta[r])
        /\ session' = [session EXCEPT ![r].consumed = IF Wallet(r) THEN @ - delta[r] ELSE @]
        /\ Paid(r, -delta[r])
     \/ /\ FundingError(r, -delta[r], "reserveRollback")
        /\ UNCHANGED <<session, paid>>
  /\ UNCHANGED <<token, env, delta, refundVars, actual, fees, tokenPaid, crashes>>

-----------------------------------------------------------------------------
(* Settle: the request succeeded and cost a.                                *)

\* Mutant: the quota asked for, not what the session really pre-consumed.
SettleDeltaOfRequest(r, a) == a - profile[r].quota

\* What a cost of a adds to the pre-consumption.
SettleDelta(r, a) == a - session[r].pre

\* The funding source is adjusted by the difference.  An error ends the
\* session unsettled: SettleBilling's callers only log it.
Settle(r, a) ==
  LET d == SettleDelta(r, a) IN
  /\ pc[r] = "open"
  /\ actual' = [actual EXCEPT ![r] = a]
  /\ \/ /\ d = 0
        /\ session' = [session EXCEPT ![r].settled = TRUE]
        /\ pc' = [pc EXCEPT ![r] = "done"]
        /\ UNCHANGED <<wallet, sub, delta, paid, failed, faults>>
     \/ /\ d # 0
        /\ FundingChange(r, d)
        /\ session' = [session EXCEPT ![r].fundingSettled = TRUE]
        /\ delta' = [delta EXCEPT ![r] = d]
        /\ pc' = [pc EXCEPT ![r] = "settleToken"]
        /\ Paid(r, d)
     \/ /\ d # 0
        /\ FundingError(r, d, "fundingSettle")
        /\ pc' = [pc EXCEPT ![r] = "done"]
        /\ UNCHANGED <<session, delta, paid>>
  /\ UNCHANGED <<token, env, refundVars, fees, tokenPaid, crashes>>

\* The token is adjusted by the same difference; the session counts as
\* settled even when that fails.
SettleToken(r) ==
  /\ Goto(r, "settleToken", "done")
  /\ \/ ~profile[r].playground /\ TokenChange(r, delta[r])
     \/ ~profile[r].playground /\ TokenError(r, "tokenSettle")
     \/ profile[r].playground /\ UNCHANGED <<token, tokenPaid, failed, faults>>
  /\ session' = [session EXCEPT ![r].settled = TRUE]
  /\ UNCHANGED <<wallet, sub, env, delta, refundVars, actual, fees, paid, crashes>>

-----------------------------------------------------------------------------
(* Refund: the request failed.                                              *)

\* Mutant: only a subscription's pre-consumption is looked at.
NeedsRefundSubscription(s) ==
  /\ ~s.settled /\ ~s.refunded /\ ~s.fundingSettled
  /\ s.funding = "subscription" /\ s.consumed > 0

\* needsRefundLocked.
NeedsRefund(s) ==
  /\ ~s.settled /\ ~s.refunded /\ ~s.fundingSettled
  /\ s.tokenConsumed > 0 \/ (s.funding = "subscription" /\ s.consumed > 0)

\* Refund marks the session and leaves the work to a goroutine; the request
\* goes on to the violation fee without waiting for it.
Refund(r) ==
  /\ Goto(r, "open", "fee")
  /\ IF NeedsRefund(session[r])
       THEN /\ session' = [session EXCEPT ![r].refunded = TRUE]
            /\ job' = [job EXCEPT ![r] = "funding"]
       ELSE UNCHANGED <<session, job>>
  /\ UNCHANGED <<stores, env, delta, attempts, record, history>>

\* The goroutine gives the funding source back.  The wallet gets one attempt;
\* the subscription is retried, and commits its amount in a transaction of
\* its own before the request's record is saved.
RefundFunding(r) ==
  LET s == session[r] IN
  /\ job[r] = "funding"
  /\ \/ /\ s.consumed <= 0
        /\ job' = [job EXCEPT ![r] = "extra"]
        /\ UNCHANGED <<wallet, sub, attempts, paid, failed, faults>>
     \/ /\ s.consumed > 0
        /\ FundingChange(r, -s.consumed)
        /\ Paid(r, -s.consumed)
        /\ job' = [job EXCEPT ![r] = IF Wallet(r) THEN "extra" ELSE "record"]
        /\ UNCHANGED attempts
     \/ /\ s.consumed > 0
        /\ FundingError(r, -s.consumed, "fundingRefund")
        /\ IF Wallet(r) THEN GiveUp(r) ELSE Retry(r)
        /\ UNCHANGED paid
  /\ UNCHANGED <<token, env, pc, session, delta, record, actual, fees, tokenPaid, crashes>>

\* RefundSubscriptionPreConsume saves the record as refunded and commits.
RefundRecord(r) ==
  /\ job[r] = "record"
  /\ \/ /\ record' = [record EXCEPT ![r] = "refunded"]
        /\ job' = [job EXCEPT ![r] = "extra"]
        /\ NoError
        /\ UNCHANGED attempts
     \/ /\ Fault(r, "recordSave")
        /\ Retry(r)
        /\ UNCHANGED record
  /\ UNCHANGED <<stores, env, pc, session, delta, actual, fees, paid, tokenPaid, crashes>>

\* Mutant: the wallet's extra reservation too, which consumed already holds.
AnyExtraOwed(r) == session[r].extra

\* The extra reservation that funding.Refund does not cover.
ExtraOwed(r) == IF Wallet(r) THEN 0 ELSE session[r].extra

\* The extra reservation of a subscription is given back separately.
RefundExtra(r) ==
  /\ job[r] = "extra"
  /\ job' = [job EXCEPT ![r] = "token"]
  /\ \/ /\ ExtraOwed(r) = 0
        /\ UNCHANGED <<wallet, sub, paid, failed, faults>>
     \/ /\ ExtraOwed(r) > 0
        /\ FundingChange(r, -ExtraOwed(r))
        /\ Paid(r, -ExtraOwed(r))
     \/ /\ ExtraOwed(r) > 0
        /\ FundingError(r, -ExtraOwed(r), "extraRefund")
        /\ UNCHANGED paid
  /\ UNCHANGED <<token, env, pc, session, delta, attempts, record, actual, fees,
                 tokenPaid, crashes>>

\* The token is given back; an error is only logged.
RefundToken(r) ==
  LET amount == session[r].tokenConsumed
      skip == amount = 0 \/ profile[r].playground IN
  /\ job[r] = "token"
  /\ job' = [job EXCEPT ![r] = "finished"]
  /\ \/ skip /\ UNCHANGED <<token, tokenPaid, failed, faults>>
     \/ ~skip /\ (TokenChange(r, -amount) \/ TokenError(r, "tokenRefund"))
  /\ UNCHANGED <<wallet, sub, env, pc, session, delta, attempts, record, actual,
                 fees, paid, crashes>>

-----------------------------------------------------------------------------
(* ChargeViolationFeeIfNeeded, through PostConsumeQuota.                    *)

\* The error is no violation, or the fee is zero.
NoFee(r) ==
  /\ Goto(r, "fee", "done")
  /\ UNCHANGED <<stores, env, session, delta, refundVars, history>>

\* The fee is taken from the funding source of the session.
Fee(r, f) ==
  /\ pc[r] = "fee"
  /\ \/ /\ FundingChange(r, f)
        /\ fees' = [fees EXCEPT ![session[r].funding] = @ + f]
        /\ pc' = [pc EXCEPT ![r] = IF profile[r].playground THEN "done" ELSE "feeToken"]
        /\ delta' = [delta EXCEPT ![r] = f]
     \/ /\ FundingError(r, f, "feeFunding")
        /\ pc' = [pc EXCEPT ![r] = "done"]
        /\ UNCHANGED <<fees, delta>>
  /\ UNCHANGED <<token, env, session, refundVars, actual, paid, tokenPaid, crashes>>

FeeToken(r) ==
  /\ Goto(r, "feeToken", "done")
  /\ \/ /\ token' = token - delta[r]
        /\ fees' = [fees EXCEPT !.token = @ + delta[r]]
        /\ NoError
     \/ /\ Fault(r, "feeToken")
        /\ UNCHANGED <<token, fees>>
  /\ UNCHANGED <<wallet, sub, env, session, delta, refundVars, actual, paid,
                 tokenPaid, crashes>>

-----------------------------------------------------------------------------
(* The rest of the system.                                                  *)

\* ExpireDueSubscriptions, AdminInvalidateUserSubscription and
\* AdminDeleteUserSubscription, as a session sees them: a row that is expired
\* or cancelled keeps its amount, a deleted one is gone.
SubscriptionEnds ==
  /\ \E s \in {"expired", "deleted"} :
       /\ sub.state = "active" \/ (sub.state = "expired" /\ s = "deleted")
       /\ sub' = [sub EXCEPT !.state = s]
  /\ UNCHANGED <<wallet, token, env, pc, session, delta, refundVars, history>>

\* The process dies: sessions and refund goroutines live in memory only.
Crash ==
  /\ crashes < MaxCrashes
  /\ crashes' = crashes + 1
  /\ pc' = [r \in Requests |-> IF pc[r] \in Terminal \cup {"idle"} THEN pc[r] ELSE "crashed"]
  /\ job' = [r \in Requests |-> IF job[r] \in {"none", "finished"} THEN job[r] ELSE "lost"]
  /\ UNCHANGED <<stores, env, session, delta, attempts, record, actual, fees,
                 paid, tokenPaid, failed, faults>>

Request(r) ==
  \/ Begin(r) \/ HasSubscription(r) \/ WalletCheck(r) \/ TokenRead(r) \/ TokenPre(r)
  \/ FundingPre(r) \/ FundingPreFails(r) \/ RollbackToken(r)
  \/ \E t \in ReserveTargets : Reserve(r, t)
  \/ ReserveTokenRead(r) \/ ReserveToken(r) \/ ReserveRollback(r)
  \/ \E a \in Actuals : Settle(r, a)
  \/ SettleToken(r) \/ Refund(r)
  \/ NoFee(r) \/ (\E f \in Fees : Fee(r, f)) \/ FeeToken(r)

RefundJob(r) ==
  RefundFunding(r) \/ RefundRecord(r) \/ RefundExtra(r) \/ RefundToken(r)

\* Every request is over and every refund has ended.
AllDone ==
  \A r \in Requests :
    pc[r] \in Terminal /\ job[r] \in {"none", "finished", "lost"}

Done == AllDone /\ UNCHANGED vars

Next ==
  \/ \E r \in Requests : Request(r) \/ RefundJob(r)
  \/ SubscriptionEnds
  \/ Crash
  \/ Done

Spec == Init /\ [][Next]_vars

\* A started refund goroutine is scheduled again until it ends.  Nothing is
\* assumed of the request itself, which may wait for its upstream for ever.
FairSpec == Spec /\ \A r \in Requests : WF_vars(RefundJob(r))

-----------------------------------------------------------------------------
(* Properties.                                                              *)

TypeOK ==
  /\ wallet \in Int
  /\ token \in Int
  /\ sub \in SubType
  /\ profile \in [Requests -> Profiles]
  /\ pc \in [Requests -> Control]
  /\ session \in [Requests -> SessionType]
  /\ delta \in [Requests -> Int]
  /\ seen \in [Requests -> Int]
  /\ job \in [Requests -> JobControl]
  /\ attempts \in [Requests -> 0 .. MaxAttempts]
  /\ record \in [Requests -> {"none", "consumed", "refunded"}]
  /\ actual \in [Requests -> Int]
  /\ fees \in [{"wallet", "subscription", "token"} -> Nat]
  /\ paid \in [Requests -> Int]
  /\ tokenPaid \in [Requests -> Int]
  /\ failed \in [Requests -> SUBSET WritePoints]
  /\ faults \in 0 .. MaxFaults
  /\ crashes \in 0 .. MaxCrashes

\* The token's part of an amount n charged to r: a playground request has no
\* token.
TokenShare(r, n) == IF profile[r].playground THEN 0 ELSE n

\* What the session of r still has to account for in its funding source while
\* it is not settled: all of it until the refund starts, then what the refund
\* has left to give back.
FundingHeld(r) ==
  LET s == session[r]
      extra == IF Wallet(r) THEN 0 ELSE s.extra
      pending == IF ~Wallet(r) /\ Reserving(r) THEN delta[r] ELSE 0 IN
  CASE job[r] \in {"none", "funding"} -> s.consumed + extra + pending
    [] job[r] \in {"record", "extra"} -> extra
    [] OTHER                          -> 0

TokenHeld(r) ==
  IF job[r] \in {"finished", "lost"} THEN 0 ELSE TokenShare(r, session[r].tokenConsumed)

\* No write of r failed and no crash cut it short.
Undisturbed(r) == failed[r] = {} /\ pc[r] # "crashed" /\ job[r] # "lost"

Accounts(r) ==
  LET committed == session[r].fundingSettled \/ session[r].settled
      funding == IF committed THEN actual[r] ELSE FundingHeld(r)
      tok == IF session[r].settled THEN TokenShare(r, actual[r]) ELSE TokenHeld(r) IN
  /\ paid[r] >= funding
  /\ tokenPaid[r] >= IF session[r].settled THEN 0 ELSE tok
  /\ Undisturbed(r) => paid[r] = funding /\ tokenPaid[r] = tok

\* At every step of a request, in every interleaving, the quota it took from
\* the wallet or subscription and from the token covers what its
\* BillingSession believes it holds (consumed, extraReserved, tokenConsumed)
\* or has settled; they are equal as long as no write failed.
SessionAccounts == \A r \in Requests : Accounts(r)

\* A request that has ended without a failed write was charged what its
\* outcome says, on the funding source and on the token alike: the actual
\* quota if it was settled, nothing if it was rejected or, once the refund
\* goroutine has ended, if it failed.
ChargeMatchesOutcome ==
  \A r \in Requests :
    Undisturbed(r) =>
      /\ pc[r] = "rejected" => paid[r] = 0 /\ tokenPaid[r] = 0
      /\ pc[r] = "done" /\ actual[r] >= 0 =>
           paid[r] = actual[r] /\ tokenPaid[r] = TokenShare(r, actual[r])
      /\ pc[r] = "done" /\ actual[r] = -1 /\ job[r] \in {"none", "finished"} =>
           paid[r] = 0 /\ tokenPaid[r] = 0

\* A sum over the requests.
Total(f) == SumFunctionOnSet(f, Requests)

\* The actual quotas of the requests settled from a funding source, and on the token.
Settled(source) ==
  Total([r \in Requests |->
    IF session[r].settled /\ session[r].funding = source THEN actual[r] ELSE 0])

TokenSettled ==
  Total([r \in Requests |-> IF session[r].settled THEN TokenShare(r, actual[r]) ELSE 0])

\* When everything is over and no write failed, the three stores hold what they
\* held at the start less the settled quotas and the violation fees: nothing
\* that was reserved, rolled back or refunded on the way is left in them.
BooksBalance ==
  AllDone /\ (\A r \in Requests : Undisturbed(r)) =>
    /\ wallet = InitWallet - Settled("wallet") - fees["wallet"]
    /\ sub.used = Settled("subscription") + fees["subscription"]
    /\ token = InitToken - TokenSettled - fees["token"]

\* Whatever writes fail and wherever the process dies, a request never gives
\* back more than it took (Refund: "idempotent").
NoOverRefund == \A r \in Requests : paid[r] >= 0 /\ tokenPaid[r] >= 0

\* The violation fee is charged when the refund of the request is over.
FeeAfterRefund ==
  \A r \in Requests : pc[r] = "feeToken" => job[r] \in {"none", "finished"}

\* The same where RefundSubscriptionPreConsume could save its record: only the
\* failure of that write can make a request gain.
NoOverRefundIfSaved ==
  \A r \in Requests : "recordSave" \notin failed[r] => paid[r] >= 0 /\ tokenPaid[r] >= 0

\* A failed request gets its pre-consumption back, unless a write of its
\* refund returned an error: the refund goroutine ends, if the process lives.
RefundCompletes ==
  \A r \in Requests :
    session[r].refunded ~>
      \/ job[r] = "finished" /\ (failed[r] = {} => paid[r] = 0 /\ tokenPaid[r] = 0)
      \/ crashes > 0

=============================================================================
