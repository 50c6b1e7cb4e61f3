------------------------------ MODULE Recharge ------------------------------
(***************************************************************************)
(* POST /credit-ledger/{business_id}/recharge (recharge_credit of          *)
(* gateway/api/v1/billing.py) over the credit ledger: concurrent and       *)
(* repeated requests, each for a Razorpay payment that is credited to an   *)
(* account of a business.                                                  *)
(*                                                                         *)
(* A request is one database session, so requests are the ledger's         *)
(* transactions and every statement of credit() is a step of CreditLedger. *)
(* Razorpay is external: a payment becomes captured at some time, and      *)
(* fetching it may fail.  Amounts are in paise: the ledger's rupees are    *)
(* exact decimals of them.                                                 *)
(***************************************************************************)
EXTENDS CreditLedger

CONSTANTS
  Business,
  BusinessOf,           \* the business of an account
  Payment,              \* razorpay_payment_id (and its uuid5 reference_id)
  PaymentOf,            \* the payment a request names
  Paise,                \* the amount of a payment
  InINR,                \* the payments made in INR
  RetryOf               \* the request whose end a retry waits for, or None

ASSUME RechargeAssumption ==
  /\ BusinessOf \in [Account -> Business]
  /\ Payment = Reference
  /\ PaymentOf \in [Txn -> Payment]
  /\ Paise \in [Payment -> Amount]
  /\ \A p \in Payment : Paise[p] > 0
  /\ InINR \subseteq Payment
  /\ RetryOf \in [Txn -> Txn \cup {None}]
  /\ IsFiniteSet(Txn)

VARIABLES
  captured,             \* the payments Razorpay has captured
  request               \* where each request is, or how it ended

rvars == <<vars, captured, request>>

Ended == {"credited", "replayed", "refused", "failed"}

RechargeTypeOK ==
  /\ TypeOK
  /\ captured \subseteq Payment
  /\ request \in [Txn -> {"start", "fetched", "crediting"} \cup Ended]
  /\ \A t \in Txn : request[t] = "crediting" <=> status[t] = "active"

RechargeInit ==
  /\ Init
  /\ captured = {}
  /\ request = [t \in Txn |-> "start"]

(* Razorpay captures a payment. *)
Capture(p) ==
  /\ p \notin captured
  /\ captured' = captured \cup {p}
  /\ UNCHANGED <<vars, request>>

(* A client sends a retry when the request before it has ended, whether or  *)
(* not the answer arrived.                                                  *)
Sendable(t) == RetryOf[t] # None => request[RetryOf[t]] \in Ended

Moves(t, where) == request' = [request EXCEPT ![t] = where]

CreditableUnpaid(p) == p \in InINR      \* variant: the status is not looked at

Creditable(p) == p \in captured /\ p \in InINR

(* fetch_payment and the checks of what it answers; the caller's access,    *)
(* the configuration and Razorpay's errors also refuse a request.           *)
Fetch(t) ==
  /\ request[t] = "start"
  /\ Sendable(t)
  /\ \/ Moves(t, "refused")
     \/ Creditable(PaymentOf[t]) /\ Moves(t, "fetched")
  /\ UNCHANGED <<vars, captured>>

FoundInAccount(t) ==    \* variant: looks in the account, not in the business
  {r \in Committed(AccountOf[t]) : r.reference = PaymentOf[t]}

(* The committed entries of this payment for this business, of either       *)
(* credit type.                                                             *)
Found(t) ==
  {r \in rows : /\ status[r.txn] = "committed"
                /\ BusinessOf[r.account] = BusinessOf[AccountOf[t]]
                /\ r.reference = PaymentOf[t]}

(* already_credited: a SELECT that takes no lock.  A second entry makes     *)
(* scalar_one_or_none raise; one entry is answered as a replay; with none   *)
(* credit() is called.                                                      *)
CheckReplay(t) ==
  /\ request[t] = "fetched"
  /\ \/ /\ Cardinality(Found(t)) > 1
        /\ Moves(t, "failed")
        /\ UNCHANGED vars
     \/ /\ Cardinality(Found(t)) = 1
        /\ Moves(t, "replayed")
        /\ UNCHANGED vars
     \/ /\ Found(t) = {}
        /\ Moves(t, "crediting")
        /\ Enter(t, [kind |-> "credit", amount |-> Paise[PaymentOf[t]],
                     reference |-> PaymentOf[t]])
  /\ UNCHANGED captured

(* A statement of credit(). *)
Credit(t) ==
  /\ request[t] = "crediting"
  /\ Lock(t) \/ ReadBalance(t) \/ AppendEntry(t)
  /\ UNCHANGED <<captured, request>>

AnswersEarly(t) ==      \* variant: the commit is left to the closing session
  /\ request[t] = "crediting" /\ pc[t] = "ready"
  /\ Rollback(t)
  /\ Moves(t, "credited")
  /\ UNCHANGED captured

(* The commit, and the answer after it. *)
Answer(t) ==
  /\ request[t] = "crediting"
  /\ Commit(t)
  /\ Moves(t, "credited")
  /\ UNCHANGED captured

FailsOpen(t) ==         \* variant: the session is not closed
  /\ request[t] \in {"fetched", "crediting"}
  /\ Moves(t, "failed")
  /\ UNCHANGED <<vars, captured>>

(* The process dies, or a statement raises: the session closes.             *)
Fail(t) ==
  /\ \/ request[t] = "fetched" /\ UNCHANGED vars
     \/ request[t] = "crediting" /\ Rollback(t)
  /\ Moves(t, "failed")
  /\ UNCHANGED captured

RechargeNext ==
  \/ \E p \in Payment : Capture(p)
  \/ \E t \in Txn : Fetch(t) \/ CheckReplay(t) \/ Credit(t) \/ Answer(t) \/ Fail(t)

RechargeSpec == RechargeInit /\ [][RechargeNext]_rvars

-----------------------------------------------------------------------------
(* "credits exactly what Razorpay confirms was captured": an entry is for   *)
(* a captured INR payment, of that payment's amount, in an account of the   *)
(* request's choice.                                                        *)
CreditsWhatWasCaptured ==
  \A r \in rows :
    /\ r.reference \in captured \cap InINR
    /\ r.delta = Paise[r.reference]
    /\ r.reference = PaymentOf[r.txn]

OneEntry(p) ==
  \A r, s \in rows :
    /\ r.reference = p /\ status[r.txn] = "committed"
    /\ s.reference = p /\ status[s.txn] = "committed"
    /\ BusinessOf[r.account] = BusinessOf[s.account]
    => r = s

Sent(p) == {t \in Txn : PaymentOf[t] = p}

(* Every request for p but the first is a retry of the one in the place     *)
(* before it.                                                               *)
InPlace(p, place) ==
  \A t, u \in Sent(p) : /\ place[t] = place[u] => t = u
                        /\ place[u] = place[t] + 1 => RetryOf[u] = t

(* The requests that name p are a first one and its retries, in a chain. *)
SentInTurn(p) == \E place \in [Sent(p) -> 1..Cardinality(Sent(p))] : InPlace(p, place)

(* One payment, one entry in the business's ledger, when a client only      *)
(* retries a request that has ended: whichever credit type each request     *)
(* asks for, and however the earlier ones ended.                            *)
RetryCreditsOnce == \A p \in Payment : SentInTurn(p) => OneEntry(p)

(* "same payment ID submitted twice (e.g. a retried frontend request) must  *)
(* not double-credit" (recharge_credit, gateway/api/v1/billing.py:196): the *)
(* same, however the requests overlap.                                      *)
NoDoubleCredit == \A p \in Payment : OneEntry(p)

(* A request that was answered with a balance has a committed entry of its  *)
(* payment behind it, its own or an earlier request's.                      *)
AnswerIsDurable ==
  \A t \in Txn : request[t] \in {"credited", "replayed"} => Found(t) # {}
=============================================================================
