----------------------------- MODULE HubRecharge -----------------------------
(***************************************************************************)
(* Recharges and plan purchases through the payment hub: initiate_charge   *)
(* opens an intent at the hub, the payer pays it there, and the hub calls  *)
(* the webhook hub-payment-paid, once or more often.  Several webhooks run *)
(* at once, each in one READ COMMITTED transaction that get_db commits     *)
(* after the handler has returned.                                         *)
(*                                                                         *)
(* The hub, the payer and Finanzas-Core are external.  The framework       *)
(* decides whether get_db commits before or after the response is sent     *)
(* (FastAPI below or from 0.118; pyproject.toml admits both): ReplyFirst.  *)
(***************************************************************************)
EXTENDS Integers, FiniteSets

CONSTANTS
  Charges,          \* calls of POST .../recharge and /plans/{code}/purchase
  NoCharge,
  Clients,
  ClientOf,         \* the client of a charge
  AmountOf,         \* its cents
  PurposeOf,        \* "wallet_recharge" or "plan_purchase"
  Referred,         \* clients with an active referrer that earns a percentage
  Cap,              \* MAX_RECARGA_CENTS
  Webhooks,         \* webhook calls the server handles at the same time
  ReplyFirst,       \* the response is sent before get_db commits
  CommissionErrors, \* the SQL of the commission may fail
  MaxFaults         \* bound: failures in a behaviour

ASSUME ChargesAssumption ==
  /\ NoCharge \notin Charges
  /\ ClientOf \in [Charges -> Clients]
  /\ AmountOf \in [Charges -> Nat \ {0}]
  /\ PurposeOf \in [Charges -> {"wallet_recharge", "plan_purchase"}]
  \* only a recharge is compared with the cap when it is initiated
  /\ \A q \in Charges : PurposeOf[q] = "wallet_recharge" => AmountOf[q] <= Cap
  /\ Referred \subseteq Clients

ASSUME BuildAssumption ==
  /\ ReplyFirst \in BOOLEAN /\ CommissionErrors \in BOOLEAN
  /\ Cap \in Nat /\ MaxFaults \in Nat

VARIABLES
  call,        \* state of the request that initiates each charge
  initiated,   \* charges with a committed recharge.initiated in audit_log
  url,         \* charges whose checkout URL reached the payer
  paid,        \* charges paid at the hub
  called,      \* charges the hub has called the webhook for, or tried to
  acked,       \* charges whose webhook was answered with a 2xx
  rejected,    \* charges with a hub.paid.rejected in audit_log
  pc, event,   \* next statement of each webhook, and the charge it is about
  tx,          \* what its open transaction holds
  payments,    \* committed rows of payments per charge
  wallet,      \* cents credited per client by recharges, in prepaid_ledger
  entries,     \* source_refs in Finanzas-Core (one entry each)
  commissions, \* charges with a row in distributor_commissions
  faults

hook == <<pc, event, tx>>
book == <<payments, wallet, commissions>>
vars == <<call, initiated, url, paid, called, acked, rejected, hook, book, entries, faults>>

\* claim: the rows of payments and prepaid_ledger, commission: the row of
\* distributor_commissions, broken: a statement failed, so PostgreSQL turns
\* COMMIT into ROLLBACK.
CleanTx == [claim |-> FALSE, commission |-> FALSE, broken |-> FALSE]

Init ==
  /\ call = [q \in Charges |-> "idle"]
  /\ initiated = {} /\ url = {} /\ paid = {} /\ called = {} /\ acked = {} /\ rejected = {}
  /\ pc = [w \in Webhooks |-> "idle"]
  /\ event = [w \in Webhooks |-> NoCharge]
  /\ tx = [w \in Webhooks |-> CleanTx]
  /\ payments = [q \in Charges |-> 0]
  /\ wallet = [c \in Clients |-> 0]
  /\ entries = {} /\ commissions = {}
  /\ faults = 0

Fault ==
  /\ faults < MaxFaults
  /\ faults' = faults + 1

-----------------------------------------------------------------------------
(***************************************************************************)
(* The request that initiates a charge                                     *)
(***************************************************************************)
CallStep(q, from, to) ==
  /\ call[q] = from
  /\ call' = [call EXCEPT ![q] = to]

\* initiate_charge: the hub opens the intent (its retries leave intents that
\* nobody gets the URL of), the audit row waits for the COMMIT.
Initiate(q) ==
  /\ CallStep(q, "idle", "open")
  /\ UNCHANGED <<initiated, url, paid, called, acked, rejected, hook, book, entries, faults>>

\* The commit and the response, in the order of the build.
CommitCall(q) ==
  /\ IF ReplyFirst THEN CallStep(q, "last", "done") ELSE CallStep(q, "open", "last")
  /\ initiated' = initiated \cup {q}
  /\ UNCHANGED <<url, paid, called, acked, rejected, hook, book, entries, faults>>

ReplyCall(q) ==
  /\ IF ReplyFirst THEN CallStep(q, "open", "last") ELSE CallStep(q, "last", "done")
  /\ url' = url \cup {q}
  /\ UNCHANGED <<initiated, paid, called, acked, rejected, hook, book, entries, faults>>

\* The hub fails or sends no URL, or the process dies: what is not committed
\* is rolled back.
FailCall(q) ==
  /\ call[q] \in {"open", "last"}
  /\ Fault
  /\ call' = [call EXCEPT ![q] = "failed"]
  /\ UNCHANGED <<initiated, url, paid, called, acked, rejected, hook, book, entries>>

\* The payer pays at the hub's checkout page.
Pay(q) ==
  /\ q \in url \ paid
  /\ paid' = paid \cup {q}
  /\ UNCHANGED <<call, initiated, url, called, acked, rejected, hook, book, entries, faults>>

-----------------------------------------------------------------------------
(***************************************************************************)
(* The webhook                                                             *)
(***************************************************************************)
HookStep(w, from, to) ==
  /\ pc[w] = from
  /\ pc' = [pc EXCEPT ![w] = to]

\* Mutant: the failed call is not given back to the pool of the server.
GiveUpHangs(w) ==
  /\ pc' = [pc EXCEPT ![w] = "idle"]
  /\ tx' = [tx EXCEPT ![w] = CleanTx]
  /\ UNCHANGED event

\* The handler ends without a 2xx: rollback.
GiveUp(w) ==
  /\ pc' = [pc EXCEPT ![w] = "idle"]
  /\ event' = [event EXCEPT ![w] = NoCharge]
  /\ tx' = [tx EXCEPT ![w] = CleanTx]

\* A webhook arrives.
Receive(w, q) ==
  /\ HookStep(w, "idle", "check")
  /\ event' = [event EXCEPT ![w] = q]
  /\ UNCHANGED <<call, initiated, url, paid, acked, rejected, tx, book, entries, faults>>

\* The hub calls when the charge is paid, or its call is lost.
FirstCall(q) == q \in paid \ called /\ called' = called \cup {q}

Notify(w, q) == FirstCall(q) /\ Receive(w, q)

LoseCall(q) ==
  /\ FirstCall(q)
  /\ Fault
  /\ UNCHANGED <<call, initiated, url, paid, acked, rejected, hook, book, entries>>

\* The CAF may be called again, with or without an earlier 2xx: by a hub that
\* repeats what failed, which prepago.py counts on, or by an operator, as
\* docs/RUNBOOK.md prescribes.  Nothing in the CAF sees to it.
Redeliver(w, q) == q \in called /\ Receive(w, q) /\ UNCHANGED called

\* HubClient.charge sends no metadata, so the hub reports its default.
HubPurpose == "wallet_recharge"

\* Mutant: what was rejected once is rejected for good.
CorrelatesOnce(q) ==
  /\ AmountOf[q] <= Cap
  /\ q \in initiated \ rejected
  /\ PurposeOf[q] = HubPurpose

\* The cap, then _correlate_or_reject: a committed intent with this id,
\* purpose and amount (the hub reports the amount of the intent).  Its client
\* has a wallet: onboarding sets the hub and Medidor accounts together.
Correlates(q) ==
  /\ AmountOf[q] <= Cap
  /\ q \in initiated
  /\ PurposeOf[q] = HubPurpose

Accept(w) ==
  /\ HookStep(w, "check", "claim")
  /\ Correlates(event[w])
  /\ UNCHANGED <<call, initiated, url, paid, called, acked, rejected, event, tx, book,
                 entries, faults>>

\* 502; the audit row is written by a session of its own, which may fail.
Reject(w) ==
  /\ pc[w] = "check"
  /\ ~Correlates(event[w])
  /\ rejected' \in {rejected, rejected \cup {event[w]}}
  /\ GiveUp(w)
  /\ UNCHANGED <<call, initiated, url, paid, called, acked, book, entries, faults>>

\* Mutant: SELECT then INSERT, no unique index on hub_payment_id.
NobodyClaims(w) == TRUE

\* An INSERT waits for open transactions that hold the same hub_payment_id.
ClaimFree(w) ==
  \A v \in Webhooks \ {w} : ~(event[v] = event[w] /\ tx[v].claim /\ ~tx[v].broken)

\* The payment and the credit of the wallet are inserted.
Claim(w) ==
  /\ HookStep(w, "claim", "finanzas")
  /\ ClaimFree(w)
  /\ payments[event[w]] = 0
  /\ tx' = [tx EXCEPT ![w].claim = TRUE]
  /\ UNCHANGED <<call, initiated, url, paid, called, acked, rejected, event, book, entries, faults>>

\* Mutant: an open claim of another webhook counts as a replay.
ReplayWhileClaimed(w) ==
  /\ HookStep(w, "claim", "open")
  /\ payments[event[w]] > 0 \/ ~ClaimFree(w)
  /\ UNCHANGED <<call, initiated, url, paid, called, acked, rejected, event, tx, book,
                 entries, faults>>

\* duplicate_ignored: the row was there.
Replay(w) ==
  /\ HookStep(w, "claim", "open")
  /\ ClaimFree(w)
  /\ payments[event[w]] > 0
  /\ UNCHANGED <<call, initiated, url, paid, called, acked, rejected, event, tx, book,
                 entries, faults>>

\* Mutant: the entry of Finanzas-Core is best-effort.
PostEntryBestEffort(w) ==
  /\ HookStep(w, "finanzas", "commission")
  /\ entries' \in {entries, entries \cup {event[w]}}
  /\ UNCHANGED <<call, initiated, url, paid, called, acked, rejected, event, tx, book, faults>>

\* The entry of Finanzas-Core, idempotent by source_ref; then the mail.
PostEntry(w) ==
  /\ HookStep(w, "finanzas", "commission")
  /\ entries' = entries \cup {event[w]}
  /\ UNCHANGED <<call, initiated, url, paid, called, acked, rejected, event, tx, book, faults>>

\* Finanzas-Core fails, or its answer is lost after it wrote: 502.
PostEntryFails(w) ==
  /\ pc[w] = "finanzas"
  /\ Fault
  /\ entries' \in {entries, entries \cup {event[w]}}
  /\ GiveUp(w)
  /\ UNCHANGED <<call, initiated, url, paid, called, acked, rejected, book>>

\* The charges of a client with a payment this transaction sees.
SeenPayments(w) ==
  {q \in Charges : /\ ClientOf[q] = ClientOf[event[w]]
                   /\ payments[q] > 0 \/ q = event[w]}

Earns(w) ==
  /\ ClientOf[event[w]] \in Referred
  /\ Cardinality(SeenPayments(w)) = 1

\* Mutant: the commission is written in a transaction of its own.
CommissionAtOnce(w) ==
  /\ HookStep(w, "commission", "open")
  /\ commissions' = IF Earns(w) THEN commissions \cup {event[w]} ELSE commissions
  /\ UNCHANGED <<call, initiated, url, paid, called, acked, rejected, event, tx, payments, wallet,
                 entries, faults>>

\* _maybe_accrue_commission: the first payment earns the referrer a share.
Commission(w) ==
  /\ HookStep(w, "commission", "open")
  /\ tx' = [tx EXCEPT ![w].commission = Earns(w)]
  /\ UNCHANGED <<call, initiated, url, paid, called, acked, rejected, event, book, entries, faults>>

\* Its INSERT fails and the exception is swallowed: the transaction is lost
\* but the handler goes on.
CommissionFails(w) ==
  /\ HookStep(w, "commission", "open")
  /\ CommissionErrors /\ Earns(w)
  /\ Fault
  /\ tx' = [tx EXCEPT ![w].broken = TRUE]
  /\ UNCHANGED <<call, initiated, url, paid, called, acked, rejected, event, book, entries>>

Leave(w, to) ==
  /\ pc' = [pc EXCEPT ![w] = to]
  /\ event' = [event EXCEPT ![w] = IF to = "idle" THEN NoCharge ELSE @]

\* get_db commits.
Commit(w) ==
  LET q == event[w]
      books == tx[w].claim /\ ~tx[w].broken
  IN
  /\ pc[w] = IF ReplyFirst THEN "last" ELSE "open"
  /\ Leave(w, IF ReplyFirst THEN "idle" ELSE "last")
  /\ tx' = [tx EXCEPT ![w] = CleanTx]
  /\ payments' = IF books THEN [payments EXCEPT ![q] = @ + 1] ELSE payments
  /\ wallet' = IF books THEN [wallet EXCEPT ![ClientOf[q]] = @ + AmountOf[q]] ELSE wallet
  /\ commissions' = IF books /\ tx[w].commission THEN commissions \cup {q} ELSE commissions
  /\ UNCHANGED <<call, initiated, url, paid, called, acked, rejected, entries, faults>>

\* The 200 with "credited" or "duplicate_ignored".
Answer(w) ==
  /\ pc[w] = IF ReplyFirst THEN "open" ELSE "last"
  /\ Leave(w, IF ReplyFirst THEN "last" ELSE "idle")
  /\ acked' = acked \cup {event[w]}
  /\ UNCHANGED <<call, initiated, url, paid, called, rejected, tx, book, entries, faults>>

\* The process or a connection dies: rollback, no answer to the hub.
Crash(w) ==
  /\ pc[w] # "idle"
  /\ Fault
  /\ GiveUp(w)
  /\ UNCHANGED <<call, initiated, url, paid, called, acked, rejected, book, entries>>

-----------------------------------------------------------------------------
CallAction(q) == CommitCall(q) \/ ReplyCall(q)

HookAction(w) ==
  \/ Accept(w) \/ Reject(w) \/ Claim(w) \/ Replay(w)
  \/ PostEntry(w) \/ Commission(w) \/ Commit(w) \/ Answer(w)

Next ==
  \/ \E q \in Charges : Initiate(q) \/ CallAction(q) \/ FailCall(q) \/ Pay(q) \/ LoseCall(q)
  \/ \E w \in Webhooks :
       \/ \E q \in Charges : Notify(w, q) \/ Redeliver(w, q)
       \/ HookAction(w)
       \/ PostEntryFails(w) \/ CommissionFails(w) \/ Crash(w)

Spec == Init /\ [][Next]_vars

\* Open requests are served, and the hub calls once for what was paid, as soon
\* as the server takes the call; a payer need not pay, nothing need fail, and
\* nobody need call again.
FairSpec ==
  /\ Spec
  /\ \A q \in Charges : WF_vars(CallAction(q)) /\ SF_vars(\E w \in Webhooks : Notify(w, q))
  /\ \A w \in Webhooks : WF_vars(HookAction(w))
-----------------------------------------------------------------------------
(***************************************************************************)
(* Properties                                                              *)
(***************************************************************************)
TypeOK ==
  /\ call \in [Charges -> {"idle", "open", "last", "done", "failed"}]
  /\ initiated \subseteq Charges /\ url \subseteq Charges /\ paid \subseteq url
  /\ called \subseteq paid /\ acked \subseteq paid /\ rejected \subseteq paid
  /\ pc \in [Webhooks -> {"idle", "check", "claim", "finanzas", "commission", "open", "last"}]
  /\ event \in [Webhooks -> Charges \cup {NoCharge}]
  /\ \A w \in Webhooks : event[w] = NoCharge <=> pc[w] = "idle"
  /\ tx \in [Webhooks -> [claim : BOOLEAN, commission : BOOLEAN, broken : BOOLEAN]]
  /\ payments \in [Charges -> Nat] /\ wallet \in [Clients -> Nat]
  /\ entries \subseteq Charges /\ commissions \subseteq Charges
  /\ faults \in 0 .. MaxFaults

\* However many times and in whatever order the hub calls, a payment enters
\* the wallet of its payer once, after it was paid, for the amount paid.
Intake == INSTANCE PaymentIntake WITH credited <- {q \in Charges : payments[q] > 0}

ImplementsIntake == Intake!Spec

\* A webhook answered duplicate_ignored had its payment committed by another
\* one, whatever that other one was doing when the first arrived.
ReplayMeansCredited ==
  \A w \in Webhooks :
    /\ pc[w] \in {"open", "last"} /\ ~tx[w].claim
    /\ ReplyFirst \/ pc[w] = "open"
    => payments[event[w]] > 0

\* Only payments the CAF itself initiated, with a purpose and an amount that
\* agree, are credited, and each has its entry in Finanzas-Core, although
\* the answer of Finanzas-Core may be lost and the webhook rolled back; and a
\* commission exists only with the payment that earned it.
CreditsAccounted ==
  /\ \A q \in Charges : payments[q] > 0 => q \in initiated /\ q \in entries
  /\ \A q \in commissions : payments[q] > 0

\* A recharge that is delivered again and again is credited in the end, in spite
\* of concurrent webhooks, rejections, lost answers and failures, if its intent
\* was committed: a redelivery, whoever makes it, is never in vain for good.
\* (The response-first build may send the URL and then lose the intent; every
\* webhook of such a payment is rejected.)
RedeliveredIsCredited ==
  \A q \in Charges :
    PurposeOf[q] = HubPurpose =>
      (/\ <>(q \in initiated)
       /\ []<><<\E w \in Webhooks : Redeliver(w, q)>>_vars
       => <>(payments[q] > 0))

\* A paid recharge is credited in the end: docs/modulos/hub-pasarelas.md:66
\* "si el POST al CAF falla, el CAF reconcilia".
PaidRechargeIsCredited ==
  \A q \in Charges : q \in paid /\ PurposeOf[q] = "wallet_recharge" ~> payments[q] > 0

\* The CAF answers the hub with a 2xx only when the payment is in the book:
\* prepago.py:14 "NUNCA pierde el pago".
AckedIsCredited == \A q \in acked : payments[q] > 0

\* A plan that was paid is credited in the end: prepago.py:4 "contratar plan
\* / recargar = cargo en el Hub que [...] acredita saldo".
PaidPlanIsCredited ==
  \A q \in Charges : q \in paid /\ PurposeOf[q] = "plan_purchase" ~> payments[q] > 0

\* A client's referrer earns on its first payment only: prepago.py:460 "Solo
\* actua si [...] este es su primer pago confirmado".
OneCommissionPerClient ==
  \A q1, q2 \in commissions : ClientOf[q1] = ClientOf[q2] => q1 = q2

\* The INSERT waits only for a webhook that holds the row and waits for
\* nobody itself: as long as a webhook is open, one goes on.
Waits(w) == pc[w] = "claim" /\ ~ClaimFree(w)

NobodyStuck ==
  /\ \A w \in Webhooks : Waits(w) =>
       \E v \in Webhooks : event[v] = event[w] /\ pc[v] # "idle" /\ tx[v].claim /\ ~Waits(v)
  /\ (\E w \in Webhooks : pc[w] # "idle") =>
       \E v \in Webhooks : pc[v] # "idle" /\ ~Waits(v)
-----------------------------------------------------------------------------
(***************************************************************************)
(* The inductive invariant: what the open transaction of a webhook holds   *)
(* at each of its statements.  ImplementsIntake needs ClaimInv: an open    *)
(* claim is the only one on its payment, and the payment is not booked.    *)
(***************************************************************************)
HookInv ==
  \A w \in Webhooks :
    /\ pc[w] \in {"idle", "check", "claim"} => tx[w] = CleanTx
    /\ pc[w] \in {"finanzas", "commission"} => tx[w].claim /\ ~tx[w].broken
    /\ pc[w] # "idle" => event[w] \in paid
    /\ pc[w] \notin {"idle", "check"} => event[w] \in initiated
    /\ pc[w] \in {"commission", "open", "last"} /\ tx[w].claim => event[w] \in entries
    /\ pc[w] = "last" /\ ~ReplyFirst => tx[w] = CleanTx

ClaimInv ==
  \A w \in Webhooks :
    tx[w].claim /\ ~tx[w].broken => payments[event[w]] = 0 /\ ClaimFree(w)

IInv ==
  /\ TypeOK /\ HookInv /\ ClaimInv
  /\ ReplayMeansCredited /\ CreditsAccounted
=============================================================================
