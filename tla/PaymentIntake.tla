---------------------------- MODULE PaymentIntake ----------------------------
(***************************************************************************)
(* What the recharge flow promises: money paid at the payment hub enters   *)
(* the payer's wallet at most once, only after it was paid, and for the    *)
(* amount that was paid.  HubRecharge is shown to implement this module.   *)
(***************************************************************************)
EXTENDS Integers

CONSTANTS
  Charges,    \* intents of payment
  Clients,
  ClientOf,   \* who pays an intent
  AmountOf    \* the cents it is for

VARIABLES
  paid,       \* the intents paid at the hub
  credited,   \* those that were credited
  wallet      \* cents credited per client

ivars == <<paid, credited, wallet>>

Init ==
  /\ paid = {}
  /\ credited = {}
  /\ wallet = [c \in Clients |-> 0]

Pay(q) ==
  /\ q \notin paid
  /\ paid' = paid \cup {q}
  /\ UNCHANGED <<credited, wallet>>

Credit(q) ==
  /\ q \in paid \ credited
  /\ credited' = credited \cup {q}
  /\ wallet' = [wallet EXCEPT ![ClientOf[q]] = @ + AmountOf[q]]
  /\ UNCHANGED paid

Next == \E q \in Charges : Pay(q) \/ Credit(q)

Spec == Init /\ [][Next]_ivars
=============================================================================
