------------------------------- MODULE Wallet -------------------------------
(***************************************************************************)
(* What the prepaid book of the CAF promises to whoever uses it: each      *)
(* client has one balance, every posting changes it at once and entirely,  *)
(* a posting that carries an idempotency key takes effect at most once for *)
(* its client, and no posting takes a prepaid client below zero.  Clients  *)
(* that are billed afterwards (the platform's own customers) may owe.      *)
(* PrepaidLedger is shown to implement this module.                        *)
(***************************************************************************)
EXTENDS Integers

CONSTANTS
  Clients,    \* every client that has a balance
  Postpaid,   \* those of them that may owe
  Amounts,    \* cents a posting may move
  Keys,       \* idempotency keys
  NoKey,      \* stands for a posting without one
  Names       \* tell postings apart

VARIABLES
  balance,    \* cents per client
  posted      \* the postings so far, each with its client, key and name

wvars == <<balance, posted>>

Init ==
  /\ balance = [c \in Clients |-> 0]
  /\ posted = {}

\* A posting is a new one, and uses up the key it carries.
Post(c, k, n) ==
  /\ \A p \in posted : p.name # n /\ (p.client = c /\ p.key = k => k = NoKey)
  /\ posted' = posted \cup {[client |-> c, key |-> k, name |-> n]}

Credit(c, a, k, n) ==
  /\ Post(c, k, n)
  /\ balance' = [balance EXCEPT ![c] = @ + a]

Debit(c, a, k, n) ==
  /\ c \notin Postpaid => a <= balance[c]
  /\ Post(c, k, n)
  /\ balance' = [balance EXCEPT ![c] = @ - a]

Next ==
  \E c \in Clients, a \in Amounts, k \in Keys \cup {NoKey}, n \in Names :
    Credit(c, a, k, n) \/ Debit(c, a, k, n)

Spec == Init /\ [][Next]_wvars
=============================================================================
