---------------------------- MODULE PrepaidLedger ----------------------------
(***************************************************************************)
(* The prepaid book (table prepaid_ledger, view v_client_balance) under    *)
(* concurrent HTTP requests.  A request runs in one database transaction   *)
(* at READ COMMITTED: it sees the committed rows, its own INSERT stays     *)
(* private in pend until COMMIT, and a crash or an error rolls it back.    *)
(*                                                                         *)
(*  charge          POST /api/v1/clients/{id}/charge, then the best-effort *)
(*                  SaaS accrual in a session of its own                   *)
(*  adjust_credit,  POST /clients/{id}/adjust                              *)
(*  adjust_debit                                                           *)
(*  recharge        the INSERT of a credit by the payment webhook or by    *)
(*                  the plan grant of the onboarding                       *)
(*  fee             the INSERT of the monthly SaaS fee of an organization  *)
(*                                                                         *)
(* charge and adjust take pg_advisory_xact_lock(client); the others take   *)
(* no lock and rely on the unique index (client_id, idempotency_key).      *)
(***************************************************************************)
EXTENDS Integers, FiniteSets

CONSTANTS
  Requests,         \* the HTTP requests of a behaviour, each handled once
  NoRequest,        \* the holder of a free advisory lock
  Customers,        \* prepaid clients
  PlatformClients,  \* clients that stand for an organization (postpaid)
  PlatformOf,       \* organizations.platform_client_id of the client's org
  NoClient,         \* ... of an org that has none, and of the platform itself
  Keys, NoKey,      \* idempotency keys chosen by the callers
  SaasPrice,        \* price of one motor transaction for the organization
  Jobs              \* the calls a caller may make

Clients == Customers \cup PlatformClients
Locked == {"charge", "adjust_credit", "adjust_debit"}
Debits == {"charge", "adjust_debit", "fee"}
Ops == Locked \cup {"recharge", "fee"}

\* A call: only a charge can be priced at zero, and the unlocked writers
\* always carry a key; they credit customers and debit platform clients.
JobType == [op : Ops, client : Clients, amount : Nat, key : Keys \cup {NoKey}]

Admissible(j) ==
  /\ j.op # "charge" => j.amount > 0
  /\ j.op \notin Locked => j.key # NoKey
  /\ j.op = "recharge" => j.client \in Customers
  /\ j.op = "fee" => j.client \in PlatformClients

ASSUME ClientsAssumption ==
  /\ Customers \cap PlatformClients = {}
  /\ NoClient \notin Clients
  /\ PlatformOf \in [Clients -> PlatformClients \cup {NoClient}]
  /\ \A p \in PlatformClients : PlatformOf[p] = NoClient

ASSUME KeysAssumption ==
  /\ NoKey \notin Keys
  /\ \A r \in Requests : <<"saas-tx", r>> \notin Keys \cup {NoKey}

ASSUME RequestsAssumption == NoRequest \notin Requests

ASSUME JobsAssumption ==
  /\ Jobs \subseteq JobType
  /\ \A j \in Jobs : Admissible(j)
  /\ SaasPrice \in Nat \ {0}

VARIABLES
  ledger,   \* committed rows of prepaid_ledger
  lock,     \* advisory lock of each client
  pc,       \* next statement of each request
  job,      \* what each request asks for
  seen,     \* balance the request read before its INSERT
  pend,     \* rows INSERTed by the open transaction of a request
  answer    \* response body, as far as it was computed

vars == <<ledger, lock, pc, job, seen, pend, answer>>

NoJob == [op |-> "none"]
NoAnswer == [status |-> "none"]

-----------------------------------------------------------------------------
(***************************************************************************)
(* The table and its view.  A row stands for amount_cents cents, so a sum  *)
(* of amounts is the number of cents the rows stand for.                   *)
(***************************************************************************)
AccrualKey(r) == <<"saas-tx", r>>
EntryId(r) == <<r, "entry">>
AccrualId(r) == <<r, "accrual">>

Row(id, c, kind, a, k) ==
  [id |-> id, client |-> c, kind |-> kind, amount |-> a, key |-> k]

Cents(rows) == UNION {{<<x, i>> : i \in 1 .. x.amount} : x \in rows}
Total(rows) == Cardinality(Cents(rows))

RowsOf(c, kind) == {x \in ledger : x.client = c /\ x.kind = kind}

\* v_client_balance
Balance(c) == Total(RowsOf(c, "credit")) - Total(RowsOf(c, "debit"))

\* The rows that occupy (client, key) in uq_prepaid_ledger_idem.
Recorded(c, k) == {x \in ledger : k # NoKey /\ x.client = c /\ x.key = k}

\* Mutant: no unique index, only committed rows are looked at.
HeldByNobody(r, c, k) == FALSE

\* An INSERT of an indexed key waits for open transactions that hold it.
HeldByOther(r, c, k) ==
  \E s \in Requests \ {r} : k # NoKey /\ \E x \in pend[s] : x.client = c /\ x.key = k

KindOf(j) == IF j.op \in Debits THEN "debit" ELSE "credit"
EntryOf(r) == Row(EntryId(r), job[r].client, KindOf(job[r]), job[r].amount, job[r].key)

-----------------------------------------------------------------------------
Init ==
  /\ ledger = {}
  /\ lock = [c \in Clients |-> NoRequest]
  /\ pc = [r \in Requests |-> "idle"]
  /\ job = [r \in Requests |-> NoJob]
  /\ seen = [r \in Requests |-> 0]
  /\ pend = [r \in Requests |-> {}]
  /\ answer = [r \in Requests |-> NoAnswer]

At(r, label) == pc[r] = label
Goto(r, label) == pc' = [pc EXCEPT ![r] = label]
Reply(r, ans) == answer' = [answer EXCEPT ![r] = ans]

\* Mutant: pg_advisory_lock instead of pg_advisory_xact_lock.
EndTxKeepsLock(r) ==
  /\ UNCHANGED lock
  /\ pend' = [pend EXCEPT ![r] = {}]

\* COMMIT and ROLLBACK both free the advisory locks of the transaction.
EndTx(r) ==
  /\ lock' = [c \in Clients |-> IF lock[c] = r THEN NoRequest ELSE lock[c]]
  /\ pend' = [pend EXCEPT ![r] = {}]

Refused == [status |-> "refused"]

\* The handler raises: get_db rolls back and the caller gets an error.
Abort(r) ==
  /\ EndTx(r)
  /\ Goto(r, "done")
  /\ Reply(r, Refused)
  /\ UNCHANGED <<ledger, job, seen>>

\* A call arrives and passes authentication, tenancy and body validation.
Arrive(r, j) ==
  /\ At(r, "idle")
  /\ job' = [job EXCEPT ![r] = j]
  /\ Goto(r, IF j.op \in Locked THEN "lock" ELSE "insert")
  /\ UNCHANGED <<ledger, lock, seen, pend, answer>>

\* Mutant: the advisory lock forgotten.
LockIgnored(c) == TRUE

\* SELECT pg_advisory_xact_lock(client)
LockFree(c) == lock[c] = NoRequest

TakeLock(r) ==
  /\ At(r, "lock")
  /\ LockFree(job[r].client)
  /\ lock' = [lock EXCEPT ![job[r].client] = r]
  /\ Goto(r, "replay")
  /\ UNCHANGED <<ledger, job, seen, pend, answer>>

\* units <= 0 is only refused once the lock is taken (422).
RefuseUnits(r) ==
  /\ At(r, "replay") /\ job[r].op = "charge"
  /\ Abort(r)

\* Mutant: the replay of a charge answers like the replay of an adjustment.
ReplayAmountOfCall(r, x) == job[r].amount

\* A replayed charge is answered with the amount of the recorded row, a
\* replayed adjustment with the amount of the new call.
ReplayAmount(r, x) == IF job[r].op = "charge" THEN x.amount ELSE job[r].amount

Replay(r) ==
  /\ At(r, "replay")
  /\ \E x \in Recorded(job[r].client, job[r].key) :
       Reply(r, [status |-> "replay", amount |-> ReplayAmount(r, x),
                 balance |-> Balance(job[r].client)])
  /\ EndTx(r)
  /\ Goto(r, "done")
  /\ UNCHANGED <<ledger, job, seen>>

NotRecorded(r) ==
  /\ At(r, "replay")
  /\ Recorded(job[r].client, job[r].key) = {}
  /\ Goto(r, "price")
  /\ UNCHANGED <<ledger, lock, job, seen, pend, answer>>

\* The service is not in the catalogue, or has no active price (404, 503).
RefuseService(r) ==
  /\ At(r, "price") /\ job[r].op = "charge"
  /\ Abort(r)

\* 402 unless the balance covers a debit.
Covers(j, bal) == j.op \in Debits => j.amount <= bal

ReadBalance(r) ==
  /\ At(r, "price")
  /\ Covers(job[r], Balance(job[r].client))
  /\ seen' = [seen EXCEPT ![r] = Balance(job[r].client)]
  /\ Goto(r, "insert")
  /\ UNCHANGED <<ledger, lock, job, pend, answer>>

RefuseBalance(r) ==
  /\ At(r, "price")
  /\ ~Covers(job[r], Balance(job[r].client))
  /\ Abort(r)

\* Mutant: no CHECK (amount_cents > 0).
InsertAnyAmount(r) ==
  LET j == job[r] IN
  /\ At(r, "insert")
  /\ ~HeldByOther(r, j.client, j.key)
  /\ Recorded(j.client, j.key) = {}
  /\ pend' = [pend EXCEPT ![r] = {EntryOf(r)}]
  /\ Goto(r, "commit")
  /\ UNCHANGED <<ledger, lock, job, seen, answer>>

\* The CHECK (amount_cents > 0) and the unique index accept the row.
Insert(r) ==
  LET j == job[r] IN
  /\ At(r, "insert")
  /\ ~HeldByOther(r, j.client, j.key)
  /\ j.amount > 0
  /\ Recorded(j.client, j.key) = {}
  /\ pend' = [pend EXCEPT ![r] = {EntryOf(r)}]
  /\ Goto(r, "commit")
  /\ UNCHANGED <<ledger, lock, job, seen, answer>>

\* Mutant: ON CONFLICT DO NOTHING on the charge, its rowcount not looked at.
InsertConflictPosted(r) ==
  LET j == job[r] IN
  /\ At(r, "insert")
  /\ ~HeldByOther(r, j.client, j.key)
  /\ j.op \in Locked /\ Recorded(j.client, j.key) # {}
  /\ EndTx(r)
  /\ Goto(r, "done")
  /\ Reply(r, [status |-> "posted", amount |-> j.amount, balance |-> seen[r]])
  /\ UNCHANGED <<ledger, job, seen>>

\* The row breaks a constraint.  charge and adjust have no ON CONFLICT: the
\* handler raises (500).
InsertRejected(r) ==
  LET j == job[r] IN
  /\ At(r, "insert")
  /\ ~HeldByOther(r, j.client, j.key)
  /\ j.amount = 0 \/ (j.op \in Locked /\ Recorded(j.client, j.key) # {})
  /\ Abort(r)

\* ON CONFLICT DO NOTHING: the row was there, the transaction goes on.
InsertIgnored(r) ==
  LET j == job[r] IN
  /\ At(r, "insert")
  /\ j.op \notin Locked
  /\ ~HeldByOther(r, j.client, j.key)
  /\ Recorded(j.client, j.key) # {}
  /\ EndTx(r)
  /\ Goto(r, "done")
  /\ Reply(r, [status |-> "ignored"])
  /\ UNCHANGED <<ledger, job, seen>>

\* Mutant: the body reports the balance before the posting.
ReportedBefore(r) ==
  [status |-> "posted", amount |-> job[r].amount, balance |-> seen[r]]

\* The body reports the balance read under the lock, not the one at commit.
Reported(r) ==
  [status |-> "posted", amount |-> job[r].amount,
   balance |-> IF job[r].op \in Debits THEN seen[r] - job[r].amount
                                       ELSE seen[r] + job[r].amount]

Accrues(j) == j.op = "charge" /\ PlatformOf[j.client] # NoClient

Commit(r) ==
  /\ At(r, "commit")
  /\ ledger' = ledger \cup pend[r]
  /\ EndTx(r)
  /\ IF Accrues(job[r])
       THEN Goto(r, "accrue") /\ UNCHANGED answer
       ELSE Goto(r, "done") /\ Reply(r, Reported(r))
  /\ UNCHANGED <<job, seen>>

\* accrue_transaction: one debit to the organization that used the motor,
\* committed in a session of its own; any failure is swallowed.
AccrualOf(r) ==
  Row(AccrualId(r), PlatformOf[job[r].client], "debit", SaasPrice, AccrualKey(r))

\* Mutant: the accrual is committed before the charge it bills.
AccrueFirst(r) ==
  /\ At(r, "commit") /\ Accrues(job[r])
  /\ AccrualOf(r) \notin ledger
  /\ ledger' = ledger \cup {AccrualOf(r)}
  /\ UNCHANGED <<lock, pc, job, seen, pend, answer>>

Accrue(r) ==
  /\ At(r, "accrue")
  /\ \/ ledger' = ledger \cup {AccrualOf(r)}
     \/ UNCHANGED ledger
  /\ Goto(r, "done")
  /\ Reply(r, Reported(r))
  /\ UNCHANGED <<lock, job, seen, pend>>

\* The process or its connection dies: PostgreSQL rolls back, nobody answers.
Crash(r) ==
  /\ pc[r] \notin {"idle", "done", "crashed"}
  /\ EndTx(r)
  /\ Goto(r, "crashed")
  /\ UNCHANGED <<ledger, job, seen, answer>>

-----------------------------------------------------------------------------
Step(r) ==
  \/ TakeLock(r) \/ RefuseUnits(r) \/ Replay(r) \/ NotRecorded(r)
  \/ RefuseService(r) \/ ReadBalance(r) \/ RefuseBalance(r)
  \/ Insert(r) \/ InsertRejected(r) \/ InsertIgnored(r)
  \/ Commit(r) \/ Accrue(r)

Next ==
  \E r \in Requests :
    \/ \E j \in Jobs : Arrive(r, j)
    \/ Step(r)
    \/ Crash(r)

Spec == Init /\ [][Next]_vars

\* The event loop and PostgreSQL serve every open request; calls and crashes
\* need not happen.
FairSpec == Spec /\ \A r \in Requests : WF_vars(Step(r))
-----------------------------------------------------------------------------
(***************************************************************************)
(* Properties                                                              *)
(***************************************************************************)
Labels == {"idle", "lock", "replay", "price", "insert", "commit", "accrue",
           "done", "crashed"}

RowType ==
  [id : Requests \X {"entry", "accrual"}, client : Clients,
   kind : {"credit", "debit"}, amount : Nat \ {0},
   key : Keys \cup {NoKey} \cup {AccrualKey(r) : r \in Requests}]

AnswerType ==
  {NoAnswer, Refused, [status |-> "ignored"]}
    \cup [status : {"posted", "replay"}, amount : Nat, balance : Int]

\* Every variable stays in its type; a request has a job once it has arrived.
TypeOK ==
  /\ ledger \subseteq RowType
  /\ lock \in [Clients -> Requests \cup {NoRequest}]
  /\ pc \in [Requests -> Labels]
  /\ job \in [Requests -> Jobs \cup {NoJob}]
  /\ \A r \in Requests : pc[r] # "idle" => job[r] \in Jobs
  /\ seen \in [Requests -> Int]
  /\ pend \in [Requests -> SUBSET RowType]
  /\ answer \in [Requests -> AnswerType]

\* Concurrent charges, adjustments and credits never take the wallet of a
\* prepaid client below zero, although the balance is read in one statement
\* and the debit inserted in a later one.
NoOverdraft == \A c \in Customers : Balance(c) >= 0

\* At most one committed row per client and idempotency key, whichever
\* writers race for the key, locked or not.
KeyOnce ==
  \A x, y \in ledger :
    x.client = y.client /\ x.key = y.key /\ x.key # NoKey => x = y

\* Two charges of a client with the same key, however they interleave, are
\* never both booked, and when the first booked a charge its retry is
\* answered with the amount the first was charged.
RetriedChargeAnswersAlike ==
  \A r, s \in Requests :
    LET a == answer[r]
        b == answer[s]
    IN /\ r # s
       /\ job[r].op = "charge" /\ job[s].op = "charge"
       /\ job[r].client = job[s].client
       /\ job[r].key = job[s].key /\ job[r].key # NoKey
       /\ a.status = "posted" /\ b.status \in {"posted", "replay"}
       => b.status = "replay" /\ b.amount = a.amount

\* An answer tells the truth about the book: a call answered "posted" has its
\* row there with the amount it reports, a call answered with an error or
\* as ignored or replayed has left none.
AnswerMatchesLedger ==
  \A r \in Requests :
    LET entry == {x \in ledger : x.id = EntryId(r)} IN
    /\ answer[r].status = "posted" =>
         entry = {EntryOf(r)} /\ answer[r].amount = EntryOf(r).amount
    /\ answer[r].status \in {"refused", "replay", "ignored"} => entry = {}

\* An organization is debited for a motor transaction only if that charge is
\* in the book of one of its own clients.
AccrualBacked ==
  \A x \in ledger : x.id[2] = "accrual" =>
    \E y \in ledger : /\ y.id = EntryId(x.id[1]) /\ y.kind = "debit"
                      /\ PlatformOf[y.client] = x.client

\* The balance a charge or a debit adjustment reports is computed from a read
\* made before its INSERT; at its commit a prepaid client has at least that.
NeverOverstatesBalance ==
  [][\A r \in Requests :
       /\ pc[r] = "commit" /\ pc'[r] \in {"accrue", "done"}
       /\ job[r].op \in Locked /\ job[r].client \in Customers
       => Reported(r).balance <= Balance(job[r].client)']_vars

\* No request waits for ever: neither for the advisory lock nor for the
\* transaction that holds its idempotency key.
EveryRequestEnds ==
  \A r \in Requests : pc[r] = "lock" \/ pc[r] = "insert" ~> pc[r] \in {"done", "crashed"}

Open(r) == pc[r] \notin {"idle", "done", "crashed"}

Waits(r) ==
  \/ pc[r] = "lock" /\ ~LockFree(job[r].client)
  \/ pc[r] = "insert" /\ HeldByOther(r, job[r].client, job[r].key)

\* A lock is held by an open request of the client it is about, and as long as a
\* request is open one of them waits for nobody: who holds a lock may wait for a
\* key, and who holds a key is about to commit.
NobodyStuck ==
  /\ \A c \in Clients : lock[c] # NoRequest => Open(lock[c]) /\ job[lock[c]].client = c
  /\ (\E r \in Requests : Open(r)) => (\E r \in Requests : Open(r) /\ ~Waits(r))

\* The book implements the abstract wallet: each commit is one posting.
W == INSTANCE Wallet WITH
       Postpaid <- PlatformClients,
       Amounts <- {j.amount : j \in Jobs} \cup {SaasPrice},
       Keys <- Keys \cup {AccrualKey(r) : r \in Requests},
       Names <- {EntryId(r) : r \in Requests} \cup {AccrualId(r) : r \in Requests},
       balance <- [c \in Clients |-> Balance(c)],
       posted <- {[client |-> x.client, key |-> x.key, name |-> x.id] : x \in ledger}

ImplementsWallet == W!Spec
-----------------------------------------------------------------------------
(***************************************************************************)
(* The inductive invariant behind NoOverdraft and KeyOnce.  NoOverdraft is *)
(* not inductive: a debit is checked at ReadBalance and booked at Commit,  *)
(* and what keeps the check valid in between is that every debit of a      *)
(* customer holds that customer's lock.                                    *)
(***************************************************************************)
HoldsLock(r) ==
  \/ pc[r] \in {"replay", "price"}
  \/ pc[r] \in {"insert", "commit"} /\ job[r].op \in Locked

LockInv ==
  \A r \in Requests :
    /\ HoldsLock(r) => lock[job[r].client] = r
    /\ pc[r] \in {"lock", "replay", "price"} => job[r].op \in Locked

PendInv ==
  \A r \in Requests :
    /\ pend[r] = IF pc[r] = "commit" THEN {EntryOf(r)} ELSE {}
    /\ pc[r] = "commit" => job[r].amount > 0
    /\ pc[r] = "accrue" => Accrues(job[r])

FreshInv ==
  /\ IsFiniteSet(Cents(ledger))
  /\ \A x \in ledger, r \in Requests :
       /\ x.id = EntryId(r) => pc[r] \in {"accrue", "done", "crashed"}
       /\ x.id = AccrualId(r) => pc[r] = "done"
       /\ x.key = AccrualKey(r) => x.id = AccrualId(r)

CoverInv ==
  \A r \in Requests :
    /\ pc[r] \in {"insert", "commit"}
    /\ job[r].op \in Locked /\ job[r].client \in Customers
    => /\ seen[r] <= Balance(job[r].client)
       /\ job[r].op \in Debits => job[r].amount <= seen[r]

KeyInv ==
  \A r \in Requests : pc[r] = "commit" =>
    /\ Recorded(job[r].client, job[r].key) = {}
    /\ \A s \in Requests \ {r} :
         pc[s] = "commit" => \/ job[s].client # job[r].client
                            \/ job[s].key # job[r].key
                            \/ job[s].key = NoKey

IInv ==
  /\ TypeOK /\ LockInv /\ PendInv /\ FreshInv /\ CoverInv /\ KeyInv
  /\ NoOverdraft /\ KeyOnce
=============================================================================
