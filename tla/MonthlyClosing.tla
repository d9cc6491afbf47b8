---------------------------- MODULE MonthlyClosing ----------------------------
(***************************************************************************)
(* The monthly closing of one period: run_monthly_closing bills every      *)
(* active subscription in one READ COMMITTED transaction.  It is run by a  *)
(* cron worker and by a button of the admin panel, so runs may overlap or  *)
(* follow each other.  An error of one subscription is caught and the next *)
(* one is tried in the same transaction, without a savepoint.              *)
(*                                                                         *)
(* The Medidor and message services and Finanzas-Core are external; a      *)
(* failure of theirs is swallowed.  The subscriptions active at the start, *)
(* the promotions in force and the prices do not change during the period. *)
(*                                                                         *)
(* The onboarding of clients by the applications counts uses in the same   *)
(* rows of promotions, and enters no redemption; of it this module has     *)
(* that UPDATE and its end (Onboarding has the rest).                      *)
(***************************************************************************)
EXTENDS Integers, FiniteSets, Sequences

CONSTANTS
  Runs,       \* executions of run_monthly_closing for the period
  Subs,       \* active subscriptions of active clients
  NoSub,
  Fee,        \* monthly fee of the plan of a subscription
  Usage,      \* priced consumption and messages of the period
  Promos,     \* active seasonal and volume promotions of the period
  MaxUses,    \* their max_uses
  MinAmount,  \* their min_amount_cents
  Pct,        \* their discount_pct, or NoPct
  Cents,      \* their discount_cents
  Shared,     \* those an onboarding may name by their code too
  MaxBonuses, \* bound: uses of each that onboardings commit
  MaxFaults   \* bound: failures in a behaviour

NoPct == -1

ASSUME ClosingAssumption ==
  /\ NoSub \notin Subs
  /\ Fee \in [Subs -> Nat] /\ Usage \in [Subs -> Nat]
  /\ IsFiniteSet(Promos)
  /\ MaxUses \in [Promos -> Nat] /\ MinAmount \in [Promos -> Nat]
  /\ Pct \in [Promos -> 0 .. 100 \cup {NoPct}] /\ Cents \in [Promos -> Nat]
  \* an onboarding looks for discount_pct IS NOT NULL
  /\ Shared \subseteq {p \in Promos : Pct[p] # NoPct}
  /\ MaxBonuses \in Nat /\ MaxFaults \in Nat

VARIABLES
  pc,           \* next statement of each run
  todo,         \* subscriptions it has not come to
  sub, subtotal, left, discount, \* the one it bills: amount, promotions still to apply
  tx,           \* what its open transaction has written
  report,       \* subscriptions its summary counts as invoiced
  errors,       \* subscriptions its summary lists with an error
  invoices,     \* committed rows of invoices
  uses,         \* committed promotions.uses_count
  redemptions,  \* committed rows of promotion_redemptions
  entries,      \* invoices with an entry in Finanzas-Core
  counting,     \* promotions whose row an open onboarding has updated
  elsewhere,    \* uses that onboardings have committed
  late,         \* history: promotions counted so while a run had them selected
  met,          \* history: pairs of runs that were open at the same time
  faults

local == <<sub, subtotal, left, discount>>
work == <<todo, local>>
summary == <<report, errors>>
book == <<invoices, uses, redemptions>>
onboarding == <<counting, elsewhere, late>>
vars == <<pc, work, tx, summary, book, entries, onboarding, met, faults>>

\* wrote: promotions.uses_count as this transaction has updated it; the row
\* stays locked.  broken: a statement failed, what was written is undone and
\* the locks are gone.
NotWritten == -1
CleanTx == [invoices |-> {}, redeemed |-> {}, wrote |-> [p \in Promos |-> NotWritten],
            broken |-> FALSE]
BrokenTx == [CleanTx EXCEPT !.broken = TRUE]

Init ==
  /\ pc = [r \in Runs |-> "idle"]
  /\ todo = [r \in Runs |-> {}]
  /\ sub = [r \in Runs |-> NoSub]
  /\ subtotal = [r \in Runs |-> 0]
  /\ left = [r \in Runs |-> <<>>]
  /\ discount = [r \in Runs |-> 0]
  /\ tx = [r \in Runs |-> CleanTx]
  /\ report = [r \in Runs |-> {}] /\ errors = [r \in Runs |-> {}]
  /\ invoices = {} /\ redemptions = {} /\ entries = {}
  /\ uses = [p \in Promos |-> 0]
  /\ counting = {} /\ elsewhere = [p \in Promos |-> 0] /\ late = {}
  /\ met = {} /\ faults = 0

Open(r) == pc[r] \notin {"idle", "done", "lost"}

Step(r, from, to) ==
  /\ pc[r] = from
  /\ pc' = [pc EXCEPT ![r] = to]

Fault ==
  /\ faults < MaxFaults
  /\ faults' = faults + 1

\* _close_one_subscription returns, or its exception is caught.
Forget(r) ==
  /\ sub' = [sub EXCEPT ![r] = NoSub]
  /\ subtotal' = [subtotal EXCEPT ![r] = 0]
  /\ left' = [left EXCEPT ![r] = <<>>]
  /\ discount' = [discount EXCEPT ![r] = 0]

-----------------------------------------------------------------------------
\* The subscriptions are read, and the loop begins.
Start(r) ==
  /\ Step(r, "idle", "next")
  /\ todo' = [todo EXCEPT ![r] = Subs]
  /\ met' = met \cup {{r, v} : v \in {u \in Runs : Open(u)}}
  /\ UNCHANGED <<local, tx, summary, book, entries, onboarding, faults>>

\* An invoice as the ledger of the period tells them apart; its number comes
\* from a sequence, so no two runs use the same.
InvoiceOf(r, s, amount, off) == [run |-> r, sub |-> s, subtotal |-> amount, discount |-> off]

\* Mutant: the look-up sees no invoice at all.
ExistingNever(r, s) == FALSE

\* Mutant: READ UNCOMMITTED, the look-up sees rows of open transactions.
ExistingUncommitted(r, s) ==
  \E i \in invoices \cup UNION {tx[v].invoices : v \in Runs} : i.sub = s

\* SELECT id FROM invoices: committed rows and the transaction's own.
Existing(r, s) == \E i \in invoices \cup tx[r].invoices : i.sub = s

\* The next subscription: it has an invoice, or its consumption is read.
Take(r, s) ==
  /\ s \in todo[r]
  /\ ~tx[r].broken
  /\ Step(r, "next", IF Existing(r, s) THEN "next" ELSE "price")
  /\ todo' = [todo EXCEPT ![r] = @ \ {s}]
  /\ sub' = [sub EXCEPT ![r] = IF Existing(r, s) THEN NoSub ELSE s]
  /\ UNCHANGED <<subtotal, left, discount, tx, summary, book, entries, onboarding, met,
                 faults>>

\* In an aborted transaction the look-up fails: the error is listed.
TakeBroken(r, s) ==
  /\ s \in todo[r]
  /\ tx[r].broken
  /\ Step(r, "next", "next")
  /\ todo' = [todo EXCEPT ![r] = @ \ {s}]
  /\ errors' = [errors EXCEPT ![r] = @ \cup {s}]
  /\ UNCHANGED <<local, tx, report, book, entries, onboarding, met,
                 faults>>

\* Fee and consumption; a service that fails counts as no consumption.
Amounts(s) == {Fee[s], Fee[s] + Usage[s]}

Price(r) ==
  /\ Step(r, "price", "select")
  /\ \E amount \in Amounts(sub[r]) : subtotal' = [subtotal EXCEPT ![r] = amount]
  /\ UNCHANGED <<todo, sub, left, discount, tx, summary, book, entries, onboarding, met,
                 faults>>

\* No item: a free plan without consumption (items of zero cents are billed).
NothingToBill(r) ==
  /\ Step(r, "price", "next")
  /\ 0 \in Amounts(sub[r])
  /\ Forget(r)
  /\ UNCHANGED <<todo, tx, summary, book, entries, onboarding, met,
                 faults>>

\* uses_count as a transaction sees it.
UsesSeen(r, p) == IF tx[r].wrote[p] = NotWritten THEN uses[p] ELSE tx[r].wrote[p]

\* Mutant: the limit is left out of the WHERE clause.
EligibleUnlimited(r, p) == MinAmount[p] <= subtotal[r]

Eligible(r, p) ==
  /\ UsesSeen(r, p) < MaxUses[p]
  /\ MinAmount[p] <= subtotal[r]

Orders(S) ==
  {f \in [1 .. Cardinality(S) -> S] : \A i, j \in DOMAIN f : f[i] = f[j] => i = j}

\* apply_promotions: the SELECT has no ORDER BY (nor is it made for 0 cents,
\* where no promotion is used either).
SelectPromos(r) ==
  /\ Step(r, "select", "promos")
  /\ \E f \in Orders({p \in Promos : Eligible(r, p)}) : left' = [left EXCEPT ![r] = f]
  /\ UNCHANGED <<todo, sub, subtotal, discount, tx, summary, book, entries, onboarding, met,
                 faults>>

Holds(r, p) == tx[r].wrote[p] # NotWritten

\* Mutant: the new count is written without waiting for the row.
PromoShared(r, p) == TRUE

\* UPDATE waits for the transactions that updated the row.
PromoFree(r, p) == p \notin counting /\ \A v \in Runs \ {r} : ~Holds(v, p)

\* What the discounts so far leave of the subtotal.
Remaining(r) == IF discount[r] < subtotal[r] THEN subtotal[r] - discount[r] ELSE 0

Smaller(a, b) == IF a < b THEN a ELSE b

\* _calc_discount: a percentage, rounded half to even, or an amount.
Hundredth(n) ==
  LET q == n \div 100
      m == n % 100
  IN IF m > 50 \/ (m = 50 /\ q % 2 = 1) THEN q + 1 ELSE q

CalcDiscount(p, base) == IF Pct[p] # NoPct THEN Hundredth(base * Pct[p]) ELSE Cents[p]

NextPromo(r) == pc[r] = "promos" /\ left[r] # <<>> /\ Remaining(r) > 0

\* What the next promotion takes off.
Off(r) == CalcDiscount(Head(left[r]), Remaining(r))

\* A promotion that takes nothing off is passed over.
PassPromo(r) ==
  /\ NextPromo(r) /\ Off(r) = 0
  /\ left' = [left EXCEPT ![r] = Tail(@)]
  /\ UNCHANGED <<pc, todo, sub, subtotal, discount, tx, summary, book, entries, onboarding, met,
                 faults>>

\* The UPDATE of uses_count, which does not look at the limit again, and the
\* redemption of the next promotion.
UsePromo(r) ==
  /\ NextPromo(r) /\ Off(r) > 0
  /\ LET p == Head(left[r]) IN
       /\ PromoFree(r, p)
       /\ tx' = [tx EXCEPT
                   ![r].wrote[p] = UsesSeen(r, p) + 1,
                   ![r].redeemed = @ \cup {[run |-> r, sub |-> sub[r], promo |-> p]}]
       /\ discount' = [discount EXCEPT ![r] = @ + Off(r)]
  /\ left' = [left EXCEPT ![r] = Tail(@)]
  /\ UNCHANGED <<pc, todo, sub, subtotal, summary, book, entries, onboarding, met,
                 faults>>

PromosDone(r) == left[r] = <<>> \/ Remaining(r) = 0

\* Mutant: the INSERT finds a conflict and is skipped, the rest is not.
InsertSkipped(r) ==
  /\ Step(r, "promos", "post")
  /\ PromosDone(r)
  /\ tx' \in {tx, [tx EXCEPT ![r].invoices =
                     @ \cup {InvoiceOf(r, sub[r], subtotal[r],
                                       Smaller(discount[r], subtotal[r]))}]}
  /\ UNCHANGED <<work, summary, book, entries, onboarding, met,
                 faults>>

\* The invoice, its items and its status pending_stamp.
Insert(r) ==
  /\ Step(r, "promos", "post")
  /\ PromosDone(r)
  /\ tx' = [tx EXCEPT ![r].invoices =
              @ \cup {InvoiceOf(r, sub[r], subtotal[r], Smaller(discount[r], subtotal[r]))}]
  /\ UNCHANGED <<work, summary, book, entries, onboarding, met,
                 faults>>

\* The debit in Finanzas-Core, best-effort; the summary counts the invoice.
PostEntry(r) ==
  /\ Step(r, "post", "next")
  /\ entries' \in {entries, entries \cup {[run |-> r, sub |-> sub[r]]}}
  /\ report' = [report EXCEPT ![r] = @ \cup {sub[r]}]
  /\ Forget(r)
  /\ UNCHANGED <<todo, tx, errors, book, onboarding, met, faults>>

-----------------------------------------------------------------------------
\* The exception of a subscription is caught: on to the next one.
Skip(r) ==
  /\ pc' = [pc EXCEPT ![r] = "next"]
  /\ Forget(r)
  /\ errors' = [errors EXCEPT ![r] = @ \cup {sub[r]}]
  /\ UNCHANGED <<todo, report, book, entries, onboarding, met>>

\* An answer of the Medidor that cannot be read: no statement has failed.
DataFails(r) ==
  /\ pc[r] = "price"
  /\ Fault
  /\ Skip(r)
  /\ UNCHANGED tx

\* Mutant: the locks are gone but what was written stays.
BreakKeepsRows(r) == tx' = [tx EXCEPT ![r].broken = TRUE]

\* What the transaction wrote is undone and its locks are released.
Break(r) == tx' = [tx EXCEPT ![r] = BrokenTx]

\* A statement fails.
SqlFails(r) ==
  /\ pc[r] \in {"price", "select", "promos"}
  /\ Fault
  /\ Break(r)
  /\ Skip(r)

Waiting(r) ==
  /\ NextPromo(r) /\ Off(r) > 0
  /\ ~PromoFree(r, Head(left[r]))

\* PostgreSQL finds runs that wait for each other and fails one of them.
Deadlocked(r) ==
  \E S \in SUBSET Runs :
    /\ r \in S
    /\ \A v \in S : Waiting(v) /\ \E u \in S \ {v} : Holds(u, Head(left[v]))

ResolveDeadlock(r) ==
  /\ Deadlocked(r)
  /\ Break(r)
  /\ Skip(r)
  /\ UNCHANGED faults

\* Mutant: the connection goes back to the pool with its transaction open.
EndRunKeepsLocks(r, how) ==
  /\ pc' = [pc EXCEPT ![r] = how]
  /\ todo' = [todo EXCEPT ![r] = {}]
  /\ Forget(r)
  /\ UNCHANGED tx

EndRun(r, how) ==
  /\ pc' = [pc EXCEPT ![r] = how]
  /\ todo' = [todo EXCEPT ![r] = {}]
  /\ Forget(r)
  /\ tx' = [tx EXCEPT ![r] = CleanTx]

\* The COMMIT after the loop; it is a ROLLBACK if a statement failed.
Commit(r) ==
  /\ pc[r] = "next" /\ todo[r] = {}
  /\ EndRun(r, IF tx[r].broken THEN "lost" ELSE "done")
  /\ invoices' = invoices \cup tx[r].invoices
  /\ redemptions' = redemptions \cup tx[r].redeemed
  /\ uses' = [p \in Promos |-> UsesSeen(r, p)]
  /\ UNCHANGED <<summary, entries, onboarding, met,
                 faults>>

\* The process or its connection dies.
Crash(r) ==
  /\ Open(r)
  /\ Fault
  /\ EndRun(r, "lost")
  /\ UNCHANGED <<summary, book, entries, onboarding, met>>

-----------------------------------------------------------------------------
(***************************************************************************)
(* The onboarding of a client with the code of a shared promotion          *)
(***************************************************************************)
\* The conditional UPDATE waits for the row and judges what it then finds.
CountUse(p) ==
  /\ p \in Shared \ counting
  /\ \A r \in Runs : ~Holds(r, p)
  /\ uses[p] < MaxUses[p]
  /\ elsewhere[p] < MaxBonuses
  /\ counting' = counting \cup {p}
  /\ UNCHANGED <<pc, work, tx, summary, book, entries, elsewhere, late, met, faults>>

Selected(r, p) == pc[r] = "promos" /\ \E k \in 1 .. Len(left[r]) : left[r][k] = p

\* The COMMIT of the onboarding.
CommitUse(p) ==
  /\ p \in counting
  /\ counting' = counting \ {p}
  /\ uses' = [uses EXCEPT ![p] = @ + 1]
  /\ elsewhere' = [elsewhere EXCEPT ![p] = @ + 1]
  /\ late' = IF \E r \in Runs : Selected(r, p) THEN late \cup {p} ELSE late
  /\ UNCHANGED <<pc, work, tx, summary, invoices, redemptions, entries, met, faults>>

\* The onboarding fails or dies: ROLLBACK.
DropUse(p) ==
  /\ p \in counting
  /\ Fault
  /\ counting' = counting \ {p}
  /\ UNCHANGED <<pc, work, tx, summary, book, entries, elsewhere, late, met>>

-----------------------------------------------------------------------------
Work(r) ==
  \/ \E s \in Subs : Take(r, s) \/ TakeBroken(r, s)
  \/ Price(r) \/ NothingToBill(r) \/ SelectPromos(r) \/ PassPromo(r)
  \/ UsePromo(r) \/ Insert(r)
  \/ PostEntry(r) \/ ResolveDeadlock(r) \/ Commit(r)

Next ==
  \/ \E r \in Runs : Start(r) \/ Work(r) \/ DataFails(r) \/ SqlFails(r) \/ Crash(r)
  \/ \E p \in Promos : CountUse(p) \/ CommitUse(p) \/ DropUse(p)

Spec == Init /\ [][Next]_vars

\* A run that was started goes on, and so does an onboarding that has counted a
\* use: it waits for no run any more (Onboarding!EveryCallEnds).  None need be
\* started and nothing fail.
FairSpec ==
  /\ Spec
  /\ \A r \in Runs : WF_vars(Work(r))
  /\ \A p \in Promos : WF_vars(CommitUse(p) \/ DropUse(p))
-----------------------------------------------------------------------------
(***************************************************************************)
(* Properties                                                              *)
(***************************************************************************)
Invoice == [run : Runs, sub : Subs, subtotal : Nat, discount : Nat]
Redemption == [run : Runs, sub : Subs, promo : Promos]
Transaction ==
  {t \in [invoices : SUBSET Invoice, redeemed : SUBSET Redemption,
          wrote : [Promos -> Nat \cup {NotWritten}], broken : BOOLEAN] :
     t.broken => t = BrokenTx}

TypeOK ==
  /\ pc \in [Runs -> {"idle", "next", "price", "select", "promos", "post", "done", "lost"}]
  /\ todo \in [Runs -> SUBSET Subs]
  /\ sub \in [Runs -> Subs \cup {NoSub}]
  /\ subtotal \in [Runs -> Nat] /\ discount \in [Runs -> Nat]
  /\ left \in [Runs -> Seq(Promos)]
  /\ tx \in [Runs -> Transaction]
  /\ report \in [Runs -> SUBSET Subs] /\ errors \in [Runs -> SUBSET Subs]
  /\ invoices \subseteq Invoice /\ redemptions \subseteq Redemption
  /\ uses \in [Promos -> Nat]
  /\ entries \subseteq [run : Runs, sub : Subs]
  /\ counting \subseteq Shared /\ elsewhere \in [Promos -> Nat] /\ late \subseteq Promos
  /\ met \subseteq SUBSET Runs
  /\ faults \in 0 .. MaxFaults

\* Closings that follow each other, however the earlier ones ended, bill a
\* subscription once: two invoices of one subscription come from two runs
\* that were open at the same time.
BilledOnceUnlessOverlapping ==
  \A i, j \in invoices : i.sub = j.sub /\ i # j => {i.run, j.run} \in met

\* Such closings keep the use limit of a promotion too, and the onboardings in
\* between, unless one of these commits its use after a closing has selected
\* the promotion and before it uses it.
LimitKeptUnlessOverlapping ==
  \A p \in Promos : uses[p] > MaxUses[p] => met # {} \/ p \in late

\* Overlapping or not, uses_count is the number of redemptions and of uses by
\* onboardings.
UsesCounted ==
  \A p \in Promos :
    uses[p] = Cardinality({x \in redemptions : x.promo = p}) + elsewhere[p]

\* A promotion is used up only by an invoice of the same run that it reduced,
\* whatever failed in between.
RedemptionsBilled ==
  \A x \in redemptions :
    \E i \in invoices : i.run = x.run /\ i.sub = x.sub /\ i.discount > 0

\* A closing that reports no error has left an invoice for each subscription
\* with a fee, its own or an earlier one, and reports its own ones.
CleanRunBillsAll ==
  \A r \in Runs :
    pc[r] = "done" /\ errors[r] = {} =>
      /\ \A s \in Subs : Fee[s] > 0 => \E i \in invoices : i.sub = s
      /\ report[r] = {i.sub : i \in {j \in invoices : j.run = r}}

\* A debit in Finanzas-Core without its invoice can come only from a run that
\* is still open or whose transaction was lost.
EntriesExplained ==
  \A e \in entries :
    pc[e.run] = "done" => \E i \in invoices : i.run = e.run /\ i.sub = e.sub

\* A closing ends, whatever it waits for: PostgreSQL breaks the deadlock of
\* runs that use promotions in different orders.
EveryRunEnds == \A r \in Runs : Open(r) ~> ~Open(r)

\* The closing as the rest of the program sees it: nothing of it shows before
\* its commit, and what the commit enters is what ClosingBook allows.
Phase(r) == IF pc[r] = "idle" THEN "new" ELSE IF Open(r) THEN "open" ELSE "over"

Book == INSTANCE ClosingBook WITH phase <- [r \in Runs |-> Phase(r)]

ImplementsBook == Book!Spec

\* Of the closings that are open one can always go on, waits for an onboarding
\* that is about to end, or is of a circle of waits that PostgreSQL breaks.
NobodyStuck ==
  (\E r \in Runs : Open(r)) =>
    \E r \in Runs :
      Open(r) /\ (Waiting(r) => Deadlocked(r) \/ Head(left[r]) \in counting)

\* The closing can be repeated: billing.py:138 "Es idempotente por periodo (no
\* duplica factura)".
OneInvoicePerPeriod == \A i, j \in invoices : i.sub = j.sub => i = j
-----------------------------------------------------------------------------
(***************************************************************************)
(* The inductive invariant.  Of each run: what it holds at each statement  *)
(* (RunInv), why a second invoice needs an overlap (OverlapInv), what its  *)
(* redemptions are for (UseInv) and why they are within the limit          *)
(* (LimitInv), what its entries and its summary speak of (EntryInv,        *)
(* SummaryInv).  Of the book: the counters behind the row locks (CountInv).*)
(***************************************************************************)
Busy(r) == pc[r] \in {"price", "select", "promos", "post"}

RunInv(r) ==
  /\ sub[r] = NoSub <=> ~Busy(r)
  /\ ~Open(r) => tx[r] = CleanTx
  /\ tx[r].broken => pc[r] = "next"
  /\ \A i \in tx[r].invoices : i.run = r
  /\ \A i, j \in tx[r].invoices : i.sub = j.sub => i = j
  /\ pc[r] \in {"price", "select", "promos"} => \A i \in tx[r].invoices : i.sub # sub[r]
  /\ pc[r] = "post" => \E i \in tx[r].invoices : i.sub = sub[r]

OverlapInv(r) ==
  \A j \in invoices :
    /\ Open(r)
    /\ j.sub = sub[r] \/ \E i \in tx[r].invoices : i.sub = j.sub
    => {j.run, r} \in met

UseInv(r) ==
  /\ \A x \in tx[r].redeemed :
       /\ x.run = r
       /\ \/ pc[r] = "promos" /\ x.sub = sub[r]
          \/ \E i \in tx[r].invoices : i.sub = x.sub /\ i.discount > 0
       /\ pc[r] = "promos" /\ x.sub = sub[r] =>
            /\ discount[r] > 0 /\ subtotal[r] > 0
            /\ \A k \in 1 .. Len(left[r]) : left[r][k] # x.promo
  /\ \A k, l \in 1 .. Len(left[r]) : left[r][k] = left[r][l] => k = l

EntryInv(r) ==
  \A e \in entries :
    e.run = r =>
      /\ pc[r] # "idle"
      /\ Open(r) /\ ~tx[r].broken => \E i \in tx[r].invoices : i.sub = e.sub

SummaryInv(r) ==
  /\ pc[r] = "idle" => report[r] = {} /\ errors[r] = {}
  /\ tx[r].broken => errors[r] # {}
  /\ Open(r) /\ errors[r] = {} =>
       /\ report[r] = {i.sub : i \in tx[r].invoices} \ {sub[r]}
       /\ \A s \in Subs \ (todo[r] \cup {sub[r]}) :
            Fee[s] > 0 => \E i \in invoices \cup tx[r].invoices : i.sub = s

LimitInv(r) ==
  met = {} =>
    /\ \A p \in Promos \ late : UsesSeen(r, p) <= MaxUses[p]
    /\ \A p \in Promos \ late : Selected(r, p) => UsesSeen(r, p) < MaxUses[p]

EachRun(r) ==
  RunInv(r) /\ OverlapInv(r) /\ UseInv(r) /\ LimitInv(r) /\ EntryInv(r) /\ SummaryInv(r)

RowInv ==
  /\ \A i \in invoices : pc[i.run] = "done"
  /\ \A x \in redemptions : pc[x.run] = "done"

MetInv == \A r, v \in Runs : r # v /\ Open(r) /\ Open(v) => {r, v} \in met

OfPromo(S, p) == {x \in S : x.promo = p}

CountInv ==
  /\ IsFiniteSet(redemptions)
  /\ \A r \in Runs : IsFiniteSet(tx[r].redeemed)
  /\ \A r \in Runs : \A p \in Promos :
       Cardinality(OfPromo(tx[r].redeemed, p))
         = IF Holds(r, p) THEN tx[r].wrote[p] - uses[p] ELSE 0
  /\ \A r, v \in Runs : \A p \in Promos : Holds(r, p) /\ Holds(v, p) => r = v
  /\ \A p \in counting : uses[p] < MaxUses[p] /\ \A r \in Runs : ~Holds(r, p)

IInv ==
  /\ TypeOK /\ RowInv /\ MetInv /\ CountInv
  /\ \A r \in Runs : EachRun(r)
  /\ BilledOnceUnlessOverlapping /\ LimitKeptUnlessOverlapping
  /\ UsesCounted /\ RedemptionsBilled
  /\ CleanRunBillsAll /\ EntriesExplained
=============================================================================
