# TLA+ models of inovaweb-admin-financiera (CAF)

The CAF keeps the prepaid book of the platform's clients, credits what they pay
at the payment hub, bills subscriptions once a month and stamps the invoices.
It is a FastAPI application over PostgreSQL; every request and every worker is
a coroutine or a process of its own, so what the code relies on is transactions
at READ COMMITTED, unique indexes, row and advisory locks, and calls to services
that may fail or be repeated. These modules model that part of the code, check
it with TLC on small instances, and prove the main results with TLAPS.

## Inventory

| Component | State | Operations | What is hard | What makes it correct |
|---|---|---|---|---|
| Prepaid ledger (`030_prepaid_ledger.sql`, `api_router.py`, `adjustments_router.py`, `saas_billing.py`) | append-only `prepaid_ledger`, view `v_client_balance`, advisory lock per client | charge, adjust, credit of a recharge, plan grant, SaaS accrual, SaaS fee | balance read before the debit is inserted; writers with and without the lock; retries with the same key; crash between commit, accrual and answer | no overdraft, a key booked once, answers that agree with the book |
| Hub recharges and webhook (`services/prepago.py`, `webhooks_router.py`, `hub_client.py`) | `payments`, `audit_log`, Finanzas-Core entries, commissions | initiate, webhook (correlate, claim, credit, post, commission) | lost, repeated and concurrent webhooks; outside effects before the commit; swallowed SQL errors; response before or after the commit | a paid intent credited once, in full, and in the end if its webhook is delivered again; commissions backed by payments |
| Monthly closing (`services/billing.py`, `workers/monthly_closing.py`) | `invoices`, `invoice_items`, Finanzas-Core entries | closing by cron and by the admin panel | overlapping runs; a failed statement aborts the shared transaction; best-effort entry before the commit | one invoice per subscription and period, a summary that is true |
| Promotions (`services/promotions.py`) | `promotions.uses_count`, `promotion_redemptions` | apply at the closing, redeem a coupon, code at onboarding | limit compared in one statement and counted in another; row locks kept until the commit | uses within `max_uses`, counted once each, each with its invoice |
| Invoice stamping (`invoicing.py`, `workers/invoice_retry.py`, `webhooks_router.py`) | `invoices.status`, `uuid_cfdi`, paths; files; CFDIs at the PAC | stamp, retry, webhook of the PAC, download | overlapping workers; PAC answer lost; the webhook faster than the run; only the 50 oldest are tried | one CFDI per invoice, a stamped invoice has its files, every invoice stamped in the end |
| Overdue notices (`workers/overdue_notifier.py`) | `audit_log` | send reminders | mails sent before their audit rows are committed, all in one COMMIT | one mail in seven days, plus one per failure |
| Clients and onboarding (`services/onboarding.py`, `api_router.py`, `admin_router.py`) | `clients`, `users`, grants, `promotions.uses_count`, referrals | onboard by app, API or panel; repeat | calls repeated while the first is open; waits for references, emails, promotions; a swallowed SQL error | one client per reference, uses that each have an owner, true answers |
| SaaS organizations (`saas_billing.py`, `orgs_router.py`, `org_admin_router.py`) | `organizations`, owners, fees in `prepaid_ledger` | create, rename, suspend, reactivate, cancel, bill a period | slug looked up, then written; two billings of a period lock rows in any order | one slug and owner each, summaries that add up to the fees |
| Tariffs and pricing (`pricing.py`, `price_catalog`, `admin_router.py`) | price rows with validity | price a quantity, change a tariff in force | a tariff replaced while another request replaces it; rounding | each unit has a tariff, quotes are its nearest cent |
| Distributors and codes (`036`, `038`, `040`, `admin_router.py`) | `distributors`, `distributor_codes`, commissions | create, edit, accrue | a code must be unique across two tables | two rows with one code come from overlapping requests only |
| Email providers (`email_providers_router.py`) | one default per scope | create, set default | two statements make a default the only one | one default per scope unless requests overlap |
| Transactions (`core/database.py`) | session | `get_db`: yield, commit or roll back | commit after the handler; before or after the response | see the modules that use it |

`PROJECT.json` lists every component with its status, and every hazard with its
line.

How they interact: charges and adjustments, the webhook, onboarding and the SaaS
fee all write `prepaid_ledger`; the webhook writes `payments`, the ledger and
commissions in one transaction and posts to Finanzas-Core from inside it; the
closing writes `invoices`, which the stamping worker takes up and the notifier
reads; closings and onboarding count uses in the same rows of `promotions` (the
module of each has the other's UPDATE of the row); charges and the
onboarding of a referred client read the catalogs the panel edits.

## Modules

### Wallet, PrepaidLedger

`Wallet` is what the book promises: credits, debits that a prepaid client's
balance covers, each a new posting, no key used twice. `posted` is the postings
so far: a second row under a used key is no step of it. `PrepaidLedger` models
`api_client_charge`, `adjust_balance`, the ledger INSERT of the webhook and of
grants, the accrual and the SaaS fee: one action per statement that can
interleave (`TakeLock`, `Replay`/`NotRecorded`, `ReadBalance`/`RefuseBalance`,
`Insert` and its two conflicts, `Commit`, `Accrue`), plus `Crash`. The rows an
open transaction has inserted are in `pend`, invisible to the others, but their
keys make other INSERTs wait (`HeldByOther`). Amounts are natural numbers and a
sum is the cardinality of a set of cents, so no recursion is needed in the
proofs. `RefuseUnits` and `RefuseService` may refuse any charge: what they look
at is not in the model.

### PaymentIntake, HubRecharge

`PaymentIntake` is the promise: a paid intent is credited at most once, in full.
`HubRecharge` models `initiate_charge` up to its commit and response, the payer,
the hub, and the webhook's statements:
`Accept`/`Reject` (`_correlate_or_reject`), `Claim`/`Replay` (the INSERT into
`payments` that waits for the unique index), `PostEntry`, `Commission`,
`Commit` and `Answer`. FastAPI commits `get_db` after the response from 0.118
on and before it in older versions, and `pyproject.toml` allows both: the constant
`ReplyFirst`. `CommissionErrors` lets the SQL of the commission fail; the
exception is swallowed, the transaction is not saved (`tx.broken`).

What the hub does with a webhook that fails is told in different ways.
`prepago.py` counts on a retry of the hub or of a worker;
`docs/modulos/hub-pasarelas.md:66` and its table of orphaned payments say that
the hub goes on whatever happens and that the CAF reconciles;
`docs/RUNBOOK.md:563` has an operator deliver the event again. There is no
worker in `src/` that asks the hub for its payments. So the hub calls once for a
payment (`FirstCall`: `Notify`, or `LoseCall` when the call does not arrive), and
any number of later calls may follow, after a failure or a 2xx (`Redeliver`), to
which nobody is obliged.

### ClosingBook, MonthlyClosing

`ClosingBook` is what the closing promises the rest of the program: a closing
begins, and ends by entering its invoices and redemptions in one step or by
entering nothing; it bills what no earlier closing billed unless the two were
open together, a redemption belongs to an invoice that it reduces, each is
counted once, and limits hold when no closings meet and nobody else counts a use
of a promotion that a closing has chosen (`late`). `MonthlyClosing` models
`run_monthly_closing` itself. One transaction per run (`tx`: invoices,
redemptions, rewritten counters), one subscription at a time: `Take` (the
look-up), `Price` or `NothingToBill`, `SelectPromos`, `UsePromo` (an UPDATE that
waits for the row, and does not look at the limit again) or `PassPromo` (a
discount that rounds to 0), `Insert`, `PostEntry`, then the next one, and
`Commit`. A failed statement (`SqlFails`, `ResolveDeadlock`) breaks the
transaction: what it wrote is undone, every later look-up fails (`TakeBroken`)
and the COMMIT is a ROLLBACK. `DataFails` is an exception that leaves the
transaction whole. Amounts are constants of the period; a discount is an amount
or a percentage, rounded as Python does (`CalcDiscount`); the tax is left out,
no property depending on it.

The UPDATE of `uses_count` by an onboarding (`api_router.py:607-621`, which does
not look at the promotion's kind) is `CountUse`, its COMMIT `CommitUse`, its
ROLLBACK `DropUse`: it waits for the row and holds it, it keeps the limit, and it
writes no redemption. `Shared` is the promotions it may name, those with a
percentage.

### Invoicing

What happens to an invoice after the closing. A run of `invoice_retry` is
`Start` (its batch), and for each invoice `Read`, `Issue` / `Refuse` /
`LoseAnswer` (the PAC), `WriteFiles` and `Update`, with `FailStore` and `Die`.
cron does not wait for the run before, so two may be alive. `PacReports` is the
webhook of the PAC: it moves only 'pending_stamp' rows and writes no paths.
`StartNotices`, `SendMail` and `CommitNotices` are one run of
`overdue_notifier` at a time, `WeekPasses` the seven days after which a reminder
is due again. What the PAC accepts is the constant `Refused`; all invoices are
old enough for a reminder, and nothing in the code makes one 'paid'. `lost` and
`overlap` are history variables: CFDIs whose answer nobody stored, and two runs
that met at one invoice.

### Enrolment, Onboarding

`Enrolment` is the promise: a call takes effect in one step or not at all; it
enters a new client under a reference and an email nobody has, or works for the
client of its reference, and grants the plan to it once. `Onboarding` models
`onboard_client` and its three callers, one action per statement that can wait
or fail: `Replay`, `InsertClient` (waits for `uq_clients_request_id`),
`Provision` (waits for the unique email; an error is compensated with an audit
row in a session of its own), `SendMail` (every error swallowed, an SQL error
leaves the transaction aborted), then for an app `ReadGrant`, `CountUse`,
`Credit`, `Refer`, and `Reply` with the commit. The commit is modelled before
the response here, the other order being the question of `HubRecharge`.
`ClosingCounts` and `ClosingEnds` are the closing in the row of the promotion: it
holds the row until its one COMMIT (`raised`) and may count a use of a promotion
that was used up after its SELECT (`late`). A bonus may be 0, of a promotion of 0%
or by rounding: the use is counted all the same, and the credit names the
promotion in its meta. Two clients must not share a reference or an RFC
(`Collides`). `001_initial_schema.sql:65` makes `rfc` UNIQUE without exception,
whereas `saas_billing.py:74` has XAXX010101000, which `api_app_onboard` gives
every client, outside of a partial index that no migration in `src/` creates;
the model follows the code that inserts it many times (`GenericRfc`). `POST
/clients` cannot build its response for a new client, whose `wallet_id` is NULL
(`Unanswerable`): the call fails after its mail. No caller passes a
`scraping_company_id`, so the link to that service is not modelled.

### Registry, Organizations

`Registry` is the promise to the operator: a create or a rename takes effect in
one step, with a slug and an owner nobody else has; a billing that ends has
debited the fee of its period to every organization that was active when it
began (`due`), to none a second time, whichever billing did it, and tells how
many it debited itself. `Organizations` models the requests. `POST /orgs` and
renames look a slug up (`CheckSlug`), write it (`WriteSlug`, which waits for the
unique index), add the owner and the platform client, and commit; the operator
suspends, reactivates and cancels at any time. A billing reads the active
organizations once (`ReadOrgs`), debits each in any order (`InsertFee`, ON
CONFLICT DO NOTHING on the key of organization and period, waiting for an open
one), commits (`CommitRun`) and reports what it inserted (`AnswerRun`); a death
between the two keeps the fees and loses the summary (`FailRun`). The other
conditions of its SELECT, a platform client with an active subscription to
`caf_saas`, hold of every organization that `POST /orgs` creates: it registers
both in its own transaction, and no statement in `src/` takes them away.
Billings that wait in a circle are broken by PostgreSQL (`ResolveDeadlock`,
external).

### Catalog

Three groups of tables the panel edits. Tariffs: `edit_precio` retires the row
in force by id and inserts the new one; `Quotes` and `Cents` are
`price_quantity` and its rounding. Codes: creations and edits of distributors
and sellers look a code up in both tables and write one. Providers: a creation
is the default if it finds none, and another default is set by two UPDATEs.
`held` is the rows a transaction has locked, `met` the requests that were open
together. `is_active` of codes and providers is left out.

## What the runs show

| Run | Instance | Result |
|---|---|---|
| `ledger` | 3 requests, 1 customer and its platform client, 2 keys, 10 calls (119 341 states) | all properties hold |
| `hub_faults` | 3 charges, 2 clients, 2 webhooks, 1 failure, response first, failing commissions (241 808 states) | all properties hold |
| `hub_delivery` | the same with the commit first and commissions that do not fail | violated: a paid recharge whose call fails or is lost is never credited |
| `hub_lost` | 2 recharges of a referred client, 1 failure | violated: an acknowledged payment is not in the book |
| `hub_plan` | 3 charges, no failure | violated: a paid plan purchase is never credited |
| `hub_commission` | 2 recharges of a referred client, no failure | violated: two commissions for one client |
| `closing` | 2 runs, 2 subscriptions, 2 promotions, one of them shared with onboardings, 1 failure (423 770 states) | all properties hold |
| `closing_twice` | the same without failures | violated: two invoices for one subscription |
| `stamping` | 3 invoices, the oldest refused, batches of 2, 2 runs, 1 failure (361 000 states) | all properties hold |
| `onboarding` | 5 calls, 2 plans, 1 promotion, a closing that uses it, 1 referral, 1 failure (332 964 states) | all properties hold |
| `organizations` | 3 creates, 1 rename, 2 billings of one period, 2 failures (149 800 states) | all properties hold |
| `catalog` | 2 price edits, 3 writes of one code, 5 requests for defaults, 1 failure (154 000 states) | all properties hold |

The five violations are disagreements between the code and its own comments and
documents; `PROJECT.json` quotes both sides under `findings`.

`ledger` checks that no interleaving overdraws a prepaid client, that a key is
booked once although only some of the writers take the lock, that two charges
with one key answer alike, that every answer agrees with the book, that an
accrual has its charge, that a reported balance is never more than the book's,
that nobody waits for ever, and that the book implements `Wallet`. An adjustment
that replays reports the amount of the new call, not of the recorded row
(`ReplayAmount`), which is why `RetriedChargeAnswersAlike` speaks of charges.

`hub_faults` runs under the weaker build: even with the response before the
commit, and with failing commissions, payments are credited at most once and only
when initiated, paid and posted in Finanzas-Core, and a recharge whose webhook is
delivered again and again is credited in the end (`RedeliveredIsCredited`, as
RUNBOOK.md tells an operator: it has the redelivery and the committed intent as
hypotheses, and promises nothing without them). `hub_delivery` takes these
hypotheses away: after the hub's one call, a failure or a loss is for good,
although hub-pasarelas.md says that the CAF reconciles.

`closing` separates what a closing can promise from what it cannot: repeated
after any failure it bills a subscription once, and keeps the limit of a
promotion unless an onboarding commits a use of it between the SELECT
(`promotions.py:31`) and the unconditional UPDATE (`promotions.py:54`), which
needs no second closing (`BilledOnceUnlessOverlapping`,
`LimitKeptUnlessOverlapping`); ADR-025 says of the onboarding that `max_uses` is
respected under concurrency, which is true of its own UPDATE only. Overlapping
or not, the closing implements `ClosingBook`, so `uses_count` is the number of
redemptions and of uses by onboardings, and a redemption has its invoice; a
summary without errors is true, a debit in Finanzas-Core without an invoice
comes from a lost or open run only, and runs that lock promotions in different
orders end. `met` and `late` are history variables: the pairs of runs that were
open together, and the promotions an onboarding counted while a run had them
selected.

`stamping` finds that an invoice has one CFDI unless two runs met at it or an
answer was lost: `stamp_invoice` guards itself only by the status it reads at
its start. A stamped invoice names the files of its own CFDI, unless the webhook
stamped it and the run that had the answer is not done, or never will be: then
it is not tried again. What is stamped stays so and keeps its CFDI and its file
(`StampedForGood`), although the UPDATE of `stamp_invoice` looks at no status:
only a lost answer or two runs that met replace it. A reminder is repeated only
after a failure. Every invoice the PAC accepts is stamped in the end if fewer
than `MAX_PER_RUN` older ones are never accepted; with as many, newer ones are
never tried, which is the hypothesis of `EveryInvoiceStamped`.

`onboarding` finds that the calls implement `Enrolment`, so that repetition is
harmless for clients and emails whatever the moment, that each use of the promotion
belongs to a credit that names it or to a closing, and that answers are true, with
exceptions that the properties name: two calls that grant one plan to one client
at the same time may both count a use for one credit, only a closing that counts
late exceeds the limit, and an SQL error swallowed with those of the mail makes a
201 of a rollback. No wait closes a circle, and a closing that holds the row of the
promotion ends.

`organizations` finds slugs and owners unique in whatever order creates and
renames write, that the summaries of the billings of a period add up to its fees
even when they overlap or deadlock (of one that dies after its commit the summary is
lost, and no other reports its fees), that all of it implements `Registry`, and
that every request ends.

`catalog` finds that a unit never is without a tariff, whoever else replaces it
and whatever fails, that every quote is the nearest cent of the tariff in force,
and that of the operators who change one row only one is told so; a referral
code in both tables, or a scope with no or with two default providers, needs
requests that were open at the same time, against which the code has no lock and
no unique index.

### Bounds

Three requests are two that race and a third that changes what they read; two
keys let a key be shared or not; amounts 1 and 2 let a balance cover one of two
debits. Two webhooks are the least that race for one payment; one failure is a
lost call, a crash at any statement, or an answer of Finanzas-Core that is lost.
Two closings overlap or follow one another; one promotion has a single use, is a
percentage that onboardings share and rounds to nothing on one cent, and the
other fits only larger subtotals, so that runs lock them in different orders;
`MaxBonuses` bounds the uses of onboardings, one of which is the limit. The
failure may hit a run or an onboarding. Most behaviours end when their requests
or charges are used up: some of the modules then stutter, the others have
CHECK_DEADLOCK FALSE.

`Invoicing`: an invoice the PAC refuses stands before two it accepts, so that
batches of two always hold it and the last invoice waits for its place; one
failure is a lost answer, a death, an audit row that fails or a mail that fails.
`Onboarding`: three calls with one reference, of two plans and two emails, the
bonus of one plan being 0, and one call each of the API and the panel with one RFC
and those emails; one promotion of two uses, which the calls and a closing ask for
(`ClosingUses` bounds the latter). `Organizations`: two creates share a slug,
two an owner, and the rename wants the slug of the first two. `Catalog`: the
bound `Workloads` names the sets of requests that run together, one set for each
group of tables and one that mixes them, since the groups share nothing but the
failures.

### Fairness

`PrepaidLedger` and `MonthlyClosing` assume weak fairness of each request's or
run's own steps: the event loop and PostgreSQL serve an open request, and
PostgreSQL breaks a deadlock; in `MonthlyClosing` also of the end of an
onboarding that holds a promotion, which waits for no run any more.
`HubRecharge` assumes it of webhooks and of the requests that initiate charges,
and strong fairness of the one call the hub makes for a payment, whenever the
server has room for it; of its being made again nothing is assumed.
`RedeliveredIsCredited` has infinitely many redeliveries as its own hypothesis.
`Onboarding` and `Organizations` assume weak fairness of each open request and
billing, for the same reason as the ledger, `Onboarding` also that a closing
ends, which is `EveryRunEnds` of `MonthlyClosing` (the two assumptions do not
rest on each other: an onboarding that holds the promotion's row waits for other
onboardings only), and `Invoicing` of each place for a run: cron starts the
worker again and again, and a run goes on. Its failures are bounded, which is
what "in the end" means there. `Catalog` states only safety. No payer, no caller
and no failure is ever obliged to act.

## What is proved

`PrepaidLedgerProofs`, for any requests, clients, keys, prices and calls that
meet the module's assumptions:

* `TypeCorrect`, `NoOverdraftAlways`, `KeyOnceAlways`, `NeverOverstates`, and
  `Refinement`: `Spec => ImplementsWallet`.
* The argument is one inductive invariant, `IInv`. `NoOverdraft` is not inductive:
  the debit is checked at `ReadBalance` and booked at `Commit`. `LockInv` says who
  holds the advisory lock at which statement, `CoverInv` that the balance read is
  still a lower bound of the balance (only holders of the lock debit a customer;
  others can only raise it), `KeyInv` that two open transactions never hold the
  same key, `FreshInv` that a row to come is not there yet and the book is
  finite. Lemmas about cents (`TotalAdd`, `BalanceAfterRow`) rest on the
  library's facts about cardinality.

`PrepaidLedgerAnswersProofs`, under the same assumptions:

* `AnswersTrue`, `AccrualsBacked` and `RetriesAnsweredAlike`, from a second
  invariant on top of `IInv`, `BookInv`: of every row of the book, the request
  that wrote it (for an accrual, a charge whose own row is in the book), and of
  every answer, the row it is about, or that there is none.
* `LocksGivenBack` (`NobodyStuck`): a lock is held by an open request of its
  client, and one of the open requests waits for nobody.

`HubRechargeProofs`, for any charges, clients, webhooks and number of failures,
and both orders of commit and response:

* `TypeCorrect`, `ReplayAlwaysRight`, `BooksAgree` (`CreditsAccounted`: what is
  credited is posted, what is paid in commissions is backed by a payment), and
  `Refinement`: `Spec => ImplementsIntake`.
* `HookInv` says what a webhook's transaction holds at each statement, `ClaimInv`
  that an open claim is the only one on its payment and that the payment is not
  booked yet. This is what makes `Commit` a `Credit` of the abstract module.
* Three theorems say how far the findings reach. `AckedAfterCommit`: with the
  commit before the response and a commission that cannot fail, an acknowledged
  payment is in the book, so a response before the commit and an SQL error of
  the commission (`hub_lost`) are the only two causes of a loss (`ReplyInv`).
  `OneCommissionInTurn`: with one webhook at a time a client earns its referrer
  one commission, so the overlap of `hub_commission` is needed (`FirstInv`).
  `PlansNeverCredited` has no hypothesis: no paid plan is credited in any
  behaviour, which makes `hub_plan` a fact of every instance.
* `SomeoneGoesOn` (`NobodyStuck`): the INSERT of a webhook waits only for one that
  is past its own, so whoever holds a row waits for nobody.

`MonthlyClosingProofs`, for any runs, subscriptions, prices, promotions (a finite
set) and number of failures:

* `TypeCorrect`, `BilledOnce`, `LimitKept`, `UsesAccounted`,
  `RedemptionsAccounted`, `ReportedIsBilled`, `EntriesBacked`: every safety
  property of the run `closing`.
* None of them is inductive: they speak of committed rows, and a run decides
  long before it commits. `EachRun` says of every run what its transaction holds
  at each statement: `OverlapInv` that it bills a subscription that has a
  committed invoice only if the run of that invoice was open with it; `LimitInv`
  that without an overlap the promotions it selected are still below their
  limit, those that an onboarding counted meanwhile (`late`) excepted; `UseInv`
  that a redemption belongs to the invoice being built or to one of the
  transaction; `EntryInv` and `SummaryInv` what was posted and reported.
  `CountInv` counts the redemptions of an open transaction by the difference
  between the count it wrote and the committed one, which no other run can
  change while it holds the row, nor an onboarding. `LocalStep` reduces an
  action of a run to the part about that run; `CommitIInv` is the one step that
  moves rows to the book.
* `Refinement`: `Spec => ImplementsBook`. All steps but `Start`, the end of a
  run and `Commit` are stutters (`BookStutters`); `CommitBook` shows that what a
  commit enters is what `Close` allows, from `OverlapInv`, `UseInv`, `CountInv`
  and `LimitInv`; the COMMIT of an onboarding is `CountElsewhere`.
  `UsesAccounted` and `RedemptionsAccounted` state what follows of the counters
  as invariants.
* `SomeoneGoesOn` (`NobodyStuck`): when every open run waits, one of them waits for
  an onboarding, which goes on, or they wait in a circle, which `ResolveDeadlock`
  breaks.

`InvoicingProofs`, for any finite set of invoices, any runs, batches and number
of failures:

* `TypeCorrect`, `OneCfdi`, `FilesOfStamped`, `NoticesPaidFor`: every safety
  property of the run `stamping`.
* `RunInv` says what a run holds at each statement; `CfdiInv` that each CFDI is
  in one hand, lost, or the one of a stamped invoice; `MeetInv` that without an
  overlap two runs past `Read` have different invoices, and one that has not
  stored its CFDI works on an invoice without another; `DeskInv` that a mail
  not yet recorded was paid for with a failure or is in the open transaction.
  `MinInSet` makes `Current` an element of the batch.
* `StampIsForGood` (`StampedForGood`, an action property): `Kept` says of one
  invoice what a step leaves of it, and `UpdateKeeps` that the run which
  overwrites a stamped row met another or follows a lost answer.

`OnboardingProofs`, for any calls, plans, promotions and number of failures:

* `TypeCorrect`, `OneClient`, `UsesAccounted` (`PromotionCounted`),
  `AnswersAreTrue`: every safety property of the run `onboarding`.
* `Control` says what each call's transaction holds at each statement, `Apart`
  that two clients, committed or still in an open transaction, never have one
  reference, RFC or email; `GrantInv` what a grant of the ledger and a told
  credit have to do with each other; `UseInv` that one open transaction at most,
  of a call or of the closing, has counted a use, and counts uses against the
  credits that name the promotion by cardinality, which is where `overlap` and
  `late` enter.
* `Refinement`: `Spec => ImplementsEnrolment`. Every statement before the end of
  a call is a stutter (or raises `crossed`), a rollback is `Fail`, a commit is
  `Enrol`; `WorkInv` says for which client a call works. `OneClient` is a
  consequence that is proved from `Apart` as well.
* `NoCircleOfWaits` (`WaitsInOrder`): a call waits only for calls that are at a
  later statement, so the one at the latest waits for no other; for a closing it
  waits at most until that ends.

`OrganizationsProofs`, for any creates, renames, billings and number of
failures:

* `TypeCorrect` and `OneSlugEach` (`SlugsUnique`), from `CallInv` (what an open
  create or rename has claimed is nobody else's, committed or open) and
  `BillInv`.
* `SummariesAddUp` (`ReportsMatchFees`): the sum of the summaries is the
  cardinality of a set of units, one per fee or cent and run (`UnitsOf`), not a
  fold, so it grows by one run when that run commits (`UnitsAdd`). `SumInv` keeps
  for each open billing the fees it has inserted next to what it will report.
* `Refinement`: `Spec => ImplementsRegistry`. What is inserted is no step until
  its commit. `CommitRegisters` has from `CallInv` that nobody else holds the slug
  or the owner; `InsertRegisters` that a conflict changes nothing that is due,
  for the fee was there already; `BillRegisters`, from `OpenSums`, that what a
  billing commits is all that was due to it and no other has committed, so the
  others of the period have that much less due. A summary is told after the commit
  or lost with its billing (`Tell` and `Lose` of `Registry`).
* `SomeoneGoesOn` (`NobodyStuck`): of the open creates and renames one is free,
  and of the open billings one goes on or is of a circle.

`CatalogProofs`, for any requests, workloads and number of failures:

* `TypeCorrect`, `TariffAlwaysInForce`, `CodesUnique`, `OneDefault`: every
  property of the run `catalog`. `PriceInv`, `CodeInv` and `MailInv` speak of
  one group of tables each, and a request of one group leaves the others alone,
  so each action is looked at once. For codes and providers the case is who was
  `Alone`: of two requests that were never open together one saw what the other
  committed. The lemma `Rounding` states `_micros_to_cents` for every amount.
* `SomeoneGoesOn` (`NobodyStuck`): only `set_default_provider` locks rows in two
  statements, so a request that cannot go on waits for such a one, or is of a
  circle of them that PostgreSQL breaks.

Every safety property, action property and refinement of the passing runs is
stated by one of these theorems. Some theorems state more than a run checks:
`KeyOnce`, `UsesCounted`, `RedemptionsBilled` and `OneClientPerReference` are
what the refinements that `ledger`, `closing` and `onboarding` check imply, and
the `NobodyStuck` properties and `WaitsInOrder`, checked with TLC when they were
stated, are the safe part of the liveness properties: that at no time everyone
waits.

Left to TLC: the liveness properties themselves (`EveryRequestEnds` of two
modules, `RedeliveredIsCredited`, `EveryRunEnds`, `EveryInvoiceStamped`,
`EveryCallEnds`), because the prover does not reason about fairness and ENABLED.
The five violations are counterexamples of TLC.

## Not modelled

* The payment of commissions (two UPDATEs conditional on 'pending'), the
  suspension, reactivation and cancellation of a client, `register_manual_payment`,
  and the edits of services, products, plans, plan items and promotions: single
  conditional statements behind unique constraints. `redeem_coupon` has no
  caller.
* The branch of the hub's webhook that pays an invoice: its ON CONFLICT matches
  no unique index (the one on `hub_payment_id` is partial), so it always ends in
  an error and a rollback.
* Users, login, tokens and security settings: cryptography and sessions by a
  library, apart from the money. Reports, pages, templates and configuration:
  queries and output without changes of state.
* The retries inside the HTTP clients: a call is one step that may fail before
  or after it took effect, which includes what a retry does.
* `scripts/sync_consumption.py`: it keeps no state here, its repetition rests on
  the keys of the Medidor and of Finanzas-Core.
* `app/routers/prepago.py` (a copy nothing imports) and `app.bak-*`: dead
  code. With the panel's pages and its CRUD these are most of the lines that
  no definition names.
