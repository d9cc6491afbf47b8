---------------------------- MODULE Organizations ----------------------------
(***************************************************************************)
(* The organizations that use the platform and their monthly fee: the      *)
(* operator creates, renames, suspends, reactivates and cancels them       *)
(* (POST /orgs, /orgs/{id}...), and run-monthly-billing debits the fee of a *)
(* period in prepaid_ledger to the platform client of each active one.     *)
(* Requests overlap: the button of the billing may be pressed twice.  Each *)
(* request is one READ COMMITTED transaction.                              *)
(*                                                                         *)
(* An organization is named after the call that creates it; the one of the *)
(* platform itself is left out.                                            *)
(***************************************************************************)
EXTENDS Integers, FiniteSets

CONSTANTS
  Creates,   \* calls of POST /orgs
  Edits,     \* calls of PATCH /orgs/{id} with a slug
  TargetOf,  \* the organization an edit renames
  SlugOf,    \* the slug in the body of a create or an edit
  EmailOf,   \* owner_email of a create
  Runs,      \* calls of run-monthly-billing
  PeriodOf,  \* their period
  Fee,       \* monthly_fee_cents of the plan caf_saas
  NoSlug,
  MaxFaults  \* bound: failures in a behaviour

Calls == Creates \cup Edits
Orgs == Creates
Slugs == {SlugOf[c] : c \in Calls}
Periods == {PeriodOf[r] : r \in Runs}

ASSUME CallsAssumption ==
  /\ Creates \cap Edits = {}
  /\ TargetOf \in [Edits -> Creates]
  /\ DOMAIN SlugOf = Calls /\ DOMAIN EmailOf = Creates /\ NoSlug \notin Slugs

ASSUME RunsAssumption ==
  DOMAIN PeriodOf = Runs /\ Fee \in Nat \ {0} /\ MaxFaults \in Nat

VARIABLES
  status,  \* committed organizations.status, "none" before the INSERT
  slug,    \* committed organizations.slug
  pc,      \* next statement of each create and edit
  claim,   \* the slug its open transaction has written, and so locked
  owner,   \* creates whose open or committed transaction has the owner's user
  fees,    \* committed debits of source 'saas_fee': <<organization, period>>
  run,     \* of each billing: next statement, organizations left, debits of
           \* its open transaction, and the summary it adds up
  faults

calls == <<status, slug, pc, claim, owner>>
billing == <<fees, run>>
vars == <<calls, billing, faults>>

NewRun == [pc |-> "read", left |-> {}, debits |-> {}, billed |-> 0, cents |-> 0]

Init ==
  /\ status = [o \in Orgs |-> "none"] /\ slug = [o \in Orgs |-> NoSlug]
  /\ pc = [c \in Calls |-> "check"] /\ claim = [c \in Calls |-> NoSlug]
  /\ owner = {} /\ fees = {}
  /\ run = [r \in Runs |-> NewRun]
  /\ faults = 0

Fault ==
  /\ faults < MaxFaults
  /\ faults' = faults + 1

Exists(o) == status[o] # "none"
Open(c) == claim[c] # NoSlug

-----------------------------------------------------------------------------
(***************************************************************************)
(* create_org and update_org                                               *)
(***************************************************************************)
Step(c, from, to) ==
  /\ pc[c] = from
  /\ pc' = [pc EXCEPT ![c] = to]

\* A 4xx or 5xx: rollback.
Refuse(c) ==
  /\ pc' = [pc EXCEPT ![c] = "refused"]
  /\ claim' = [claim EXCEPT ![c] = NoSlug]
  /\ owner' = owner \ {c}
  /\ UNCHANGED <<status, slug>>

\* The open calls that the next statement of c waits for: the INSERT or the
\* UPDATE for one that has written the slug, the UPDATE also for one that has
\* the row, the INSERT of the owner for one with the email.
WaitsFor(c, d) ==
  \/ /\ pc[c] = "write" /\ d # c /\ Open(d)
     /\ claim[d] = SlugOf[c] \/ (c \in Edits /\ d \in Edits /\ TargetOf[d] = TargetOf[c])
  \/ pc[c] = "owner" /\ d \in owner /\ pc[d] # "done" /\ EmailOf[d] = EmailOf[c]

Free(c) == \A d \in Calls : ~WaitsFor(c, d)

\* The organization of a slug, other than the one the call is about.
Clash(c) ==
  \E o \in Orgs : /\ Exists(o) /\ slug[o] = SlugOf[c]
                  /\ c \in Edits => o # TargetOf[c]

\* The SELECT of the slug.
CheckSlug(c) ==
  /\ pc[c] = "check"
  /\ IF Clash(c) THEN Refuse(c)
                 ELSE Step(c, "check", "write") /\ UNCHANGED <<status, slug, claim, owner>>
  /\ UNCHANGED <<billing, faults>>

\* Mutant: there is no unique index on the slug, only the SELECT.
UniqueChecked(c) == FALSE

\* The unique index on the slug, once no open transaction has written it.
Unique(c) == Clash(c)

\* An edit of no row is a 404.
WriteSlug(c) ==
  /\ pc[c] = "write" /\ Free(c)
  /\ IF Unique(c) \/ (c \in Edits /\ ~Exists(TargetOf[c]))
       THEN Refuse(c)
       ELSE /\ Step(c, "write", IF c \in Creates THEN "owner" ELSE "commit")
            /\ claim' = [claim EXCEPT ![c] = SlugOf[c]]
            /\ UNCHANGED <<status, slug, owner>>
  /\ UNCHANGED <<billing, faults>>

\* The user of the owner, with its unique email, and its role.
InsertOwner(c) ==
  /\ pc[c] = "owner" /\ Free(c)
  /\ IF \E d \in owner : EmailOf[d] = EmailOf[c]
       THEN Refuse(c)
       ELSE /\ Step(c, "owner", "platform")
            /\ owner' = owner \cup {c}
            /\ UNCHANGED <<status, slug, claim>>
  /\ UNCHANGED <<billing, faults>>

\* The new organization becomes a client of the platform, with a subscription
\* to caf_saas; it has no client yet under the request_id of its new id.
RegisterAsClient(c) ==
  /\ Step(c, "platform", "commit")
  /\ UNCHANGED <<status, slug, claim, owner, billing, faults>>

Commit(c) ==
  /\ Step(c, "commit", "done")
  /\ claim' = [claim EXCEPT ![c] = NoSlug]
  /\ LET o == IF c \in Creates THEN c ELSE TargetOf[c] IN
       /\ slug' = [slug EXCEPT ![o] = SlugOf[c]]
       /\ status' = [status EXCEPT ![o] = IF c \in Creates THEN "active" ELSE @]
  /\ UNCHANGED <<owner, billing, faults>>

\* An error of a statement (the plan caf_saas is missing, too) or a death.
FailCall(c) ==
  /\ pc[c] \notin {"done", "refused"}
  /\ Fault
  /\ Refuse(c)
  /\ UNCHANGED billing

-----------------------------------------------------------------------------
(***************************************************************************)
(* suspend_org, reactivate_org and cancel_org: a conditional UPDATE each,  *)
(* which waits for an edit that holds the row                              *)
(***************************************************************************)
ChangeStatus(o, from, to) ==
  /\ status[o] \in from /\ status[o] # to
  /\ \A e \in Edits : Open(e) => TargetOf[e] # o
  /\ status' = [status EXCEPT ![o] = to]
  /\ UNCHANGED <<slug, pc, claim, owner, billing, faults>>

Suspend(o) == ChangeStatus(o, {"active", "suspended"}, "suspended")
Reactivate(o) == ChangeStatus(o, {"suspended"}, "active")
Cancel(o) == ChangeStatus(o, {"active", "suspended"}, "cancelled")

-----------------------------------------------------------------------------
(***************************************************************************)
(* run_saas_monthly_billing                                                *)
(***************************************************************************)
Key(o, r) == <<o, PeriodOf[r]>>

\* Mutant: the status of an organization is not looked at.
ReadOrgsAll(r) ==
  /\ run[r].pc = "read"
  /\ run' = [run EXCEPT ![r].pc = "insert", ![r].left = {o \in Orgs : Exists(o)}]
  /\ UNCHANGED <<calls, fees, faults>>

\* The fee, and the active organizations with their platform client.  Each has
\* one, with an active subscription to caf_saas: RegisterAsClient writes both with
\* the organization, and no statement of the program takes them away.
ReadOrgs(r) ==
  /\ run[r].pc = "read"
  /\ run' = [run EXCEPT ![r].pc = "insert", ![r].left = {o \in Orgs : status[o] = "active"}]
  /\ UNCHANGED <<calls, fees, faults>>

\* A run the INSERT of this fee waits for.
HeldBy(o, r, q) == q # r /\ Key(o, r) \in run[q].debits

\* Mutant: an organization counts as billed although its row was there.
CountsAlways(o, r) == TRUE

\* rowcount > 0
Counts(o, r) == Key(o, r) \notin fees

\* INSERT ... ON CONFLICT DO NOTHING, in any order: the SELECT has no ORDER BY.
InsertFee(r, o) ==
  /\ run[r].pc = "insert" /\ o \in run[r].left
  /\ \A q \in Runs : ~HeldBy(o, r, q)
  /\ run' = [run EXCEPT ![r].left = @ \ {o},
               ![r].debits = @ \cup ({Key(o, r)} \ fees),
               ![r].billed = @ + IF Counts(o, r) THEN 1 ELSE 0,
               ![r].cents = @ + IF Counts(o, r) THEN Fee ELSE 0]
  /\ UNCHANGED <<calls, fees, faults>>

CommitRun(r) ==
  /\ run[r].pc = "insert" /\ run[r].left = {}
  /\ fees' = fees \cup run[r].debits
  /\ run' = [run EXCEPT ![r].pc = "answer", ![r].debits = {}]
  /\ UNCHANGED <<calls, faults>>

\* The response with the summary.
AnswerRun(r) ==
  /\ run[r].pc = "answer"
  /\ run' = [run EXCEPT ![r].pc = "done"]
  /\ UNCHANGED <<calls, fees, faults>>

\* Mutant: the transaction of a run that failed stays open.
RollbackRunLeft(r) == run' = [run EXCEPT ![r].pc = "failed", ![r].left = {}]

RollbackRun(r) == run' = [run EXCEPT ![r] = [NewRun EXCEPT !.pc = "failed"]]

\* An error or a death; after the commit the summary is lost, and the fees stay.
FailRun(r) ==
  /\ Fault
  /\ \/ run[r].pc \in {"read", "insert"} /\ RollbackRun(r)
     \/ run[r].pc = "answer" /\ run' = [run EXCEPT ![r].pc = "lost"]
  /\ UNCHANGED <<calls, fees>>

MayWaitFor(r, q) == run[r].pc = "insert" /\ \E o \in run[r].left : HeldBy(o, r, q)

\* Runs that wait for each other in a circle, or for such a circle.
InCircle(r) ==
  \E S \in SUBSET Runs : r \in S /\ \A p \in S : \E q \in S : MayWaitFor(p, q)

\* PostgreSQL aborts one of them.
ResolveDeadlock(r) ==
  /\ InCircle(r)
  /\ RollbackRun(r)
  /\ UNCHANGED <<calls, fees, faults>>

-----------------------------------------------------------------------------
Serve(c) ==
  CheckSlug(c) \/ WriteSlug(c) \/ InsertOwner(c) \/ RegisterAsClient(c) \/ Commit(c)
Bill(r) ==
  \/ ReadOrgs(r) \/ (\E o \in Orgs : InsertFee(r, o)) \/ CommitRun(r) \/ AnswerRun(r)
  \/ ResolveDeadlock(r)

Ended == /\ \A c \in Calls : pc[c] \in {"done", "refused"}
         /\ \A r \in Runs : run[r].pc \in {"done", "failed", "lost"}

Next ==
  \/ \E c \in Calls : Serve(c) \/ FailCall(c)
  \/ \E r \in Runs : Bill(r) \/ FailRun(r)
  \/ \E o \in Orgs : Suspend(o) \/ Reactivate(o) \/ Cancel(o)
  \/ Ended /\ UNCHANGED vars

\* Requests that do not wait go on; the operator's changes of status are free.
Fairness ==
  /\ \A c \in Calls : WF_vars(Serve(c))
  /\ \A r \in Runs : WF_vars(Bill(r))

Spec == Init /\ [][Next]_vars /\ Fairness

-----------------------------------------------------------------------------
TypeOK ==
  /\ status \in [Orgs -> {"none", "active", "suspended", "cancelled"}]
  /\ slug \in [Orgs -> Slugs \cup {NoSlug}]
  /\ pc \in [Calls -> {"check", "write", "owner", "platform", "commit", "done", "refused"}]
  /\ claim \in [Calls -> Slugs \cup {NoSlug}]
  /\ owner \subseteq Creates
  /\ fees \subseteq Orgs \X Periods
  /\ run \in [Runs -> [pc : {"read", "insert", "answer", "done", "failed", "lost"},
                       left : SUBSET Orgs, debits : SUBSET (Orgs \X Periods),
                       billed : Nat, cents : Nat]]
  /\ faults \in 0..MaxFaults
  \* a transaction holds nothing once its request has ended
  /\ \A c \in Calls : Open(c) => pc[c] \in {"owner", "platform", "commit"}
  /\ \A r \in Runs : run[r].debits # {} => run[r].pc = "insert"

\* Creates and renames that overlap never give two organizations one slug, and
\* every organization has an owner of its own.
SlugsUnique ==
  \A o, p \in Orgs : Exists(o) /\ Exists(p) =>
    /\ o \in owner
    /\ o # p => slug[o] # slug[p] /\ EmailOf[o] # EmailOf[p]

FeesOf(p) == {f \in fees : f[2] = p}

Committed(r) == run[r].pc \in {"answer", "done", "lost"}
CommittedIn(p) == {r \in Runs : PeriodOf[r] = p /\ Committed(r)}

\* n[r] units of each run of a set: the sum of the n[r] is the number of them.
UnitsOf(S, n) == UNION {{r} \X (1 .. n[r]) : r \in S}
TotalOf(S, n) == Cardinality(UnitsOf(S, n))

\* The summaries of the runs of a period add up to the fees in the ledger: each
\* organization is counted by the run that debited it, and by no other, however
\* the runs overlap, fail or are repeated.  Of a run that dies after its commit
\* the summary is lost, and nobody else reports those fees.
ReportsMatchFees ==
  \A p \in Periods :
    /\ TotalOf(CommittedIn(p), [r \in Runs |-> run[r].billed]) = Cardinality(FeesOf(p))
    /\ TotalOf(CommittedIn(p), [r \in Runs |-> run[r].cents]) = Fee * Cardinality(FeesOf(p))

Answering(c) == pc[c] \notin {"done", "refused"}

\* A billing that can answer, commit, or debit a fee no other one holds.
GoesOn(r) ==
  \/ run[r].pc \in {"read", "answer"}
  \/ /\ run[r].pc = "insert"
     /\ run[r].left # {} => \E o \in run[r].left : \A q \in Runs : ~HeldBy(o, r, q)

\* Nobody is stuck: a create or a rename only waits for those that are at a
\* later statement, and billings that all wait close a circle PostgreSQL breaks.
NobodyStuck ==
  /\ (\E c \in Calls : Answering(c)) => (\E c \in Calls : Answering(c) /\ Free(c))
  /\ (\E r \in Runs : run[r].pc \in {"read", "insert", "answer"}) =>
       (\E r \in Runs : GoesOn(r) \/ InCircle(r))

\* The organizations a billing still has to debit: those that are left or that it
\* has debited, less those another billing has debited for good.
Due(r) ==
  {o \in Orgs : Key(o, r) \notin fees /\ (o \in run[r].left \/ Key(o, r) \in run[r].debits)}

Phase(r) ==
  CASE run[r].pc = "read" -> "new" [] run[r].pc = "insert" -> "open"
    [] run[r].pc = "answer" -> "billed" [] OTHER -> run[r].pc

Summary(r) == [billed |-> run[r].billed, cents |-> run[r].cents]
NoSummary == [billed |-> 0, cents |-> 0]

Made(r) == IF Committed(r) THEN Summary(r) ELSE NoSummary
Told(r) == IF run[r].pc = "done" THEN Summary(r) ELSE NoSummary

\* Creates and renames take effect at their commit, with a slug and an owner of
\* their own, and a billing that ends has debited every organization that was
\* active when it read them, by itself or by another one, and tells what it did.
Register == INSTANCE Registry WITH
  served <- {c \in Calls : pc[c] = "done"},
  phase <- [r \in Runs |-> Phase(r)],
  due <- [r \in Runs |-> Due(r)],
  made <- [r \in Runs |-> Made(r)],
  told <- [r \in Runs |-> Told(r)]

ImplementsRegistry == Register!Spec

\* Every request ends: calls wait for each other's slugs and emails and never
\* in a circle, and billings do wait in circles, which PostgreSQL breaks.
EveryRequestEnds == <>Ended
=============================================================================
