------------------------------ MODULE Registry ------------------------------
(***************************************************************************)
(* What the operator is promised about organizations and their monthly     *)
(* fee: a create or a rename takes effect in one step, and only with a     *)
(* slug and an owner nobody else has; a cancelled organization stays so;   *)
(* and a billing debits, once it has ended, the fee of its period to every *)
(* organization that was active when it began, to none a second time, and  *)
(* tells, if it does not die before, how many it was that debited.         *)
(* Organizations is shown to implement this module.                        *)
(***************************************************************************)
EXTENDS Integers, FiniteSets

CONSTANTS
  Creates, Edits, TargetOf, SlugOf, EmailOf, NoSlug,  \* creates and renames
  Runs, PeriodOf, Fee                                 \* billings

VARIABLES
  status, slug,  \* of each organization, named after its create
  served,        \* creates and renames that took effect
  phase,         \* of each billing: "new", "open", "billed", "done", "failed" or "lost"
  due,           \* the organizations it still has to debit
  fees,          \* debits: <<organization, period>>
  made,          \* the number and the cents of its debits
  told           \* its summary

rvars == <<status, slug, served, phase, due, fees, made, told>>
orgs == <<status, slug, served>>
bills == <<phase, due, fees, made, told>>

Init ==
  /\ status = [o \in Creates |-> "none"] /\ slug = [o \in Creates |-> NoSlug]
  /\ served = {} /\ fees = {}
  /\ phase = [r \in Runs |-> "new"] /\ due = [r \in Runs |-> {}]
  /\ made = [r \in Runs |-> [billed |-> 0, cents |-> 0]] /\ told = made

Exists(o) == status[o] # "none"

\* The call c gives its slug to o.
Give(o, c) ==
  /\ c \notin served /\ served' = served \cup {c}
  /\ \A p \in Creates \ {o} : Exists(p) => slug[p] # SlugOf[c]
  /\ slug' = [slug EXCEPT ![o] = SlugOf[c]]
  /\ UNCHANGED bills

Create(c) ==
  /\ ~Exists(c) /\ Give(c, c)
  /\ \A p \in Creates : Exists(p) => EmailOf[p] # EmailOf[c]
  /\ status' = [status EXCEPT ![c] = "active"]

Rename(e) ==
  /\ Exists(TargetOf[e]) /\ Give(TargetOf[e], e)
  /\ UNCHANGED status

Change(o, to) ==
  /\ status[o] \in {"active", "suspended"} \ {to}
  /\ status' = [status EXCEPT ![o] = to]
  /\ UNCHANGED <<slug, served, bills>>

Move(r, from, to) ==
  /\ phase[r] \in from
  /\ phase' = [phase EXCEPT ![r] = to]
  /\ UNCHANGED orgs

Begin(r) ==
  /\ Move(r, {"new"}, "open")
  /\ due' = [due EXCEPT ![r] = {o \in Creates : /\ status[o] = "active"
                                                /\ <<o, PeriodOf[r]>> \notin fees}]
  /\ UNCHANGED <<fees, made, told>>

\* What it debits, other billings of the period need not debit any more.
Bill(r) ==
  LET new == due[r] \X {PeriodOf[r]} IN
  /\ Move(r, {"open"}, "billed")
  /\ fees' = fees \cup new
  /\ due' = [q \in Runs |-> IF PeriodOf[q] = PeriodOf[r] THEN due[q] \ due[r] ELSE due[q]]
  /\ made' = [made EXCEPT ![r] = [billed |-> Cardinality(new), cents |-> Fee * Cardinality(new)]]
  /\ UNCHANGED told

Tell(r) ==
  /\ Move(r, {"billed"}, "done")
  /\ told' = [told EXCEPT ![r] = made[r]]
  /\ UNCHANGED <<due, fees, made>>

Lose(r) == Move(r, {"billed"}, "lost") /\ UNCHANGED <<due, fees, made, told>>

GiveUp(r) ==
  /\ Move(r, {"new", "open"}, "failed")
  /\ due' = [due EXCEPT ![r] = {}]
  /\ UNCHANGED <<fees, made, told>>

Next ==
  \/ \E c \in Creates : Create(c) \/ \E to \in {"active", "suspended", "cancelled"} : Change(c, to)
  \/ \E e \in Edits : Rename(e)
  \/ \E r \in Runs : Begin(r) \/ Bill(r) \/ Tell(r) \/ Lose(r) \/ GiveUp(r)

Spec == Init /\ [][Next]_rvars
=============================================================================
