------------------------- MODULE OrganizationsProofs -------------------------
(***************************************************************************)
(* Proofs about Organizations, for any calls, slugs, emails and billings.  *)
(* CallInv is about the creates and the renames, BillInv about the         *)
(* billings; the actions of one leave the variables of the other alone,    *)
(* but for the status of an organization, which a billing only reads.      *)
(***************************************************************************)
EXTENDS Organizations, FiniteSetTheorems, TLAPS

CallType ==
  /\ status \in [Orgs -> {"none", "active", "suspended", "cancelled"}]
  /\ slug \in [Orgs -> Slugs \cup {NoSlug}]
  /\ pc \in [Calls -> {"check", "write", "owner", "platform", "commit", "done", "refused"}]
  /\ claim \in [Calls -> Slugs \cup {NoSlug}]
  /\ owner \subseteq Creates

\* What a transaction has written is its slug, and it holds it from the
\* statement that wrote it up to its end.
Claims ==
  \A c \in Calls :
    /\ claim[c] \in {NoSlug, SlugOf[c]}
    /\ Open(c) <=> pc[c] \in {"owner", "platform", "commit"}
    /\ c \in Edits => pc[c] \notin {"owner", "platform"}

\* An open transaction meets no organization with its slug, and no other open
\* one: whoever commits first, the slugs stay apart.
OpenApart ==
  /\ \A c \in Calls : Open(c) => ~Clash(c) /\ (c \in Edits => Exists(TargetOf[c]))
  /\ \A c, d \in Calls : c # d /\ Open(c) /\ Open(d) => SlugOf[c] # SlugOf[d]

Owners ==
  /\ \A o \in Creates : o \in owner <=> pc[o] \in {"platform", "commit", "done"}
  /\ \A o, p \in owner : o # p => EmailOf[o] # EmailOf[p]

Apart ==
  /\ \A o \in Orgs : Exists(o) => pc[o] = "done"
  /\ \A o, p \in Orgs : o # p /\ Exists(o) /\ Exists(p) => slug[o] # slug[p]

CallInv == CallType /\ Claims /\ OpenApart /\ Owners /\ Apart

BillInv ==
  /\ fees \subseteq Orgs \X Periods
  /\ run \in [Runs -> [pc : {"read", "insert", "answer", "done", "failed", "lost"},
                       left : SUBSET Orgs, debits : SUBSET (Orgs \X Periods),
                       billed : Nat, cents : Nat]]
  /\ \A r \in Runs : run[r].debits # {} => run[r].pc = "insert"

Billed == [r \in Runs |-> run[r].billed]
Charged == [r \in Runs |-> run[r].cents]

\* What an open billing counts is what its transaction has inserted: debits of
\* its period, of organizations it is done with, none of them committed or held
\* by another billing.
OpenSums ==
  /\ \A r \in Runs : run[r].pc = "read" => run[r] = NewRun
  /\ \A r \in Runs : run[r].pc = "insert" =>
       /\ IsFiniteSet(run[r].debits)
       /\ run[r].billed = Cardinality(run[r].debits)
       /\ run[r].cents = Fee * run[r].billed
       /\ \A k \in run[r].debits :
            k[1] \notin run[r].left /\ k[2] = PeriodOf[r] /\ k \notin fees
  /\ \A q, r \in Runs : q # r => run[q].debits \cap run[r].debits = {}

\* What was committed adds up.
CommittedSums ==
  /\ \A p \in Periods : /\ IsFiniteSet(FeesOf(p))
                         /\ IsFiniteSet(UnitsOf(CommittedIn(p), Billed))
                         /\ IsFiniteSet(UnitsOf(CommittedIn(p), Charged))
  /\ ReportsMatchFees

SumInv == OpenSums /\ CommittedSums

IInv == CallInv /\ BillInv /\ SumInv /\ faults \in 0..MaxFaults

LEMMA Kinds ==
  /\ \A c \in Creates : c \in Calls /\ c \in Orgs /\ c \notin Edits
  /\ \A e \in Edits : e \in Calls /\ e \notin Creates /\ TargetOf[e] \in Orgs
  /\ \A c \in Calls : SlugOf[c] \in Slugs /\ SlugOf[c] # NoSlug
BY CallsAssumption DEF Calls, Orgs, Slugs

\* A call that waits is at an earlier statement than the one it waits for.
LEMMA WaitedForIsLater ==
  ASSUME CallInv, NEW c \in Calls, NEW d \in Calls, WaitsFor(c, d)
  PROVE  \/ pc[c] = "write" /\ pc[d] \in {"owner", "platform", "commit"}
         \/ pc[c] = "owner" /\ pc[d] \in {"platform", "commit"}
<1>1. CASE pc[c] = "write" /\ Open(d)
  BY <1>1 DEF CallInv, Claims
<1>2. CASE pc[c] = "owner" /\ d \in owner /\ pc[d] # "done"
  BY <1>2 DEF CallInv, CallType, Owners
<1> QED BY <1>1, <1>2 DEF WaitsFor

LEMMA SomeCallIsFree ==
  ASSUME CallInv, NEW b \in Calls, Answering(b)
  PROVE  \E c \in Calls : Answering(c) /\ Free(c)
<1> SUFFICES ASSUME \A c \in Calls : Answering(c) => \E d \in Calls : WaitsFor(c, d)
             PROVE  FALSE
  BY DEF Free
<1>1. \A c \in Calls : Answering(c) => \E d \in Calls :
        \/ pc[c] = "write" /\ pc[d] \in {"owner", "platform", "commit"}
        \/ pc[c] = "owner" /\ pc[d] \in {"platform", "commit"}
  BY WaitedForIsLater
<1>2. \A c \in Calls : pc[c] \notin {"platform", "commit"}
  BY <1>1 DEF Answering
<1>3. \A c \in Calls : pc[c] # "owner"
  BY <1>1, <1>2 DEF Answering
<1> QED BY <1>1, <1>2, <1>3

\* If no billing can go on, the ones that insert all wait for each other.
LEMMA SomeBillingGoesOn ==
  ASSUME BillInv, NEW b \in Runs, run[b].pc \in {"read", "insert", "answer"}
  PROVE  \E r \in Runs : GoesOn(r) \/ InCircle(r)
<1> SUFFICES ASSUME \A r \in Runs : ~GoesOn(r) PROVE InCircle(b)
  OBVIOUS
<1> DEFINE S == {r \in Runs : run[r].pc = "insert"}
<1>1. b \in S /\ S \in SUBSET Runs
  BY DEF GoesOn
<1>2. ASSUME NEW p \in S PROVE \E q \in S : MayWaitFor(p, q)
  <2>1. PICK o \in run[p].left, q \in Runs : HeldBy(o, p, q)
    BY DEF GoesOn
  <2>2. run[q].pc = "insert"
    BY <2>1 DEF HeldBy, BillInv
  <2> QED BY <2>1, <2>2 DEF MayWaitFor
<1> HIDE DEF S
<1> QED BY <1>1, <1>2 DEF InCircle

LEMMA InvGivesProperties == IInv => TypeOK /\ SlugsUnique /\ ReportsMatchFees /\ NobodyStuck
<1> SUFFICES ASSUME IInv PROVE TypeOK /\ SlugsUnique /\ ReportsMatchFees /\ NobodyStuck
  OBVIOUS
<1>1. TypeOK
  BY DEF IInv, CallInv, CallType, Claims, BillInv, TypeOK
<1>2. SlugsUnique
  BY Kinds DEF IInv, CallInv, Owners, Apart, SlugsUnique, Orgs
<1>3. NobodyStuck
  BY SomeCallIsFree, SomeBillingGoesOn DEF IInv, NobodyStuck
<1> QED BY <1>1, <1>2, <1>3 DEF IInv, SumInv, CommittedSums

LEMMA FaultStep == ASSUME Fault, faults \in 0..MaxFaults PROVE faults' \in 0..MaxFaults
BY RunsAssumption DEF Fault

-----------------------------------------------------------------------------
(***************************************************************************)
(* Creates and renames                                                     *)
(***************************************************************************)
\* A refused call gives back what it claimed.
LEMMA RefuseStep ==
  ASSUME CallInv, NEW c \in Calls, Refuse(c), pc[c] \notin {"done", "refused"}
  PROVE  CallInv'
<1>1. CallType'
  BY DEF CallInv, CallType, Refuse
<1>2. \A d \in Calls : Open(d)' => Open(d) /\ d # c
  BY DEF CallInv, CallType, Refuse, Open
<1>3. Claims'
  BY DEF CallInv, CallType, Claims, Refuse, Open
<1>4. OpenApart'
  BY <1>2 DEF CallInv, OpenApart, Refuse, Clash, Exists
<1>5. Owners'
  BY Kinds DEF CallInv, CallType, Owners, Refuse
<1>6. Apart'
  BY Kinds DEF CallInv, CallType, Apart, Refuse, Exists, Orgs
<1> QED BY <1>1, <1>3, <1>4, <1>5, <1>6 DEF CallInv

LEMMA CheckSlugStep ==
  ASSUME CallInv, NEW c \in Calls, CheckSlug(c)
  PROVE  CallInv'
<1>1. CASE Clash(c)
  BY <1>1, RefuseStep DEF CheckSlug
<1>2. CASE ~Clash(c)
  <2>1. /\ pc[c] = "check" /\ pc' = [pc EXCEPT ![c] = "write"]
        /\ UNCHANGED <<status, slug, claim, owner>>
    BY <1>2 DEF CheckSlug, Step
  <2> QED BY <2>1, Kinds DEF CallInv, CallType, Claims, OpenApart, Owners, Apart, Open,
                             Exists, Clash, Orgs
<1> QED BY <1>1, <1>2

LEMMA WriteSlugStep ==
  ASSUME CallInv, NEW c \in Calls, WriteSlug(c)
  PROVE  CallInv'
<1>1. CASE Unique(c) \/ (c \in Edits /\ ~Exists(TargetOf[c]))
  BY <1>1, RefuseStep DEF WriteSlug
<1>2. CASE ~(Unique(c) \/ (c \in Edits /\ ~Exists(TargetOf[c])))
  <2> DEFINE to == IF c \in Creates THEN "owner" ELSE "commit"
  <2>1. /\ pc[c] = "write" /\ pc' = [pc EXCEPT ![c] = to]
        /\ claim' = [claim EXCEPT ![c] = SlugOf[c]]
        /\ UNCHANGED <<status, slug, owner>>
        /\ \A d \in Calls \ {c} : Open(d) => claim[d] # SlugOf[c]
        /\ ~Clash(c) /\ (c \in Edits => Exists(TargetOf[c]))
    BY <1>2 DEF WriteSlug, Step, Unique, Free, WaitsFor
  <2>2. CallType' /\ Claims'
    BY <2>1, Kinds DEF CallInv, CallType, Claims, Open, Calls
  <2>3. \A d \in Calls : Open(d)' <=> Open(d) \/ d = c
    BY <2>1, Kinds DEF CallInv, CallType, Open
  <2>4. OpenApart'
    BY <2>1, <2>3 DEF CallInv, Claims, OpenApart, Open, Clash, Exists
  <2>5. Owners' /\ Apart'
    BY <2>1, Kinds DEF CallInv, CallType, Owners, Apart, Exists, Orgs
  <2> QED BY <2>2, <2>4, <2>5 DEF CallInv
<1> QED BY <1>1, <1>2

LEMMA InsertOwnerStep ==
  ASSUME CallInv, NEW c \in Calls, InsertOwner(c)
  PROVE  CallInv'
<1>1. CASE \E d \in owner : EmailOf[d] = EmailOf[c]
  BY <1>1, RefuseStep DEF InsertOwner
<1>2. CASE ~\E d \in owner : EmailOf[d] = EmailOf[c]
  <2>1. /\ pc[c] = "owner" /\ pc' = [pc EXCEPT ![c] = "platform"]
        /\ owner' = owner \cup {c}
        /\ UNCHANGED <<status, slug, claim>>
    BY <1>2 DEF InsertOwner, Step
  <2>2. c \in Creates
    BY <2>1 DEF CallInv, Claims, Calls
  <2>3. CallType' /\ Claims' /\ OpenApart' /\ Apart'
    BY <2>1, <2>2, Kinds DEF CallInv, CallType, Claims, OpenApart, Apart, Open, Clash,
                             Exists, Orgs
  <2>4. Owners'
    BY <1>2, <2>1, <2>2, Kinds DEF CallInv, CallType, Owners
  <2> QED BY <2>3, <2>4 DEF CallInv
<1> QED BY <1>1, <1>2

LEMMA RegisterStep ==
  ASSUME CallInv, NEW c \in Calls, RegisterAsClient(c)
  PROVE  CallInv'
<1>1. /\ pc[c] = "platform" /\ pc' = [pc EXCEPT ![c] = "commit"]
      /\ UNCHANGED <<status, slug, claim, owner>>
  BY DEF RegisterAsClient, Step
<1> QED BY <1>1, Kinds DEF CallInv, CallType, Claims, OpenApart, Owners, Apart, Open, Clash,
                           Exists, Orgs

\* The slug of a commit is new among the organizations, and no open transaction
\* is about to add it a second time.
LEMMA CommitStep ==
  ASSUME CallInv, NEW c \in Calls, Commit(c)
  PROVE  CallInv'
<1> DEFINE o == IF c \in Creates THEN c ELSE TargetOf[c]
<1>1. /\ pc[c] = "commit" /\ pc' = [pc EXCEPT ![c] = "done"]
      /\ claim' = [claim EXCEPT ![c] = NoSlug]
      /\ slug' = [slug EXCEPT ![o] = SlugOf[c]]
      /\ status' = [status EXCEPT ![o] = IF c \in Creates THEN "active" ELSE @]
      /\ owner' = owner
  BY DEF Commit, Step
<1>2. o \in Orgs /\ Open(c) /\ ~Clash(c) /\ SlugOf[c] \in Slugs
  BY <1>1, Kinds DEF CallInv, Claims, OpenApart, Calls
<1>3. \A p \in Orgs \ {o} : (Exists(p)' <=> Exists(p)) /\ slug'[p] = slug[p]
  BY <1>1 DEF CallInv, CallType, Exists
<1>4. Exists(o)' /\ slug'[o] = SlugOf[c]
  <2>1. CASE c \in Creates
    BY <1>1, <1>2, <2>1 DEF CallInv, CallType, Exists
  <2>2. CASE c \in Edits
    BY <1>1, <1>2, <2>2, Kinds DEF CallInv, CallType, OpenApart, Exists
  <2> QED BY <1>1, <1>2, <2>1, <2>2 DEF Calls
<1>5. CallType'
  BY <1>1, <1>2 DEF CallInv, CallType
<1>6. Claims'
  BY <1>1 DEF CallInv, CallType, Claims, Open
<1>7. \A d \in Calls : Open(d)' => Open(d) /\ d # c
  BY <1>1 DEF CallInv, CallType, Open
<1>8. OpenApart'
  <2>1. \A d \in Calls : Open(d)' => ~Clash(d)'
    BY <1>2, <1>3, <1>4, <1>7 DEF CallInv, OpenApart, Clash
  <2>2. \A d \in Calls : Open(d)' /\ d \in Edits => Exists(TargetOf[d])'
    BY <1>3, <1>4, <1>7, Kinds DEF CallInv, OpenApart
  <2> QED BY <1>7, <2>1, <2>2 DEF CallInv, OpenApart
<1>9. Owners'
  BY <1>1, Kinds DEF CallInv, CallType, Owners
<1>10. Apart'
  <2>1. \A p \in Orgs : p # o /\ Exists(p) => slug[p] # SlugOf[c]
    BY <1>2, Kinds DEF Clash
  <2>2. \A p \in Orgs : Exists(p)' => pc'[p] = "done"
    <3>1. o \in Creates /\ (c \in Edits => pc[o] = "done")
      BY <1>2, Kinds DEF CallInv, OpenApart, Apart, Orgs
    <3> QED BY <1>1, <1>3, <3>1, Kinds DEF CallInv, CallType, Apart, Orgs, Calls
  <2> QED BY <1>3, <1>4, <2>1, <2>2 DEF CallInv, Apart
<1> QED BY <1>5, <1>6, <1>8, <1>9, <1>10 DEF CallInv

LEMMA ChangeStatusStep ==
  ASSUME CallInv, NEW o \in Orgs, NEW from \in SUBSET {"active", "suspended"},
         NEW to \in {"active", "suspended", "cancelled"}, ChangeStatus(o, from, to)
  PROVE  CallInv'
<1>1. /\ Exists(o) /\ status' = [status EXCEPT ![o] = to]
      /\ UNCHANGED <<slug, pc, claim, owner>>
  BY DEF ChangeStatus, Exists
<1>2. \A p \in Orgs : Exists(p)' <=> Exists(p)
  BY <1>1 DEF CallInv, CallType, Exists
<1>3. CallType' /\ Claims' /\ Owners'
  BY <1>1 DEF CallInv, CallType, Claims, Owners, Open
<1>4. OpenApart' /\ Apart'
  BY <1>1, <1>2, Kinds DEF CallInv, OpenApart, Apart, Open, Clash
<1> QED BY <1>3, <1>4 DEF CallInv

LEMMA CallFrame == ASSUME CallInv, UNCHANGED calls PROVE CallInv'
BY DEF CallInv, CallType, Claims, OpenApart, Owners, Apart, calls, Open, Clash, Exists

-----------------------------------------------------------------------------
(***************************************************************************)
(* Billings                                                                *)
(***************************************************************************)
LEMMA BillFrame == ASSUME BillInv, UNCHANGED billing PROVE BillInv'
BY DEF BillInv, billing

LEMMA RollbackRunStep ==
  ASSUME BillInv, NEW r \in Runs, RollbackRun(r), UNCHANGED fees
  PROVE  BillInv'
BY DEF BillInv, RollbackRun, NewRun

RunStates == [pc : {"read", "insert", "answer", "done", "failed", "lost"},
              left : SUBSET Orgs, debits : SUBSET (Orgs \X Periods),
              billed : Nat, cents : Nat]

\* The end of a billing that has committed: the answer, or its loss.
Tells(r) ==
  /\ run[r].pc = "answer" /\ \E l \in {"done", "lost"} : run' = [run EXCEPT ![r].pc = l]
  /\ UNCHANGED <<calls, fees>>

Undoes(r) ==
  run[r].pc \in {"read", "insert"} /\ RollbackRun(r) /\ UNCHANGED <<calls, fees>>

LEMMA BillCases ==
  ASSUME NEW r \in Runs, Bill(r) \/ FailRun(r)
  PROVE  \/ ReadOrgs(r) \/ (\E o \in Orgs : InsertFee(r, o)) \/ CommitRun(r) \/ Tells(r)
         \/ ResolveDeadlock(r) \/ Undoes(r)
BY DEF Bill, FailRun, AnswerRun, Tells, Undoes

LEMMA BillStep ==
  ASSUME BillInv, NEW r \in Runs, Bill(r) \/ FailRun(r)
  PROVE  BillInv'
<1>1. CASE ReadOrgs(r)
  <2>1. {o \in Orgs : status[o] = "active"} \in SUBSET Orgs
    OBVIOUS
  <2> QED BY <1>1, <2>1 DEF ReadOrgs, BillInv
<1>2. ASSUME NEW o \in Orgs, InsertFee(r, o) PROVE BillInv'
  <2>1. Key(o, r) \in Orgs \X Periods
    BY DEF Key, Periods
  <2> DEFINE left == run[r].left \ {o}
             debits == run[r].debits \cup ({Key(o, r)} \ fees)
             billed == run[r].billed + IF Counts(o, r) THEN 1 ELSE 0
             cents == run[r].cents + IF Counts(o, r) THEN Fee ELSE 0
             new == [run[r] EXCEPT !.left = left, !.debits = debits, !.billed = billed,
                                   !.cents = cents]
  <2>2. run[r].pc = "insert" /\ fees' = fees /\ run' = [run EXCEPT ![r] = new]
    BY <1>2 DEF InsertFee
  <2>3. left \in SUBSET Orgs /\ debits \in SUBSET (Orgs \X Periods)
    BY <2>1 DEF BillInv
  <2>4. billed \in Nat /\ cents \in Nat
    BY RunsAssumption DEF BillInv
  <2>5. new \in RunStates /\ new.pc = "insert"
    <3>1. run[r] \in RunStates
      BY DEF BillInv, RunStates
    <3>2. run[r].pc = "insert"
      BY <2>2
    <3> HIDE DEF left, debits, billed, cents
    <3>3. new \in RunStates /\ new.pc = run[r].pc
      BY <2>3, <2>4, <3>1 DEF RunStates
    <3> QED BY <3>2, <3>3
  <2> HIDE DEF new
  <2> QED BY <2>2, <2>5 DEF BillInv, RunStates
<1>3. CASE CommitRun(r) \/ Tells(r)
  BY <1>3 DEF CommitRun, Tells, BillInv
<1>4. CASE ResolveDeadlock(r) \/ Undoes(r)
  BY <1>4, RollbackRunStep DEF ResolveDeadlock, Undoes
<1> QED BY <1>1, <1>2, <1>3, <1>4, BillCases

-----------------------------------------------------------------------------
(***************************************************************************)
(* The sums of the summaries                                               *)
(***************************************************************************)
LEMMA UnitsSame ==
  ASSUME NEW S, NEW n, NEW m, \A r \in S : n[r] = m[r]
  PROVE  UnitsOf(S, n) = UnitsOf(S, m)
BY DEF UnitsOf

LEMMA UnitsAdd ==
  ASSUME NEW S, NEW n, NEW r, r \notin S, n[r] \in Nat, IsFiniteSet(UnitsOf(S, n))
  PROVE  /\ IsFiniteSet(UnitsOf(S \cup {r}, n))
         /\ TotalOf(S \cup {r}, n) = TotalOf(S, n) + n[r]
<1> DEFINE new == {r} \X (1 .. n[r])
<1>1. UnitsOf(S \cup {r}, n) = UnitsOf(S, n) \cup new
  BY DEF UnitsOf
<1>2. UnitsOf(S, n) \cap new = {}
  BY DEF UnitsOf
<1>3. IsFiniteSet(new) /\ Cardinality(new) = n[r]
  <2>1. IsFiniteSet(1 .. n[r]) /\ Cardinality(1 .. n[r]) = n[r]
    BY FS_Interval
  <2>2. IsFiniteSet({r}) /\ Cardinality({r}) = 1
    BY FS_Singleton
  <2>3. IsFiniteSet(new) /\ Cardinality(new) = Cardinality({r}) * Cardinality(1 .. n[r])
    BY <2>1, <2>2, FS_Product
  <2> QED BY <2>1, <2>2, <2>3
<1> HIDE DEF new
<1>4. /\ IsFiniteSet(UnitsOf(S, n) \cup new)
      /\ Cardinality(UnitsOf(S, n) \cup new)
           = Cardinality(UnitsOf(S, n)) + Cardinality(new) - Cardinality({})
  BY <1>2, <1>3, FS_Union
<1>5. Cardinality(UnitsOf(S, n)) \in Nat /\ Cardinality({}) = 0
  BY FS_CardinalityType, FS_EmptySet
<1>6. Cardinality(UnitsOf(S, n) \cup new) = Cardinality(UnitsOf(S, n)) + n[r]
  BY <1>3, <1>4, <1>5
<1> QED BY <1>1, <1>4, <1>6 DEF TotalOf

LEMMA NoUnits == \A n : IsFiniteSet(UnitsOf({}, n)) /\ TotalOf({}, n) = 0
<1>1. \A n : UnitsOf({}, n) = {}
  BY DEF UnitsOf
<1> QED BY <1>1, FS_EmptySet DEF TotalOf

\* A step after which the answered runs and the fees are the same ones.
LEMMA SumsKept ==
  ASSUME CommittedSums, UNCHANGED fees,
         \A r \in Runs : Committed(r)' <=> Committed(r),
         \A r \in Runs : Committed(r) =>
           run'[r].billed = run[r].billed /\ run'[r].cents = run[r].cents
  PROVE  CommittedSums'
<1>1. ASSUME NEW p \in Periods
      PROVE  /\ FeesOf(p)' = FeesOf(p)
             /\ UnitsOf(CommittedIn(p)', Billed') = UnitsOf(CommittedIn(p), Billed)
             /\ UnitsOf(CommittedIn(p)', Charged') = UnitsOf(CommittedIn(p), Charged)
  <2>1. FeesOf(p)' = FeesOf(p)
    BY DEF FeesOf
  <2>2. CommittedIn(p)' = CommittedIn(p)
    BY DEF CommittedIn, Committed
  <2>3. \A r \in CommittedIn(p) : Billed'[r] = Billed[r] /\ Charged'[r] = Charged[r]
    BY DEF CommittedIn, Committed, Billed, Charged
  <2>4. /\ UnitsOf(CommittedIn(p), Billed') = UnitsOf(CommittedIn(p), Billed)
        /\ UnitsOf(CommittedIn(p), Charged') = UnitsOf(CommittedIn(p), Charged)
    BY <2>3, UnitsSame
  <2> QED BY <2>1, <2>2, <2>4
<1> QED BY <1>1 DEF CommittedSums, ReportsMatchFees, TotalOf, Billed, Charged, UnitsOf

\* A billing reads what it has to bill, or rolls back: nothing is held any more.
LEMMA EmptyStep ==
  ASSUME BillInv, SumInv, NEW r \in Runs, UNCHANGED fees, run[r].pc \in {"read", "insert"},
         NEW new, run' = [run EXCEPT ![r] = new], new.debits = {}, new.pc \in {"insert", "failed"},
         new.billed = 0, new.cents = 0
  PROVE  SumInv'
<1>1. \A q \in Runs : run'[q] = IF q = r THEN new ELSE run[q]
  BY DEF BillInv
<1>2. IsFiniteSet({}) /\ Cardinality({}) = 0 /\ Fee * 0 = 0
  BY FS_EmptySet, RunsAssumption
<1>3. OpenSums'
  <2>1. \A q \in Runs : run'[q].pc = "read" => run'[q] = NewRun
    BY <1>1 DEF SumInv, OpenSums
  <2>2. /\ IsFiniteSet(new.debits) /\ new.billed = Cardinality(new.debits)
        /\ new.cents = Fee * new.billed
    BY <1>2
  <2>3. \A q \in Runs : run'[q].pc = "insert" =>
          /\ IsFiniteSet(run'[q].debits)
          /\ run'[q].billed = Cardinality(run'[q].debits)
          /\ run'[q].cents = Fee * run'[q].billed
          /\ \A k \in run'[q].debits :
               k[1] \notin run'[q].left /\ k[2] = PeriodOf[q] /\ k \notin fees
    <3> TAKE q \in Runs
    <3>1. CASE q = r
      <4>1. run'[q] = new
        BY <1>1, <3>1
      <4> QED BY <2>2, <4>1
    <3>2. CASE q # r
      <4>1. run'[q] = run[q]
        BY <1>1, <3>2
      <4> QED BY <4>1 DEF SumInv, OpenSums
    <3> QED BY <3>1, <3>2
  <2>4. \A p, q \in Runs : p # q => run'[p].debits \cap run'[q].debits = {}
    BY <1>1 DEF SumInv, OpenSums
  <2> QED BY <2>1, <2>3, <2>4 DEF OpenSums
<1>4. CommittedSums'
  BY <1>1, SumsKept DEF SumInv, Committed
<1> QED BY <1>3, <1>4 DEF SumInv

LEMMA InsertSums ==
  ASSUME BillInv, SumInv, NEW r \in Runs, NEW o \in Orgs, InsertFee(r, o)
  PROVE  SumInv'
<1> DEFINE k == Key(o, r)
           new == run'[r]
<1>1. /\ run[r].pc = "insert" /\ o \in run[r].left /\ fees' = fees
      /\ \A q \in Runs \ {r} : k \notin run[q].debits
      /\ \A q \in Runs \ {r} : run'[q] = run[q]
      /\ new.pc = "insert" /\ new.left = run[r].left \ {o}
      /\ new.debits = run[r].debits \cup ({k} \ fees)
      /\ new.billed = run[r].billed + IF Counts(o, r) THEN 1 ELSE 0
      /\ new.cents = run[r].cents + IF Counts(o, r) THEN Fee ELSE 0
  BY DEF InsertFee, HeldBy, BillInv
<1>2. k[1] = o /\ k[2] = PeriodOf[r]
  BY DEF Key
<1> HIDE DEF k, new
<1>3. k \notin run[r].debits
  BY <1>1, <1>2 DEF SumInv, OpenSums
<1>4. /\ IsFiniteSet(new.debits) /\ new.billed = Cardinality(new.debits)
      /\ new.cents = Fee * new.billed
  <2>1. /\ IsFiniteSet(run[r].debits) /\ run[r].billed = Cardinality(run[r].debits)
        /\ run[r].billed \in Nat /\ run[r].cents = Fee * run[r].billed
    BY <1>1 DEF SumInv, OpenSums, BillInv
  <2>2. CASE k \in fees
    <3>1. new.debits = run[r].debits /\ ~Counts(o, r)
      BY <1>1, <2>2 DEF k, Counts
    <3>2. new.billed = run[r].billed /\ new.cents = run[r].cents
      <4>1. run[r].cents \in Nat
        BY DEF BillInv
      <4> QED BY <1>1, <2>1, <3>1, <4>1
    <3> QED BY <2>1, <3>1, <3>2
  <2>3. CASE k \notin fees
    <3>1. new.debits = run[r].debits \cup {k} /\ Counts(o, r)
      BY <1>1, <2>3 DEF k, Counts
    <3>2. /\ IsFiniteSet(run[r].debits \cup {k})
          /\ Cardinality(run[r].debits \cup {k}) = Cardinality(run[r].debits) + 1
      BY <1>3, <2>1, FS_AddElement
    <3>3. Fee * (run[r].billed + 1) = Fee * run[r].billed + Fee
      BY <2>1, RunsAssumption
    <3> QED BY <1>1, <2>1, <3>1, <3>2, <3>3
  <2> QED BY <2>2, <2>3
<1>5. \A j \in new.debits : j[1] \notin new.left /\ j[2] = PeriodOf[r] /\ j \notin fees
  BY <1>1, <1>2 DEF SumInv, OpenSums
<1>6. \A q \in Runs \ {r} : run'[q].debits \cap new.debits = {}
  BY <1>1 DEF SumInv, OpenSums
<1>7. OpenSums'
  <2>1. \A q \in Runs : run'[q].pc = "read" => run'[q] = NewRun
    BY <1>1 DEF SumInv, OpenSums, new
  <2>2. \A q \in Runs : run'[q].pc = "insert" =>
          /\ IsFiniteSet(run'[q].debits)
          /\ run'[q].billed = Cardinality(run'[q].debits)
          /\ run'[q].cents = Fee * run'[q].billed
          /\ \A j \in run'[q].debits :
               j[1] \notin run'[q].left /\ j[2] = PeriodOf[q] /\ j \notin fees
    BY <1>1, <1>4, <1>5 DEF SumInv, OpenSums, new
  <2>3. \A p, q \in Runs : p # q => run'[p].debits \cap run'[q].debits = {}
    BY <1>1, <1>6 DEF SumInv, OpenSums, new
  <2> QED BY <1>1, <2>1, <2>2, <2>3 DEF OpenSums
<1>8. CommittedSums'
  <2> USE DEF new
  <2> QED BY <1>1, SumsKept DEF SumInv, Committed
<1> QED BY <1>7, <1>8 DEF SumInv

\* The debits of the run enter the ledger and its summary the answers of its
\* period, both with the same number.
LEMMA CommitSums ==
  ASSUME BillInv, SumInv, NEW r \in Runs, CommitRun(r)
  PROVE  SumInv'
<1> DEFINE new == run'[r]
           D == run[r].debits
<1>1. /\ run[r].pc = "insert" /\ fees' = fees \cup D
      /\ \A q \in Runs \ {r} : run'[q] = run[q]
      /\ new.pc = "answer" /\ new.debits = {} /\ new.billed = run[r].billed
      /\ new.cents = run[r].cents
  BY DEF CommitRun, BillInv
<1>2. /\ IsFiniteSet(D) /\ run[r].billed = Cardinality(D) /\ run[r].billed \in Nat
      /\ run[r].cents = Fee * run[r].billed /\ run[r].cents \in Nat
      /\ \A k \in D : k[2] = PeriodOf[r] /\ k \notin fees
      /\ \A q \in Runs \ {r} : run[q].debits \cap D = {}
  BY <1>1 DEF SumInv, OpenSums, BillInv
<1> HIDE DEF new, D
<1>3. OpenSums'
  <2> USE DEF new
  <2> QED BY <1>1, <1>2 DEF SumInv, OpenSums
<1>4. ASSUME NEW p \in Periods
      PROVE  /\ IsFiniteSet(FeesOf(p)) /\ IsFiniteSet(UnitsOf(CommittedIn(p), Billed))
             /\ IsFiniteSet(UnitsOf(CommittedIn(p), Charged))
             /\ TotalOf(CommittedIn(p), Billed) = Cardinality(FeesOf(p))
             /\ TotalOf(CommittedIn(p), Charged) = Fee * Cardinality(FeesOf(p))
  BY DEF SumInv, CommittedSums, ReportsMatchFees, Billed, Charged
<1>5. ASSUME NEW p \in Periods
      PROVE  /\ IsFiniteSet(FeesOf(p)') /\ IsFiniteSet(UnitsOf(CommittedIn(p)', Billed'))
             /\ IsFiniteSet(UnitsOf(CommittedIn(p)', Charged'))
             /\ TotalOf(CommittedIn(p)', Billed') = Cardinality(FeesOf(p)')
             /\ TotalOf(CommittedIn(p)', Charged') = Fee * Cardinality(FeesOf(p)')
  <2>1. /\ Billed'[r] = run[r].billed /\ Charged'[r] = run[r].cents
        /\ \A q \in CommittedIn(p) : Billed'[q] = Billed[q] /\ Charged'[q] = Charged[q]
    BY <1>1 DEF CommittedIn, Committed, Billed, Charged, new
  <2>2. /\ UnitsOf(CommittedIn(p), Billed') = UnitsOf(CommittedIn(p), Billed)
        /\ UnitsOf(CommittedIn(p), Charged') = UnitsOf(CommittedIn(p), Charged)
    BY <2>1, UnitsSame
  <2>3. CASE p = PeriodOf[r]
    <3>1. CommittedIn(p)' = CommittedIn(p) \cup {r} /\ r \notin CommittedIn(p)
      BY <1>1, <2>3 DEF CommittedIn, Committed, new
    <3>2. FeesOf(p)' = FeesOf(p) \cup D /\ FeesOf(p) \cap D = {}
      BY <1>1, <1>2, <2>3 DEF FeesOf
    <3>3. /\ IsFiniteSet(FeesOf(p) \cup D)
          /\ Cardinality(FeesOf(p) \cup D)
               = Cardinality(FeesOf(p)) + Cardinality(D) - Cardinality({})
      <4>1. IsFiniteSet(FeesOf(p)) /\ IsFiniteSet(D) /\ FeesOf(p) \cap D = {}
        BY <1>2, <1>4, <3>2
      <4> QED BY <4>1, FS_Union
    <3>4. /\ Cardinality({}) = 0 /\ Cardinality(FeesOf(p)) \in Nat
      BY <1>4, FS_EmptySet, FS_CardinalityType
    <3>5. /\ IsFiniteSet(UnitsOf(CommittedIn(p) \cup {r}, Billed'))
          /\ TotalOf(CommittedIn(p) \cup {r}, Billed')
               = TotalOf(CommittedIn(p), Billed') + run[r].billed
      <4> DEFINE S == CommittedIn(p)
                 n == Billed'
      <4>1. n[r] \in Nat /\ IsFiniteSet(UnitsOf(S, n))
        BY <1>2, <1>4, <2>1, <2>2
      <4>2. n[r] = run[r].billed /\ r \notin S
        BY <2>1, <3>1
      <4> HIDE DEF S, n
      <4>3. /\ IsFiniteSet(UnitsOf(S \cup {r}, n))
            /\ TotalOf(S \cup {r}, n) = TotalOf(S, n) + n[r]
        BY <4>1, <4>2, UnitsAdd
      <4> QED BY <4>2, <4>3 DEF S, n
    <3>6. /\ IsFiniteSet(UnitsOf(CommittedIn(p) \cup {r}, Charged'))
          /\ TotalOf(CommittedIn(p) \cup {r}, Charged')
               = TotalOf(CommittedIn(p), Charged') + run[r].cents
      <4> DEFINE S == CommittedIn(p)
                 n == Charged'
      <4>1. n[r] \in Nat /\ IsFiniteSet(UnitsOf(S, n))
        BY <1>2, <1>4, <2>1, <2>2
      <4>2. n[r] = run[r].cents /\ r \notin S
        BY <2>1, <3>1
      <4> HIDE DEF S, n
      <4>3. /\ IsFiniteSet(UnitsOf(S \cup {r}, n))
            /\ TotalOf(S \cup {r}, n) = TotalOf(S, n) + n[r]
        BY <4>1, <4>2, UnitsAdd
      <4> QED BY <4>2, <4>3 DEF S, n
    <3>7. /\ TotalOf(CommittedIn(p), Billed') = Cardinality(FeesOf(p))
          /\ TotalOf(CommittedIn(p), Charged') = Fee * Cardinality(FeesOf(p))
      BY <1>4, <2>2 DEF TotalOf
    <3>8. Fee * (Cardinality(FeesOf(p)) + run[r].billed)
            = Fee * Cardinality(FeesOf(p)) + Fee * run[r].billed
      BY <1>2, <3>4, RunsAssumption
    <3>9. Cardinality(FeesOf(p) \cup D) = Cardinality(FeesOf(p)) + run[r].billed
      BY <1>2, <3>3, <3>4
    <3> QED BY <1>2, <3>1, <3>2, <3>3, <3>5, <3>6, <3>7, <3>8, <3>9
  <2>4. CASE p # PeriodOf[r]
    <3>1. CommittedIn(p)' = CommittedIn(p)
      BY <1>1, <2>4 DEF CommittedIn, Committed, new
    <3>2. FeesOf(p)' = FeesOf(p)
      BY <1>1, <1>2, <2>4 DEF FeesOf
    <3> QED BY <1>4, <2>2, <3>1, <3>2 DEF TotalOf
  <2> QED BY <2>3, <2>4
<1>6. CommittedSums'
  BY <1>5 DEF CommittedSums, ReportsMatchFees, TotalOf, Billed, Charged, UnitsOf
<1> QED BY <1>3, <1>6 DEF SumInv

\* The answer adds nothing and takes nothing away.
LEMMA TellSums ==
  ASSUME BillInv, SumInv, NEW r \in Runs, Tells(r)
  PROVE  SumInv'
<1>1. PICK l \in {"done", "lost"} :
        run[r].pc = "answer" /\ run' = [run EXCEPT ![r].pc = l] /\ fees' = fees
  BY DEF Tells
<1>2. /\ \A q \in Runs \ {r} : run'[q] = run[q]
      /\ run'[r].pc = l /\ run'[r].debits = run[r].debits /\ run'[r].billed = run[r].billed
      /\ run'[r].cents = run[r].cents
  BY <1>1 DEF BillInv
<1>3. OpenSums'
  BY <1>1, <1>2 DEF SumInv, OpenSums
<1>4. CommittedSums'
  BY <1>1, <1>2, SumsKept DEF SumInv, Committed
<1> QED BY <1>3, <1>4 DEF SumInv

LEMMA SumStep ==
  ASSUME BillInv, SumInv, NEW r \in Runs, Bill(r) \/ FailRun(r)
  PROVE  SumInv'
<1>1. CASE ReadOrgs(r)
  <2> DEFINE new == [run[r] EXCEPT !.pc = "insert", !.left = {o \in Orgs : status[o] = "active"}]
  <2>1. run[r] = NewRun /\ run' = [run EXCEPT ![r] = new] /\ fees' = fees
    BY <1>1 DEF ReadOrgs, SumInv, OpenSums
  <2>2. new.pc = "insert" /\ new.debits = {} /\ new.billed = 0 /\ new.cents = 0
    BY <2>1 DEF NewRun
  <2>3. run[r].pc = "read"
    BY <1>1 DEF ReadOrgs
  <2> HIDE DEF new
  <2> QED BY <2>1, <2>2, <2>3, EmptyStep
<1>2. CASE ResolveDeadlock(r) \/ Undoes(r)
  <2> DEFINE new == [NewRun EXCEPT !.pc = "failed"]
  <2>1. run' = [run EXCEPT ![r] = new] /\ fees' = fees /\ run[r].pc \in {"read", "insert"}
    BY <1>2 DEF ResolveDeadlock, Undoes, RollbackRun, InCircle, MayWaitFor
  <2>2. new.pc = "failed" /\ new.debits = {} /\ new.billed = 0 /\ new.cents = 0
    BY DEF NewRun
  <2> HIDE DEF new
  <2> QED BY <2>1, <2>2, EmptyStep
<1>3. ASSUME NEW o \in Orgs, InsertFee(r, o) PROVE SumInv'
  BY <1>3, InsertSums
<1>4. CASE CommitRun(r)
  BY <1>4, CommitSums
<1>5. CASE Tells(r)
  BY <1>5, TellSums
<1> QED BY <1>1, <1>2, <1>3, <1>4, <1>5, BillCases

LEMMA SumFrame == ASSUME SumInv, UNCHANGED billing PROVE SumInv'
<1>1. OpenSums'
  BY DEF SumInv, OpenSums, billing
<1>2. CommittedSums'
  BY SumsKept DEF SumInv, billing, Committed
<1> QED BY <1>1, <1>2 DEF SumInv

-----------------------------------------------------------------------------
LEMMA InitIInv == Init => IInv
<1> SUFFICES ASSUME Init PROVE IInv
  OBVIOUS
<1>1. CallType
  BY DEF Init, CallType
<1>2. \A c \in Calls : pc[c] = "check" /\ ~Open(c)
  BY DEF Init, Open
<1>3. Claims /\ OpenApart /\ Owners /\ Apart
  BY <1>2, Kinds DEF Init, Claims, OpenApart, Owners, Apart, Exists, Orgs
<1>4. BillInv
  BY DEF Init, BillInv, NewRun
<1>5. OpenSums
  BY DEF Init, OpenSums, NewRun
<1>6. CommittedSums
  <2>1. \A p \in Periods : FeesOf(p) = {} /\ CommittedIn(p) = {}
    BY DEF Init, FeesOf, CommittedIn, Committed, NewRun
  <2>2. IsFiniteSet({}) /\ Cardinality({}) = 0 /\ Fee * 0 = 0
    BY FS_EmptySet, RunsAssumption
  <2> QED BY <2>1, <2>2, NoUnits DEF CommittedSums, ReportsMatchFees
<1>7. faults \in 0..MaxFaults
  BY RunsAssumption DEF Init
<1> QED BY <1>1, <1>3, <1>4, <1>5, <1>6, <1>7 DEF IInv, CallInv, SumInv

LEMMA NextIInv == IInv /\ [Next]_vars => IInv'
<1> SUFFICES ASSUME IInv, [Next]_vars PROVE IInv'
  OBVIOUS
<1> USE DEF IInv
<1>1. ASSUME NEW c \in Calls, Serve(c) PROVE IInv'
  <2>1. CallInv'
    BY <1>1, CheckSlugStep, WriteSlugStep, InsertOwnerStep, RegisterStep, CommitStep DEF Serve
  <2>2. UNCHANGED <<billing, faults>>
    BY <1>1 DEF Serve, CheckSlug, WriteSlug, InsertOwner, RegisterAsClient, Commit
  <2> QED BY <2>1, <2>2, BillFrame, SumFrame
<1>2. ASSUME NEW c \in Calls, FailCall(c) PROVE IInv'
  BY <1>2, RefuseStep, BillFrame, SumFrame, FaultStep DEF FailCall
<1>3. ASSUME NEW r \in Runs, Bill(r) PROVE IInv'
  <2>1. UNCHANGED <<calls, faults>>
    BY <1>3 DEF Bill, ReadOrgs, InsertFee, CommitRun, AnswerRun, ResolveDeadlock
  <2> QED BY <1>3, <2>1, BillStep, SumStep, CallFrame
<1>4. ASSUME NEW r \in Runs, FailRun(r) PROVE IInv'
  BY <1>4, BillStep, SumStep, CallFrame, FaultStep DEF FailRun
<1>5. ASSUME NEW o \in Orgs, Suspend(o) \/ Reactivate(o) \/ Cancel(o) PROVE IInv'
  <2>1. CallInv'
    BY <1>5, ChangeStatusStep DEF Suspend, Reactivate, Cancel
  <2>2. UNCHANGED <<billing, faults>>
    BY <1>5 DEF Suspend, Reactivate, Cancel, ChangeStatus
  <2> QED BY <2>1, <2>2, BillFrame, SumFrame
<1>6. CASE UNCHANGED vars
  BY <1>6, CallFrame, BillFrame, SumFrame DEF vars
<1> QED BY <1>1, <1>2, <1>3, <1>4, <1>5, <1>6 DEF Next

\* In every reachable state the calls that are open cannot clash when they
\* commit: the inductive invariant of Organizations.
THEOREM Invariance == Spec => []IInv
BY InitIInv, NextIInv, PTL DEF Spec

\* The variables keep their types, and a request that has ended holds nothing.
THEOREM TypeCorrect == Spec => []TypeOK
BY Invariance, InvGivesProperties, PTL

\* Creates and renames that overlap, in whatever order they write, fail and
\* commit, never give one slug or one owner to two organizations.
THEOREM OneSlugEach == Spec => []SlugsUnique
BY Invariance, InvGivesProperties, PTL

\* The summaries of overlapping, failed and repeated billings of a period add up
\* to its fees in the ledger, for any number of organizations and billings.
THEOREM SummariesAddUp == Spec => []ReportsMatchFees
BY Invariance, InvGivesProperties, PTL

\* While a create or a rename is not answered one of them can go on, and
\* billings that all wait do so in a circle that PostgreSQL breaks.
THEOREM SomeoneGoesOn == Spec => []NobodyStuck
BY Invariance, InvGivesProperties, PTL

-----------------------------------------------------------------------------
(***************************************************************************)
(* Organizations implements Registry: creates and renames take effect at   *)
(* their commit, a billing begins with its SELECT and ends with its        *)
(* commit, and every other statement is a stutter.                         *)
(***************************************************************************)
LEMMA BillsKept == ASSUME UNCHANGED billing PROVE UNCHANGED Register!bills
BY DEF billing, Register!bills, Phase, Due, Made, Told, Committed, Summary, Key

LEMMA OrgsKept == ASSUME UNCHANGED calls PROVE UNCHANGED Register!orgs
BY DEF calls, Register!orgs

LEMMA InitRegister == Init => Register!Init
<1> SUFFICES ASSUME Init PROVE Register!Init
  OBVIOUS
<1>1. \A r \in Runs : /\ Phase(r) = "new" /\ Due(r) = {}
                    /\ Made(r) = [billed |-> 0, cents |-> 0] /\ Told(r) = Made(r)
  BY DEF Init, NewRun, Phase, Due, Made, Told, Committed, NoSummary
<1>2. {c \in Calls : pc[c] = "done"} = {}
  BY DEF Init
<1> QED BY <1>1, <1>2 DEF Init, Register!Init, Orgs

\* The commit of a create or a rename: what OpenApart and Owners say of the open
\* transaction is what the registry asks for.
LEMMA CommitRegisters ==
  ASSUME CallInv, NEW c \in Calls, Commit(c)
  PROVE  Register!Next
<1> DEFINE o == IF c \in Creates THEN c ELSE TargetOf[c]
           served == {d \in Calls : pc[d] = "done"}
<1>1. /\ pc[c] = "commit" /\ pc' = [pc EXCEPT ![c] = "done"]
      /\ slug' = [slug EXCEPT ![o] = SlugOf[c]]
      /\ status' = [status EXCEPT ![o] = IF c \in Creates THEN "active" ELSE @]
      /\ UNCHANGED billing
  BY DEF Commit, Step
<1>2. o \in Creates /\ Open(c) /\ ~Clash(c)
  BY <1>1, Kinds DEF CallInv, Claims, OpenApart, Calls, Orgs
<1>3. c \notin served /\ served' = served \cup {c}
  BY <1>1 DEF CallInv, CallType
<1>4. \A p \in Creates \ {o} : Register!Exists(p) => slug[p] # SlugOf[c]
  BY <1>2, Kinds DEF Register!Exists, Exists, Clash, Orgs
<1>5. Register!Give(o, c)
  BY <1>1, <1>3, <1>4, BillsKept DEF Register!Give
<1>6. CASE c \in Creates
  <2>1. ~Register!Exists(c)
    BY <1>1, <1>6 DEF CallInv, Apart, Exists, Register!Exists, Orgs
  <2>2. ASSUME NEW p \in Creates, Register!Exists(p) PROVE EmailOf[p] # EmailOf[c]
    <3>1. pc[p] = "done" /\ p # c
      BY <1>1, <2>2 DEF CallInv, Apart, Exists, Register!Exists, Orgs
    <3>2. p \in owner /\ c \in owner
      BY <1>1, <1>6, <3>1 DEF CallInv, Owners
    <3> QED BY <3>1, <3>2 DEF CallInv, Owners
  <2>3. Register!Create(c)
    BY <1>1, <1>5, <1>6, <2>1, <2>2 DEF Register!Create
  <2> QED BY <1>6, <2>3 DEF Register!Next
<1>7. CASE c \in Edits
  <2>1. c \notin Creates /\ o = TargetOf[c]
    BY <1>7, CallsAssumption
  <2>2. Register!Exists(TargetOf[c])
    BY <1>2, <1>7 DEF CallInv, OpenApart, Exists, Register!Exists
  <2>3. UNCHANGED status
    BY <1>1, <2>1 DEF CallInv, CallType
  <2>4. Register!Rename(c)
    BY <1>5, <2>1, <2>2, <2>3 DEF Register!Rename
  <2> QED BY <1>7, <2>4 DEF Register!Next
<1> QED BY <1>6, <1>7 DEF Calls

\* No other statement of a create or a rename shows.
LEMMA CallRegisters ==
  ASSUME CallInv, NEW c \in Calls, Serve(c) \/ FailCall(c)
  PROVE  Register!Next \/ UNCHANGED Register!rvars
<1>1. CASE Commit(c)
  BY <1>1, CommitRegisters
<1>2. CASE ~Commit(c)
  <2>1. \E l \in {"write", "owner", "platform", "commit", "refused"} : pc' = [pc EXCEPT ![c] = l]
    BY <1>2 DEF Serve, CheckSlug, WriteSlug, InsertOwner, RegisterAsClient, FailCall, Refuse, Step
  <2>2. pc[c] # "done" /\ UNCHANGED <<status, slug, billing>>
    BY <1>2 DEF Serve, CheckSlug, WriteSlug, InsertOwner, RegisterAsClient, FailCall, Refuse, Step
  <2>3. {d \in Calls : pc[d] = "done"}' = {d \in Calls : pc[d] = "done"}
    BY <2>1, <2>2 DEF CallInv, CallType
  <2>4. UNCHANGED Register!orgs /\ UNCHANGED Register!bills
    BY <2>2, <2>3, BillsKept DEF Register!orgs
  <2> QED BY <2>4 DEF Register!rvars, Register!orgs, Register!bills
<1> QED BY <1>1, <1>2

LEMMA ChangeRegisters ==
  ASSUME NEW o \in Orgs, Suspend(o) \/ Reactivate(o) \/ Cancel(o)
  PROVE  Register!Next
<1>1. PICK to \in {"active", "suspended", "cancelled"} :
        /\ status[o] \in {"active", "suspended"} \ {to}
        /\ status' = [status EXCEPT ![o] = to]
        /\ UNCHANGED <<slug, pc, billing>>
  BY DEF Suspend, Reactivate, Cancel, ChangeStatus
<1>2. Register!Change(o, to)
  BY <1>1, BillsKept DEF Register!Change
<1> QED BY <1>2 DEF Register!Next, Orgs

\* A step of one billing that commits no fee changes what the registry knows of
\* that billing only.
LEMMA OneBilling ==
  ASSUME NEW r \in Runs, UNCHANGED <<calls, fees>>,
         \A q \in Runs \ {r} : run'[q] = run[q]
  PROVE  /\ UNCHANGED Register!orgs
         /\ [q \in Runs |-> Phase(q)]' = [[q \in Runs |-> Phase(q)] EXCEPT ![r] = Phase(r)']
         /\ [q \in Runs |-> Due(q)]' = [[q \in Runs |-> Due(q)] EXCEPT ![r] = Due(r)']
         /\ [q \in Runs |-> Made(q)]' = [[q \in Runs |-> Made(q)] EXCEPT ![r] = Made(r)']
         /\ [q \in Runs |-> Told(q)]' = [[q \in Runs |-> Told(q)] EXCEPT ![r] = Told(r)']
<1>1. \A q \in Runs \ {r} : /\ Phase(q)' = Phase(q) /\ Due(q)' = Due(q)
                            /\ Made(q)' = Made(q) /\ Told(q)' = Told(q)
  BY DEF Phase, Due, Made, Told, Committed, Summary, Key
<1> QED BY <1>1, OrgsKept

LEMMA ReadRegisters ==
  ASSUME BillInv, OpenSums, NEW r \in Runs, ReadOrgs(r)
  PROVE  Register!Begin(r)
<1>1. /\ run[r].pc = "read" /\ UNCHANGED <<calls, fees>> /\ run[r] = NewRun
      /\ \A q \in Runs \ {r} : run'[q] = run[q]
  BY DEF ReadOrgs, BillInv, OpenSums
<1>2. /\ run'[r].pc = "insert" /\ run'[r].debits = {}
      /\ run'[r].left = {o \in Orgs : status[o] = "active"}
  BY <1>1 DEF ReadOrgs, BillInv, NewRun
<1>3. /\ Phase(r) = "new" /\ Phase(r)' = "open"
      /\ Made(r)' = Made(r) /\ Told(r)' = Told(r)
  BY <1>1, <1>2 DEF Phase, Made, Told, Committed
<1>4. Due(r)' = {o \in Creates : status[o] = "active" /\ <<o, PeriodOf[r]>> \notin fees}
  BY <1>1, <1>2 DEF Due, Key, Orgs
<1> QED BY <1>1, <1>3, <1>4, OneBilling DEF Register!Begin, Register!Move

LEMMA FailRegisters ==
  ASSUME BillInv, NEW r \in Runs, RollbackRun(r), run[r].pc \in {"read", "insert"},
         UNCHANGED <<calls, fees>>
  PROVE  Register!GiveUp(r)
<1>1. \A q \in Runs \ {r} : run'[q] = run[q]
  BY DEF RollbackRun, BillInv
<1>2. run'[r].pc = "failed" /\ run'[r].left = {} /\ run'[r].debits = {}
  BY DEF RollbackRun, BillInv, NewRun
<1>3. /\ Phase(r) \in {"new", "open"} /\ Phase(r)' = "failed" /\ Due(r)' = {}
      /\ Made(r)' = Made(r) /\ Told(r)' = Told(r)
  BY <1>2 DEF Phase, Made, Told, Committed, Due
<1> QED BY <1>1, <1>3, OneBilling DEF Register!GiveUp, Register!Move

\* What an INSERT moves from the organizations that are left to the debits, or
\* leaves out because another billing has committed it, does not change what
\* the billing is still to debit.
LEMMA InsertRegisters ==
  ASSUME BillInv, NEW r \in Runs, NEW o \in Orgs, InsertFee(r, o)
  PROVE  UNCHANGED Register!rvars
<1>1. /\ UNCHANGED <<calls, fees>> /\ \A q \in Runs \ {r} : run'[q] = run[q]
      /\ o \in run[r].left /\ run[r].pc = "insert" /\ run'[r].pc = "insert"
      /\ run'[r].left = run[r].left \ {o}
      /\ run'[r].debits = run[r].debits \cup ({Key(o, r)} \ fees)
  BY DEF InsertFee, BillInv
<1>2. \A p \in Orgs : Key(p, r) = Key(o, r) <=> p = o
  BY DEF Key
<1>3. /\ Due(r)' = Due(r) /\ Phase(r)' = Phase(r)
      /\ Made(r)' = Made(r) /\ Told(r)' = Told(r)
  <2>1. \A p \in Orgs : Key(p, r)' = Key(p, r)
    BY DEF Key
  <2>2. Due(r)' = Due(r)
    BY <1>1, <1>2, <2>1 DEF Due
  <2> QED BY <1>1, <2>2 DEF Phase, Made, Told, Committed
<1> QED BY <1>1, <1>3, OneBilling DEF Register!rvars, Register!orgs

LEMMA TellRegisters ==
  ASSUME BillInv, NEW r \in Runs, Tells(r)
  PROVE  Register!Tell(r) \/ Register!Lose(r)
<1>1. PICK l \in {"done", "lost"} :
        run[r].pc = "answer" /\ run' = [run EXCEPT ![r].pc = l] /\ UNCHANGED <<calls, fees>>
  BY DEF Tells
<1>2. /\ \A q \in Runs \ {r} : run'[q] = run[q]
      /\ run'[r].pc = l /\ run'[r].debits = run[r].debits /\ run'[r].left = run[r].left
      /\ run'[r].billed = run[r].billed /\ run'[r].cents = run[r].cents
  BY <1>1 DEF BillInv
<1>3. /\ Phase(r) = "billed" /\ Phase(r)' = l /\ Due(r)' = Due(r) /\ Made(r)' = Made(r)
      /\ Told(r)' = IF l = "done" THEN Made(r) ELSE Told(r)
  BY <1>1, <1>2 DEF Phase, Due, Key, Made, Told, Committed, Summary
<1> QED BY <1>1, <1>2, <1>3, OneBilling DEF Register!Tell, Register!Lose, Register!Move

\* A commit enters exactly what was due, and tells how much it was.
LEMMA BillRegisters ==
  ASSUME BillInv, OpenSums, NEW r \in Runs, CommitRun(r)
  PROVE  Register!Bill(r)
<1> DEFINE D == run[r].debits
<1>1. /\ run[r].pc = "insert" /\ run[r].left = {} /\ UNCHANGED calls
      /\ fees' = fees \cup D /\ \A q \in Runs \ {r} : run'[q] = run[q]
      /\ run'[r].pc = "answer" /\ run'[r].left = {} /\ run'[r].debits = {}
      /\ run'[r].billed = run[r].billed /\ run'[r].cents = run[r].cents
  BY DEF CommitRun, BillInv
<1>2. /\ run[r].billed = Cardinality(D) /\ run[r].cents = Fee * Cardinality(D)
      /\ \A k \in D : k[2] = PeriodOf[r] /\ k \notin fees
  BY <1>1 DEF OpenSums
<1>3. D \subseteq Orgs \X Periods
  BY DEF BillInv
<1>4. \A k \in D : k = <<k[1], PeriodOf[r]>> /\ k[1] \in Orgs
  BY <1>2, <1>3
<1>5. Due(r) = {o \in Orgs : <<o, PeriodOf[r]>> \in D}
  BY <1>1, <1>2 DEF Due, Key
<1>6. D = Due(r) \X {PeriodOf[r]}
  <2> HIDE DEF D
  <2>1. \A k \in D : k \in Due(r) \X {PeriodOf[r]}
    BY <1>4, <1>5
  <2>2. \A k \in Due(r) \X {PeriodOf[r]} : k \in D
    BY <1>5
  <2> QED BY <2>1, <2>2
<1> HIDE DEF D
<1>7. ASSUME NEW q \in Runs
      PROVE  Due(q)' = IF PeriodOf[q] = PeriodOf[r] THEN Due(q) \ Due(r) ELSE Due(q)
  <2>1. CASE q = r
    BY <1>1, <2>1 DEF Due
  <2>2. CASE q # r
    <3>1. Due(q)' = {o \in Due(q) : <<o, PeriodOf[q]>> \notin D}
      BY <1>1, <2>2 DEF Due, Key
    <3>2. CASE PeriodOf[q] = PeriodOf[r]
      <4>1. Due(q) \subseteq Orgs
        BY DEF Due
      <4> QED BY <1>5, <3>1, <3>2, <4>1
    <3>3. CASE PeriodOf[q] # PeriodOf[r]
      BY <1>2, <3>1, <3>3
    <3> QED BY <3>2, <3>3
  <2> QED BY <2>1, <2>2
<1>8. /\ Phase(r) = "open" /\ Phase(r)' = "billed" /\ Told(r)' = Told(r)
      /\ Made(r)' = [billed |-> Cardinality(D), cents |-> Fee * Cardinality(D)]
      /\ \A q \in Runs \ {r} : /\ Phase(q)' = Phase(q)
                               /\ Made(q)' = Made(q) /\ Told(q)' = Told(q)
  BY <1>1, <1>2 DEF Phase, Made, Told, Committed, Summary
<1>9. Register!Move(r, {"open"}, "billed")
  BY <1>1, <1>8, OrgsKept DEF Register!Move
<1>10. \A S : Register!Cardinality(S) = Cardinality(S)
  BY DEF Register!Cardinality, Cardinality
<1>11. /\ [q \in Runs |-> Made(q)]'
            = [[q \in Runs |-> Made(q)] EXCEPT ![r] =
                 [billed |-> Register!Cardinality(D), cents |-> Fee * Register!Cardinality(D)]]
       /\ [q \in Runs |-> Told(q)]' = [q \in Runs |-> Told(q)]
  BY <1>8, <1>10
<1>12. [q \in Runs |-> Due(q)]'
         = [q \in Runs |-> IF PeriodOf[q] = PeriodOf[r]
              THEN [p \in Runs |-> Due(p)][q] \ [p \in Runs |-> Due(p)][r]
              ELSE [p \in Runs |-> Due(p)][q]]
  BY <1>7
<1> QED BY <1>1, <1>6, <1>9, <1>11, <1>12 DEF Register!Bill

LEMMA NextRegister ==
  IInv /\ [Next]_vars => [Register!Next]_(Register!rvars)
<1> SUFFICES ASSUME IInv, [Next]_vars PROVE Register!Next \/ UNCHANGED Register!rvars
  OBVIOUS
<1> USE DEF IInv, SumInv
<1>1. ASSUME NEW c \in Calls, Serve(c) \/ FailCall(c)
      PROVE  Register!Next \/ UNCHANGED Register!rvars
  BY <1>1, CallRegisters
<1>2. ASSUME NEW r \in Runs, Bill(r) \/ FailRun(r)
      PROVE  Register!Next \/ UNCHANGED Register!rvars
  <2>1. CASE ReadOrgs(r)
    BY <2>1, ReadRegisters DEF Register!Next
  <2>2. CASE ResolveDeadlock(r) \/ Undoes(r)
    <3>1. RollbackRun(r) /\ run[r].pc \in {"read", "insert"} /\ UNCHANGED <<calls, fees>>
      BY <2>2 DEF ResolveDeadlock, Undoes, InCircle, MayWaitFor
    <3> QED BY <3>1, FailRegisters DEF Register!Next
  <2>3. ASSUME NEW o \in Orgs, InsertFee(r, o) PROVE UNCHANGED Register!rvars
    BY <2>3, InsertRegisters
  <2>4. CASE CommitRun(r)
    BY <2>4, BillRegisters DEF Register!Next
  <2>5. CASE Tells(r)
    BY <2>5, TellRegisters DEF Register!Next
  <2> QED BY <1>2, <2>1, <2>2, <2>3, <2>4, <2>5, BillCases
<1>3. ASSUME NEW o \in Orgs, Suspend(o) \/ Reactivate(o) \/ Cancel(o) PROVE Register!Next
  BY <1>3, ChangeRegisters
<1>4. CASE UNCHANGED vars
  BY <1>4, BillsKept, OrgsKept DEF vars, Register!rvars, Register!orgs, Register!bills
<1> QED BY <1>1, <1>2, <1>3, <1>4 DEF Next

\* However creates, renames, changes of status and billings overlap and fail,
\* they implement the registry: a billing that ends has left no organization
\* without a fee that was active when it began, and has debited none twice.
THEOREM Refinement == Spec => ImplementsRegistry
<1>1. Init => Register!Init
  BY InitRegister
<1>2. IInv /\ [Next]_vars => [Register!Next]_(Register!rvars)
  BY NextRegister
<1> QED BY <1>1, <1>2, Invariance, PTL DEF Spec, ImplementsRegistry, Register!Spec
=============================================================================
