------------------------- MODULE PrepaidLedgerProofs -------------------------
(***************************************************************************)
(* Proofs about PrepaidLedger for any number of requests, clients, keys    *)
(* and calls.  The balance is a cardinality, so the arithmetic rests on    *)
(* the library's facts about finite sets; the rest is one inductive        *)
(* invariant, IInv.                                                        *)
(***************************************************************************)
EXTENDS PrepaidLedger, FiniteSetTheorems, TLAPS

(***************************************************************************)
(* Sums of amounts                                                         *)
(***************************************************************************)

\* The cents of a row are as many as its amount.
LEMMA CentsOfRow ==
  ASSUME NEW x, x.amount \in Nat
  PROVE  /\ IsFiniteSet(Cents({x}))
         /\ Total({x}) = x.amount
<1>1. Cents({x}) = {x} \X (1 .. x.amount)
  BY DEF Cents
<1>2. IsFiniteSet({x}) /\ Cardinality({x}) = 1
  BY FS_Singleton
<1>3. IsFiniteSet(1 .. x.amount) /\ Cardinality(1 .. x.amount) = x.amount
  BY FS_Interval
<1>4. /\ IsFiniteSet({x} \X (1 .. x.amount))
      /\ Cardinality({x} \X (1 .. x.amount)) = 1 * x.amount
  BY <1>2, <1>3, FS_Product
<1>5. IsFiniteSet(Cents({x})) /\ Total({x}) = 1 * x.amount
  BY <1>1, <1>4, Zenon DEF Total
<1>6. 1 * x.amount = x.amount
  OBVIOUS
<1> QED
  BY <1>5, <1>6, Zenon

\* Some of the rows of a finite book stand for finitely many cents.
LEMMA CentsOfSubset ==
  ASSUME NEW S, NEW T \in SUBSET S, IsFiniteSet(Cents(S))
  PROVE  IsFiniteSet(Cents(T)) /\ Total(T) \in Nat
<1>1. Cents(T) \subseteq Cents(S)
  BY DEF Cents
<1>2. IsFiniteSet(Cents(T))
  BY <1>1, FS_Subset
<1> QED
  BY <1>2, FS_CardinalityType DEF Total

\* A row that is not yet there adds its amount.
LEMMA TotalAdd ==
  ASSUME NEW S, IsFiniteSet(Cents(S)), NEW x, x \notin S, x.amount \in Nat
  PROVE  /\ IsFiniteSet(Cents(S \cup {x}))
         /\ Total(S \cup {x}) = Total(S) + x.amount
<1>1. Cents(S \cup {x}) = Cents(S) \cup Cents({x})
  BY DEF Cents
<1>2. Cents(S) \cap Cents({x}) = {}
  BY DEF Cents
<1>3. IsFiniteSet(Cents({x})) /\ Total({x}) = x.amount
  BY CentsOfRow
<1>4. Total(S) \in Nat
  BY FS_CardinalityType DEF Total
<1>5. Cardinality(Cents(S) \cap Cents({x})) = 0
  BY <1>2, FS_EmptySet
<1>6. /\ IsFiniteSet(Cents(S) \cup Cents({x}))
      /\ Cardinality(Cents(S) \cup Cents({x}))
           = Cardinality(Cents(S)) + Cardinality(Cents({x}))
               - Cardinality(Cents(S) \cap Cents({x}))
  BY <1>3, FS_Union
<1>7. Total(S \cup {x}) = Total(S) + Total({x}) - 0
  BY <1>1, <1>5, <1>6, Zenon DEF Total
<1>8. IsFiniteSet(Cents(S \cup {x}))
  BY <1>1, <1>6, Zenon
<1> QED
  BY <1>3, <1>4, <1>7, <1>8

(***************************************************************************)
(* The balance                                                             *)
(***************************************************************************)

LEMMA BalanceInt ==
  ASSUME FreshInv, NEW c
  PROVE  Balance(c) \in Int
<1>1. RowsOf(c, "credit") \subseteq ledger /\ RowsOf(c, "debit") \subseteq ledger
  BY DEF RowsOf
<1>2. Total(RowsOf(c, "credit")) \in Nat /\ Total(RowsOf(c, "debit")) \in Nat
  BY <1>1, CentsOfSubset DEF FreshInv
<1> QED
  BY <1>2 DEF Balance

LEMMA BalanceUnchanged ==
  ASSUME ledger' = ledger
  PROVE  \A c : Balance(c)' = Balance(c)
BY DEF Balance, RowsOf

\* A new row moves the balance of its own client by its amount, and no other.
LEMMA BalanceAfterRow ==
  ASSUME FreshInv, NEW x, x.amount \in Nat, x.kind \in {"credit", "debit"},
         x \notin ledger, ledger' = ledger \cup {x}
  PROVE  /\ IsFiniteSet(Cents(ledger'))
         /\ \A c : Balance(c)' = IF c # x.client THEN Balance(c)
                                 ELSE IF x.kind = "credit" THEN Balance(c) + x.amount
                                 ELSE Balance(c) - x.amount
<1>1. IsFiniteSet(Cents(ledger'))
  BY TotalAdd DEF FreshInv
<1>2. ASSUME NEW c, NEW k
      PROVE  Total(RowsOf(c, k)') = IF c = x.client /\ k = x.kind
                                      THEN Total(RowsOf(c, k)) + x.amount
                                      ELSE Total(RowsOf(c, k))
  <2>1. CASE c = x.client /\ k = x.kind
    <3>1. RowsOf(c, k)' = RowsOf(c, k) \cup {x} /\ x \notin RowsOf(c, k)
      BY <2>1 DEF RowsOf
    <3>2. RowsOf(c, k) \in SUBSET ledger
      BY DEF RowsOf
    <3>3. IsFiniteSet(Cents(RowsOf(c, k)))
      BY <3>2, CentsOfSubset DEF FreshInv
    <3> QED
      BY <2>1, <3>1, <3>3, TotalAdd
  <2>2. CASE ~(c = x.client /\ k = x.kind)
    <3>1. RowsOf(c, k)' = RowsOf(c, k)
      BY <2>2 DEF RowsOf
    <3> QED
      BY <2>2, <3>1
  <2> QED
    BY <2>1, <2>2
<1>3. ASSUME NEW c
      PROVE  Balance(c)' = IF c # x.client THEN Balance(c)
                           ELSE IF x.kind = "credit" THEN Balance(c) + x.amount
                           ELSE Balance(c) - x.amount
  <2> DEFINE C == Total(RowsOf(c, "credit"))
             D == Total(RowsOf(c, "debit"))
  <2>1. RowsOf(c, "credit") \subseteq ledger /\ RowsOf(c, "debit") \subseteq ledger
    BY DEF RowsOf
  <2>2. C \in Nat /\ D \in Nat
    BY <2>1, CentsOfSubset DEF FreshInv
  <2>3. Balance(c)' = Total(RowsOf(c, "credit")') - Total(RowsOf(c, "debit")')
    BY DEF Balance, Total, Cents
  <2>4. /\ Total(RowsOf(c, "credit")') = IF c = x.client /\ "credit" = x.kind
                                           THEN C + x.amount ELSE C
        /\ Total(RowsOf(c, "debit")') = IF c = x.client /\ "debit" = x.kind
                                          THEN D + x.amount ELSE D
    BY <1>2
  <2>5. Balance(c) = C - D
    BY DEF Balance
  <2> HIDE DEF C, D
  <2>6. CASE c # x.client
    BY <2>3, <2>4, <2>5, <2>6
  <2>7. CASE c = x.client /\ x.kind = "credit"
    BY <2>2, <2>3, <2>4, <2>5, <2>7
  <2>8. CASE c = x.client /\ x.kind = "debit"
    BY <2>2, <2>3, <2>4, <2>5, <2>8
  <2> QED
    BY <2>6, <2>7, <2>8
<1> QED
  BY <1>1, <1>3

(***************************************************************************)
(* The inductive invariant                                                 *)
(***************************************************************************)

LEMMA JobsTyped == \A j \in Jobs : j \in JobType /\ Admissible(j)
BY JobsAssumption

LEMMA InitIInv == Init => IInv
<1> SUFFICES ASSUME Init PROVE IInv
  OBVIOUS
<1>1. Cents(ledger) = {}
  BY DEF Init, Cents
<1>2. IsFiniteSet(Cents(ledger))
  BY <1>1, FS_EmptySet
<1>3. FreshInv
  BY <1>2 DEF Init, FreshInv
<1>4. TypeOK
  BY DEF Init, TypeOK, Labels, AnswerType
<1>5. LockInv /\ PendInv /\ CoverInv /\ KeyInv /\ KeyOnce
  BY DEF Init, LockInv, HoldsLock, PendInv, CoverInv, KeyInv, KeyOnce
<1>6. NoOverdraft
  <2>1. \A c, k : Cents(RowsOf(c, k)) = {}
    BY DEF Init, RowsOf, Cents
  <2>2. \A c, k : Total(RowsOf(c, k)) = 0
    BY <2>1, FS_EmptySet DEF Total
  <2> QED
    BY <2>2 DEF NoOverdraft, Balance
<1> QED
  BY <1>3, <1>4, <1>5, <1>6 DEF IInv

\* A request that ends without booking anything.
LEMMA EndingStep ==
  ASSUME IInv, NEW r \in Requests, NEW l \in {"done", "crashed"},
         pc[r] \notin {"idle", "done", "crashed"},
         EndTx(r), Goto(r, l), UNCHANGED <<ledger, job, seen>>,
         answer' \in [Requests -> AnswerType]
  PROVE  IInv'
<1> USE DEF IInv
<1>1. /\ pc' = [pc EXCEPT ![r] = l]
      /\ lock' = [c \in Clients |-> IF lock[c] = r THEN NoRequest ELSE lock[c]]
      /\ pend' = [pend EXCEPT ![r] = {}]
  BY DEF EndTx, Goto
<1>2. \A c : Balance(c)' = Balance(c)
  BY BalanceUnchanged
<1>3. \A s \in Requests : EntryOf(s)' = EntryOf(s)
  BY DEF EntryOf, Row, EntryId
<1>4. TypeOK'
  BY <1>1 DEF TypeOK, Labels
<1>5. LockInv'
  <2> SUFFICES ASSUME NEW s \in Requests
               PROVE  /\ HoldsLock(s)' => lock'[job[s].client] = s
                      /\ pc'[s] \in {"lock", "replay", "price"} => job[s].op \in Locked
    BY DEF LockInv
  <2>1. CASE s = r
    BY <1>1, <2>1 DEF HoldsLock, TypeOK
  <2>2. CASE s # r
    <3>1. pc'[s] = pc[s] /\ HoldsLock(s)' = HoldsLock(s)
      BY <1>1, <2>2 DEF HoldsLock, TypeOK
    <3>2. ASSUME HoldsLock(s) PROVE lock'[job[s].client] = s
      <4>1. pc[s] # "idle"
        BY <3>2 DEF HoldsLock
      <4>2. job[s].client \in Clients
        BY <4>1, JobsTyped DEF TypeOK, JobType
      <4>3. lock[job[s].client] = s
        BY <3>2 DEF LockInv
      <4> QED
        BY <1>1, <2>2, <4>2, <4>3
    <3> QED
      BY <3>1, <3>2 DEF LockInv
  <2> QED
    BY <2>1, <2>2
<1>6. PendInv'
  BY <1>1, <1>3 DEF PendInv, TypeOK, Accrues
<1>7. FreshInv'
  BY <1>1 DEF FreshInv, TypeOK, Cents
<1>8. CoverInv'
  BY <1>1, <1>2 DEF CoverInv, TypeOK
<1>9. KeyInv'
  BY <1>1 DEF KeyInv, Recorded, TypeOK
<1>10. NoOverdraft' /\ KeyOnce'
  BY <1>2 DEF NoOverdraft, KeyOnce
<1> QED
  BY <1>4, <1>5, <1>6, <1>7, <1>8, <1>9, <1>10

\* A request that moves on without writing anything.
LEMMA MovingStep ==
  ASSUME IInv, NEW r \in Requests, NEW l \in {"lock", "replay", "price", "insert"},
         pc[r] \in {"idle", "lock", "replay", "price"}, Goto(r, l),
         \A s \in Requests \ {r} : job'[s] = job[s],
         job' \in [Requests -> Jobs \cup {NoJob}], job'[r] \in Jobs,
         seen' \in [Requests -> Int], UNCHANGED <<ledger, pend, answer>>,
         lock' \in [Clients -> Requests \cup {NoRequest}],
         \A c \in Clients : lock[c] \in Requests => lock'[c] = lock[c],
         l \in {"lock", "replay", "price"} => job'[r].op \in Locked,
         HoldsLock(r)' => lock'[job'[r].client] = r,
         \A s \in Requests \ {r} : seen'[s] = seen[s],
         l = "insert" /\ job'[r].op \in Locked /\ job'[r].client \in Customers
           => /\ seen'[r] <= Balance(job'[r].client)
              /\ job'[r].op \in Debits => job'[r].amount <= seen'[r]
  PROVE  IInv'
<1> USE DEF IInv
<1>1. pc' = [pc EXCEPT ![r] = l]
  BY DEF Goto
<1>2. \A c : Balance(c)' = Balance(c)
  BY BalanceUnchanged
<1>3. \A s \in Requests \ {r} : EntryOf(s)' = EntryOf(s)
  BY DEF EntryOf, Row, EntryId
<1>4. TypeOK'
  BY <1>1 DEF TypeOK, Labels
<1>5. LockInv'
  <2> SUFFICES ASSUME NEW s \in Requests
               PROVE  /\ HoldsLock(s)' => lock'[job'[s].client] = s
                      /\ pc'[s] \in {"lock", "replay", "price"} => job'[s].op \in Locked
    BY DEF LockInv
  <2>1. CASE s = r
    BY <1>1, <2>1 DEF TypeOK
  <2>2. CASE s # r
    <3>1. pc'[s] = pc[s] /\ job'[s] = job[s] /\ HoldsLock(s)' = HoldsLock(s)
      BY <1>1, <2>2 DEF HoldsLock, TypeOK
    <3>2. ASSUME HoldsLock(s) PROVE lock'[job[s].client] = s
      <4>1. pc[s] # "idle"
        BY <3>2 DEF HoldsLock
      <4>2. job[s].client \in Clients
        BY <4>1, JobsTyped DEF TypeOK, JobType
      <4>3. lock[job[s].client] = s
        BY <3>2 DEF LockInv
      <4> QED
        BY <4>2, <4>3
    <3> QED
      BY <3>1, <3>2 DEF LockInv
  <2> QED
    BY <2>1, <2>2
<1>6. PendInv'
  BY <1>1, <1>3 DEF PendInv, TypeOK, Accrues
<1>7. FreshInv'
  BY <1>1 DEF FreshInv, TypeOK, Cents
<1>8. CoverInv'
  BY <1>1, <1>2 DEF CoverInv, TypeOK
<1>9. KeyInv'
  BY <1>1 DEF KeyInv, Recorded, TypeOK
<1>10. NoOverdraft' /\ KeyOnce'
  BY <1>2 DEF NoOverdraft, KeyOnce
<1> QED
  BY <1>4, <1>5, <1>6, <1>7, <1>8, <1>9, <1>10

\* The INSERT makes a row that no other open transaction and no committed row
\* competes with.
LEMMA InsertStep ==
  ASSUME IInv, NEW r \in Requests, Insert(r)
  PROVE  IInv'
<1> USE DEF IInv
<1>1. /\ pc[r] = "insert" /\ pc' = [pc EXCEPT ![r] = "commit"]
      /\ pend' = [pend EXCEPT ![r] = {EntryOf(r)}]
      /\ job[r].amount > 0
      /\ UNCHANGED <<ledger, lock, job, seen, answer>>
  BY DEF Insert, At, Goto
<1>2. \A c : Balance(c)' = Balance(c)
  BY <1>1, BalanceUnchanged
<1>3. \A s \in Requests : EntryOf(s)' = EntryOf(s)
  BY <1>1 DEF EntryOf, Row, EntryId
<1>4. TypeOK'
  <2>1. job[r] \in JobType
    BY <1>1, JobsTyped DEF TypeOK
  <2>2. EntryOf(r) \in RowType
    BY <1>1, <2>1 DEF EntryOf, Row, EntryId, RowType, JobType, KindOf
  <2> QED
    BY <1>1, <2>2 DEF TypeOK, Labels
<1>5. LockInv'
  BY <1>1 DEF LockInv, HoldsLock, TypeOK
<1>6. PendInv'
  BY <1>1, <1>3 DEF PendInv, TypeOK, Accrues
<1>7. FreshInv'
  BY <1>1 DEF FreshInv, TypeOK, Cents
<1>8. CoverInv'
  BY <1>1, <1>2 DEF CoverInv, TypeOK
<1>9. KeyInv'
  <2>1. Recorded(job[r].client, job[r].key) = {}
    BY DEF Insert
  <2>2. ASSUME NEW s \in Requests \ {r}, pc[s] = "commit"
        PROVE  \/ job[s].client # job[r].client
               \/ job[s].key # job[r].key
               \/ job[s].key = NoKey
    <3>1. pend[s] = {EntryOf(s)}
      BY <2>2 DEF PendInv
    <3>2. EntryOf(s).client = job[s].client /\ EntryOf(s).key = job[s].key
      BY DEF EntryOf, Row
    <3>3. ~HeldByOther(r, job[r].client, job[r].key)
      BY DEF Insert
    <3> QED
      BY <3>1, <3>2, <3>3 DEF HeldByOther
  <2> QED
    BY <1>1, <2>1, <2>2 DEF KeyInv, Recorded, TypeOK
<1>10. NoOverdraft' /\ KeyOnce'
  BY <1>1, <1>2 DEF NoOverdraft, KeyOnce
<1> QED
  BY <1>4, <1>5, <1>6, <1>7, <1>8, <1>9, <1>10

\* Facts about the row of an open transaction, used at its COMMIT.
LEMMA EntryFacts ==
  ASSUME IInv, NEW r \in Requests, pc[r] = "commit"
  PROVE  LET x == EntryOf(r) IN
         /\ pend[r] = {x} /\ x \in RowType /\ x \notin ledger
         /\ x.id = EntryId(r) /\ x.client = job[r].client /\ x.key = job[r].key
         /\ x.amount = job[r].amount /\ x.key \in Keys \cup {NoKey}
         /\ x.kind = (IF job[r].op \in Debits THEN "debit" ELSE "credit")
<1> USE DEF IInv
<1>1. job[r] \in JobType
  BY JobsTyped DEF TypeOK
<1>2. pend[r] = {EntryOf(r)} /\ job[r].amount > 0
  BY DEF PendInv
<1>3. EntryOf(r) \in RowType
  BY <1>1, <1>2 DEF EntryOf, Row, EntryId, RowType, JobType, KindOf
<1>4. EntryOf(r) \notin ledger
  BY DEF FreshInv, EntryOf, Row
<1> QED
  BY <1>1, <1>2, <1>3, <1>4 DEF EntryOf, Row, KindOf, JobType

\* A COMMIT books the row of its transaction.  A debit of a customer was
\* covered when it was read and no other debit of that customer has been
\* booked since, because it would have needed the same lock.
LEMMA CommitStep ==
  ASSUME IInv, NEW r \in Requests, Commit(r)
  PROVE  IInv'
<1> USE DEF IInv
<1> DEFINE x == EntryOf(r)
<1>1. PICK l \in {"accrue", "done"} :
        /\ pc' = [pc EXCEPT ![r] = l]
        /\ l = "accrue" => Accrues(job[r])
  BY DEF Commit, Goto
<1>2. /\ pc[r] = "commit"
      /\ ledger' = ledger \cup pend[r]
      /\ lock' = [c \in Clients |-> IF lock[c] = r THEN NoRequest ELSE lock[c]]
      /\ pend' = [pend EXCEPT ![r] = {}]
      /\ UNCHANGED <<job, seen>>
  BY DEF Commit, At, EndTx
<1>3. /\ pend[r] = {x} /\ x \in RowType /\ x \notin ledger
      /\ x.id = EntryId(r) /\ x.client = job[r].client /\ x.key = job[r].key
      /\ x.amount = job[r].amount /\ x.key \in Keys \cup {NoKey}
      /\ x.kind = (IF job[r].op \in Debits THEN "debit" ELSE "credit")
  BY <1>2, EntryFacts, Zenon
<1>4. \A s \in Requests : EntryOf(s)' = EntryOf(s)
  BY <1>2 DEF EntryOf, Row, EntryId
<1>5. job[r] \in JobType /\ Admissible(job[r])
  BY <1>2, JobsTyped DEF TypeOK
<1> HIDE DEF x
<1>6. ledger' = ledger \cup {x}
  BY <1>2, <1>3
<1>7. x.amount \in Nat /\ x.kind \in {"credit", "debit"}
  BY <1>3 DEF RowType
<1>8. /\ IsFiniteSet(Cents(ledger'))
      /\ \A c : Balance(c)' = IF c # x.client THEN Balance(c)
                              ELSE IF x.kind = "credit" THEN Balance(c) + x.amount
                              ELSE Balance(c) - x.amount
  BY <1>3, <1>6, <1>7, BalanceAfterRow
<1>9. \A c : Balance(c) \in Int
  BY BalanceInt
<1>10. TypeOK'
  <2>1. answer' \in [Requests -> AnswerType]
    <3>1. Reported(r) \in AnswerType
      <4>1. job[r].amount \in Nat /\ seen[r] \in Int
        BY <1>5 DEF TypeOK, JobType
      <4>2. seen[r] - job[r].amount \in Int /\ seen[r] + job[r].amount \in Int
        BY <4>1
      <4> QED
        BY <4>1, <4>2 DEF Reported, AnswerType
    <3> QED
      BY <3>1 DEF Commit, Reply, TypeOK
  <2>2. ledger' \subseteq RowType
    BY <1>3, <1>6 DEF TypeOK
  <2> QED
    BY <1>1, <1>2, <2>1, <2>2 DEF TypeOK, Labels
<1>11. LockInv'
  <2> SUFFICES ASSUME NEW s \in Requests
               PROVE  /\ HoldsLock(s)' => lock'[job[s].client] = s
                      /\ pc'[s] \in {"lock", "replay", "price"} => job[s].op \in Locked
    BY <1>2 DEF LockInv
  <2>1. CASE s = r
    BY <1>1, <1>2, <2>1 DEF HoldsLock, TypeOK
  <2>2. CASE s # r
    <3>1. pc'[s] = pc[s] /\ HoldsLock(s)' = HoldsLock(s)
      BY <1>1, <1>2, <2>2 DEF HoldsLock, TypeOK
    <3>2. ASSUME HoldsLock(s) PROVE lock'[job[s].client] = s
      <4>1. pc[s] # "idle"
        BY <3>2 DEF HoldsLock
      <4>2. job[s].client \in Clients
        BY <4>1, JobsTyped DEF TypeOK, JobType
      <4>3. lock[job[s].client] = s
        BY <3>2 DEF LockInv
      <4> QED
        BY <1>2, <2>2, <4>2, <4>3
    <3> QED
      BY <3>1, <3>2 DEF LockInv
  <2> QED
    BY <2>1, <2>2
<1>12. PendInv'
  BY <1>1, <1>2, <1>4 DEF PendInv, TypeOK, Accrues
<1>13. FreshInv'
  <2> SUFFICES ASSUME NEW y \in ledger', NEW s \in Requests
               PROVE  /\ y.id = EntryId(s) => pc'[s] \in {"accrue", "done", "crashed"}
                      /\ y.id = AccrualId(s) => pc'[s] = "done"
                      /\ y.key = AccrualKey(s) => y.id = AccrualId(s)
    BY <1>8 DEF FreshInv, EntryId, AccrualId, AccrualKey
  <2>1. CASE y = x
    <3>1. x.key # AccrualKey(s)
      BY <1>3, KeysAssumption DEF AccrualKey
    <3>2. x.id # AccrualId(s)
      BY <1>3 DEF EntryId, AccrualId
    <3>3. x.id = EntryId(s) => s = r
      BY <1>3 DEF EntryId
    <3> QED
      BY <1>1, <2>1, <3>1, <3>2, <3>3 DEF TypeOK
  <2>2. CASE y \in ledger
    <3>1. /\ y.id = EntryId(s) => pc[s] \in {"accrue", "done", "crashed"}
          /\ y.id = AccrualId(s) => pc[s] = "done"
          /\ y.key = AccrualKey(s) => y.id = AccrualId(s)
      BY <2>2 DEF FreshInv
    <3> QED
      BY <1>1, <1>2, <3>1 DEF TypeOK
  <2> QED
    BY <1>6, <2>1, <2>2
<1>14. CoverInv'
  <2> SUFFICES ASSUME NEW s \in Requests, pc'[s] \in {"insert", "commit"},
                      job[s].op \in Locked, job[s].client \in Customers,
                      NEW c, c = job[s].client
               PROVE  /\ seen[s] <= Balance(c)'
                      /\ job[s].op \in Debits => job[s].amount <= seen[s]
    BY <1>2 DEF CoverInv
  <2>1. s # r /\ pc[s] = pc'[s]
    BY <1>1 DEF TypeOK
  <2>2. seen[s] <= Balance(c) /\ (job[s].op \in Debits => job[s].amount <= seen[s])
    BY <2>1 DEF CoverInv
  <2>3. seen[s] <= Balance(c)'
    <3>1. CASE c # x.client
      BY <1>8, <2>2, <3>1
    <3>2. CASE c = x.client /\ x.kind = "credit"
      <4>1. seen[s] \in Int
        BY DEF TypeOK
      <4>2. Balance(c)' = Balance(c) + x.amount
        BY <1>8, <3>2
      <4> QED
        BY <1>7, <1>9, <2>2, <4>1, <4>2
    <3>3. CASE c = x.client /\ x.kind = "debit"
      <4>1. job[r].op \in Locked
        BY <1>3, <1>5, <3>3, ClientsAssumption DEF Admissible, Locked, Debits
      <4>2. lock[job[r].client] = r /\ lock[job[s].client] = s
        BY <1>2, <2>1, <4>1 DEF LockInv, HoldsLock
      <4> QED
        BY <1>3, <2>1, <3>3, <4>2
    <3> QED
      BY <1>7, <3>1, <3>2, <3>3
  <2> QED
    BY <2>2, <2>3
<1>15. KeyInv'
  <2> SUFFICES ASSUME NEW s \in Requests, pc'[s] = "commit"
               PROVE  /\ Recorded(job[s].client, job[s].key)' = {}
                      /\ \A t \in Requests \ {s} :
                           pc'[t] = "commit" => \/ job[t].client # job[s].client
                                               \/ job[t].key # job[s].key
                                               \/ job[t].key = NoKey
    BY <1>2 DEF KeyInv, Recorded
  <2>1. s # r /\ pc[s] = "commit"
    BY <1>1 DEF TypeOK
  <2>2. \A t \in Requests : pc'[t] = "commit" => pc[t] = "commit"
    BY <1>1 DEF TypeOK
  <2>3. Recorded(job[s].client, job[s].key)' = {}
    <3>1. Recorded(job[s].client, job[s].key) = {}
      BY <2>1 DEF KeyInv
    <3>2. \/ job[s].client # x.client \/ job[s].key # x.key \/ job[s].key = NoKey
      BY <1>2, <1>3, <2>1 DEF KeyInv
    <3> QED
      BY <1>2, <1>6, <3>1, <3>2 DEF Recorded
  <2> QED
    BY <2>1, <2>2, <2>3 DEF KeyInv
<1>16. NoOverdraft'
  <2> SUFFICES ASSUME NEW c \in Customers PROVE Balance(c)' >= 0
    BY DEF NoOverdraft
  <2>1. Balance(c) >= 0
    BY DEF NoOverdraft
  <2>2. CASE c = x.client /\ x.kind = "debit"
    <3>1. job[r].op \in Locked \cap Debits
      BY <1>3, <1>5, <2>2, ClientsAssumption DEF Admissible, Locked, Debits
    <3>2. x.amount <= seen[r] /\ seen[r] <= Balance(c)
      BY <1>2, <1>3, <2>2, <3>1 DEF CoverInv
    <3>3. x.amount <= Balance(c)
      BY <1>7, <1>9, <3>2 DEF TypeOK
    <3> QED
      BY <1>7, <1>8, <1>9, <2>2, <3>3
  <2>3. CASE ~(c = x.client /\ x.kind = "debit")
    BY <1>7, <1>8, <1>9, <2>1, <2>3
  <2> QED
    BY <2>2, <2>3
<1>17. KeyOnce'
  <2>1. Recorded(x.client, x.key) = {}
    BY <1>2, <1>3 DEF KeyInv
  <2>2. \A y \in ledger : ~(y.client = x.client /\ y.key = x.key /\ x.key # NoKey)
    BY <2>1 DEF Recorded
  <2> QED
    BY <1>6, <2>2 DEF KeyOnce
<1> QED
  BY <1>10, <1>11, <1>12, <1>13, <1>14, <1>15, <1>16, <1>17

\* The accrual writes one row of its own to a client that may owe.
LEMMA AccrueStep ==
  ASSUME IInv, NEW r \in Requests, Accrue(r)
  PROVE  IInv'
<1> USE DEF IInv
<1> DEFINE x == AccrualOf(r)
<1>1. /\ pc[r] = "accrue" /\ pc' = [pc EXCEPT ![r] = "done"]
      /\ answer' = [answer EXCEPT ![r] = Reported(r)]
      /\ ledger' = ledger \cup {x} \/ ledger' = ledger
      /\ UNCHANGED <<lock, job, seen, pend>>
  BY DEF Accrue, At, Goto, Reply
<1>2. job[r] \in JobType /\ Accrues(job[r])
  BY <1>1, JobsTyped DEF TypeOK, PendInv
<1>3. PlatformOf[job[r].client] \in PlatformClients
  BY <1>2, ClientsAssumption DEF Accrues, JobType, Clients
<1>4. /\ x.id = AccrualId(r) /\ x.client = PlatformOf[job[r].client]
      /\ x.kind = "debit" /\ x.amount = SaasPrice /\ x.key = AccrualKey(r)
      /\ x \in RowType
  BY <1>3, JobsAssumption DEF AccrualOf, Row, RowType, AccrualId, Clients
<1>5. x \notin ledger
  BY <1>1, <1>4 DEF FreshInv
<1>6. \A s \in Requests : EntryOf(s)' = EntryOf(s)
  BY <1>1 DEF EntryOf, Row, EntryId
<1> HIDE DEF x
<1>7. x.amount \in Nat
  BY <1>4, JobsAssumption
<1>8. x.client \notin Customers
  BY <1>3, <1>4, ClientsAssumption
<1>9. IsFiniteSet(Cents(ledger')) /\ \A c \in Customers : Balance(c)' = Balance(c)
  <2>1. CASE ledger' = ledger
    BY <2>1, BalanceUnchanged DEF FreshInv, Cents
  <2>2. CASE ledger' = ledger \cup {x}
    BY <1>4, <1>5, <1>7, <1>8, <2>2, BalanceAfterRow
  <2> QED
    BY <1>1, <2>1, <2>2
<1>10. TypeOK'
  <2>1. Reported(r) \in AnswerType
    <3>1. job[r].amount \in Nat /\ seen[r] \in Int
      BY <1>2 DEF TypeOK, JobType
    <3>2. seen[r] - job[r].amount \in Int /\ seen[r] + job[r].amount \in Int
      BY <3>1
    <3> QED
      BY <3>1, <3>2 DEF Reported, AnswerType
  <2> QED
    BY <1>1, <1>4, <2>1 DEF TypeOK, Labels
<1>11. LockInv'
  BY <1>1 DEF LockInv, HoldsLock, TypeOK
<1>12. PendInv'
  BY <1>1, <1>6 DEF PendInv, TypeOK, Accrues
<1>13. FreshInv'
  <2> SUFFICES ASSUME NEW y \in ledger', NEW s \in Requests
               PROVE  /\ y.id = EntryId(s) => pc'[s] \in {"accrue", "done", "crashed"}
                      /\ y.id = AccrualId(s) => pc'[s] = "done"
                      /\ y.key = AccrualKey(s) => y.id = AccrualId(s)
    BY <1>9 DEF FreshInv, EntryId, AccrualId, AccrualKey
  <2>1. CASE y = x
    <3>1. /\ x.id # EntryId(s)
          /\ x.id = AccrualId(s) => s = r
          /\ x.key = AccrualKey(s) => s = r
      BY <1>4 DEF EntryId, AccrualId, AccrualKey
    <3> QED
      BY <1>1, <1>4, <2>1, <3>1 DEF TypeOK
  <2>2. CASE y \in ledger
    <3>1. /\ y.id = EntryId(s) => pc[s] \in {"accrue", "done", "crashed"}
          /\ y.id = AccrualId(s) => pc[s] = "done"
          /\ y.key = AccrualKey(s) => y.id = AccrualId(s)
      BY <2>2 DEF FreshInv
    <3> QED
      BY <1>1, <3>1 DEF TypeOK
  <2> QED
    BY <1>1, <2>1, <2>2
<1>14. CoverInv'
  BY <1>1, <1>9 DEF CoverInv, TypeOK
<1>15. KeyInv'
  <2> SUFFICES ASSUME NEW s \in Requests, pc'[s] = "commit"
               PROVE  /\ Recorded(job[s].client, job[s].key)' = {}
                      /\ \A t \in Requests \ {s} :
                           pc'[t] = "commit" => \/ job[t].client # job[s].client
                                               \/ job[t].key # job[s].key
                                               \/ job[t].key = NoKey
    BY <1>1 DEF KeyInv, Recorded
  <2>1. pc[s] = "commit" /\ \A t \in Requests : pc'[t] = "commit" => pc[t] = "commit"
    BY <1>1 DEF TypeOK
  <2>2. job[s].key # x.key
    <3>1. job[s].key \in Keys \cup {NoKey}
      BY <2>1, JobsTyped DEF TypeOK, JobType
    <3> QED
      BY <1>4, <3>1, KeysAssumption DEF AccrualKey
  <2>3. Recorded(job[s].client, job[s].key)' = {}
    BY <1>1, <2>1, <2>2 DEF KeyInv, Recorded
  <2> QED
    BY <2>1, <2>3 DEF KeyInv
<1>16. NoOverdraft'
  BY <1>9 DEF NoOverdraft
<1>17. KeyOnce'
  <2>1. \A y \in ledger : y.key # x.key
    BY <1>1, <1>4 DEF FreshInv
  <2> QED
    BY <1>1, <2>1 DEF KeyOnce
<1> QED
  BY <1>10, <1>11, <1>12, <1>13, <1>14, <1>15, <1>16, <1>17

LEMMA NextIInv ==
  ASSUME IInv, [Next]_vars
  PROVE  IInv'
<1> USE DEF IInv
<1>1. CASE UNCHANGED vars
  <2>1. \A c : Balance(c)' = Balance(c)
    BY <1>1, BalanceUnchanged DEF vars
  <2>2. \A s \in Requests : EntryOf(s)' = EntryOf(s)
    BY <1>1 DEF vars, EntryOf, Row, EntryId
  <2>3. TypeOK' /\ LockInv' /\ PendInv' /\ KeyInv' /\ KeyOnce'
    BY <1>1, <2>2 DEF vars, TypeOK, LockInv, HoldsLock, PendInv, KeyInv, KeyOnce, Recorded,
                      Accrues
  <2>4. FreshInv'
    BY <1>1 DEF vars, FreshInv, Cents
  <2>5. CoverInv' /\ NoOverdraft'
    BY <1>1, <2>1 DEF vars, CoverInv, NoOverdraft
  <2> QED
    BY <2>3, <2>4, <2>5
<1>2. ASSUME NEW r \in Requests, NEW j \in Jobs, Arrive(r, j)
      PROVE  IInv'
  <2> DEFINE l == IF j.op \in Locked THEN "lock" ELSE "insert"
  <2>1. /\ pc[r] = "idle" /\ pc' = [pc EXCEPT ![r] = l]
        /\ job' = [job EXCEPT ![r] = j]
        /\ UNCHANGED <<ledger, lock, seen, pend, answer>>
    BY <1>2, Zenon DEF Arrive, At, Goto
  <2>2. l \in {"lock", "insert"} /\ (l = "lock" <=> j.op \in Locked)
    OBVIOUS
  <2>3. Goto(r, l) /\ job'[r] = j
    BY <2>1 DEF Goto, TypeOK
  <2>4. ~HoldsLock(r)'
    BY <2>1, <2>2, <2>3 DEF HoldsLock, TypeOK
  <2> HIDE DEF l
  <2> QED
    BY <2>1, <2>2, <2>3, <2>4, MovingStep DEF TypeOK
<1>3. ASSUME NEW r \in Requests, TakeLock(r)
      PROVE  IInv'
  <2>1. /\ pc[r] = "lock" /\ Goto(r, "replay") /\ pc'[r] = "replay"
        /\ lock[job[r].client] = NoRequest
        /\ lock' = [lock EXCEPT ![job[r].client] = r]
        /\ UNCHANGED <<ledger, job, seen, pend, answer>>
    BY <1>3 DEF TakeLock, At, Goto, LockFree, TypeOK
  <2>2. job[r].client \in Clients /\ job[r] \in Jobs /\ job[r].op \in Locked
    BY <2>1, JobsTyped DEF TypeOK, JobType, LockInv
  <2>3. /\ lock' \in [Clients -> Requests \cup {NoRequest}]
        /\ \A c \in Clients : lock[c] \in Requests => lock'[c] = lock[c]
        /\ lock'[job[r].client] = r
    BY <2>1, <2>2, RequestsAssumption DEF TypeOK
  <2> QED
    BY <2>1, <2>2, <2>3, MovingStep DEF TypeOK
<1>4. ASSUME NEW r \in Requests, NotRecorded(r)
      PROVE  IInv'
  <2>1. /\ pc[r] = "replay" /\ Goto(r, "price")
        /\ UNCHANGED <<ledger, lock, job, seen, pend, answer>>
    BY <1>4 DEF NotRecorded, At
  <2>2. job[r] \in Jobs /\ job[r].op \in Locked /\ lock[job[r].client] = r
    BY <2>1 DEF TypeOK, LockInv, HoldsLock
  <2> QED
    BY <2>1, <2>2, MovingStep DEF TypeOK
<1>5. ASSUME NEW r \in Requests, ReadBalance(r)
      PROVE  IInv'
  <2>1. /\ pc[r] = "price" /\ Goto(r, "insert")
        /\ Covers(job[r], Balance(job[r].client))
        /\ seen' = [seen EXCEPT ![r] = Balance(job[r].client)]
        /\ UNCHANGED <<ledger, lock, job, pend, answer>>
    BY <1>5 DEF ReadBalance, At
  <2>2. job[r] \in Jobs /\ job[r].op \in Locked /\ lock[job[r].client] = r
    BY <2>1 DEF TypeOK, LockInv, HoldsLock
  <2>3. Balance(job[r].client) \in Int
    BY BalanceInt
  <2>4. /\ seen' \in [Requests -> Int] /\ seen'[r] = Balance(job[r].client)
        /\ \A s \in Requests \ {r} : seen'[s] = seen[s]
    BY <2>1, <2>3 DEF TypeOK
  <2> QED
    BY <2>1, <2>2, <2>3, <2>4, MovingStep DEF TypeOK, Covers
<1>6. ASSUME NEW r \in Requests, Abort(r), pc[r] \notin {"idle", "done", "crashed"}
      PROVE  IInv'
  <2>1. answer' \in [Requests -> AnswerType]
    BY <1>6 DEF Abort, Reply, AnswerType, TypeOK
  <2> QED
    BY <1>6, <2>1, EndingStep DEF Abort
<1>7. ASSUME NEW r \in Requests,
             RefuseUnits(r) \/ RefuseService(r) \/ RefuseBalance(r) \/ InsertRejected(r)
      PROVE  IInv'
  BY <1>6, <1>7 DEF RefuseUnits, RefuseService, RefuseBalance, InsertRejected, At
<1>8. ASSUME NEW r \in Requests, InsertIgnored(r)
      PROVE  IInv'
  <2>1. answer' \in [Requests -> AnswerType]
    BY <1>8 DEF InsertIgnored, Reply, AnswerType, TypeOK
  <2> QED
    BY <1>8, <2>1, EndingStep DEF InsertIgnored, At
<1>9. ASSUME NEW r \in Requests, Replay(r)
      PROVE  IInv'
  <2>1. PICK x \in Recorded(job[r].client, job[r].key) :
          answer' = [answer EXCEPT ![r] =
                       [status |-> "replay", amount |-> ReplayAmount(r, x),
                        balance |-> Balance(job[r].client)]]
    BY <1>9 DEF Replay, Reply
  <2>2. Balance(job[r].client) \in Int
    BY BalanceInt
  <2>3. ReplayAmount(r, x) \in Nat
    <3>1. x.amount \in Nat
      BY <2>1 DEF Recorded, TypeOK, RowType
    <3>2. job[r] \in JobType
      BY <1>9, JobsTyped DEF Replay, At, TypeOK
    <3> QED
      BY <3>1, <3>2 DEF ReplayAmount, JobType
  <2>4. answer' \in [Requests -> AnswerType]
    BY <2>1, <2>2, <2>3 DEF AnswerType, TypeOK
  <2> QED
    BY <1>9, <2>4, EndingStep DEF Replay, At
<1>10. ASSUME NEW r \in Requests, Crash(r)
       PROVE  IInv'
  BY <1>10, EndingStep DEF Crash, TypeOK
<1>11. ASSUME NEW r \in Requests, Step(r)
       PROVE  IInv'
  BY <1>3, <1>4, <1>5, <1>7, <1>8, <1>9, <1>11, InsertStep, CommitStep, AccrueStep DEF Step
<1> QED
  BY <1>1, <1>2, <1>10, <1>11 DEF Next

(***************************************************************************)
(* The theorems                                                            *)
(***************************************************************************)

\* IInv holds in every reachable state, whatever the requests, their calls
\* and their interleaving.
THEOREM Invariance == Spec => []IInv
<1>1. Init => IInv
  BY InitIInv
<1>2. IInv /\ [Next]_vars => IInv'
  BY NextIInv
<1> QED
  BY <1>1, <1>2, PTL DEF Spec

\* Every variable stays in its type.
THEOREM TypeCorrect == Spec => []TypeOK
<1>1. IInv => TypeOK
  BY DEF IInv
<1> QED
  BY <1>1, Invariance, PTL

\* No interleaving of charges, adjustments, credits and crashes takes a
\* prepaid client below zero.
THEOREM NoOverdraftAlways == Spec => []NoOverdraft
<1>1. IInv => NoOverdraft
  BY DEF IInv
<1> QED
  BY <1>1, Invariance, PTL

\* An idempotency key is booked at most once per client, by any writer.
THEOREM KeyOnceAlways == Spec => []KeyOnce
<1>1. IInv => KeyOnce
  BY DEF IInv
<1> QED
  BY <1>1, Invariance, PTL

\* The balance that a charge or an adjustment reports is never more than the
\* client has when its transaction commits.
THEOREM NeverOverstates == Spec => NeverOverstatesBalance
<1> DEFINE A == \A r \in Requests :
                  /\ pc[r] = "commit" /\ pc'[r] \in {"accrue", "done"}
                  /\ job[r].op \in Locked /\ job[r].client \in Customers
                  => Reported(r).balance <= Balance(job[r].client)'
<1>1. IInv /\ [Next]_vars => [A]_vars
  <2> SUFFICES ASSUME IInv, Next, NEW r \in Requests,
                      pc[r] = "commit", pc'[r] \in {"accrue", "done"},
                      job[r].op \in Locked, job[r].client \in Customers
               PROVE  Reported(r).balance <= Balance(job[r].client)'
    OBVIOUS
  <2>1. Commit(r)
    <3>1. PICK q \in Requests : (\E j \in Jobs : Arrive(q, j)) \/ Step(q) \/ Crash(q)
      BY DEF Next
    <3>2. ASSUME pc[q] # "commit" PROVE FALSE
      <4>1. \E l \in Labels : pc' = [pc EXCEPT ![q] = l]
        BY <3>1, <3>2 DEF Step, Arrive, TakeLock, RefuseUnits, Replay, NotRecorded,
             RefuseService, ReadBalance, RefuseBalance, Insert, InsertRejected,
             InsertIgnored, Commit, Accrue, Crash, Abort, At, Goto, Labels
      <4> QED
        BY <3>2, <4>1 DEF IInv, TypeOK
    <3>3. Commit(q) \/ Crash(q)
      BY <3>1, <3>2 DEF Step, Arrive, TakeLock, RefuseUnits, Replay, NotRecorded,
           RefuseService, ReadBalance, RefuseBalance, Insert, InsertRejected,
           InsertIgnored, Accrue, At
    <3> QED
      BY <3>3 DEF Commit, Crash, Goto, IInv, TypeOK
  <2>2. /\ pend[r] = {EntryOf(r)} /\ EntryOf(r) \notin ledger /\ EntryOf(r) \in RowType
        /\ EntryOf(r).client = job[r].client /\ EntryOf(r).amount = job[r].amount
        /\ EntryOf(r).kind = (IF job[r].op \in Debits THEN "debit" ELSE "credit")
    BY EntryFacts
  <2>3. ledger' = ledger \cup {EntryOf(r)} /\ job' = job
    BY <2>1, <2>2 DEF Commit
  <2>4. job[r].amount \in Nat /\ EntryOf(r).kind \in {"credit", "debit"}
    BY <2>2 DEF RowType
  <2>5. \A c : Balance(c)' = IF c # job[r].client THEN Balance(c)
                             ELSE IF EntryOf(r).kind = "credit"
                                    THEN Balance(c) + job[r].amount
                             ELSE Balance(c) - job[r].amount
    BY <2>2, <2>3, <2>4, BalanceAfterRow DEF IInv
  <2>6. /\ seen[r] \in Int /\ Balance(job[r].client) \in Int
        /\ seen[r] <= Balance(job[r].client)
    BY BalanceInt DEF IInv, TypeOK, CoverInv
  <2> DEFINE c == job[r].client
  <2>7. Balance(c)' = IF EntryOf(r).kind = "credit"
                        THEN Balance(c) + job[r].amount ELSE Balance(c) - job[r].amount
    BY <2>3, <2>5
  <2>8. Reported(r).balance = IF EntryOf(r).kind = "credit"
                                THEN seen[r] + job[r].amount ELSE seen[r] - job[r].amount
    BY <2>2 DEF Reported
  <2> QED
    BY <2>4, <2>6, <2>7, <2>8
<1> QED
  BY <1>1, Invariance, PTL DEF Spec, NeverOverstatesBalance

(***************************************************************************)
(* The book implements the abstract wallet                                 *)
(***************************************************************************)

\* A row that the book did not have is one posting of the wallet.
LEMMA RowIsPosting ==
  ASSUME IInv, NEW x \in RowType, x \notin ledger, ledger' = ledger \cup {x},
         x.amount \in {j.amount : j \in Jobs} \cup {SaasPrice},
         x.id \in {EntryId(r) : r \in Requests} \cup {AccrualId(r) : r \in Requests},
         \A y \in ledger : y.id # x.id,
         x.key # NoKey => \A y \in ledger : ~(y.client = x.client /\ y.key = x.key),
         x.kind = "debit" /\ x.client \notin PlatformClients
           => x.amount <= Balance(x.client)
  PROVE  W!Next
<1> DEFINE c == x.client
           k == x.key
<1>1. /\ c \in Clients /\ k \in Keys \cup {AccrualKey(r) : r \in Requests} \cup {NoKey}
      /\ x.amount \in Nat /\ x.kind \in {"credit", "debit"}
  BY DEF RowType
<1>2. FreshInv
  BY DEF IInv
<1>3. \A d : Balance(d)' = IF d # c THEN Balance(d)
                           ELSE IF x.kind = "credit" THEN Balance(d) + x.amount
                           ELSE Balance(d) - x.amount
  BY <1>1, <1>2, BalanceAfterRow
<1>4. W!Post(c, k, x.id)
  <2> DEFINE posting(y) == [client |-> y.client, key |-> y.key, name |-> y.id]
  <2>1. {posting(y) : y \in ledger'} = {posting(y) : y \in ledger} \cup {posting(x)}
    OBVIOUS
  <2> QED
    BY <2>1 DEF W!Post
<1>5. CASE x.kind = "credit"
  <2>1. [d \in Clients |-> Balance(d)]'
          = [[d \in Clients |-> Balance(d)] EXCEPT ![c] = @ + x.amount]
    BY <1>1, <1>3, <1>5
  <2>2. W!Credit(c, x.amount, k, x.id)
    BY <1>4, <2>1 DEF W!Credit
  <2> QED
    BY <1>1, <2>2 DEF W!Next
<1>6. CASE x.kind = "debit"
  <2>1. [d \in Clients |-> Balance(d)]'
          = [[d \in Clients |-> Balance(d)] EXCEPT ![c] = @ - x.amount]
    BY <1>1, <1>3, <1>6
  <2>2. c \notin PlatformClients => x.amount <= [d \in Clients |-> Balance(d)][c]
    BY <1>1, <1>6
  <2>3. W!Debit(c, x.amount, k, x.id)
    BY <1>4, <2>1, <2>2 DEF W!Debit
  <2> QED
    BY <1>1, <2>3 DEF W!Next
<1> QED
  BY <1>1, <1>5, <1>6

\* Every behaviour of the concurrent book is a behaviour of the wallet.
THEOREM Refinement == Spec => ImplementsWallet
<1>1. Init => W!Init
  <2> SUFFICES ASSUME Init PROVE W!Init
    OBVIOUS
  <2>1. \A c, k : Cents(RowsOf(c, k)) = {}
    BY DEF Init, RowsOf, Cents
  <2>2. \A c, k : Total(RowsOf(c, k)) = 0
    BY <2>1, FS_EmptySet DEF Total
  <2>3. \A c : Balance(c) = 0
    BY <2>2 DEF Balance
  <2> QED
    BY <2>3 DEF Init, W!Init
<1>2. IInv /\ [Next]_vars => [W!Next]_(W!wvars)
  <2> SUFFICES ASSUME IInv, [Next]_vars
               PROVE  W!Next \/ UNCHANGED W!wvars
    OBVIOUS
  <2>1. CASE ledger' = ledger
    <3>1. \A c : Balance(c)' = Balance(c)
      BY <2>1, BalanceUnchanged
    <3> QED
      BY <2>1, <3>1 DEF W!wvars
  <2>2. ASSUME NEW r \in Requests, Commit(r)
        PROVE  W!Next
    <3> DEFINE x == EntryOf(r)
    <3>1. pc[r] = "commit" /\ job[r] \in Jobs
      BY <2>2 DEF Commit, At, IInv, TypeOK
    <3>2. /\ pend[r] = {x} /\ x \in RowType /\ x \notin ledger
          /\ x.client = job[r].client /\ x.key = job[r].key /\ x.amount = job[r].amount
          /\ x.kind = (IF job[r].op \in Debits THEN "debit" ELSE "credit")
      BY <3>1, EntryFacts, Zenon
    <3>3. ledger' = ledger \cup {x}
      BY <2>2, <3>2 DEF Commit
    <3>4. Recorded(x.client, x.key) = {}
      BY <3>1, <3>2 DEF IInv, KeyInv
    <3>5. job[r] \in JobType /\ Admissible(job[r])
      BY <3>1, JobsTyped
    <3>6. ASSUME x.kind = "debit", x.client \notin PlatformClients
          PROVE  x.amount <= Balance(x.client)
      <4>1. job[r].op \in Locked \cap Debits /\ x.client \in Customers
        BY <3>2, <3>5, <3>6 DEF Admissible, Locked, Debits, JobType, Clients
      <4>2. x.amount <= seen[r] /\ seen[r] <= Balance(x.client)
        BY <3>1, <3>2, <4>1 DEF IInv, CoverInv
      <4>3. x.amount \in Nat /\ seen[r] \in Int /\ Balance(x.client) \in Int
        BY <3>2, <3>5, BalanceInt DEF IInv, TypeOK, JobType
      <4> QED
        BY <4>2, <4>3
    <3>9. x.id = EntryId(r) /\ \A y \in ledger : y.id # x.id
      BY <3>1 DEF EntryOf, Row, IInv, FreshInv
    <3> HIDE DEF x
    <3>7. x.key # NoKey => \A y \in ledger : ~(y.client = x.client /\ y.key = x.key)
      BY <3>4 DEF Recorded
    <3>8. x.amount \in {j.amount : j \in Jobs} \cup {SaasPrice}
      BY <3>1, <3>2
    <3> QED
      BY <3>2, <3>3, <3>9, <3>6, <3>7, <3>8, RowIsPosting
  <2>3. ASSUME NEW r \in Requests, Accrue(r), ledger' # ledger
        PROVE  W!Next
    <3> DEFINE x == AccrualOf(r)
    <3>1. pc[r] = "accrue" /\ ledger' = ledger \cup {x}
      BY <2>3 DEF Accrue, At
    <3>2. job[r] \in JobType /\ Accrues(job[r])
      BY <3>1, JobsTyped DEF IInv, TypeOK, PendInv
    <3>3. PlatformOf[job[r].client] \in PlatformClients
      BY <3>2, ClientsAssumption DEF Accrues, JobType, Clients
    <3>4. /\ x.id = AccrualId(r) /\ x.client = PlatformOf[job[r].client]
          /\ x.amount = SaasPrice /\ x.key = AccrualKey(r) /\ x \in RowType
      BY <3>3, JobsAssumption DEF AccrualOf, Row, RowType, AccrualId, Clients
    <3> HIDE DEF x
    <3>5. x \notin ledger /\ \A y \in ledger : y.key # x.key /\ y.id # x.id
      BY <3>1, <3>4 DEF IInv, FreshInv
    <3> QED
      BY <3>1, <3>3, <3>4, <3>5, RowIsPosting
  <2>4. CASE Next
    <3>1. PICK r \in Requests : (\E j \in Jobs : Arrive(r, j)) \/ Step(r) \/ Crash(r)
      BY <2>4 DEF Next
    <3>2. ledger' = ledger \/ Commit(r) \/ Accrue(r)
      BY <3>1 DEF Step, Arrive, TakeLock, RefuseUnits, Replay, NotRecorded, RefuseService,
           ReadBalance, RefuseBalance, Insert, InsertRejected, InsertIgnored, Crash, Abort
    <3> QED
      BY <2>1, <2>2, <2>3, <3>2
  <2>5. CASE UNCHANGED vars
    BY <2>1, <2>5 DEF vars
  <2> QED
    BY <2>4, <2>5
<1> QED
  BY <1>1, <1>2, Invariance, PTL DEF Spec, ImplementsWallet, W!Spec
=============================================================================
