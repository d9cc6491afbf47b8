------------------------- MODULE MonthlyClosingProofs -------------------------
(***************************************************************************)
(* Proofs about MonthlyClosing for any runs, subscriptions, promotions and *)
(* number of failures.                                                     *)
(***************************************************************************)
EXTENDS MonthlyClosing, FiniteSetTheorems, SequenceTheorems, TLAPS

LEMMA ConstantsTyped ==
  /\ NoSub \notin Subs
  /\ \A s \in Subs : Fee[s] \in Nat /\ Usage[s] \in Nat
  /\ IsFiniteSet(Promos)
  /\ \A p \in Promos : MaxUses[p] \in Nat /\ MinAmount[p] \in Nat
  /\ Shared \subseteq Promos /\ MaxFaults \in Nat
BY ClosingAssumption

\* A discount is a number of cents.
LEMMA DiscountTyped ==
  ASSUME NEW p \in Promos, NEW base \in Nat
  PROVE  CalcDiscount(p, base) \in Nat
<1>1. CASE Pct[p] = NoPct
  BY <1>1, ClosingAssumption DEF CalcDiscount
<1>2. CASE Pct[p] # NoPct
  <2>1. Pct[p] \in Nat
    BY <1>2, ClosingAssumption DEF NoPct
  <2>2. ASSUME NEW n \in Nat PROVE Hundredth(n) \in Nat
    BY DEF Hundredth
  <2>3. base * Pct[p] \in Nat
    BY <2>1
  <2> QED
    BY <1>2, <2>2, <2>3 DEF CalcDiscount
<1> QED
  BY <1>1, <1>2

\* A transaction that wrote nothing or that is undone.
LEMMA EmptyTx ==
  ASSUME NEW t \in {CleanTx, BrokenTx}
  PROVE  /\ t \in Transaction
         /\ t.invoices = {} /\ t.redeemed = {}
         /\ \A p \in Promos : t.wrote[p] = NotWritten
         /\ t.broken <=> t = BrokenTx
<1>1. /\ t.invoices = {} /\ t.redeemed = {} /\ t.wrote = [p \in Promos |-> NotWritten]
      /\ t.broken \in BOOLEAN /\ (t.broken <=> t = BrokenTx)
  <2>1. CASE t = CleanTx
    BY <2>1 DEF CleanTx, BrokenTx
  <2>2. CASE t = BrokenTx
    BY <2>2 DEF CleanTx, BrokenTx
  <2> QED
    BY <2>1, <2>2
<1>2. t \in Transaction
  <2>1. t = [invoices |-> {}, redeemed |-> {}, wrote |-> [p \in Promos |-> NotWritten],
             broken |-> t.broken]
    BY DEF CleanTx, BrokenTx
  <2>2. [p \in Promos |-> NotWritten] \in [Promos -> Nat \cup {NotWritten}]
    OBVIOUS
  <2> QED
    BY <1>1, <2>1, <2>2 DEF Transaction
<1> QED
  BY <1>1, <1>2

LEMMA InitIInv == Init => IInv
<1> SUFFICES ASSUME Init PROVE IInv
  OBVIOUS
<1>1. TypeOK
  BY ConstantsTyped, EmptyTx, EmptySeq DEF Init, TypeOK
<1>2. \A r \in Runs : ~Open(r) /\ ~Busy(r) /\ tx[r] = CleanTx /\ left[r] = <<>>
  BY DEF Init, Open, Busy
<1>3. RowInv /\ MetInv
  BY <1>2 DEF Init, RowInv, MetInv
<1>4. CountInv /\ UsesCounted
  <2>1. \A p \in Promos : OfPromo({}, p) = {}
    BY DEF OfPromo
  <2>2. CountInv
    BY <2>1, <1>2, EmptyTx, FS_EmptySet DEF Init, CountInv, Holds
  <2>3. UsesCounted
    <3>1. \A p \in Promos :
            Cardinality(OfPromo(redemptions, p)) = 0 /\ uses[p] = 0 /\ elsewhere[p] = 0
      BY <2>1, FS_EmptySet DEF Init
    <3> QED
      BY <3>1 DEF UsesCounted, OfPromo
  <2> QED
    BY <2>2, <2>3
<1>5. ASSUME NEW r \in Runs
      PROVE  EachRun(r)
  <2>1. RunInv(r)
    BY <1>2, EmptyTx DEF Init, RunInv, Busy, BrokenTx, CleanTx
  <2>2. OverlapInv(r) /\ EntryInv(r)
    BY DEF Init, OverlapInv, EntryInv
  <2>3. UseInv(r)
    BY <1>2, EmptyTx, EmptySeq DEF Init, UseInv
  <2>4. LimitInv(r)
    BY <1>2, EmptyTx, ConstantsTyped DEF Init, LimitInv, UsesSeen, Selected
  <2>5. SummaryInv(r)
    BY <1>2, EmptyTx DEF Init, SummaryInv, BrokenTx, CleanTx
  <2> QED
    BY <2>1, <2>2, <2>3, <2>4, <2>5 DEF EachRun
<1>6. BilledOnceUnlessOverlapping /\ RedemptionsBilled /\ EntriesExplained
  BY DEF Init, BilledOnceUnlessOverlapping, RedemptionsBilled, EntriesExplained
<1>7. LimitKeptUnlessOverlapping /\ CleanRunBillsAll
  BY ConstantsTyped DEF Init, LimitKeptUnlessOverlapping, CleanRunBillsAll
<1> QED
  BY <1>1, <1>3, <1>4, <1>5, <1>6, <1>7 DEF IInv

-----------------------------------------------------------------------------
\* What a step of another run leaves alone.
Same(v) ==
  /\ pc'[v] = pc[v] /\ todo'[v] = todo[v] /\ sub'[v] = sub[v]
  /\ subtotal'[v] = subtotal[v] /\ left'[v] = left[v] /\ discount'[v] = discount[v]
  /\ tx'[v] = tx[v] /\ report'[v] = report[v] /\ errors'[v] = errors[v]

\* A step of one run that commits nothing preserves the invariant if it keeps
\* the part about that run and the counters.
LEMMA LocalStep ==
  ASSUME IInv, TypeOK', NEW r \in Runs,
         UNCHANGED <<book, onboarding>>, \A v \in Runs \ {r} : Same(v),
         pc[r] # "done", pc'[r] # "done",
         met \subseteq met', entries \subseteq entries',
         \A e \in entries' \ entries : e.run = r,
         Open(r)' => \A v \in Runs \ {r} : Open(v) => {r, v} \in met',
         EachRun(r)', CountInv'
  PROVE  IInv'
<1> USE DEF IInv
<1>1. UNCHANGED <<invoices, uses, redemptions, elsewhere, late>>
  BY DEF book, onboarding
<1>2. ASSUME NEW v \in Runs \ {r}
      PROVE  EachRun(v)'
  <2>1. Same(v)
    OBVIOUS
  <2>2. EachRun(v)
    OBVIOUS
  <2>3. (Open(v)' <=> Open(v)) /\ (Busy(v)' <=> Busy(v))
    BY <2>1 DEF Same, Open, Busy
  <2>4. RunInv(v)'
    BY <2>1, <2>2, <2>3 DEF EachRun, RunInv, Same
  <2>5. OverlapInv(v)'
    BY <2>1, <2>2, <2>3, <1>1 DEF EachRun, OverlapInv, Same
  <2>6. UseInv(v)'
    BY <2>1, <2>2 DEF EachRun, UseInv, Same
  <2>7. LimitInv(v)'
    BY <2>1, <2>2, <1>1 DEF EachRun, LimitInv, Same, UsesSeen, Selected
  <2>8. EntryInv(v)'
    BY <2>1, <2>2, <2>3 DEF EachRun, EntryInv, Same
  <2>9. SummaryInv(v)'
    BY <2>1, <2>2, <2>3, <1>1 DEF EachRun, SummaryInv, Same
  <2> QED
    BY <2>4, <2>5, <2>6, <2>7, <2>8, <2>9 DEF EachRun
<1>3. RowInv'
  BY <1>1 DEF RowInv, TypeOK, Invoice, Redemption, Same
<1>4. MetInv'
  <2> SUFFICES ASSUME NEW u \in Runs, NEW v \in Runs, u # v, Open(u)', Open(v)'
               PROVE  {u, v} \in met'
    BY DEF MetInv
  <2>1. \A x \in Runs \ {r} : Open(x)' <=> Open(x)
    BY DEF Same, Open
  <2>2. {u, v} = {v, u}
    OBVIOUS
  <2> QED
    BY <2>1, <2>2 DEF MetInv
<1>5. BilledOnceUnlessOverlapping' /\ LimitKeptUnlessOverlapping'
  BY <1>1 DEF BilledOnceUnlessOverlapping, LimitKeptUnlessOverlapping
<1>6. UsesCounted' /\ RedemptionsBilled'
  BY <1>1 DEF UsesCounted, RedemptionsBilled
<1>7. CleanRunBillsAll'
  BY <1>1 DEF CleanRunBillsAll, Same
<1>8. EntriesExplained'
  BY <1>1 DEF EntriesExplained, TypeOK, Same
<1> QED
  BY <1>2, <1>3, <1>4, <1>5, <1>6, <1>7, <1>8

LEMMA CountKept ==
  ASSUME CountInv, UNCHANGED <<tx, uses, redemptions, counting>>
  PROVE  CountInv'
BY DEF CountInv, Holds, OfPromo

\* A run that ends without committing, or is broken, counts nothing.
LEMMA CountDropped ==
  ASSUME TypeOK, CountInv, NEW r \in Runs, NEW t \in {CleanTx, BrokenTx},
         tx' = [tx EXCEPT ![r] = t], UNCHANGED <<uses, redemptions, counting>>
  PROVE  CountInv'
<1>1. tx'[r] = t /\ \A v \in Runs \ {r} : tx'[v] = tx[v]
  BY DEF TypeOK
<1>2. \A p \in Promos : ~Holds(r, p)'
  BY <1>1, EmptyTx DEF Holds
<1>3. \A v \in Runs \ {r} : \A p \in Promos : Holds(v, p)' <=> Holds(v, p)
  BY <1>1 DEF Holds
<1>4. \A p \in Promos : OfPromo({}, p) = {}
  BY DEF OfPromo
<1>5. \A v \in Runs : IsFiniteSet(tx'[v].redeemed)
  BY <1>1, EmptyTx, FS_EmptySet DEF CountInv
<1>6. \A v \in Runs : \A p \in Promos :
        Cardinality(OfPromo(tx'[v].redeemed, p))
          = IF Holds(v, p)' THEN tx'[v].wrote[p] - uses[p] ELSE 0
  <2> TAKE v \in Runs
  <2> TAKE p \in Promos
  <2>1. CASE v = r
    <3>1. OfPromo(tx'[v].redeemed, p) = {} /\ ~Holds(v, p)'
      BY <2>1, <1>1, <1>2, <1>4, EmptyTx
    <3> QED
      BY <3>1, FS_EmptySet
  <2>2. CASE v # r
    BY <2>2, <1>1, <1>3 DEF CountInv
  <2> QED
    BY <2>1, <2>2
<1>7. \A u, v \in Runs : \A p \in Promos : Holds(u, p)' /\ Holds(v, p)' => u = v
  BY <1>2, <1>3 DEF CountInv
<1>8. (\A p \in counting : uses[p] < MaxUses[p] /\ \A v \in Runs : ~Holds(v, p))'
  <2>1. counting \subseteq Promos
    BY ConstantsTyped DEF TypeOK
  <2> QED
    BY <2>1, <1>2, <1>3 DEF CountInv
<1> QED
  BY <1>5, <1>6, <1>7, <1>8 DEF CountInv

-----------------------------------------------------------------------------
LEMMA StartIInv ==
  ASSUME IInv, NEW r \in Runs, Start(r)
  PROVE  IInv'
<1> USE DEF IInv
<1>1. /\ pc[r] = "idle" /\ pc'[r] = "next"
      /\ todo'[r] = Subs
      /\ met' = met \cup {{r, v} : v \in {u \in Runs : Open(u)}}
      /\ UNCHANGED <<sub, subtotal, left, discount, tx, report, errors, invoices, uses,
                     redemptions, entries, counting, elsewhere, late, faults>>
      /\ \A v \in Runs \ {r} : pc'[v] = pc[v] /\ todo'[v] = todo[v]
  BY DEF Start, Step, TypeOK, local, summary, book, onboarding
<1>2. EachRun(r) /\ ~Open(r) /\ ~Busy(r)
  BY <1>1 DEF Open, Busy
<1>3. /\ tx[r] = CleanTx /\ sub[r] = NoSub /\ report[r] = {} /\ errors[r] = {}
      /\ ~tx[r].broken /\ tx[r].invoices = {} /\ tx[r].redeemed = {}
  BY <1>1, <1>2, EmptyTx DEF EachRun, RunInv, SummaryInv, CleanTx
<1>4. TypeOK'
  <2>1. pc' \in [Runs -> {"idle", "next", "price", "select", "promos", "post", "done", "lost"}]
        /\ todo' \in [Runs -> SUBSET Subs]
    BY DEF TypeOK, Start, Step
  <2>2. \A m \in met' : m \in SUBSET Runs
    <3>1. \A m \in met : m \in SUBSET Runs
      BY DEF TypeOK
    <3>2. \A v \in Runs : {r, v} \in SUBSET Runs
      OBVIOUS
    <3> QED
      BY <3>1, <3>2, <1>1
  <2> QED
    BY <1>1, <2>1, <2>2 DEF TypeOK
<1>5. EachRun(r)'
  <2>1. RunInv(r)'
    BY <1>1, <1>2, <1>3 DEF EachRun, RunInv, Open, Busy
  <2>2. OverlapInv(r)'
    BY <1>1, <1>3, ConstantsTyped DEF OverlapInv, TypeOK, Invoice
  <2>3. UseInv(r)' /\ EntryInv(r)'
    BY <1>1, <1>2, <1>3 DEF EachRun, UseInv, EntryInv
  <2>4. LimitInv(r)'
    BY <1>1, <1>2 DEF EachRun, LimitInv, UsesSeen, Selected
  <2>5. SummaryInv(r)'
    BY <1>1, <1>3 DEF SummaryInv
  <2> QED
    BY <2>1, <2>2, <2>3, <2>4, <2>5 DEF EachRun
<1>6. CountInv'
  BY <1>1, CountKept
<1>7. \A v \in Runs \ {r} : Open(v) => {r, v} \in met'
  BY <1>1
<1> QED
  BY <1>1, <1>4, <1>5, <1>6, <1>7, LocalStep DEF Same, book, onboarding

LEMMA TakeIInv ==
  ASSUME IInv, NEW r \in Runs, NEW s \in Subs, Take(r, s)
  PROVE  IInv'
<1> USE DEF IInv
<1>1. /\ pc[r] = "next" /\ pc'[r] = IF Existing(r, s) THEN "next" ELSE "price"
      /\ s \in todo[r] /\ ~tx[r].broken
      /\ todo'[r] = todo[r] \ {s}
      /\ sub'[r] = IF Existing(r, s) THEN NoSub ELSE s
      /\ UNCHANGED <<subtotal, left, discount, tx, report, errors, invoices, uses,
                     redemptions, entries, counting, elsewhere, late, met, faults>>
      /\ \A v \in Runs \ {r} : pc'[v] = pc[v] /\ todo'[v] = todo[v] /\ sub'[v] = sub[v]
  BY DEF Take, Step, TypeOK, summary, book, onboarding
<1>2. EachRun(r) /\ Open(r) /\ Open(r)' /\ sub[r] = NoSub
  BY <1>1 DEF EachRun, RunInv, Open, Busy
<1>3. /\ sub'[r] \in {s, NoSub}
      /\ sub'[r] = s => \A i \in invoices \cup tx[r].invoices : i.sub # s
      /\ sub'[r] = NoSub => \E i \in invoices \cup tx[r].invoices : i.sub = s
      /\ \A i \in invoices \cup tx[r].invoices : i.sub # NoSub
  BY <1>1, ConstantsTyped DEF Existing, TypeOK, Transaction, Invoice
<1>4. TypeOK'
  <2>1. pc' \in [Runs -> {"idle", "next", "price", "select", "promos", "post", "done", "lost"}]
        /\ todo' \in [Runs -> SUBSET Subs] /\ sub' \in [Runs -> Subs \cup {NoSub}]
    BY DEF TypeOK, Take, Step
  <2> QED
    BY <1>1, <2>1 DEF TypeOK
<1>5. EachRun(r)'
  <2>1. RunInv(r)'
    BY <1>1, <1>2, <1>3, ConstantsTyped DEF EachRun, RunInv, Open, Busy
  <2>2. OverlapInv(r)'
    BY <1>1, <1>2, <1>3 DEF EachRun, OverlapInv
  <2>3. UseInv(r)' /\ EntryInv(r)'
    BY <1>1, <1>2 DEF EachRun, UseInv, EntryInv
  <2>4. LimitInv(r)'
    BY <1>1, <1>2 DEF EachRun, LimitInv, UsesSeen, Selected
  <2>5. SummaryInv(r)'
    <3>1. {i.sub : i \in tx[r].invoices} \ {sub'[r]} = {i.sub : i \in tx[r].invoices} \ {sub[r]}
      BY <1>2, <1>3
    <3>2. \A u \in Subs \ (todo'[r] \cup {sub'[r]}) : u = s \/ u \in Subs \ (todo[r] \cup {sub[r]})
      BY <1>1, <1>2, ConstantsTyped
    <3> QED
      BY <1>1, <1>2, <1>3, <3>1, <3>2 DEF EachRun, SummaryInv
  <2> QED
    BY <2>1, <2>2, <2>3, <2>4, <2>5 DEF EachRun
<1>6. CountInv'
  BY <1>1, CountKept
<1> QED
  BY <1>1, <1>2, <1>4, <1>5, <1>6, LocalStep DEF Same, book, onboarding, MetInv

LEMMA TakeBrokenIInv ==
  ASSUME IInv, NEW r \in Runs, NEW s \in Subs, TakeBroken(r, s)
  PROVE  IInv'
<1> USE DEF IInv
<1>1. /\ pc[r] = "next" /\ pc'[r] = "next"
      /\ tx[r].broken
      /\ todo'[r] = todo[r] \ {s}
      /\ errors'[r] = errors[r] \cup {s}
      /\ UNCHANGED <<sub, subtotal, left, discount, tx, report, invoices, uses,
                     redemptions, entries, counting, elsewhere, late, met, faults>>
      /\ \A v \in Runs \ {r} : pc'[v] = pc[v] /\ todo'[v] = todo[v] /\ errors'[v] = errors[v]
  BY DEF TakeBroken, Step, TypeOK, local, book, onboarding
<1>2. EachRun(r) /\ Open(r) /\ Open(r)'
  BY <1>1 DEF Open
<1>3. TypeOK'
  <2>1. pc' \in [Runs -> {"idle", "next", "price", "select", "promos", "post", "done", "lost"}]
        /\ todo' \in [Runs -> SUBSET Subs] /\ errors' \in [Runs -> SUBSET Subs]
    BY DEF TypeOK, TakeBroken, Step
  <2> QED
    BY <1>1, <2>1 DEF TypeOK
<1>4. EachRun(r)'
  <2>1. RunInv(r)'
    BY <1>1, <1>2 DEF EachRun, RunInv, Open, Busy
  <2>2. OverlapInv(r)' /\ UseInv(r)' /\ EntryInv(r)'
    BY <1>1, <1>2 DEF EachRun, OverlapInv, UseInv, EntryInv
  <2>3. LimitInv(r)'
    BY <1>1, <1>2 DEF EachRun, LimitInv, UsesSeen, Selected
  <2>4. SummaryInv(r)'
    BY <1>1 DEF SummaryInv
  <2> QED
    BY <2>1, <2>2, <2>3, <2>4 DEF EachRun
<1>5. CountInv'
  BY <1>1, CountKept
<1> QED
  BY <1>1, <1>2, <1>3, <1>4, <1>5, LocalStep DEF Same, book, onboarding, MetInv

LEMMA PriceIInv ==
  ASSUME IInv, NEW r \in Runs, Price(r)
  PROVE  IInv'
<1> USE DEF IInv
<1>1. /\ pc[r] = "price" /\ pc'[r] = "select"
      /\ UNCHANGED <<todo, sub, left, discount, tx, report, errors, invoices, uses,
                     redemptions, entries, counting, elsewhere, late, met, faults>>
      /\ \A v \in Runs \ {r} : pc'[v] = pc[v] /\ subtotal'[v] = subtotal[v]
  BY DEF Price, Step, TypeOK, summary, book, onboarding
<1>2. EachRun(r) /\ Open(r) /\ Open(r)' /\ Busy(r) /\ Busy(r)'
  BY <1>1 DEF Open, Busy
<1>3. TypeOK'
  <2>1. sub[r] \in Subs
    BY <1>2 DEF EachRun, RunInv, TypeOK
  <2>2. Amounts(sub[r]) \subseteq Nat
    BY <2>1, ConstantsTyped DEF Amounts
  <2>3. /\ subtotal' \in [Runs -> Nat]
        /\ pc' \in [Runs -> {"idle", "next", "price", "select", "promos", "post", "done", "lost"}]
    BY <2>2 DEF TypeOK, Price, Step
  <2> QED
    BY <1>1, <2>3 DEF TypeOK
<1>4. EachRun(r)'
  <2>1. RunInv(r)'
    BY <1>1, <1>2 DEF EachRun, RunInv
  <2>2. OverlapInv(r)' /\ UseInv(r)' /\ EntryInv(r)' /\ SummaryInv(r)'
    BY <1>1, <1>2 DEF EachRun, OverlapInv, UseInv, EntryInv, SummaryInv
  <2>3. LimitInv(r)'
    BY <1>1, <1>2 DEF EachRun, LimitInv, UsesSeen, Selected
  <2> QED
    BY <2>1, <2>2, <2>3 DEF EachRun
<1>5. CountInv'
  BY <1>1, CountKept
<1> QED
  BY <1>1, <1>2, <1>3, <1>4, <1>5, LocalStep DEF Same, book, onboarding, MetInv

LEMMA NothingToBillIInv ==
  ASSUME IInv, NEW r \in Runs, NothingToBill(r)
  PROVE  IInv'
<1> USE DEF IInv
<1>1. /\ pc[r] = "price" /\ pc'[r] = "next" /\ 0 \in Amounts(sub[r])
      /\ sub'[r] = NoSub /\ left'[r] = <<>>
      /\ UNCHANGED <<todo, tx, report, errors, invoices, uses, redemptions, entries, counting,
                     elsewhere, late, met, faults>>
      /\ \A v \in Runs \ {r} : /\ pc'[v] = pc[v] /\ sub'[v] = sub[v] /\ left'[v] = left[v]
                               /\ subtotal'[v] = subtotal[v] /\ discount'[v] = discount[v]
  BY DEF NothingToBill, Forget, Step, TypeOK, summary, book, onboarding
<1>2. /\ EachRun(r) /\ Open(r) /\ Open(r)' /\ Busy(r) /\ ~Busy(r)'
      /\ sub[r] \in Subs /\ ~tx[r].broken
  BY <1>1 DEF Open, Busy, EachRun, RunInv, TypeOK
<1>3. TypeOK'
  <2>1. /\ subtotal' \in [Runs -> Nat] /\ discount' \in [Runs -> Nat]
        /\ sub' \in [Runs -> Subs \cup {NoSub}]
        /\ pc' \in [Runs -> {"idle", "next", "price", "select", "promos", "post", "done", "lost"}]
    BY DEF TypeOK, NothingToBill, Forget, Step
  <2>2. left' \in [Runs -> Seq(Promos)]
    BY EmptySeq DEF TypeOK, NothingToBill, Forget
  <2> QED
    BY <1>1, <2>1, <2>2 DEF TypeOK
<1>4. EachRun(r)'
  <2>1. RunInv(r)'
    BY <1>1, <1>2 DEF EachRun, RunInv
  <2>2. OverlapInv(r)'
    BY <1>1, <1>2, ConstantsTyped DEF EachRun, OverlapInv, TypeOK, Invoice
  <2>3. UseInv(r)'
    BY <1>1, <1>2, EmptySeq DEF EachRun, UseInv
  <2>4. EntryInv(r)'
    BY <1>1, <1>2 DEF EachRun, EntryInv
  <2>5. LimitInv(r)'
    BY <1>1, <1>2 DEF EachRun, LimitInv, UsesSeen, Selected
  <2>6. SummaryInv(r)'
    <3>1. \A i \in tx[r].invoices : i.sub # sub[r] /\ i.sub # NoSub
      BY <1>1, <1>2, ConstantsTyped DEF EachRun, RunInv, TypeOK, Transaction, Invoice
    <3>2. {i.sub : i \in tx[r].invoices} \ {sub'[r]} = {i.sub : i \in tx[r].invoices} \ {sub[r]}
      BY <1>1, <3>1
    <3>3. ~(Fee[sub[r]] > 0)
      BY <1>1, <1>2, ConstantsTyped DEF Amounts
    <3> QED
      BY <1>1, <1>2, <3>2, <3>3 DEF EachRun, SummaryInv
  <2> QED
    BY <2>1, <2>2, <2>3, <2>4, <2>5, <2>6 DEF EachRun
<1>5. CountInv'
  BY <1>1, CountKept
<1> QED
  BY <1>1, <1>2, <1>3, <1>4, <1>5, LocalStep DEF Same, book, onboarding, MetInv

\* An order of some promotions is a sequence of them without repetition.
LEMMA OrdersAreSequences ==
  ASSUME NEW S \in SUBSET Promos, NEW f \in Orders(S)
  PROVE  /\ f \in Seq(Promos)
         /\ \A k \in 1 .. Len(f) : f[k] \in S
         /\ \A k, l \in 1 .. Len(f) : f[k] = f[l] => k = l
<1>1. Cardinality(S) \in Nat
  BY ConstantsTyped, FS_Subset, FS_CardinalityType
<1>2. f \in [1 .. Cardinality(S) -> S]
  BY DEF Orders
<1>3. f \in Seq(S)
  BY <1>1, <1>2, SeqDef
<1>4. DOMAIN f = 1 .. Len(f)
  BY <1>3, LenProperties
<1>5. f \in Seq(Promos)
  BY <1>3, SeqMonotonic
<1> QED
  BY <1>2, <1>4, <1>5 DEF Orders

LEMMA SelectPromosIInv ==
  ASSUME IInv, NEW r \in Runs, SelectPromos(r)
  PROVE  IInv'
<1> USE DEF IInv
<1>1. /\ pc[r] = "select" /\ pc'[r] = "promos"
      /\ UNCHANGED <<todo, sub, subtotal, discount, tx, report, errors, invoices, uses,
                     redemptions, entries, counting, elsewhere, late, met, faults>>
      /\ \A v \in Runs \ {r} : pc'[v] = pc[v] /\ left'[v] = left[v]
  BY DEF SelectPromos, Step, TypeOK, summary, book, onboarding
<1>2. PICK f \in Orders({p \in Promos : Eligible(r, p)}) : left' = [left EXCEPT ![r] = f]
  BY DEF SelectPromos
<1>3. /\ left'[r] = f /\ f \in Seq(Promos)
      /\ \A k \in 1 .. Len(f) : f[k] \in Promos /\ Eligible(r, f[k])
      /\ \A k, l \in 1 .. Len(f) : f[k] = f[l] => k = l
  <2> DEFINE S == {p \in Promos : Eligible(r, p)}
  <2>1. S \in SUBSET Promos /\ f \in Orders(S)
    BY <1>2
  <2>2. /\ f \in Seq(Promos)
        /\ \A k \in 1 .. Len(f) : f[k] \in S
        /\ \A k, l \in 1 .. Len(f) : f[k] = f[l] => k = l
    <3> HIDE DEF S
    <3> QED
      BY <2>1, OrdersAreSequences
  <2> QED
    BY <1>2, <2>2 DEF TypeOK
<1>4. EachRun(r) /\ Open(r) /\ Open(r)' /\ Busy(r) /\ Busy(r)'
  BY <1>1 DEF Open, Busy
<1>5. TypeOK'
  <2>1. pc' \in [Runs -> {"idle", "next", "price", "select", "promos", "post", "done", "lost"}]
    BY DEF TypeOK, SelectPromos, Step
  <2>2. left' \in [Runs -> Seq(Promos)]
    BY <1>2, <1>3 DEF TypeOK
  <2> QED
    BY <1>1, <2>1, <2>2 DEF TypeOK
<1>6. EachRun(r)'
  <2>1. RunInv(r)'
    BY <1>1, <1>4 DEF EachRun, RunInv
  <2>2. OverlapInv(r)' /\ EntryInv(r)' /\ SummaryInv(r)'
    BY <1>1, <1>4 DEF EachRun, OverlapInv, EntryInv, SummaryInv
  <2>3. UseInv(r)'
    <3>1. \A x \in tx[r].redeemed : x.sub # sub[r]
      BY <1>1, <1>4 DEF EachRun, UseInv, RunInv
    <3> QED
      BY <1>1, <1>3, <1>4, <3>1 DEF EachRun, UseInv
  <2>4. LimitInv(r)'
    BY <1>1, <1>3, <1>4 DEF EachRun, LimitInv, UsesSeen, Eligible, Selected
  <2> QED
    BY <2>1, <2>2, <2>3, <2>4 DEF EachRun
<1>7. CountInv'
  BY <1>1, CountKept
<1> QED
  BY <1>1, <1>4, <1>5, <1>6, <1>7, LocalStep DEF Same, book, onboarding, MetInv

\* The rest of a list that has lost its head.
LEMMA TailFacts ==
  ASSUME NEW l \in Seq(Promos), l # <<>>
  PROVE  /\ Head(l) \in Promos /\ Head(l) = l[1] /\ 1 \in 1 .. Len(l)
         /\ Tail(l) \in Seq(Promos)
         /\ \A k \in 1 .. Len(Tail(l)) : k + 1 \in 1 .. Len(l) /\ Tail(l)[k] = l[k + 1]
<1>1. Len(l) \in Nat \ {0}
  BY EmptySeq
<1>2. /\ Head(l) \in Promos /\ Tail(l) \in Seq(Promos) /\ Len(Tail(l)) = Len(l) - 1
      /\ \A k \in 1 .. Len(Tail(l)) : Tail(l)[k] = l[k + 1]
  BY HeadTailProperties
<1> QED
  BY <1>1, <1>2

LEMMA PassPromoIInv ==
  ASSUME IInv, NEW r \in Runs, PassPromo(r)
  PROVE  IInv'
<1> USE DEF IInv
<1>1. /\ pc[r] = "promos" /\ left[r] # <<>>
      /\ left' = [left EXCEPT ![r] = Tail(@)]
      /\ UNCHANGED <<pc, todo, sub, subtotal, discount, tx, report, errors, invoices, uses,
                     redemptions, entries, counting, elsewhere, late, met, faults>>
  BY DEF PassPromo, NextPromo, summary, book, onboarding
<1>2. EachRun(r) /\ Open(r) /\ Open(r)'
  BY <1>1 DEF Open
<1>3. /\ left[r] \in Seq(Promos) /\ left'[r] = Tail(left[r]) /\ left'[r] \in Seq(Promos)
      /\ \A k \in 1 .. Len(left'[r]) : /\ k + 1 \in 1 .. Len(left[r])
                                       /\ left'[r][k] = left[r][k + 1]
  BY <1>1, TailFacts DEF TypeOK
<1>4. TypeOK'
  <2>1. left' \in [Runs -> Seq(Promos)]
    BY <1>1, <1>3 DEF TypeOK
  <2> QED
    BY <1>1, <2>1 DEF TypeOK
<1>5. EachRun(r)'
  <2>1. RunInv(r)' /\ OverlapInv(r)' /\ EntryInv(r)' /\ SummaryInv(r)'
    BY <1>1, <1>2 DEF EachRun, RunInv, OverlapInv, EntryInv, SummaryInv, Open, Busy
  <2>2. UseInv(r)'
    <3>1. \A k, l \in 1 .. Len(left'[r]) : left'[r][k] = left'[r][l] => k = l
      BY <1>2, <1>3 DEF EachRun, UseInv
    <3> QED
      BY <1>1, <1>2, <1>3, <3>1 DEF EachRun, UseInv
  <2>3. LimitInv(r)'
    <3>1. \A q \in Promos : Selected(r, q)' => Selected(r, q)
      BY <1>1, <1>3 DEF Selected
    <3>2. \A q \in Promos : UsesSeen(r, q)' = UsesSeen(r, q)
      BY <1>1 DEF UsesSeen
    <3> QED
      BY <1>1, <1>2, <3>1, <3>2 DEF EachRun, LimitInv
  <2> QED
    BY <2>1, <2>2, <2>3 DEF EachRun
<1>6. CountInv'
  BY <1>1, CountKept
<1>7. \A v \in Runs \ {r} : Same(v)
  BY <1>1 DEF Same, TypeOK
<1> QED
  BY <1>1, <1>2, <1>4, <1>5, <1>6, <1>7, LocalStep DEF book, onboarding, MetInv

LEMMA UsePromoIInv ==
  ASSUME IInv, NEW r \in Runs, UsePromo(r)
  PROVE  IInv'
<1> USE DEF IInv
<1>0. PICK p : p = Head(left[r])
  OBVIOUS
<1> DEFINE x == [run |-> r, sub |-> sub[r], promo |-> p]
           wrote == [tx[r].wrote EXCEPT ![p] = UsesSeen(r, p) + 1]
<1>1. /\ pc[r] = "promos" /\ left[r] # <<>> /\ Remaining(r) > 0 /\ Off(r) > 0
      /\ PromoFree(r, p)
      /\ tx' = [tx EXCEPT ![r].wrote[p] = UsesSeen(r, p) + 1, ![r].redeemed = @ \cup {x}]
      /\ discount' = [discount EXCEPT ![r] = @ + Off(r)]
      /\ left' = [left EXCEPT ![r] = Tail(@)]
      /\ UNCHANGED <<pc, todo, sub, subtotal, report, errors, invoices, uses, redemptions,
                     entries, counting, elsewhere, late, met, faults>>
  BY <1>0 DEF UsePromo, NextPromo, summary, book, onboarding
<1>2. EachRun(r) /\ Open(r) /\ Open(r)' /\ Busy(r) /\ Busy(r)' /\ sub[r] \in Subs
  BY <1>1 DEF Open, Busy, EachRun, RunInv, TypeOK
<1>3. /\ left[r] \in Seq(Promos) /\ p \in Promos /\ p = left[r][1] /\ 1 \in 1 .. Len(left[r])
      /\ left'[r] = Tail(left[r]) /\ left'[r] \in Seq(Promos)
      /\ Len(left'[r]) = Len(left[r]) - 1
      /\ \A k \in 1 .. Len(left'[r]) : /\ k + 1 \in 1 .. Len(left[r])
                                       /\ left'[r][k] = left[r][k + 1]
  <2>1. left[r] \in Seq(Promos) /\ left'[r] = Tail(left[r])
    BY <1>1 DEF TypeOK
  <2>2. Len(left[r]) \in Nat \ {0}
    BY <1>1, <2>1, EmptySeq
  <2>3. p = left[r][1]
    BY <1>0, <1>1, <2>1
  <2>4. /\ p \in Promos /\ left'[r] \in Seq(Promos) /\ Len(left'[r]) = Len(left[r]) - 1
        /\ \A k \in 1 .. Len(left'[r]) : left'[r][k] = left[r][k + 1]
    BY <1>0, <1>1, <2>1, HeadTailProperties
  <2>5. \A k \in 1 .. Len(left'[r]) : k + 1 \in 1 .. Len(left[r])
    BY <2>2, <2>4
  <2> QED
    BY <2>1, <2>2, <2>3, <2>4, <2>5
<1>4. /\ discount[r] \in Nat /\ subtotal[r] \in Nat /\ subtotal[r] > 0
      /\ discount'[r] \in Nat /\ discount'[r] > 0
  <2>1. discount[r] \in Nat /\ subtotal[r] \in Nat /\ subtotal[r] > 0 /\ Remaining(r) \in Nat
    BY <1>1 DEF TypeOK, Remaining
  <2>2. Off(r) \in Nat
    BY <1>0, <1>3, <2>1, DiscountTyped DEF Off
  <2>3. discount'[r] = discount[r] + Off(r)
    BY <1>1 DEF TypeOK
  <2> QED
    BY <1>1, <2>1, <2>2, <2>3
<1>5. UsesSeen(r, p) \in Nat
  BY <1>3 DEF UsesSeen, TypeOK, Transaction
<1>6. /\ tx'[r] = [tx[r] EXCEPT !.wrote = wrote, !.redeemed = @ \cup {x}]
      /\ \A v \in Runs \ {r} : tx'[v] = tx[v]
      /\ tx' = [tx EXCEPT ![r] = tx'[r]]
  BY <1>1 DEF TypeOK, Transaction
<1>7. /\ tx[r] \in Transaction
      /\ tx'[r].invoices = tx[r].invoices /\ tx'[r].broken = tx[r].broken
      /\ tx'[r].wrote = wrote /\ tx'[r].redeemed = tx[r].redeemed \cup {x}
  BY <1>6 DEF TypeOK, Transaction
<1>8. /\ wrote \in [Promos -> Nat \cup {NotWritten}]
      /\ wrote[p] = UsesSeen(r, p) + 1
      /\ \A q \in Promos \ {p} : wrote[q] = tx[r].wrote[q]
  BY <1>3, <1>5, <1>7 DEF Transaction
<1>9. ~tx[r].broken
  BY <1>1, <1>2 DEF EachRun, RunInv
<1>10. TypeOK'
  <2>1. x \in Redemption
    BY <1>2, <1>3 DEF Redemption
  <2>2. tx'[r] \in Transaction
    BY <1>6, <1>7, <1>8, <1>9, <2>1 DEF Transaction
  <2>3. tx' \in [Runs -> Transaction]
    BY <1>6, <2>2 DEF TypeOK
  <2>4. left' \in [Runs -> Seq(Promos)] /\ discount' \in [Runs -> Nat]
    BY <1>1, <1>3, <1>4 DEF TypeOK
  <2> QED
    BY <1>1, <2>3, <2>4 DEF TypeOK
<1>11. x \notin tx[r].redeemed
  BY <1>1, <1>2, <1>3 DEF EachRun, UseInv
<1>12. EachRun(r)'
  <2>1. RunInv(r)'
    BY <1>1, <1>2, <1>7, <1>9 DEF EachRun, RunInv
  <2>2. OverlapInv(r)' /\ EntryInv(r)'
    BY <1>1, <1>2, <1>7 DEF EachRun, OverlapInv, EntryInv
  <2>7. SummaryInv(r)'
    <3>1. SummaryInv(r) /\ Open(r)
      BY <1>2 DEF EachRun
    <3>2. {i.sub : i \in tx'[r].invoices} = {i.sub : i \in tx[r].invoices}
      BY <1>7
    <3>3. invoices' \cup tx'[r].invoices = invoices \cup tx[r].invoices
      BY <1>1, <1>7
    <3> QED
      BY <1>1, <1>9, <1>7, <3>1, <3>2, <3>3 DEF SummaryInv
  <2>3. \A k, l \in 1 .. Len(left'[r]) : left'[r][k] = left'[r][l] => k = l
    BY <1>2, <1>3 DEF EachRun, UseInv
  <2>4. \A k \in 1 .. Len(left'[r]) : left'[r][k] # p
    BY <1>2, <1>3 DEF EachRun, UseInv
  <2>5. UseInv(r)'
    <3> SUFFICES ASSUME NEW y \in tx'[r].redeemed
                 PROVE  /\ y.run = r
                        /\ \/ pc[r] = "promos" /\ y.sub = sub[r]
                           \/ \E i \in tx[r].invoices : i.sub = y.sub /\ i.discount > 0
                        /\ pc[r] = "promos" /\ y.sub = sub[r] =>
                             /\ discount'[r] > 0 /\ subtotal[r] > 0
                             /\ \A k \in 1 .. Len(left'[r]) : left'[r][k] # y.promo
      BY <1>1, <1>7, <2>3 DEF UseInv
    <3>1. CASE y = x
      BY <3>1, <1>1, <1>4, <2>4
    <3>2. CASE y \in tx[r].redeemed
      BY <3>2, <1>2, <1>3, <1>4 DEF EachRun, UseInv
    <3> QED
      BY <3>1, <3>2, <1>7
  <2>6. LimitInv(r)'
    <3> SUFFICES ASSUME met = {}, NEW q \in Promos \ late
                 PROVE  /\ UsesSeen(r, q)' <= MaxUses[q]
                        /\ Selected(r, q)' => UsesSeen(r, q)' < MaxUses[q]
      BY <1>1 DEF LimitInv
    <3>1. CASE q = p
      <4>1. UsesSeen(r, p)' = UsesSeen(r, p) + 1
        BY <1>5, <1>7, <1>8 DEF UsesSeen, NotWritten
      <4>2. UsesSeen(r, p) < MaxUses[p]
        BY <1>1, <1>2, <1>3, <3>1 DEF EachRun, LimitInv, Selected
      <4>3. ~Selected(r, p)'
        BY <2>4 DEF Selected
      <4> QED
        BY <1>3, <1>5, <3>1, <4>1, <4>2, <4>3, ConstantsTyped
    <3>2. CASE q # p
      <4>1. UsesSeen(r, q)' = UsesSeen(r, q)
        BY <1>1, <1>7, <1>8, <3>2 DEF UsesSeen
      <4>2. Selected(r, q)' => Selected(r, q)
        BY <1>1, <1>3 DEF Selected
      <4> QED
        BY <1>2, <4>1, <4>2 DEF EachRun, LimitInv
    <3> QED
      BY <3>1, <3>2
  <2> QED
    BY <2>1, <2>2, <2>5, <2>6, <2>7 DEF EachRun
<1>13. CountInv'
  <2>1. \A v \in Runs : IsFiniteSet(tx'[v].redeemed)
    <3>1. IsFiniteSet(tx[r].redeemed)
      BY DEF CountInv
    <3>2. IsFiniteSet(tx'[r].redeemed)
      BY <3>1, <1>7, FS_AddElement
    <3> QED
      BY <3>2, <1>6 DEF CountInv
  <2>2. \A v \in Runs \ {r} : \A q \in Promos : Holds(v, q)' <=> Holds(v, q)
    BY <1>6 DEF Holds
  <2>3. /\ Holds(r, p)'
        /\ \A q \in Promos \ {p} : Holds(r, q)' <=> Holds(r, q)
    BY <1>5, <1>7, <1>8 DEF Holds, NotWritten
  <2>4. ASSUME NEW v \in Runs, NEW q \in Promos
        PROVE  Cardinality(OfPromo(tx'[v].redeemed, q))
                 = IF Holds(v, q)' THEN tx'[v].wrote[q] - uses[q] ELSE 0
    <3>1. CASE v # r
      BY <3>1, <1>6, <2>2 DEF CountInv
    <3>2. CASE v = r /\ q # p
      <4>1. OfPromo(tx'[r].redeemed, q) = OfPromo(tx[r].redeemed, q)
        BY <3>2, <1>7 DEF OfPromo
      <4> QED
        BY <3>2, <4>1, <1>7, <1>8, <2>3 DEF CountInv
    <3>3. CASE v = r /\ q = p
      <4>1. OfPromo(tx'[r].redeemed, p) = OfPromo(tx[r].redeemed, p) \cup {x}
        BY <1>7 DEF OfPromo
      <4>2. x \notin OfPromo(tx[r].redeemed, p)
        BY <1>11 DEF OfPromo
      <4>3. IsFiniteSet(OfPromo(tx[r].redeemed, p))
        BY FS_Subset DEF OfPromo, CountInv
      <4>4. Cardinality(OfPromo(tx'[r].redeemed, p)) = Cardinality(OfPromo(tx[r].redeemed, p)) + 1
        BY <4>1, <4>2, <4>3, FS_AddElement
      <4>5. Cardinality(OfPromo(tx[r].redeemed, p))
              = IF Holds(r, p) THEN tx[r].wrote[p] - uses[p] ELSE 0
        BY <1>3 DEF CountInv
      <4>6. uses[p] \in Nat /\ tx[r].wrote[p] \in Nat \cup {-1}
        BY <1>3, <1>7 DEF TypeOK, Transaction, NotWritten
      <4>7. tx'[r].wrote[p] - uses[p] = IF Holds(r, p) THEN tx[r].wrote[p] - uses[p] + 1 ELSE 1
        BY <4>6, <1>7, <1>8 DEF UsesSeen, Holds, NotWritten
      <4> QED
        BY <3>3, <4>4, <4>5, <4>7, <2>3, <4>6 DEF Holds, NotWritten
    <3> QED
      BY <3>1, <3>2, <3>3
  <2>5. \A u, v \in Runs : \A q \in Promos : Holds(u, q)' /\ Holds(v, q)' => u = v
    BY <1>1, <2>2, <2>3 DEF CountInv, PromoFree
  <2>6. IsFiniteSet(redemptions') /\ uses' = uses
    BY <1>1 DEF CountInv
  <2>7. (\A q \in counting : uses[q] < MaxUses[q] /\ \A v \in Runs : ~Holds(v, q))'
    <3>1. counting \subseteq Promos \ {p} /\ counting' = counting
      BY <1>1, ConstantsTyped DEF PromoFree, TypeOK
    <3> QED
      BY <2>2, <2>3, <2>6, <3>1 DEF CountInv
  <2> HIDE DEF x, wrote
  <2> QED
    BY <2>1, <2>4, <2>5, <2>6, <2>7 DEF CountInv
<1>14. \A v \in Runs \ {r} : Same(v)
  BY <1>1, <1>6 DEF Same, TypeOK
<1> HIDE DEF x, wrote
<1> QED
  BY <1>1, <1>2, <1>10, <1>12, <1>13, <1>14, LocalStep DEF book, onboarding, MetInv

LEMMA InsertIInv ==
  ASSUME IInv, NEW r \in Runs, Insert(r)
  PROVE  IInv'
<1> USE DEF IInv
<1>0. PICK i0 : i0 = InvoiceOf(r, sub[r], subtotal[r], Smaller(discount[r], subtotal[r]))
  OBVIOUS
<1>1. /\ pc[r] = "promos" /\ pc'[r] = "post"
      /\ tx' = [tx EXCEPT ![r].invoices = @ \cup {i0}]
      /\ UNCHANGED <<todo, sub, subtotal, left, discount, report, errors, invoices, uses,
                     redemptions, entries, counting, elsewhere, late, met, faults>>
      /\ \A v \in Runs \ {r} : pc'[v] = pc[v]
  BY <1>0 DEF Insert, Step, TypeOK, work, local, summary, book, onboarding
<1>2. EachRun(r) /\ Open(r) /\ Open(r)' /\ Busy(r) /\ Busy(r)' /\ sub[r] \in Subs /\ ~tx[r].broken
  BY <1>1 DEF Open, Busy, EachRun, RunInv, TypeOK
<1>3. /\ tx'[r] = [tx[r] EXCEPT !.invoices = @ \cup {i0}]
      /\ \A v \in Runs \ {r} : tx'[v] = tx[v]
      /\ tx' = [tx EXCEPT ![r] = tx'[r]]
  BY <1>1 DEF TypeOK, Transaction
<1>4. /\ tx[r] \in Transaction
      /\ tx'[r].invoices = tx[r].invoices \cup {i0} /\ tx'[r].broken = tx[r].broken
      /\ tx'[r].wrote = tx[r].wrote /\ tx'[r].redeemed = tx[r].redeemed
  BY <1>3 DEF TypeOK, Transaction
<1>5. /\ subtotal[r] \in Nat /\ discount[r] \in Nat /\ i0 \in Invoice
      /\ i0.run = r /\ i0.sub = sub[r]
      /\ discount[r] > 0 /\ subtotal[r] > 0 => i0.discount > 0
  BY <1>0, <1>2 DEF TypeOK, Invoice, InvoiceOf, Smaller
<1>6. TypeOK'
  <2>1. tx'[r] \in Transaction
    BY <1>2, <1>3, <1>4, <1>5 DEF Transaction
  <2>2. tx' \in [Runs -> Transaction]
    BY <1>3, <2>1 DEF TypeOK
  <2>3. pc' \in [Runs -> {"idle", "next", "price", "select", "promos", "post", "done", "lost"}]
    BY DEF TypeOK, Insert, Step
  <2> QED
    BY <1>1, <2>2, <2>3 DEF TypeOK
<1>7. EachRun(r)'
  <2>1. RunInv(r)'
    BY <1>1, <1>2, <1>4, <1>5 DEF EachRun, RunInv
  <2>2. OverlapInv(r)'
    BY <1>1, <1>2, <1>4, <1>5 DEF EachRun, OverlapInv
  <2>3. EntryInv(r)'
    BY <1>1, <1>2, <1>4 DEF EachRun, EntryInv
  <2>4. UseInv(r)'
    BY <1>1, <1>2, <1>4, <1>5 DEF EachRun, UseInv
  <2>5. LimitInv(r)'
    BY <1>1, <1>2, <1>4 DEF EachRun, LimitInv, UsesSeen, Selected
  <2>6. SummaryInv(r)'
    <3>1. SummaryInv(r)
      BY <1>2 DEF EachRun
    <3>2. {i.sub : i \in tx'[r].invoices} \ {sub'[r]} = {i.sub : i \in tx[r].invoices} \ {sub[r]}
      BY <1>1, <1>4, <1>5
    <3> QED
      BY <1>1, <1>2, <1>4, <3>1, <3>2 DEF SummaryInv
  <2> QED
    BY <2>1, <2>2, <2>3, <2>4, <2>5, <2>6 DEF EachRun
<1>8. CountInv'
  <2>1. \A v \in Runs : tx'[v].redeemed = tx[v].redeemed /\ tx'[v].wrote = tx[v].wrote
    BY <1>3, <1>4
  <2> QED
    BY <1>1, <2>1 DEF CountInv, Holds
<1> QED
  BY <1>1, <1>2, <1>3, <1>6, <1>7, <1>8, LocalStep DEF Same, book, onboarding, MetInv

LEMMA PostEntryIInv ==
  ASSUME IInv, NEW r \in Runs, PostEntry(r)
  PROVE  IInv'
<1> USE DEF IInv
<1>1. /\ pc[r] = "post" /\ pc'[r] = "next"
      /\ sub'[r] = NoSub /\ left'[r] = <<>>
      /\ report'[r] = report[r] \cup {sub[r]}
      /\ UNCHANGED <<todo, tx, errors, invoices, uses, redemptions, counting, elsewhere, late, met,
                     faults>>
      /\ \A v \in Runs \ {r} : /\ pc'[v] = pc[v] /\ sub'[v] = sub[v] /\ left'[v] = left[v]
                               /\ subtotal'[v] = subtotal[v] /\ discount'[v] = discount[v]
                               /\ report'[v] = report[v]
  BY DEF PostEntry, Forget, Step, TypeOK, book, onboarding
<1>2. /\ EachRun(r) /\ Open(r) /\ Open(r)' /\ Busy(r) /\ ~Busy(r)'
      /\ sub[r] \in Subs /\ ~tx[r].broken
      /\ \E i \in tx[r].invoices : i.sub = sub[r]
  BY <1>1 DEF Open, Busy, EachRun, RunInv, TypeOK
<1>3. /\ entries \subseteq entries'
      /\ \A e \in entries' \ entries : /\ e \in [run : Runs, sub : Subs]
                                       /\ e.run = r /\ e.sub = sub[r]
  BY <1>2 DEF PostEntry
<1>4. TypeOK'
  <2>1. /\ subtotal' \in [Runs -> Nat] /\ discount' \in [Runs -> Nat]
        /\ sub' \in [Runs -> Subs \cup {NoSub}]
        /\ pc' \in [Runs -> {"idle", "next", "price", "select", "promos", "post", "done", "lost"}]
    BY DEF TypeOK, PostEntry, Forget, Step
  <2>2. left' \in [Runs -> Seq(Promos)]
    BY EmptySeq DEF TypeOK, PostEntry, Forget
  <2>3. report' \in [Runs -> SUBSET Subs]
    BY <1>2 DEF TypeOK, PostEntry
  <2>4. entries' \subseteq [run : Runs, sub : Subs]
    BY <1>3 DEF TypeOK
  <2> QED
    BY <1>1, <2>1, <2>2, <2>3, <2>4 DEF TypeOK
<1>5. EachRun(r)'
  <2>1. RunInv(r)'
    BY <1>1, <1>2 DEF EachRun, RunInv
  <2>2. OverlapInv(r)'
    BY <1>1, <1>2, ConstantsTyped DEF EachRun, OverlapInv, TypeOK, Invoice
  <2>3. UseInv(r)'
    BY <1>1, <1>2, EmptySeq DEF EachRun, UseInv
  <2>4. EntryInv(r)'
    BY <1>1, <1>2, <1>3 DEF EachRun, EntryInv
  <2>5. LimitInv(r)'
    BY <1>1, <1>2 DEF EachRun, LimitInv, UsesSeen, Selected
  <2>6. SummaryInv(r)'
    <3>1. \A i \in tx[r].invoices : i.sub # NoSub
      BY ConstantsTyped DEF TypeOK, Transaction, Invoice
    <3>2. {i.sub : i \in tx[r].invoices} \ {sub'[r]}
            = ({i.sub : i \in tx[r].invoices} \ {sub[r]}) \cup {sub[r]}
      BY <1>1, <1>2, <3>1
    <3> QED
      BY <1>1, <1>2, <3>2 DEF EachRun, SummaryInv
  <2> QED
    BY <2>1, <2>2, <2>3, <2>4, <2>5, <2>6 DEF EachRun
<1>6. CountInv'
  BY <1>1, CountKept
<1> QED
  BY <1>1, <1>2, <1>3, <1>4, <1>5, <1>6, LocalStep DEF Same, book, onboarding, MetInv

-----------------------------------------------------------------------------
\* The error of a subscription: its transaction is as it was, or broken.
LEMMA SkipIInv ==
  ASSUME IInv, NEW r \in Runs, Skip(r), UNCHANGED tx \/ Break(r),
         pc[r] \in {"price", "select", "promos"},
         pc[r] = "promos" => Break(r),
         faults' \in 0 .. MaxFaults
  PROVE  IInv'
<1> USE DEF IInv
<1>1. /\ pc'[r] = "next" /\ sub'[r] = NoSub /\ left'[r] = <<>>
      /\ errors'[r] = errors[r] \cup {sub[r]}
      /\ UNCHANGED <<todo, report, invoices, uses, redemptions, entries, counting, elsewhere,
                     late, met>>
      /\ \A v \in Runs \ {r} : /\ pc'[v] = pc[v] /\ sub'[v] = sub[v] /\ left'[v] = left[v]
                               /\ subtotal'[v] = subtotal[v] /\ discount'[v] = discount[v]
                               /\ errors'[v] = errors[v] /\ tx'[v] = tx[v]
  BY DEF Skip, Forget, Break, TypeOK, book, onboarding
<1>2. /\ EachRun(r) /\ Open(r) /\ Open(r)' /\ Busy(r) /\ ~Busy(r)'
      /\ sub[r] \in Subs /\ ~tx[r].broken
  BY <1>1 DEF Open, Busy, EachRun, RunInv, TypeOK
<1>3. \/ tx'[r] = tx[r] /\ pc[r] \in {"price", "select"}
      \/ /\ tx'[r] = BrokenTx /\ tx'[r].broken
         /\ tx'[r].invoices = {} /\ tx'[r].redeemed = {}
         /\ \A p \in Promos : tx'[r].wrote[p] = NotWritten
  <2>1. CASE Break(r)
    <3>1. tx'[r] = BrokenTx
      BY <2>1 DEF Break, TypeOK
    <3>2. tx'[r] \in {CleanTx, BrokenTx}
      BY <3>1
    <3> QED
      BY <3>1, <3>2, EmptyTx
  <2>2. CASE ~Break(r)
    BY <2>2
  <2> QED
    BY <2>1, <2>2
<1>4. TypeOK'
  <2>1. /\ subtotal' \in [Runs -> Nat] /\ discount' \in [Runs -> Nat]
        /\ sub' \in [Runs -> Subs \cup {NoSub}]
        /\ pc' \in [Runs -> {"idle", "next", "price", "select", "promos", "post", "done", "lost"}]
    BY DEF TypeOK, Skip, Forget
  <2>2. left' \in [Runs -> Seq(Promos)]
    BY EmptySeq DEF TypeOK, Skip, Forget
  <2>3. errors' \in [Runs -> SUBSET Subs]
    BY <1>2 DEF TypeOK, Skip
  <2>4. tx' \in [Runs -> Transaction]
    BY EmptyTx DEF TypeOK, Break
  <2> QED
    BY <1>1, <2>1, <2>2, <2>3, <2>4 DEF TypeOK
<1>5. EachRun(r)'
  <2>1. RunInv(r)'
    BY <1>1, <1>2, <1>3 DEF EachRun, RunInv
  <2>2. OverlapInv(r)'
    BY <1>1, <1>2, <1>3, ConstantsTyped DEF EachRun, OverlapInv, TypeOK, Invoice
  <2>3. UseInv(r)'
    BY <1>1, <1>2, <1>3, EmptySeq DEF EachRun, UseInv
  <2>4. EntryInv(r)'
    BY <1>1, <1>2, <1>3 DEF EachRun, EntryInv
  <2>5. LimitInv(r)'
    <3> SUFFICES ASSUME met = {}
                 PROVE  \A p \in Promos \ late : UsesSeen(r, p)' <= MaxUses[p]
      BY <1>1 DEF LimitInv, Selected
    <3>1. CASE tx'[r] = tx[r]
      BY <3>1, <1>1, <1>2 DEF EachRun, LimitInv, UsesSeen, Selected
    <3>2. CASE \A p \in Promos : tx'[r].wrote[p] = NotWritten
      BY <3>2, <1>1, ConstantsTyped DEF LimitKeptUnlessOverlapping, UsesSeen, TypeOK
    <3> QED
      BY <3>1, <3>2, <1>3
  <2>6. SummaryInv(r)'
    BY <1>1 DEF SummaryInv
  <2> QED
    BY <2>1, <2>2, <2>3, <2>4, <2>5, <2>6 DEF EachRun
<1>6. CountInv'
  BY <1>1, CountKept, CountDropped DEF Break
<1>7. pc[r] # "done" /\ pc'[r] # "done"
  BY <1>1
<1> QED
  BY <1>1, <1>2, <1>4, <1>5, <1>6, <1>7, LocalStep DEF Same, book, onboarding, MetInv

LEMMA CrashIInv ==
  ASSUME IInv, NEW r \in Runs, Crash(r)
  PROVE  IInv'
<1> USE DEF IInv
<1>1. /\ Open(r) /\ pc'[r] = "lost" /\ sub'[r] = NoSub /\ left'[r] = <<>> /\ tx'[r] = CleanTx
      /\ UNCHANGED <<report, errors, invoices, uses, redemptions, entries, counting, elsewhere,
                     late, met>>
      /\ \A v \in Runs \ {r} : /\ pc'[v] = pc[v] /\ sub'[v] = sub[v] /\ left'[v] = left[v]
                               /\ subtotal'[v] = subtotal[v] /\ discount'[v] = discount[v]
                               /\ todo'[v] = todo[v] /\ tx'[v] = tx[v]
  BY DEF Crash, EndRun, Forget, TypeOK, summary, book, onboarding
<1>2. /\ EachRun(r) /\ ~Open(r)' /\ ~Busy(r)' /\ pc[r] # "done" /\ pc[r] # "idle"
      /\ CleanTx.invoices = {} /\ CleanTx.redeemed = {} /\ ~CleanTx.broken
      /\ \A p \in Promos : CleanTx.wrote[p] = NotWritten
  BY <1>1, EmptyTx DEF Open, Busy, CleanTx
<1>3. TypeOK'
  <2>1. /\ subtotal' \in [Runs -> Nat] /\ discount' \in [Runs -> Nat]
        /\ sub' \in [Runs -> Subs \cup {NoSub}] /\ todo' \in [Runs -> SUBSET Subs]
        /\ pc' \in [Runs -> {"idle", "next", "price", "select", "promos", "post", "done", "lost"}]
    BY DEF TypeOK, Crash, EndRun, Forget
  <2>2. left' \in [Runs -> Seq(Promos)]
    BY EmptySeq DEF TypeOK, Crash, EndRun, Forget
  <2>3. tx' \in [Runs -> Transaction]
    BY EmptyTx DEF TypeOK, Crash, EndRun
  <2>4. faults' \in 0 .. MaxFaults
    BY ConstantsTyped DEF TypeOK, Crash, Fault
  <2> QED
    BY <1>1, <2>1, <2>2, <2>3, <2>4 DEF TypeOK
<1>4. EachRun(r)'
  <2>1. RunInv(r)'
    BY <1>1, <1>2 DEF RunInv
  <2>2. OverlapInv(r)'
    BY <1>2 DEF OverlapInv
  <2>3. UseInv(r)'
    BY <1>1, <1>2, EmptySeq DEF UseInv
  <2>4. EntryInv(r)'
    BY <1>1, <1>2 DEF EntryInv
  <2>5. LimitInv(r)'
    BY <1>1, <1>2, ConstantsTyped DEF LimitInv, LimitKeptUnlessOverlapping, UsesSeen, TypeOK,
                                      Selected
  <2>6. SummaryInv(r)'
    BY <1>1, <1>2 DEF SummaryInv
  <2> QED
    BY <2>1, <2>2, <2>3, <2>4, <2>5, <2>6 DEF EachRun
<1>5. CountInv'
  BY <1>1, CountDropped DEF Crash, EndRun
<1> QED
  BY <1>1, <1>2, <1>3, <1>4, <1>5, LocalStep DEF Same, book, onboarding, MetInv

LEMMA CommitIInv ==
  ASSUME IInv, NEW r \in Runs, Commit(r)
  PROVE  IInv'
<1> USE DEF IInv
<1>0. PICK t : t = tx[r]
  OBVIOUS
<1>1. /\ pc[r] = "next" /\ todo[r] = {}
      /\ pc'[r] = (IF t.broken THEN "lost" ELSE "done")
      /\ sub'[r] = NoSub /\ left'[r] = <<>> /\ tx'[r] = CleanTx
      /\ tx' = [tx EXCEPT ![r] = CleanTx]
      /\ invoices' = invoices \cup t.invoices
      /\ redemptions' = redemptions \cup t.redeemed
      /\ \A p \in Promos : uses'[p] = UsesSeen(r, p)
      /\ UNCHANGED <<report, errors, entries, counting, elsewhere, late, met, faults>>
  BY <1>0 DEF Commit, EndRun, Forget, TypeOK, summary, onboarding
<1>2. \A v \in Runs \ {r} : Same(v)
  BY <1>1 DEF Same, Commit, EndRun, Forget, TypeOK, summary
<1>3. /\ EachRun(r) /\ Open(r) /\ ~Open(r)' /\ ~Busy(r) /\ ~Busy(r)' /\ sub[r] = NoSub
      /\ CleanTx.invoices = {} /\ CleanTx.redeemed = {} /\ ~CleanTx.broken
      /\ \A p \in Promos : CleanTx.wrote[p] = NotWritten
  BY <1>1, EmptyTx DEF Open, Busy, CleanTx, EachRun, RunInv
<1>4. /\ t \in Transaction
      /\ \A i \in t.invoices : i \in Invoice /\ i.run = r /\ i.sub # NoSub
      /\ \A x \in t.redeemed : x \in Redemption /\ x.run = r
      /\ t.broken => t.invoices = {} /\ t.redeemed = {}
      /\ \A p \in Promos : Holds(r, p) <=> t.wrote[p] # NotWritten
  BY <1>0, <1>3, EmptyTx, ConstantsTyped
     DEF EachRun, RunInv, UseInv, TypeOK, Transaction, Invoice, Holds
<1>5. \A i \in invoices : i \in Invoice /\ i.run \in Runs \ {r} /\ i.sub # NoSub
  BY <1>1, ConstantsTyped DEF RowInv, TypeOK, Invoice
<1>6. TypeOK'
  <2>1. /\ subtotal' \in [Runs -> Nat] /\ discount' \in [Runs -> Nat]
        /\ sub' \in [Runs -> Subs \cup {NoSub}] /\ todo' \in [Runs -> SUBSET Subs]
        /\ pc' \in [Runs -> {"idle", "next", "price", "select", "promos", "post", "done", "lost"}]
    BY DEF TypeOK, Commit, EndRun, Forget
  <2>2. left' \in [Runs -> Seq(Promos)]
    BY EmptySeq DEF TypeOK, Commit, EndRun, Forget
  <2>3. tx' \in [Runs -> Transaction]
    BY <1>1, EmptyTx DEF TypeOK
  <2>4. uses' \in [Promos -> Nat]
    <3>1. \A p \in Promos : UsesSeen(r, p) \in Nat
      BY <1>0, <1>4 DEF UsesSeen, TypeOK, Transaction
    <3> QED
      BY <3>1 DEF Commit
  <2>5. invoices' \subseteq Invoice /\ redemptions' \subseteq Redemption
    BY <1>1, <1>4 DEF TypeOK
  <2> QED
    BY <1>1, <2>1, <2>2, <2>3, <2>4, <2>5 DEF TypeOK
<1>7. RowInv'
  <2>1. ASSUME NEW i \in invoices' PROVE pc'[i.run] = "done"
    BY <1>1, <1>2, <1>4, <1>5 DEF RowInv, Same
  <2>2. ASSUME NEW x \in redemptions' PROVE pc'[x.run] = "done"
    <3>1. CASE x \in redemptions
      <4>1. x.run \in Runs \ {r} /\ pc[x.run] = "done"
        BY <3>1, <1>1 DEF RowInv, TypeOK, Redemption
      <4> QED
        BY <4>1, <1>2 DEF Same
    <3>2. CASE x \in t.redeemed
      BY <3>2, <1>1, <1>4
    <3> QED
      BY <3>1, <3>2, <1>1
  <2> QED
    BY <2>1, <2>2 DEF RowInv
<1>8. MetInv'
  BY <1>1, <1>2, <1>3 DEF MetInv, Open, Same
<1>9. LimitKeptUnlessOverlapping'
  <2> SUFFICES ASSUME NEW p \in Promos \ late, met = {}
               PROVE  ~(uses'[p] > MaxUses[p])
    BY <1>1 DEF LimitKeptUnlessOverlapping
  <2>1. uses'[p] <= MaxUses[p]
    BY <1>1, <1>3 DEF EachRun, LimitInv
  <2>2. uses'[p] \in Nat /\ MaxUses[p] \in Nat
    BY <1>6, ConstantsTyped DEF TypeOK
  <2> QED
    BY <2>1, <2>2
<1>10. ASSUME NEW v \in Runs
       PROVE  EachRun(v)'
  <2>1. CASE v = r
    <3>1. RunInv(r)'
      BY <1>1, <1>3 DEF RunInv
    <3>2. OverlapInv(r)'
      BY <1>3 DEF OverlapInv
    <3>3. UseInv(r)'
      BY <1>1, <1>3, EmptySeq DEF UseInv
    <3>4. LimitInv(r)'
      BY <1>1, <1>3 DEF EachRun, LimitInv, UsesSeen, Selected
    <3>5. EntryInv(r)' /\ SummaryInv(r)'
      BY <1>1, <1>3 DEF EntryInv, SummaryInv
    <3> QED
      BY <2>1, <3>1, <3>2, <3>3, <3>4, <3>5 DEF EachRun
  <2>2. CASE v # r
    <3>1. Same(v) /\ EachRun(v)
      BY <1>2, <2>2
    <3>2. (Open(v)' <=> Open(v)) /\ (Busy(v)' <=> Busy(v))
      BY <3>1 DEF Same, Open, Busy
    <3>3. Open(v) => {r, v} \in met
      BY <1>3, <2>2 DEF MetInv
    <3>4. RunInv(v)'
      BY <3>1, <3>2 DEF EachRun, RunInv, Same
    <3>5. OverlapInv(v)'
      BY <1>1, <1>4, <3>1, <3>2, <3>3 DEF EachRun, OverlapInv, Same
    <3>6. UseInv(v)'
      BY <3>1 DEF EachRun, UseInv, Same
    <3>7. LimitInv(v)'
      <4> SUFFICES ASSUME met = {} PROVE LimitInv(v)'
        BY <1>1 DEF LimitInv
      <4>1. ~Open(v) /\ pc'[v] # "promos" /\ tx'[v] = CleanTx
        BY <3>1, <3>3 DEF Open, Same, EachRun, RunInv
      <4>2. \A p \in Promos \ late : UsesSeen(v, p)' <= MaxUses[p]
        BY <4>1, <1>1, <1>3 DEF EachRun, LimitInv, UsesSeen
      <4> QED
        BY <1>1, <4>1, <4>2 DEF LimitInv, Selected
    <3>8. EntryInv(v)'
      BY <1>1, <3>1, <3>2 DEF EachRun, EntryInv, Same
    <3>9. SummaryInv(v)'
      BY <1>1, <3>1, <3>2 DEF EachRun, SummaryInv, Same
    <3> QED
      BY <3>4, <3>5, <3>6, <3>7, <3>8, <3>9 DEF EachRun
  <2> QED
    BY <2>1, <2>2
<1>11. CountInv'
  <2>1. IsFiniteSet(redemptions')
    BY <1>0, <1>1, FS_Union DEF CountInv
  <2>2. \A v \in Runs : IsFiniteSet(tx'[v].redeemed)
    BY <1>1, <1>2, <1>3, FS_EmptySet DEF CountInv, Same
  <2>3. \A p \in Promos : ~Holds(r, p)'
    BY <1>1, <1>3 DEF Holds
  <2>4. \A v \in Runs \ {r} : \A p \in Promos : Holds(v, p)' <=> Holds(v, p)
    BY <1>2 DEF Holds, Same
  <2>5. ASSUME NEW v \in Runs, NEW p \in Promos
        PROVE  Cardinality(OfPromo(tx'[v].redeemed, p))
                 = IF Holds(v, p)' THEN tx'[v].wrote[p] - uses'[p] ELSE 0
    <3>1. CASE v = r
      <4>1. OfPromo(tx'[r].redeemed, p) = {}
        BY <1>1, <1>3 DEF OfPromo
      <4> QED
        BY <3>1, <4>1, <2>3, FS_EmptySet
    <3>2. CASE v # r
      <4>1. Holds(v, p) => uses'[p] = uses[p]
        BY <3>2, <1>1 DEF CountInv, UsesSeen, Holds
      <4> QED
        BY <3>2, <4>1, <1>2, <2>4 DEF CountInv, Same
    <3> QED
      BY <3>1, <3>2
  <2>6. \A u, v \in Runs : \A p \in Promos : Holds(u, p)' /\ Holds(v, p)' => u = v
    BY <2>3, <2>4 DEF CountInv
  <2>7. (\A p \in counting : uses[p] < MaxUses[p] /\ \A v \in Runs : ~Holds(v, p))'
    <3>1. counting' = counting /\ counting \subseteq Promos
      BY <1>1, ConstantsTyped DEF TypeOK
    <3>2. \A p \in counting : uses'[p] = uses[p]
      BY <1>1, <3>1 DEF CountInv, UsesSeen, Holds
    <3> QED
      BY <2>3, <2>4, <3>1, <3>2 DEF CountInv
  <2> QED
    BY <2>1, <2>2, <2>5, <2>6, <2>7 DEF CountInv
<1>12. UsesCounted'
  <2> SUFFICES ASSUME NEW p \in Promos
               PROVE  uses'[p] = Cardinality(OfPromo(redemptions', p)) + elsewhere[p]
    BY <1>1 DEF UsesCounted, OfPromo
  <2>1. OfPromo(redemptions', p) = OfPromo(redemptions, p) \cup OfPromo(t.redeemed, p)
    BY <1>1 DEF OfPromo
  <2>2. OfPromo(redemptions, p) \cap OfPromo(t.redeemed, p) = {}
    BY <1>1, <1>4 DEF OfPromo, RowInv
  <2>3. IsFiniteSet(OfPromo(redemptions, p)) /\ IsFiniteSet(OfPromo(t.redeemed, p))
    BY <1>0, FS_Subset DEF OfPromo, CountInv
  <2>4. Cardinality(OfPromo(redemptions', p))
          = Cardinality(OfPromo(redemptions, p)) + Cardinality(OfPromo(t.redeemed, p))
    <3> DEFINE A == OfPromo(redemptions, p)
               B == OfPromo(t.redeemed, p)
    <3>1. IsFiniteSet(A) /\ IsFiniteSet(B) /\ Cardinality(A \cap B) = 0
      BY <2>2, <2>3, FS_EmptySet
    <3> HIDE DEF A, B
    <3>2. Cardinality(A \cup B) = Cardinality(A) + Cardinality(B) - Cardinality(A \cap B)
      BY <3>1, FS_Union
    <3>3. Cardinality(A) \in Nat /\ Cardinality(B) \in Nat
      BY <3>1, FS_CardinalityType
    <3>4. Cardinality(A \cup B) = Cardinality(A) + Cardinality(B)
      BY <3>1, <3>2, <3>3
    <3> QED
      BY <2>1, <3>4 DEF A, B
  <2>5. /\ uses[p] = Cardinality(OfPromo(redemptions, p)) + elsewhere[p]
        /\ uses[p] \in Nat /\ elsewhere[p] \in Nat
        /\ Cardinality(OfPromo(redemptions, p)) \in Nat
    BY <2>3, FS_CardinalityType DEF UsesCounted, OfPromo, TypeOK
  <2>6. Cardinality(OfPromo(t.redeemed, p)) = IF Holds(r, p) THEN t.wrote[p] - uses[p] ELSE 0
    BY <1>0 DEF CountInv
  <2>7. t.wrote[p] \in Nat \cup {-1}
    BY <1>4 DEF Transaction, NotWritten
  <2> QED
    BY <1>0, <1>1, <1>4, <2>4, <2>5, <2>6, <2>7 DEF UsesSeen, NotWritten
<1>13. BilledOnceUnlessOverlapping'
  <2> SUFFICES ASSUME NEW i \in invoices', NEW j \in invoices', i.sub = j.sub, i # j
               PROVE  {i.run, j.run} \in met
    BY <1>1 DEF BilledOnceUnlessOverlapping
  <2>1. ASSUME NEW a \in invoices, NEW b \in t.invoices, a.sub = b.sub
        PROVE  {a.run, b.run} \in met
    BY <2>1, <1>0, <1>3, <1>4 DEF EachRun, OverlapInv
  <2>2. CASE i \in t.invoices /\ j \in t.invoices
    BY <2>2, <1>0, <1>3 DEF EachRun, RunInv
  <2>3. CASE i \in invoices /\ j \in invoices
    BY <2>3 DEF BilledOnceUnlessOverlapping
  <2>4. {i.run, j.run} = {j.run, i.run}
    OBVIOUS
  <2> QED
    BY <2>1, <2>2, <2>3, <2>4, <1>1
<1>14. RedemptionsBilled'
  BY <1>0, <1>1, <1>3, <1>4 DEF RedemptionsBilled, EachRun, UseInv
<1>15. EntriesExplained'
  <2> SUFFICES ASSUME NEW e \in entries, pc'[e.run] = "done"
               PROVE  \E i \in invoices' : i.run = e.run /\ i.sub = e.sub
    BY <1>1 DEF EntriesExplained
  <2>1. CASE e.run = r
    BY <2>1, <1>0, <1>1, <1>3, <1>4 DEF EachRun, EntryInv
  <2>2. CASE e.run # r
    <3>1. e.run \in Runs \ {r}
      BY <2>2 DEF TypeOK
    <3> QED
      BY <3>1, <1>1, <1>2 DEF EntriesExplained, Same
  <2> QED
    BY <2>1, <2>2
<1>16. CleanRunBillsAll'
  <2> SUFFICES ASSUME NEW v \in Runs, pc'[v] = "done", errors[v] = {}
               PROVE  /\ \A s \in Subs : Fee[s] > 0 => \E i \in invoices' : i.sub = s
                      /\ report[v] = {i.sub : i \in {j \in invoices' : j.run = v}}
    BY <1>1 DEF CleanRunBillsAll
  <2>1. CASE v = r
    <3>1. {j \in invoices' : j.run = r} = t.invoices
      BY <1>1, <1>4, <1>5
    <3>2. {i.sub : i \in t.invoices} \ {NoSub} = {i.sub : i \in t.invoices}
      BY <1>4
    <3>3. /\ report[r] = {i.sub : i \in t.invoices} \ {NoSub}
          /\ \A s \in Subs \ {NoSub} : Fee[s] > 0 => \E i \in invoices \cup t.invoices : i.sub = s
      BY <2>1, <1>0, <1>1, <1>3 DEF EachRun, SummaryInv
    <3> QED
      BY <2>1, <1>1, <3>1, <3>2, <3>3, ConstantsTyped
  <2>2. CASE v # r
    <3>1. pc[v] = "done"
      BY <2>2, <1>2 DEF Same
    <3>2. {j \in invoices' : j.run = v} = {j \in invoices : j.run = v}
      BY <2>2, <1>1, <1>4
    <3> QED
      BY <3>1, <3>2, <1>1 DEF CleanRunBillsAll
  <2> QED
    BY <2>1, <2>2
<1> QED
  BY <1>6, <1>7, <1>8, <1>9, <1>10, <1>11, <1>12, <1>13, <1>14, <1>15, <1>16

-----------------------------------------------------------------------------
\* An onboarding takes the row of a promotion, or its transaction ends.
LEMMA CountUseIInv ==
  ASSUME IInv, NEW p \in Promos, CountUse(p) \/ DropUse(p)
  PROVE  IInv'
<1> USE DEF IInv
<1>1. UNCHANGED <<pc, todo, sub, subtotal, left, discount, tx, report, errors, invoices, uses,
                  redemptions, entries, elsewhere, late, met>>
  BY DEF CountUse, DropUse, work, local, summary, book
<1>2. TypeOK'
  <2>1. counting' \subseteq Shared
    BY DEF CountUse, DropUse, TypeOK
  <2>2. faults' \in 0 .. MaxFaults
    BY ConstantsTyped DEF CountUse, DropUse, Fault, TypeOK
  <2> QED
    BY <1>1, <2>1, <2>2 DEF TypeOK
<1>3. CountInv'
  <2>1. \A q \in counting' :
          q \in counting \/ (uses[q] < MaxUses[q] /\ \A v \in Runs : ~Holds(v, q))
    BY DEF CountUse, DropUse
  <2> QED
    BY <1>1, <2>1 DEF CountInv, Holds, OfPromo
<1>4. \A r \in Runs : EachRun(r)'
  BY <1>1 DEF EachRun, RunInv, OverlapInv, UseInv, LimitInv, EntryInv, SummaryInv, Open, Busy,
              UsesSeen, Selected
<1>5. RowInv' /\ MetInv' /\ BilledOnceUnlessOverlapping' /\ LimitKeptUnlessOverlapping'
  BY <1>1 DEF RowInv, MetInv, Open, BilledOnceUnlessOverlapping, LimitKeptUnlessOverlapping
<1>6. UsesCounted' /\ RedemptionsBilled' /\ CleanRunBillsAll' /\ EntriesExplained'
  BY <1>1 DEF UsesCounted, RedemptionsBilled, CleanRunBillsAll, EntriesExplained
<1> QED
  BY <1>2, <1>3, <1>4, <1>5, <1>6

\* The COMMIT of an onboarding: no run holds the row, and those that have
\* selected the promotion are found late.
LEMMA CommitUseIInv ==
  ASSUME IInv, NEW p \in Promos, CommitUse(p)
  PROVE  IInv'
<1> USE DEF IInv
<1>1. /\ p \in counting /\ counting' = counting \ {p}
      /\ uses' = [uses EXCEPT ![p] = @ + 1]
      /\ elsewhere' = [elsewhere EXCEPT ![p] = @ + 1]
      /\ late \subseteq late' /\ late' \subseteq Promos
      /\ \A r \in Runs : Selected(r, p) => p \in late'
      /\ UNCHANGED <<pc, todo, sub, subtotal, left, discount, tx, report, errors, invoices,
                     redemptions, entries, met, faults>>
  BY DEF CommitUse, work, local, summary, TypeOK
<1>2. /\ uses[p] \in Nat /\ uses'[p] = uses[p] + 1 /\ uses[p] < MaxUses[p]
      /\ elsewhere'[p] = elsewhere[p] + 1
      /\ \A q \in Promos \ {p} : uses'[q] = uses[q] /\ elsewhere'[q] = elsewhere[q]
      /\ \A r \in Runs : ~Holds(r, p)
  BY <1>1 DEF TypeOK, CountInv
<1>3. TypeOK'
  <2>1. uses' \in [Promos -> Nat] /\ elsewhere' \in [Promos -> Nat]
    BY <1>1 DEF TypeOK
  <2> QED
    BY <1>1, <2>1 DEF TypeOK
<1>4. CountInv'
  <2>1. \A r \in Runs : \A q \in Promos :
          Cardinality(OfPromo(tx'[r].redeemed, q))
            = IF Holds(r, q)' THEN tx'[r].wrote[q] - uses'[q] ELSE 0
    <3> TAKE r \in Runs
    <3> TAKE q \in Promos
    <3>1. CASE q = p
      BY <3>1, <1>1, <1>2 DEF CountInv, Holds
    <3>2. CASE q # p
      BY <3>2, <1>1, <1>2 DEF CountInv, Holds
    <3> QED
      BY <3>1, <3>2
  <2>2. (\A q \in counting : uses[q] < MaxUses[q] /\ \A r \in Runs : ~Holds(r, q))'
    <3>1. counting \subseteq Promos
      BY ConstantsTyped DEF TypeOK
    <3> QED
      BY <1>1, <1>2, <3>1 DEF CountInv, Holds
  <2> QED
    BY <1>1, <2>1, <2>2 DEF CountInv, Holds
<1>5. ASSUME NEW r \in Runs
      PROVE  EachRun(r)'
  <2>1. RunInv(r)' /\ OverlapInv(r)' /\ UseInv(r)' /\ EntryInv(r)' /\ SummaryInv(r)'
    BY <1>1 DEF EachRun, RunInv, OverlapInv, UseInv, EntryInv, SummaryInv, Open, Busy
  <2>2. ASSUME met = {}, NEW q \in Promos \ late'
        PROVE  /\ UsesSeen(r, q)' <= MaxUses[q]
               /\ Selected(r, q)' => UsesSeen(r, q)' < MaxUses[q]
    <3>1. EachRun(r) /\ q \in Promos \ late
      BY <1>1
    <3>2. Selected(r, q)' <=> Selected(r, q)
      BY <1>1 DEF Selected
    <3>3. CASE q = p
      <4>1. UsesSeen(r, p)' = uses'[p]
        BY <1>1, <1>2 DEF UsesSeen, Holds
      <4> QED
        BY <1>1, <1>2, <2>2, <3>2, <3>3, <4>1, ConstantsTyped
    <3>4. CASE q # p
      <4>1. UsesSeen(r, q)' = UsesSeen(r, q)
        BY <3>4, <1>1, <1>2 DEF UsesSeen
      <4> QED
        BY <2>2, <3>1, <3>2, <4>1 DEF EachRun, LimitInv
    <3> QED
      BY <3>3, <3>4
  <2>3. LimitInv(r)'
    BY <1>1, <2>2 DEF LimitInv
  <2> QED
    BY <2>1, <2>3 DEF EachRun
<1>6. LimitKeptUnlessOverlapping'
  <2> SUFFICES ASSUME NEW q \in Promos \ late', met = {}
               PROVE  ~(uses'[q] > MaxUses[q])
    BY <1>1 DEF LimitKeptUnlessOverlapping
  <2>1. uses'[q] \in Nat /\ MaxUses[q] \in Nat
    BY <1>3, ConstantsTyped DEF TypeOK
  <2> QED
    BY <1>1, <1>2, <2>1 DEF LimitKeptUnlessOverlapping
<1>7. UsesCounted'
  <2> SUFFICES ASSUME NEW q \in Promos
               PROVE  uses'[q] = Cardinality(OfPromo(redemptions, q)) + elsewhere'[q]
    BY <1>1 DEF UsesCounted, OfPromo
  <2>1. uses[q] = Cardinality(OfPromo(redemptions, q)) + elsewhere[q]
    BY DEF UsesCounted, OfPromo
  <2>2. Cardinality(OfPromo(redemptions, q)) \in Nat /\ elsewhere[q] \in Nat
    BY FS_Subset, FS_CardinalityType DEF OfPromo, CountInv, TypeOK
  <2> HIDE DEF IInv
  <2> QED
    BY <1>2, <2>1, <2>2
<1>8. RowInv' /\ MetInv' /\ BilledOnceUnlessOverlapping'
  BY <1>1 DEF RowInv, MetInv, Open, BilledOnceUnlessOverlapping
<1>9. RedemptionsBilled' /\ CleanRunBillsAll' /\ EntriesExplained'
  BY <1>1 DEF RedemptionsBilled, CleanRunBillsAll, EntriesExplained
<1> QED
  BY <1>3, <1>4, <1>5, <1>6, <1>7, <1>8, <1>9

LEMMA NextIInv == IInv /\ [Next]_vars => IInv'
<1> SUFFICES ASSUME IInv, [Next]_vars PROVE IInv'
  OBVIOUS
<1>1. ASSUME NEW r \in Runs, Start(r) \/ Work(r) \/ DataFails(r) \/ SqlFails(r) \/ Crash(r)
      PROVE  IInv'
  <2>2. CASE Start(r)
    BY <2>2, StartIInv
  <2>3. CASE Work(r)
    <3>1. CASE \E s \in Subs : Take(r, s) \/ TakeBroken(r, s)
      BY <3>1, TakeIInv, TakeBrokenIInv
    <3>2. CASE ResolveDeadlock(r)
      <4>1. pc[r] = "promos" /\ Break(r) /\ Skip(r) /\ faults' = faults
        BY <3>2 DEF ResolveDeadlock, Deadlocked, Waiting, NextPromo
      <4> QED
        BY <4>1, SkipIInv DEF IInv, TypeOK
    <3> QED
      BY <2>3, <3>1, <3>2, PriceIInv, NothingToBillIInv, SelectPromosIInv, PassPromoIInv,
         UsePromoIInv, InsertIInv, PostEntryIInv, CommitIInv DEF Work
  <2>4. CASE DataFails(r) \/ SqlFails(r)
    <3>1. /\ pc[r] \in {"price", "select", "promos"} /\ Skip(r) /\ Fault
          /\ UNCHANGED tx \/ Break(r)
          /\ pc[r] = "promos" => Break(r)
      BY <2>4 DEF DataFails, SqlFails
    <3>2. faults' \in 0 .. MaxFaults
      BY <3>1, ConstantsTyped DEF Fault, IInv, TypeOK
    <3> QED
      BY <3>1, <3>2, SkipIInv
  <2>5. CASE Crash(r)
    BY <2>5, CrashIInv
  <2> QED
    BY <1>1, <2>2, <2>3, <2>4, <2>5
<1>3. ASSUME NEW p \in Promos, CountUse(p) \/ CommitUse(p) \/ DropUse(p)
      PROVE  IInv'
  BY <1>3, CountUseIInv, CommitUseIInv
<1>2. CASE UNCHANGED vars
  <2>1. UNCHANGED <<pc, todo, sub, subtotal, left, discount, tx, report, errors, invoices, uses,
                    redemptions, entries, counting, elsewhere, late, met, faults>>
    BY <1>2 DEF vars, work, local, summary, book, onboarding
  <2>2. \A r \in Runs : EachRun(r)'
    BY <2>1 DEF IInv, EachRun, RunInv, OverlapInv, UseInv, LimitInv, EntryInv, SummaryInv,
                Open, Busy, UsesSeen, Selected
  <2>3. CountInv' /\ TypeOK' /\ RowInv' /\ MetInv'
    BY <2>1, CountKept DEF IInv, TypeOK, RowInv, MetInv, Open
  <2>4. BilledOnceUnlessOverlapping' /\ LimitKeptUnlessOverlapping' /\ UsesCounted'
    BY <2>1 DEF IInv, BilledOnceUnlessOverlapping, LimitKeptUnlessOverlapping, UsesCounted
  <2>5. RedemptionsBilled' /\ CleanRunBillsAll' /\ EntriesExplained'
    BY <2>1 DEF IInv, RedemptionsBilled, CleanRunBillsAll, EntriesExplained
  <2> QED
    BY <2>2, <2>3, <2>4, <2>5 DEF IInv
<1> QED
  BY <1>1, <1>2, <1>3 DEF Next

\* The strengthening of the safety properties is an invariant.
THEOREM Invariance == Spec => []IInv
BY InitIInv, NextIInv, PTL DEF Spec

\* Every variable keeps its type.
THEOREM TypeCorrect == Spec => []TypeOK
<1>1. IInv => TypeOK
  BY DEF IInv
<1> QED
  BY <1>1, Invariance, PTL

\* However many closings of a period run, and however they fail, two invoices
\* of one subscription come from two runs that were open at the same time.
THEOREM BilledOnce == Spec => []BilledOnceUnlessOverlapping
<1>1. IInv => BilledOnceUnlessOverlapping
  BY DEF IInv
<1> QED
  BY <1>1, Invariance, PTL

\* Only such runs can exceed the use limit of a promotion, or a closing that has
\* selected it when an onboarding commits a use of it.
THEOREM LimitKept == Spec => []LimitKeptUnlessOverlapping
<1>1. IInv => LimitKeptUnlessOverlapping
  BY DEF IInv
<1> QED
  BY <1>1, Invariance, PTL

\* Overlapping or not, uses_count is the number of committed redemptions and of
\* uses that onboardings have committed: neither writer loses one of the other.
THEOREM UsesAccounted == Spec => []UsesCounted
<1>1. IInv => UsesCounted
  BY DEF IInv
<1> QED
  BY <1>1, Invariance, PTL

\* Each redemption belongs to an invoice of its run that it reduced.
THEOREM RedemptionsAccounted == Spec => []RedemptionsBilled
<1>1. IInv => RedemptionsBilled
  BY DEF IInv
<1> QED
  BY <1>1, Invariance, PTL

\* A closing that reports no error billed every subscription with a fee.
THEOREM ReportedIsBilled == Spec => []CleanRunBillsAll
<1>1. IInv => CleanRunBillsAll
  BY DEF IInv
<1> QED
  BY <1>1, Invariance, PTL

\* A closing that committed backs each debit it posted with an invoice.
THEOREM EntriesBacked == Spec => []EntriesExplained
<1>1. IInv => EntriesExplained
  BY DEF IInv
<1> QED
  BY <1>1, Invariance, PTL

-----------------------------------------------------------------------------
(***************************************************************************)
(* The refinement of ClosingBook.  Start begins a closing there, a commit  *)
(* closes it, a ROLLBACK or a crash gives it up, and every other statement *)
(* is private to the transaction.                                          *)
(***************************************************************************)
LEMMA InitBook == Init => Book!Init
BY DEF Init, Book!Init, Phase

LEMMA BookStutters ==
  ASSUME NEW r \in Runs, Open(r), Open(r)', \A v \in Runs \ {r} : pc'[v] = pc[v],
         UNCHANGED <<book, onboarding, met>>
  PROVE  UNCHANGED Book!bvars
<1>1. \A v \in Runs : Phase(v)' = Phase(v)
  BY DEF Phase, Open
<1> QED
  BY <1>1 DEF Book!bvars, book, onboarding

LEMMA BookMoves ==
  ASSUME NEW r \in Runs, NEW from, NEW to, Phase(r) = from, Phase(r)' = to,
         \A v \in Runs \ {r} : pc'[v] = pc[v]
  PROVE  Book!Move(r, from, to)
<1>1. \A v \in Runs \ {r} : Phase(v)' = Phase(v)
  BY DEF Phase, Open
<1> QED
  BY <1>1 DEF Book!Move

LEMMA StartBook ==
  ASSUME TypeOK, NEW r \in Runs, Start(r)
  PROVE  Book!Begin(r)
<1>1. /\ pc[r] = "idle" /\ pc' = [pc EXCEPT ![r] = "next"] /\ UNCHANGED <<book, onboarding>>
      /\ met' = met \cup {{r, v} : v \in {u \in Runs : Open(u)}}
  BY DEF Start, Step
<1>2. Phase(r) = "new" /\ Phase(r)' = "open" /\ \A v \in Runs \ {r} : pc'[v] = pc[v]
  BY <1>1 DEF TypeOK, Phase, Open
<1>3. \A u \in Runs : Open(u) <=> Phase(u) = "open"
  BY DEF Phase, Open
<1>4. {u \in Runs : [v \in Runs |-> Phase(v)][u] = "open"} = {u \in Runs : Open(u)}
  BY <1>3
<1> QED
  BY <1>1, <1>2, <1>4, BookMoves DEF Book!Begin, book, onboarding

\* The end of a closing that enters nothing.
LEMMA GiveUpBook ==
  ASSUME TypeOK, NEW r \in Runs, Open(r), pc' = [pc EXCEPT ![r] = "lost"],
         UNCHANGED <<book, onboarding, met>>
  PROVE  Book!GiveUp(r)
<1>1. Phase(r) = "open" /\ Phase(r)' = "over" /\ \A v \in Runs \ {r} : pc'[v] = pc[v]
  BY DEF TypeOK, Phase, Open
<1> QED
  BY <1>1, BookMoves DEF Book!GiveUp, book, onboarding

LEMMA CommitBook ==
  ASSUME IInv, NEW r \in Runs, Commit(r), ~tx[r].broken
  PROVE  Book!Close(r)
<1> USE DEF IInv
<1> DEFINE I == tx[r].invoices
           X == tx[r].redeemed
<1>1. /\ pc[r] = "next" /\ pc' = [pc EXCEPT ![r] = "done"]
      /\ invoices' = invoices \cup I /\ redemptions' = redemptions \cup X
      /\ uses' = [p \in Promos |-> UsesSeen(r, p)]
      /\ UNCHANGED <<met, elsewhere, late>>
  BY DEF Commit, EndRun, onboarding
<1>2. EachRun(r) /\ Open(r) /\ sub[r] \notin Subs
  BY <1>1, ConstantsTyped DEF Open, EachRun, RunInv, Busy
\* What the transaction has written is of this run, and what is committed is not.
<1>3. /\ \A i \in I : i \in Invoice /\ i.run = r
      /\ \A x \in X : x \in Redemption /\ x.run = r
  BY <1>2 DEF TypeOK, Transaction, EachRun, RunInv, UseInv
<1>4. /\ \A j \in invoices : j.run # r
      /\ \A y \in redemptions : y.run # r
  BY <1>1 DEF RowInv
<1>5. invoices' \ invoices = I /\ redemptions' \ redemptions = X
  BY <1>1, <1>3, <1>4
<1>6. Book!Move(r, "open", "over")
  <2>1. Phase(r) = "open" /\ Phase(r)' = "over" /\ \A v \in Runs \ {r} : pc'[v] = pc[v]
    BY <1>1 DEF TypeOK, Phase, Open
  <2> QED
    BY <2>1, BookMoves
<1>7. Book!MayBill(r, I)
  <2>1. ASSUME NEW i \in I, NEW j \in invoices, j.sub = i.sub
        PROVE  j.run # r /\ {j.run, r} \in met
    BY <2>1, <1>2, <1>4 DEF EachRun, OverlapInv
  <2>2. \A i, j \in I : i.sub = j.sub => i = j
    BY <1>2 DEF EachRun, RunInv
  <2> QED
    BY <1>3, <2>1, <2>2 DEF Book!MayBill
<1>8. Book!MayRedeem(r, I, X)
  BY <1>1, <1>2, <1>3 DEF Book!MayRedeem, EachRun, UseInv
<1>9. ASSUME NEW p \in Promos
      PROVE  UsesSeen(r, p) = uses[p] + Cardinality({x \in X : x.promo = p})
  <2>1. /\ uses[p] \in Nat /\ tx[r].wrote[p] \in Nat \cup {NotWritten}
    BY DEF TypeOK, Transaction
  <2>2. Cardinality({x \in X : x.promo = p}) = IF Holds(r, p) THEN tx[r].wrote[p] - uses[p] ELSE 0
    BY DEF CountInv, OfPromo
  <2> QED
    BY <2>1, <2>2 DEF UsesSeen, Holds, NotWritten
<1>10. met = {} => \A p \in Promos \ late : uses'[p] <= MaxUses[p]
  BY <1>1, <1>2 DEF EachRun, LimitInv
<1> HIDE DEF I, X
<1>11. \A S : Book!Cardinality(S) = Cardinality(S)
  BY DEF Book!Cardinality, Cardinality
<1>12. uses' = [p \in Promos |-> uses[p] + Book!Cardinality({x \in X : x.promo = p})]
  BY <1>1, <1>9, <1>11
<1> QED
  BY <1>1, <1>5, <1>6, <1>7, <1>8, <1>10, <1>12 DEF Book!Close

\* A use that an onboarding counts.
LEMMA CountUseBook ==
  ASSUME IInv, NEW p \in Promos, CommitUse(p)
  PROVE  Book!CountElsewhere(p)
<1>1. \A v \in Runs : Phase(v)' = Phase(v)
  BY DEF CommitUse, Phase, Open
<1>2. uses[p] < MaxUses[p]
  BY DEF IInv, CountInv, CommitUse
<1>3. \A r \in Runs : Selected(r, p) => Phase(r) = "open"
  BY DEF Selected, Phase, Open
<1> QED
  BY <1>1, <1>2, <1>3 DEF CommitUse, Book!CountElsewhere

LEMMA NextBook == IInv /\ [Next]_vars => [Book!Next]_(Book!bvars)
<1> SUFFICES ASSUME IInv, [Next]_vars
             PROVE  Book!Next \/ UNCHANGED Book!bvars
  OBVIOUS
<1> USE DEF IInv
<1>1. ASSUME NEW r \in Runs, Start(r) PROVE Book!Next
  BY <1>1, StartBook DEF Book!Next
<1>2. ASSUME NEW r \in Runs, Commit(r) PROVE Book!Next
  <2>1. CASE ~tx[r].broken
    BY <1>2, <2>1, CommitBook DEF Book!Next
  <2>2. CASE tx[r].broken
    <3>1. tx[r] = BrokenTx
      BY <2>2 DEF TypeOK, Transaction
    <3>2. /\ tx[r].invoices = {} /\ tx[r].redeemed = {}
          /\ \A p \in Promos : UsesSeen(r, p) = uses[p]
      BY <3>1, EmptyTx DEF UsesSeen
    <3>3. uses' = uses
      BY <1>2, <3>2 DEF Commit, TypeOK
    <3>4. /\ Open(r) /\ pc' = [pc EXCEPT ![r] = "lost"] /\ UNCHANGED <<book, onboarding, met>>
      BY <1>2, <2>2, <3>2, <3>3 DEF Commit, EndRun, Open, book
    <3> QED
      BY <3>4, GiveUpBook DEF Book!Next
  <2> QED
    BY <2>1, <2>2
<1>3. ASSUME NEW r \in Runs, Crash(r) PROVE Book!Next
  <2>1. Open(r) /\ pc' = [pc EXCEPT ![r] = "lost"] /\ UNCHANGED <<book, onboarding, met>>
    BY <1>3 DEF Crash, EndRun
  <2> QED
    BY <2>1, GiveUpBook DEF Book!Next
<1>4. ASSUME NEW r \in Runs,
             \/ \E s \in Subs : Take(r, s) \/ TakeBroken(r, s)
             \/ Price(r) \/ NothingToBill(r) \/ SelectPromos(r) \/ PassPromo(r)
             \/ UsePromo(r) \/ Insert(r) \/ PostEntry(r) \/ ResolveDeadlock(r)
             \/ DataFails(r) \/ SqlFails(r)
      PROVE  UNCHANGED Book!bvars
  <2>1. /\ UNCHANGED <<book, onboarding, met>>
        /\ pc[r] \in {"next", "price", "select", "promos", "post"}
        /\ \E to \in {"next", "price", "select", "promos", "post"} :
             pc' = [pc EXCEPT ![r] = to]
    <3>1. CASE ResolveDeadlock(r) \/ DataFails(r) \/ SqlFails(r)
      BY <3>1 DEF ResolveDeadlock, Deadlocked, Waiting, NextPromo, DataFails, SqlFails, Skip
    <3>2. CASE UsePromo(r) \/ PassPromo(r)
      <4>1. pc' = [pc EXCEPT ![r] = "promos"]
        BY <3>2 DEF UsePromo, PassPromo, NextPromo, TypeOK
      <4> QED
        BY <3>2, <4>1 DEF UsePromo, PassPromo, NextPromo
    <3> QED
      BY <1>4, <3>1, <3>2
         DEF Take, TakeBroken, Price, NothingToBill, SelectPromos, Insert, PostEntry, Step
  <2>2. Open(r) /\ Open(r)' /\ \A v \in Runs \ {r} : pc'[v] = pc[v]
    BY <2>1 DEF TypeOK, Open
  <2> QED
    BY <2>1, <2>2, BookStutters
<1>5. CASE UNCHANGED vars
  BY <1>5 DEF vars, book, onboarding, Book!bvars, Phase, Open
<1>6. ASSUME NEW p \in Promos, CommitUse(p) PROVE Book!Next
  BY <1>6, CountUseBook DEF Book!Next
<1>7. ASSUME NEW p \in Promos, CountUse(p) \/ DropUse(p) PROVE UNCHANGED Book!bvars
  BY <1>7 DEF CountUse, DropUse, book, Book!bvars, Phase, Open
<1> QED
  BY <1>1, <1>2, <1>3, <1>4, <1>5, <1>6, <1>7 DEF Next, Work

\* However closings overlap, crash or run into errors they swallow, the book of
\* the period sees each of them as one entry or none.
THEOREM Refinement == Spec => ImplementsBook
<1>1. Spec => Book!Spec
  BY InitBook, NextBook, Invariance, PTL DEF Spec, Book!Spec
<1> QED
  BY <1>1 DEF ImplementsBook

-----------------------------------------------------------------------------
\* A closing that waits for a promotion waits for one that is open, since the
\* row locks of a transaction end with it: whatever the order in which closings
\* use promotions, one can go on or PostgreSQL has a circle to break.
THEOREM SomeoneGoesOn == Spec => []NobodyStuck
<1>1. IInv => NobodyStuck
  <2> SUFFICES ASSUME IInv, \E r \in Runs : Open(r), \A r \in Runs : Open(r) => Waiting(r),
                      \A r \in Runs : Open(r) => Head(left[r]) \notin counting
               PROVE  \E r \in Runs : Open(r) /\ Deadlocked(r)
    BY DEF NobodyStuck
  <2> DEFINE S == {v \in Runs : Open(v)}
  <2>1. ASSUME NEW v \in S
        PROVE  \E u \in S \ {v} : Holds(u, Head(left[v]))
    <3>1. PICK u \in Runs \ {v} : Holds(u, Head(left[v]))
      BY DEF Waiting, PromoFree
    <3>2. Head(left[v]) \in Promos
      BY HeadTailProperties DEF Waiting, NextPromo, IInv, TypeOK
    <3>3. Open(u)
      BY <3>1, <3>2, EmptyTx DEF IInv, EachRun, RunInv, Holds
    <3> QED
      BY <3>1, <3>3
  <2>2. S \in SUBSET Runs /\ \A v \in S : Waiting(v) /\ \E u \in S \ {v} : Holds(u, Head(left[v]))
    BY <2>1
  <2> HIDE DEF S
  <2>3. \A r \in S : Deadlocked(r)
    BY <2>2 DEF Deadlocked
  <2> QED
    BY <2>3 DEF S
<1> QED
  BY <1>1, Invariance, PTL
=============================================================================
