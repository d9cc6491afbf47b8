--------------------- MODULE PrepaidLedgerAnswersProofs ---------------------
(***************************************************************************)
(* What callers are told agrees with the book: proofs of the properties of *)
(* PrepaidLedger about answers and accruals.  They need to know of every   *)
(* row which request wrote it, and of every answer which row it is about.  *)
(***************************************************************************)
EXTENDS PrepaidLedgerProofs

\* A row is the entry of a request that has committed, or the accrual of a
\* charge whose entry is in the book.
Written(x, r) ==
  \/ x = EntryOf(r) /\ pc[r] \in {"accrue", "done", "crashed"}
  \/ /\ x.id = AccrualId(r) /\ pc[r] = "done" /\ job[r].op = "charge"
     /\ x.client = PlatformOf[job[r].client] /\ EntryOf(r) \in ledger

\* An answer exists once the request is done, and is about rows of the book.
Told(r) ==
  /\ pc[r] # "done" => answer[r].status = "none"
  /\ pc[r] = "accrue" => EntryOf(r) \in ledger
  /\ answer[r].status = "posted" => EntryOf(r) \in ledger /\ answer[r].amount = job[r].amount
  /\ answer[r].status \in {"refused", "replay", "ignored"} =>
       \A x \in ledger : x.id # EntryId(r)
  /\ answer[r].status = "replay" /\ job[r].op = "charge" =>
       \E x \in Recorded(job[r].client, job[r].key) : answer[r].amount = x.amount

BookInv ==
  /\ \A x \in ledger : \E r \in Requests : Written(x, r)
  /\ \A r \in Requests : Told(r)

-----------------------------------------------------------------------------
\* A step of one request that adds rows of its own keeps what is known of the
\* others.
LEMMA BookFrame ==
  ASSUME IInv, BookInv, NEW r \in Requests,
         \A s \in Requests \ {r} :
           pc'[s] = pc[s] /\ job'[s] = job[s] /\ answer'[s] = answer[s],
         pc[r] # "idle" => job'[r] = job[r],
         pc[r] \in {"accrue", "done", "crashed"} =>
           pc'[r] \in {"done", "crashed"} /\ (pc[r] = "done" => pc'[r] = "done"),
         ledger \subseteq ledger',
         \A x \in ledger' \ ledger :
           x.id \in {EntryId(r), AccrualId(r)} /\ Written(x, r)',
         Told(r)'
  PROVE  BookInv'
<1>1. ASSUME NEW s \in Requests \ {r}
      PROVE  EntryOf(s)' = EntryOf(s) /\ EntryId(s) \notin {EntryId(r), AccrualId(r)}
  BY <1>1 DEF EntryOf, Row, EntryId, AccrualId, KindOf
<1>2. ASSUME NEW s \in Requests \ {r}
      PROVE  Told(s)'
  <2>1. Told(s)
    BY DEF BookInv
  <2>2. \A x \in ledger' \ ledger : x.id # EntryId(s)
    BY <1>1
  <2>3. Recorded(job[s].client, job[s].key) \subseteq Recorded(job[s].client, job[s].key)'
    BY <1>2 DEF Recorded
  <2>4. pc'[s] = pc[s] /\ job'[s] = job[s] /\ answer'[s] = answer[s]
    BY <1>2
  <2>5. EntryId(s)' = EntryId(s)
    BY DEF EntryId
  <2>6. answer[s].status \in {"refused", "replay", "ignored"} =>
          \A x \in ledger' : x.id # EntryId(s)
    BY <2>1, <2>2 DEF Told
  <2>7. answer[s].status = "replay" /\ job[s].op = "charge" =>
          \E x \in Recorded(job[s].client, job[s].key)' : answer[s].amount = x.amount
    BY <2>1, <2>3 DEF Told
  <2> QED
    BY <1>1, <2>1, <2>4, <2>5, <2>6, <2>7 DEF Told, Recorded
<1>3. ASSUME NEW x \in ledger
      PROVE  \E s \in Requests : Written(x, s)'
  <2>1. PICK s \in Requests : Written(x, s)
    BY DEF BookInv
  <2>2. pc[s] # "idle" /\ pc[s] \in {"accrue", "done", "crashed"}
    BY <2>1 DEF Written
  <2>3. job'[s] = job[s]
    BY <2>2
  <2>4. EntryOf(s)' = EntryOf(s) /\ AccrualId(s)' = AccrualId(s)
    BY <2>3 DEF EntryOf, Row, EntryId, AccrualId, KindOf
  <2>5. pc'[s] \in {"accrue", "done", "crashed"} /\ (pc[s] = "done" => pc'[s] = "done")
    BY <2>2
  <2>6. Written(x, s)'
    BY <2>1, <2>3, <2>4, <2>5 DEF Written
  <2> QED
    BY <2>6
<1> QED
  BY <1>2, <1>3 DEF BookInv

LEMMA InitBookInv == Init => BookInv
BY DEF Init, BookInv, Told, NoAnswer

\* A request that stays short of its COMMIT.
LEMMA MovingBook ==
  ASSUME IInv, BookInv, NEW r \in Requests,
         NEW l \in {"lock", "replay", "price", "insert", "commit", "crashed"},
         pc[r] \notin {"done", "crashed"}, l # "crashed" => pc[r] # "accrue",
         Goto(r, l), UNCHANGED <<ledger, answer>>,
         \A s \in Requests \ {r} : job'[s] = job[s],
         pc[r] # "idle" => job'[r] = job[r]
  PROVE  BookInv'
<1>1. pc' = [pc EXCEPT ![r] = l] /\ pc'[r] = l
  BY DEF Goto, IInv, TypeOK
<1>2. answer'[r].status = "none"
  BY DEF BookInv, Told
<1>3. Told(r)'
  BY <1>1, <1>2 DEF Told
<1>4. \A s \in Requests \ {r} : pc'[s] = pc[s]
  BY <1>1 DEF IInv, TypeOK
<1> QED
  BY <1>1, <1>3, <1>4, BookFrame

\* A request that is answered without a row of its own.
LEMMA EndingBook ==
  ASSUME IInv, BookInv, NEW r \in Requests, NEW a,
         pc[r] \in {"replay", "price", "insert"},
         Goto(r, "done"), Reply(r, a), UNCHANGED <<ledger, job>>,
         a.status \in {"refused", "replay", "ignored"},
         a.status = "replay" /\ job[r].op = "charge" =>
           \E x \in Recorded(job[r].client, job[r].key) : a.amount = x.amount
  PROVE  BookInv'
<1>1. /\ pc' = [pc EXCEPT ![r] = "done"] /\ pc'[r] = "done"
      /\ answer' = [answer EXCEPT ![r] = a] /\ answer'[r] = a
  BY DEF Goto, Reply, IInv, TypeOK
<1>2. \A x \in ledger : x.id # EntryId(r)
  BY DEF IInv, FreshInv
<1>3. Recorded(job[r].client, job[r].key)' = Recorded(job[r].client, job[r].key)
  BY DEF Recorded
<1>4. Told(r)'
  BY <1>1, <1>2, <1>3 DEF Told, EntryId
<1>5. \A s \in Requests \ {r} : pc'[s] = pc[s] /\ answer'[s] = answer[s]
  BY <1>1 DEF IInv, TypeOK
<1> QED
  BY <1>1, <1>4, <1>5, BookFrame

LEMMA CommitBook ==
  ASSUME IInv, BookInv, NEW r \in Requests, Commit(r)
  PROVE  BookInv'
<1>1. /\ pc[r] = "commit" /\ ledger' = ledger \cup pend[r]
      /\ UNCHANGED <<job, seen>>
  BY DEF Commit, At
<1>2. pend[r] = {EntryOf(r)} /\ EntryOf(r).id = EntryId(r)
  BY <1>1 DEF IInv, PendInv, EntryOf, Row
<1>3. PICK l \in {"accrue", "done"} :
        /\ pc' = [pc EXCEPT ![r] = l]
        /\ answer' = IF l = "accrue" THEN answer ELSE [answer EXCEPT ![r] = Reported(r)]
  BY DEF Commit, Goto, Reply
<1>4. /\ pc'[r] = l /\ EntryOf(r)' = EntryOf(r) /\ answer[r].status = "none"
      /\ Reported(r).status = "posted" /\ Reported(r).amount = job[r].amount
  BY <1>1, <1>3 DEF IInv, TypeOK, EntryOf, Row, EntryId, KindOf, BookInv, Told, Reported
<1>5. answer'[r] = IF l = "accrue" THEN answer[r] ELSE Reported(r)
  BY <1>3 DEF IInv, TypeOK
<1>6. Told(r)'
  BY <1>1, <1>2, <1>4, <1>5 DEF Told
<1>7. \A s \in Requests \ {r} : pc'[s] = pc[s] /\ answer'[s] = answer[s]
  BY <1>3 DEF IInv, TypeOK
<1>8. \A x \in ledger' \ ledger : x.id = EntryId(r) /\ Written(x, r)'
  BY <1>1, <1>2, <1>3, <1>4 DEF Written
<1> QED
  BY <1>1, <1>6, <1>7, <1>8, BookFrame

LEMMA AccrueBook ==
  ASSUME IInv, BookInv, NEW r \in Requests, Accrue(r)
  PROVE  BookInv'
<1>1. /\ pc[r] = "accrue" /\ pc' = [pc EXCEPT ![r] = "done"] /\ pc'[r] = "done"
      /\ answer' = [answer EXCEPT ![r] = Reported(r)] /\ answer'[r] = Reported(r)
      /\ ledger' = ledger \cup {AccrualOf(r)} \/ ledger' = ledger
      /\ UNCHANGED <<lock, job, seen, pend>>
  BY DEF Accrue, At, Goto, Reply, IInv, TypeOK
<1>2. EntryOf(r) \in ledger /\ EntryOf(r)' = EntryOf(r)
  BY <1>1 DEF BookInv, Told, EntryOf, Row, EntryId, KindOf
<1>3. Reported(r).status = "posted" /\ Reported(r).amount = job[r].amount
  BY DEF Reported
<1>4. Told(r)'
  BY <1>1, <1>2, <1>3 DEF Told
<1>5. job[r].op = "charge"
  BY <1>1 DEF IInv, PendInv, Accrues
<1>6. AccrualOf(r).id = AccrualId(r) /\ AccrualOf(r).client = PlatformOf[job[r].client]
  BY DEF AccrualOf, Row
<1>7. \A x \in ledger' \ ledger : x.id = AccrualId(r) /\ Written(x, r)'
  BY <1>1, <1>2, <1>5, <1>6 DEF Written, AccrualId
<1>8. \A s \in Requests \ {r} : pc'[s] = pc[s] /\ answer'[s] = answer[s]
  BY <1>1 DEF IInv, TypeOK
<1> QED
  BY <1>1, <1>4, <1>7, <1>8, BookFrame

LEMMA NextBook == IInv /\ BookInv /\ [Next]_vars => BookInv'
<1> SUFFICES ASSUME IInv, BookInv, [Next]_vars PROVE BookInv'
  OBVIOUS
<1>1. CASE UNCHANGED vars
  <2>1. \A r \in Requests : EntryOf(r)' = EntryOf(r)
    BY <1>1 DEF vars, EntryOf, Row, EntryId, KindOf
  <2> QED
    BY <1>1, <2>1 DEF vars, BookInv, Told, Written, Recorded, EntryId, AccrualId
<1>2. ASSUME NEW r \in Requests, NEW j \in Jobs, Arrive(r, j)
      PROVE  BookInv'
  <2>1. PICK l \in {"lock", "insert"} : Goto(r, l)
    BY <1>2, Zenon DEF Arrive
  <2>2. pc[r] = "idle" /\ UNCHANGED <<ledger, answer>> /\ job' = [job EXCEPT ![r] = j]
    BY <1>2 DEF Arrive, At
  <2>3. \A s \in Requests \ {r} : job'[s] = job[s]
    BY <2>2 DEF IInv, TypeOK
  <2> QED
    BY <2>1, <2>2, <2>3, MovingBook
<1>3. ASSUME NEW r \in Requests, TakeLock(r) \/ NotRecorded(r) \/ ReadBalance(r) \/ Insert(r)
      PROVE  BookInv'
  <2>1. PICK l \in {"replay", "price", "insert", "commit"} :
          Goto(r, l) /\ pc[r] \in {"lock", "replay", "price", "insert"}
    BY <1>3 DEF TakeLock, NotRecorded, ReadBalance, Insert, At
  <2>2. UNCHANGED <<ledger, answer, job>>
    BY <1>3 DEF TakeLock, NotRecorded, ReadBalance, Insert
  <2> QED
    BY <2>1, <2>2, MovingBook
<1>4. ASSUME NEW r \in Requests, Crash(r)
      PROVE  BookInv'
  BY <1>4, MovingBook DEF Crash
<1>5. ASSUME NEW r \in Requests,
             RefuseUnits(r) \/ RefuseService(r) \/ RefuseBalance(r) \/ InsertRejected(r)
      PROVE  BookInv'
  <2>1. Abort(r) /\ pc[r] \in {"replay", "price", "insert"}
    BY <1>5 DEF RefuseUnits, RefuseService, RefuseBalance, InsertRejected, At
  <2>2. Goto(r, "done") /\ Reply(r, Refused) /\ UNCHANGED <<ledger, job>>
    BY <2>1 DEF Abort
  <2>3. Refused.status = "refused"
    BY DEF Refused
  <2> QED
    BY <2>1, <2>2, <2>3, EndingBook
<1>6. ASSUME NEW r \in Requests, InsertIgnored(r)
      PROVE  BookInv'
  <2> DEFINE a == [status |-> "ignored"]
  <2>1. /\ pc[r] = "insert" /\ Goto(r, "done") /\ Reply(r, a)
        /\ UNCHANGED <<ledger, job>>
    BY <1>6 DEF InsertIgnored, At
  <2>2. a.status = "ignored"
    OBVIOUS
  <2> HIDE DEF a
  <2> QED
    BY <2>1, <2>2, EndingBook
<1>7. ASSUME NEW r \in Requests, Replay(r)
      PROVE  BookInv'
  <2>1. PICK x \in Recorded(job[r].client, job[r].key) :
          Reply(r, [status |-> "replay", amount |-> ReplayAmount(r, x),
                    balance |-> Balance(job[r].client)])
    BY <1>7 DEF Replay
  <2> DEFINE a == [status |-> "replay", amount |-> ReplayAmount(r, x),
                   balance |-> Balance(job[r].client)]
  <2>2. a.status = "replay" /\ (job[r].op = "charge" => a.amount = x.amount)
    BY DEF ReplayAmount
  <2>3. pc[r] = "replay" /\ Goto(r, "done") /\ UNCHANGED <<ledger, job>>
    BY <1>7 DEF Replay, At
  <2>4. Reply(r, a)
    BY <2>1
  <2> HIDE DEF a
  <2> QED
    BY <2>1, <2>2, <2>3, <2>4, EndingBook
<1> QED
  BY <1>1, <1>2, <1>3, <1>4, <1>5, <1>6, <1>7, CommitBook, AccrueBook DEF Next, Step

-----------------------------------------------------------------------------
\* BookInv, with the inductive invariant of the book, in every reachable state.
THEOREM BookInvariance == Spec => [](IInv /\ BookInv)
<1>1. Init => IInv /\ BookInv
  BY InitIInv, InitBookInv
<1>2. IInv /\ BookInv /\ [Next]_vars => (IInv /\ BookInv)'
  BY NextIInv, NextBook
<1> QED
  BY <1>1, <1>2, PTL DEF Spec

\* A call that is answered "posted" has its row in the book, with the amount
\* of the answer; one answered otherwise has left none.
THEOREM AnswersTrue == Spec => []AnswerMatchesLedger
<1>1. IInv /\ BookInv => AnswerMatchesLedger
  <2> SUFFICES ASSUME IInv, BookInv, NEW r \in Requests
               PROVE  LET entry == {x \in ledger : x.id = EntryId(r)} IN
                        /\ answer[r].status = "posted" =>
                             entry = {EntryOf(r)} /\ answer[r].amount = EntryOf(r).amount
                        /\ answer[r].status \in {"refused", "replay", "ignored"} => entry = {}
    BY DEF AnswerMatchesLedger
  <2>1. EntryOf(r).id = EntryId(r) /\ EntryOf(r).amount = job[r].amount
    BY DEF EntryOf, Row
  <2>2. ASSUME NEW x \in ledger, x.id = EntryId(r)
        PROVE  x = EntryOf(r)
    <3>1. PICK s \in Requests : Written(x, s)
      BY DEF BookInv
    <3>2. x.id # AccrualId(s)
      BY <2>2 DEF EntryId, AccrualId
    <3>3. x = EntryOf(s) /\ x.id = EntryId(s)
      BY <3>1, <3>2 DEF Written, EntryOf, Row
    <3>4. s = r
      BY <2>2, <3>3 DEF EntryId
    <3> QED
      BY <3>3, <3>4
  <2>3. Told(r)
    BY DEF BookInv
  <2> QED
    BY <2>1, <2>2, <2>3 DEF Told
<1> QED
  BY <1>1, BookInvariance, PTL

\* An organization pays only for a charge that one of its clients has in the
\* book.
THEOREM AccrualsBacked == Spec => []AccrualBacked
<1>1. IInv /\ BookInv => AccrualBacked
  <2> SUFFICES ASSUME IInv, BookInv, NEW x \in ledger, x.id[2] = "accrual"
               PROVE  \E y \in ledger : /\ y.id = EntryId(x.id[1]) /\ y.kind = "debit"
                                        /\ PlatformOf[y.client] = x.client
    BY DEF AccrualBacked
  <2>1. PICK r \in Requests : Written(x, r)
    BY DEF BookInv
  <2>2. x # EntryOf(r)
    BY DEF EntryOf, Row, EntryId
  <2>3. /\ x.id = AccrualId(r) /\ job[r].op = "charge" /\ EntryOf(r) \in ledger
        /\ x.client = PlatformOf[job[r].client]
    BY <2>1, <2>2 DEF Written
  <2>4. /\ EntryOf(r).id = EntryId(r) /\ EntryOf(r).client = job[r].client
        /\ EntryOf(r).kind = "debit" /\ x.id[1] = r
    BY <2>3 DEF EntryOf, Row, KindOf, Debits, AccrualId
  <2> QED
    BY <2>3, <2>4
<1> QED
  BY <1>1, BookInvariance, PTL

\* A charge and its retry are never both booked, and the retry is answered
\* with the amount that was charged.
THEOREM RetriesAnsweredAlike == Spec => []RetriedChargeAnswersAlike
<1>1. IInv /\ BookInv => RetriedChargeAnswersAlike
  <2> SUFFICES ASSUME IInv, BookInv, NEW r \in Requests, NEW s \in Requests, r # s,
                      job[r].op = "charge", job[s].op = "charge",
                      job[r].client = job[s].client, job[r].key = job[s].key,
                      job[r].key # NoKey, answer[r].status = "posted",
                      answer[s].status \in {"posted", "replay"}
               PROVE  answer[s].status = "replay" /\ answer[s].amount = answer[r].amount
    BY DEF RetriedChargeAnswersAlike
  <2>1. EntryOf(r) \in ledger /\ answer[r].amount = job[r].amount
    BY DEF BookInv, Told
  <2>2. \A q \in Requests : /\ EntryOf(q).client = job[q].client /\ EntryOf(q).key = job[q].key
                            /\ EntryOf(q).amount = job[q].amount /\ EntryOf(q).id = <<q, "entry">>
    BY DEF EntryOf, Row, EntryId
  <2>3. answer[s].status # "posted"
    <3> SUFFICES ASSUME answer[s].status = "posted" PROVE FALSE
      OBVIOUS
    <3>1. EntryOf(s) \in ledger
      BY DEF BookInv, Told
    <3>2. EntryOf(s) = EntryOf(r)
      BY <2>1, <2>2, <3>1 DEF IInv, KeyOnce
    <3> QED
      BY <2>2, <3>2
  <2>4. PICK x \in Recorded(job[s].client, job[s].key) : answer[s].amount = x.amount
    BY <2>3 DEF BookInv, Told
  <2>5. x = EntryOf(r)
    BY <2>1, <2>2, <2>4 DEF Recorded, IInv, KeyOnce
  <2> QED
    BY <2>1, <2>2, <2>3, <2>4, <2>5
<1> QED
  BY <1>1, BookInvariance, PTL

-----------------------------------------------------------------------------
(***************************************************************************)
(* Locks are given back: the converse of LockInv.  Whoever a lock names is *)
(* at a statement between taking the lock and the end of its transaction.  *)
(***************************************************************************)
LockKept ==
  \A c \in Clients : lock[c] # NoRequest => HoldsLock(lock[c]) /\ job[lock[c]].client = c

LEMMA EndTxKept ==
  ASSUME IInv, LockKept, NEW r \in Requests, EndTx(r), UNCHANGED job,
         \A s \in Requests \ {r} : pc'[s] = pc[s]
  PROVE  LockKept'
<1>1. \A c \in Clients : lock'[c] # NoRequest => lock'[c] = lock[c] /\ lock[c] # r
  BY DEF EndTx
<1>2. \A c \in Clients : lock[c] \in Requests \cup {NoRequest}
  BY DEF IInv, TypeOK
<1> QED
  BY <1>1, <1>2 DEF LockKept, HoldsLock

LEMMA NextKept == IInv /\ LockKept /\ [Next]_vars => LockKept'
<1> SUFFICES ASSUME IInv, LockKept, [Next]_vars PROVE LockKept'
  OBVIOUS
<1>1. ASSUME NEW r \in Requests, NEW j \in Jobs, Arrive(r, j) PROVE LockKept'
  <2>1. /\ lock' = lock /\ job' = [job EXCEPT ![r] = j] /\ pc[r] = "idle"
        /\ \A s \in Requests \ {r} : pc'[s] = pc[s]
    BY <1>1 DEF Arrive, At, Goto, IInv, TypeOK
  <2>2. \A c \in Clients : lock[c] \in Requests \cup {NoRequest}
    BY DEF IInv, TypeOK
  <2>3. ~HoldsLock(r)
    BY <2>1 DEF HoldsLock
  <2> QED
    BY <2>1, <2>2, <2>3 DEF LockKept, HoldsLock, IInv, TypeOK
<1>2. ASSUME NEW r \in Requests, TakeLock(r) PROVE LockKept'
  <2>1. /\ lock' = [lock EXCEPT ![job[r].client] = r] /\ job' = job
        /\ pc' = [pc EXCEPT ![r] = "replay"]
    BY <1>2 DEF TakeLock, Goto
  <2>2. HoldsLock(r)' /\ \A s \in Requests \ {r} : HoldsLock(s)' = HoldsLock(s)
    BY <2>1 DEF HoldsLock, IInv, TypeOK
  <2>3. pc[r] = "lock"
    BY <1>2 DEF TakeLock, At
  <2>4. ~HoldsLock(r)
    BY <2>3 DEF HoldsLock
  <2> QED
    BY <2>1, <2>2, <2>4 DEF LockKept, IInv, TypeOK
<1>3. ASSUME NEW r \in Requests,
             \/ RefuseUnits(r) \/ Replay(r) \/ RefuseService(r) \/ RefuseBalance(r)
             \/ InsertRejected(r) \/ InsertIgnored(r) \/ Commit(r) \/ Crash(r)
      PROVE  LockKept'
  <2>1. EndTx(r) /\ UNCHANGED job
    BY <1>3 DEF RefuseUnits, Replay, RefuseService, RefuseBalance, InsertRejected,
                InsertIgnored, Commit, Crash, Abort
  <2>2. \A s \in Requests \ {r} : pc'[s] = pc[s]
    BY <1>3 DEF RefuseUnits, Replay, RefuseService, RefuseBalance, InsertRejected,
                InsertIgnored, Commit, Crash, Abort, Goto, IInv, TypeOK
  <2> QED
    BY <2>1, <2>2, EndTxKept
<1>4. ASSUME NEW r \in Requests, NotRecorded(r) \/ ReadBalance(r) \/ Insert(r) \/ Accrue(r)
      PROVE  LockKept'
  <2>1. UNCHANGED <<lock, job>>
    BY <1>4 DEF NotRecorded, ReadBalance, Insert, Accrue
  <2>2. \A s \in Requests \ {r} : HoldsLock(s)' = HoldsLock(s)
    BY <1>4 DEF NotRecorded, ReadBalance, Insert, Accrue, Goto, HoldsLock, IInv, TypeOK
  <2>3. HoldsLock(r) => HoldsLock(r)'
    <3>1. pc[r] = "price" => job[r].op \in Locked
      BY DEF IInv, LockInv
    <3> QED
      BY <1>4, <3>1 DEF NotRecorded, ReadBalance, Insert, Accrue, At, Goto, HoldsLock, IInv,
                        TypeOK
  <2> QED
    BY <2>1, <2>2, <2>3 DEF LockKept, IInv, TypeOK
<1>5. CASE UNCHANGED vars
  BY <1>5 DEF vars, LockKept, HoldsLock
<1> QED
  BY <1>1, <1>2, <1>3, <1>4, <1>5 DEF Next, Step

\* From the commit back to the lock: a request waits for the lock only while
\* its holder is open, for a key only while its holder commits.
LEMMA KeptGivesNobodyStuck == IInv /\ LockKept => NobodyStuck
<1> SUFFICES ASSUME IInv, LockKept PROVE NobodyStuck
  OBVIOUS
<1>1. \A c \in Clients : lock[c] # NoRequest =>
        /\ lock[c] \in Requests /\ job[lock[c]].client = c
        /\ pc[lock[c]] \in {"replay", "price", "insert", "commit"}
  BY DEF LockKept, HoldsLock, IInv, TypeOK
<1>2. ASSUME NEW b \in Requests, Open(b), \A r \in Requests : Open(r) => Waits(r)
      PROVE  FALSE
  <2>1. \A r \in Requests : pc[r] \notin {"replay", "price", "commit", "accrue"}
    BY <1>2 DEF Open, Waits
  <2>2. \A r \in Requests : pend[r] = {}
    BY <2>1 DEF IInv, PendInv
  <2>3. \A r \in Requests : pc[r] # "insert"
    BY <1>2, <2>2 DEF Open, Waits, HeldByOther
  <2>4. pc[b] = "lock" /\ ~LockFree(job[b].client)
    BY <1>2, <2>3 DEF Waits
  <2>5. job[b].client \in Clients
    <3>1. job[b] \in Jobs
      BY <2>4 DEF IInv, TypeOK
    <3> QED
      BY <3>1, JobsTyped DEF JobType
  <2> QED
    BY <1>1, <2>1, <2>3, <2>4, <2>5 DEF LockFree
<1> QED
  BY <1>1, <1>2 DEF NobodyStuck, Open

\* No lock outlives its request, and while requests are open one of them can
\* go on: waits for locks and for keys never close a circle.
THEOREM LocksGivenBack == Spec => []NobodyStuck
<1>1. Init => LockKept
  BY DEF Init, LockKept
<1> QED
  BY <1>1, NextKept, KeptGivesNobodyStuck, Invariance, PTL DEF Spec
=============================================================================
