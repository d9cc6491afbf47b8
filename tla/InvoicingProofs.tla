--------------------------- MODULE InvoicingProofs ---------------------------
(***************************************************************************)
(* Proofs about Invoicing, for any invoices, runs and limits.  RunInv says *)
(* what a run of invoice_retry has in its hand, CfdiInv where the CFDIs of *)
(* the PAC are, DeskInv what overdue_notifier has sent and not committed.  *)
(***************************************************************************)
EXTENDS Invoicing, TLAPS, FiniteSetTheorems, WellFoundedInduction

RunInv ==
  /\ \A r \in Runs :
       /\ pc[r] # "idle" => todo[r] # {}
       /\ hand[r] # 0 <=> pc[r] \in {"files", "update"}
       /\ hand[r] # 0 => /\ hand[r] \in Uuids /\ hand[r] \notin lost
                         /\ cfdis[hand[r]] = Current(r)
       /\ pc[r] = "update" => hand[r] \in files
  /\ \A r, q \in Runs : r # q /\ hand[r] # 0 => hand[r] # hand[q]

Held(u) == \E r \in Runs : hand[r] = u

\* A CFDI that is neither lost nor in a hand has stamped its invoice, which is
\* never unstamped: so the webhook can only bring what a run does not know.
CfdiInv ==
  /\ \A u \in Uuids : u \in lost \/ Held(u) \/ status[cfdis[u]] = "stamped"
  /\ \A i \in Invoices : status[i] = "stamped" =>
       /\ uuid[i] \in Uuids /\ cfdis[uuid[i]] = i
       /\ (paths[i] = uuid[i] /\ uuid[i] \in files) \/ uuid[i] \in lost \/ Held(uuid[i])

\* While no two runs meet at an invoice, one that is about to be posted has no
\* CFDI but lost ones.
MeetInv ==
  ~overlap =>
    /\ \A r, q \in Runs : r # q /\ Stamping(r) /\ Stamping(q) => Current(r) # Current(q)
    /\ \A r \in Runs : pc[r] = "post" => \A u \in Uuids \ lost : cfdis[u] # Current(r)
    /\ \A u, v \in Uuids \ lost : cfdis[u] = cfdis[v] => u = v

StampInv == RunInv /\ CfdiInv /\ MeetInv

\* A mail that no audit row, committed or not, stands for has been paid for
\* with a failure; after one that aborted the transaction, so have all of it.
DeskInv ==
  /\ desk.pc = "idle" => desk = DeskIdle
  /\ desk.left \cap (notified \cup desk.audit) = {}
  /\ \A i \in notified : mails[i] > 0 /\ mails[i] <= faults + 1
  /\ \A i \in Invoices \ notified :
       /\ desk.broken => mails[i] <= faults /\ (i \in desk.left => mails[i] < faults)
       /\ ~desk.broken /\ i \in desk.audit => mails[i] > 0 /\ mails[i] <= faults + 1
       /\ ~desk.broken /\ i \notin desk.audit => mails[i] <= faults

IInv == TypeOK /\ StampInv /\ DeskInv

-----------------------------------------------------------------------------
LEMMA MinInSet ==
  ASSUME NEW S \in SUBSET Nat, S # {}
  PROVE  Min(S) \in S /\ \A y \in S : Min(S) <= y
<1> DEFINE R == OpToRel(<, Nat)
<1>1. IsWellFoundedOn(R, Nat)
  BY NatLessThanWellFounded
<1>2. \A a, b \in Nat : <<a, b>> \in R <=> a < b
  BY DEF OpToRel
<1> HIDE DEF R
<1>3. \E x \in S : \A y \in S : ~ (<<y, x>> \in R)
  BY <1>1, WFMin
<1>4. PICK x \in S : \A y \in S : ~ (<<y, x>> \in R)
  BY <1>3
<1>5. x \in Nat /\ \A y \in S : y \in Nat /\ ~(y < x)
  BY <1>2, <1>4
<1>6. \E z \in S : \A y \in S : z <= y
  <2>1. \A y \in S : x <= y
    BY <1>5
  <2> QED BY <2>1
<1> QED BY <1>6 DEF Min

LEMMA CurrentType ==
  ASSUME TypeOK, NEW r \in Runs, todo[r] # {}
  PROVE  Current(r) \in todo[r] /\ Current(r) \in Invoices
BY MinInSet, InvoicesAssumption DEF TypeOK, Current

LEMMA FaultStep == ASSUME TypeOK, Fault PROVE faults' = faults + 1 /\ faults' \in 0..MaxFaults
BY LimitsAssumption DEF Fault, TypeOK

LEMMA AppendCfdi ==
  ASSUME TypeOK, NEW i \in Invoices, cfdis' = Append(cfdis, i)
  PROVE  /\ cfdis' \in Seq(Invoices) /\ Uuids' = Uuids \cup {Len(cfdis')}
         /\ Len(cfdis') \notin Uuids /\ Len(cfdis') # 0 /\ cfdis'[Len(cfdis')] = i
         /\ \A u \in Uuids : cfdis'[u] = cfdis[u]
<1>1. Uuids = 1..Len(cfdis) /\ Len(cfdis) \in Nat
  BY DEF TypeOK, Uuids
<1>2. /\ cfdis' \in Seq(Invoices) /\ Len(cfdis') = Len(cfdis) + 1
      /\ cfdis'[Len(cfdis) + 1] = i /\ \A u \in 1..Len(cfdis) : cfdis'[u] = cfdis[u]
  BY DEF TypeOK
<1>3. Uuids' = 1..Len(cfdis')
  BY <1>2 DEF Uuids
<1> QED BY <1>1, <1>2, <1>3

-----------------------------------------------------------------------------
(***************************************************************************)
(* invoice_retry                                                           *)
(***************************************************************************)
\* The end of an invoice, or of the run: a CFDI in its hand is lost.
Drop(r) ==
  /\ pc' = [pc EXCEPT ![r] = pc'[r]] /\ pc'[r] \in {"idle", "read"}
  /\ todo' = [todo EXCEPT ![r] = todo'[r]] /\ todo'[r] \subseteq todo[r]
  /\ hand' = [hand EXCEPT ![r] = 0]
  /\ pc'[r] = "read" => todo'[r] # {}
  /\ lost' = lost \cup ({hand[r]} \ {0})

LEMMA NextInvoiceDrops ==
  ASSUME TypeOK, NEW r \in Runs, NextInvoice(r), lost' = lost \cup ({hand[r]} \ {0})
  PROVE  Drop(r)
BY DEF TypeOK, NextInvoice, Drop

LEMMA DropStep ==
  ASSUME TypeOK, StampInv, NEW r \in Runs, Drop(r),
         UNCHANGED <<row, cfdis, files, overlap, notices>>, refusals' \subseteq Invoices,
         faults' \in 0..MaxFaults
  PROVE  TypeOK' /\ StampInv'
<1>1. TypeOK'
  BY DEF TypeOK, StampInv, Drop, RunInv, Uuids, row, notices
<1>2. /\ pc'[r] \in {"idle", "read"} /\ hand'[r] = 0
      /\ \A q \in Runs \ {r} : /\ pc'[q] = pc[q] /\ hand'[q] = hand[q]
                               /\ Current(q)' = Current(q)
  BY DEF Drop, TypeOK, Current
<1>3. Uuids' = Uuids /\ lost' \cap {0} = {}
  <2>1. 0 \notin Uuids
    BY DEF TypeOK, Uuids
  <2> QED BY <2>1 DEF TypeOK, Drop, Uuids
<1>4. RunInv'
  BY <1>2, <1>3 DEF StampInv, RunInv, TypeOK, Drop
<1>5. \A u \in Uuids : Held(u) => Held(u)' \/ u \in lost'
  BY <1>2, <1>3 DEF Held, TypeOK, Drop
<1>6. CfdiInv'
  BY <1>3, <1>5 DEF StampInv, CfdiInv, Drop, row
<1>7. MeetInv'
  BY <1>2, <1>3 DEF StampInv, MeetInv, Stamping, Drop
<1> QED BY <1>1, <1>4, <1>6, <1>7 DEF StampInv

LEMMA StartStep ==
  ASSUME TypeOK, StampInv, NEW r \in Runs, Start(r)
  PROVE  TypeOK' /\ StampInv'
<1>1. /\ pc[r] = "idle" /\ pc' = [pc EXCEPT ![r] = "read"]
      /\ Batch # {} /\ Batch \subseteq Invoices /\ todo' = [todo EXCEPT ![r] = Batch]
      /\ UNCHANGED <<row, hand, pac, files, lost, overlap, notices, faults>>
  BY DEF Start, Step, Batch, Unstamped
<1>2. TypeOK'
  BY <1>1 DEF TypeOK, Uuids, row, pac, notices
<1>3. \A q \in Runs \ {r} : pc'[q] = pc[q] /\ todo'[q] = todo[q] /\ Current(q)' = Current(q)
  BY <1>1 DEF TypeOK, Current
<1>4. pc'[r] = "read" /\ todo'[r] # {} /\ hand[r] = 0
  BY <1>1 DEF TypeOK, StampInv, RunInv
<1>5. RunInv'
  BY <1>1, <1>3, <1>4 DEF StampInv, RunInv, Uuids, pac
<1>6. CfdiInv'
  BY <1>1 DEF StampInv, CfdiInv, Held, Uuids, pac, row
<1>7. MeetInv'
  BY <1>1, <1>3, <1>4 DEF StampInv, MeetInv, Stamping, Uuids, pac
<1> QED BY <1>2, <1>5, <1>6, <1>7 DEF StampInv

LEMMA ReadStep ==
  ASSUME TypeOK, StampInv, NEW r \in Runs, Read(r)
  PROVE  TypeOK' /\ StampInv'
<1>1. pc[r] = "read" /\ UNCHANGED <<row, pac, files, lost, notices, faults>> /\ hand[r] = 0
  BY DEF Read, StampInv, RunInv
<1>2. CASE Current(r) \notin Unstamped
  <2>1. NextInvoice(r) /\ overlap' = overlap
    BY <1>2 DEF Read
  <2>2. Drop(r)
    BY <1>1, <2>1, NextInvoiceDrops
  <2> QED BY <1>1, <2>1, <2>2, DropStep DEF TypeOK, pac
<1>3. CASE Current(r) \in Unstamped
  <2>1. /\ pc' = [pc EXCEPT ![r] = "post"] /\ UNCHANGED <<todo, hand>>
        /\ overlap' = (overlap \/ \E q \in Runs \ {r} :
                                     Stamping(q) /\ Current(q) = Current(r))
    BY <1>3 DEF Read, Step
  <2>2. TypeOK'
    BY <1>1, <2>1 DEF TypeOK, Uuids, row, pac, notices
  <2>3. /\ pc'[r] = "post" /\ \A q \in Runs : Current(q)' = Current(q)
        /\ \A q \in Runs \ {r} : pc'[q] = pc[q] /\ Stamping(q)' = Stamping(q)
    BY <2>1 DEF TypeOK, Current, Stamping
  <2>4. RunInv'
    BY <1>1, <2>1, <2>3 DEF StampInv, RunInv, Uuids, pac
  <2>5. CfdiInv'
    BY <1>1, <2>1 DEF StampInv, CfdiInv, Held, Uuids, pac, row
  <2>6. MeetInv'
    <3>1. SUFFICES ASSUME ~overlap' PROVE MeetInv'
      BY DEF MeetInv
    <3>2. ~overlap /\ \A q \in Runs \ {r} : Stamping(q) => Current(q) # Current(r)
      BY <2>1, <3>1
    <3>3. ASSUME NEW u \in Uuids \ lost PROVE cfdis[u] # Current(r)
      <4>1. status[Current(r)] # "stamped"
        BY <1>3 DEF Unstamped
      <4>2. ASSUME NEW q \in Runs, hand[q] = u PROVE cfdis[u] # Current(r)
        <5>1. q # r /\ Stamping(q) /\ cfdis[u] = Current(q)
          BY <1>1, <4>2 DEF StampInv, RunInv, Stamping, TypeOK, Uuids
        <5> QED BY <3>2, <5>1
      <4> QED BY <4>1, <4>2 DEF StampInv, CfdiInv, Held
    <3>4. Uuids' = Uuids /\ lost' = lost /\ cfdis' = cfdis
      BY <1>1 DEF Uuids, pac
    <3> QED BY <2>3, <3>2, <3>3, <3>4 DEF StampInv, MeetInv
  <2> QED BY <2>2, <2>4, <2>5, <2>6 DEF StampInv
<1> QED BY <1>2, <1>3

LEMMA IssueStep ==
  ASSUME TypeOK, StampInv, NEW r \in Runs, Issue(r)
  PROVE  TypeOK' /\ StampInv'
<1>0. PICK n : n = Len(cfdis')
  OBVIOUS
<1>1. /\ pc[r] = "post" /\ pc' = [pc EXCEPT ![r] = "files"]
      /\ cfdis' = Append(cfdis, Current(r)) /\ hand' = [hand EXCEPT ![r] = n]
      /\ UNCHANGED <<row, todo, refusals, files, lost, overlap, notices, faults>>
  BY <1>0 DEF Issue, Step
<1>2. Current(r) \in Invoices /\ hand[r] = 0
  BY <1>1, CurrentType DEF StampInv, RunInv
<1>3. /\ cfdis' \in Seq(Invoices) /\ Uuids' = Uuids \cup {n}
      /\ n \notin Uuids /\ n # 0 /\ cfdis'[n] = Current(r)
      /\ \A u \in Uuids : cfdis'[u] = cfdis[u]
  BY <1>0, <1>1, <1>2, AppendCfdi
<1>4. TypeOK'
  BY <1>1, <1>3 DEF TypeOK, row, notices
<1>5. /\ pc'[r] = "files" /\ hand'[r] = n /\ Stamping(r)' /\ Stamping(r)
      /\ \A q \in Runs : Current(q)' = Current(q) /\ todo'[q] = todo[q]
      /\ pc[r] = "post" /\ lost' = lost /\ files' = files /\ overlap' = overlap
      /\ \A q \in Runs \ {r} : /\ pc'[q] = pc[q] /\ hand'[q] = hand[q]
                               /\ Stamping(q)' = Stamping(q)
  BY <1>1 DEF TypeOK, Current, Stamping
<1>6. RunInv'
  <2>1. n \notin lost /\ \A q \in Runs \ {r} : hand[q] # n
    BY <1>3 DEF TypeOK
  <2>2. ASSUME NEW q \in Runs \ {r}, hand[q] # 0
        PROVE  /\ hand[q] \in Uuids' /\ hand[q] \notin lost
               /\ cfdis'[hand[q]] = Current(q)
    BY <1>3, <2>2 DEF StampInv, RunInv
  <2>3. /\ todo[r] # {} /\ hand'[r] \in Uuids' /\ hand'[r] \notin lost
        /\ cfdis'[hand'[r]] = Current(r)
    BY <1>3, <1>5, <2>1 DEF StampInv, RunInv
  <2>4. \A q, p \in Runs : q # p /\ hand'[q] # 0 => hand'[q] # hand'[p]
    BY <1>5, <2>1 DEF StampInv, RunInv
  <2> QED BY <1>3, <1>5, <2>2, <2>3, <2>4 DEF StampInv, RunInv
<1>7. CfdiInv'
  <2>1. Held(n)' /\ \A u \in Uuids : Held(u) => Held(u)'
    <3>1. \A q \in Runs : hand[q] \in Uuids => q # r
      BY <1>2 DEF TypeOK, Uuids
    <3> QED BY <1>5, <3>1 DEF Held
  <2>2. lost' = lost /\ files' = files /\ UNCHANGED <<status, uuid, paths>>
    BY <1>1 DEF row
  <2> QED BY <1>3, <2>1, <2>2 DEF StampInv, CfdiInv
<1>8. MeetInv'
  <2>1. SUFFICES ASSUME ~overlap PROVE MeetInv'
    BY <1>1 DEF MeetInv
  <2>2. \A q \in Runs \ {r} : Stamping(q) => Current(q) # Current(r)
    BY <1>5, <2>1 DEF StampInv, MeetInv
  <2>3. \A u \in Uuids \ lost : cfdis[u] # Current(r)
    BY <1>1, <2>1 DEF StampInv, MeetInv
  <2>4. \A q, p \in Runs : q # p /\ Stamping(q)' /\ Stamping(p)' => Current(q)' # Current(p)'
    BY <1>5, <2>1, <2>2 DEF StampInv, MeetInv
  <2>5. \A q \in Runs : pc'[q] = "post" => \A u \in Uuids' \ lost' : cfdis'[u] # Current(q)'
    <3>1. ASSUME NEW q \in Runs \ {r}, pc[q] = "post", NEW u \in Uuids' \ lost
          PROVE  cfdis'[u] # Current(q)
      <4>1. Current(q) # Current(r)
        BY <2>2, <3>1 DEF Stamping
      <4>2. u \in Uuids \ lost => cfdis[u] # Current(q)
        BY <2>1, <3>1 DEF StampInv, MeetInv
      <4> QED BY <1>3, <4>1, <4>2
    <3> QED BY <1>5, <3>1
  <2>6. \A u, v \in Uuids' \ lost' : cfdis'[u] = cfdis'[v] => u = v
    <3>1. \A u, v \in Uuids \ lost : cfdis[u] = cfdis[v] => u = v
      BY <2>1 DEF StampInv, MeetInv
    <3> QED BY <1>3, <1>5, <2>3, <3>1
  <2> QED BY <2>4, <2>5, <2>6 DEF MeetInv
<1> QED BY <1>4, <1>6, <1>7, <1>8 DEF StampInv

LEMMA RefuseStep ==
  ASSUME TypeOK, StampInv, NEW r \in Runs, Refuse(r)
  PROVE  TypeOK' /\ StampInv'
<1>1. /\ pc[r] = "post" /\ NextInvoice(r) /\ refusals' = refusals \cup {Current(r)}
      /\ UNCHANGED <<row, cfdis, files, lost, overlap, notices>>
  BY DEF Refuse
<1>2. hand[r] = 0 /\ Current(r) \in Invoices
  BY <1>1, CurrentType DEF StampInv, RunInv
<1>3. faults' \in 0..MaxFaults
  BY FaultStep DEF Refuse, TypeOK
<1>4. Drop(r)
  BY <1>1, <1>2, NextInvoiceDrops
<1> QED BY <1>1, <1>2, <1>3, <1>4, DropStep DEF TypeOK

\* The CFDI is issued and lost at once.
LEMMA LoseAnswerStep ==
  ASSUME TypeOK, StampInv, NEW r \in Runs, LoseAnswer(r)
  PROVE  TypeOK' /\ StampInv'
<1>0. PICK n : n = Len(cfdis')
  OBVIOUS
<1>1. /\ pc[r] = "post" /\ NextInvoice(r)
      /\ cfdis' = Append(cfdis, Current(r)) /\ lost' = lost \cup {n}
      /\ UNCHANGED <<row, refusals, files, overlap, notices>>
  BY <1>0 DEF LoseAnswer
<1>2. Current(r) \in Invoices /\ hand[r] = 0 /\ faults' \in 0..MaxFaults
  BY <1>1, CurrentType, FaultStep DEF StampInv, RunInv, LoseAnswer
<1>3. /\ cfdis' \in Seq(Invoices) /\ Uuids' = Uuids \cup {n}
      /\ n \notin Uuids /\ n # 0 /\ \A u \in Uuids : cfdis'[u] = cfdis[u]
  BY <1>0, <1>1, <1>2, AppendCfdi
<1>4. /\ pc' = [pc EXCEPT ![r] = pc'[r]] /\ pc'[r] \in {"idle", "read"}
      /\ todo' = [todo EXCEPT ![r] = todo'[r]] /\ todo'[r] \subseteq todo[r]
      /\ hand' = [hand EXCEPT ![r] = 0] /\ (pc'[r] = "read" => todo'[r] # {})
  BY <1>1 DEF NextInvoice, TypeOK
<1>5. TypeOK'
  BY <1>1, <1>2, <1>3, <1>4 DEF TypeOK, row, notices
<1>6. /\ hand' = hand
      /\ \A q \in Runs \ {r} : /\ pc'[q] = pc[q] /\ todo'[q] = todo[q]
                               /\ Current(q)' = Current(q)
  BY <1>2, <1>4 DEF TypeOK, Current
<1>7. RunInv'
  <2>1. ASSUME NEW q \in Runs, hand[q] # 0
        PROVE  /\ q # r /\ hand[q] \in Uuids' /\ hand[q] \notin lost'
               /\ cfdis'[hand[q]] = Current(q)
    BY <1>1, <1>2, <1>3, <2>1 DEF StampInv, RunInv
  <2>2. /\ pc'[r] # "idle" => todo'[r] # {}
        /\ pc'[r] \notin {"files", "update"} /\ hand[r] = 0
    BY <1>2, <1>4
  <2> QED BY <1>1, <1>6, <2>1, <2>2 DEF StampInv, RunInv
<1>8. CfdiInv'
  <2>1. \A u \in Uuids : Held(u)' = Held(u)
    BY <1>6 DEF Held
  <2> QED BY <1>1, <1>3, <2>1 DEF StampInv, CfdiInv, row
<1>9. MeetInv'
  <2>1. Uuids' \ lost' = Uuids \ lost
    BY <1>1, <1>3 DEF TypeOK
  <2>2. \A q \in Runs : Stamping(q)' => q # r /\ Stamping(q)
    BY <1>4, <1>6 DEF Stamping
  <2>3. pc'[r] # "post" /\ overlap' = overlap
    BY <1>1, <1>4
  <2>4. \A u \in Uuids \ lost : cfdis'[u] = cfdis[u]
    BY <1>3
  <2> QED BY <1>6, <2>1, <2>2, <2>3, <2>4 DEF StampInv, MeetInv
<1> QED BY <1>5, <1>7, <1>8, <1>9 DEF StampInv

LEMMA WriteFilesStep ==
  ASSUME TypeOK, StampInv, NEW r \in Runs, WriteFiles(r)
  PROVE  TypeOK' /\ StampInv'
<1>1. /\ pc[r] = "files" /\ pc' = [pc EXCEPT ![r] = "update"]
      /\ files' = files \cup {hand[r]}
      /\ UNCHANGED <<row, todo, hand, pac, lost, overlap, notices, faults>>
  BY DEF WriteFiles, Step
<1>2. hand[r] \in Uuids
  BY <1>1 DEF StampInv, RunInv
<1>3. TypeOK'
  BY <1>1, <1>2 DEF TypeOK, Uuids, row, pac, notices
<1>4. /\ pc'[r] = "update" /\ \A q \in Runs \ {r} : pc'[q] = pc[q]
      /\ \A q \in Runs : Current(q)' = Current(q) /\ Stamping(q)' = Stamping(q)
      /\ Uuids' = Uuids
  BY <1>1 DEF TypeOK, Current, Stamping, Uuids, pac
<1>5. RunInv'
  BY <1>1, <1>4 DEF StampInv, RunInv, pac
<1>6. CfdiInv'
  BY <1>1, <1>4 DEF StampInv, CfdiInv, Held, pac, row
<1>7. MeetInv'
  BY <1>1, <1>4 DEF StampInv, MeetInv, pac
<1> QED BY <1>3, <1>5, <1>6, <1>7 DEF StampInv

\* The row of an invoice gets the CFDI in the hand of the run, with its files.
LEMMA UpdateStep ==
  ASSUME TypeOK, StampInv, NEW r \in Runs, Update(r)
  PROVE  TypeOK' /\ StampInv'
<1> DEFINE i == Current(r)
           u == hand[r]
<1>1. /\ pc[r] = "update" /\ NextInvoice(r)
      /\ status' = [status EXCEPT ![i] = "stamped"]
      /\ uuid' = [uuid EXCEPT ![i] = u] /\ paths' = [paths EXCEPT ![i] = u]
      /\ UNCHANGED <<pac, files, lost, overlap, notices, faults>>
  BY DEF Update
<1>2. /\ i \in Invoices /\ u \in Uuids /\ u # 0 /\ u \notin lost /\ u \in files
      /\ cfdis[u] = i
  BY <1>1, CurrentType DEF StampInv, RunInv
<1>3. /\ pc' = [pc EXCEPT ![r] = pc'[r]] /\ pc'[r] \in {"idle", "read"}
      /\ todo' = [todo EXCEPT ![r] = todo'[r]] /\ todo'[r] \subseteq todo[r]
      /\ hand' = [hand EXCEPT ![r] = 0] /\ (pc'[r] = "read" => todo'[r] # {})
  BY <1>1 DEF NextInvoice, TypeOK
<1>4. Uuids' = Uuids /\ cfdis' = cfdis
  BY <1>1 DEF Uuids, pac
<1> HIDE DEF i, u
<1>5. TypeOK'
  BY <1>1, <1>2, <1>3, <1>4 DEF TypeOK, pac, notices
<1>6. /\ pc'[r] \in {"idle", "read"} /\ hand'[r] = 0
      /\ \A q \in Runs \ {r} : /\ pc'[q] = pc[q] /\ hand'[q] = hand[q]
                               /\ todo'[q] = todo[q] /\ Current(q)' = Current(q)
  BY <1>3 DEF TypeOK, Current
<1>7. RunInv'
  BY <1>1, <1>3, <1>4, <1>6 DEF StampInv, RunInv
<1>8. CfdiInv'
  <2>1. \A v \in Uuids : Held(v) => Held(v)' \/ v = u
    BY <1>6 DEF Held, u
  <2>2. /\ status'[i] = "stamped" /\ uuid'[i] = u /\ paths'[i] = u
        /\ \A j \in Invoices \ {i} : /\ status'[j] = status[j] /\ uuid'[j] = uuid[j]
                                     /\ paths'[j] = paths[j]
    BY <1>1, <1>2 DEF TypeOK
  <2>3. \A v \in Uuids : cfdis[v] \in Invoices
    BY DEF TypeOK, Uuids
  <2>4. \A v \in Uuids : v \in lost \/ Held(v)' \/ status'[cfdis[v]] = "stamped"
    BY <1>2, <2>1, <2>2, <2>3 DEF StampInv, CfdiInv
  <2>5. \A j \in Invoices \ {i} : status[j] = "stamped" => uuid[j] # u
    BY <1>2 DEF StampInv, CfdiInv
  <2> QED BY <1>1, <1>2, <1>4, <2>1, <2>2, <2>4, <2>5 DEF StampInv, CfdiInv
<1>9. MeetInv'
  BY <1>1, <1>4, <1>6 DEF StampInv, MeetInv, Stamping
<1> QED BY <1>5, <1>7, <1>8, <1>9 DEF StampInv

LEMMA FailStoreStep ==
  ASSUME TypeOK, StampInv, NEW r \in Runs, FailStore(r)
  PROVE  TypeOK' /\ StampInv'
<1>1. /\ pc[r] \in {"files", "update"} /\ lost' = lost \cup {hand[r]} /\ NextInvoice(r)
      /\ UNCHANGED <<row, pac, files, overlap, notices>> /\ faults' \in 0..MaxFaults
  BY FaultStep DEF FailStore
<1>2. hand[r] # 0
  BY <1>1 DEF StampInv, RunInv
<1>3. Drop(r)
  BY <1>1, <1>2, NextInvoiceDrops
<1> QED BY <1>1, <1>3, DropStep DEF TypeOK, pac

LEMMA DieStep ==
  ASSUME TypeOK, StampInv, NEW r \in Runs, Die(r)
  PROVE  TypeOK' /\ StampInv'
<1>1. Drop(r)
  BY DEF Die, Drop, TypeOK
<1>2. faults' \in 0..MaxFaults
  BY FaultStep DEF Die
<1> QED BY <1>1, <1>2, DropStep DEF Die, TypeOK, pac

-----------------------------------------------------------------------------
(***************************************************************************)
(* The webhook, which only changes a row that is still 'pending_stamp'     *)
(***************************************************************************)
LEMMA PacReportsStep ==
  ASSUME TypeOK, StampInv, PacReports
  PROVE  TypeOK' /\ StampInv'
<1>1. /\ UNCHANGED <<paths, worker, pac, files, lost, overlap, notices, faults>>
      /\ Uuids' = Uuids
  BY DEF PacReports, PacWebhook, Uuids, pac
<1>2. PICK i \in Invoices, s \in {"failed", "stamped"}, u \in Uuids \cup {0} :
        /\ status[i] = "pending_stamp" /\ status' = [status EXCEPT ![i] = s]
        /\ uuid' = [uuid EXCEPT ![i] = u]
        /\ s = "stamped" => u \in Uuids /\ cfdis[u] = i
  <2>1. CASE \E u \in DOMAIN cfdis : PacWebhook(cfdis[u], "stamped", u)
    <3>1. PICK u \in Uuids : PacWebhook(cfdis[u], "stamped", u)
      BY <2>1 DEF Uuids
    <3>2. cfdis[u] \in Invoices
      BY DEF TypeOK, Uuids
    <3> QED BY <3>1, <3>2 DEF PacWebhook
  <2>2. CASE \E j \in refusals : PacWebhook(j, "failed", uuid[j])
    BY <2>2 DEF PacWebhook, TypeOK
  <2> QED BY <2>1, <2>2 DEF PacReports
<1>3. TypeOK'
  BY <1>1, <1>2 DEF TypeOK, worker, pac, notices
<1>4. RunInv' /\ MeetInv'
  BY <1>1 DEF StampInv, RunInv, MeetInv, Stamping, Current, worker, pac
<1>5. CfdiInv'
  <2>1. /\ \A j \in Invoices \ {i} : status'[j] = status[j] /\ uuid'[j] = uuid[j]
        /\ status'[i] = s /\ uuid'[i] = u
    BY <1>2 DEF TypeOK
  <2>2. \A v \in Uuids : Held(v)' = Held(v) /\ cfdis[v] \in Invoices
    BY <1>1 DEF Held, worker, TypeOK, Uuids
  <2>3. \A v \in Uuids : cfdis[v] = i => v \in lost \/ Held(v)
    BY <1>2 DEF StampInv, CfdiInv
  <2> QED BY <1>1, <1>2, <2>1, <2>2, <2>3 DEF StampInv, CfdiInv, pac
<1> QED BY <1>3, <1>4, <1>5 DEF StampInv

-----------------------------------------------------------------------------
(***************************************************************************)
(* overdue_notifier                                                        *)
(***************************************************************************)
StampFrame == UNCHANGED <<row, worker, pac, files, lost, overlap>>

LEMMA StampFramed == ASSUME StampInv, StampFrame PROVE StampInv'
BY DEF StampInv, StampFrame, RunInv, CfdiInv, MeetInv, Held, Stamping, Current, Uuids, row,
       worker, pac

DeskTypes ==
  /\ desk \in [pc : {"idle", "mail"}, left : SUBSET Invoices, audit : SUBSET Invoices,
               broken : BOOLEAN]
  /\ notified \subseteq Invoices
  /\ mails \in [Invoices -> Nat]
  /\ faults \in 0..MaxFaults

LEMMA TypesFramed == ASSUME TypeOK, StampFrame, DeskTypes' PROVE TypeOK'
BY DEF TypeOK, StampFrame, DeskTypes, Uuids, row, worker, pac

LEMMA DeskIdleType ==
  /\ DeskIdle.pc = "idle" /\ DeskIdle.left = {} /\ DeskIdle.audit = {} /\ ~DeskIdle.broken
  /\ DeskIdle \in [pc : {"idle", "mail"}, left : SUBSET Invoices, audit : SUBSET Invoices,
                   broken : BOOLEAN]
BY DEF DeskIdle

\* The others only add to faults.
LEMMA DeskFramed ==
  ASSUME TypeOK, DeskInv, UNCHANGED notices, faults' = faults \/ faults' = faults + 1
  PROVE  DeskInv'
<1>1. faults \in Nat /\ \A i \in Invoices : mails[i] \in Nat
  BY DEF TypeOK
<1>2. notified \subseteq Invoices
  BY DEF TypeOK
<1> QED BY <1>1, <1>2 DEF DeskInv, notices

LEMMA StartNoticesStep ==
  ASSUME TypeOK, DeskInv, StartNotices
  PROVE  DeskTypes' /\ DeskInv'
<1>1. PICK S \in SUBSET Candidates : desk' = [DeskIdle EXCEPT !.pc = "mail", !.left = S]
  BY DEF StartNotices
<1>2. S \subseteq Invoices /\ S \cap notified = {}
  BY DEF Candidates
<1>3. /\ desk'.pc = "mail" /\ desk'.left = S /\ desk'.audit = {} /\ ~desk'.broken
      /\ desk' \in [pc : {"idle", "mail"}, left : SUBSET Invoices, audit : SUBSET Invoices,
                    broken : BOOLEAN]
  BY <1>1, <1>2 DEF DeskIdle
<1>4. desk = DeskIdle /\ UNCHANGED <<notified, mails, faults>>
  BY DEF StartNotices, DeskInv
<1>5. DeskTypes'
  BY <1>3, <1>4 DEF TypeOK, DeskTypes
<1>6. DeskInv'
  BY <1>2, <1>3, <1>4, DeskIdleType DEF DeskInv
<1> QED BY <1>5, <1>6

LEMMA SendMailStep ==
  ASSUME TypeOK, DeskInv, NEW i \in Invoices, SendMail(i)
  PROVE  DeskTypes' /\ DeskInv'
<1>1. /\ desk.pc = "mail" /\ i \in desk.left /\ notified' = notified
      /\ i \notin notified /\ i \notin desk.audit
      /\ desk.left \subseteq Invoices /\ desk.audit \subseteq Invoices
      /\ desk.broken \in BOOLEAN /\ faults \in Nat
      /\ \A j \in Invoices : mails[j] \in Nat
  BY DEF SendMail, DeskInv, TypeOK
<1>2. PICK A \in SUBSET Invoices, b \in BOOLEAN :
        /\ desk' = [desk EXCEPT !.left = @ \ {i}, !.audit = A, !.broken = b]
        /\ \/ /\ mails' = [mails EXCEPT ![i] = @ + 1] /\ faults' = faults
              /\ A = (IF desk.broken THEN desk.audit ELSE desk.audit \cup {i})
              /\ b = desk.broken
           \/ /\ mails' = [mails EXCEPT ![i] = @ + 1] /\ faults' = faults + 1
              /\ A = desk.audit /\ b = TRUE
           \/ mails' = mails /\ faults' = faults + 1 /\ A = desk.audit /\ b = desk.broken
  <2>1. CASE /\ mails' = [mails EXCEPT ![i] = @ + 1] /\ faults' = faults
             /\ desk' = [desk EXCEPT !.left = @ \ {i},
                           !.audit = IF desk.broken THEN @ ELSE @ \cup {i}]
    <3>1. desk' = [desk EXCEPT !.left = @ \ {i}, !.broken = desk.broken,
                     !.audit = IF desk.broken THEN desk.audit ELSE desk.audit \cup {i}]
      BY <2>1 DEF TypeOK
    <3> QED BY <1>1, <2>1, <3>1
  <2>2. CASE /\ mails' = [mails EXCEPT ![i] = @ + 1] /\ Fault
             /\ desk' = [desk EXCEPT !.left = @ \ {i}, !.broken = TRUE]
    <3>1. desk' = [desk EXCEPT !.left = @ \ {i}, !.audit = desk.audit, !.broken = TRUE]
      BY <2>2 DEF TypeOK
    <3> QED BY <1>1, <2>2, <3>1, FaultStep
  <2>3. CASE UNCHANGED mails /\ Fault /\ desk' = [desk EXCEPT !.left = @ \ {i}]
    <3>1. desk' = [desk EXCEPT !.left = @ \ {i}, !.audit = desk.audit, !.broken = desk.broken]
      BY <2>3 DEF TypeOK
    <3> QED BY <1>1, <2>3, <3>1, FaultStep
  <2> QED BY <2>1, <2>2, <2>3 DEF SendMail
<1>3. /\ desk'.pc = "mail" /\ desk'.left = desk.left \ {i} /\ desk'.audit = A
      /\ desk'.broken = b
      /\ desk' \in [pc : {"idle", "mail"}, left : SUBSET Invoices, audit : SUBSET Invoices,
                    broken : BOOLEAN]
  BY <1>1, <1>2 DEF TypeOK
<1>4. mails' \in [Invoices -> Nat] /\ faults' \in 0..MaxFaults
  <2>1. faults' \in 0..MaxFaults
    BY FaultStep DEF SendMail, TypeOK
  <2> QED BY <1>2, <2>1 DEF TypeOK
<1>5. DeskTypes'
  BY <1>1, <1>3, <1>4 DEF TypeOK, DeskTypes
<1>6. /\ mails'[i] \in {mails[i], mails[i] + 1}
      /\ \A j \in Invoices \ {i} : mails'[j] = mails[j]
      /\ A \subseteq desk.audit \cup {i}
  BY <1>1, <1>2 DEF TypeOK
<1>7. desk'.left \cap (notified' \cup desk'.audit) = {}
  BY <1>1, <1>3, <1>6 DEF DeskInv
<1>8. \A j \in notified' : mails'[j] > 0 /\ mails'[j] <= faults' + 1
  <2>1. \A j \in notified : j \in Invoices /\ j # i
    BY <1>1 DEF TypeOK
  <2> QED BY <1>1, <1>2, <1>6, <2>1 DEF DeskInv
<1>9. \A j \in Invoices \ notified' :
        /\ b => mails'[j] <= faults' /\ (j \in desk'.left => mails'[j] < faults')
        /\ ~b /\ j \in A => mails'[j] > 0 /\ mails'[j] <= faults' + 1
        /\ ~b /\ j \notin A => mails'[j] <= faults'
  <2>1. /\ desk.broken => mails[i] < faults
        /\ ~desk.broken => mails[i] <= faults
    BY <1>1 DEF DeskInv
  <2>2. ASSUME NEW j \in Invoices \ notified', j # i
        PROVE  /\ b => mails'[j] <= faults' /\ (j \in desk'.left => mails'[j] < faults')
               /\ ~b /\ j \in A => mails'[j] > 0 /\ mails'[j] <= faults' + 1
               /\ ~b /\ j \notin A => mails'[j] <= faults'
    BY <1>1, <1>2, <1>3, <1>6, <2>2 DEF DeskInv
  <2>3. mails'[i] = mails[i] + 1 \/ (mails'[i] = mails[i] /\ faults' = faults + 1)
    BY <1>1, <1>2 DEF TypeOK
  <2>4. /\ b => mails'[i] <= faults' /\ i \notin desk'.left
        /\ ~b /\ i \in A => mails'[i] > 0 /\ mails'[i] <= faults' + 1
        /\ ~b /\ i \notin A => mails'[i] <= faults'
    BY <1>1, <1>2, <1>3, <2>1, <2>3
  <2> QED BY <2>2, <2>4
<1>10. DeskInv'
  BY <1>3, <1>7, <1>8, <1>9 DEF DeskInv
<1> QED BY <1>5, <1>10

LEMMA CommitNoticesStep ==
  ASSUME TypeOK, DeskInv, CommitNotices
  PROVE  DeskTypes' /\ DeskInv'
<1>1. /\ desk.left = {} /\ desk' = DeskIdle /\ UNCHANGED <<mails, faults>>
      /\ notified' = IF desk.broken THEN notified ELSE notified \cup desk.audit
  BY DEF CommitNotices
<1>2. DeskTypes'
  BY <1>1, DeskIdleType DEF TypeOK, DeskTypes
<1>3. DeskInv'
  BY <1>1, DeskIdleType DEF DeskInv, TypeOK
<1> QED BY <1>2, <1>3

LEMMA DieNoticesStep ==
  ASSUME TypeOK, DeskInv, DieNotices
  PROVE  DeskTypes' /\ DeskInv'
<1>1. desk' = DeskIdle /\ UNCHANGED <<notified, mails>> /\ faults' = faults + 1
      /\ faults' \in 0..MaxFaults
  BY FaultStep DEF DieNotices
<1>2. DeskTypes'
  BY <1>1, DeskIdleType DEF TypeOK, DeskTypes
<1>3. faults \in Nat /\ \A i \in Invoices : mails[i] \in Nat
  BY DEF TypeOK
<1>4. ASSUME NEW i \in Invoices \ notified PROVE mails[i] <= faults + 1
  <2>1. mails[i] <= faults \/ mails[i] <= faults + 1
    BY <1>4 DEF DeskInv
  <2> QED BY <1>3, <1>4, <2>1
<1>5. ASSUME NEW i \in notified PROVE mails[i] > 0 /\ mails[i] <= faults + 1 /\ i \in Invoices
  BY <1>5 DEF DeskInv, TypeOK
<1>6. DeskInv'
  BY <1>1, <1>3, <1>4, <1>5, DeskIdleType DEF DeskInv
<1> QED BY <1>2, <1>6

LEMMA WeekPassesStep ==
  ASSUME TypeOK, DeskInv, WeekPasses
  PROVE  DeskTypes' /\ DeskInv'
<1>1. /\ desk' = desk /\ desk = DeskIdle /\ notified' = {} /\ faults' = faults
      /\ mails' = [i \in Invoices |-> 0]
  BY DEF WeekPasses, DeskInv
<1>2. DeskTypes'
  BY <1>1, DeskIdleType DEF TypeOK, DeskTypes
<1>3. DeskInv'
  BY <1>1, DeskIdleType DEF DeskInv, TypeOK
<1> QED BY <1>2, <1>3

-----------------------------------------------------------------------------
LEMMA InvGivesProperties ==
  IInv => TypeOK /\ OneCfdiUnlessOverlapping /\ StampedHasFiles /\ NoticesMatchMails
<1> SUFFICES ASSUME IInv
             PROVE  TypeOK /\ OneCfdiUnlessOverlapping /\ StampedHasFiles /\ NoticesMatchMails
  OBVIOUS
<1>1. OneCfdiUnlessOverlapping
  BY DEF IInv, StampInv, MeetInv, OneCfdiUnlessOverlapping
<1>2. StampedHasFiles
  <2>1. 0 \notin Uuids
    BY DEF IInv, TypeOK, Uuids
  <2> QED BY <2>1 DEF IInv, StampInv, CfdiInv, Held, StampedHasFiles, Download
<1>3. NoticesMatchMails
  <2>1. faults \in Nat /\ \A i \in Invoices : mails[i] \in Nat
    BY DEF IInv, TypeOK
  <2> QED BY <2>1 DEF IInv, DeskInv, NoticesMatchMails
<1> QED BY <1>1, <1>2, <1>3 DEF IInv

LEMMA InitIInv == Init => IInv
<1> SUFFICES ASSUME Init PROVE IInv
  OBVIOUS
<1>1. Uuids = {} /\ cfdis \in Seq(Invoices)
  BY DEF Init, Uuids
<1>2. TypeOK
  <2>1. uuid \in [Invoices -> Uuids \cup {0}] /\ paths \in [Invoices -> Uuids \cup {0}]
        /\ hand \in [Runs -> Uuids \cup {0}]
    BY DEF Init
  <2>2. faults \in 0..MaxFaults /\ mails \in [Invoices -> Nat]
    BY LimitsAssumption DEF Init
  <2>3. todo \in [Runs -> SUBSET Invoices]
    BY DEF Init
  <2> QED BY <1>1, <2>1, <2>2, <2>3, DeskIdleType DEF Init, TypeOK
<1>3. RunInv
  BY <1>1 DEF Init, RunInv
<1>4. CfdiInv
  BY <1>1 DEF Init, CfdiInv
<1>5. MeetInv
  BY <1>1 DEF Init, MeetInv, Stamping
<1>6. DeskInv
  BY DeskIdleType DEF Init, DeskInv
<1> QED BY <1>2, <1>3, <1>4, <1>5, <1>6 DEF IInv, StampInv

LEMMA NextIInv == IInv /\ [Next]_vars => IInv'
<1> SUFFICES ASSUME IInv, [Next]_vars PROVE IInv'
  OBVIOUS
<1> USE DEF IInv
<1>1. ASSUME NEW r \in Runs,
             \/ Start(r) \/ Read(r) \/ Issue(r) \/ Refuse(r) \/ LoseAnswer(r)
             \/ WriteFiles(r) \/ Update(r) \/ FailStore(r) \/ Die(r)
      PROVE  IInv'
  <2>1. TypeOK' /\ StampInv'
    BY <1>1, StartStep, ReadStep, IssueStep, RefuseStep, LoseAnswerStep, WriteFilesStep,
       UpdateStep, FailStoreStep, DieStep
  <2>2. UNCHANGED notices /\ (faults' = faults \/ faults' = faults + 1)
    BY <1>1 DEF Start, Read, Issue, Refuse, LoseAnswer, WriteFiles, Update, FailStore, Die, Fault
  <2> QED BY <2>1, <2>2, DeskFramed
<1>2. CASE PacReports
  BY <1>2, PacReportsStep, DeskFramed DEF PacReports, PacWebhook
<1>3. CASE StartNotices \/ CommitNotices \/ DieNotices \/ WeekPasses
  <2>1. StampFrame
    BY <1>3 DEF StampFrame, StartNotices, CommitNotices, DieNotices, WeekPasses
  <2>2. DeskTypes' /\ DeskInv'
    BY <1>3, StartNoticesStep, CommitNoticesStep, DieNoticesStep, WeekPassesStep
  <2> QED BY <2>1, <2>2, StampFramed, TypesFramed
<1>4. ASSUME NEW i \in Invoices, SendMail(i) PROVE IInv'
  <2>1. StampFrame
    BY <1>4 DEF StampFrame, SendMail
  <2> QED BY <1>4, <2>1, SendMailStep, StampFramed, TypesFramed
<1>5. CASE UNCHANGED vars
  <2>1. StampFrame /\ UNCHANGED notices /\ faults' = faults
    BY <1>5 DEF vars, StampFrame
  <2>2. DeskTypes'
    BY <2>1 DEF TypeOK, DeskTypes, notices
  <2> QED BY <2>1, <2>2, StampFramed, TypesFramed, DeskFramed
<1> QED BY <1>1, <1>2, <1>3, <1>4, <1>5 DEF Next

\* Where every CFDI of the PAC is, in the hand of a run, lost, or in the row of
\* its invoice: the inductive invariant of Invoicing.
THEOREM Invariance == Spec => []IInv
BY InitIInv, NextIInv, PTL DEF Spec

\* The variables keep their types.
THEOREM TypeCorrect == Spec => []TypeOK
BY Invariance, InvGivesProperties, PTL

\* Two CFDIs of one invoice need a lost answer or two runs that met at it.
THEOREM OneCfdi == Spec => []OneCfdiUnlessOverlapping
BY Invariance, InvGivesProperties, PTL

\* A stamped invoice has the files of its own CFDI, unless the answer was lost
\* or is still in a hand.
THEOREM FilesOfStamped == Spec => []StampedHasFiles
BY Invariance, InvGivesProperties, PTL

\* A second reminder in a week needs a failure.
THEOREM NoticesPaidFor == Spec => []NoticesMatchMails
BY Invariance, InvGivesProperties, PTL

-----------------------------------------------------------------------------
(***************************************************************************)
(* What a step leaves of a stamped invoice.  Only Update and the webhook   *)
(* write rows, and the webhook none that is stamped.                       *)
(***************************************************************************)
Kept(i) ==
  /\ status'[i] = "stamped"
  /\ Download(i) = "file" => Download(i)' = "file"
  /\ uuid'[i] # uuid[i] => uuid[i] \in lost \/ overlap

LEMMA RowsKept ==
  ASSUME UNCHANGED row, files \subseteq files', NEW i \in Invoices, status[i] = "stamped"
  PROVE  Kept(i)
BY DEF Kept, row, Download

LEMMA UpdateKeeps ==
  ASSUME TypeOK, StampInv, NEW r \in Runs, Update(r), NEW i \in Invoices, status[i] = "stamped"
  PROVE  Kept(i)
<1> DEFINE c == Current(r)
           u == hand[r]
<1>1. /\ pc[r] = "update" /\ status' = [status EXCEPT ![c] = "stamped"]
      /\ uuid' = [uuid EXCEPT ![c] = u] /\ paths' = [paths EXCEPT ![c] = u]
      /\ files' = files
  BY DEF Update
<1>2. c \in Invoices /\ u \in Uuids \ lost /\ u # 0 /\ u \in files /\ cfdis[u] = c
  BY <1>1, CurrentType DEF StampInv, RunInv
<1> HIDE DEF c, u
<1>3. CASE i # c
  <2>1. status'[i] = status[i] /\ uuid'[i] = uuid[i] /\ paths'[i] = paths[i]
    BY <1>1, <1>3 DEF TypeOK
  <2> QED BY <1>1, <2>1 DEF Kept, Download
<1>4. CASE i = c
  <2>1. status'[i] = "stamped" /\ uuid'[i] = u /\ paths'[i] = u
    BY <1>1, <1>4 DEF TypeOK
  <2>2. Download(i)' = "file"
    BY <1>1, <1>2, <2>1 DEF Download
  \* The row's CFDI and the one in hand are two of one invoice.
  <2>3. uuid[i] \in Uuids /\ cfdis[uuid[i]] = i
    BY DEF StampInv, CfdiInv
  <2>4. uuid[i] # u => uuid[i] \in lost \/ overlap
    BY <1>2, <1>4, <2>3 DEF StampInv, MeetInv
  <2> QED BY <2>1, <2>2, <2>4 DEF Kept
<1> QED BY <1>3, <1>4

LEMMA NextKeeps ==
  ASSUME IInv, [Next]_vars, NEW i \in Invoices, status[i] = "stamped"
  PROVE  Kept(i)
<1>1. CASE \E r \in Runs : Update(r)
  BY <1>1, UpdateKeeps DEF IInv
<1>2. CASE PacReports
  <2>1. /\ UNCHANGED <<paths, files>>
        /\ \E j, s, u : /\ status[j] = "pending_stamp" /\ status' = [status EXCEPT ![j] = s]
                       /\ uuid' = [uuid EXCEPT ![j] = u]
    BY <1>2 DEF PacReports, PacWebhook
  <2>2. status'[i] = status[i] /\ uuid'[i] = uuid[i]
    BY <2>1 DEF IInv, TypeOK
  <2> QED BY <2>1, <2>2 DEF Kept, Download
<1>3. CASE \E r \in Runs : \/ Start(r) \/ Read(r) \/ Issue(r) \/ Refuse(r) \/ LoseAnswer(r)
                            \/ WriteFiles(r) \/ FailStore(r) \/ Die(r)
  <2>1. UNCHANGED row /\ files \subseteq files'
    BY <1>3 DEF Start, Read, Issue, Refuse, LoseAnswer, WriteFiles, FailStore, Die
  <2> QED BY <2>1, RowsKept
<1>4. CASE \/ StartNotices \/ CommitNotices \/ DieNotices \/ WeekPasses \/ UNCHANGED vars
           \/ \E j \in Invoices : SendMail(j)
  <2>1. UNCHANGED row /\ files' = files
    BY <1>4 DEF StartNotices, CommitNotices, DieNotices, WeekPasses, SendMail, vars
  <2> QED BY <2>1, RowsKept
<1> QED BY <1>1, <1>2, <1>3, <1>4 DEF Next

\* A stamped invoice is never unstamped, its download never stops working, and
\* its CFDI is replaced only after a lost answer or when two runs have met.
THEOREM StampIsForGood == Spec => StampedForGood
<1>1. IInv /\ [Next]_vars => [\A i \in Invoices : status[i] = "stamped" => Kept(i)]_vars
  BY NextKeeps
<1> QED BY <1>1, Invariance, PTL DEF Spec, StampedForGood, Kept
=============================================================================
