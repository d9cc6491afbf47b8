---------------------------- MODULE CatalogProofs ----------------------------
(***************************************************************************)
(* Proofs about Catalog, for any tariffs, rows, providers and requests.    *)
(* Control is what every action keeps about transactions, locks and        *)
(* overlaps; each of the three groups of tables has an invariant of its    *)
(* own, which the actions of the other groups do not touch.                *)
(***************************************************************************)
EXTENDS Catalog, TLAPS, FiniteSetTheorems

Control ==
  /\ pc \in [Requests -> {"unsent", "start", "update", "look", "write", "insert", "unset",
                          "set", "commit", "done", "refused"}]
  /\ held \in [Requests -> SUBSET (Units \cup PriceEdits \cup AllRows \cup AllProviders)]
  /\ met \subseteq SUBSET Requests
  /\ faults \in 0..MaxFaults
  /\ \A r \in Requests : held[r] # {} => pc[r] \in {"set", "commit"}
  /\ \A q, r \in Requests : q # r => held[q] \cap held[r] = {}
  /\ MetInv

Data ==
  /\ tariffs \subseteq Units \cup PriceEdits
  /\ pid \in [PriceEdits -> Units \cup PriceEdits \cup {None}]
  /\ writer \in [AllRows -> AllRows \cup RowEdits \cup {None}]
  /\ setBy \in [AllProviders -> AllProviders \cup SetDefaults \cup {None}]
  /\ known \subseteq AllProviders
  /\ seen \in [NewProviders \cup SetDefaults -> SUBSET AllProviders]

LEMMA TypeSplit == TypeOK /\ MetInv <=> Control /\ Data
BY DEF TypeOK, Control, Data

LEMMA Kinds ==
  /\ \A e \in PriceEdits :
       e \in Requests /\ e \notin CodeWrites \cup NewProviders \cup SetDefaults
  /\ \A w \in CodeWrites :
       w \in Requests /\ w \notin PriceEdits \cup NewProviders \cup SetDefaults /\ Row(w) \in AllRows
  /\ \A c \in NewProviders :
       c \in Requests /\ c \notin PriceEdits \cup CodeWrites \cup SetDefaults
  /\ \A s \in SetDefaults :
       s \in Requests /\ s \notin PriceEdits \cup CodeWrites \cup NewProviders
BY RequestsAssumption, CodesAssumption DEF Requests, CodeWrites, Row, AllRows

LEMMA Pair == \A x, y : {x, y} = {y, x}
OBVIOUS

-----------------------------------------------------------------------------
(***************************************************************************)
(* Transactions and locks                                                  *)
(***************************************************************************)
LEMMA BeginControl ==
  ASSUME Control, NEW r \in Requests,
         NEW to \in {"update", "look", "insert", "unset", "refused"}, Begin(r, to)
  PROVE  Control' /\ met \subseteq met' /\ held' = held /\ pc' = [pc EXCEPT ![r] = to]
<1>1. /\ pc[r] = "start" /\ pc' = [pc EXCEPT ![r] = to] /\ held' = held /\ faults' = faults
      /\ met' = met \cup {{r, q} : q \in {o \in Requests : Open(o)}}
  BY DEF Begin
<1>2. held[r] = {}
  BY <1>1 DEF Control, Open
<1>3. \A q \in Requests \ {r} : Open(q)' = Open(q)
  BY <1>1 DEF Open, Control
<1>4. MetInv'
  <2> SUFFICES ASSUME NEW p \in Requests, NEW q \in Requests, p # q, Open(p)', Open(q)'
               PROVE  {p, q} \in met'
    BY DEF MetInv
  <2>1. CASE p = r
    BY <1>1, <1>3, <2>1
  <2>2. CASE q = r
    <3>1. {r, p} \in met'
      BY <1>1, <1>3, <2>2
    <3> QED
      BY <2>2, <3>1, Pair
  <2>3. CASE p # r /\ q # r
    BY <1>1, <1>3, <2>3 DEF Control, MetInv
  <2> QED
    BY <2>1, <2>2, <2>3
<1>5. \A q \in Requests : held'[q] # {} => pc'[q] \in {"set", "commit"}
  BY <1>1, <1>2, <1>3 DEF Control
<1>6. met' \subseteq SUBSET Requests
  BY <1>1 DEF Control
<1> QED
  BY <1>1, <1>4, <1>5, <1>6 DEF Control

\* A step of an open transaction, or its end.
LEMMA MoveControl ==
  ASSUME Control, NEW r \in Requests, Open(r),
         NEW to \in {"write", "set", "commit", "done", "refused"},
         NEW H \in SUBSET (Units \cup PriceEdits \cup AllRows \cup AllProviders),
         pc' = [pc EXCEPT ![r] = to], held' = [held EXCEPT ![r] = H],
         met' = met, faults' \in 0..MaxFaults,
         H # {} => to \in {"set", "commit"},
         \A q \in Requests \ {r} : held[q] \cap H = {}
  PROVE  Control'
<1>1. \A q \in Requests : Open(q)' => Open(q)
  BY DEF Open, Control
<1>2. MetInv'
  BY <1>1 DEF Control, MetInv
<1>3. \A q \in Requests : held'[q] # {} => pc'[q] \in {"set", "commit"}
  BY DEF Control, Open
<1>4. \A p, q \in Requests : p # q => held'[p] \cap held'[q] = {}
  <2> SUFFICES ASSUME NEW p \in Requests, NEW q \in Requests, p # q
               PROVE  held'[p] \cap held'[q] = {}
    OBVIOUS
  <2>1. CASE p = r
    BY <2>1 DEF Control
  <2>2. CASE q = r
    BY <2>2 DEF Control
  <2>3. CASE p # r /\ q # r
    BY <2>3 DEF Control
  <2> QED
    BY <2>1, <2>2, <2>3
<1> QED
  BY <1>2, <1>3, <1>4 DEF Control

LEMMA LockControl ==
  ASSUME Control, NEW r \in Requests,
         NEW from \in {"update", "write", "unset", "set"}, NEW to \in {"set", "commit"},
         NEW H \in SUBSET (Units \cup PriceEdits \cup AllRows \cup AllProviders),
         Lock(r, H, from, to)
  PROVE  /\ Control' /\ met' = met /\ pc[r] = from /\ pc' = [pc EXCEPT ![r] = to]
         /\ held' = [held EXCEPT ![r] = @ \cup H]
<1>1. /\ pc[r] = from /\ pc' = [pc EXCEPT ![r] = to] /\ met' = met /\ faults' = faults
      /\ held' = [held EXCEPT ![r] = @ \cup H]
      /\ \A q \in Requests \ {r} : held[q] \cap H = {}
  BY DEF Lock
<1> DEFINE G == held[r] \cup H
<1>2. \A q \in Requests \ {r} : held[q] \cap G = {}
  BY <1>1 DEF Control
<1>3. G \in SUBSET (Units \cup PriceEdits \cup AllRows \cup AllProviders)
  BY DEF Control
<1>4. held' = [held EXCEPT ![r] = G]
  BY <1>1
<1>5. Open(r) /\ faults' \in 0..MaxFaults
  BY <1>1 DEF Open, Control
<1> HIDE DEF G
<1>6. Control'
  BY <1>1, <1>2, <1>3, <1>4, <1>5, MoveControl
<1> QED
  BY <1>1, <1>6

LEMMA EndControl ==
  ASSUME Control, NEW r \in Requests, Open(r), NEW how \in {"done", "refused"}, End(r, how)
  PROVE  /\ Control' /\ met' = met /\ pc' = [pc EXCEPT ![r] = how]
         /\ held' = [held EXCEPT ![r] = {}]
<1>1. /\ pc' = [pc EXCEPT ![r] = how] /\ held' = [held EXCEPT ![r] = {}]
      /\ met' = met /\ faults' = faults
  BY DEF End
<1>2. faults' \in 0..MaxFaults
  BY <1>1 DEF Control
<1>3. {} \in SUBSET (Units \cup PriceEdits \cup AllRows \cup AllProviders)
  OBVIOUS
<1>4. \A q \in Requests \ {r} : held[q] \cap {} = {}
  OBVIOUS
<1>5. Control'
  <2> DEFINE H == {}
  <2>1. /\ H \in SUBSET (Units \cup PriceEdits \cup AllRows \cup AllProviders)
        /\ \A q \in Requests \ {r} : held[q] \cap H = {}
        /\ held' = [held EXCEPT ![r] = H]
        /\ H # {} => how \in {"set", "commit"}
    BY <1>1, <1>3, <1>4
  <2> HIDE DEF H
  <2> QED
    BY <1>1, <1>2, <2>1, MoveControl
<1> QED
  BY <1>1, <1>5

\* A step of the request r leaves the other requests alone.
Alone(r) ==
  /\ met \subseteq met'
  /\ \A q \in Requests \ {r} : pc'[q] = pc[q] /\ held'[q] = held[q]

LEMMA AloneControl ==
  ASSUME Control, NEW r \in Requests, met \subseteq met', NEW to, NEW H,
         pc' = [pc EXCEPT ![r] = to], held' = [held EXCEPT ![r] = H]
  PROVE  Alone(r) /\ pc'[r] = to /\ held'[r] = H
BY DEF Control, Alone

LEMMA FailControl ==
  ASSUME Control, NEW r \in Requests, Fail(r)
  PROVE  Control' /\ Alone(r) /\ Open(r) /\ pc'[r] = "refused"
<1>1. /\ Open(r) /\ pc' = [pc EXCEPT ![r] = "refused"] /\ held' = [held EXCEPT ![r] = {}]
      /\ met' = met /\ faults < MaxFaults /\ faults' = faults + 1
  BY DEF Fail
<1>2. faults' \in 0..MaxFaults
  BY <1>1, RequestsAssumption DEF Control
<1> DEFINE H == {}
<1>3. /\ H \in SUBSET (Units \cup PriceEdits \cup AllRows \cup AllProviders)
      /\ \A q \in Requests \ {r} : held[q] \cap H = {}
      /\ held' = [held EXCEPT ![r] = H]
      /\ H # {} => "refused" \in {"set", "commit"}
  BY <1>1
<1> HIDE DEF H
<1>4. Control'
  BY <1>1, <1>2, <1>3, MoveControl
<1> QED
  BY <1>1, <1>4 DEF Control, Alone

-----------------------------------------------------------------------------
(***************************************************************************)
(* Tariffs                                                                 *)
(***************************************************************************)
\* Requests about the other tables do not disturb the tariffs, and neither
\* does an edit that is refused.
LEMMA PriceFrame ==
  ASSUME PriceInv, UNCHANGED prices,
         \A e \in PriceEdits : (pc'[e] = pc[e] /\ held'[e] = held[e])
                              \/ (pc'[e] = "refused" /\ pc[e] # "done")
  PROVE  PriceInv'
<1>1. tariffs' = tariffs /\ pid' = pid
  BY DEF prices
<1>2. \A e \in PriceEdits : (pc'[e] = "done") <=> (pc[e] = "done")
  OBVIOUS
<1>3. \A e \in PriceEdits :
        /\ pc'[e] \in {"update", "commit", "done"} => pc[e] \in {"update", "commit", "done"}
        /\ pc'[e] = "commit" => pc[e] = "commit" /\ held'[e] = held[e]
  OBVIOUS
<1> QED
  BY <1>1, <1>2, <1>3 DEF PriceInv, UnitOfRow

LEMMA PriceStep ==
  ASSUME Control, Data, PriceInv, NEW e \in PriceEdits, EditPrice(e)
  PROVE  Control' /\ Data' /\ PriceInv' /\ Alone(e) /\ UNCHANGED <<writer, mails>>
<1>e. e \in Requests
  BY Kinds
<1> USE <1>e
<1>1. CASE ListTariff(e)
  <2>1. Begin(e, "update") /\ UNCHANGED <<tariffs, writer, mails>> /\ pc[e] = "start"
    BY <1>1 DEF ListTariff, Begin
  <2>2. Control' /\ met \subseteq met' /\ held' = held /\ pc' = [pc EXCEPT ![e] = "update"]
    BY <2>1, BeginControl
  <2>3. PICK t \in InForce(UnitOf[e]) : pid' = [pid EXCEPT ![e] = t]
    BY <1>1 DEF ListTariff
  <2>4. t \in tariffs /\ UnitOfRow(t) = UnitOf[e] /\ t \in Units \cup PriceEdits
    BY <2>3 DEF InForce, Data
  <2>5. /\ pid'[e] = t /\ pc'[e] = "update"
        /\ \A f \in PriceEdits \ {e} : pid'[f] = pid[f] /\ pc'[f] = pc[f] /\ held'[f] = held[f]
    BY <2>2, <2>3, Kinds DEF Control, Data
  <2>6. Data'
    BY <2>1, <2>3, <2>4 DEF Data, mails
  <2>7. \A f \in PriceEdits : pc'[f] = "done" <=> pc[f] = "done"
    BY <2>1, <2>5
  <2>8. PriceInv'
    BY <2>1, <2>4, <2>5, <2>7 DEF PriceInv, UnitOfRow
  <2> QED
    BY <2>1, <2>2, <2>6, <2>8 DEF Alone, Control
<1>2. CASE UpdateTariff(e) /\ pid[e] \in tariffs
  <2>1. /\ Lock(e, {pid[e]}, "update", "commit")
        /\ UNCHANGED <<tariffs, pid, writer, mails>>
    BY <1>2 DEF UpdateTariff, Deactivates
  <2>2. {pid[e]} \in SUBSET (Units \cup PriceEdits \cup AllRows \cup AllProviders)
    BY <1>2 DEF Data
  <2> DEFINE H == {pid[e]}
  <2>3. Lock(e, H, "update", "commit") /\ pid[e] \in H
        /\ H \in SUBSET (Units \cup PriceEdits \cup AllRows \cup AllProviders)
    BY <2>1, <2>2
  <2> HIDE DEF H
  <2>4. /\ Control' /\ met' = met /\ pc[e] = "update" /\ pc' = [pc EXCEPT ![e] = "commit"]
        /\ held' = [held EXCEPT ![e] = @ \cup H]
    BY <2>3, LockControl
  <2>5. /\ pc'[e] = "commit" /\ pid[e] \in held'[e]
        /\ \A f \in PriceEdits \ {e} : pc'[f] = pc[f] /\ held'[f] = held[f]
    BY <2>3, <2>4, Kinds DEF Control
  <2>6. PriceInv'
    <3>1. \A f \in PriceEdits : pc'[f] = "done" <=> pc[f] = "done"
      BY <2>4, <2>5
    <3> QED
      BY <1>2, <2>1, <2>4, <2>5, <3>1 DEF PriceInv, UnitOfRow
  <2> QED
    BY <2>1, <2>4, <2>6 DEF Alone, Control, Data, mails
<1>3. CASE UpdateTariff(e) /\ pid[e] \notin tariffs
  <2>1. pc[e] = "update" /\ End(e, "refused") /\ UNCHANGED <<tariffs, pid, writer, mails>>
    BY <1>3 DEF UpdateTariff
  <2>2. /\ Control' /\ met' = met /\ pc' = [pc EXCEPT ![e] = "refused"]
        /\ held' = [held EXCEPT ![e] = {}]
    BY <2>1, EndControl DEF Open
  <2>3. Alone(e) /\ pc'[e] = "refused"
    BY <2>2, AloneControl
  <2>4. PriceInv'
    <3>1. \A f \in PriceEdits : (pc'[f] = pc[f] /\ held'[f] = held[f])
                              \/ (pc'[f] = "refused" /\ pc[f] # "done")
      BY <2>1, <2>3, Kinds DEF Alone
    <3>2. UNCHANGED prices
      BY <2>1 DEF prices
    <3> QED
      BY <3>1, <3>2, PriceFrame
  <2> QED
    BY <2>1, <2>2, <2>3, <2>4 DEF Data, mails
<1>4. CASE InsertTariff(e)
  <2>1. pc[e] = "commit" /\ UNCHANGED <<pid, writer, mails>> /\ Open(e)
    BY <1>4 DEF InsertTariff, Open
  <2> DEFINE others == tariffs \ {pid[e]}
  <2>2. CASE End(e, "refused") /\ UNCHANGED tariffs
    <3>2. /\ Control' /\ met' = met /\ pc' = [pc EXCEPT ![e] = "refused"]
          /\ held' = [held EXCEPT ![e] = {}]
      BY <2>1, <2>2, EndControl
    <3>3. Alone(e) /\ pc'[e] = "refused"
      BY <3>2, AloneControl
    <3>4. PriceInv'
      <4>1. \A f \in PriceEdits : (pc'[f] = pc[f] /\ held'[f] = held[f])
                                \/ (pc'[f] = "refused" /\ pc[f] # "done")
        BY <2>1, <3>3, Kinds DEF Alone
      <4>2. UNCHANGED prices
        BY <2>1, <2>2 DEF prices
      <4> QED
        BY <4>1, <4>2, PriceFrame
    <3> QED
      BY <2>1, <2>2, <3>2, <3>3, <3>4 DEF Data, mails
  <2>3. CASE /\ End(e, "done") /\ tariffs' = others \cup {e}
             /\ ~ \E t \in others : UnitOfRow(t) = UnitOf[e]
    <3>2. /\ Control' /\ met' = met /\ pc' = [pc EXCEPT ![e] = "done"]
          /\ held' = [held EXCEPT ![e] = {}]
      BY <2>1, <2>3, EndControl
    <3>3. Alone(e) /\ pc'[e] = "done"
      BY <3>2, AloneControl
    <3>4. \A f \in PriceEdits \ {e} : pc'[f] = pc[f] /\ held'[f] = held[f]
      BY <3>3, Kinds DEF Alone
    <3>5. /\ pid[e] \in tariffs /\ pid[e] \in held[e] /\ UnitOfRow(pid[e]) = UnitOf[e]
          /\ pid[e] # e /\ UnitOfRow(e) = UnitOf[e]
      BY <2>1, TariffsAssumption DEF PriceInv, UnitOfRow
    <3>6. \A f \in PriceEdits : pc[f] = "done" => pid[f] # pid[e] /\ pid[f] # e
      BY <2>1, <3>5 DEF PriceInv
    <3>7. \A f \in PriceEdits \ {e} : pc[f] = "commit" => pid[f] # pid[e]
      BY <3>5, Kinds DEF PriceInv, Control
    <3>8. \A u \in Units : \E t \in tariffs' : UnitOfRow(t) = u
      BY <2>3, <3>5 DEF PriceInv
    <3>9. \A t, v \in tariffs' : UnitOfRow(t) = UnitOfRow(v) => t = v
      BY <2>3, <3>5 DEF PriceInv
    <3>10. \A t \in tariffs' : t \in PriceEdits => pc'[t] = "done"
      BY <2>3, <3>3, <3>4 DEF PriceInv
    <3>11. \A f \in PriceEdits :
       /\ pc'[f] \in {"update", "commit", "done"} =>
            /\ pid[f] \in Units \cup PriceEdits /\ UnitOfRow(pid[f]) = UnitOf[f]
            /\ pid[f] \in PriceEdits => pc'[pid[f]] = "done"
       /\ pc'[f] = "commit" => pid[f] \in tariffs' /\ pid[f] \in held'[f]
       /\ pc'[f] = "done" => pid[f] \notin tariffs'
      BY <2>1, <2>3, <3>3, <3>4, <3>5, <3>6, <3>7 DEF PriceInv
    <3>12. \A f, g \in PriceEdits :
             f # g /\ pc'[f] = "done" /\ pc'[g] = "done" => pid[f] # pid[g]
      BY <3>3, <3>4, <3>6 DEF PriceInv
    <3>13. PriceInv'
      BY <2>1, <3>8, <3>9, <3>10, <3>11, <3>12 DEF PriceInv, UnitOfRow
    <3> QED
      BY <2>1, <2>3, <3>2, <3>3, <3>13 DEF Data, mails
  <2> QED
    BY <1>4, <2>2, <2>3 DEF InsertTariff
<1> QED
  BY <1>1, <1>2, <1>3, <1>4 DEF EditPrice
-----------------------------------------------------------------------------
(***************************************************************************)
(* Codes                                                                   *)
(***************************************************************************)
LEMMA CodeFrame ==
  ASSUME CodeInv, writer' = writer, met \subseteq met',
         \A w \in CodeWrites : (pc'[w] = pc[w] /\ held'[w] = held[w])
                              \/ pc'[w] \in {"update", "insert", "unset", "refused"}
  PROVE  CodeInv'
<1>1. CodesUniqueUnlessOverlapping'
  BY DEF CodeInv, CodesUniqueUnlessOverlapping
<1>2. \A w \in CodeWrites : pc'[w] \in {"look", "write", "commit"} =>
        pc'[w] = pc[w] /\ held'[w] = held[w]
  OBVIOUS
<1>3. \A w \in CodeWrites, a \in AllRows : Clashes(w, a)' = Clashes(w, a)
  BY DEF Clashes
<1> QED
  BY <1>1, <1>2, <1>3 DEF CodeInv

\* The unique index: two open requests that have written rows of one table
\* have not written one code.
LEMMA CodeStep ==
  ASSUME Control, Data, CodeInv, NEW w \in CodeWrites, SaveCode(w)
  PROVE  Control' /\ Data' /\ CodeInv' /\ Alone(w) /\ UNCHANGED <<prices, mails>>
<1>w. w \in Requests /\ Row(w) \in AllRows
  BY Kinds
<1> USE <1>w
<1>1. CASE LookDistributors(w)
  <2>1. PICK to \in {"look", "refused"} :
          /\ Begin(w, to)
          /\ Taken(w, "distributors") => to = "refused"
    BY <1>1 DEF LookDistributors
  <2>2. UNCHANGED <<prices, writer, mails>> /\ pc[w] = "start"
    BY <1>1, <2>1 DEF LookDistributors, Begin
  <2>3. Control' /\ met \subseteq met' /\ held' = held /\ pc' = [pc EXCEPT ![w] = to]
    BY <2>1, BeginControl
  <2>4. /\ pc'[w] = to
        /\ \A v \in CodeWrites \ {w} : pc'[v] = pc[v] /\ held'[v] = held[v]
    BY <2>3, Kinds DEF Control
  <2>5. CodesUniqueUnlessOverlapping'
    BY <2>2, <2>3 DEF CodeInv, CodesUniqueUnlessOverlapping
  <2>6. \A v \in CodeWrites, a \in AllRows : Clashes(v, a)' = Clashes(v, a)
    BY <2>2 DEF Clashes
  <2>7. to = "look" => \A a \in AllRows : Clashes(w, a) => TableOf[a] # "distributors"
    BY <2>1 DEF Taken, Clashes
  <2>8. CodeInv'
    BY <2>2, <2>3, <2>4, <2>5, <2>6, <2>7 DEF CodeInv
  <2> QED
    BY <2>2, <2>3, <2>8 DEF Alone, Control, Data, prices, mails
<1>2. CASE LookCodes(w)
  <2>1. PICK to \in {"write", "refused"} :
          /\ pc' = [pc EXCEPT ![w] = to]
          /\ Taken(w, "distributor_codes") => to = "refused"
    BY <1>2 DEF LookCodes, TakenBySeller
  <2>2. pc[w] = "look" /\ UNCHANGED <<prices, writer, mails, held, met, faults>>
    BY <1>2 DEF LookCodes
  <2>3. Control' /\ Alone(w)
    <3> DEFINE H == {}
    <3>1. /\ H \in SUBSET (Units \cup PriceEdits \cup AllRows \cup AllProviders)
          /\ \A q \in Requests \ {w} : held[q] \cap H = {}
          /\ held' = [held EXCEPT ![w] = H] /\ (H # {} => to \in {"set", "commit"})
      BY <2>2 DEF Control
    <3>2. Open(w) /\ met' = met /\ faults' \in 0..MaxFaults
      BY <2>2 DEF Control, Open
    <3> HIDE DEF H
    <3>3. Control'
      BY <2>1, <3>1, <3>2, MoveControl
    <3> QED
      BY <2>1, <3>1, <3>2, <3>3, AloneControl
  <2>4. /\ pc'[w] = to
        /\ \A v \in CodeWrites \ {w} : pc'[v] = pc[v] /\ held'[v] = held[v]
    BY <2>1, <2>2, Kinds DEF Control
  <2>5. CodesUniqueUnlessOverlapping'
    BY <2>2 DEF CodeInv, CodesUniqueUnlessOverlapping
  <2>6. \A v \in CodeWrites, a \in AllRows : Clashes(v, a)' = Clashes(v, a)
    BY <2>2 DEF Clashes
  <2>7. to = "write" => \A a \in AllRows : Clashes(w, a) => TableOf[a] # "distributor_codes"
    BY <2>1 DEF Taken, Clashes
  <2>8. CodeInv'
    BY <2>2, <2>4, <2>5, <2>6, <2>7, CodesAssumption DEF CodeInv
  <2> QED
    BY <2>2, <2>3, <2>8 DEF Data, prices, mails
<1>3. CASE WriteCode(w) /\ Taken(w, Table(w))
  <2>1. pc[w] = "write" /\ End(w, "refused") /\ UNCHANGED <<prices, writer, mails>>
    BY <1>3 DEF WriteCode
  <2>2. /\ Control' /\ met' = met /\ pc' = [pc EXCEPT ![w] = "refused"]
        /\ held' = [held EXCEPT ![w] = {}]
    BY <2>1, EndControl DEF Open
  <2>3. Alone(w) /\ pc'[w] = "refused"
    BY <2>2, AloneControl
  <2>4. \A v \in CodeWrites : (pc'[v] = pc[v] /\ held'[v] = held[v])
                              \/ pc'[v] \in {"update", "insert", "unset", "refused"}
    BY <2>3, Kinds DEF Alone
  <2>5. CodeInv'
    BY <2>1, <2>2, <2>4, CodeFrame
  <2> QED
    BY <2>1, <2>2, <2>3, <2>5 DEF Data, prices, mails
<1>4. CASE WriteCode(w) /\ ~Taken(w, Table(w))
  <2>1. /\ Lock(w, {Row(w)}, "write", "commit") /\ ~\E v \in CodeWrites : CodeHeldBy(w, v)
        /\ UNCHANGED <<prices, writer, mails>>
    BY <1>4 DEF WriteCode
  <2> DEFINE H == {Row(w)}
  <2>2. /\ Lock(w, H, "write", "commit") /\ H # {}
        /\ H \in SUBSET (Units \cup PriceEdits \cup AllRows \cup AllProviders)
    BY <2>1
  <2> HIDE DEF H
  <2>3. /\ Control' /\ met' = met /\ pc[w] = "write" /\ pc' = [pc EXCEPT ![w] = "commit"]
        /\ held' = [held EXCEPT ![w] = @ \cup H]
    BY <2>2, LockControl
  <2>4. /\ pc'[w] = "commit" /\ held'[w] # {}
        /\ \A v \in CodeWrites \ {w} : pc'[v] = pc[v] /\ held'[v] = held[v]
    BY <2>2, <2>3, Kinds DEF Control
  <2>5. CodesUniqueUnlessOverlapping'
    BY <2>1, <2>3 DEF CodeInv, CodesUniqueUnlessOverlapping
  <2>6. \A v \in CodeWrites, a \in AllRows : Clashes(v, a)' = Clashes(v, a)
    BY <2>1 DEF Clashes
  <2>7. \A a \in AllRows : Clashes(w, a) => TableOf[a] # Table(w)
    BY <1>4 DEF Taken, Clashes
  <2>8. \A v \in CodeWrites \ {w} :
          pc[v] = "commit" /\ Table(v) = Table(w) => CodeOf[v] # CodeOf[w]
    BY <2>1 DEF CodeHeldBy, CodeInv
  <2>9. \A v \in CodeWrites, a \in AllRows : Clashes(v, a)' =>
       /\ pc'[v] \in {"look", "write", "commit"} /\ TableOf[a] = "distributors" =>
            {v, writer[a]} \in met
       /\ pc'[v] \in {"write", "commit"} => {v, writer[a]} \in met
       /\ pc'[v] = "commit" => TableOf[a] # Table(v)
    BY <2>3, <2>4, <2>6, <2>7 DEF CodeInv
  <2>10. CodeInv'
    BY <2>1, <2>3, <2>4, <2>5, <2>8, <2>9 DEF CodeInv
  <2> QED
    BY <2>1, <2>3, <2>10, AloneControl DEF Data, prices, mails
<1>5. CASE CommitCode(w)
  <2>1. /\ pc[w] = "commit" /\ End(w, "done") /\ Open(w)
        /\ writer' = [writer EXCEPT ![Row(w)] = w] /\ UNCHANGED <<prices, mails>>
    BY <1>5 DEF CommitCode, Open
  <2>2. /\ Control' /\ met' = met /\ pc' = [pc EXCEPT ![w] = "done"]
        /\ held' = [held EXCEPT ![w] = {}]
    BY <2>1, EndControl
  <2>3. Alone(w) /\ pc'[w] = "done"
    BY <2>2, AloneControl
  <2>4. /\ writer'[Row(w)] = w /\ w # None
        /\ \A a \in AllRows \ {Row(w)} : writer'[a] = writer[a]
    BY <2>1, RequestsAssumption DEF Data
  <2>5. Data'
    BY <2>1 DEF Data, mails, prices, CodeWrites, AllRows
  <2>6. \A a \in AllRows : Clashes(w, a) => TableOf[a] # Table(w) /\ {w, writer[a]} \in met
    BY <2>1 DEF CodeInv
  <2>7. CodesUniqueUnlessOverlapping'
    <3> SUFFICES ASSUME NEW a \in AllRows, NEW b \in AllRows, a # b, writer'[a] # None,
                        writer'[b] # None, CodeOf[writer'[a]] = CodeOf[writer'[b]]
                 PROVE  TableOf[a] # TableOf[b] /\ {writer'[a], writer'[b]} \in met'
      BY DEF CodesUniqueUnlessOverlapping
    <3>1. CASE a = Row(w)
      BY <2>2, <2>4, <2>6, <3>1 DEF Clashes, Table
    <3>2. CASE b = Row(w)
      <4>1. TableOf[a] # TableOf[b] /\ {writer'[b], writer'[a]} \in met'
        BY <2>2, <2>4, <2>6, <3>2 DEF Clashes, Table
      <4> QED
        BY <4>1, Pair
    <3>3. CASE a # Row(w) /\ b # Row(w)
      BY <2>2, <2>4, <3>3 DEF CodeInv, CodesUniqueUnlessOverlapping
    <3> QED
      BY <3>1, <3>2, <3>3
  <2>8. ASSUME NEW v \in CodeWrites, NEW a \in AllRows, Clashes(v, a)',
               pc'[v] \in {"look", "write", "commit"}
        PROVE  /\ TableOf[a] = "distributors" => {v, writer'[a]} \in met'
               /\ pc'[v] \in {"write", "commit"} => {v, writer'[a]} \in met'
               /\ pc'[v] = "commit" => TableOf[a] # Table(v)
    <3>1. v # w /\ pc'[v] = pc[v] /\ v \in Requests
      BY <2>3, <2>8, Kinds DEF Alone
    <3>2. CASE a = Row(w)
      <4>1. Open(v)
        BY <2>8, <3>1 DEF Open
      <4>2. {v, w} \in met
        BY <2>1, <3>1, <4>1 DEF Control, MetInv
      <4>3. pc[v] = "commit" => TableOf[a] # Table(v)
        BY <2>1, <2>4, <2>8, <3>1, <3>2 DEF CodeInv, Clashes, Table
      <4> QED
        BY <2>2, <2>4, <3>1, <3>2, <4>2, <4>3
    <3>3. CASE a # Row(w)
      <4>1. Clashes(v, a) /\ writer'[a] = writer[a]
        BY <2>4, <2>8, <3>3 DEF Clashes
      <4> QED
        BY <2>2, <2>8, <3>1, <4>1 DEF CodeInv
    <3> QED
      BY <3>2, <3>3
  <2>9. \A v \in CodeWrites : pc'[v] = "commit" => v # w /\ pc[v] = "commit" /\ held'[v] = held[v]
    BY <2>3, Kinds DEF Alone
  <2>10. CodeInv'
    <3>1. \A v \in CodeWrites, a \in AllRows : Clashes(v, a)' =>
       /\ pc'[v] \in {"look", "write", "commit"} /\ TableOf[a] = "distributors" =>
            {v, writer'[a]} \in met'
       /\ pc'[v] \in {"write", "commit"} => {v, writer'[a]} \in met'
       /\ pc'[v] = "commit" => TableOf[a] # Table(v)
      BY <2>8
    <3> QED
      BY <2>7, <2>9, <3>1 DEF CodeInv
  <2> QED
    BY <2>1, <2>2, <2>3, <2>5, <2>10
<1> QED
  BY <1>1, <1>2, <1>3, <1>4, <1>5 DEF SaveCode
-----------------------------------------------------------------------------
(***************************************************************************)
(* Mail providers                                                          *)
(***************************************************************************)
MailRequests == NewProviders \cup SetDefaults

LEMMA MailFrame ==
  ASSUME MailInv, UNCHANGED mails, met \subseteq met',
         \A r \in MailRequests :
           \/ pc'[r] = pc[r]
           \/ pc'[r] = "refused" /\ pc[r] # "done"
           \/ {pc[r], pc'[r]} \subseteq {"unset", "set", "commit"} /\ r \in SetDefaults
  PROVE  MailInv'
<1>1. setBy' = setBy /\ known' = known /\ seen' = seen
  BY DEF mails
<1>2. OneDefaultUnlessOverlapping'
  BY <1>1 DEF MailInv, OneDefaultUnlessOverlapping, InScope
<1>3. \A c \in NewProviders : /\ pc'[c] = "insert" => pc[c] = "insert"
                              /\ pc[c] = "done" => pc'[c] = "done"
  BY DEF MailRequests
<1>4. \A s \in SetDefaults : pc'[s] \in {"unset", "set", "commit"} =>
                              pc[s] \in {"unset", "set", "commit"}
  BY DEF MailRequests
<1>5. \A r, p, q : Unseen(r, p, q)' = Unseen(r, p, q)
  BY <1>1 DEF Unseen
<1>6. \A p : InScope(p)' = InScope(p)
  BY <1>1 DEF InScope
<1> QED
  BY <1>1, <1>2, <1>3, <1>4, <1>5, <1>6 DEF MailInv

LEMMA CreateStep ==
  ASSUME Control, Data, MailInv, NEW c \in NewProviders, SaveProvider(c)
  PROVE  Control' /\ Data' /\ MailInv' /\ Alone(c) /\ UNCHANGED <<prices, writer>>
<1>c. c \in Requests /\ c \notin SetDefaults /\ c \in AllProviders
  BY Kinds DEF AllProviders
<1> USE <1>c
<1>1. CASE LookFirst(c)
  <2>1. /\ Begin(c, "insert") /\ pc[c] = "start" /\ UNCHANGED <<prices, writer, setBy, known>>
        /\ seen' = [seen EXCEPT ![c] = IF InScope(c) = {} THEN {c} ELSE {}]
    BY <1>1 DEF LookFirst, Begin
  <2>2. Control' /\ met \subseteq met' /\ held' = held /\ pc' = [pc EXCEPT ![c] = "insert"]
    BY <2>1, BeginControl
  <2>3. Alone(c) /\ pc'[c] = "insert"
    BY <2>2 DEF Alone, Control
  <2>4. /\ seen'[c] = IF InScope(c) = {} THEN {c} ELSE {}
        /\ \A r \in MailRequests \ {c} : seen'[r] = seen[r] /\ pc'[r] = pc[r]
    BY <2>1, <2>3, Kinds DEF Data, MailRequests, Alone
  <2>5. Data'
    BY <2>1, <2>4 DEF Data, MailRequests, prices
  <2>6. OneDefaultUnlessOverlapping'
    BY <2>1, <2>2 DEF MailInv, OneDefaultUnlessOverlapping, InScope
  <2>7. \A r \in MailRequests \ {c} : \A p, q : Unseen(r, p, q)' = Unseen(r, p, q)
    BY <2>1, <2>4 DEF Unseen
  <2>8. \A p : InScope(p)' = InScope(p)
    BY <2>1 DEF InScope
  <2>9. \A d \in NewProviders : pc'[d] = "insert" =>
       /\ seen'[d] \subseteq {d}
       /\ d \notin seen'[d] => InScope(d)' # {}
       /\ d \in seen'[d] => \A q \in known : Unseen(d, d, q)' => {d, setBy[q]} \in met'
    <3>1. CASE InScope(c) = {}
      BY <2>2, <2>4, <2>7, <2>8, <3>1 DEF MailInv, Unseen, InScope, MailRequests
    <3>2. CASE InScope(c) # {}
      BY <2>2, <2>4, <2>7, <2>8, <3>2 DEF MailInv, MailRequests
    <3> QED
      BY <3>1, <3>2
  <2>10. \A s \in SetDefaults : s # c /\ pc'[s] = pc[s] /\ seen'[s] = seen[s]
    BY <2>4 DEF MailRequests
  <2>11. MailInv'
    BY <2>1, <2>2, <2>4, <2>6, <2>7, <2>9, <2>10 DEF MailInv, MailRequests
  <2> QED
    BY <2>1, <2>2, <2>3, <2>5, <2>11
<1>2. CASE InsertProvider(c)
  <2>1. /\ pc[c] = "insert" /\ End(c, "done") /\ Open(c) /\ known' = known \cup {c}
        /\ setBy' = [setBy EXCEPT ![c] = IF c \in seen[c] THEN c ELSE None]
        /\ UNCHANGED <<prices, writer, seen>>
    BY <1>2 DEF InsertProvider, Open
  <2>2. /\ Control' /\ met' = met /\ pc' = [pc EXCEPT ![c] = "done"]
        /\ held' = [held EXCEPT ![c] = {}]
    BY <2>1, EndControl
  <2>3. Alone(c) /\ pc'[c] = "done"
    BY <2>2, AloneControl
  <2>4. /\ setBy'[c] = IF c \in seen[c] THEN c ELSE None
        /\ \A q \in AllProviders \ {c} : setBy'[q] = setBy[q]
        /\ known \subseteq AllProviders /\ c \notin known /\ c # None
    BY <2>1, RequestsAssumption DEF Data, MailInv
  <2>5. Data'
    BY <2>1 DEF Data, prices, AllProviders
  <2>6. \A p \in known' : \E q \in known' : ScopeOf[q] = ScopeOf[p] /\ setBy'[q] # None
    <3>1. \A p \in known : \E q \in known' : ScopeOf[q] = ScopeOf[p] /\ setBy'[q] # None
      BY <2>1, <2>4 DEF MailInv, OneDefaultUnlessOverlapping, InScope
    <3>2. CASE c \in seen[c]
      BY <2>1, <2>4, <3>1, <3>2
    <3>3. CASE c \notin seen[c]
      <4>1. PICK p \in known : ScopeOf[p] = ScopeOf[c]
        BY <2>1, <3>3 DEF MailInv, InScope
      <4> QED
        BY <2>1, <3>1, <4>1
    <3> QED
      BY <3>2, <3>3
  <2>7. \A q \in known : ScopeOf[q] = ScopeOf[c] /\ setBy[q] # None /\ c \in seen[c] =>
          {c, setBy[q]} \in met
    BY <2>1, <2>4 DEF MailInv, Unseen
  <2>8. \A p, q \in known' :
          p # q /\ ScopeOf[p] = ScopeOf[q] /\ setBy'[p] # None /\ setBy'[q] # None =>
            {setBy'[p], setBy'[q]} \in met'
    <3> SUFFICES ASSUME NEW p \in known', NEW q \in known', p # q, ScopeOf[p] = ScopeOf[q],
                        setBy'[p] # None, setBy'[q] # None
                 PROVE  {setBy'[p], setBy'[q]} \in met
      BY <2>2
    <3>1. CASE p = c
      BY <2>1, <2>4, <2>7, <3>1
    <3>2. CASE q = c
      <4>1. {setBy'[q], setBy'[p]} \in met
        BY <2>1, <2>4, <2>7, <3>2
      <4> QED
        BY <4>1, Pair
    <3>3. CASE p # c /\ q # c
      BY <2>1, <2>4, <3>3 DEF MailInv, OneDefaultUnlessOverlapping
    <3> QED
      BY <3>1, <3>2, <3>3
  <2>9. OneDefaultUnlessOverlapping'
    BY <2>6, <2>8 DEF OneDefaultUnlessOverlapping, InScope
  <2>10. \A r \in MailRequests \ {c} : pc'[r] = pc[r] /\ r \in Requests
    BY <2>3, Kinds DEF Alone, MailRequests
  <2>11. \A r \in MailRequests \ {c} : Open(r) => {r, c} \in met
    BY <2>1, <2>10 DEF Control, MetInv
  <2>12. \A r \in MailRequests \ {c}, p \in AllProviders, q \in known' :
           Unseen(r, p, q)' => \/ Unseen(r, p, q) /\ q \in known /\ setBy'[q] = setBy[q]
                               \/ q = c /\ setBy'[q] = c
    BY <2>1, <2>4 DEF Unseen
  <2>13. \A d \in NewProviders : pc'[d] = "insert" =>
       /\ seen[d] \subseteq {d}
       /\ d \notin seen[d] => InScope(d)' # {}
       /\ d \in seen[d] => \A q \in known' : Unseen(d, d, q)' => {d, setBy'[q]} \in met
    <3> SUFFICES ASSUME NEW d \in NewProviders, pc'[d] = "insert"
                 PROVE  /\ seen[d] \subseteq {d}
                        /\ d \notin seen[d] => InScope(d)' # {}
                        /\ d \in seen[d] =>
                             \A q \in known' : Unseen(d, d, q)' => {d, setBy'[q]} \in met
      OBVIOUS
    <3>1. d # c /\ d \in MailRequests \ {c} /\ pc[d] = "insert" /\ Open(d) /\ d \in AllProviders
      BY <2>3, <2>10 DEF MailRequests, Open, AllProviders
    <3> QED
      BY <2>1, <2>11, <2>12, <3>1 DEF MailInv, InScope
  <2>14. \A s \in SetDefaults : pc'[s] \in {"unset", "set", "commit"} =>
       /\ seen[s] \subseteq {q \in AllProviders : ScopeOf[q] = ScopeOf[TargetOf[s]]}
       /\ \A q \in known' : Unseen(s, TargetOf[s], q)' => {s, setBy'[q]} \in met
    <3> SUFFICES ASSUME NEW s \in SetDefaults, pc'[s] \in {"unset", "set", "commit"}
                 PROVE  /\ seen[s] \subseteq {q \in AllProviders : ScopeOf[q] = ScopeOf[TargetOf[s]]}
                        /\ \A q \in known' : Unseen(s, TargetOf[s], q)' => {s, setBy'[q]} \in met
      OBVIOUS
    <3>1. s \in MailRequests \ {c} /\ pc[s] = pc'[s] /\ Open(s)
      BY <2>10 DEF MailRequests, Open
    <3>2. TargetOf[s] \in AllProviders
      BY ProvidersAssumption DEF AllProviders
    <3> QED
      BY <2>11, <2>12, <3>1, <3>2 DEF MailInv
  <2>15. Providers \subseteq known' /\ \A d \in NewProviders : d \in known' => pc'[d] = "done"
    BY <2>1, <2>3, <2>10 DEF MailInv, MailRequests
  <2>16. MailInv'
    BY <2>1, <2>2, <2>9, <2>13, <2>14, <2>15 DEF MailInv
  <2> QED
    BY <2>1, <2>2, <2>3, <2>5, <2>16
<1> QED
  BY <1>1, <1>2 DEF SaveProvider

\* The new default of a scope: what the first UPDATE did not see, requests
\* that overlap have made.
LEMMA CommitDefaultMail ==
  ASSUME Control, Data, MailInv, NEW s \in SetDefaults, CommitDefault(s), Alone(s),
         pc'[s] = "done", met' = met
  PROVE  Data' /\ MailInv'
<1> DEFINE T == TargetOf[s]
<1>0. s \in Requests /\ s \notin NewProviders /\ T \in Providers /\ s # None
  BY Kinds, ProvidersAssumption, RequestsAssumption
<1>1. /\ pc[s] = "commit" /\ UNCHANGED <<prices, writer, known, seen>>
      /\ setBy' = [p \in AllProviders |->
                     IF p = T THEN s ELSE IF p \in seen[s] THEN None ELSE setBy[p]]
  BY DEF CommitDefault, Cleared
<1>2. /\ setBy'[T] = s /\ T \in known /\ known \subseteq AllProviders
      /\ \A p \in AllProviders \ {T} : setBy'[p] = IF p \in seen[s] THEN None ELSE setBy[p]
  BY <1>0, <1>1 DEF Data, MailInv, AllProviders
<1>3. Data'
  BY <1>1 DEF Data, prices
<1>4. \A q \in known : /\ ScopeOf[q] = ScopeOf[T] /\ q \notin seen[s] /\ setBy[q] # None =>
                             {s, setBy[q]} \in met
                       /\ q \in seen[s] => ScopeOf[q] = ScopeOf[T]
  BY <1>1 DEF MailInv, Unseen
<1>5. \A p \in known : \E q \in known : ScopeOf[q] = ScopeOf[p] /\ setBy'[q] # None
  <2> SUFFICES ASSUME NEW p \in known
               PROVE  \E q \in known : ScopeOf[q] = ScopeOf[p] /\ setBy'[q] # None
    OBVIOUS
  <2>1. CASE ScopeOf[p] = ScopeOf[T]
    BY <1>0, <1>2, <2>1
  <2>2. CASE ScopeOf[p] # ScopeOf[T]
    <3>1. PICK q \in known : ScopeOf[q] = ScopeOf[p] /\ setBy[q] # None
      BY DEF MailInv, OneDefaultUnlessOverlapping, InScope
    <3>2. q # T /\ q \notin seen[s]
      BY <1>4, <2>2, <3>1
    <3> QED
      BY <1>2, <3>1, <3>2
  <2> QED
    BY <2>1, <2>2
<1>6. \A p, q \in known :
        p # q /\ ScopeOf[p] = ScopeOf[q] /\ setBy'[p] # None /\ setBy'[q] # None =>
          {setBy'[p], setBy'[q]} \in met
  <2> SUFFICES ASSUME NEW p \in known, NEW q \in known, p # q, ScopeOf[p] = ScopeOf[q],
                      setBy'[p] # None, setBy'[q] # None
               PROVE  {setBy'[p], setBy'[q]} \in met
    OBVIOUS
  <2>1. CASE p = T
    BY <1>2, <1>4, <2>1
  <2>2. CASE q = T
    <3>1. {setBy'[q], setBy'[p]} \in met
      BY <1>2, <1>4, <2>2
    <3> QED
      BY <3>1, Pair
  <2>3. CASE p # T /\ q # T
    BY <1>2, <2>3 DEF MailInv, OneDefaultUnlessOverlapping
  <2> QED
    BY <2>1, <2>2, <2>3
<1>7. OneDefaultUnlessOverlapping'
  BY <1>1, <1>5, <1>6 DEF OneDefaultUnlessOverlapping, InScope
<1>8. \A r \in MailRequests \ {s} :
        pc'[r] = pc[r] /\ (Open(r) => {r, s} \in met)
  <2>1. Open(s) /\ \A r \in MailRequests : r \in Requests
    BY <1>1, Kinds DEF MailRequests, Open
  <2> QED
    BY <1>0, <2>1 DEF Alone, Control, MetInv
<1>9. \A r, p : \A q \in known :
        Unseen(r, p, q)' => \/ Unseen(r, p, q) /\ setBy'[q] = setBy[q]
                            \/ setBy'[q] = s
  BY <1>1, <1>2 DEF Unseen
<1>10. \A c \in NewProviders : pc'[c] = "insert" =>
       /\ seen[c] \subseteq {c}
       /\ c \notin seen[c] => InScope(c) # {}
       /\ c \in seen[c] => \A q \in known : Unseen(c, c, q)' => {c, setBy'[q]} \in met
  <2> SUFFICES ASSUME NEW c \in NewProviders, pc'[c] = "insert"
               PROVE  /\ seen[c] \subseteq {c}
                      /\ c \notin seen[c] => InScope(c) # {}
                      /\ c \in seen[c] =>
                           \A q \in known : Unseen(c, c, q)' => {c, setBy'[q]} \in met
    OBVIOUS
  <2>1. pc[c] = "insert" /\ {c, s} \in met
    BY <1>0, <1>8 DEF MailRequests, Open
  <2>2. /\ seen[c] \subseteq {c}
        /\ c \notin seen[c] => InScope(c) # {}
        /\ c \in seen[c] => \A q \in known : Unseen(c, c, q) => {c, setBy[q]} \in met
    BY <2>1 DEF MailInv
  <2>3. ASSUME c \in seen[c], NEW q \in known, Unseen(c, c, q)'
        PROVE  {c, setBy'[q]} \in met
    BY <1>9, <2>1, <2>2, <2>3
  <2> QED
    BY <2>2, <2>3
<1>11. \A r \in SetDefaults : pc'[r] \in {"unset", "set", "commit"} =>
       /\ seen[r] \subseteq {q \in AllProviders : ScopeOf[q] = ScopeOf[TargetOf[r]]}
       /\ \A q \in known : Unseen(r, TargetOf[r], q)' => {r, setBy'[q]} \in met
  <2> SUFFICES ASSUME NEW r \in SetDefaults, pc'[r] \in {"unset", "set", "commit"}
               PROVE  /\ seen[r] \subseteq {q \in AllProviders : ScopeOf[q] = ScopeOf[TargetOf[r]]}
                      /\ \A q \in known : Unseen(r, TargetOf[r], q)' => {r, setBy'[q]} \in met
    OBVIOUS
  <2>1. pc[r] \in {"unset", "set", "commit"} /\ {r, s} \in met
    BY <1>8 DEF MailRequests, Open
  <2> QED
    BY <1>9, <2>1 DEF MailInv
<1>12. \A c \in NewProviders : c \in known => pc'[c] = "done"
  BY <1>0, <1>8 DEF MailInv, MailRequests
<1>13. \A p : InScope(p)' = InScope(p)
  BY <1>1 DEF InScope
<1> QED
  BY <1>1, <1>3, <1>7, <1>10, <1>11, <1>12, <1>13 DEF MailInv

LEMMA DefaultStep ==
  ASSUME Control, Data, MailInv, NEW s \in SetDefaults, MakeDefault(s)
  PROVE  Control' /\ Data' /\ MailInv' /\ Alone(s) /\ UNCHANGED <<prices, writer>>
<1>s. s \in Requests /\ s \notin NewProviders /\ s \in MailRequests
  BY Kinds DEF MailRequests
<1> USE <1>s
<1>f. ASSUME Alone(s), UNCHANGED mails,
             \/ {pc[s], pc'[s]} \subseteq {"unset", "set", "commit"}
             \/ pc'[s] = "refused" /\ pc[s] # "done"
      PROVE  MailInv'
  <2>1. \A r \in MailRequests :
           \/ pc'[r] = pc[r]
           \/ pc'[r] = "refused" /\ pc[r] # "done"
           \/ {pc[r], pc'[r]} \subseteq {"unset", "set", "commit"} /\ r \in SetDefaults
    BY <1>f, Kinds DEF Alone, MailRequests
  <2> QED
    BY <1>f, <2>1, MailFrame DEF Alone
<1>1. CASE Snapshot(s)
  <2>1. /\ Begin(s, "unset") /\ pc[s] = "start" /\ UNCHANGED <<prices, writer, setBy, known>>
        /\ seen' = [seen EXCEPT ![s] = {p \in InScope(TargetOf[s]) : setBy[p] # None}]
    BY <1>1 DEF Snapshot, Begin
  <2>2. Control' /\ met \subseteq met' /\ held' = held /\ pc' = [pc EXCEPT ![s] = "unset"]
    BY <2>1, BeginControl
  <2>3. Alone(s) /\ pc'[s] = "unset"
    BY <2>2 DEF Alone, Control
  <2>4. /\ seen'[s] = {p \in InScope(TargetOf[s]) : setBy[p] # None}
        /\ \A r \in MailRequests \ {s} : seen'[r] = seen[r] /\ pc'[r] = pc[r]
    BY <2>1, <2>3, Kinds DEF Data, MailRequests, Alone
  <2>5. seen'[s] \subseteq {q \in AllProviders : ScopeOf[q] = ScopeOf[TargetOf[s]]}
    BY <2>4 DEF InScope, Data
  <2>6. Data'
    BY <2>1, <2>5 DEF Data, prices
  <2>7. OneDefaultUnlessOverlapping'
    BY <2>1, <2>2 DEF MailInv, OneDefaultUnlessOverlapping, InScope
  <2>8. \A r \in MailRequests \ {s} : \A p, q : Unseen(r, p, q)' = Unseen(r, p, q)
    BY <2>1, <2>4 DEF Unseen
  <2>9. \A p : InScope(p)' = InScope(p)
    BY <2>1 DEF InScope
  <2>10. \A q \in known : ~Unseen(s, TargetOf[s], q)'
    BY <2>1, <2>4 DEF Unseen, InScope
  <2>11. \A c \in NewProviders : c \in MailRequests \ {s}
    BY DEF MailRequests
  <2>12. \A r \in SetDefaults : pc'[r] \in {"unset", "set", "commit"} =>
       /\ seen'[r] \subseteq {q \in AllProviders : ScopeOf[q] = ScopeOf[TargetOf[r]]}
       /\ \A q \in known : Unseen(r, TargetOf[r], q)' => {r, setBy[q]} \in met'
    BY <2>2, <2>4, <2>5, <2>8, <2>10 DEF MailInv, MailRequests
  <2>13. MailInv'
    BY <2>1, <2>2, <2>4, <2>7, <2>8, <2>9, <2>11, <2>12 DEF MailInv
  <2> QED
    BY <2>1, <2>2, <2>3, <2>6, <2>13
<1>2. CASE Unset(s)
  <2> DEFINE H == seen[s]
  <2>1. Lock(s, H, "unset", "set") /\ UNCHANGED <<prices, writer, mails>>
    BY <1>2 DEF Unset
  <2>2. H \in SUBSET (Units \cup PriceEdits \cup AllRows \cup AllProviders)
    BY DEF Data
  <2> HIDE DEF H
  <2>3. /\ Control' /\ met' = met /\ pc[s] = "unset" /\ pc' = [pc EXCEPT ![s] = "set"]
        /\ held' = [held EXCEPT ![s] = @ \cup H]
    BY <2>1, <2>2, LockControl
  <2>4. Alone(s) /\ pc'[s] = "set"
    BY <2>3, AloneControl
  <2> QED
    BY <1>f, <2>1, <2>3, <2>4 DEF Data, mails, prices
<1>3. CASE Set(s)
  <2> DEFINE H == {TargetOf[s]}
  <2>1. Lock(s, H, "set", "commit") /\ UNCHANGED <<prices, writer, mails>>
    BY <1>3 DEF Set
  <2>2. H \in SUBSET (Units \cup PriceEdits \cup AllRows \cup AllProviders)
    BY ProvidersAssumption DEF AllProviders
  <2> HIDE DEF H
  <2>3. /\ Control' /\ met' = met /\ pc[s] = "set" /\ pc' = [pc EXCEPT ![s] = "commit"]
        /\ held' = [held EXCEPT ![s] = @ \cup H]
    BY <2>1, <2>2, LockControl
  <2>4. Alone(s) /\ pc'[s] = "commit"
    BY <2>3, AloneControl
  <2> QED
    BY <1>f, <2>1, <2>3, <2>4 DEF Data, mails, prices
<1>4. CASE CommitDefault(s)
  <2>1. pc[s] = "commit" /\ End(s, "done") /\ UNCHANGED <<prices, writer>> /\ Open(s)
    BY <1>4 DEF CommitDefault, Open
  <2>2. /\ Control' /\ met' = met /\ pc' = [pc EXCEPT ![s] = "done"]
        /\ held' = [held EXCEPT ![s] = {}]
    BY <2>1, EndControl
  <2>3. Alone(s) /\ pc'[s] = "done"
    BY <2>2, AloneControl
  <2> QED
    BY <1>4, <2>1, <2>2, <2>3, CommitDefaultMail
<1>5. CASE ResolveDeadlock(s)
  <2>1. /\ pc[s] \in {"unset", "set"} /\ End(s, "refused") /\ UNCHANGED <<prices, writer, mails>>
    <3>1. PICK q \in SetDefaults : WaitsFor(s, q)
      BY <1>5 DEF ResolveDeadlock, InCircle
    <3>2. pc[s] \in {"unset", "set"}
      BY <3>1, Kinds DEF WaitsFor
    <3> QED
      BY <1>5, <3>2 DEF ResolveDeadlock
  <2>2. /\ Control' /\ met' = met /\ pc' = [pc EXCEPT ![s] = "refused"]
        /\ held' = [held EXCEPT ![s] = {}]
    BY <2>1, EndControl DEF Open
  <2>3. Alone(s) /\ pc'[s] = "refused"
    BY <2>2, AloneControl
  <2> QED
    BY <1>f, <2>1, <2>2, <2>3 DEF Data, mails, prices
<1> QED
  BY <1>1, <1>2, <1>3, <1>4, <1>5 DEF MakeDefault

-----------------------------------------------------------------------------
(***************************************************************************)
(* The invariant of the whole module                                       *)
(***************************************************************************)
LEMMA InitIInv == Init => IInv
<1> SUFFICES ASSUME Init PROVE IInv
  OBVIOUS
<1>1. /\ pc \in [Requests -> {"start", "unsent"}] /\ held = [r \in Requests |-> {}]
      /\ met = {} /\ faults = 0 /\ tariffs = Units /\ known = Providers
      /\ pid = [e \in PriceEdits |-> None]
      /\ writer = [a \in AllRows |-> IF a \in Rows THEN a ELSE None]
      /\ setBy = [p \in AllProviders |-> IF p \in Defaults THEN p ELSE None]
      /\ seen = [r \in NewProviders \cup SetDefaults |-> {}]
  BY DEF Init
<1>2. Control
  BY <1>1, RequestsAssumption DEF Control, MetInv, Open
<1>3. Data
  BY <1>1 DEF Data, AllRows, AllProviders
<1>4. PriceInv
  <2>1. \A e \in PriceEdits : e \in Requests /\ e \notin Units
    BY Kinds, TariffsAssumption
  <2> QED
    BY <1>1, <2>1 DEF PriceInv, UnitOfRow
<1>5. \A a \in AllRows : writer[a] # None => a \in Rows /\ writer[a] = a
  BY <1>1
<1>6. CodesUniqueUnlessOverlapping
  BY <1>5, CodesAssumption DEF CodesUniqueUnlessOverlapping
<1>7. CodeInv
  <2>1. \A w \in CodeWrites : pc[w] \in {"start", "unsent"}
    BY <1>1, Kinds
  <2> QED
    BY <1>6, <2>1 DEF CodeInv
<1>8. \A p \in Providers : p \in AllProviders /\ (setBy[p] # None <=> p \in Defaults)
  BY <1>1, RequestsAssumption DEF AllProviders
<1>9. OneDefaultUnlessOverlapping
  BY <1>1, <1>8, ProvidersAssumption DEF OneDefaultUnlessOverlapping, InScope
<1>10. MailInv
  <2>1. \A r \in MailRequests : pc[r] \in {"start", "unsent"} /\ r \notin Providers
    BY <1>1, Kinds, ProvidersAssumption DEF MailRequests
  <2> QED
    BY <1>1, <1>9, <2>1 DEF MailInv, MailRequests
<1> QED
  BY <1>2, <1>3, <1>4, <1>7, <1>10, TypeSplit DEF IInv

LEMMA NextIInv == IInv /\ [Next]_vars => IInv'
<1> SUFFICES ASSUME Control, Data, PriceInv, CodeInv, MailInv, [Next]_vars
             PROVE  Control' /\ Data' /\ PriceInv' /\ CodeInv' /\ MailInv'
  <2>1. TypeOK' /\ MetInv' <=> Control' /\ Data'
    BY DEF TypeOK, Control, Data
  <2> QED
    BY <2>1, TypeSplit DEF IInv
\* What a step of one request leaves of the invariants it is not about.
<1>p. ASSUME NEW r \in Requests, Alone(r), UNCHANGED prices, r \notin PriceEdits
      PROVE  PriceInv'
  <2>1. \A e \in PriceEdits : pc'[e] = pc[e] /\ held'[e] = held[e]
    BY <1>p, Kinds DEF Alone
  <2> QED
    BY <1>p, <2>1, PriceFrame
<1>c. ASSUME NEW r \in Requests, Alone(r), writer' = writer, r \notin CodeWrites
      PROVE  CodeInv'
  <2>1. \A w \in CodeWrites : pc'[w] = pc[w] /\ held'[w] = held[w]
    BY <1>c, Kinds DEF Alone
  <2>2. met \subseteq met'
    BY <1>c DEF Alone
  <2> QED
    BY <1>c, <2>1, <2>2, CodeFrame
<1>m. ASSUME NEW r \in Requests, Alone(r), UNCHANGED mails, r \notin MailRequests
      PROVE  MailInv'
  <2>1. \A q \in MailRequests : pc'[q] = pc[q]
    BY <1>m, Kinds DEF Alone, MailRequests
  <2>2. met \subseteq met'
    BY <1>m DEF Alone
  <2> QED
    BY <1>m, <2>1, <2>2, MailFrame
<1>1. CASE \E e \in PriceEdits : EditPrice(e)
  <2> PICK e \in PriceEdits : EditPrice(e)
    BY <1>1
  <2>1. e \in Requests /\ e \notin CodeWrites /\ e \notin MailRequests
    BY Kinds DEF MailRequests
  <2>2. Control' /\ Data' /\ PriceInv' /\ Alone(e) /\ UNCHANGED <<writer, mails>>
    BY PriceStep
  <2> QED
    BY <2>1, <2>2, <1>c, <1>m
<1>2. CASE \E w \in CodeWrites : SaveCode(w)
  <2> PICK w \in CodeWrites : SaveCode(w)
    BY <1>2
  <2>1. w \in Requests /\ w \notin PriceEdits /\ w \notin MailRequests
    BY Kinds DEF MailRequests
  <2>2. Control' /\ Data' /\ CodeInv' /\ Alone(w) /\ UNCHANGED <<prices, mails>>
    BY CodeStep
  <2> QED
    BY <2>1, <2>2, <1>p, <1>m
<1>3. CASE \E c \in NewProviders : SaveProvider(c)
  <2> PICK c \in NewProviders : SaveProvider(c)
    BY <1>3
  <2>1. c \in Requests /\ c \notin PriceEdits /\ c \notin CodeWrites
    BY Kinds
  <2>2. Control' /\ Data' /\ MailInv' /\ Alone(c) /\ UNCHANGED <<prices, writer>>
    BY CreateStep
  <2> QED
    BY <2>1, <2>2, <1>p, <1>c
<1>4. CASE \E s \in SetDefaults : MakeDefault(s)
  <2> PICK s \in SetDefaults : MakeDefault(s)
    BY <1>4
  <2>1. s \in Requests /\ s \notin PriceEdits /\ s \notin CodeWrites
    BY Kinds
  <2>2. Control' /\ Data' /\ MailInv' /\ Alone(s) /\ UNCHANGED <<prices, writer>>
    BY DefaultStep
  <2> QED
    BY <2>1, <2>2, <1>p, <1>c
<1>5. CASE \E r \in Requests : Fail(r)
  <2> PICK r \in Requests : Fail(r)
    BY <1>5
  <2>1. Control' /\ Alone(r) /\ pc[r] # "done" /\ pc'[r] = "refused" /\ met \subseteq met'
    BY FailControl DEF Open, Alone
  <2>2. UNCHANGED <<prices, writer, mails>>
    BY DEF Fail
  <2>3. Data'
    BY <2>2 DEF Data, prices, mails
  <2>4. PriceInv'
    <3>1. \A e \in PriceEdits : (pc'[e] = pc[e] /\ held'[e] = held[e])
                              \/ (pc'[e] = "refused" /\ pc[e] # "done")
      BY <2>1, Kinds DEF Alone
    <3> QED
      BY <2>2, <3>1, PriceFrame
  <2>5. CodeInv'
    <3>1. \A w \in CodeWrites : (pc'[w] = pc[w] /\ held'[w] = held[w])
                              \/ pc'[w] \in {"update", "insert", "unset", "refused"}
      BY <2>1, Kinds DEF Alone
    <3> QED
      BY <2>1, <2>2, <3>1, CodeFrame
  <2>6. MailInv'
    <3>1. \A q \in MailRequests :
           \/ pc'[q] = pc[q]
           \/ pc'[q] = "refused" /\ pc[q] # "done"
           \/ {pc[q], pc'[q]} \subseteq {"unset", "set", "commit"} /\ q \in SetDefaults
      BY <2>1, Kinds DEF Alone, MailRequests
    <3> QED
      BY <2>1, <2>2, <3>1, MailFrame
  <2> QED
    BY <2>1, <2>3, <2>4, <2>5, <2>6
<1>6. CASE UNCHANGED vars
  <2>1. UNCHANGED <<pc, prices, writer, mails, held, met, faults>>
    BY <1>6 DEF vars
  <2>2. Control'
    BY <2>1 DEF Control, MetInv, Open
  <2>3. Data'
    BY <2>1 DEF Data, prices, mails
  <2>4. PriceInv'
    BY <2>1, PriceFrame
  <2>5. CodeInv'
    BY <2>1, CodeFrame
  <2>6. MailInv'
    BY <2>1, MailFrame
  <2> QED
    BY <2>2, <2>3, <2>4, <2>5, <2>6
<1> QED
  BY <1>1, <1>2, <1>3, <1>4, <1>5, <1>6 DEF Next

\* The inductive invariant holds in every state.
THEOREM Invariance == Spec => []IInv
<1> QED
  BY InitIInv, NextIInv, PTL DEF Spec

\* Types, and the row locks: a lock belongs to a transaction that is open, and
\* a row to one of them.
THEOREM TypeCorrect == Spec => []TypeOK
<1>1. IInv => TypeOK
  BY DEF IInv
<1> QED
  BY <1>1, Invariance, PTL

\* _micros_to_cents is within half a cent of the amount.
LEMMA Rounding ==
  ASSUME NEW m \in Nat
  PROVE  Nearest(Cents(m), m)
<1> DEFINE c == (2 * m + 10000) \div 20000
<1>1. c \in Int /\ 20000 * c =< 2 * m + 10000 /\ 2 * m + 10000 < 20000 * c + 20000
  OBVIOUS
<1> HIDE DEF c
<1>2. Nearest(c, m)
  BY <1>1 DEF Nearest
<1> QED
  BY <1>2 DEF c, Cents

\* edit_precio never leaves a unit without its tariff or with two of them, a
\* charge is the nearest cent of the tariff, and two edits of one tariff are
\* not both told edit_ok.
THEOREM TariffAlwaysInForce == Spec => []TariffInForce
<1>1. IInv => TariffInForce
  <2> SUFFICES ASSUME IInv PROVE TariffInForce
    OBVIOUS
  <2>1. \A u \in Units : \E t : InForce(u) = {t} /\ t \in Units \cup PriceEdits
    BY DEF IInv, PriceInv, InForce, TypeOK
  <2>2. \A u \in Units : Cardinality(InForce(u)) = 1
    BY <2>1, FS_Singleton
  <2>3. ASSUME NEW u \in Units, NEW q \in Quantities, NEW t \in InForce(u), NEW c \in Quotes(u, q)
        PROVE  Nearest(c, MicrosOf[t] * q)
    <3>1. InForce(u) = {t} /\ MicrosOf[t] \in Nat /\ q \in Nat
      BY <2>1, TariffsAssumption
    <3>2. c = Cents(MicrosOf[t] * q)
      BY <3>1 DEF Quotes
    <3>3. MicrosOf[t] * q \in Nat
      BY <3>1
    <3> QED
      BY <3>2, <3>3, Rounding
  <2>4. \A e, f \in PriceEdits : e # f /\ pc[e] = "done" /\ pc[f] = "done" => pid[e] # pid[f]
    BY DEF IInv, PriceInv
  <2> QED
    BY <2>2, <2>3, <2>4 DEF TariffInForce
<1> QED
  BY <1>1, Invariance, PTL

\* _code_libre and the unique index of each table: one code in both tables only
\* when the two requests overlapped, and never twice in one.
THEOREM CodesUnique == Spec => []CodesUniqueUnlessOverlapping
<1>1. IInv => CodesUniqueUnlessOverlapping
  BY DEF IInv, CodeInv
<1> QED
  BY <1>1, Invariance, PTL

\* create_provider and set_default_provider: a scope with providers keeps a
\* default, and has two only when the requests that made them overlapped.
THEOREM OneDefault == Spec => []OneDefaultUnlessOverlapping
<1>1. IInv => OneDefaultUnlessOverlapping
  BY DEF IInv, MailInv
<1> QED
  BY <1>1, Invariance, PTL

-----------------------------------------------------------------------------
(***************************************************************************)
(* Waiting                                                                 *)
(***************************************************************************)
\* Only set_default_provider locks rows in two statements.
SetInv == \A r \in Requests : pc[r] = "set" => r \in SetDefaults

LEMMA SetInvStep == IInv /\ SetInv /\ [Next]_vars => SetInv'
<1> SUFFICES ASSUME Control, Data, PriceInv, CodeInv, MailInv, SetInv, [Next]_vars PROVE SetInv'
  BY TypeSplit DEF IInv
<1>a. ASSUME NEW r \in Requests, Alone(r), pc'[r] = "set" => r \in SetDefaults
      PROVE  SetInv'
  BY <1>a DEF Alone, SetInv
<1>1. CASE \E e \in PriceEdits : EditPrice(e)
  <2> PICK e \in PriceEdits : EditPrice(e)
    BY <1>1
  <2>1. e \in Requests /\ Alone(e)
    BY PriceStep, Kinds
  <2>2. pc'[e] # "set"
    BY <2>1 DEF EditPrice, ListTariff, UpdateTariff, InsertTariff, Begin, Lock, End, Control
  <2> QED
    BY <1>a, <2>1, <2>2
<1>2. CASE \E w \in CodeWrites : SaveCode(w)
  <2> PICK w \in CodeWrites : SaveCode(w)
    BY <1>2
  <2>1. w \in Requests /\ Alone(w)
    BY CodeStep, Kinds
  <2>2. pc'[w] # "set"
    BY <2>1 DEF SaveCode, LookDistributors, LookCodes, WriteCode, CommitCode, Begin, Lock, End,
                Control
  <2> QED
    BY <1>a, <2>1, <2>2
<1>3. CASE \E c \in NewProviders : SaveProvider(c)
  <2> PICK c \in NewProviders : SaveProvider(c)
    BY <1>3
  <2>1. c \in Requests /\ Alone(c)
    BY CreateStep, Kinds
  <2>2. pc'[c] # "set"
    BY <2>1 DEF SaveProvider, LookFirst, InsertProvider, Begin, End, Control
  <2> QED
    BY <1>a, <2>1, <2>2
<1>4. CASE \E s \in SetDefaults : MakeDefault(s)
  <2> PICK s \in SetDefaults : MakeDefault(s)
    BY <1>4
  <2>1. s \in Requests /\ Alone(s)
    BY DefaultStep, Kinds
  <2> QED
    BY <1>a, <2>1
<1>5. CASE \E r \in Requests : Fail(r)
  <2> PICK r \in Requests : Fail(r)
    BY <1>5
  <2>1. Alone(r) /\ pc'[r] = "refused"
    BY FailControl DEF Alone
  <2> QED
    BY <1>a, <2>1
<1>6. CASE UNCHANGED vars
  BY <1>6 DEF vars, SetInv
<1> QED
  BY <1>1, <1>2, <1>3, <1>4, <1>5, <1>6 DEF Next

\* A request that waits, waits for one that has locked rows, and that one waits
\* in turn only when it is a set-default with one statement to go.
LEMMA NobodyIsStuck == IInv /\ SetInv => NobodyStuck
<1> SUFFICES ASSUME Control, SetInv, \E r \in Requests : Open(r)
             PROVE  \E r \in Requests : Open(r) /\ (Free(r) \/ InCircle(r))
  BY TypeSplit DEF IInv, NobodyStuck
<1>1. SUFFICES ASSUME \A r \in Requests : Open(r) => ~Free(r)
               PROVE  \E s \in Requests : Open(s) /\ InCircle(s)
  OBVIOUS
<1> DEFINE S == {r \in SetDefaults : pc[r] = "set"}
<1>2. \A r \in Requests, q \in Requests : WaitsFor(r, q) => held[q] # {} /\ pc[r] # "commit"
  BY DEF WaitsFor, CodeHeldBy
<1>3. ASSUME NEW r \in Requests, Open(r)
      PROVE  \E q \in S : WaitsFor(r, q)
  <2>1. PICK q \in Requests : WaitsFor(r, q)
    BY <1>1, <1>3 DEF Free
  <2>2. pc[q] \in {"set", "commit"}
    BY <1>2, <2>1 DEF Control
  <2>3. Open(q)
    BY <2>2 DEF Open
  <2>4. pc[q] # "commit"
    BY <1>1, <1>2, <2>3 DEF Free
  <2> QED
    BY <2>1, <2>2, <2>4 DEF SetInv
<1>4. \A s \in S : s \in Requests /\ Open(s)
  BY Kinds DEF Open
<1>5. PICK s \in S : TRUE
  BY <1>3
<1>6. S \in SUBSET SetDefaults /\ \A r \in S : \E q \in S : WaitsFor(r, q)
  BY <1>3, <1>4
<1> HIDE DEF S
<1>7. InCircle(s)
  BY <1>5, <1>6 DEF InCircle
<1> QED
  BY <1>4, <1>5, <1>7

\* No set of open requests is stuck: edits of tariffs and codes hold rows only
\* at their commit, and set-defaults that all wait close a circle PostgreSQL
\* breaks.
THEOREM SomeoneGoesOn == Spec => []NobodyStuck
<1>1. Init => SetInv
  BY DEF Init, SetInv
<1>2. Spec => []SetInv
  BY <1>1, SetInvStep, Invariance, PTL DEF Spec
<1> QED
  BY <1>2, NobodyIsStuck, Invariance, PTL
=============================================================================
