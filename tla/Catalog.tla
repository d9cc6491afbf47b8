------------------------------- MODULE Catalog -------------------------------
(***************************************************************************)
(* What the operators keep up in the panel while the rest of the program   *)
(* reads it: the tariffs of price_catalog (edit_precio), the referral codes *)
(* of distributors and of their sellers, in two tables that share one name *)
(* space, and the mail providers with one default per scope.  Each request *)
(* is one READ COMMITTED transaction, and requests overlap.                *)
(*                                                                         *)
(* A row is named after the request that inserts it; the rows there from   *)
(* the start are constants.  Every row remembers the request that wrote it *)
(* last.  is_active of codes and providers is left out.                    *)
(***************************************************************************)
EXTENDS Integers, FiniteSets

CONSTANTS
  Units,       \* <<meter, unit_code>>, each with its first tariff, of its name
  PriceEdits, UnitOf,
  MicrosOf,    \* public_price_micros of the first tariffs and of the edits
  Quantities,  \* quantities a charge is priced for
  Rows,        \* distributors and sellers' codes there from the start
  NewRows,     \* requests that create one
  RowEdits, RowOf,    \* requests that edit one, and the row
  TableOf,     \* the table of a row
  CodeOf,      \* the code of a row, or of the body of an edit
  Providers,   \* mail providers there from the start
  NewProviders,       \* requests that create one
  SetDefaults, TargetOf,  \* requests for another default, and the provider
  ScopeOf,     \* <<organization, client>> of a provider
  Defaults,    \* the providers that are defaults at the start
  None,
  Workloads,   \* bound: the sets of requests one of which a behaviour serves
  MaxFaults    \* bound: failures in a behaviour

CodeWrites == NewRows \cup RowEdits
AllRows == Rows \cup NewRows
AllProviders == Providers \cup NewProviders
Requests == PriceEdits \cup CodeWrites \cup NewProviders \cup SetDefaults

ASSUME TariffsAssumption ==
  /\ UnitOf \in [PriceEdits -> Units] /\ Units \cap PriceEdits = {}
  /\ MicrosOf \in [Units \cup PriceEdits -> Nat] /\ Quantities \subseteq Nat

ASSUME CodesAssumption ==
  /\ RowOf \in [RowEdits -> Rows] /\ Rows \cap Requests = {}
  /\ TableOf \in [AllRows -> {"distributors", "distributor_codes"}]
  /\ DOMAIN CodeOf = AllRows \cup RowEdits
  /\ \A a, b \in Rows : CodeOf[a] = CodeOf[b] => a = b

ASSUME ProvidersAssumption ==
  /\ TargetOf \in [SetDefaults -> Providers] /\ Providers \cap Requests = {}
  /\ DOMAIN ScopeOf = AllProviders /\ Defaults \subseteq Providers
  /\ \A p \in Providers : \E d \in Defaults : ScopeOf[d] = ScopeOf[p]
  /\ \A a, b \in Defaults : ScopeOf[a] = ScopeOf[b] => a = b

ASSUME RequestsAssumption ==
  /\ PriceEdits \cap (CodeWrites \cup NewProviders \cup SetDefaults) = {}
  /\ CodeWrites \cap (NewProviders \cup SetDefaults) = {}
  /\ NewRows \cap RowEdits = {} /\ NewProviders \cap SetDefaults = {}
  /\ None \notin Requests \cup Rows \cup Providers
  /\ Workloads \subseteq SUBSET Requests /\ MaxFaults \in Nat

VARIABLES
  pc,       \* next statement of each request
  tariffs,  \* committed rows of price_catalog with is_active
  pid,      \* the tariff an edit is about, as its page listed it
  writer,   \* of each committed row with a code: the last that wrote it
  setBy,    \* of each committed default: the request that made it one
  known,    \* committed mail providers
  seen,     \* defaults in the snapshot of a set-default; of the creation of
            \* a provider: {itself} when it found no other
  held,     \* rows an open transaction has written or locked
  met,      \* pairs of requests that were open at the same time
  faults

prices == <<tariffs, pid>>
mails == <<setBy, known, seen>>
vars == <<pc, prices, writer, mails, held, met, faults>>

Init ==
  /\ \E sent \in Workloads :
       pc = [r \in Requests |-> IF r \in sent THEN "start" ELSE "unsent"]
  /\ tariffs = Units /\ pid = [e \in PriceEdits |-> None]
  /\ writer = [a \in AllRows |-> IF a \in Rows THEN a ELSE None]
  /\ setBy = [p \in AllProviders |-> IF p \in Defaults THEN p ELSE None]
  /\ known = Providers
  /\ seen = [r \in NewProviders \cup SetDefaults |-> {}]
  /\ held = [r \in Requests |-> {}]
  /\ met = {} /\ faults = 0

Open(r) == pc[r] \notin {"unsent", "start", "done", "refused"}

Begin(r, to) ==
  /\ pc[r] = "start"
  /\ pc' = [pc EXCEPT ![r] = to]
  /\ met' = met \cup {{r, q} : q \in {o \in Requests : Open(o)}}
  /\ UNCHANGED <<held, faults>>

\* A statement that locks rows waits for the transactions that hold them.
Lock(r, rows, from, to) ==
  /\ pc[r] = from
  /\ \A q \in Requests \ {r} : held[q] \cap rows = {}
  /\ pc' = [pc EXCEPT ![r] = to]
  /\ held' = [held EXCEPT ![r] = @ \cup rows]
  /\ UNCHANGED <<met, faults>>

\* Mutant: a request that ends leaves its transaction open.
EndOpen(r, how) ==
  /\ pc' = [pc EXCEPT ![r] = how]
  /\ UNCHANGED <<held, met, faults>>

\* The answer; the transaction has been committed or rolled back.
End(r, how) ==
  /\ pc' = [pc EXCEPT ![r] = how]
  /\ held' = [held EXCEPT ![r] = {}]
  /\ UNCHANGED <<met, faults>>

-----------------------------------------------------------------------------
(***************************************************************************)
(* price_catalog: edit_precio, and price_quantity that reads it            *)
(***************************************************************************)
UnitOfRow(t) == IF t \in Units THEN t ELSE UnitOf[t]
InForce(u) == {t \in tariffs : UnitOfRow(t) = u}

\* Mutant: the fraction of a cent is dropped.
CentsDown(micros) == micros \div 10000

\* _micros_to_cents: half a cent goes up.
Cents(micros) == (2 * micros + 10000) \div 20000

\* What price_quantity may answer; nothing is a PricingError.
Quotes(u, q) == {Cents(MicrosOf[t] * q) : t \in InForce(u)}

\* The operator opens the list and sends the form of one tariff.
ListTariff(e) ==
  /\ Begin(e, "update")
  /\ \E t \in InForce(UnitOf[e]) : pid' = [pid EXCEPT ![e] = t]
  /\ UNCHANGED <<tariffs, writer, mails>>

\* Mutant: the old tariff is switched off in a transaction of its own.
DeactivatesFirst(e) == tariffs' = tariffs \ {pid[e]}

\* The open transaction hides it from the others until the commit.
Deactivates(e) == UNCHANGED tariffs

\* UPDATE ... WHERE id AND is_active; no row is error_notfound.
UpdateTariff(e) ==
  /\ \/ /\ pid[e] \in tariffs
        /\ Lock(e, {pid[e]}, "update", "commit")
        /\ Deactivates(e)
     \/ /\ pid[e] \notin tariffs /\ pc[e] = "update"
        /\ End(e, "refused")
        /\ UNCHANGED tariffs
  /\ UNCHANGED <<pid, writer, mails>>

\* The INSERT of the new tariff, under uq_price_active, and the commit.
InsertTariff(e) ==
  /\ pc[e] = "commit"
  /\ LET others == tariffs \ {pid[e]} IN
       IF \E t \in others : UnitOfRow(t) = UnitOf[e]
         THEN End(e, "refused") /\ UNCHANGED tariffs
         ELSE End(e, "done") /\ tariffs' = others \cup {e}
  /\ UNCHANGED <<pid, writer, mails>>

EditPrice(e) == ListTariff(e) \/ UpdateTariff(e) \/ InsertTariff(e)

-----------------------------------------------------------------------------
(***************************************************************************)
(* Codes: create_distributor_new, edit_distributor,                        *)
(* create_distributor_code and edit_distributor_code                       *)
(***************************************************************************)
Row(w) == IF w \in NewRows THEN w ELSE RowOf[w]
Table(w) == TableOf[Row(w)]

\* Committed rows of a table, other than the one the request is about, with
\* the code it wants.
Taken(w, table) ==
  \E a \in AllRows \ {Row(w)} :
    /\ TableOf[a] = table /\ writer[a] # None
    /\ CodeOf[writer[a]] = CodeOf[w]

\* _code_libre: the SELECT in distributors, then the one in distributor_codes.
LookDistributors(w) ==
  /\ IF Taken(w, "distributors") THEN Begin(w, "refused") ELSE Begin(w, "look")
  /\ UNCHANGED <<prices, writer, mails>>

\* Mutant: the sellers' codes are not looked at.
TakenBySellerNever(w) == FALSE

TakenBySeller(w) == Taken(w, "distributor_codes")

LookCodes(w) ==
  /\ pc[w] = "look"
  /\ pc' = [pc EXCEPT ![w] = IF TakenBySeller(w) THEN "refused" ELSE "write"]
  /\ UNCHANGED <<prices, writer, mails, held, met, faults>>

\* The unique index of the table makes the statement wait for an open one that
\* writes the code there, or changes the row that has it.
CodeHeldBy(w, v) ==
  /\ v \in CodeWrites \ {w} /\ held[v] # {} /\ Table(v) = Table(w)
  /\ \/ CodeOf[v] = CodeOf[w]
     \/ writer[Row(v)] # None /\ CodeOf[writer[Row(v)]] = CodeOf[w]

WriteCode(w) ==
  /\ ~\E v \in CodeWrites : CodeHeldBy(w, v)
  /\ IF Taken(w, Table(w)) THEN pc[w] = "write" /\ End(w, "refused")
                           ELSE Lock(w, {Row(w)}, "write", "commit")
  /\ UNCHANGED <<prices, writer, mails>>

CommitCode(w) ==
  /\ pc[w] = "commit"
  /\ End(w, "done")
  /\ writer' = [writer EXCEPT ![Row(w)] = w]
  /\ UNCHANGED <<prices, mails>>

SaveCode(w) == LookDistributors(w) \/ LookCodes(w) \/ WriteCode(w) \/ CommitCode(w)

-----------------------------------------------------------------------------
(***************************************************************************)
(* Mail providers: create_provider and set_default_provider                *)
(***************************************************************************)
InScope(p) == {q \in known : ScopeOf[q] = ScopeOf[p]}

\* The SELECT that makes the first provider of a scope its default.
LookFirst(c) ==
  /\ Begin(c, "insert")
  /\ seen' = [seen EXCEPT ![c] = IF InScope(c) = {} THEN {c} ELSE {}]
  /\ UNCHANGED <<prices, writer, setBy, known>>

InsertProvider(c) ==
  /\ pc[c] = "insert"
  /\ End(c, "done")
  /\ known' = known \cup {c}
  /\ setBy' = [setBy EXCEPT ![c] = IF c \in seen[c] THEN c ELSE None]
  /\ UNCHANGED <<prices, writer, seen>>

\* The snapshot of the UPDATE that takes the default away...
Snapshot(s) ==
  /\ Begin(s, "unset")
  /\ seen' = [seen EXCEPT ![s] = {p \in InScope(TargetOf[s]) : setBy[p] # None}]
  /\ UNCHANGED <<prices, writer, setBy, known>>

\* ...which then waits for the rows it found.
Unset(s) ==
  /\ Lock(s, seen[s], "unset", "set")
  /\ UNCHANGED <<prices, writer, mails>>

Set(s) ==
  /\ Lock(s, {TargetOf[s]}, "set", "commit")
  /\ UNCHANGED <<prices, writer, mails>>

\* Mutant: only the new default is written.
ClearedNone(s) == {}

\* The rows the first UPDATE has found.
Cleared(s) == seen[s]

CommitDefault(s) ==
  /\ pc[s] = "commit"
  /\ End(s, "done")
  /\ setBy' = [p \in AllProviders |->
                 IF p = TargetOf[s] THEN s ELSE IF p \in Cleared(s) THEN None ELSE setBy[p]]
  /\ UNCHANGED <<prices, writer, known, seen>>

\* The request q is open and has what the next statement of r needs.
WaitsFor(r, q) ==
  /\ q # r
  /\ \/ r \in PriceEdits /\ pc[r] = "update" /\ pid[r] \in tariffs /\ pid[r] \in held[q]
     \/ /\ r \in CodeWrites /\ pc[r] = "write"
        /\ CodeHeldBy(r, q) \/ (~Taken(r, Table(r)) /\ Row(r) \in held[q])
     \/ r \in SetDefaults /\ pc[r] = "unset" /\ seen[r] \cap held[q] # {}
     \/ r \in SetDefaults /\ pc[r] = "set" /\ TargetOf[r] \in held[q]

Free(r) == ~\E q \in Requests : WaitsFor(r, q)

\* Transactions that wait for each other in a circle, or for such a circle.
InCircle(s) ==
  \E S \in SUBSET SetDefaults : s \in S /\ \A r \in S : \E q \in S : WaitsFor(r, q)

\* PostgreSQL aborts one of them.
ResolveDeadlock(s) ==
  /\ InCircle(s)
  /\ End(s, "refused")
  /\ UNCHANGED <<prices, writer, mails>>

SaveProvider(c) == LookFirst(c) \/ InsertProvider(c)
MakeDefault(s) == Snapshot(s) \/ Unset(s) \/ Set(s) \/ CommitDefault(s) \/ ResolveDeadlock(s)

-----------------------------------------------------------------------------
\* An error of a statement or the death of the process: rollback.
Fail(r) ==
  /\ Open(r) /\ faults < MaxFaults
  /\ pc' = [pc EXCEPT ![r] = "refused"]
  /\ held' = [held EXCEPT ![r] = {}]
  /\ faults' = faults + 1
  /\ UNCHANGED <<prices, writer, mails, met>>

Ended == \A r \in Requests : pc[r] \in {"unsent", "done", "refused"}

Next ==
  \/ \E e \in PriceEdits : EditPrice(e)
  \/ \E w \in CodeWrites : SaveCode(w)
  \/ \E c \in NewProviders : SaveProvider(c)
  \/ \E s \in SetDefaults : MakeDefault(s)
  \/ \E r \in Requests : Fail(r)
  \/ Ended /\ UNCHANGED vars

Spec == Init /\ [][Next]_vars

-----------------------------------------------------------------------------
TypeOK ==
  /\ pc \in [Requests -> {"unsent", "start", "update", "look", "write", "insert", "unset",
                          "set", "commit", "done", "refused"}]
  /\ tariffs \subseteq Units \cup PriceEdits
  /\ pid \in [PriceEdits -> Units \cup PriceEdits \cup {None}]
  /\ writer \in [AllRows -> AllRows \cup RowEdits \cup {None}]
  /\ setBy \in [AllProviders -> AllProviders \cup SetDefaults \cup {None}]
  /\ known \subseteq AllProviders
  /\ seen \in [NewProviders \cup SetDefaults -> SUBSET AllProviders]
  /\ held \in [Requests -> SUBSET (Units \cup PriceEdits \cup AllRows \cup AllProviders)]
  /\ met \subseteq SUBSET Requests
  /\ faults \in 0..MaxFaults
  \* locks are held by open transactions, and a row by one of them
  /\ \A r \in Requests : held[r] # {} => pc[r] \in {"set", "commit"}
  /\ \A q, r \in Requests : q # r => held[q] \cap held[r] = {}

\* The whole number of cents nearest to an amount; half a cent goes up.
Nearest(cents, micros) == micros - 5000 < 10000 * cents /\ 10000 * cents =< micros + 5000

\* However edits of a tariff overlap or fail, a charge always finds one tariff
\* of its unit, and its amount is the nearest cent; of the operators who change
\* the same tariff only one is told edit_ok.
TariffInForce ==
  /\ \A u \in Units : Cardinality(InForce(u)) = 1
  /\ \A u \in Units, q \in Quantities : \A t \in InForce(u), c \in Quotes(u, q) :
       Nearest(c, MicrosOf[t] * q)
  /\ \A e, f \in PriceEdits :
       e # f /\ pc[e] = "done" /\ pc[f] = "done" => pid[e] # pid[f]

\* Two rows have one code, in one table or in both, only when the requests that
\* wrote it overlapped; within a table not even then.
CodesUniqueUnlessOverlapping ==
  \A a, b \in AllRows :
    a # b /\ writer[a] # None /\ writer[b] # None /\ CodeOf[writer[a]] = CodeOf[writer[b]] =>
      TableOf[a] # TableOf[b] /\ {writer[a], writer[b]} \in met

\* A scope with a provider has a default, and two defaults of one scope come
\* from two requests that overlapped.
OneDefaultUnlessOverlapping ==
  /\ \A p \in known : \E q \in InScope(p) : setBy[q] # None
  /\ \A p, q \in known :
       p # q /\ ScopeOf[p] = ScopeOf[q] /\ setBy[p] # None /\ setBy[q] # None =>
         {setBy[p], setBy[q]} \in met

\* Whatever rows and codes the open requests hold, one of them can go on, or
\* some wait in a circle, which PostgreSQL breaks.  Only requests for a default
\* ever do: edits of tariffs and of codes hold one row and then commit.
NobodyStuck ==
  (\E r \in Requests : Open(r)) =>
    \E r \in Requests : Open(r) /\ (Free(r) \/ InCircle(r))

-----------------------------------------------------------------------------
(***************************************************************************)
(* The inductive invariant behind the three properties: what an open       *)
(* request has read is still true, except for what requests that overlap   *)
(* with it have committed since.                                           *)
(***************************************************************************)
MetInv ==
  \A r, q \in Requests : r # q /\ Open(r) /\ Open(q) => {r, q} \in met

PriceInv ==
  /\ \A u \in Units : \E t \in tariffs : UnitOfRow(t) = u
  /\ \A t, v \in tariffs : UnitOfRow(t) = UnitOfRow(v) => t = v
  /\ \A t \in tariffs : t \in PriceEdits => pc[t] = "done"
  /\ \A e \in PriceEdits :
       /\ pc[e] \in {"update", "commit", "done"} =>
            /\ pid[e] \in Units \cup PriceEdits /\ UnitOfRow(pid[e]) = UnitOf[e]
            /\ pid[e] \in PriceEdits => pc[pid[e]] = "done"
       /\ pc[e] = "commit" => pid[e] \in tariffs /\ pid[e] \in held[e]
       /\ pc[e] = "done" => pid[e] \notin tariffs
  /\ \A e, f \in PriceEdits :
       e # f /\ pc[e] = "done" /\ pc[f] = "done" => pid[e] # pid[f]

\* A committed row other than the one of the request, with the code it wants.
Clashes(w, a) ==
  a # Row(w) /\ writer[a] # None /\ CodeOf[writer[a]] = CodeOf[w]

CodeInv ==
  /\ CodesUniqueUnlessOverlapping
  /\ \A w \in CodeWrites, a \in AllRows : Clashes(w, a) =>
       /\ pc[w] \in {"look", "write", "commit"} /\ TableOf[a] = "distributors" =>
            {w, writer[a]} \in met
       /\ pc[w] \in {"write", "commit"} => {w, writer[a]} \in met
       /\ pc[w] = "commit" => TableOf[a] # Table(w)
  /\ \A w \in CodeWrites : pc[w] = "commit" => held[w] # {}
  /\ \A v, w \in CodeWrites :
       v # w /\ pc[v] = "commit" /\ pc[w] = "commit" /\ Table(v) = Table(w) =>
         CodeOf[v] # CodeOf[w]

\* A default in the scope of a request, other than those it has seen.
Unseen(r, p, q) == ScopeOf[q] = ScopeOf[p] /\ setBy[q] # None /\ q \notin seen[r]

MailInv ==
  /\ OneDefaultUnlessOverlapping
  /\ Providers \subseteq known
  /\ \A c \in NewProviders : c \in known => pc[c] = "done"
  /\ \A c \in NewProviders : pc[c] = "insert" =>
       /\ seen[c] \subseteq {c}
       /\ c \notin seen[c] => InScope(c) # {}
       /\ c \in seen[c] => \A q \in known : Unseen(c, c, q) => {c, setBy[q]} \in met
  /\ \A s \in SetDefaults : pc[s] \in {"unset", "set", "commit"} =>
       /\ seen[s] \subseteq {q \in AllProviders : ScopeOf[q] = ScopeOf[TargetOf[s]]}
       /\ \A q \in known : Unseen(s, TargetOf[s], q) => {s, setBy[q]} \in met

IInv == TypeOK /\ MetInv /\ PriceInv /\ CodeInv /\ MailInv
=============================================================================
