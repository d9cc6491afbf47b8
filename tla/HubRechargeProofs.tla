-------------------------- MODULE HubRechargeProofs --------------------------
(***************************************************************************)
(* Proofs about HubRecharge for any charges, clients, webhooks and number  *)
(* of failures, and for both orders of commit and response.                *)
(***************************************************************************)
EXTENDS HubRecharge, FiniteSetTheorems, TLAPS

LEMMA ConstantsTyped ==
  /\ NoCharge \notin Charges
  /\ \A q \in Charges : ClientOf[q] \in Clients /\ AmountOf[q] \in Nat /\ AmountOf[q] > 0
  /\ MaxFaults \in Nat /\ ReplyFirst \in BOOLEAN
BY ChargesAssumption, BuildAssumption

LEMMA CleanTyped ==
  /\ CleanTx \in [claim : BOOLEAN, commission : BOOLEAN, broken : BOOLEAN]
  /\ ~CleanTx.claim /\ ~CleanTx.commission /\ ~CleanTx.broken
BY DEF CleanTx

LEMMA InitIInv == Init => IInv
<1> SUFFICES ASSUME Init PROVE IInv
  OBVIOUS
<1>1. TypeOK
  BY ConstantsTyped, CleanTyped DEF Init, TypeOK
<1>2. HookInv /\ ClaimInv
  BY CleanTyped DEF Init, HookInv, ClaimInv
<1>3. ReplayMeansCredited /\ CreditsAccounted
  BY DEF Init, ReplayMeansCredited, CreditsAccounted
<1> QED
  BY <1>1, <1>2, <1>3 DEF IInv

\* The request that initiates a charge, and the payer, touch no webhook and
\* no book.
LEMMA CallIInv ==
  ASSUME IInv, NEW q \in Charges,
         Initiate(q) \/ CallAction(q) \/ FailCall(q) \/ Pay(q)
  PROVE  IInv'
<1> USE DEF IInv
<1>1. UNCHANGED <<called, acked, rejected, pc, event, tx, payments, wallet, commissions,
                  entries>>
  BY DEF Initiate, CallAction, CommitCall, ReplyCall, FailCall, Pay, hook, book
<1>2. initiated \subseteq initiated' /\ paid \subseteq paid'
  BY DEF Initiate, CallAction, CommitCall, ReplyCall, FailCall, Pay
<1>3. TypeOK'
  <2>1. faults' \in 0 .. MaxFaults
    BY ConstantsTyped DEF TypeOK, Initiate, CallAction, CommitCall, ReplyCall, FailCall, Pay,
                          Fault
  <2>2. call' \in [Charges -> {"idle", "open", "last", "done", "failed"}]
    BY DEF TypeOK, Initiate, CallAction, CommitCall, ReplyCall, FailCall, Pay, CallStep
  <2>3. initiated' \subseteq Charges /\ url' \subseteq Charges /\ paid' \subseteq url'
    BY DEF TypeOK, Initiate, CallAction, CommitCall, ReplyCall, FailCall, Pay
  <2> QED
    BY <1>1, <1>2, <2>1, <2>2, <2>3 DEF TypeOK
<1>4. HookInv' /\ ClaimInv'
  BY <1>1, <1>2 DEF HookInv, ClaimInv, ClaimFree
<1>5. ReplayMeansCredited' /\ CreditsAccounted'
  BY <1>1, <1>2 DEF ReplayMeansCredited, CreditsAccounted
<1> QED
  BY <1>3, <1>4, <1>5

\* A webhook that gives up leaves no trace but in Finanzas-Core and the audit.
LEMMA GiveUpIInv ==
  ASSUME IInv, NEW w \in Webhooks, GiveUp(w),
         UNCHANGED <<call, initiated, url, paid, called, acked, payments, wallet, commissions>>,
         entries \subseteq entries', entries' \subseteq Charges,
         rejected' \subseteq paid, faults' \in 0 .. MaxFaults
  PROVE  IInv'
<1> USE DEF IInv
<1>1. /\ pc' = [pc EXCEPT ![w] = "idle"]
      /\ event' = [event EXCEPT ![w] = NoCharge]
      /\ tx' = [tx EXCEPT ![w] = CleanTx]
  BY DEF GiveUp
<1>2. TypeOK'
  BY <1>1, CleanTyped DEF TypeOK
<1>3. HookInv'
  BY <1>1 DEF HookInv, TypeOK
<1>4. ClaimInv'
  BY <1>1, CleanTyped DEF ClaimInv, ClaimFree, TypeOK
<1>5. ReplayMeansCredited' /\ CreditsAccounted'
  BY <1>1 DEF ReplayMeansCredited, CreditsAccounted, TypeOK
<1> QED
  BY <1>2, <1>3, <1>4, <1>5

\* A call that is lost reaches no webhook.
LEMMA LoseCallIInv ==
  ASSUME IInv, NEW q \in Charges, LoseCall(q)
  PROVE  IInv'
<1>1. /\ UNCHANGED <<call, initiated, url, paid, acked, rejected, pc, event, tx, payments,
                     wallet, commissions, entries>>
      /\ q \in paid /\ called' = called \cup {q}
  BY DEF LoseCall, FirstCall, hook, book
<1>2. faults' \in 0 .. MaxFaults
  BY ConstantsTyped DEF IInv, TypeOK, LoseCall, Fault
<1> QED
  BY <1>1, <1>2 DEF IInv, TypeOK, HookInv, ClaimInv, ClaimFree, ReplayMeansCredited,
                    CreditsAccounted

LEMMA ReceiveIInv ==
  ASSUME IInv, NEW w \in Webhooks, NEW q \in Charges, Notify(w, q) \/ Redeliver(w, q)
  PROVE  IInv'
<1> USE DEF IInv
<1>1. /\ q \in paid /\ called' \subseteq paid /\ pc[w] = "idle" /\ tx[w] = CleanTx
      /\ pc' = [pc EXCEPT ![w] = "check"]
      /\ event' = [event EXCEPT ![w] = q]
      /\ UNCHANGED <<call, initiated, url, paid, acked, rejected, tx, payments, wallet,
                     commissions, entries, faults>>
  BY DEF Notify, FirstCall, Redeliver, Receive, HookStep, book, HookInv, TypeOK
<1>2. TypeOK'
  BY <1>1, ConstantsTyped DEF TypeOK
<1>3. HookInv'
  BY <1>1 DEF HookInv, TypeOK
<1>4. ClaimInv'
  BY <1>1, CleanTyped DEF ClaimInv, ClaimFree, TypeOK
<1>5. ReplayMeansCredited' /\ CreditsAccounted'
  BY <1>1 DEF ReplayMeansCredited, CreditsAccounted, TypeOK
<1> QED
  BY <1>2, <1>3, <1>4, <1>5

\* A step of a webhook that books nothing and claims nothing new.
LEMMA HandlerIInv ==
  ASSUME IInv, NEW w \in Webhooks,
         Accept(w) \/ Replay(w) \/ PostEntry(w) \/ Commission(w) \/ CommissionFails(w)
  PROVE  IInv'
<1> USE DEF IInv
<1>1. /\ UNCHANGED <<call, initiated, url, paid, called, acked, rejected, event, payments, wallet,
                     commissions>>
      /\ pc[w] \in {"check", "claim", "finanzas", "commission"}
  BY DEF Accept, Replay, PostEntry, Commission, CommissionFails, HookStep, book
<1>2. event[w] \in Charges /\ event[w] \in paid
  BY <1>1 DEF TypeOK, HookInv
<1>3. PICK l \in {"claim", "open", "commission"} : pc' = [pc EXCEPT ![w] = l]
  BY DEF Accept, Replay, PostEntry, Commission, CommissionFails, HookStep
<1>4. /\ tx'[w].claim = tx[w].claim /\ (tx[w].broken => tx'[w].broken)
      /\ tx' \in [Webhooks -> [claim : BOOLEAN, commission : BOOLEAN, broken : BOOLEAN]]
      /\ \A v \in Webhooks \ {w} : tx'[v] = tx[v]
  <2>1. CASE UNCHANGED tx
    BY <2>1 DEF TypeOK
  <2>2. CASE tx' = [tx EXCEPT ![w].commission = Earns(w)]
    <3>1. Earns(w) \in BOOLEAN
      BY DEF Earns
    <3> QED
      BY <2>2, <3>1 DEF TypeOK
  <2>3. CASE tx' = [tx EXCEPT ![w].broken = TRUE]
    BY <2>3 DEF TypeOK
  <2> QED
    BY <2>1, <2>2, <2>3 DEF Accept, Replay, PostEntry, Commission, CommissionFails
<1>5. entries \subseteq entries' /\ entries' \subseteq Charges
  BY <1>2 DEF TypeOK, Accept, Replay, PostEntry, Commission, CommissionFails
<1>6. faults' \in 0 .. MaxFaults
  BY ConstantsTyped DEF TypeOK, Accept, Replay, PostEntry, Commission, CommissionFails, Fault
<1>7. TypeOK'
  BY <1>1, <1>2, <1>3, <1>4, <1>5, <1>6, ConstantsTyped DEF TypeOK
<1>8. HookInv'
  <2> SUFFICES ASSUME NEW v \in Webhooks
               PROVE  /\ pc'[v] \in {"idle", "check", "claim"} => tx'[v] = CleanTx
                      /\ pc'[v] \in {"finanzas", "commission"} =>
                           tx'[v].claim /\ ~tx'[v].broken
                      /\ pc'[v] # "idle" => event'[v] \in paid'
                      /\ pc'[v] \notin {"idle", "check"} => event'[v] \in initiated'
                      /\ pc'[v] \in {"commission", "open", "last"} /\ tx'[v].claim =>
                           event'[v] \in entries'
                      /\ pc'[v] = "last" /\ ~ReplyFirst => tx'[v] = CleanTx
    BY DEF HookInv
  <2>1. CASE v # w
    BY <1>1, <1>3, <1>4, <1>5, <2>1 DEF HookInv, TypeOK
  <2>2. CASE v = w /\ Accept(w)
    BY <1>1, <1>2, <2>2 DEF HookInv, TypeOK, Accept, HookStep, Correlates
  <2>3. CASE v = w /\ Replay(w)
    BY <1>1, <1>2, <2>3, CleanTyped DEF HookInv, TypeOK, Replay, HookStep
  <2>4. CASE v = w /\ PostEntry(w)
    BY <1>1, <1>2, <2>4 DEF HookInv, TypeOK, PostEntry, HookStep
  <2>5. CASE v = w /\ (Commission(w) \/ CommissionFails(w))
    BY <1>1, <1>2, <1>4, <2>5 DEF HookInv, TypeOK, Commission, CommissionFails, HookStep,
                                  CreditsAccounted
  <2> QED
    BY <2>1, <2>2, <2>3, <2>4, <2>5
<1>9. ClaimInv'
  <2>1. \A v \in Webhooks : /\ tx'[v].claim = tx[v].claim
                            /\ ~tx'[v].broken => ~tx[v].broken
    BY <1>4
  <2>2. SUFFICES ASSUME NEW v \in Webhooks, tx'[v].claim, ~tx'[v].broken
                 PROVE  payments[event[v]] = 0 /\ ClaimFree(v)'
    BY <1>1 DEF ClaimInv
  <2>3. payments[event[v]] = 0 /\ ClaimFree(v)
    BY <2>1, <2>2 DEF ClaimInv
  <2>4. ClaimFree(v)'
    <3>1. ASSUME NEW u \in Webhooks \ {v}
          PROVE  ~(event'[u] = event'[v] /\ tx'[u].claim /\ ~tx'[u].broken)
      BY <1>1, <2>1, <2>3, <3>1 DEF ClaimFree
    <3> QED
      BY <3>1 DEF ClaimFree
  <2> QED
    BY <2>3, <2>4
<1>10. ReplayMeansCredited'
  <2>1. tx'[w].claim \/ payments[event[w]] > 0 \/ pc'[w] = "claim"
    BY <1>4 DEF HookInv, Accept, Replay, PostEntry, Commission, CommissionFails, HookStep, TypeOK
  <2> QED
    BY <1>1, <1>3, <1>4, <2>1 DEF ReplayMeansCredited, TypeOK
<1>11. CreditsAccounted'
  BY <1>1, <1>5 DEF CreditsAccounted
<1> QED
  BY <1>7, <1>8, <1>9, <1>10, <1>11

\* An INSERT that finds neither a committed row nor an open one.
LEMMA ClaimIInv ==
  ASSUME IInv, NEW w \in Webhooks, Claim(w)
  PROVE  IInv'
<1> USE DEF IInv
<1>1. /\ pc[w] = "claim" /\ ClaimFree(w) /\ payments[event[w]] = 0
      /\ tx[w] = CleanTx
      /\ pc' = [pc EXCEPT ![w] = "finanzas"]
      /\ tx' = [tx EXCEPT ![w].claim = TRUE]
      /\ UNCHANGED <<call, initiated, url, paid, called, acked, rejected, event, payments, wallet,
                     commissions, entries, faults>>
  BY DEF Claim, HookStep, book, HookInv
<1>2. tx' \in [Webhooks -> [claim : BOOLEAN, commission : BOOLEAN, broken : BOOLEAN]]
  BY <1>1 DEF TypeOK
<1>3. /\ tx'[w].claim /\ ~tx'[w].broken
      /\ \A v \in Webhooks \ {w} : tx'[v] = tx[v]
  BY <1>1, CleanTyped DEF TypeOK
<1>4. TypeOK'
  BY <1>1, <1>2 DEF TypeOK
<1>5. HookInv'
  BY <1>1, <1>3 DEF HookInv, TypeOK
<1>6. ClaimInv'
  <2> SUFFICES ASSUME NEW v \in Webhooks, tx'[v].claim, ~tx'[v].broken
               PROVE  payments[event[v]] = 0 /\ ClaimFree(v)'
    BY <1>1 DEF ClaimInv
  <2>1. CASE v = w
    BY <1>1, <1>3, <2>1 DEF ClaimFree
  <2>2. CASE v # w
    <3>1. payments[event[v]] = 0 /\ ClaimFree(v)
      BY <1>3, <2>2 DEF ClaimInv
    <3>2. event[v] # event[w]
      BY <1>1, <1>3, <2>2 DEF ClaimFree
    <3> QED
      BY <1>1, <1>3, <3>1, <3>2 DEF ClaimFree
  <2> QED
    BY <2>1, <2>2
<1>7. ReplayMeansCredited' /\ CreditsAccounted'
  BY <1>1, <1>3 DEF ReplayMeansCredited, CreditsAccounted, TypeOK
<1> QED
  BY <1>4, <1>5, <1>6, <1>7

\* What a commit makes visible, and what it leaves of the webhook.
LEMMA CommitFacts ==
  ASSUME IInv, NEW w \in Webhooks, Commit(w)
  PROVE  /\ pc[w] \in {"open", "last"} /\ event[w] \in Charges
         /\ tx' = [tx EXCEPT ![w] = CleanTx]
         /\ pc' = [pc EXCEPT ![w] = IF ReplyFirst THEN "idle" ELSE "last"]
         /\ event' = [event EXCEPT ![w] = IF ReplyFirst THEN NoCharge ELSE @]
         /\ payments' = IF tx[w].claim /\ ~tx[w].broken
                          THEN [payments EXCEPT ![event[w]] = 1] ELSE payments
         /\ UNCHANGED <<call, initiated, url, paid, called, acked, rejected, entries, faults>>
         /\ \A q \in Charges : payments'[q] >= payments[q]
<1>1. pc[w] \in {"open", "last"} /\ event[w] \in Charges
  BY DEF IInv, TypeOK, Commit
<1>2. /\ tx' = [tx EXCEPT ![w] = CleanTx]
      /\ pc' = [pc EXCEPT ![w] = IF ReplyFirst THEN "idle" ELSE "last"]
      /\ event' = [event EXCEPT ![w] = IF ReplyFirst THEN NoCharge ELSE @]
      /\ UNCHANGED <<call, initiated, url, paid, called, acked, rejected, entries, faults>>
  BY DEF Commit, Leave
<1>3. tx[w].claim /\ ~tx[w].broken => payments[event[w]] = 0
  BY DEF IInv, ClaimInv
<1>4. payments' = IF tx[w].claim /\ ~tx[w].broken
                    THEN [payments EXCEPT ![event[w]] = 1] ELSE payments
  <2>1. CASE tx[w].claim /\ ~tx[w].broken
    <3>1. payments' = [payments EXCEPT ![event[w]] = @ + 1]
      BY <2>1, Zenon DEF Commit
    <3>2. payments[event[w]] + 1 = 1
      BY <1>3, <2>1
    <3> QED
      BY <2>1, <3>1, <3>2
  <2>2. CASE ~(tx[w].claim /\ ~tx[w].broken)
    BY <2>2 DEF Commit
  <2> QED
    BY <2>1, <2>2
<1>5. \A q \in Charges : payments'[q] >= payments[q]
  BY <1>1, <1>3, <1>4 DEF IInv, TypeOK
<1> QED
  BY <1>1, <1>2, <1>4, <1>5

LEMMA CommitIInv ==
  ASSUME IInv, NEW w \in Webhooks, Commit(w)
  PROVE  IInv'
<1> USE DEF IInv
<1>1. /\ pc[w] \in {"open", "last"} /\ event[w] \in Charges
      /\ tx' = [tx EXCEPT ![w] = CleanTx]
      /\ pc' = [pc EXCEPT ![w] = IF ReplyFirst THEN "idle" ELSE "last"]
      /\ event' = [event EXCEPT ![w] = IF ReplyFirst THEN NoCharge ELSE @]
      /\ UNCHANGED <<call, initiated, url, paid, called, acked, rejected, entries, faults>>
  BY CommitFacts
<1>2. /\ payments' = IF tx[w].claim /\ ~tx[w].broken
                       THEN [payments EXCEPT ![event[w]] = 1] ELSE payments
      /\ \A q \in Charges : payments'[q] >= payments[q]
  BY CommitFacts
<1>3. TypeOK'
  <2>1. ClientOf[event[w]] \in Clients /\ AmountOf[event[w]] \in Nat
    BY <1>1, ConstantsTyped
  <2>2. wallet' \in [Clients -> Nat]
    <3>1. CASE UNCHANGED wallet
      BY <3>1 DEF TypeOK
    <3>2. CASE wallet' = [wallet EXCEPT ![ClientOf[event[w]]] = @ + AmountOf[event[w]]]
      BY <2>1, <3>2 DEF TypeOK
    <3> QED
      BY <3>1, <3>2 DEF Commit
  <2>3. payments' \in [Charges -> Nat] /\ commissions' \subseteq Charges
    BY <1>1, <1>2 DEF Commit, TypeOK
  <2>4. /\ pc' \in [Webhooks -> {"idle", "check", "claim", "finanzas", "commission", "open",
                                 "last"}]
        /\ event' \in [Webhooks -> Charges \cup {NoCharge}]
        /\ \A v \in Webhooks : event'[v] = NoCharge <=> pc'[v] = "idle"
        /\ tx' \in [Webhooks -> [claim : BOOLEAN, commission : BOOLEAN, broken : BOOLEAN]]
    BY <1>1, CleanTyped, ConstantsTyped DEF TypeOK
  <2> QED
    BY <1>1, <2>2, <2>3, <2>4 DEF TypeOK
<1>4. HookInv'
  <2>1. tx'[w] = CleanTx /\ ~tx'[w].claim /\ \A v \in Webhooks \ {w} : tx'[v] = tx[v]
    BY <1>1, CleanTyped DEF TypeOK
  <2> QED
    BY <1>1, <2>1 DEF HookInv, TypeOK
<1>5. ClaimInv'
  <2> SUFFICES ASSUME NEW v \in Webhooks, tx'[v].claim, ~tx'[v].broken
               PROVE  payments'[event'[v]] = 0 /\ ClaimFree(v)'
    BY DEF ClaimInv
  <2>1. v # w /\ tx[v].claim /\ ~tx[v].broken /\ event'[v] = event[v]
    BY <1>1, CleanTyped DEF TypeOK
  <2>2. payments[event[v]] = 0 /\ ClaimFree(v)
    BY <2>1 DEF ClaimInv
  <2>3. tx[w].claim /\ ~tx[w].broken => event[w] # event[v]
    BY <2>1, <2>2 DEF ClaimFree
  <2>4. event[v] \in Charges
    <3>1. pc[v] # "idle"
      BY <2>1, CleanTyped DEF HookInv
    <3> QED
      BY <3>1 DEF TypeOK
  <2>5. payments'[event'[v]] = 0
    BY <1>1, <1>2, <2>1, <2>2, <2>3, <2>4 DEF TypeOK
  <2>6. ClaimFree(v)'
    <3>1. ASSUME NEW u \in Webhooks \ {v}
          PROVE  ~(event'[u] = event'[v] /\ tx'[u].claim /\ ~tx'[u].broken)
      BY <1>1, <2>1, <2>2, <3>1, CleanTyped DEF ClaimFree, TypeOK
    <3> QED
      BY <3>1 DEF ClaimFree
  <2> QED
    BY <2>5, <2>6
<1>6. ReplayMeansCredited'
  <2> SUFFICES ASSUME NEW v \in Webhooks, pc'[v] \in {"open", "last"}, ~tx'[v].claim,
                      ReplyFirst \/ pc'[v] = "open"
               PROVE  payments'[event'[v]] > 0
    BY DEF ReplayMeansCredited
  <2>1. v # w
    BY <1>1 DEF TypeOK
  <2>2. /\ pc[v] = pc'[v] /\ event'[v] = event[v] /\ tx'[v] = tx[v]
    BY <1>1, <2>1 DEF TypeOK
  <2>3. payments[event[v]] > 0 /\ event[v] \in Charges
    BY <2>2 DEF ReplayMeansCredited, TypeOK
  <2> QED
    BY <1>2, <2>2, <2>3 DEF TypeOK
<1>7. CreditsAccounted'
  <2>1. tx[w].claim => event[w] \in initiated /\ event[w] \in entries
    BY <1>1 DEF HookInv
  <2>2. (\A q \in Charges : payments[q] > 0 => q \in initiated /\ q \in entries)'
    BY <1>1, <1>2, <2>1 DEF CreditsAccounted, TypeOK
  <2>3. (\A q \in commissions : payments[q] > 0)'
    BY <1>1, <1>2 DEF CreditsAccounted, Commit, TypeOK
  <2> QED
    BY <2>2, <2>3 DEF CreditsAccounted
<1> QED
  BY <1>3, <1>4, <1>5, <1>6, <1>7

LEMMA AnswerIInv ==
  ASSUME IInv, NEW w \in Webhooks, Answer(w)
  PROVE  IInv'
<1> USE DEF IInv
<1>1. /\ pc[w] = (IF ReplyFirst THEN "open" ELSE "last")
      /\ pc' = [pc EXCEPT ![w] = IF ReplyFirst THEN "last" ELSE "idle"]
      /\ event' = [event EXCEPT ![w] = IF ReplyFirst THEN @ ELSE NoCharge]
      /\ acked' = acked \cup {event[w]}
      /\ UNCHANGED <<call, initiated, url, paid, called, rejected, tx, payments, wallet,
                     commissions, entries, faults>>
  BY DEF Answer, Leave, book
<1>2. event[w] \in Charges /\ event[w] \in paid
  BY <1>1 DEF TypeOK, HookInv
<1>3. TypeOK'
  BY <1>1, <1>2, ConstantsTyped DEF TypeOK
<1>4. ~ReplyFirst => tx[w] = CleanTx
  BY <1>1 DEF HookInv
<1>5. HookInv'
  BY <1>1, <1>4, ConstantsTyped DEF HookInv, TypeOK
<1>6. ClaimInv'
  BY <1>1, <1>4, CleanTyped, ConstantsTyped DEF ClaimInv, ClaimFree, TypeOK
<1>7. ReplayMeansCredited' /\ CreditsAccounted'
  BY <1>1, ConstantsTyped DEF ReplayMeansCredited, CreditsAccounted, TypeOK
<1> QED
  BY <1>3, <1>5, <1>6, <1>7

LEMMA NextIInv == IInv /\ [Next]_vars => IInv'
<1> SUFFICES ASSUME IInv, [Next]_vars PROVE IInv'
  OBVIOUS
<1>1. ASSUME NEW q \in Charges, Initiate(q) \/ CallAction(q) \/ FailCall(q) \/ Pay(q)
      PROVE  IInv'
  BY <1>1, CallIInv
<1>2. ASSUME NEW w \in Webhooks, NEW q \in Charges, Notify(w, q) \/ Redeliver(w, q)
      PROVE  IInv'
  BY <1>2, ReceiveIInv
<1>7. ASSUME NEW q \in Charges, LoseCall(q)
      PROVE  IInv'
  BY <1>7, LoseCallIInv
<1>3. ASSUME NEW w \in Webhooks, Reject(w) \/ PostEntryFails(w) \/ Crash(w)
      PROVE  IInv'
  <2>1. event[w] \in paid /\ event[w] \in Charges
    BY <1>3 DEF Reject, PostEntryFails, Crash, IInv, HookInv, TypeOK
  <2>2. /\ GiveUp(w)
        /\ UNCHANGED <<call, initiated, url, paid, called, acked, payments, wallet, commissions>>
    BY <1>3 DEF Reject, PostEntryFails, Crash, book
  <2>3. entries \subseteq entries' /\ entries' \subseteq Charges /\ rejected' \subseteq paid
    BY <1>3, <2>1 DEF Reject, PostEntryFails, Crash, IInv, TypeOK
  <2>4. faults' \in 0 .. MaxFaults
    BY <1>3, ConstantsTyped DEF Reject, PostEntryFails, Crash, Fault, IInv, TypeOK
  <2> QED
    BY <2>2, <2>3, <2>4, GiveUpIInv
<1>4. ASSUME NEW w \in Webhooks,
             Accept(w) \/ Replay(w) \/ PostEntry(w) \/ Commission(w) \/ CommissionFails(w)
      PROVE  IInv'
  BY <1>4, HandlerIInv
<1>5. ASSUME NEW w \in Webhooks, Claim(w) \/ Commit(w) \/ Answer(w)
      PROVE  IInv'
  BY <1>5, ClaimIInv, CommitIInv, AnswerIInv
<1>6. CASE UNCHANGED vars
  BY <1>6 DEF vars, hook, book, IInv, TypeOK, HookInv, ClaimInv, ClaimFree,
              ReplayMeansCredited, CreditsAccounted
<1> QED
  BY <1>1, <1>2, <1>3, <1>4, <1>5, <1>6, <1>7 DEF Next, HookAction

(***************************************************************************)
(* Theorems                                                                *)
(***************************************************************************)

\* The inductive invariant holds in every reachable state, in either order
\* of commit and response.
THEOREM Invariance == Spec => []IInv
<1> QED
  BY InitIInv, NextIInv, PTL DEF Spec

\* Every state is well-typed.
THEOREM TypeCorrect == Spec => []TypeOK
<1>1. IInv => TypeOK
  BY DEF IInv
<1> QED
  BY <1>1, Invariance, PTL

\* duplicate_ignored is told only of a payment another webhook committed.
THEOREM ReplayAlwaysRight == Spec => []ReplayMeansCredited
<1>1. IInv => ReplayMeansCredited
  BY DEF IInv
<1> QED
  BY <1>1, Invariance, PTL

\* A credited payment was initiated and is in Finanzas-Core, and a
\* commission has its payment.
THEOREM BooksAgree == Spec => []CreditsAccounted
<1>1. IInv => CreditsAccounted
  BY DEF IInv
<1> QED
  BY <1>1, Invariance, PTL

\* The webhooks, whatever their interleaving, their failures and the order
\* of commit and response, credit a paid intent at most once and in full.
THEOREM Refinement == Spec => ImplementsIntake
<1> DEFINE done == {q \in Charges : payments[q] > 0}
<1>1. Init => Intake!Init
  BY DEF Init, Intake!Init
<1>2. IInv /\ [Next]_vars => [Intake!Next]_(Intake!ivars)
  <2> SUFFICES ASSUME IInv, [Next]_vars
               PROVE  Intake!Next \/ UNCHANGED Intake!ivars
    OBVIOUS
  <2>1. ASSUME NEW q \in Charges, Pay(q)
        PROVE  Intake!Next
    BY <2>1 DEF Pay, book, Intake!Next, Intake!Pay
  <2>2. ASSUME NEW w \in Webhooks, Commit(w)
        PROVE  Intake!Next \/ UNCHANGED Intake!ivars
    <3>1. /\ pc[w] \in {"open", "last"} /\ event[w] \in Charges /\ UNCHANGED paid
          /\ payments' = IF tx[w].claim /\ ~tx[w].broken
                           THEN [payments EXCEPT ![event[w]] = 1] ELSE payments
      BY <2>2, CommitFacts
    <3>2. CASE tx[w].claim /\ ~tx[w].broken
      <4>1. event[w] \in paid /\ payments[event[w]] = 0
        BY <3>1, <3>2 DEF IInv, HookInv, ClaimInv
      <4>2. done' = done \cup {event[w]} /\ event[w] \notin done
        BY <3>1, <3>2, <4>1 DEF IInv, TypeOK
      <4>3. wallet' = [wallet EXCEPT ![ClientOf[event[w]]] = @ + AmountOf[event[w]]]
        BY <2>2, <3>2, Zenon DEF Commit
      <4>4. Intake!Credit(event[w])
        BY <3>1, <4>1, <4>2, <4>3 DEF Intake!Credit
      <4> QED
        BY <3>1, <4>4 DEF Intake!Next, Intake!Credit
    <3>3. CASE ~(tx[w].claim /\ ~tx[w].broken)
      <4>1. UNCHANGED <<payments, wallet>>
        BY <2>2, <3>3 DEF Commit
      <4> QED
        BY <3>1, <4>1 DEF Intake!ivars
    <3> QED
      BY <3>2, <3>3
  <2>3. ASSUME UNCHANGED <<paid, payments, wallet>>
        PROVE  UNCHANGED Intake!ivars
    BY <2>3 DEF Intake!ivars
  <2>4. CASE Next
    <3>1. \/ \E q \in Charges : Pay(q)
          \/ \E w \in Webhooks : Commit(w)
          \/ UNCHANGED <<paid, payments, wallet>>
      BY <2>4 DEF Next, Initiate, CallAction, CommitCall, ReplyCall, FailCall, Receive,
           Notify, LoseCall, Redeliver, HookAction, Accept, Reject, Claim, Replay, PostEntry,
           PostEntryFails, Commission,
           CommissionFails, Answer, Crash, book
    <3> QED
      BY <2>1, <2>2, <2>3, <3>1
  <2>5. CASE UNCHANGED vars
    BY <2>3, <2>5 DEF vars, book
  <2> QED
    BY <2>4, <2>5
<1> QED
  BY <1>1, <1>2, Invariance, PTL DEF Spec, ImplementsIntake, Intake!Spec

-----------------------------------------------------------------------------
(***************************************************************************)
(* When the CAF may answer 2xx: the two ways to lose a payment that was    *)
(* answered with a 2xx are a response sent before the commit and a         *)
(* commission that fails.  Without them no transaction is broken, and what *)
(* is about to be answered is booked.                                      *)
(***************************************************************************)
ReplyInv ==
  /\ \A w \in Webhooks : ~tx[w].broken /\ (pc[w] = "last" => payments[event[w]] > 0)
  /\ AckedIsCredited

LEMMA ReplyStep ==
  ASSUME ~ReplyFirst, ~CommissionErrors, IInv, ReplyInv, [Next]_vars
  PROVE  ReplyInv'
<1>1. ASSUME NEW w \in Webhooks, Commit(w) PROVE ReplyInv'
  <2>1. /\ tx' = [tx EXCEPT ![w] = CleanTx]
        /\ pc' = [pc EXCEPT ![w] = "last"] /\ event' = [event EXCEPT ![w] = @]
        /\ acked' = acked /\ event[w] \in Charges
        /\ payments' = IF tx[w].claim /\ ~tx[w].broken
                         THEN [payments EXCEPT ![event[w]] = 1] ELSE payments
        /\ \A q \in Charges : payments'[q] >= payments[q]
    BY <1>1, CommitFacts
  <2>2. pc[w] = "open"
    BY <1>1 DEF Commit
  <2>3. payments'[event[w]] > 0
    <3>1. CASE tx[w].claim
      BY <2>1, <3>1 DEF ReplyInv, IInv, TypeOK
    <3>2. CASE ~tx[w].claim
      BY <2>1, <2>2, <3>2 DEF IInv, ReplayMeansCredited
    <3> QED BY <3>1, <3>2
  <2>4. \A q \in Charges : payments[q] > 0 => payments'[q] > 0
    <3> TAKE q \in Charges
    <3>1. payments[q] \in Nat /\ payments'[q] \in Nat
      BY <2>1 DEF IInv, TypeOK
    <3> QED BY <2>1, <3>1
  <2>5. \A v \in Webhooks : ~tx'[v].broken /\ (pc'[v] = "last" => payments'[event'[v]] > 0)
    <3> TAKE v \in Webhooks
    <3>1. CASE v = w
      BY <2>1, <2>3, <3>1, CleanTyped DEF IInv, TypeOK
    <3>2. CASE v # w
      <4>1. tx'[v] = tx[v] /\ pc'[v] = pc[v] /\ event'[v] = event[v]
        BY <2>1, <3>2 DEF IInv, TypeOK
      <4>2. pc[v] = "last" => event[v] \in Charges
        BY DEF IInv, TypeOK
      <4> QED BY <2>4, <4>1, <4>2 DEF ReplyInv
    <3> QED BY <3>1, <3>2
  <2>6. AckedIsCredited'
    BY <2>1, <2>4 DEF ReplyInv, AckedIsCredited, IInv, TypeOK
  <2> QED BY <2>5, <2>6 DEF ReplyInv
<1>2. ASSUME NEW w \in Webhooks, Answer(w) PROVE ReplyInv'
  <2>1. /\ pc[w] = "last" /\ pc' = [pc EXCEPT ![w] = "idle"]
        /\ event' = [event EXCEPT ![w] = NoCharge]
        /\ acked' = acked \cup {event[w]} /\ UNCHANGED <<tx, payments>>
    BY <1>2 DEF Answer, Leave, book
  <2> QED BY <2>1 DEF ReplyInv, AckedIsCredited, IInv, TypeOK
\* Nothing else reaches the last statement, breaks a transaction or answers.
<1>3. ASSUME UNCHANGED <<acked, payments>>,
             \A w \in Webhooks : /\ tx'[w].broken => tx[w].broken
                                 /\ pc'[w] = "last" => pc[w] = "last" /\ event'[w] = event[w]
      PROVE  ReplyInv'
  BY <1>3 DEF ReplyInv, AckedIsCredited
<1>4. ASSUME NEW q \in Charges,
             Initiate(q) \/ CallAction(q) \/ FailCall(q) \/ Pay(q) \/ LoseCall(q)
      PROVE  ReplyInv'
  <2>1. UNCHANGED <<acked, pc, event, tx, payments>>
    BY <1>4 DEF Initiate, CallAction, CommitCall, ReplyCall, FailCall, Pay, LoseCall, hook,
                  book
  <2> QED BY <1>3, <2>1
<1>5. ASSUME NEW w \in Webhooks, NEW q \in Charges, Notify(w, q) \/ Redeliver(w, q)
      PROVE  ReplyInv'
  <2>1. /\ UNCHANGED <<acked, tx, payments>> /\ pc' = [pc EXCEPT ![w] = "check"]
        /\ event' = [event EXCEPT ![w] = q]
    BY <1>5 DEF Notify, Redeliver, Receive, HookStep, book
  <2>2. \A v \in Webhooks : pc'[v] = "last" => pc[v] = "last" /\ event'[v] = event[v]
    BY <2>1 DEF IInv, TypeOK
  <2> QED BY <1>3, <2>1, <2>2
<1>6. ASSUME NEW w \in Webhooks, Reject(w) \/ PostEntryFails(w) \/ Crash(w) PROVE ReplyInv'
  <2>1. /\ UNCHANGED <<acked, payments>> /\ pc' = [pc EXCEPT ![w] = "idle"]
        /\ event' = [event EXCEPT ![w] = NoCharge] /\ tx' = [tx EXCEPT ![w] = CleanTx]
    BY <1>6 DEF Reject, PostEntryFails, Crash, GiveUp, book
  <2>2. \A v \in Webhooks : /\ tx'[v].broken => tx[v].broken
                            /\ pc'[v] = "last" => pc[v] = "last" /\ event'[v] = event[v]
    BY <2>1, CleanTyped DEF IInv, TypeOK
  <2> QED BY <1>3, <2>1, <2>2
<1>7. ASSUME NEW w \in Webhooks,
             Accept(w) \/ Replay(w) \/ Claim(w) \/ PostEntry(w) \/ Commission(w)
      PROVE  ReplyInv'
  <2>1. UNCHANGED <<acked, event, payments>>
    BY <1>7 DEF Accept, Replay, Claim, PostEntry, Commission, book
  <2>2. PICK l \in {"claim", "open", "finanzas", "commission"} : pc' = [pc EXCEPT ![w] = l]
    BY <1>7 DEF Accept, Replay, Claim, PostEntry, Commission, HookStep
  <2>3. \A v \in Webhooks : tx'[v].broken => tx[v].broken
    <3>1. CASE UNCHANGED tx
      BY <3>1
    <3>2. CASE tx' = [tx EXCEPT ![w].commission = Earns(w)]
      BY <3>2 DEF IInv, TypeOK
    <3>3. CASE tx' = [tx EXCEPT ![w].claim = TRUE]
      BY <3>3 DEF IInv, TypeOK
    <3> QED BY <1>7, <3>1, <3>2, <3>3 DEF Accept, Replay, Claim, PostEntry, Commission
  <2>4. \A v \in Webhooks : pc'[v] = "last" => pc[v] = "last" /\ event'[v] = event[v]
    BY <2>1, <2>2 DEF IInv, TypeOK
  <2> QED BY <1>3, <2>1, <2>3, <2>4
<1>8. CASE UNCHANGED vars
  BY <1>3, <1>8 DEF vars, hook, book
<1> QED
  <2>1. \A w \in Webhooks : ~CommissionFails(w)
    BY DEF CommissionFails
  <2> QED
    BY <1>1, <1>2, <1>4, <1>5, <1>6, <1>7, <1>8, <2>1 DEF Next, HookAction

\* With the commit before the response, and a commission that does not fail,
\* the hub is answered with a 2xx only when the payment is in the book: the two causes
\* are the only ones that lose an answered payment.
THEOREM AckedAfterCommit ==
  ASSUME ~ReplyFirst, ~CommissionErrors
  PROVE  Spec => []AckedIsCredited
<1>1. Init => ReplyInv
  BY CleanTyped DEF Init, ReplyInv, AckedIsCredited
<1>2. IInv /\ ReplyInv /\ [Next]_vars => ReplyInv'
  BY ReplyStep
<1>3. ReplyInv => AckedIsCredited
  BY DEF ReplyInv
<1> QED
  BY <1>1, <1>2, <1>3, Invariance, PTL DEF Spec

-----------------------------------------------------------------------------
(***************************************************************************)
(* When a referrer earns once: if the server handles one webhook at a      *)
(* time, no payment enters between the count of a client's payments and    *)
(* the commit of the commission.                                           *)
(***************************************************************************)
Booked == {q \in Charges : payments[q] > 0}

FirstInv ==
  /\ IsFiniteSet(Booked)
  /\ \A w \in Webhooks : tx[w].commission =>
       \A q \in Booked : ClientOf[q] = ClientOf[event[w]] => q = event[w]
  /\ OneCommissionPerClient

\* A client whose payments count as one has no other payment.
LEMMA FirstPayment ==
  ASSUME IInv, IsFiniteSet(Booked), NEW w \in Webhooks, event[w] \in Charges, Earns(w),
         NEW q \in Booked, ClientOf[q] = ClientOf[event[w]]
  PROVE  q = event[w]
<1>1. IsFiniteSet(SeenPayments(w))
  <2>1. IsFiniteSet(Booked \cup {event[w]})
    BY FS_AddElement
  <2>2. SeenPayments(w) \subseteq Booked \cup {event[w]}
    BY DEF SeenPayments, Booked
  <2> QED BY <2>1, <2>2, FS_Subset
<1>2. Cardinality(SeenPayments(w)) = 1
  BY DEF Earns
<1>3. \E p : SeenPayments(w) = {p}
  BY <1>1, <1>2, FS_Singleton
<1>4. q \in SeenPayments(w) /\ event[w] \in SeenPayments(w)
  BY DEF SeenPayments, Booked
<1> QED BY <1>3, <1>4

LEMMA FirstStep ==
  ASSUME \A v, w \in Webhooks : v = w, IInv, FirstInv, [Next]_vars
  PROVE  FirstInv'
<1>1. ASSUME NEW w \in Webhooks, Commit(w) PROVE FirstInv'
  <2> DEFINE books == tx[w].claim /\ ~tx[w].broken
  <2>1. /\ tx' = [tx EXCEPT ![w] = CleanTx] /\ event[w] \in Charges
        /\ payments' = IF books THEN [payments EXCEPT ![event[w]] = 1] ELSE payments
    BY <1>1, CommitFacts
  <2>2. commissions' = IF books /\ tx[w].commission THEN commissions \cup {event[w]}
                                                    ELSE commissions
    BY <1>1, Zenon DEF Commit
  <2>3. Booked' = IF books THEN Booked \cup {event[w]} ELSE Booked
    BY <2>1 DEF Booked, IInv, TypeOK
  <2>4. IsFiniteSet(Booked')
    BY <2>3, FS_AddElement DEF FirstInv
  <2>5. \A v \in Webhooks : ~tx'[v].commission
    BY <2>1, CleanTyped DEF IInv, TypeOK
  <2>6. \A p \in commissions : p \in Booked
    BY DEF IInv, CreditsAccounted, Booked, TypeOK
  <2>7. OneCommissionPerClient'
    <3>1. tx[w].commission => \A p \in Booked : ClientOf[p] = ClientOf[event[w]] => p = event[w]
      BY DEF FirstInv
    <3> QED BY <2>2, <2>6, <3>1 DEF FirstInv, OneCommissionPerClient
  <2> QED BY <2>4, <2>5, <2>7 DEF FirstInv
<1>2. ASSUME NEW w \in Webhooks, Commission(w) PROVE FirstInv'
  <2>1. /\ tx' = [tx EXCEPT ![w].commission = Earns(w)]
        /\ UNCHANGED <<event, payments, commissions>> /\ event[w] \in Charges
    BY <1>2 DEF Commission, HookStep, book, IInv, TypeOK
  <2>2. \A v \in Webhooks : v = w /\ (tx'[v].commission <=> Earns(w))
    BY <2>1 DEF IInv, TypeOK
  <2>3. Booked' = Booked
    BY <2>1 DEF Booked
  <2> QED BY <2>1, <2>2, <2>3, FirstPayment DEF FirstInv, OneCommissionPerClient
\* Nothing else counts payments or writes them.
<1>3. ASSUME UNCHANGED <<payments, commissions>>,
             \A w \in Webhooks : tx'[w].commission => tx[w].commission /\ event'[w] = event[w]
      PROVE  FirstInv'
  <2>1. Booked' = Booked
    BY <1>3 DEF Booked
  <2> QED BY <1>3, <2>1 DEF FirstInv, OneCommissionPerClient
<1>4. ASSUME NEW q \in Charges,
             Initiate(q) \/ CallAction(q) \/ FailCall(q) \/ Pay(q) \/ LoseCall(q)
      PROVE  FirstInv'
  <2>1. UNCHANGED <<event, tx, payments, commissions>>
    BY <1>4 DEF Initiate, CallAction, CommitCall, ReplyCall, FailCall, Pay, LoseCall, hook,
                  book
  <2> QED BY <1>3, <2>1
<1>5. ASSUME NEW w \in Webhooks, NEW q \in Charges, Notify(w, q) \/ Redeliver(w, q)
      PROVE  FirstInv'
  <2>1. UNCHANGED <<tx, payments, commissions>> /\ event' = [event EXCEPT ![w] = q]
    BY <1>5 DEF Notify, Redeliver, Receive, book
  <2>2. ~tx[w].commission
    BY <1>5, CleanTyped DEF Notify, Redeliver, Receive, HookStep, IInv, HookInv
  <2> QED BY <1>3, <2>1, <2>2 DEF IInv, TypeOK
<1>6. ASSUME NEW w \in Webhooks, Reject(w) \/ PostEntryFails(w) \/ Crash(w)
      PROVE  FirstInv'
  <2>1. /\ UNCHANGED <<payments, commissions>> /\ event' = [event EXCEPT ![w] = NoCharge]
        /\ tx' = [tx EXCEPT ![w] = CleanTx]
    BY <1>6 DEF Reject, PostEntryFails, Crash, GiveUp, book
  <2> QED BY <1>3, <2>1, CleanTyped DEF IInv, TypeOK
<1>7. ASSUME NEW w \in Webhooks,
             Accept(w) \/ Replay(w) \/ Claim(w) \/ PostEntry(w) \/ CommissionFails(w)
      PROVE  FirstInv'
  <2>1. UNCHANGED <<event, payments, commissions>>
    BY <1>7 DEF Accept, Replay, Claim, PostEntry, CommissionFails, book
  <2>2. \A v \in Webhooks : tx'[v].commission = tx[v].commission
    BY <1>7 DEF Accept, Replay, Claim, PostEntry, CommissionFails, IInv, TypeOK
  <2> QED BY <1>3, <2>1, <2>2
<1>8. ASSUME NEW w \in Webhooks, Answer(w) PROVE FirstInv'
  <2>1. UNCHANGED <<tx, payments, commissions>>
        /\ event' = [event EXCEPT ![w] = IF ReplyFirst THEN @ ELSE NoCharge]
        /\ (pc[w] = "last" \/ ReplyFirst)
    BY <1>8 DEF Answer, Leave, book
  <2>2. ~ReplyFirst => ~tx[w].commission
    BY <2>1, CleanTyped DEF IInv, HookInv
  <2> QED BY <1>3, <2>1, <2>2 DEF IInv, TypeOK
<1>9. CASE UNCHANGED vars
  BY <1>3, <1>9 DEF vars, hook, book
<1> QED
  BY <1>1, <1>2, <1>4, <1>5, <1>6, <1>7, <1>8, <1>9 DEF Next, HookAction

\* If webhooks are handled one at a time, whatever fails and in either order
\* of commit and response, a client's referrer earns on one payment only: two
\* commissions of one client need webhooks that overlap.
THEOREM OneCommissionInTurn ==
  ASSUME \A v, w \in Webhooks : v = w
  PROVE  Spec => []OneCommissionPerClient
<1>1. Init => FirstInv
  <2> SUFFICES ASSUME Init PROVE FirstInv
    OBVIOUS
  <2>1. Booked = {}
    BY DEF Init, Booked
  <2> QED BY <2>1, CleanTyped, FS_EmptySet DEF Init, FirstInv, OneCommissionPerClient
<1>2. IInv /\ FirstInv /\ [Next]_vars => FirstInv'
  BY FirstStep
<1>3. FirstInv => OneCommissionPerClient
  BY DEF FirstInv
<1> QED
  BY <1>1, <1>2, <1>3, Invariance, PTL DEF Spec

-----------------------------------------------------------------------------
(***************************************************************************)
(* Plan purchases: the hub reports every charge with its default purpose,  *)
(* so the webhook lets no plan purchase past its check.                    *)
(***************************************************************************)
OnlyRecharges == \A q \in Charges : payments[q] > 0 => PurposeOf[q] = "wallet_recharge"

PurposeInv ==
  /\ \A w \in Webhooks :
       pc[w] \notin {"idle", "check"} => PurposeOf[event[w]] = "wallet_recharge"
  /\ OnlyRecharges

LEMMA PurposeStep == ASSUME IInv, PurposeInv, [Next]_vars PROVE PurposeInv'
<1>1. ASSUME NEW w \in Webhooks, Commit(w) PROVE PurposeInv'
  <2>1. /\ pc[w] \in {"open", "last"} /\ event[w] \in Charges
        /\ pc' = [pc EXCEPT ![w] = IF ReplyFirst THEN "idle" ELSE "last"]
        /\ event' = [event EXCEPT ![w] = IF ReplyFirst THEN NoCharge ELSE @]
        /\ payments' = IF tx[w].claim /\ ~tx[w].broken
                         THEN [payments EXCEPT ![event[w]] = 1] ELSE payments
    BY <1>1, CommitFacts
  <2>2. OnlyRecharges'
    BY <2>1 DEF PurposeInv, OnlyRecharges, IInv, TypeOK
  <2>3. \A v \in Webhooks : pc'[v] \notin {"idle", "check"} =>
          pc[v] \notin {"idle", "check"} /\ event'[v] = event[v]
    BY <2>1 DEF IInv, TypeOK
  <2> QED BY <2>2, <2>3 DEF PurposeInv
<1>2. ASSUME NEW w \in Webhooks, Accept(w) PROVE PurposeInv'
  <2>1. /\ pc' = [pc EXCEPT ![w] = "claim"] /\ UNCHANGED <<event, payments>>
        /\ PurposeOf[event[w]] = "wallet_recharge"
    BY <1>2 DEF Accept, HookStep, Correlates, HubPurpose, book
  <2> QED BY <2>1 DEF PurposeInv, OnlyRecharges, IInv, TypeOK
\* Nothing else books a payment or passes the check.
<1>3. ASSUME UNCHANGED payments,
             \A w \in Webhooks : pc'[w] \notin {"idle", "check"} =>
               pc[w] \notin {"idle", "check"} /\ event'[w] = event[w]
      PROVE  PurposeInv'
  BY <1>3 DEF PurposeInv, OnlyRecharges
<1>4. ASSUME NEW q \in Charges,
             Initiate(q) \/ CallAction(q) \/ FailCall(q) \/ Pay(q) \/ LoseCall(q)
      PROVE  PurposeInv'
  <2>1. UNCHANGED <<pc, event, payments>>
    BY <1>4 DEF Initiate, CallAction, CommitCall, ReplyCall, FailCall, Pay, LoseCall, hook,
                  book
  <2> QED BY <1>3, <2>1
<1>5. ASSUME NEW w \in Webhooks, NEW q \in Charges, Notify(w, q) \/ Redeliver(w, q)
      PROVE  PurposeInv'
  <2>1. /\ UNCHANGED payments /\ pc' = [pc EXCEPT ![w] = "check"]
        /\ event' = [event EXCEPT ![w] = q]
    BY <1>5 DEF Notify, Redeliver, Receive, HookStep, book
  <2> QED BY <1>3, <2>1 DEF IInv, TypeOK
<1>6. ASSUME NEW w \in Webhooks, Reject(w) \/ PostEntryFails(w) \/ Crash(w)
      PROVE  PurposeInv'
  <2>1. /\ UNCHANGED payments /\ pc' = [pc EXCEPT ![w] = "idle"]
        /\ event' = [event EXCEPT ![w] = NoCharge]
    BY <1>6 DEF Reject, PostEntryFails, Crash, GiveUp, book
  <2> QED BY <1>3, <2>1 DEF IInv, TypeOK
<1>7. ASSUME NEW w \in Webhooks,
             Replay(w) \/ Claim(w) \/ PostEntry(w) \/ Commission(w) \/ CommissionFails(w)
      PROVE  PurposeInv'
  <2>1. UNCHANGED <<event, payments>> /\ pc[w] \in {"claim", "finanzas", "commission"}
    BY <1>7 DEF Replay, Claim, PostEntry, Commission, CommissionFails, HookStep, book
  <2>2. PICK l \in {"open", "finanzas", "commission"} : pc' = [pc EXCEPT ![w] = l]
    BY <1>7 DEF Replay, Claim, PostEntry, Commission, CommissionFails, HookStep
  <2> QED BY <1>3, <2>1, <2>2 DEF IInv, TypeOK
<1>8. ASSUME NEW w \in Webhooks, Answer(w) PROVE PurposeInv'
  <2>1. /\ UNCHANGED payments /\ pc[w] \in {"open", "last"}
        /\ pc' = [pc EXCEPT ![w] = IF ReplyFirst THEN "last" ELSE "idle"]
        /\ event' = [event EXCEPT ![w] = IF ReplyFirst THEN @ ELSE NoCharge]
    BY <1>8 DEF Answer, Leave, book
  <2> QED BY <1>3, <2>1 DEF IInv, TypeOK
<1>9. CASE UNCHANGED vars
  BY <1>3, <1>9 DEF vars, hook, book
<1> QED
  BY <1>1, <1>2, <1>4, <1>5, <1>6, <1>7, <1>8, <1>9 DEF Next, HookAction

\* No behaviour credits a plan purchase, in either order of commit and
\* response and whatever fails: what PaidPlanIsCredited asks for never happens.
THEOREM PlansNeverCredited == Spec => []OnlyRecharges
<1>1. Init => PurposeInv
  BY DEF Init, PurposeInv, OnlyRecharges
<1>2. IInv /\ PurposeInv /\ [Next]_vars => PurposeInv'
  BY PurposeStep
<1>3. PurposeInv => OnlyRecharges
  BY DEF PurposeInv
<1> QED
  BY <1>1, <1>2, <1>3, Invariance, PTL DEF Spec

\* A webhook waits only for one that has inserted its row and is past that
\* statement, so among the open ones one is not waiting.
THEOREM SomeoneGoesOn == Spec => []NobodyStuck
<1>1. IInv => NobodyStuck
  <2>1. SUFFICES ASSUME HookInv PROVE NobodyStuck
    BY DEF IInv
  <2>2. ASSUME NEW w \in Webhooks, Waits(w)
        PROVE  \E v \in Webhooks : event[v] = event[w] /\ pc[v] # "idle" /\ tx[v].claim /\ ~Waits(v)
    <3>1. PICK v \in Webhooks : event[v] = event[w] /\ tx[v].claim
      BY <2>2 DEF Waits, ClaimFree
    <3>2. pc[v] \notin {"idle", "check", "claim"}
      <4>1. ~CleanTx.claim
        BY DEF CleanTx
      <4> QED  BY <2>1, <3>1, <4>1 DEF HookInv
    <3> QED  BY <3>1, <3>2 DEF Waits
  <2> QED  BY <2>2 DEF NobodyStuck
<1> QED  BY <1>1, Invariance, PTL
=============================================================================
