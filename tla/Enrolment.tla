------------------------------ MODULE Enrolment ------------------------------
(***************************************************************************)
(* What onboarding promises: a call enters a client under a reference and  *)
(* an email that are new, or works for the client its reference has; with  *)
(* it enters, in one step, the first grant of the plan to that client, the *)
(* bonus of a promotion that is not used up, and the referral.  A call     *)
(* that fails enters nothing.  The monthly closing counts uses of the same *)
(* promotion.  Onboarding is shown to implement it.                        *)
(***************************************************************************)
EXTENDS Integers

CONSTANTS
  Calls, RefOf, NoRef, EmailOf,
  PlanOf, Plans, CreditOf,    \* the grant of a plan
  BonusOf, MaxUses,           \* the promotion
  ReferrerOf, NoReferrer

VARIABLES
  clients, grants, uses, referrer,
  redeemed, \* uses that closings counted
  ended,    \* calls that were answered
  crossed   \* calls have been granting one plan to one client at once

evars == <<clients, grants, uses, referrer, redeemed, ended, crossed>>

Init ==
  /\ clients = {} /\ grants = {} /\ uses = 0 /\ redeemed = 0
  /\ referrer = [c \in Calls |-> NoReferrer]
  /\ ended = {} /\ crossed = FALSE

SameReference(c, d) == RefOf[c] # NoRef /\ RefOf[c] = RefOf[d]

\* The call works for the client x.
WorksFor(c, x) ==
  \/ /\ x \in clients /\ SameReference(c, x)
     /\ UNCHANGED clients
  \/ /\ x = c /\ \A d \in clients : ~SameReference(c, d) /\ EmailOf[d] # EmailOf[c]
     /\ clients' = clients \cup {c}

Grants(c, x) ==
  \E paid, counted \in BOOLEAN :
    /\ paid => PlanOf[c] \in Plans /\ \A g \in grants : <<g[1], g[2]>> # <<x, PlanOf[c]>>
    /\ counted => uses < MaxUses /\ (paid \/ crossed)
    /\ grants' = IF ~paid THEN grants
                 ELSE grants \cup {<<x, PlanOf[c], CreditOf[PlanOf[c]] +
                                                   IF counted THEN BonusOf[PlanOf[c]] ELSE 0,
                                       counted>>}
    /\ uses' = IF counted THEN uses + 1 ELSE uses

End(c) == c \notin ended /\ ended' = ended \cup {c}

Enrol(c) ==
  /\ End(c)
  /\ \E x \in Calls :
       /\ WorksFor(c, x)
       /\ Grants(c, x)
       /\ referrer' \in {referrer, [referrer EXCEPT ![x] = ReferrerOf[c]]}
  /\ UNCHANGED <<redeemed, crossed>>

Fail(c) == End(c) /\ UNCHANGED <<clients, grants, uses, referrer, redeemed, crossed>>

Cross == crossed' = TRUE /\ UNCHANGED <<clients, grants, uses, referrer, redeemed, ended>>

\* A closing commits.
Redeem ==
  /\ redeemed' > redeemed /\ uses' - uses = redeemed' - redeemed
  /\ UNCHANGED <<clients, grants, referrer, ended, crossed>>

Next == (\E c \in Calls : Enrol(c) \/ Fail(c)) \/ Redeem \/ Cross

Spec == Init /\ [][Next]_evars
=============================================================================
