---------------------------- MODULE MCOnboarding ----------------------------
(* Instance of Onboarding: an app registers a company with a plan whose    *)
(* bonus rounds to nothing and repeats the call with another plan and      *)
(* email, twice, while the API and the panel onboard one company, with one *)
(* of those emails each, and a closing uses the promotion.                 *)
EXTENDS Onboarding

CONSTANTS a1, a2, a3, k1, m1, r1, e1, e2, x1, x0, p1, p2, d1

MCCalls == {a1, a2, a3, k1, m1}
MCKindOf == [c \in MCCalls |->
               CASE c = k1 -> "api" [] c = m1 -> "admin" [] OTHER -> "app"]
MCRefOf == [c \in MCCalls |-> IF c \in {a1, a2, a3} THEN r1 ELSE NoRef]
MCRfcOf == [c \in MCCalls |-> IF c \in {k1, m1} THEN x1 ELSE x0]
MCEmailOf == [c \in MCCalls |-> IF c \in {a1, k1} THEN e1 ELSE e2]
MCPlanOf == [c \in MCCalls |-> IF c \in {a2, a3} THEN p2 ELSE p1]
MCPlans == {p1, p2}
MCCreditOf == [p \in MCPlans |-> IF p = p1 THEN 1 ELSE 2]
MCBonusOf == [p \in MCPlans |-> IF p = p1 THEN 0 ELSE 1]
MCReferrerOf == [c \in MCCalls |-> IF c \in {a1, a3} THEN d1 ELSE NoReferrer]
=============================================================================
