--------------------------- MODULE MCMonthlyClosing ---------------------------
(***************************************************************************)
(* Two closings of two subscriptions.  The first has a fee, the second     *)
(* consumption only; both promotions fit the first and one the second.     *)
(* The one with a limit is a percentage that onboardings use too, and that *)
(* takes nothing off the cent the other may leave.                         *)
(***************************************************************************)
EXTENDS MonthlyClosing

CONSTANTS r1, r2, s1, s2, p1, p2

MCRuns == {r1, r2}
MCSubs == {s1, s2}
MCPromos == {p1, p2}
MCFee == [s \in Subs |-> IF s = s1 THEN 2 ELSE 0]
MCUsage == [s \in Subs |-> IF s = s1 THEN 1 ELSE 2]
MCMaxUses == [p \in Promos |-> IF p = p1 THEN 1 ELSE 9]
MCMinAmount == [p \in Promos |-> IF p = p1 THEN 0 ELSE 2]
MCPct == [p \in Promos |-> IF p = p1 THEN 40 ELSE NoPct]
MCCents == [p \in Promos |-> IF p = p1 THEN 0 ELSE 2]
MCShared == {p1}
=============================================================================
