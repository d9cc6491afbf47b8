---------------------------- MODULE MCHubRecharge ----------------------------
(***************************************************************************)
(* Small instances of HubRecharge: two recharges of one referred client    *)
(* compete for the referrer's commission, and a plan purchase of another   *)
(* client meets the hub's default purpose.                                 *)
(***************************************************************************)
EXTENDS HubRecharge

CONSTANTS q1, q2, p1, c1, c2, w1, w2

MCRecharges == {q1, q2}
MCMixed == {q1, q2, p1}
MCClients == {c1, c2}
MCClientOf == [q \in Charges |-> IF q = p1 THEN c2 ELSE c1]
MCAmountOf == [q \in Charges |-> IF q = q1 THEN 1 ELSE 2]
MCPurposeOf == [q \in Charges |-> IF q = p1 THEN "plan_purchase" ELSE "wallet_recharge"]
MCReferred == {c1}
MCWebhooks == {w1, w2}
=============================================================================
