--------------------------- MODULE MCPrepaidLedger ---------------------------
(***************************************************************************)
(* A small instance of PrepaidLedger: one prepaid customer of an           *)
(* organization, the organization's platform client, two keys, and calls   *)
(* chosen so that charges, adjustments, credits and fees compete for the   *)
(* balance and for the same key.                                           *)
(***************************************************************************)
EXTENDS PrepaidLedger

CONSTANTS r1, r2, r3, c1, p1, k1, k2

MCRequests == {r1, r2, r3}
MCCustomers == {c1}
MCPlatformClients == {p1}
MCPlatformOf == [c \in {c1, p1} |-> IF c = c1 THEN p1 ELSE NoClient]
MCKeys == {k1, k2}

Call(op, c, a, k) == [op |-> op, client |-> c, amount |-> a, key |-> k]

MCJobs ==
  { Call("recharge", c1, 2, k2), Call("adjust_credit", c1, 2, k1),
    Call("charge", c1, 2, k1), Call("charge", c1, 1, k1), Call("charge", c1, 2, NoKey),
    Call("charge", c1, 0, k1), Call("charge", p1, 1, k1),
    Call("adjust_debit", c1, 1, NoKey), Call("adjust_debit", c1, 2, k2),
    Call("fee", p1, 1, k2) }
=============================================================================
