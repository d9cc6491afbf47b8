----------------------------- MODULE ClosingBook -----------------------------
(***************************************************************************)
(* What the monthly closing promises to the book of a period: a closing    *)
(* enters its invoices and the promotions they used all at once or not at  *)
(* all, and at most once; it bills nothing that another closing has billed *)
(* unless the two overlapped, uses a promotion only for an invoice that it *)
(* reduces and counts each use.  Others count uses of the same promotions  *)
(* within the limit; the closings keep it when no two of them overlap and  *)
(* none was open while a use was counted elsewhere.  MonthlyClosing is     *)
(* shown to implement this module.                                         *)
(***************************************************************************)
EXTENDS Integers, FiniteSets

CONSTANTS
  Runs,       \* closings of the period
  Promos,     \* promotions
  MaxUses     \* their use limits

VARIABLES
  phase,        \* of each closing: "new", "open" or "over"
  met,          \* pairs of closings that were open at the same time
  invoices,     \* each with its run, sub and discount
  redemptions,  \* each with its run, sub and promo
  uses,         \* what each promotion counts
  elsewhere,    \* the part of it that others counted
  late          \* promotions counted elsewhere while a closing had chosen them

bvars == <<phase, met, invoices, redemptions, uses, elsewhere, late>>

Init ==
  /\ phase = [r \in Runs |-> "new"] /\ met = {}
  /\ invoices = {} /\ redemptions = {}
  /\ uses = [p \in Promos |-> 0] /\ elsewhere = [p \in Promos |-> 0] /\ late = {}

Move(r, from, to) ==
  /\ phase[r] = from
  /\ phase' = [phase EXCEPT ![r] = to]

Begin(r) ==
  /\ Move(r, "new", "open")
  /\ met' = met \cup {{r, v} : v \in {u \in Runs : phase[u] = "open"}}
  /\ UNCHANGED <<invoices, redemptions, uses, elsewhere, late>>

GiveUp(r) ==
  /\ Move(r, "open", "over")
  /\ UNCHANGED <<met, invoices, redemptions, uses, elsewhere, late>>

\* The invoices a closing may enter, and the redemptions along with them.
MayBill(r, billed) ==
  \A i \in billed :
    /\ i.run = r
    /\ \A j \in invoices \cup billed :
         j # i /\ j.sub = i.sub => j.run # r /\ {j.run, r} \in met

MayRedeem(r, billed, redeemed) ==
  \A x \in redeemed : x.run = r /\ \E i \in billed : i.sub = x.sub /\ i.discount > 0

Close(r) ==
  /\ Move(r, "open", "over")
  /\ invoices \subseteq invoices' /\ redemptions \subseteq redemptions'
  /\ LET billed == invoices' \ invoices
         redeemed == redemptions' \ redemptions
     IN /\ MayBill(r, billed)
        /\ MayRedeem(r, billed, redeemed)
        /\ uses' = [p \in Promos |-> uses[p] + Cardinality({x \in redeemed : x.promo = p})]
  /\ met = {} => \A p \in Promos \ late : uses'[p] <= MaxUses[p]
  /\ UNCHANGED <<met, elsewhere, late>>

CountElsewhere(p) ==
  /\ uses[p] < MaxUses[p]
  /\ uses' = [uses EXCEPT ![p] = @ + 1]
  /\ elsewhere' = [elsewhere EXCEPT ![p] = @ + 1]
  /\ \/ UNCHANGED late
     \/ late' = late \cup {p} /\ \E r \in Runs : phase[r] = "open"
  /\ UNCHANGED <<phase, met, invoices, redemptions>>

Next ==
  \/ \E r \in Runs : Begin(r) \/ GiveUp(r) \/ Close(r)
  \/ \E p \in Promos : CountElsewhere(p)

Spec == Init /\ [][Next]_bvars
=============================================================================
