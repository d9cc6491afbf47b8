-------------------------- MODULE MCOrganizations --------------------------
(* Instance of Organizations: three creates, two of them with one slug and *)
(* two with one owner, a rename to that slug, and two billings of one      *)
(* period.                                                                 *)
EXTENDS Organizations

CONSTANTS o1, o2, o3, e1, s1, s2, m1, m2, b1, b2

MCCreates == {o1, o2, o3}
MCEdits == {e1}
MCTargetOf == [e \in MCEdits |-> o2]
MCSlugOf == [c \in MCCreates \cup MCEdits |-> IF c = o2 THEN s2 ELSE s1]
MCEmailOf == [c \in MCCreates |-> IF c = o1 THEN m1 ELSE m2]
MCRuns == {b1, b2}
MCPeriodOf == [r \in MCRuns |-> 1]
=============================================================================
