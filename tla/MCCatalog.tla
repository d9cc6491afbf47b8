---------------------------- MODULE MCCatalog ----------------------------
(* Instance of Catalog: two edits of one tariff; a distributor, a seller's *)
(* code and an edit of another distributor that want one code; two first   *)
(* providers of a scope, and three requests for a default in another.      *)
EXTENDS Catalog

CONSTANTS ia, e1, e2, d0, d1, k1, w1, p0, p1, n1, n2, s1, s2, s3

MCUnitOf == [e \in {e1, e2} |-> ia]
MCMicrosOf == [t \in {ia, e1, e2} |-> IF t = ia THEN 2500 ELSE IF t = e1 THEN 0 ELSE 15000]
MCRowOf == [w \in {w1} |-> d0]
MCTableOf == [a \in {d0, d1, k1} |-> IF a = k1 THEN "distributor_codes" ELSE "distributors"]
MCCodeOf == [a \in {d0, d1, k1, w1} |-> IF a = d0 THEN "old" ELSE "new"]
MCTargetOf == [s \in {s1, s2, s3} |-> IF s = s2 THEN p0 ELSE p1]
MCScopeOf == [p \in {p0, p1, n1, n2} |-> IF p \in {p0, p1} THEN "organization" ELSE "client"]
MCWorkloads == {{e1, e2}, {d1, k1, w1}, {n1, n2}, {s1, s2, s3}, {n1, n2, e1, w1, s1}}
=============================================================================
