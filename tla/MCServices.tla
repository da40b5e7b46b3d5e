------------------------------ MODULE MCServices ------------------------------
(* The services on small instances. *)
EXTENDS Services, TLC

CONSTANTS s1, s2, s3, t1, t2, t3, x1, x2, p1, p2, p3, p4

MCObjective(s) == IF s = s1 THEN "first" ELSE "second"
MCTokens(s) == IF s = s3 THEN 2 ELSE 1
MCBatch == <<t1, t2, t3>>
MCPages == {p1, p2, p3, p4}
MCLists == {<<>>, <<p2, p3, p4>>} \cup {<<x>> : x \in MCPages}
                                 \cup {<<x, y>> : x \in MCPages, y \in MCPages}
MCWebs == {web1 \in [MCPages -> {list \in MCLists : IsInjective(list)}] :
             web1[p4] = <<>>}
==============================================================================
