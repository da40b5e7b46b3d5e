---------------------------- MODULE MCSourceRepair ----------------------------
(* Two repairs and one release of people. *)
EXTENDS SourceRepair, TLC

CONSTANTS m1, m2, p1

MCRepairs == {m1, m2}
MCReleases == {p1}
===============================================================================
