------------------------- MODULE MCIntranodeCombine -------------------------
(***************************************************************************)
(* Two sending ranks and three reducing warps.  Rank 1 holds every token   *)
(* and fills its ring again and again; rank 2 holds any three or none, so  *)
(* warps skip it early, late and throughout.                               *)
(***************************************************************************)
EXTENDS IntranodeCombine

MCRoutings ==
  { [t \in Tokens |-> {1} \cup (IF t \in held THEN {2} ELSE {})] :
      held \in {h \in SUBSET Tokens : Cardinality(h) \in {0, 3}} }
  \cup { [t \in Tokens |-> IF t % 2 = 0 THEN {1} ELSE {}] }
=============================================================================
