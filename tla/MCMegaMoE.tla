----------------------------- MODULE MCMegaMoE -----------------------------
(***************************************************************************)
(* Two ranks of two experts and two tokens with two choices each, tiles of *)
(* two rows: a layer whose backward follows another layer's, and one layer *)
(* run twice.  Between them the routings have an expert of two tiles with  *)
(* a segment across both, an expert that begins after another's padding,   *)
(* experts and a rank that receive nothing, and slots without an expert.   *)
(***************************************************************************)
EXTENDS MegaMoE

Kernels(kinds, l) == [i \in 1 .. Len(kinds) |-> [kind |-> kinds[i], layer |-> l]]
Forward(l)  == Kernels(<<"prologue", "dispatch", "combine", "save">>, l)
Backward(l) == Kernels(<<"dispatch", "wgrad2", "combine", "redispatch">>, l)

MCPrograms ==
  { Forward(1) \o Forward(2) \o Backward(2) \o Backward(1),
    Forward(1) \o Backward(1) \o Forward(2) \o Backward(2) }

None == NoExpert
Route(choices) == [s \in Slots |-> choices[s + 1]]
Wide    == [r \in Ranks |-> Route(IF r = 0 THEN <<0, 2, None, None>> ELSE <<0, None, 0, 3>>)]
Skewed  == [r \in Ranks |-> Route(IF r = 0 THEN <<1, 0, 1, None>> ELSE <<None, 1, None, None>>)]
Crossed == [r \in Ranks |-> Route(IF r = 0 THEN <<3, 2, None, 3>> ELSE <<0, None, 3, None>>)]

MCRoutings == { <<Wide, Skewed>>, <<Crossed, Wide>> }

\* The hypotheses of the theorems about the gates hold here.
ASSUME MCRoutingAssumption == NoRankIdle /\ SpareTile
=============================================================================
