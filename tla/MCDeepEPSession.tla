-------------------------- MODULE MCDeepEPSession --------------------------
(***************************************************************************)
(* All sequences of three calls that begin with a dispatch that is not     *)
(* cached, but for those that make a host wait for counts while a dispatch *)
(* with num_worst_tokens may be in flight; and the shortest of the latter. *)
(***************************************************************************)
EXTENDS DeepEPSession

Overtakes(p) ==
  \E i, j \in DOMAIN p :
    /\ i < j /\ p[i] = "worst" /\ p[j] = "sync"
    /\ \A m \in i .. j : p[m] # "idle"

ThreeCalls == {p \in [1 .. 3 -> Kinds] : p[1] \in {"sync", "worst"}}

MCPrograms    == {p \in ThreeCalls : ~ Overtakes(p)}
MixedPrograms == {<<"worst", "sync">>}
=============================================================================
