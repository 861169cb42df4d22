------------------------ MODULE MCInternodeDispatch ------------------------
(***************************************************************************)
(* Two nodes of two ranks; the second of two channels is followed, two     *)
(* sender warps take turns, and a ring of six slots takes puts of two.     *)
(***************************************************************************)
EXTENDS InternodeDispatch

a == <<1, 0>>
b == <<1, 1>>
c == <<0, 0>>

\* The first half of a source's tokens belongs to the earlier channel.
From(s0, s1) == [s \in Rdma |-> IF s = 0 THEN s0 ELSE s1]
EarlierHalf  == << {}, {}, {c}, {}, {a}, {b}, {} >>
Seven        == << {a}, {a}, {a, b}, {a}, {a}, {a}, {a} >>
ToOneRank    == << {a}, {a}, {a}, {a}, {a}, {a}, {a} >>

\* Node 0 sends node 1 more than the ring holds; node 1 sends itself as much;
\* both nodes send the ranks of node 1 tokens that meet in their queues; node 0
\* sends one token to both nodes.
MCRoutings ==
  { From(EarlierHalf \o Seven, << {a} >>),
    From(<< {a} >>, EarlierHalf \o ToOneRank),
    From(<< {c}, {}, {a}, {a, b} >>, << {c}, {}, {a, b}, {a} >>),
    From(<< {c}, {a, c} >>, << {a} >>) }
=============================================================================
