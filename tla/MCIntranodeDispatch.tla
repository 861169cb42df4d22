------------------------ MODULE MCIntranodeDispatch ------------------------
(***************************************************************************)
(* Two ranks and two channels of four tokens; followed are two queues into *)
(* rank 0.  Rank 1 selects any of the four tokens of its second channel,   *)
(* from none to more than the ring holds, behind one of the first channel  *)
(* and those of rank 0, so both offsets count.  Rank 0 sends itself one    *)
(* token or none in the first channel, whose start is 0 (so is the end     *)
(* when there is none), and one in the second.                             *)
(***************************************************************************)
EXTENDS IntranodeDispatch

MCQueues == {<<0, 0, 0>>, <<1, 0, 1>>}
Route(to0) == [t \in Tokens |-> IF t \in to0 THEN {0} ELSE {1}]
MCRoutings ==
  { [r \in Ranks |-> IF r = 0 THEN Route({5} \cup f) ELSE Route({1} \cup s)] :
      s \in SUBSET (4 .. 7), f \in {{}, {2}} }
=============================================================================
