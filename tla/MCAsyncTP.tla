----------------------------- MODULE MCAsyncTP -----------------------------
(***************************************************************************)
(* All sequences of three calls; and two gathers with nothing in between.  *)
(***************************************************************************)
EXTENDS AsyncTP

MCPrograms   == [1 .. 3 -> Kinds]
BackToBack   == {<<"gather", "gather">>}
=============================================================================
