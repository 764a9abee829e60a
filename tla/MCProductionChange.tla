------------------------- MODULE MCProductionChange -------------------------
(***************************************************************************)
(* An instance of ProductionChange: the second commit stops to use         *)
(* something of the schema, and the third one is the contract that removes *)
(* it.  The first one, an expand, has been applied: another one would take *)
(* the same steps after its preparation.                                   *)
(***************************************************************************)
EXTENDS ProductionChange

MCHead    == <<1, 1, 2>>
MCKind    == <<"expand", "contract">>
MCRuntime == {1, 2}
MCStages  == <<{}, {"scheduler"}, {"worker"}>>
=============================================================================
