--------------------------- MODULE MCVehicleSlots ---------------------------
(* Small road networks for the runs of VehicleSlots.                       *)
EXTENDS VehicleSlots

\* A street of three edges that can be left one edge early.
Street == {<<"a", "b", "c">>, <<"a", "b">>}

Off == -1   \* max-depart-delay: never

\* Two ways over the first edge.
Fork == {<<"a", "b">>, <<"a", "c">>}
=============================================================================
