------------------------- MODULE LocalDataLibrary_MC -------------------------
(***************************************************************************)
(* Instances of LocalDataLibrary for TLC, in one folder: orders.csv of a   *)
(* subfolder "north", orders-.csv and orders.csv.  Two of them share the   *)
(* stem, two the normalized name.                                          *)
(***************************************************************************)
EXTENDS LocalDataLibrary

MC_Order == <<"north", "dashed", "plain">>

MC_Stem ==
  [f \in {"north", "dashed", "plain"} |->
     IF f = "dashed" THEN <<"orders-">> ELSE <<"orders">>]

MC_Path ==
  [f \in {"north", "dashed", "plain"} |->
     CASE f = "north" -> <<"north/orders">> [] f = "dashed" -> <<"orders-">>
       [] OTHER -> <<"orders">>]

MC_Safe ==
  [n \in {<<"orders">>, <<"orders-">>, <<"north/orders">>} |->
     IF n = <<"north/orders">> THEN <<"north_orders">> ELSE <<"orders">>]

MC_Managed == {<<"orders", 2>>}
==============================================================================
