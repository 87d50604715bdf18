------------------------------ MODULE MCPideShop ------------------------------
(* Instance of PideShop for TLC.  Either client may come first, so a small *)
(* batch may follow a large one, precede it, or two equal ones meet.  Only *)
(* the smallest batches may overlap.                                       *)
EXTENDS PideShop, TLC

CONSTANTS c1, c2

Singles == {c1 :> 1 @@ c2 :> 1}
EqualAndUnequal == Singles \cup {c1 :> 2 @@ c2 :> 2, c1 :> 1 @@ c2 :> 2}
===============================================================================
