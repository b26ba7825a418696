--------------------------- MODULE MCReconfigure ---------------------------
(* Small instances of Reconfigure for TLC. *)
EXTENDS Reconfigure, TLC

\* A ring, what is left of it when a member is gone, and that member alone.
ShrinkingRings == 1 :> <<"a", "b", "c">> @@ 2 :> <<"a", "c">> @@ 3 :> <<"b">>
\* Rings of four.
LargeRings == 1 :> <<"a", "b", "c", "d">> @@ 2 :> <<"a", "d", "b", "c">>
=============================================================================
