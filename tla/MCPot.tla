-------------------------------- MODULE MCPot --------------------------------
(* Model-checking instance of Pot.                                         *)
EXTENDS Pot

MCCoins == 1..2
=============================================================================
