---------------------------- MODULE MCDeclaration ----------------------------
(***************************************************************************)
(* Instances of Declaration.  Tokens change under P2Pool, whose            *)
(* declarations are told apart by an id of their own; MCTokens lets them   *)
(* change under the other pools too.                                       *)
(* Three templates let one be replaced after a device read it; under       *)
(* P2Pool the token changes make the third.                                *)
(***************************************************************************)
EXTENDS Declaration

MCGen == [m \in Modes |-> IF m = "p2pool" THEN 2 ELSE 3]
MCP2PoolTokens == [m \in Modes |-> IF m = "p2pool" THEN 1 ELSE 0]
MCTokens == [m \in Modes |-> 1]
=============================================================================
