------------------------------ MODULE MCRigLink ------------------------------
(* Small instances of RigLink.                                             *)
EXTENDS RigLink
=============================================================================
