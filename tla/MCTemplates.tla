----------------------------- MODULE MCTemplates -----------------------------
(* Instances of Templates for TLC.                                         *)
EXTENDS Templates

MCEvents == [own |-> 4, declared |-> 2, p2pool |-> 2]
=============================================================================
