--------------------------- MODULE MCBlockJournal ---------------------------
(***************************************************************************)
(* Three blocks, two of them on one parent, found through two devices.     *)
(***************************************************************************)
EXTENDS BlockJournal, TLC

CONSTANTS b1, b2, b3, d1, d2

MCDevices == {d1, d2}
MCBlocks == {b1, b2, b3}
MCParentOf == (b1 :> 0) @@ (b2 :> 0) @@ (b3 :> 1)

DeviceSymmetry == Permutations(MCDevices)

=============================================================================
