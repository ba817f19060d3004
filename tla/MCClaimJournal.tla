-------------------------- MODULE MCClaimJournal --------------------------
(* Small instances of ClaimJournal.                                        *)
EXTENDS ClaimJournal
===========================================================================
