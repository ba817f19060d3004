----------------------- MODULE ClaimJournalProofs -----------------------
(***************************************************************************)
(* Proofs about ClaimJournal for any set of claims and rivals.  The        *)
(* inductive invariant IInv adds to the properties what the runtime        *)
(* relies on without a check of its own: where in the code a file can      *)
(* exist, and where acceptance is already a fact.                          *)
(***************************************************************************)
EXTENDS ClaimJournal, TLAPS

Idle == {"begin", "mine", "drop"}

(* Without a claim there is no file of one.                                *)
FilesFitPlace ==
  /\ pc \in Idle => journal = None
  /\ pc \in {"send", "sent"} => attempted = journal
  /\ pc = "mark" => attempted # journal
  /\ pc = "remove" => record.claim = journal /\ journal \in settled
  /\ pc \in Idle \cup {"down"} => known = FALSE /\ fresh = None

(* A claim that does not exist yet is nowhere.                             *)
NotBuiltIsNowhere ==
  /\ \A c \in Claims : spends[c] = None =>
       c \notin sent /\ c \notin settled /\ journal # c
  /\ air \subseteq sent

(* Acceptance is a fact of the network wherever the code acts on it.       *)
AcceptanceIsFact ==
  /\ known => journal \in Made
  /\ pc \in {"accept", "settle", "resolve"} => journal \in Made
  /\ fresh # None => fresh \in Made
  /\ pc \in {"settle", "resolve", "stale", "remove"} => fresh # None

(* A job that is not of the accepted lineage is the open claim's own.      *)
JobFitsPlace ==
  /\ pc = "held" => live \in Made
  /\ pc \in PlacesWithClaim /\ ctx = "claim" => live = journal \/ live \in Made
  /\ pc = "drop" => live \in Made \/ unindexed = {}
  /\ pc \in {"mine", "drop", "held"} => ctx = "claim"
  /\ pc \in {"down", "begin"} => ctx = "start"

IInv ==
  /\ TypeOK
  /\ SentIsMarked /\ BroadcastOnce /\ NoOrphanMarker /\ ConfirmedIsAccepted
  /\ MinesAcceptedBaton
  /\ FilesFitPlace /\ NotBuiltIsNowhere /\ AcceptanceIsFact /\ JobFitsPlace

(* What the network made only grows, and servers list only what it made.   *)
LEMMA MadeFacts ==
  ASSUME TypeOK
  PROVE  /\ Made \subseteq Batons
         /\ \A k \in 1..Len(chain) : chain[k] \in Made
         /\ Tip \in Made /\ Listed \in Made
         /\ None \notin Made
  BY NamesDiffer DEF TypeOK, Made, Tip, Listed, Batons

LEMMA MadeStays ==
  ASSUME UNCHANGED chain
  PROVE  Made' = Made
  BY DEF Made

LEMMA MadeGrows ==
  ASSUME TypeOK, NEW b, chain' = Append(chain, b)
  PROVE  Made' = Made \cup {b}
  BY DEF TypeOK, Made

LEMMA InitIInv == ASSUME Init PROVE IInv
  <1> USE NamesDiffer, FaultsCount DEF Init
  <1>1. Made = {Genesis}
    BY DEF Made
  <1>2. TypeOK
    <2>1. chain \in Seq(Batons) /\ Len(chain) = 1
      BY DEF Batons
    <2>2. floor \in 1..Len(chain) /\ view \in floor..Len(chain) /\ faults \in 0..MaxFaults
      BY <2>1
    <2>3. spends \in [Claims -> Batons \cup {None}] /\ known \in BOOLEAN
      BY Zenon
    <2>4. pc \notin PlacesWithClaim
      BY DEF PlacesWithClaim
    <2> QED
      BY <2>1, <2>2, <2>3, <2>4 DEF TypeOK
  <1>3. SentIsMarked /\ BroadcastOnce /\ NoOrphanMarker
    BY DEF SentIsMarked, BroadcastOnce, NoOrphanMarker
  <1>4. ConfirmedIsAccepted /\ MinesAcceptedBaton
    BY DEF ConfirmedIsAccepted, MinesAcceptedBaton, NoRecord
  <1>5. FilesFitPlace /\ NotBuiltIsNowhere
    BY DEF FilesFitPlace, NotBuiltIsNowhere, Idle
  <1>6. AcceptanceIsFact /\ JobFitsPlace
    BY DEF AcceptanceIsFact, JobFitsPlace, PlacesWithClaim
  <1> QED
    BY <1>2, <1>3, <1>4, <1>5, <1>6 DEF IInv

LEMMA RivalClaimsStep ==
  ASSUME IInv, NEW r \in Rivals, RivalClaims(r)
  PROVE  IInv'
  <1> USE NamesDiffer, FaultsCount DEF RivalClaims, Goto, network, files,
      spent, memory, history
  <1>0. TypeOK /\ Made \subseteq Batons /\ None \notin Made
    BY MadeFacts DEF IInv
  <1>1. Made \subseteq Made' /\ Made' \subseteq Made \cup {r}
    BY <1>0, MadeGrows, MadeStays
  <1>2. TypeOK'
    BY <1>0, MadeFacts DEF TypeOK, PlacesWithClaim, Batons
  <1>3. (SentIsMarked /\ BroadcastOnce /\ NoOrphanMarker)'
    BY DEF IInv, SentIsMarked, BroadcastOnce, NoOrphanMarker
  <1>4. (ConfirmedIsAccepted /\ MinesAcceptedBaton)'
    BY <1>1 DEF IInv, ConfirmedIsAccepted, MinesAcceptedBaton, InChain
  <1>5. (FilesFitPlace /\ NotBuiltIsNowhere)'
    BY DEF IInv, FilesFitPlace, NotBuiltIsNowhere
  <1>6. (AcceptanceIsFact /\ JobFitsPlace)'
    BY <1>1 DEF IInv, AcceptanceIsFact, JobFitsPlace
  <1> QED
    BY <1>2, <1>3, <1>4, <1>5, <1>6 DEF IInv

LEMMA ArrivesStep ==
  ASSUME IInv, NEW c \in Claims, Arrives(c)
  PROVE  IInv'
  <1> USE NamesDiffer, FaultsCount DEF Arrives, Goto, network, files, spent,
      memory, history
  <1>0. TypeOK /\ Made \subseteq Batons /\ None \notin Made
    BY MadeFacts DEF IInv
  <1>1. Made \subseteq Made' /\ Made' \subseteq Made \cup {c}
    BY <1>0, MadeGrows, MadeStays
  <1>2. TypeOK'
    BY <1>0, MadeFacts DEF TypeOK, PlacesWithClaim, Batons
  <1>3. (SentIsMarked /\ BroadcastOnce /\ NoOrphanMarker)'
    BY DEF IInv, SentIsMarked, BroadcastOnce, NoOrphanMarker
  <1>4. (ConfirmedIsAccepted /\ MinesAcceptedBaton)'
    BY <1>1 DEF IInv, ConfirmedIsAccepted, MinesAcceptedBaton, InChain
  <1>5. (FilesFitPlace /\ NotBuiltIsNowhere)'
    BY DEF IInv, FilesFitPlace, NotBuiltIsNowhere
  <1>6. (AcceptanceIsFact /\ JobFitsPlace)'
    BY <1>1 DEF IInv, AcceptanceIsFact, JobFitsPlace
  <1> QED
    BY <1>2, <1>3, <1>4, <1>5, <1>6 DEF IInv

LEMMA LostStep ==
  ASSUME IInv, NEW c \in Claims, Lost(c)
  PROVE  IInv'
  <1> USE NamesDiffer, FaultsCount DEF Lost, Goto, network, files, spent,
      memory, history
  <1>0. TypeOK /\ Made \subseteq Batons /\ None \notin Made
    BY MadeFacts DEF IInv
  <1>1. Made' = Made
    BY MadeStays
  <1>2. TypeOK'
    BY <1>0 DEF TypeOK
  <1>3. (SentIsMarked /\ BroadcastOnce /\ NoOrphanMarker)'
    BY DEF IInv, SentIsMarked, BroadcastOnce, NoOrphanMarker
  <1>4. (ConfirmedIsAccepted /\ MinesAcceptedBaton)'
    BY <1>1 DEF IInv, ConfirmedIsAccepted, MinesAcceptedBaton, InChain
  <1>5. (FilesFitPlace /\ NotBuiltIsNowhere)'
    BY DEF IInv, FilesFitPlace, NotBuiltIsNowhere
  <1>6. (AcceptanceIsFact /\ JobFitsPlace)'
    BY <1>1 DEF IInv, AcceptanceIsFact, JobFitsPlace
  <1> QED
    BY <1>2, <1>3, <1>4, <1>5, <1>6 DEF IInv

LEMMA ServersCatchUpStep ==
  ASSUME IInv, ServersCatchUp
  PROVE  IInv'
  <1> USE NamesDiffer, FaultsCount DEF ServersCatchUp, Goto, network, files,
      spent, memory, history
  <1>0. TypeOK /\ Made \subseteq Batons /\ None \notin Made
    BY MadeFacts DEF IInv
  <1>1. Made' = Made
    BY MadeStays
  <1>2. TypeOK'
    BY <1>0 DEF TypeOK
  <1>3. (SentIsMarked /\ BroadcastOnce /\ NoOrphanMarker)'
    BY DEF IInv, SentIsMarked, BroadcastOnce, NoOrphanMarker
  <1>4. (ConfirmedIsAccepted /\ MinesAcceptedBaton)'
    BY <1>1 DEF IInv, ConfirmedIsAccepted, MinesAcceptedBaton, InChain
  <1>5. (FilesFitPlace /\ NotBuiltIsNowhere)'
    BY DEF IInv, FilesFitPlace, NotBuiltIsNowhere
  <1>6. (AcceptanceIsFact /\ JobFitsPlace)'
    BY <1>1 DEF IInv, AcceptanceIsFact, JobFitsPlace
  <1> QED
    BY <1>2, <1>3, <1>4, <1>5, <1>6 DEF IInv

LEMMA ServerCatchesUpStep ==
  ASSUME IInv, ServerCatchesUp
  PROVE  IInv'
  <1> USE NamesDiffer, FaultsCount DEF ServerCatchesUp, Goto, network, files,
      spent, memory, history
  <1>0. TypeOK /\ Made \subseteq Batons /\ None \notin Made
    BY MadeFacts DEF IInv
  <1>1. Made' = Made
    BY MadeStays
  <1>2. TypeOK'
    BY <1>0 DEF TypeOK
  <1>3. (SentIsMarked /\ BroadcastOnce /\ NoOrphanMarker)'
    BY DEF IInv, SentIsMarked, BroadcastOnce, NoOrphanMarker
  <1>4. (ConfirmedIsAccepted /\ MinesAcceptedBaton)'
    BY <1>1 DEF IInv, ConfirmedIsAccepted, MinesAcceptedBaton, InChain
  <1>5. (FilesFitPlace /\ NotBuiltIsNowhere)'
    BY DEF IInv, FilesFitPlace, NotBuiltIsNowhere
  <1>6. (AcceptanceIsFact /\ JobFitsPlace)'
    BY <1>1 DEF IInv, AcceptanceIsFact, JobFitsPlace
  <1> QED
    BY <1>2, <1>3, <1>4, <1>5, <1>6 DEF IInv

LEMMA StepFailsStep ==
  ASSUME IInv, StepFails
  PROVE  IInv'
  <1> USE NamesDiffer, FaultsCount DEF StepFails, Goto, GiveUp, Halt,
      ForgetSpends, Connect, Fault, network, files, spent, memory, history
  <1>0. TypeOK /\ Made \subseteq Batons /\ None \notin Made
    BY MadeFacts DEF IInv
  <1>1. Made' = Made
    BY MadeStays
  <1>a. faults' \in 0..MaxFaults
    BY <1>0 DEF TypeOK
  <1>2. TypeOK'
    BY <1>a, <1>0, Zenon DEF TypeOK, PlacesWithClaim
  <1>3. (SentIsMarked /\ BroadcastOnce /\ NoOrphanMarker)'
    BY DEF IInv, SentIsMarked, BroadcastOnce, NoOrphanMarker
  <1>4. (ConfirmedIsAccepted /\ MinesAcceptedBaton)'
    BY <1>1 DEF IInv, ConfirmedIsAccepted, MinesAcceptedBaton, InChain
  <1>5. (FilesFitPlace /\ NotBuiltIsNowhere)'
    BY DEF IInv, FilesFitPlace, NotBuiltIsNowhere, Idle
  <1>6. (AcceptanceIsFact /\ JobFitsPlace)'
    BY <1>1 DEF IInv, AcceptanceIsFact, JobFitsPlace, FilesFitPlace,
       PlacesWithClaim, Idle
  <1> QED
    BY <1>2, <1>3, <1>4, <1>5, <1>6 DEF IInv

LEMMA CrashStep ==
  ASSUME IInv, Crash
  PROVE  IInv'
  <1> USE NamesDiffer, FaultsCount DEF Crash, Goto, Halt, ForgetSpends, Fault,
      network, files, spent, memory, history
  <1>0. TypeOK /\ Made \subseteq Batons /\ None \notin Made
    BY MadeFacts DEF IInv
  <1>1. Made' = Made
    BY MadeStays
  <1>a. faults' \in 0..MaxFaults
    BY <1>0 DEF TypeOK
  <1>2. TypeOK'
    BY <1>a, <1>0, Zenon DEF TypeOK, PlacesWithClaim
  <1>3. (SentIsMarked /\ BroadcastOnce /\ NoOrphanMarker)'
    BY DEF IInv, SentIsMarked, BroadcastOnce, NoOrphanMarker
  <1>4. (ConfirmedIsAccepted /\ MinesAcceptedBaton)'
    BY <1>1 DEF IInv, ConfirmedIsAccepted, MinesAcceptedBaton, InChain
  <1>5. (FilesFitPlace /\ NotBuiltIsNowhere)'
    BY DEF IInv, FilesFitPlace, NotBuiltIsNowhere, Idle
  <1>6. (AcceptanceIsFact /\ JobFitsPlace)'
    BY <1>1 DEF IInv, AcceptanceIsFact, JobFitsPlace
  <1> QED
    BY <1>2, <1>3, <1>4, <1>5, <1>6 DEF IInv

LEMMA StartStep ==
  ASSUME IInv, Start
  PROVE  IInv'
  <1> USE NamesDiffer, FaultsCount DEF Start, Goto, Connect, network, files,
      spent, memory, history
  <1>0. TypeOK /\ Made \subseteq Batons /\ None \notin Made
    BY MadeFacts DEF IInv
  <1>1. Made' = Made
    BY MadeStays
  <1>2. TypeOK'
    BY <1>0 DEF TypeOK, PlacesWithClaim
  <1>3. (SentIsMarked /\ BroadcastOnce /\ NoOrphanMarker)'
    BY DEF IInv, SentIsMarked, BroadcastOnce, NoOrphanMarker
  <1>4. (ConfirmedIsAccepted /\ MinesAcceptedBaton)'
    BY <1>1 DEF IInv, ConfirmedIsAccepted, MinesAcceptedBaton, InChain
  <1>5. (FilesFitPlace /\ NotBuiltIsNowhere)'
    BY DEF IInv, FilesFitPlace, NotBuiltIsNowhere, Idle
  <1>6. (AcceptanceIsFact /\ JobFitsPlace)'
    BY <1>1 DEF IInv, AcceptanceIsFact, JobFitsPlace
  <1> QED
    BY <1>2, <1>3, <1>4, <1>5, <1>6 DEF IInv

LEMMA BeginMiningStep ==
  ASSUME IInv, BeginMining
  PROVE  IInv'
  <1> USE NamesDiffer, FaultsCount DEF BeginMining, Goto, Halt, ForgetSpends,
      network, files, spent, memory, history
  <1>0. TypeOK /\ Made \subseteq Batons /\ None \notin Made
    BY MadeFacts DEF IInv
  <1>1. Made' = Made
    BY MadeStays
  <1>2. TypeOK'
    BY <1>0, MadeFacts, Zenon DEF TypeOK, PlacesWithClaim, Batons
  <1>3. (SentIsMarked /\ BroadcastOnce /\ NoOrphanMarker)'
    BY DEF IInv, SentIsMarked, BroadcastOnce, NoOrphanMarker
  <1>4. (ConfirmedIsAccepted /\ MinesAcceptedBaton)'
    BY <1>0, <1>1, MadeFacts DEF IInv, ConfirmedIsAccepted, MinesAcceptedBaton,
       InChain, Listed
  <1>5. (FilesFitPlace /\ NotBuiltIsNowhere)'
    BY DEF IInv, FilesFitPlace, NotBuiltIsNowhere, Idle
  <1>6. (AcceptanceIsFact /\ JobFitsPlace)'
    BY <1>1 DEF IInv, AcceptanceIsFact, JobFitsPlace, FilesFitPlace,
       PlacesWithClaim, Idle
  <1> QED
    BY <1>2, <1>3, <1>4, <1>5, <1>6 DEF IInv

(* The next job comes from the connected server, unless it lags.           *)
LEMMA TakeListedStep ==
  ASSUME IInv, pc \in {"mine", "drop"}, TakeListed
  PROVE  IInv'
  <1> USE NamesDiffer, FaultsCount DEF Goto, TakeListed, Connect, network,
      files, spent, memory, history
  <1>0. TypeOK /\ Made \subseteq Batons /\ None \notin Made
    BY MadeFacts DEF IInv
  <1>1. Made' = Made
    BY MadeStays
  <1>a. chain[view'] \in Made
    BY <1>0, MadeFacts DEF TypeOK
  <1>b. IndexerLags(chain[view']) => live \in Made
    BY DEF IInv, MinesAcceptedBaton, InChain, JobFitsPlace, IndexerLags
  <1>c. \/ live' \in Made /\ pc' = "mine"
        \/ live' = live /\ pc' = "drop" /\ unindexed' = {}
    BY <1>a, <1>b DEF ForgetSpends
  <1>d. faults' \in 0..MaxFaults
    BY <1>0 DEF TypeOK, Fault
  <1>2. TypeOK'
    BY <1>0, <1>c, <1>d DEF TypeOK, PlacesWithClaim, ForgetSpends
  <1>3. (SentIsMarked /\ BroadcastOnce /\ NoOrphanMarker)'
    BY <1>c DEF IInv, SentIsMarked, BroadcastOnce, NoOrphanMarker
  <1>4. (ConfirmedIsAccepted /\ MinesAcceptedBaton)'
    BY <1>1, <1>c DEF IInv, ConfirmedIsAccepted, MinesAcceptedBaton, InChain
  <1>5. (FilesFitPlace /\ NotBuiltIsNowhere)'
    BY <1>c DEF IInv, FilesFitPlace, NotBuiltIsNowhere, Idle
  <1>6. (AcceptanceIsFact /\ JobFitsPlace)'
    BY <1>1, <1>c DEF IInv, AcceptanceIsFact, JobFitsPlace, FilesFitPlace,
       PlacesWithClaim, Idle
  <1> QED
    BY <1>2, <1>3, <1>4, <1>5, <1>6 DEF IInv

LEMMA RefreshStep == ASSUME IInv, Refresh PROVE IInv'
  BY TakeListedStep DEF Refresh

LEMMA GraceEndsStep ==
  ASSUME IInv, NEW b \in Batons, GraceEnds(b)
  PROVE  IInv'
  <1> USE NamesDiffer, FaultsCount DEF GraceEnds, Goto, network, files, spent,
      memory, history
  <1>0. TypeOK /\ Made \subseteq Batons /\ None \notin Made
    BY MadeFacts DEF IInv
  <1>1. Made' = Made
    BY MadeStays
  <1>2. TypeOK'
    BY <1>0 DEF TypeOK
  <1>3. (SentIsMarked /\ BroadcastOnce /\ NoOrphanMarker)'
    BY DEF IInv, SentIsMarked, BroadcastOnce, NoOrphanMarker
  <1>4. (ConfirmedIsAccepted /\ MinesAcceptedBaton)'
    BY <1>1 DEF IInv, ConfirmedIsAccepted, MinesAcceptedBaton, InChain
  <1>5. (FilesFitPlace /\ NotBuiltIsNowhere)'
    BY DEF IInv, FilesFitPlace, NotBuiltIsNowhere
  <1>6. (AcceptanceIsFact /\ JobFitsPlace)'
    BY <1>1 DEF IInv, AcceptanceIsFact, JobFitsPlace
  <1> QED
    BY <1>2, <1>3, <1>4, <1>5, <1>6 DEF IInv

LEMMA DrainStaleStep ==
  ASSUME IInv, DrainStale
  PROVE  IInv'
  <1> USE NamesDiffer, FaultsCount DEF DrainStale, Goto, ForcedRefresh,
      network, files, spent, memory, history
  <1>0. TypeOK /\ Made \subseteq Batons /\ None \notin Made
    BY MadeFacts DEF IInv
  <1>1. Made' = Made
    BY MadeStays
  <1>2. TypeOK'
    BY <1>0 DEF TypeOK
  <1>3. (SentIsMarked /\ BroadcastOnce /\ NoOrphanMarker)'
    BY DEF IInv, SentIsMarked, BroadcastOnce, NoOrphanMarker
  <1>4. (ConfirmedIsAccepted /\ MinesAcceptedBaton)'
    BY <1>1 DEF IInv, ConfirmedIsAccepted, MinesAcceptedBaton, InChain
  <1>5. (FilesFitPlace /\ NotBuiltIsNowhere)'
    BY DEF IInv, FilesFitPlace, NotBuiltIsNowhere
  <1>6. (AcceptanceIsFact /\ JobFitsPlace)'
    BY <1>1 DEF IInv, AcceptanceIsFact, JobFitsPlace
  <1> QED
    BY <1>2, <1>3, <1>4, <1>5, <1>6 DEF IInv

LEMMA PrepareStep ==
  ASSUME IInv, NEW c \in Claims, Prepare(c)
  PROVE  IInv'
  <1> USE NamesDiffer, FaultsCount DEF Prepare, Goto, ForcedRefresh, network,
      files, spent, memory, history
  <1>0. TypeOK /\ Made \subseteq Batons /\ None \notin Made
    BY MadeFacts DEF IInv
  <1>1. Made' = Made
    BY MadeStays
  <1>2. TypeOK'
    BY <1>0 DEF TypeOK, PlacesWithClaim
  <1>3. (SentIsMarked /\ BroadcastOnce /\ NoOrphanMarker)'
    BY <1>0 DEF IInv, TypeOK, SentIsMarked, BroadcastOnce, NoOrphanMarker,
       FilesFitPlace, NotBuiltIsNowhere, Idle
  <1>4. (ConfirmedIsAccepted /\ MinesAcceptedBaton)'
    BY <1>1 DEF IInv, ConfirmedIsAccepted, MinesAcceptedBaton, InChain
  <1>5. (FilesFitPlace /\ NotBuiltIsNowhere)'
    BY <1>0, <1>1 DEF IInv, TypeOK, FilesFitPlace, NotBuiltIsNowhere,
       SentIsMarked, NoOrphanMarker, MinesAcceptedBaton, InChain, Idle,
       PlacesWithClaim
  <1>6. (AcceptanceIsFact /\ JobFitsPlace)'
    BY <1>0, <1>1, MadeFacts DEF IInv, TypeOK, AcceptanceIsFact, JobFitsPlace,
       FilesFitPlace, MinesAcceptedBaton, InChain, PlacesWithClaim, Idle
  <1> QED
    BY <1>2, <1>3, <1>4, <1>5, <1>6 DEF IInv

LEMMA BeginSuccessorStep ==
  ASSUME IInv, BeginSuccessor
  PROVE  IInv'
  <1> USE NamesDiffer, FaultsCount DEF BeginSuccessor, Goto, network, files,
      spent, memory, history
  <1>0. TypeOK /\ Made \subseteq Batons /\ None \notin Made
    BY MadeFacts DEF IInv
  <1>1. Made' = Made
    BY MadeStays
  <1>a. journal \in Claims /\ spends[journal] \in Batons
    BY <1>0 DEF IInv, TypeOK, PlacesWithClaim, NotBuiltIsNowhere
  <1>2. TypeOK'
    BY <1>a, <1>0, MadeFacts DEF TypeOK, PlacesWithClaim, Batons
  <1>3. (SentIsMarked /\ BroadcastOnce /\ NoOrphanMarker)'
    BY DEF IInv, SentIsMarked, BroadcastOnce, NoOrphanMarker
  <1>4. (ConfirmedIsAccepted /\ MinesAcceptedBaton)'
    BY <1>1, Zenon DEF IInv, ConfirmedIsAccepted, MinesAcceptedBaton, InChain
  <1>5. (FilesFitPlace /\ NotBuiltIsNowhere)'
    BY DEF IInv, FilesFitPlace, NotBuiltIsNowhere, Idle
  <1>6. (AcceptanceIsFact /\ JobFitsPlace)'
    BY <1>1 DEF IInv, AcceptanceIsFact, JobFitsPlace
  <1> QED
    BY <1>2, <1>3, <1>4, <1>5, <1>6 DEF IInv

LEMMA TryStep ==
  ASSUME IInv, Try
  PROVE  IInv'
  <1> USE NamesDiffer, FaultsCount DEF Try, Goto, network, files, spent,
      memory, history
  <1>0. TypeOK /\ Made \subseteq Batons /\ None \notin Made
    BY MadeFacts DEF IInv
  <1>1. Made' = Made
    BY MadeStays
  <1>2. TypeOK'
    BY <1>0 DEF TypeOK, PlacesWithClaim
  <1>3. (SentIsMarked /\ BroadcastOnce /\ NoOrphanMarker)'
    BY DEF IInv, SentIsMarked, BroadcastOnce, NoOrphanMarker
  <1>4. (ConfirmedIsAccepted /\ MinesAcceptedBaton)'
    BY <1>1 DEF IInv, ConfirmedIsAccepted, MinesAcceptedBaton, InChain
  <1>5. (FilesFitPlace /\ NotBuiltIsNowhere)'
    BY DEF IInv, FilesFitPlace, NotBuiltIsNowhere, Idle
  <1>6. (AcceptanceIsFact /\ JobFitsPlace)'
    BY <1>1 DEF IInv, AcceptanceIsFact, JobFitsPlace, FilesFitPlace,
       PlacesWithClaim, Idle
  <1> QED
    BY <1>2, <1>3, <1>4, <1>5, <1>6 DEF IInv

LEMMA MarkAttemptedStep ==
  ASSUME IInv, MarkAttempted
  PROVE  IInv'
  <1> USE NamesDiffer, FaultsCount DEF MarkAttempted, Goto, network, files,
      spent, memory, history
  <1>0. TypeOK /\ Made \subseteq Batons /\ None \notin Made
    BY MadeFacts DEF IInv
  <1>1. Made' = Made
    BY MadeStays
  <1>2. TypeOK'
    BY <1>0 DEF TypeOK, PlacesWithClaim
  <1>3. (SentIsMarked /\ BroadcastOnce /\ NoOrphanMarker)'
    BY DEF IInv, SentIsMarked, BroadcastOnce, NoOrphanMarker, FilesFitPlace, Idle
  <1>4. (ConfirmedIsAccepted /\ MinesAcceptedBaton)'
    BY <1>1 DEF IInv, ConfirmedIsAccepted, MinesAcceptedBaton, InChain
  <1>5. (FilesFitPlace /\ NotBuiltIsNowhere)'
    BY DEF IInv, FilesFitPlace, NotBuiltIsNowhere, Idle
  <1>6. (AcceptanceIsFact /\ JobFitsPlace)'
    BY <1>1 DEF IInv, AcceptanceIsFact, JobFitsPlace, FilesFitPlace,
       PlacesWithClaim, Idle
  <1> QED
    BY <1>2, <1>3, <1>4, <1>5, <1>6 DEF IInv

LEMMA SendStep ==
  ASSUME IInv, Send
  PROVE  IInv'
  <1> USE NamesDiffer, FaultsCount DEF Send, Goto, network, files, spent,
      memory, history
  <1>0. TypeOK /\ Made \subseteq Batons /\ None \notin Made
    BY MadeFacts DEF IInv
  <1>1. Made' = Made
    BY MadeStays
  <1>2. TypeOK'
    BY <1>0 DEF TypeOK, PlacesWithClaim
  <1>3. (SentIsMarked /\ BroadcastOnce /\ NoOrphanMarker)'
    BY DEF IInv, SentIsMarked, BroadcastOnce, NoOrphanMarker, FilesFitPlace, Idle
  <1>4. (ConfirmedIsAccepted /\ MinesAcceptedBaton)'
    BY <1>1 DEF IInv, ConfirmedIsAccepted, MinesAcceptedBaton, InChain
  <1>5. (FilesFitPlace /\ NotBuiltIsNowhere)'
    BY DEF IInv, FilesFitPlace, NotBuiltIsNowhere, Idle
  <1>6. (AcceptanceIsFact /\ JobFitsPlace)'
    BY <1>1 DEF IInv, AcceptanceIsFact, JobFitsPlace, FilesFitPlace,
       PlacesWithClaim, Idle
  <1> QED
    BY <1>2, <1>3, <1>4, <1>5, <1>6 DEF IInv

LEMMA ReplyAcceptedStep ==
  ASSUME IInv, ReplyAccepted
  PROVE  IInv'
  <1> USE NamesDiffer, FaultsCount DEF ReplyAccepted, Goto, network, files,
      spent, memory, history
  <1>0. TypeOK /\ Made \subseteq Batons /\ None \notin Made
    BY MadeFacts DEF IInv
  <1>1. Made' = Made
    BY MadeStays
  <1>2. TypeOK'
    BY <1>0 DEF TypeOK, PlacesWithClaim
  <1>3. (SentIsMarked /\ BroadcastOnce /\ NoOrphanMarker)'
    BY DEF IInv, SentIsMarked, BroadcastOnce, NoOrphanMarker
  <1>4. (ConfirmedIsAccepted /\ MinesAcceptedBaton)'
    BY <1>1 DEF IInv, ConfirmedIsAccepted, MinesAcceptedBaton, InChain
  <1>5. (FilesFitPlace /\ NotBuiltIsNowhere)'
    BY DEF IInv, FilesFitPlace, NotBuiltIsNowhere, Idle
  <1>6. (AcceptanceIsFact /\ JobFitsPlace)'
    BY <1>0, <1>1, MadeFacts DEF IInv, TypeOK, AcceptanceIsFact, JobFitsPlace,
       FilesFitPlace, MinesAcceptedBaton, InChain, PlacesWithClaim, Idle
  <1> QED
    BY <1>2, <1>3, <1>4, <1>5, <1>6 DEF IInv

LEMMA ReplyRefusedStep ==
  ASSUME IInv, ReplyRefused
  PROVE  IInv'
  <1> USE NamesDiffer, FaultsCount DEF ReplyRefused, Goto, Halt, ForgetSpends,
      Fault, network, files, spent, memory, history
  <1>0. TypeOK /\ Made \subseteq Batons /\ None \notin Made
    BY MadeFacts DEF IInv
  <1>1. Made' = Made
    BY MadeStays
  <1>a. faults' \in 0..MaxFaults
    BY <1>0 DEF TypeOK
  <1>2. TypeOK'
    BY <1>a, <1>0, Zenon DEF TypeOK, PlacesWithClaim
  <1>3. (SentIsMarked /\ BroadcastOnce /\ NoOrphanMarker)'
    BY DEF IInv, SentIsMarked, BroadcastOnce, NoOrphanMarker
  <1>4. (ConfirmedIsAccepted /\ MinesAcceptedBaton)'
    BY <1>1 DEF IInv, ConfirmedIsAccepted, MinesAcceptedBaton, InChain
  <1>5. (FilesFitPlace /\ NotBuiltIsNowhere)'
    BY DEF IInv, FilesFitPlace, NotBuiltIsNowhere, Idle
  <1>6. (AcceptanceIsFact /\ JobFitsPlace)'
    <2>1. AcceptanceIsFact'
      BY <1>1 DEF IInv, AcceptanceIsFact
    <2>2. JobFitsPlace'
      BY <1>1 DEF IInv, JobFitsPlace, PlacesWithClaim
    <2> QED
      BY <2>1, <2>2
  <1> QED
    BY <1>2, <1>3, <1>4, <1>5, <1>6 DEF IInv

LEMMA AskStep ==
  ASSUME IInv, Ask
  PROVE  IInv'
  <1> USE NamesDiffer, FaultsCount DEF Ask, Goto, network, files, spent,
      memory, history
  <1>0. TypeOK /\ Made \subseteq Batons /\ None \notin Made
    BY MadeFacts DEF IInv
  <1>1. Made' = Made
    BY MadeStays
  <1>2. TypeOK'
    BY <1>0 DEF TypeOK, PlacesWithClaim
  <1>3. (SentIsMarked /\ BroadcastOnce /\ NoOrphanMarker)'
    BY DEF IInv, SentIsMarked, BroadcastOnce, NoOrphanMarker
  <1>4. (ConfirmedIsAccepted /\ MinesAcceptedBaton)'
    BY <1>1 DEF IInv, ConfirmedIsAccepted, MinesAcceptedBaton, InChain
  <1>5. (FilesFitPlace /\ NotBuiltIsNowhere)'
    BY DEF IInv, FilesFitPlace, NotBuiltIsNowhere, Idle
  <1>6. (AcceptanceIsFact /\ JobFitsPlace)'
    <2>0. known' => journal \in Made
      <3>1. PICK k \in view..Len(chain) : known' = (\E i \in 1..k : chain[i] = journal)
        OBVIOUS
      <3>2. 1..k \subseteq 1..Len(chain)
        BY <1>0 DEF TypeOK
      <3>3. known' => \E i \in 1..k : chain[i] = journal
        BY <3>1, Zenon
      <3> QED
        BY <3>2, <3>3, Zenon DEF Made
    <2>1. AcceptanceIsFact'
      BY <1>1, <2>0 DEF IInv, AcceptanceIsFact
    <2>2. JobFitsPlace'
      BY <1>1 DEF IInv, JobFitsPlace, PlacesWithClaim
    <2> QED
      BY <2>1, <2>2
  <1> QED
    BY <1>2, <1>3, <1>4, <1>5, <1>6 DEF IInv

LEMMA LookStep ==
  ASSUME IInv, Look
  PROVE  IInv'
  <1> USE NamesDiffer, FaultsCount DEF Look, Goto, GiveUp, Halt, ForgetSpends,
      Connect, network, files, spent, memory, history
  <1>0. TypeOK /\ Made \subseteq Batons /\ None \notin Made
    BY MadeFacts DEF IInv
  <1>1. Made' = Made
    BY MadeStays
  <1>2. TypeOK'
    BY <1>0, MadeFacts, Zenon DEF TypeOK, PlacesWithClaim, Batons
  <1>3. (SentIsMarked /\ BroadcastOnce /\ NoOrphanMarker)'
    BY DEF IInv, SentIsMarked, BroadcastOnce, NoOrphanMarker
  <1>4. (ConfirmedIsAccepted /\ MinesAcceptedBaton)'
    BY <1>1 DEF IInv, ConfirmedIsAccepted, MinesAcceptedBaton, InChain
  <1>5. (FilesFitPlace /\ NotBuiltIsNowhere)'
    BY DEF IInv, FilesFitPlace, NotBuiltIsNowhere, Idle
  <1>6. (AcceptanceIsFact /\ JobFitsPlace)'
    <2>a. Listed \in Made
      BY <1>0, MadeFacts
    <2>b. known \/ Listed = journal => journal \in Made
      BY <2>a DEF IInv, AcceptanceIsFact
    <2>c. \/ known' = FALSE /\ fresh' = None /\ pc' \in {"down", "try"}
          \/ known' = known /\ fresh' = fresh /\ pc' = "mark"
          \/ known' = known /\ fresh' = Listed /\ pc' = "stale"
          \/ known' = known /\ fresh' = Listed /\ journal \in Made /\ pc' \in {"settle", "accept"}
      BY <2>b
    <2>d. journal' = journal
      OBVIOUS
    <2>1. AcceptanceIsFact'
      <3> HIDE DEF Look
      <3> QED
        BY <1>0, <1>1, <2>a, <2>c, <2>d DEF IInv, AcceptanceIsFact
    <2>2. JobFitsPlace'
      BY <1>1 DEF IInv, JobFitsPlace, PlacesWithClaim
    <2> QED
      BY <2>1, <2>2
  <1> QED
    BY <1>2, <1>3, <1>4, <1>5, <1>6 DEF IInv

LEMMA MarkAcceptedStep ==
  ASSUME IInv, MarkAccepted
  PROVE  IInv'
  <1> USE NamesDiffer, FaultsCount DEF MarkAccepted, Goto, network, files,
      spent, memory, history
  <1>0. TypeOK /\ Made \subseteq Batons /\ None \notin Made
    BY MadeFacts DEF IInv
  <1>1. Made' = Made
    BY MadeStays
  <1>2. TypeOK'
    BY <1>0, MadeFacts DEF TypeOK, PlacesWithClaim, Batons
  <1>3. (SentIsMarked /\ BroadcastOnce /\ NoOrphanMarker)'
    BY DEF IInv, SentIsMarked, BroadcastOnce, NoOrphanMarker
  <1>4. (ConfirmedIsAccepted /\ MinesAcceptedBaton)'
    BY <1>1 DEF IInv, ConfirmedIsAccepted, MinesAcceptedBaton, InChain
  <1>5. (FilesFitPlace /\ NotBuiltIsNowhere)'
    BY DEF IInv, FilesFitPlace, NotBuiltIsNowhere, Idle
  <1>6. (AcceptanceIsFact /\ JobFitsPlace)'
    <2>a. /\ journal' = journal /\ known' = known
          /\ \/ pc' = "accept" /\ fresh' = fresh
             \/ pc' = "settle" /\ fresh' = fresh /\ fresh # None
             \/ pc' = "resolve" /\ fresh' = journal
             \/ pc' = "look" /\ fresh' = fresh
      OBVIOUS
    <2>b. journal \in Made
      BY DEF IInv, AcceptanceIsFact
    <2>1. AcceptanceIsFact'
      <3> HIDE DEF MarkAccepted
      <3> QED
        BY <1>0, <1>1, <2>a, <2>b DEF IInv, AcceptanceIsFact
    <2>2. JobFitsPlace'
      BY <1>1 DEF IInv, JobFitsPlace, PlacesWithClaim
    <2> QED
      BY <2>1, <2>2
  <1> QED
    BY <1>2, <1>3, <1>4, <1>5, <1>6 DEF IInv

LEMMA SettleStep ==
  ASSUME IInv, Settle
  PROVE  IInv'
  <1> USE NamesDiffer, FaultsCount DEF Settle, Goto, GiveUp, Halt,
      ForgetSpends, Connect, network, files, spent, memory, history
  <1>0. TypeOK /\ Made \subseteq Batons /\ None \notin Made
    BY MadeFacts DEF IInv
  <1>1. Made' = Made
    BY MadeStays
  <1>2. TypeOK'
    BY <1>0, MadeFacts, Zenon DEF TypeOK, PlacesWithClaim, Batons
  <1>3. (SentIsMarked /\ BroadcastOnce /\ NoOrphanMarker)'
    BY DEF IInv, SentIsMarked, BroadcastOnce, NoOrphanMarker
  <1>4. (ConfirmedIsAccepted /\ MinesAcceptedBaton)'
    BY <1>1 DEF IInv, ConfirmedIsAccepted, MinesAcceptedBaton, InChain
  <1>5. (FilesFitPlace /\ NotBuiltIsNowhere)'
    BY DEF IInv, FilesFitPlace, NotBuiltIsNowhere, Idle
  <1>6. (AcceptanceIsFact /\ JobFitsPlace)'
    BY <1>0, <1>1, MadeFacts, Zenon DEF IInv, TypeOK, AcceptanceIsFact,
       JobFitsPlace,
       FilesFitPlace, MinesAcceptedBaton, InChain, PlacesWithClaim, Idle
  <1> QED
    BY <1>2, <1>3, <1>4, <1>5, <1>6 DEF IInv

LEMMA EraseRecordStep ==
  ASSUME IInv, EraseRecord
  PROVE  IInv'
  <1> USE NamesDiffer, FaultsCount DEF EraseRecord, Goto, network, files,
      spent, memory, history
  <1>0. TypeOK /\ Made \subseteq Batons /\ None \notin Made
    BY MadeFacts DEF IInv
  <1>1. Made' = Made
    BY MadeStays
  <1>2. TypeOK'
    BY <1>0 DEF TypeOK
  <1>3. (SentIsMarked /\ BroadcastOnce /\ NoOrphanMarker)'
    BY DEF IInv, SentIsMarked, BroadcastOnce, NoOrphanMarker
  <1>4. (ConfirmedIsAccepted /\ MinesAcceptedBaton)'
    BY <1>1 DEF IInv, ConfirmedIsAccepted, MinesAcceptedBaton, InChain,
       AcceptanceIsFact, NoRecord
  <1>5. (FilesFitPlace /\ NotBuiltIsNowhere)'
    BY DEF IInv, FilesFitPlace, NotBuiltIsNowhere
  <1>6. (AcceptanceIsFact /\ JobFitsPlace)'
    BY <1>1 DEF IInv, AcceptanceIsFact, JobFitsPlace
  <1> QED
    BY <1>2, <1>3, <1>4, <1>5, <1>6 DEF IInv

LEMMA WriteRecordStep ==
  ASSUME IInv, WriteRecord
  PROVE  IInv'
  <1> USE NamesDiffer, FaultsCount DEF WriteRecord, Goto, Resolution, network,
      files, spent, memory, history
  <1>0. TypeOK /\ Made \subseteq Batons /\ None \notin Made
    BY MadeFacts DEF IInv
  <1>1. Made' = Made
    BY MadeStays
  <1>a. record' \in [claim : Claims, reason : Reasons] /\ journal \in Claims
    BY <1>0 DEF TypeOK, PlacesWithClaim, Reasons
  <1>2. TypeOK'
    BY <1>0, <1>a DEF TypeOK, PlacesWithClaim
  <1>3. (SentIsMarked /\ BroadcastOnce /\ NoOrphanMarker)'
    BY DEF IInv, SentIsMarked, BroadcastOnce, NoOrphanMarker
  <1>4. (ConfirmedIsAccepted /\ MinesAcceptedBaton)'
    BY <1>1 DEF IInv, ConfirmedIsAccepted, MinesAcceptedBaton, InChain,
       AcceptanceIsFact, NoRecord
  <1>5. (FilesFitPlace /\ NotBuiltIsNowhere)'
    BY DEF IInv, FilesFitPlace, NotBuiltIsNowhere, Idle
  <1>6. (AcceptanceIsFact /\ JobFitsPlace)'
    BY <1>1 DEF IInv, AcceptanceIsFact, JobFitsPlace, FilesFitPlace,
       PlacesWithClaim, Idle
  <1> QED
    BY <1>2, <1>3, <1>4, <1>5, <1>6 DEF IInv

LEMMA RemoveMarkersStep ==
  ASSUME IInv, RemoveMarkers
  PROVE  IInv'
  <1> USE NamesDiffer, FaultsCount DEF RemoveMarkers, Goto, network, files,
      spent, memory, history
  <1>0. TypeOK /\ Made \subseteq Batons /\ None \notin Made
    BY MadeFacts DEF IInv
  <1>1. Made' = Made
    BY MadeStays
  <1>2. TypeOK'
    BY <1>0 DEF TypeOK
  <1>3. (SentIsMarked /\ BroadcastOnce /\ NoOrphanMarker)'
    BY DEF IInv, SentIsMarked, BroadcastOnce, NoOrphanMarker, FilesFitPlace, Idle
  <1>4. (ConfirmedIsAccepted /\ MinesAcceptedBaton)'
    BY <1>1 DEF IInv, ConfirmedIsAccepted, MinesAcceptedBaton, InChain
  <1>5. (FilesFitPlace /\ NotBuiltIsNowhere)'
    BY DEF IInv, FilesFitPlace, NotBuiltIsNowhere
  <1>6. (AcceptanceIsFact /\ JobFitsPlace)'
    BY <1>1 DEF IInv, AcceptanceIsFact, JobFitsPlace
  <1> QED
    BY <1>2, <1>3, <1>4, <1>5, <1>6 DEF IInv

LEMMA RemoveJournalStep ==
  ASSUME IInv, RemoveJournal
  PROVE  IInv'
  <1> USE NamesDiffer, FaultsCount DEF RemoveJournal, Goto, ForgetSpends,
      Fault, network, files, spent, memory, history
  <1>0. TypeOK /\ Made \subseteq Batons /\ None \notin Made
    BY MadeFacts DEF IInv
  <1>1. Made' = Made
    BY MadeStays
  <1>a. faults' \in 0..MaxFaults
    BY <1>0 DEF TypeOK
  <1>2. TypeOK'
    BY <1>a, <1>0, Zenon DEF TypeOK, PlacesWithClaim
  <1>3. (SentIsMarked /\ BroadcastOnce /\ NoOrphanMarker)'
    BY DEF IInv, SentIsMarked, BroadcastOnce, NoOrphanMarker
  <1>4. (ConfirmedIsAccepted /\ MinesAcceptedBaton)'
    BY <1>1 DEF IInv, ConfirmedIsAccepted, MinesAcceptedBaton, InChain,
       AcceptanceIsFact, NoRecord
  <1>5. (FilesFitPlace /\ NotBuiltIsNowhere)'
    BY DEF IInv, FilesFitPlace, NotBuiltIsNowhere
  <1>6. (AcceptanceIsFact /\ JobFitsPlace)'
    <2>1. fresh \in Made
      BY DEF IInv, AcceptanceIsFact
    <2>2. record.reason = "confirmed" => journal \in Made
      BY DEF IInv, ConfirmedIsAccepted, InChain, FilesFitPlace
    <2>3. ctx = "claim" => live = journal \/ live \in Made
      BY DEF IInv, JobFitsPlace, PlacesWithClaim
    <2>4. AcceptanceIsFact'
      BY DEF AcceptanceIsFact
    <2>5. JobFitsPlace'
      BY <1>1, <2>1, <2>2, <2>3 DEF IInv, JobFitsPlace, PlacesWithClaim
    <2> QED
      BY <2>4, <2>5
  <1> QED
    BY <1>2, <1>3, <1>4, <1>5, <1>6 DEF IInv

LEMMA ReconnectStep == ASSUME IInv, Reconnect PROVE IInv'
  BY TakeListedStep DEF Reconnect

LEMMA NextIInv == ASSUME IInv, [Next]_vars PROVE IInv'
  <1>1. CASE Network
    BY <1>1, RivalClaimsStep, ArrivesStep, LostStep, ServersCatchUpStep,
       ServerCatchesUpStep DEF Network
  <1>2. CASE Works
    BY <1>2, BeginMiningStep, BeginSuccessorStep, TryStep, MarkAttemptedStep,
       SendStep, ReplyAcceptedStep, ReplyRefusedStep, AskStep, LookStep,
       MarkAcceptedStep, SettleStep, EraseRecordStep, WriteRecordStep,
       RemoveMarkersStep, RemoveJournalStep, ReconnectStep DEF Works
  <1>3. CASE UNCHANGED vars
    <2> USE <1>3 DEF vars, network, files, spent, memory, history
    <2>1. Made' = Made
      BY MadeStays
    <2>2. TypeOK'
      <3>1. TypeOK
        BY DEF IInv
      <3> QED
        BY <3>1 DEF TypeOK
    <2>3. (SentIsMarked /\ BroadcastOnce /\ NoOrphanMarker)'
      BY DEF IInv, SentIsMarked, BroadcastOnce, NoOrphanMarker
    <2>4. (ConfirmedIsAccepted /\ MinesAcceptedBaton)'
      BY <2>1 DEF IInv, ConfirmedIsAccepted, MinesAcceptedBaton, InChain
    <2>5. (FilesFitPlace /\ NotBuiltIsNowhere)'
      BY DEF IInv, FilesFitPlace, NotBuiltIsNowhere
    <2>6. (AcceptanceIsFact /\ JobFitsPlace)'
      BY <2>1 DEF IInv, AcceptanceIsFact, JobFitsPlace
    <2> QED
      BY <2>2, <2>3, <2>4, <2>5, <2>6 DEF IInv
  <1> QED
    BY <1>1, <1>2, <1>3, StartStep, RefreshStep, DrainStaleStep, GraceEndsStep,
       PrepareStep, StepFailsStep, CrashStep DEF Next

LEMMA Inductive == Spec => []IInv
  BY InitIInv, NextIInv, PTL DEF Spec

(* The files and the memory of the runtime keep their shape, and no step   *)
(* of an attempt is taken without a journal.                               *)
THEOREM ClaimTypes == Spec => []TypeOK
  BY Inductive, PTL DEF IInv

(* A claim that reached the network is marked as sent until its resolution *)
(* is written, whatever stops the process (mark_parent_attempted before    *)
(* the broadcast, PendingSubmission::remove after persist_latest).         *)
THEOREM SentClaimsAreMarked == Spec => []SentIsMarked
  BY Inductive, PTL DEF IInv

(* No retry, restart or reconnection broadcasts an unresolved claim again  *)
(* (attempt_parent_only_submission).                                       *)
THEOREM NoSecondBroadcast == Spec => []BroadcastOnce
  BY Inductive, PTL DEF IInv

(* No stop leaves a marker without its journal, which would keep the miner *)
(* from ever starting again (PendingSubmission::remove).                   *)
THEOREM MarkersHaveJournals == Spec => []NoOrphanMarker
  BY Inductive, PTL DEF IInv

(* The record calls a claim confirmed only if the network accepted it,     *)
(* however far behind the asked servers are.                               *)
THEOREM ConfirmationsAreTrue == Spec => []ConfirmedIsAccepted
  BY Inductive, PTL DEF IInv

(* With no claim open the GPUs mine a baton of the accepted lineage        *)
(* (begin_successor_generation, apply_refreshed_job, indexer_lags).        *)
THEOREM MinesOnlyAccepted == Spec => []MinesAcceptedBaton
  BY Inductive, PTL DEF IInv

LEMMA ForgetStep ==
  ASSUME IInv, [Next]_vars, journal # None, journal' # journal
  PROVE  record.claim = journal /\ journal' = None
  <1>1. RemoveJournal \/ \E c \in Claims : Prepare(c)
    BY Zenon DEF Next, Network, Works, vars, files, RivalClaims, Arrives, Lost,
       ServersCatchUp, ServerCatchesUp, StepFails, Crash, Start, BeginMining,
       Refresh, TakeListed, DrainStale, GraceEnds, BeginSuccessor, Try,
       MarkAttempted, Send, ReplyAccepted, ReplyRefused, Ask, Look,
       MarkAccepted, Settle, EraseRecord, WriteRecord, RemoveMarkers, Reconnect
  <1> QED
    BY <1>1 DEF RemoveJournal, Prepare, IInv, FilesFitPlace

(* A journal is removed only when the resolution of its claim is on disk,  *)
(* and never replaced by another (resolve_confirmed_submission,            *)
(* resolve_stale_submission, persist_new).                                 *)
THEOREM ForgetsOnlyResolved == Spec => ResolvedBeforeForgotten
  <1>1. IInv /\ [Next]_vars
          => [journal # None /\ journal' # journal
                => record.claim = journal /\ journal' = None]_vars
    BY ForgetStep
  <1> QED
    BY <1>1, Inductive, PTL DEF Spec, ResolvedBeforeForgotten

===========================================================================
