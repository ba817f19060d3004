------------------------- MODULE BlockJournalProofs -------------------------
(***************************************************************************)
(* For any devices, blocks and bounds: the journal's types, that an        *)
(* acknowledged save is never lost before the node's final answer, that    *)
(* the journal implements its promise, that every file it leaves can be    *)
(* opened again, that its counts are exact, and that one run saves one     *)
(* block per parent.                                                       *)
(***************************************************************************)
EXTENDS BlockJournal, FiniteSetTheorems, TLAPS

\* Blocks whose save is acknowledged or about to be.
Kept == saveAcked \cup {job[d] : d \in {x \in Devices: pc[x] = "ack"}}

\* A copy of the journal that may be read back or written next keeps them,
\* and has receipts only for blocks with a final answer.
Keeps(s) == /\ Kept \subseteq s.pending \cup decided
            /\ Range(s.completed) \subseteq decided

\* Exactly the threads between the temporary file and the release of the
\* mutex hold it.
MutexHeld ==
  /\ \A t \in Threads: pc[t] \in {"rename", "sync"} <=> writer = t

\* The draft is on disk once it is renamed, and it contains the block its
\* device thread will acknowledge.
DraftInstalled ==
  /\ \A t \in Threads: pc[t] = "sync" => disk = draft
  /\ \A d \in Devices: pc[d] \in {"rename", "sync"} => job[d] \in draft.pending

\* A thread in the middle of its handler has a block in hand, and the node
\* thread finishes only what was answered.
InHand ==
  /\ \A t \in Threads: pc[t] \notin {"idle", "dead"} => job[t] \in Blocks
  /\ \A d \in Devices: pc[d] \notin {"rpc", "finish", "dead"}
  /\ pc[Node] \notin {"solved", "enqueue", "ack", "repeat"}
  /\ pc[Node] = "finish" => job[Node] \in decided
  /\ ~up => \A t \in Threads: pc[t] = "idle"

\* What memory holds as pending is pending in every copy, or answered: a
\* failed persist leaves the file ahead of memory only by an answered block
\* or a block nobody was told about.
Covers(s) == mem.pending \subseteq s.pending \cup decided

\* The inductive invariant behind SavedBeforeAck.
IInv ==
  /\ TypeOK
  /\ MutexHeld
  /\ DraftInstalled
  /\ InHand
  /\ Keeps(disk) /\ Keeps(synced)
  /\ up => Keeps(mem) /\ Covers(disk) /\ Covers(synced)
  /\ writer # NoOne => up /\ Keeps(draft) /\ Covers(draft)
  /\ ~up => disk = synced

-----------------------------------------------------------------------------
\* Appending to a sequence adds one element.
LEMMA AppendAdds ==
  ASSUME NEW S, NEW s \in Seq(S), NEW e \in S
  PROVE  /\ Append(s, e) \in Seq(S)
         /\ Range(Append(s, e)) \subseteq Range(s) \cup {e}
  BY DEF Range

\* Dropping the head of a sequence adds nothing.
LEMMA TailDrops ==
  ASSUME NEW S, NEW s \in Seq(S), s # <<>>
  PROVE  /\ Tail(s) \in Seq(S)
         /\ Len(Tail(s)) = Len(s) - 1
         /\ Range(Tail(s)) \subseteq Range(s)
  BY DEF Range

\* Journal::push's new state: the block is pending, nothing else changes.
LEMMA PushType ==
  ASSUME NEW s \in State, NEW b \in Blocks
  PROVE  /\ PushedState(s, b) \in State
         /\ PushedState(s, b).pending = s.pending \cup {b}
         /\ PushedState(s, b).completed = s.completed
  BY DEF PushedState, State

\* Journal::finish's new state: one block leaves pending and gets a receipt.
LEMMA FinishType ==
  ASSUME NEW s \in State, NEW b \in Blocks, NEW a \in BOOLEAN
  PROVE  /\ FinishedState(s, b, a) \in State
         /\ FinishedState(s, b, a).pending = s.pending \ {b}
         /\ Range(FinishedState(s, b, a).completed) \subseteq Range(s.completed) \cup {b}
<1> DEFINE longer == Append(s.completed, b)
<1>1. s.completed \in Seq(Blocks)
  BY DEF State
<1>2. longer \in Seq(Blocks) /\ Range(longer) \subseteq Range(s.completed) \cup {b}
  BY <1>1, AppendAdds
<1>a. longer # <<>>
  BY <1>1
<1>3. /\ AddReceipt(s.completed, b) \in Seq(Blocks)
      /\ Range(AddReceipt(s.completed, b)) \subseteq Range(s.completed) \cup {b}
  BY <1>2, <1>a, TailDrops, Zenon DEF AddReceipt
<1>4. /\ FinishedState(s, b, a).pending = s.pending \ {b}
      /\ FinishedState(s, b, a).completed = AddReceipt(s.completed, b)
  BY Zenon DEF FinishedState, State
<1>5. /\ (IF a THEN s.accepted + 1 ELSE s.accepted) \in Nat
      /\ (IF a THEN s.rejected ELSE s.rejected + 1) \in Nat
  BY DEF State
<1>6. s.pending \ {b} \in SUBSET Blocks /\ s.done \cup {b} \in SUBSET Blocks
  BY DEF State
<1>7. FinishedState(s, b, a) \in State
  BY <1>3, <1>5, <1>6, Zenon DEF FinishedState, State
<1> QED
  BY <1>3, <1>4, <1>7, Zenon

\* SolvedParents::first keeps its list within RECENT.
LEMMA RememberType ==
  ASSUME NEW s \in Seq(Nat), Len(s) <= RecentParents, NEW p \in Nat
  PROVE  RememberParent(s, p) \in Seq(Nat) /\ Len(RememberParent(s, p)) <= RecentParents
<1>1. CASE Len(s) >= RecentParents
  BY <1>1, TailDrops, BoundsAreNumbers DEF RememberParent
<1>2. CASE ~(Len(s) >= RecentParents)
  BY <1>2, BoundsAreNumbers DEF RememberParent
<1> QED BY <1>1, <1>2

\* The empty journal is a journal.
LEMMA EmptyType == EmptyState \in State /\ Range(EmptyState.completed) = {}
  BY DEF EmptyState, State, Range

-----------------------------------------------------------------------------
\* The program starts with an empty journal and idle threads.
LEMMA InitIInv == Init => IInv
<1> SUFFICES ASSUME Init PROVE IInv
  OBVIOUS
<1>a. <<>> \in Seq(Nat) /\ Len(<<>>) <= RecentParents
  BY BoundsAreNumbers
<1>1. TypeOK
  BY <1>a, EmptyType, Zenon DEF Init, TypeOK
<1>2. MutexHeld /\ DraftInstalled /\ InHand
  BY NamesAreDistinct, Zenon DEF Init, MutexHeld, DraftInstalled, InHand, Threads
<1>3. Kept = {}
  BY DEF Init, Kept, Threads
<1>4. Keeps(EmptyState) /\ EmptyState.pending = {}
  BY <1>3, EmptyType DEF Keeps, EmptyState
<1> QED
  BY <1>1, <1>2, <1>4, Zenon DEF IInv, Init, Covers

\* A step that leaves the journal and the answers alone and makes no thread
\* ready to acknowledge loses nothing.
LEMMA QuietStep ==
  ASSUME IInv, UNCHANGED <<journalVars, up>>, Kept' \subseteq Kept, decided \subseteq decided'
  PROVE  /\ Keeps(disk)' /\ Keeps(synced)'
         /\ (up => Keeps(mem) /\ Covers(disk) /\ Covers(synced))'
         /\ (writer # NoOne => up /\ Keeps(draft) /\ Covers(draft))'
         /\ (~up => disk = synced)'
  BY Zenon DEF IInv, Keeps, Covers, journalVars

\* Present keeps the invariant.
LEMMA PresentStep ==
  ASSUME NEW d \in Devices, NEW b \in Blocks, IInv, Present(d, b)
  PROVE  IInv'
<1> USE DEF Present, Goto, threadVars, historyVars, journalVars
<1>1. TypeOK'
  BY Zenon DEF IInv, TypeOK, InHand, Threads
<1>2. MutexHeld' /\ DraftInstalled' /\ InHand'
  BY NamesAreDistinct, Zenon DEF IInv, TypeOK, MutexHeld, DraftInstalled, InHand, Threads
<1>3. Kept' \subseteq Kept
  BY NamesAreDistinct, Zenon DEF IInv, TypeOK, Kept, Threads
<1> QED
  BY <1>1, <1>2, <1>3, QuietStep, Zenon DEF IInv

\* MarkParent keeps the invariant.
LEMMA MarkParentStep ==
  ASSUME NEW d \in Devices, IInv, MarkParent(d)
  PROVE  IInv'
<1> USE DEF MarkParent, Goto, threadVars, historyVars, journalVars
<1>a. ParentOf[job[d]] \in Nat
  BY ParentsAreHeights, Zenon DEF IInv, InHand, Threads
<1>b. solved' \in Seq(Nat) /\ Len(solved') <= RecentParents
  BY <1>a, RememberType, Zenon DEF IInv, TypeOK
<1>1. TypeOK'
  BY <1>b, Zenon DEF IInv, TypeOK, Threads
<1>2. MutexHeld' /\ DraftInstalled' /\ InHand'
  BY NamesAreDistinct DEF IInv, TypeOK, MutexHeld, DraftInstalled, InHand, Threads
<1>3. Kept' \subseteq Kept
  BY NamesAreDistinct, Zenon DEF IInv, TypeOK, Kept, Threads
<1> QED
  BY <1>1, <1>2, <1>3, QuietStep, Zenon DEF IInv

\* ConnectionLost keeps the invariant.
LEMMA ConnectionLostStep ==
  ASSUME NEW d \in Devices, IInv, ConnectionLost(d)
  PROVE  IInv'
<1> USE DEF ConnectionLost, Leave, Goto, threadVars, historyVars, journalVars
<1>1. TypeOK'
  BY Zenon DEF IInv, TypeOK, InHand, Threads
<1>2. MutexHeld' /\ DraftInstalled' /\ InHand'
  BY NamesAreDistinct, Zenon DEF IInv, TypeOK, MutexHeld, DraftInstalled, InHand, Threads
<1>3. Kept' \subseteq Kept
  BY NamesAreDistinct, Zenon DEF IInv, TypeOK, Kept, Threads
<1> QED
  BY <1>1, <1>2, <1>3, QuietStep, Zenon DEF IInv

\* PickPending keeps the invariant.
LEMMA PickPendingStep ==
  ASSUME NEW b \in Blocks, IInv, PickPending(b)
  PROVE  IInv'
<1> USE DEF PickPending, Goto, threadVars, historyVars, journalVars
<1>1. TypeOK'
  BY Zenon DEF IInv, TypeOK, InHand, Threads
<1>2. MutexHeld' /\ DraftInstalled' /\ InHand'
  BY NamesAreDistinct, Zenon DEF IInv, TypeOK, MutexHeld, DraftInstalled, InHand, Threads
<1>3. Kept' \subseteq Kept
  BY NamesAreDistinct, Zenon DEF IInv, TypeOK, Kept, Threads
<1> QED
  BY <1>1, <1>2, <1>3, QuietStep, Zenon DEF IInv

\* Answered keeps the invariant.
LEMMA AnsweredStep ==
  ASSUME IInv, Answered
  PROVE  IInv'
<1> USE DEF Answered, Goto, threadVars, historyVars, journalVars
<1>1. TypeOK'
  BY DEF IInv, TypeOK, InHand, Threads
<1>2. MutexHeld' /\ DraftInstalled' /\ InHand'
  BY NamesAreDistinct, Zenon DEF IInv, TypeOK, MutexHeld, DraftInstalled, InHand, Threads
<1>3. Kept' \subseteq Kept
  BY NamesAreDistinct, Zenon DEF IInv, TypeOK, Kept, Threads
<1> QED
  BY <1>1, <1>2, <1>3, QuietStep, Zenon DEF IInv

\* Unanswered keeps the invariant.
LEMMA UnansweredStep ==
  ASSUME IInv, Unanswered
  PROVE  IInv'
<1> USE DEF Unanswered, Leave, Goto, threadVars, historyVars, journalVars
<1>1. TypeOK'
  BY DEF IInv, TypeOK, InHand, Threads
<1>2. MutexHeld' /\ DraftInstalled' /\ InHand'
  BY NamesAreDistinct, Zenon DEF IInv, TypeOK, MutexHeld, DraftInstalled, InHand, Threads
<1>3. Kept' \subseteq Kept
  BY NamesAreDistinct DEF IInv, TypeOK, Kept, Threads
<1> QED
  BY <1>1, <1>2, <1>3, QuietStep, Zenon DEF IInv

\* NodeDied keeps the invariant.
LEMMA NodeDiedStep ==
  ASSUME IInv, NodeDied
  PROVE  IInv'
<1> USE DEF NodeDied, Goto, threadVars, historyVars, journalVars
<1>1. TypeOK'
  BY Zenon DEF IInv, TypeOK, InHand, Threads
<1>2. MutexHeld' /\ DraftInstalled' /\ InHand'
  BY NamesAreDistinct, Zenon DEF IInv, TypeOK, MutexHeld, DraftInstalled, InHand, Threads
<1>3. Kept' \subseteq Kept
  BY NamesAreDistinct, Zenon DEF IInv, TypeOK, Kept, Threads
<1> QED
  BY <1>1, <1>2, <1>3, QuietStep, Zenon DEF IInv

\* NewTip keeps the invariant.
LEMMA NewTipStep ==
  ASSUME IInv, NewTip
  PROVE  IInv'
<1> USE DEF NewTip, Goto, threadVars, historyVars, journalVars
<1>1. TypeOK'
  BY DEF IInv, TypeOK, InHand, Threads
<1>2. MutexHeld' /\ DraftInstalled' /\ InHand'
  BY NamesAreDistinct, Zenon DEF IInv, TypeOK, MutexHeld, DraftInstalled, InHand, Threads
<1>3. Kept' \subseteq Kept
  BY NamesAreDistinct, Zenon DEF IInv, TypeOK, Kept, Threads
<1> QED
  BY <1>1, <1>2, <1>3, QuietStep, Zenon DEF IInv

\* OperatorStops keeps the invariant.
LEMMA OperatorStopsStep ==
  ASSUME IInv, OperatorStops
  PROVE  IInv'
<1> USE DEF OperatorStops, Goto, threadVars, historyVars, journalVars
<1>1. TypeOK'
  BY Zenon DEF IInv, TypeOK, InHand, Threads
<1>2. MutexHeld' /\ DraftInstalled' /\ InHand'
  BY NamesAreDistinct, Zenon DEF IInv, TypeOK, MutexHeld, DraftInstalled, InHand, Threads
<1>3. Kept' \subseteq Kept
  BY NamesAreDistinct, Zenon DEF IInv, TypeOK, Kept, Threads
<1> QED
  BY <1>1, <1>2, <1>3, QuietStep, Zenon DEF IInv
\* Acknowledge moves a block from "about to be acknowledged" to acknowledged.
LEMMA AcknowledgeStep ==
  ASSUME NEW d \in Devices, IInv, Acknowledge(d)
  PROVE  IInv'
<1> USE DEF Acknowledge, Leave, Goto, threadVars, historyVars, journalVars
<1>1. TypeOK'
  <2>1. job[d] \in Blocks /\ ParentOf[job[d]] \in Nat
    BY ParentsAreHeights, Zenon DEF IInv, InHand, Threads
  <2> QED BY <2>1, Zenon DEF IInv, TypeOK, Threads
<1>2. MutexHeld' /\ DraftInstalled' /\ InHand'
  BY NamesAreDistinct, Zenon DEF IInv, TypeOK, MutexHeld, DraftInstalled, InHand, Threads
<1>3. Kept' \subseteq Kept
  BY NamesAreDistinct, Zenon DEF IInv, TypeOK, Kept, Threads
<1> QED
  BY <1>1, <1>2, <1>3, QuietStep, Zenon DEF IInv

\* Enqueue drafts a journal with the new block, or finds the block saved, or fails.
LEMMA EnqueueStep ==
  ASSUME NEW d \in Devices, IInv, Enqueue(d)
  PROVE  IInv'
<1>a. job[d] \in Blocks /\ mem \in State
  BY Zenon DEF Enqueue, IInv, InHand, TypeOK, Threads
<1>0. /\ PushedState(mem, job[d]) \in State
      /\ PushedState(mem, job[d]).pending = mem.pending \cup {job[d]}
      /\ PushedState(mem, job[d]).completed = mem.completed
  BY <1>a, PushType, Zenon
<1> USE DEF Enqueue, SaveFails, Leave, Goto, historyVars
<1>1. TypeOK'
  BY <1>0, Zenon DEF IInv, TypeOK, Threads
<1>2. MutexHeld' /\ InHand'
  BY NamesAreDistinct DEF IInv, TypeOK, MutexHeld, InHand, Threads
<1>3. DraftInstalled'
  BY <1>0, NamesAreDistinct DEF IInv, TypeOK, MutexHeld, DraftInstalled, Threads
<1>4. CASE AlreadySaved(mem, job[d])
  <2>1. job[d] \in mem.pending \cup decided
    BY <1>4, Zenon DEF IInv, Keeps, AlreadySaved
  <2>2. Kept' \subseteq Kept \cup {job[d]}
    BY <1>4 DEF IInv, TypeOK, Kept, Threads
  <2>3. job[d] \in disk.pending \cup decided /\ job[d] \in synced.pending \cup decided
    BY <2>1, Zenon DEF IInv, Covers
  <2> QED
    BY <1>1, <1>2, <1>3, <1>4, <2>1, <2>2, <2>3, Zenon DEF IInv, Keeps, Covers
<1>5. CASE ~AlreadySaved(mem, job[d])
  <2>0. /\ saveAcked' = saveAcked
        /\ \A e \in Devices : pc'[e] = "ack" => pc[e] = "ack" /\ job'[e] = job[e]
    BY <1>5, Zenon DEF IInv, TypeOK, Threads
  <2>1. Kept' \subseteq Kept
    <3> HIDE DEF Enqueue
    <3> QED
      BY <2>0 DEF Kept
  <2>2. writer' # NoOne => draft' = PushedState(mem, job[d])
    BY <1>5, Zenon
  <2>a. writer' # NoOne => /\ draft'.pending = mem.pending \cup {job[d]}
                           /\ draft'.completed = mem.completed
    BY <1>0, <2>2, Zenon
  <2>3. writer' # NoOne => (Keeps(draft) /\ Covers(draft))'
    BY <2>1, <2>a, Zenon DEF IInv, Keeps, Covers
  <2> QED
    BY <1>1, <1>2, <1>3, <2>1, <2>3, Zenon DEF IInv, Keeps, Covers
<1> QED
  BY <1>4, <1>5, Zenon

\* Rename installs the draft, or fails and installs nothing.
LEMMA RenameStep ==
  ASSUME NEW t \in Threads, IInv, Rename(t)
  PROVE  IInv'
<1> USE DEF Rename, Release, PersistFails, SaveFails, Leave, Goto, historyVars
<1>1. TypeOK'
  BY EmptyType, Zenon DEF IInv, TypeOK, Threads
<1>2. MutexHeld' /\ InHand'
  BY NamesAreDistinct DEF IInv, TypeOK, MutexHeld, InHand, Threads
<1>3. DraftInstalled'
  BY NamesAreDistinct DEF IInv, TypeOK, MutexHeld, DraftInstalled, Threads
<1>4. Kept' \subseteq Kept
  BY NamesAreDistinct DEF IInv, TypeOK, Kept, Threads
<1>5. writer # NoOne /\ Keeps(draft) /\ Covers(draft)
  BY NamesAreDistinct, Zenon DEF IInv, Threads
<1>6. disk' = disk \/ disk' = draft
  BY Zenon
<1> QED
  BY <1>1, <1>2, <1>3, <1>4, <1>5, <1>6, Zenon DEF IInv, Keeps, Covers

\* Sync makes the renamed draft the state in memory, or fails and leaves the
\* file ahead.
LEMMA SyncStep ==
  ASSUME NEW t \in Threads, IInv, Sync(t)
  PROVE  IInv'
<1> USE DEF Sync, Release, PersistFails, SaveFails, Leave, Goto, historyVars
<1>1. TypeOK'
  BY EmptyType, Zenon DEF IInv, TypeOK, Threads
<1>a. MutexHeld'
  BY NamesAreDistinct, Zenon DEF IInv, TypeOK, MutexHeld, Threads
<1>b. InHand'
  BY NamesAreDistinct DEF IInv, TypeOK, InHand, Threads
<1>2. MutexHeld' /\ InHand'
  BY <1>a, <1>b, Zenon
<1>3. DraftInstalled'
  BY NamesAreDistinct DEF IInv, TypeOK, MutexHeld, DraftInstalled, Threads
<1>4. writer # NoOne /\ Keeps(draft) /\ Covers(draft) /\ disk = draft
  BY NamesAreDistinct, Zenon DEF IInv, DraftInstalled, Threads
<1>5. CASE synced' = disk /\ mem' = draft
  <2>0. /\ saveAcked' = saveAcked
        /\ \A d \in Devices : pc'[d] = "ack" => job'[d] = job[d] /\ (pc[d] = "ack" \/ d = t)
    <3>1. CASE t = Node /\ Leave(t)
      BY <3>1, NamesAreDistinct, Zenon DEF IInv, TypeOK, Threads
    <3>2. CASE pc' = [pc EXCEPT ![t] = "ack"] /\ job' = job
      BY <3>2, Zenon DEF IInv, TypeOK, Threads
    <3>3. CASE PersistFails(t)
      BY <3>3, NamesAreDistinct, Zenon DEF IInv, TypeOK, Threads
    <3> QED
      BY <3>1, <3>2, <3>3, Zenon
  <2>a. t \in Devices => job[t] \in draft.pending
    BY Zenon DEF IInv, DraftInstalled
  <2>1. Kept' \subseteq Kept \cup draft.pending
    <3> HIDE DEF Sync
    <3> QED
      BY <2>0, <2>a DEF Kept
  <2> QED
    BY <1>1, <1>2, <1>3, <1>4, <1>5, <2>1, Zenon DEF IInv, Keeps, Covers
<1>6. CASE UNCHANGED <<synced, mem>> /\ PersistFails(t)
  <2>0. /\ saveAcked' = saveAcked
        /\ \A d \in Devices : pc'[d] = "ack" => pc[d] = "ack" /\ job'[d] = job[d]
    BY <1>6, NamesAreDistinct, Zenon DEF IInv, TypeOK, Threads
  <2>1. Kept' \subseteq Kept
    <3> HIDE DEF Sync
    <3> QED
      BY <2>0 DEF Kept
  <2> QED
    BY <1>1, <1>2, <1>3, <1>4, <1>6, <2>1, Zenon DEF IInv, Keeps, Covers
<1> QED
  BY <1>5, <1>6, Zenon

\* Finish drafts a journal without a block that has its final answer.
LEMMA FinishStep ==
  ASSUME IInv, Finish
  PROVE  IInv'
<1> USE DEF Finish, PersistFails, Leave, Goto, historyVars
<1> DEFINE b == job[Node]
           a == (verdict[b] = "accepted")
<1>0. b \in Blocks /\ b \in decided /\ a \in BOOLEAN
  BY Zenon DEF IInv, InHand, Threads
<1>a. /\ FinishedState(mem, b, a) \in State
      /\ FinishedState(mem, b, a).pending = mem.pending \ {b}
      /\ Range(FinishedState(mem, b, a).completed) \subseteq Range(mem.completed) \cup {b}
  BY <1>0, FinishType, Zenon DEF IInv, TypeOK
<1>1. TypeOK'
  BY <1>a, Zenon DEF IInv, TypeOK, Threads
<1>p. /\ \A t \in Threads \ {Node}: pc'[t] = pc[t] /\ job'[t] = job[t]
      /\ \/ pc'[Node] \in {"idle", "dead"} /\ writer' = NoOne
         \/ pc'[Node] = "rename" /\ writer' = Node
  BY Zenon DEF IInv, TypeOK, Threads
<1>q. Node \in Threads /\ \A t \in Threads: pc[t] \notin {"rename", "sync"}
  BY NamesAreDistinct, Zenon DEF IInv, MutexHeld, Threads
<1>b. MutexHeld'
  <2> HIDE DEF Finish
  <2> QED
    BY <1>p, <1>q, NamesAreDistinct DEF MutexHeld, Threads
<1>c. InHand'
  BY NamesAreDistinct, Zenon DEF IInv, TypeOK, InHand, Threads
<1>d. DraftInstalled'
  <2> HIDE DEF Finish
  <2> QED
    BY <1>p, <1>q, NamesAreDistinct DEF DraftInstalled, Threads
<1>2. MutexHeld' /\ InHand' /\ DraftInstalled'
  BY <1>b, <1>c, <1>d, Zenon
<1>3. Kept' \subseteq Kept
  <2>1. saveAcked' = saveAcked /\ \A d \in Devices : pc'[d] = pc[d] /\ job'[d] = job[d]
    BY NamesAreDistinct, Zenon DEF IInv, TypeOK, Threads
  <2> HIDE DEF Finish
  <2> QED
    BY <2>1 DEF Kept
<1>4. writer' # NoOne => /\ draft'.pending = mem.pending \ {b}
                         /\ Range(draft'.completed) \subseteq Range(mem.completed) \cup {b}
  <2>1. writer' # NoOne => draft' = FinishedState(mem, b, a)
    BY Zenon
  <2> HIDE DEF a
  <2> QED BY <1>a, <2>1
<1>5. writer' # NoOne => (Keeps(draft) /\ Covers(draft))'
  BY <1>0, <1>3, <1>4, Zenon DEF IInv, Keeps, Covers
<1> QED
  BY <1>1, <1>2, <1>3, <1>5, Zenon DEF IInv, Keeps, Covers

\* Exit leaves one of the two copies of the file and nothing in memory.
LEMMA ExitStep ==
  ASSUME IInv, Exit
  PROVE  IInv'
<1> USE DEF Exit, Release, historyVars
<1>a. <<>> \in Seq(Nat) /\ Len(<<>>) <= RecentParents
  BY BoundsAreNumbers
<1>1. TypeOK'
  BY <1>a, EmptyType, Zenon DEF IInv, TypeOK, Threads
<1>2. MutexHeld' /\ InHand' /\ DraftInstalled'
  BY NamesAreDistinct, Zenon DEF MutexHeld, InHand, DraftInstalled, Threads
<1>3. Kept' \subseteq Kept
  BY Zenon DEF Kept, Threads
<1> QED
  BY <1>1, <1>2, <1>3, Zenon DEF IInv, Keeps, Covers

\* Open reads back what the crash left.
LEMMA OpenStep ==
  ASSUME IInv, Open
  PROVE  IInv'
<1> USE DEF Open, threadVars, historyVars
<1>1. TypeOK' /\ MutexHeld' /\ InHand' /\ DraftInstalled'
  BY Zenon DEF IInv, TypeOK, MutexHeld, InHand, DraftInstalled
<1>2. Kept' = Kept
  BY DEF Kept
<1> QED
  BY <1>1, <1>2, Zenon DEF IInv, Keeps, Covers

\* Every step keeps the inductive invariant.
LEMMA NextIInv == IInv /\ [Next]_vars => IInv'
<1> SUFFICES ASSUME IInv, [Next]_vars PROVE IInv'
  OBVIOUS
<1>1. CASE Next
  BY <1>1, PresentStep, MarkParentStep, EnqueueStep, AcknowledgeStep,
     ConnectionLostStep,
     RenameStep, SyncStep, PickPendingStep, AnsweredStep, UnansweredStep, FinishStep,
     NodeDiedStep, NewTipStep, OperatorStopsStep, ExitStep, OpenStep, Zenon
  DEF Next
<1>2. CASE UNCHANGED vars
  <2>1. UNCHANGED <<journalVars, up>> /\ Kept' = Kept /\ UNCHANGED decided
    BY <1>2 DEF vars, journalVars, threadVars, historyVars, Kept
  <2>2. TypeOK' /\ MutexHeld' /\ InHand' /\ DraftInstalled'
    BY <1>2, Zenon DEF IInv, TypeOK, MutexHeld, InHand, DraftInstalled,
                vars, journalVars, threadVars, historyVars
  <2> QED
    BY <2>1, <2>2, QuietStep, Zenon DEF IInv
<1> QED
  BY <1>1, <1>2

\* The types of the journal and its threads hold in every run.
THEOREM TypesHold == Spec => []TypeOK
<1>1. IInv => TypeOK
  BY DEF IInv
<1> QED
  BY <1>1, InitIInv, NextIInv, PTL DEF Spec

\* For any number of devices, blocks and any bounds: a block whose save was
\* acknowledged is pending in both copies of the file until the node has
\* answered finally (serve_device, Journal::push, Journal::finish).
THEOREM AcknowledgedSurvives == Spec => []SavedBeforeAck
<1>1. IInv => SavedBeforeAck
  BY Zenon DEF IInv, Keeps, Kept, SavedBeforeAck
<1> QED
  BY <1>1, InitIInv, NextIInv, PTL DEF Spec

---------------------------------------------------------------------------
\* Blocks with a judgement of the node, and those of a copy judged as v.
JudgedIn(vd) == {b \in Blocks: vd[b] # "unknown"}
Outcome(s, vd, v) == {b \in s.done: vd[b] = v}

\* What every copy of the journal satisfies, given the node's judgements.
Sound(s, vd) ==
  /\ ValidState(s)
  /\ IsFiniteSet(s.pending) /\ IsFiniteSet(s.done)
  /\ Range(s.completed) \subseteq s.done /\ s.done \subseteq JudgedIn(vd)
  /\ s.pending \cap s.done = {}
  /\ s.accepted = Cardinality(Outcome(s, vd, "accepted"))
  /\ s.rejected = Cardinality(Outcome(s, vd, "rejected"))

\* s is the copy t, or one save or one answer ahead of it.
OneSave(s, t, b) ==
  b \notin t.pending \cup t.done /\ s.pending = t.pending \cup {b} /\ s.done = t.done
OneAnswer(s, t, b) ==
  b \in t.pending /\ s.pending = t.pending \ {b} /\ s.done = t.done \cup {b}
Near(s, t) ==
  \/ s.pending = t.pending /\ s.done = t.done
  \/ \E b \in Blocks: OneSave(s, t, b) \/ OneAnswer(s, t, b)

\* The draft of each thread: the save or the answer of its block.
Drafted ==
  /\ \A d \in Devices: pc[d] \in {"rename", "sync"} => OneSave(draft, mem, job[d])
  /\ pc[Node] \in {"rename", "sync"} => OneAnswer(draft, mem, job[Node])

\* Blocks about to be acknowledged are in the synced file.
Ready == \A d \in Devices: pc[d] = "ack" => job[d] \in synced.pending \cup synced.done

\* The copies of the journal.
Copies ==
  /\ mem = IF up THEN synced ELSE EmptyState
  /\ Sound(disk, verdict) /\ Sound(synced, verdict) /\ Near(disk, synced)
  /\ Drafted /\ (writer # NoOne => Sound(draft, verdict))
  /\ decided \subseteq JudgedIn(verdict)
  /\ Ready

-----------------------------------------------------------------------------
\* Threads that marked their parent and have not saved yet; blocks of this run
\* in the journal.
Saving(d) == pc[d] \in {"enqueue", "rename", "sync"}
Held(s) == s.pending \cup s.done
Saved == {b \in Held(mem): age[b] = "found"}

\* A parent the chain left less than half of RecentParents ago.
Fresh(p, t) == 2 * t < 2 * p + RecentParents

\* A list of parents: all different, up to the tip, and none much older than
\* one marked before it.
Window(list, t) ==
  /\ \A i \in DOMAIN list: list[i] <= t
  /\ \A i, j \in DOMAIN list:
       i < j => list[i] # list[j] /\ 2 * list[i] < 2 * list[j] + RecentParents

\* A fresh parent with a block in the journal, or on its way, is in the list.
Remembered(p, list, t) == p <= t /\ (Fresh(p, t) => p \in Range(list))

\* One block per parent, in the journal or on its way.
OnePerParent ==
  /\ \A d, e \in Devices:
       Saving(d) /\ Saving(e) /\ ParentOf[job[d]] = ParentOf[job[e]] => d = e
  /\ \A d \in Devices, b \in Saved: Saving(d) => ParentOf[job[d]] # ParentOf[b]
  /\ \A b, c \in Saved: ParentOf[b] = ParentOf[c] => b = c

\* What each device thread knows of the parent of its block.
Marked ==
  \A d \in Devices:
    /\ pc[d] = "solved" => ParentOf[job[d]] <= tip /\ Fresh(ParentOf[job[d]], tip)
    /\ Saving(d) => Remembered(ParentOf[job[d]], solved, tip)
    /\ pc[d] # "idle" => age[job[d]] = "found"

\* The parents of a run.
Parents ==
  /\ Window(solved, tip) /\ OnePerParent /\ Marked
  /\ \A b \in Saved: Remembered(ParentOf[b], solved, tip)
  /\ \A b \in Held(disk) \cup Held(synced): age[b] # "unfound"
  /\ ~up => solved = <<>> /\ \A b \in Blocks: age[b] # "found"

\* The inductive invariant behind the promise.
PInv == IInv /\ Copies /\ Parents

-----------------------------------------------------------------------------
\* The empty journal is sound.
LEMMA EmptySound == ASSUME NEW vd PROVE Sound(EmptyState, vd)
<1>1. EmptyState.pending = {} /\ EmptyState.done = {} /\ EmptyState.completed = <<>>
  BY DEF EmptyState
<1>2. EmptyState.accepted = 0 /\ EmptyState.rejected = 0
  BY DEF EmptyState
<1>3. \A v: Outcome(EmptyState, vd, v) = {}
  BY <1>1 DEF Outcome
<1>4. ValidState(EmptyState)
  BY <1>1, FS_EmptySet, BoundsAreNumbers
     DEF ValidState, WithinLimits, IsInjective, Range
<1> QED
  BY <1>1, <1>2, <1>3, <1>4, FS_EmptySet, EmptyType, Zenon DEF Sound

\* A copy stays sound when the node judges only blocks without a judgement.
LEMMA SoundKept ==
  ASSUME NEW s, NEW vd, NEW we, Sound(s, vd),
         \A b \in JudgedIn(vd): b \in JudgedIn(we) /\ we[b] = vd[b]
  PROVE  Sound(s, we)
<1>1. s.done \subseteq JudgedIn(vd)
  BY DEF Sound
<1>2. \A v: Outcome(s, we, v) = Outcome(s, vd, v)
  BY <1>1 DEF Outcome
<1>3. s.done \subseteq JudgedIn(we)
  BY <1>1
<1> QED
  BY <1>2, <1>3, Zenon DEF Sound

\* Journal::push leaves a sound journal, one save ahead.
LEMMA PushSound ==
  ASSUME NEW s \in State, NEW vd, NEW b \in Blocks, Sound(s, vd),
         b \notin s.pending \cup s.done, WithinLimits(PushedState(s, b))
  PROVE  Sound(PushedState(s, b), vd) /\ OneSave(PushedState(s, b), s, b)
<1> DEFINE n == PushedState(s, b)
<1>1. /\ n.pending = s.pending \cup {b} /\ n.done = s.done /\ n.completed = s.completed
      /\ n.accepted = s.accepted /\ n.rejected = s.rejected
  BY DEF PushedState, State
<1> HIDE DEF n
<1>2. \A v: Outcome(n, vd, v) = Outcome(s, vd, v)
  BY <1>1 DEF Outcome
<1>3. IsFiniteSet(n.pending)
  BY <1>1, FS_AddElement DEF Sound
<1>4. Range(s.completed) \subseteq s.done /\ s.pending \cap s.done = {}
  BY Zenon DEF Sound
<1>5. n.pending \cap n.done = {} /\ n.pending \cap Range(n.completed) = {}
  BY <1>1, <1>4, Zenon
<1>6. ValidState(n)
  BY <1>1, <1>5, Zenon DEF Sound, ValidState, n
<1>7. Sound(n, vd)
  BY <1>1, <1>2, <1>3, <1>5, <1>6, Zenon DEF Sound
<1>8. OneSave(n, s, b)
  BY <1>1 DEF OneSave
<1> QED
  BY <1>7, <1>8 DEF n

\* Journal::finish's receipts stay within MAX_RECEIPTS and name no block twice.
LEMMA ReceiptSound ==
  ASSUME NEW r \in Seq(Blocks), NEW b \in Blocks, IsInjective(r), b \notin Range(r),
         Len(r) <= MaxReceipts
  PROVE  /\ IsInjective(AddReceipt(r, b)) /\ Len(AddReceipt(r, b)) <= MaxReceipts
         /\ Range(AddReceipt(r, b)) \subseteq Range(r) \cup {b}
<1> DEFINE longer == Append(r, b)
<1>1. /\ longer \in Seq(Blocks) /\ Len(longer) = Len(r) + 1
      /\ \A i \in 1..Len(r): longer[i] = r[i]
      /\ longer[Len(r) + 1] = b
  OBVIOUS
<1>2. \A i \in 1..Len(r): r[i] # b
  BY DEF Range
<1>3. \A i, j \in 1..(Len(r) + 1): longer[i] = longer[j] => i = j
  <2>1. \A i, j \in 1..Len(r): r[i] = r[j] => i = j
    BY DEF IsInjective
  <2> HIDE DEF longer
  <2> QED
    BY <1>1, <1>2, <2>1
<1>4. Range(longer) \subseteq Range(r) \cup {b}
  BY AppendAdds
<1> HIDE DEF longer
<1>5. CASE Len(longer) > MaxReceipts
  <2>1. AddReceipt(r, b) = Tail(longer)
    BY <1>5 DEF AddReceipt, longer
  <2>2. longer # <<>>
    BY <1>1
  <2>3. /\ Len(Tail(longer)) = Len(r)
        /\ \A i \in 1..Len(r): Tail(longer)[i] = longer[i + 1]
        /\ Tail(longer) \in Seq(Blocks)
    BY <1>1, <2>2
  <2>4. \A i, j \in 1..Len(r): Tail(longer)[i] = Tail(longer)[j] => i = j
    BY <1>3, <2>3
  <2>a. DOMAIN Tail(longer) = 1..Len(r)
    BY <2>3
  <2>5. IsInjective(Tail(longer))
    BY <2>4, <2>a, Zenon DEF IsInjective
  <2> QED
    BY <1>1, <1>4, <2>1, <2>2, <2>3, <2>5, TailDrops, Zenon
<1>6. CASE ~(Len(longer) > MaxReceipts)
  <2>1. AddReceipt(r, b) = longer
    BY <1>6 DEF AddReceipt, longer
  <2>2. IsInjective(longer)
    BY <1>1, <1>3 DEF IsInjective
  <2> QED
    BY <1>1, <1>4, <1>6, <2>1, <2>2, BoundsAreNumbers
<1> QED
  BY <1>5, <1>6

\* Journal::finish leaves a sound journal, one answer ahead.
LEMMA FinishSound ==
  ASSUME NEW s \in State, NEW vd, NEW b \in s.pending, Sound(s, vd),
         vd[b] \in {"accepted", "rejected"}
  PROVE  LET n == FinishedState(s, b, vd[b] = "accepted")
         IN  Sound(n, vd) /\ OneAnswer(n, s, b)
<1> DEFINE n == FinishedState(s, b, vd[b] = "accepted")
<1>1. /\ n.pending = s.pending \ {b} /\ n.done = s.done \cup {b}
      /\ n.completed = AddReceipt(s.completed, b)
  BY Zenon DEF FinishedState
<1>a. /\ vd[b] = "accepted" => n.accepted = s.accepted + 1 /\ n.rejected = s.rejected
      /\ vd[b] = "rejected" => n.accepted = s.accepted /\ n.rejected = s.rejected + 1
  BY Zenon DEF FinishedState
<1> HIDE DEF n
<1>2. /\ b \in Blocks /\ s.completed \in Seq(Blocks)
      /\ b \notin s.done /\ b \notin Range(s.completed)
      /\ IsInjective(s.completed) /\ Len(s.completed) <= MaxReceipts
  BY Zenon DEF State, Sound, ValidState, WithinLimits
<1>3. /\ IsInjective(n.completed) /\ Len(n.completed) <= MaxReceipts
      /\ Range(n.completed) \subseteq Range(s.completed) \cup {b}
  BY <1>1, <1>2, ReceiptSound
<1>4. IsFiniteSet(n.pending) /\ Cardinality(n.pending) <= MaxPending
  <2>1. Cardinality(s.pending) \in Nat /\ Cardinality(s.pending) <= MaxPending
    BY FS_CardinalityType, Zenon DEF Sound, ValidState, WithinLimits
  <2>2. IsFiniteSet(n.pending) /\ Cardinality(n.pending) = Cardinality(s.pending) - 1
    <3>1. IsFiniteSet(s.pending) /\ b \in s.pending
      BY DEF Sound
    <3> QED
      BY <1>1, <3>1, FS_RemoveElement, Zenon
  <2> QED
    BY <2>1, <2>2, BoundsAreNumbers
<1>5. /\ IsFiniteSet(n.done) /\ Range(n.completed) \subseteq n.done
      /\ n.pending \cap n.done = {}
  BY <1>1, <1>3, FS_AddElement DEF Sound
<1>6. ValidState(n)
  BY <1>3, <1>4, <1>5, Zenon DEF ValidState, WithinLimits
<1>7. n.done \subseteq JudgedIn(vd)
  BY <1>1, <1>2, Zenon DEF Sound, JudgedIn
<1>8. /\ n.accepted = Cardinality(Outcome(n, vd, "accepted"))
      /\ n.rejected = Cardinality(Outcome(n, vd, "rejected"))
  <2>0. \A v: IsFiniteSet(Outcome(s, vd, v)) /\ b \notin Outcome(s, vd, v)
    BY <1>2, FS_Subset, Zenon DEF Sound, Outcome
  <2>1. \A v: vd[b] = v => Outcome(n, vd, v) = Outcome(s, vd, v) \cup {b}
    BY <1>1 DEF Outcome
  <2>2. \A v: vd[b] # v => Outcome(n, vd, v) = Outcome(s, vd, v)
    BY <1>1 DEF Outcome
  <2>3. \A v: Cardinality(Outcome(s, vd, v) \cup {b}) = Cardinality(Outcome(s, vd, v)) + 1
    BY <2>0, FS_AddElement, Zenon
  <2>4. /\ s.accepted = Cardinality(Outcome(s, vd, "accepted"))
        /\ s.rejected = Cardinality(Outcome(s, vd, "rejected"))
    BY DEF Sound
  <2> QED
    BY <1>a, <2>1, <2>2, <2>3, <2>4, Zenon
<1>9. Sound(n, vd)
  BY <1>4, <1>5, <1>6, <1>7, <1>8, Zenon DEF Sound
<1>10. OneAnswer(n, s, b)
  BY <1>1 DEF OneAnswer
<1> QED
  BY <1>9, <1>10 DEF n

-----------------------------------------------------------------------------
\* Numbers that are less than r / 2 apart.
LEMMA Close ==
  ASSUME NEW q \in Nat, NEW v \in Nat, NEW r \in Nat, NEW h \in Nat, r <= 2 * h + 2,
         2 * q < 2 * v + r, 2 * v < 2 * q + r
  PROVE  v \in (q - h)..(q + h)
  OBVIOUS

\* SolvedParents::first drops the oldest parent of a full list only when the
\* chain left it half of RecentParents ago: the others in the list are all
\* different and, were it fresh, would be too close to it to be so many.
LEMMA DroppedIsNotFresh ==
  ASSUME NEW q \in Nat, NEW f \in [1..RecentParents -> Nat],
         \A i \in 1..RecentParents:
           f[i] # q /\ 2 * q < 2 * f[i] + RecentParents /\ 2 * f[i] < 2 * q + RecentParents,
         \A i, j \in 1..RecentParents: f[i] = f[j] => i = j
  PROVE  FALSE
<1> DEFINE h == (RecentParents - 1) \div 2
           near == (q - h)..(q + h)
<1>1. h \in Nat /\ 2 * h < RecentParents /\ RecentParents <= 2 * h + 2
  BY BoundsAreNumbers
<1> HIDE DEF h
<1>2. f \in [1..RecentParents -> near \ {q}]
  <2>1. ASSUME NEW i \in 1..RecentParents PROVE f[i] \in near \ {q}
    <3>1. f[i] \in Nat /\ f[i] # q /\ 2 * q < 2 * f[i] + RecentParents
          /\ 2 * f[i] < 2 * q + RecentParents
      OBVIOUS
    <3>2. f[i] \in (q - h)..(q + h)
      BY <1>1, <3>1, Close, BoundsAreNumbers, Zenon
    <3> QED
      BY <3>1, <3>2
  <2> HIDE DEF near
  <2> QED
    BY <2>1
<1>3. q \in near /\ q - h \in Int /\ q + h \in Int /\ ~(q - h > q + h)
  BY <1>1
<1>4. IsFiniteSet(near) /\ Cardinality(near) = 2 * h + 1
  <2>1. /\ IsFiniteSet(near)
        /\ Cardinality(near) = IF q - h > q + h THEN 0 ELSE (q + h) - (q - h) + 1
    BY <1>3, FS_Interval, Zenon
  <2> HIDE DEF near
  <2> QED
    BY <1>1, <1>3, <2>1
<1> HIDE DEF near
<1>5. IsFiniteSet(near \ {q}) /\ Cardinality(near \ {q}) = 2 * h
  BY <1>1, <1>3, <1>4, FS_RemoveElement
<1>6. IsFiniteSet(1..RecentParents) /\ Cardinality(1..RecentParents) = RecentParents
  BY FS_Interval, BoundsAreNumbers
<1>7. f \in Injection(1..RecentParents, near \ {q})
  BY <1>2 DEF Injection, IsInjective
<1>8. Cardinality(1..RecentParents) <= Cardinality(near \ {q})
  BY <1>5, <1>7, FS_Injection, Zenon
<1> QED
  BY <1>1, <1>5, <1>6, <1>8, BoundsAreNumbers

\* Doubling keeps the order.
LEMMA Doubled ==
  ASSUME NEW v \in Nat, NEW t \in Nat, NEW q \in Nat, NEW r \in Nat,
         v <= t, 2 * t < 2 * q + r
  PROVE  2 * v < 2 * q + r
  OBVIOUS

\* SolvedParents::first keeps the window and every parent that is still fresh.
LEMMA RememberWindow ==
  ASSUME NEW list \in Seq(Nat), NEW t \in Nat, NEW p \in Nat,
         Len(list) <= RecentParents, Window(list, t),
         p <= t, Fresh(p, t), p \notin Range(list)
  PROVE  /\ Window(RememberParent(list, p), t)
         /\ p \in Range(RememberParent(list, p))
         /\ \A q \in Range(list):
              Fresh(q, t) => q \in Range(RememberParent(list, p))
<1> DEFINE new == RememberParent(list, p)
           n == Len(new)
<1>1. /\ \A i \in 1..Len(list): list[i] \in Nat /\ list[i] <= t /\ list[i] # p
      /\ \A i, j \in 1..Len(list):
           i < j => list[i] # list[j] /\ 2 * list[i] < 2 * list[j] + RecentParents
  <2>1. DOMAIN list = 1..Len(list) /\ \A i \in 1..Len(list): list[i] \in Nat
    OBVIOUS
  <2>2. \A i \in DOMAIN list: list[i] # p
    BY Zenon DEF Range
  <2> QED
    BY <2>1, <2>2, Zenon DEF Window
<1>2. 2 * t < 2 * p + RecentParents
  BY DEF Fresh
<1>3. CASE ~(Len(list) >= RecentParents)
  <2>1. new = Append(list, p)
    BY <1>3 DEF RememberParent
  <2>2. /\ n = Len(list) + 1 /\ new[n] = p
        /\ \A i \in 1..Len(list): new[i] = list[i]
        /\ DOMAIN new = 1..n
    BY <2>1
  <2> HIDE DEF new
  <2>a. \A i \in 1..n: new[i] \in Nat /\ new[i] <= t
    BY <1>1, <2>2
  <2>b. ASSUME NEW i \in 1..n, NEW j \in 1..n, i < j
        PROVE  new[i] # new[j] /\ 2 * new[i] < 2 * new[j] + RecentParents
    <3>1. i \in 1..Len(list) /\ new[i] = list[i]
      BY <2>2, <2>b
    <3>2. CASE j = n
      BY <1>1, <1>2, <2>2, <3>1, <3>2, BoundsAreNumbers
    <3>3. CASE j # n
      <4>1. j \in 1..Len(list) /\ new[j] = list[j]
        BY <2>2, <3>3
      <4> QED
        BY <1>1, <2>b, <3>1, <4>1, Zenon
    <3> QED
      BY <3>2, <3>3, Zenon
  <2>3. Window(new, t)
    BY <2>2, <2>a, <2>b, Zenon DEF Window
  <2>c. n \in 1..n /\ \A i \in 1..Len(list): i \in 1..n
    BY <2>2
  <2>d. \A i \in 1..n: new[i] \in Range(new)
    BY <2>2, Zenon DEF Range
  <2>e. \A q \in Range(list): \E i \in 1..Len(list): q = list[i]
    BY DEF Range
  <2>4. Range(list) \cup {p} \subseteq Range(new)
    <3>1. p \in Range(new)
      BY <2>2, <2>c, <2>d
    <3>2. ASSUME NEW q \in Range(list) PROVE q \in Range(new)
      <4>1. PICK i \in 1..Len(list): q = list[i]
        BY <2>e
      <4>2. i \in 1..n /\ new[i] = list[i]
        BY <2>2, <2>c
      <4> QED
        BY <2>d, <4>1, <4>2
    <3> QED
      BY <3>1, <3>2, Zenon
  <2> QED
    BY <2>3, <2>4 DEF new
<1>4. CASE Len(list) >= RecentParents
  <2>0. Len(list) = RecentParents /\ list # <<>>
    BY <1>4, BoundsAreNumbers
  <2>1. new = Append(Tail(list), p)
    BY <1>4 DEF RememberParent
  <2>2. /\ n = RecentParents /\ new[n] = p
        /\ \A i \in 1..(n - 1): new[i] = list[i + 1]
        /\ DOMAIN new = 1..n
    BY <2>0, <2>1
  <2> HIDE DEF new
  <2>3. /\ \A i \in 1..n: new[i] \in Nat /\ new[i] <= t
        /\ \A i, j \in 1..n:
             i < j => new[i] # new[j] /\ 2 * new[i] < 2 * new[j] + RecentParents
    <3>1. \A i \in 1..n: new[i] \in Nat /\ new[i] <= t
      BY <1>1, <2>0, <2>2, BoundsAreNumbers
    <3>2. ASSUME NEW i \in 1..n, NEW j \in 1..n, i < j
          PROVE  new[i] # new[j] /\ 2 * new[i] < 2 * new[j] + RecentParents
      <4>1. i + 1 \in 1..Len(list) /\ new[i] = list[i + 1]
        BY <2>0, <2>2, <3>2, BoundsAreNumbers
      <4>2. CASE j = n
        BY <1>1, <1>2, <2>2, <4>1, <4>2, BoundsAreNumbers
      <4>3. CASE j # n
        <5>1. j + 1 \in 1..Len(list) /\ new[j] = list[j + 1] /\ i + 1 < j + 1
          BY <2>0, <2>2, <3>2, <4>3, BoundsAreNumbers
        <5> QED
          BY <1>1, <4>1, <5>1, Zenon
      <4> QED
        BY <4>2, <4>3, Zenon
    <3> QED
      BY <3>1, <3>2, Zenon
  <2>4. Window(new, t)
    BY <2>2, <2>3, Zenon DEF Window
  <2>5. p \in Range(new) /\ \A i \in 2..RecentParents: list[i] \in Range(new)
    <3>1. \A i \in 2..RecentParents: i - 1 \in 1..(n - 1) /\ list[i] = new[i - 1]
      BY <2>2, BoundsAreNumbers
    <3>2. \A i \in 1..n: new[i] \in Range(new)
      BY <2>2, Zenon DEF Range
    <3> QED
      BY <2>2, <3>1, <3>2, BoundsAreNumbers
  <2>6. ~Fresh(list[1], t)
    <3> SUFFICES ASSUME Fresh(list[1], t) PROVE FALSE
      OBVIOUS
    <3> DEFINE q == list[1]
               f == [i \in 1..RecentParents |-> new[i]]
    <3>1. q \in Nat /\ 2 * t < 2 * q + RecentParents
      BY <1>1, <2>0, BoundsAreNumbers DEF Fresh
    <3>2. f \in [1..RecentParents -> Nat]
      BY <2>2, <2>3, Zenon
    <3>3. ASSUME NEW i \in 1..RecentParents
          PROVE  new[i] # q /\ 2 * q < 2 * new[i] + RecentParents
      <4>1. 1 \in 1..Len(list) /\ q <= t /\ q # p
        BY <1>1, <2>0, BoundsAreNumbers
      <4>2. CASE i = n
        BY <1>2, <2>2, <3>1, <4>1, <4>2, BoundsAreNumbers
      <4>3. CASE i # n
        <5>1. i + 1 \in 1..Len(list) /\ new[i] = list[i + 1] /\ 1 < i + 1
          BY <2>0, <2>2, <4>3, BoundsAreNumbers
        <5> QED
          BY <1>1, <4>1, <5>1, Zenon
      <4> QED
        BY <4>2, <4>3, Zenon
    <3>4. ASSUME NEW i \in 1..RecentParents
          PROVE  2 * new[i] < 2 * q + RecentParents
      <4>1. new[i] \in Nat /\ new[i] <= t
        BY <2>2, <2>3, Zenon
      <4> HIDE DEF q
      <4> QED
        BY <3>1, <4>1, Doubled, BoundsAreNumbers
    <3>5. \A i, j \in 1..RecentParents: new[i] = new[j] => i = j
      BY <2>2, <2>3, BoundsAreNumbers
    <3>6. \A i \in 1..RecentParents: f[i] = new[i]
      OBVIOUS
    <3>7. /\ \A i \in 1..RecentParents:
               f[i] # q /\ 2 * q < 2 * f[i] + RecentParents /\ 2 * f[i] < 2 * q + RecentParents
          /\ \A i, j \in 1..RecentParents: f[i] = f[j] => i = j
      <4> HIDE DEF f, q
      <4> QED
        BY <3>3, <3>4, <3>5, <3>6, Zenon
    <3> HIDE DEF f, q
    <3> QED
      BY <3>1, <3>2, <3>7, DroppedIsNotFresh, Zenon
  <2>7. \A q \in Range(list): q = list[1] \/ \E i \in 2..RecentParents: q = list[i]
    BY <2>0 DEF Range
  <2> QED
    BY <2>4, <2>5, <2>6, <2>7, Zenon DEF new
<1> QED
  BY <1>3, <1>4, Zenon

-----------------------------------------------------------------------------
\* The program starts with equal, empty copies.
LEMMA InitPInv == Init => PInv
<1> SUFFICES ASSUME Init PROVE PInv
  OBVIOUS
<1>1. EmptyState.pending = {} /\ EmptyState.done = {}
  BY DEF EmptyState
<1>2. \A d \in Devices: pc[d] = "idle"
  BY DEF Init, Threads
<1>3. pc[Node] = "idle"
  BY DEF Init, Threads
<1>4. Sound(EmptyState, verdict) /\ Near(EmptyState, EmptyState)
  BY EmptySound, Zenon DEF Near
<1>5. Drafted /\ Ready
  BY <1>2, <1>3 DEF Drafted, Ready
<1>6. Copies
  BY <1>4, <1>5 DEF Init, Copies
<1>7. Held(mem) = {} /\ Held(disk) = {} /\ Held(synced) = {}
  BY <1>1 DEF Init, Held
<1>8. Saved = {}
  BY <1>7 DEF Saved
<1>9. \A d \in Devices: ~Saving(d)
  BY <1>2 DEF Saving
<1>10. Window(solved, tip) /\ OnePerParent /\ Marked
  BY <1>2, <1>8, <1>9 DEF Init, Window, OnePerParent, Marked
<1>11. Parents
  BY <1>7, <1>8, <1>10 DEF Init, Parents
<1> QED
  BY <1>6, <1>11, InitIInv DEF PInv

\* A step that leaves the journal alone, judges only blocks without a judgement
\* and brings no thread to a save, an answer or an acknowledgement.
LEMMA CopiesKept ==
  ASSUME Copies, UNCHANGED <<journalVars, up>>,
         \A b \in JudgedIn(verdict): b \in JudgedIn(verdict') /\ verdict'[b] = verdict[b],
         decided' \subseteq JudgedIn(verdict'),
         \A t \in Threads: pc'[t] \in {"rename", "sync", "ack"} =>
                             pc'[t] = pc[t] /\ job'[t] = job[t]
  PROVE  Copies'
<1>1. UNCHANGED <<mem, disk, synced, draft, writer, up>>
  BY DEF journalVars
<1>2. /\ Sound(disk, verdict') /\ Sound(synced, verdict')
      /\ writer # NoOne => Sound(draft, verdict')
  BY SoundKept, Zenon DEF Copies
<1>3. Drafted'
  BY <1>1, Zenon DEF Copies, Drafted, Threads
<1>4. Ready'
  BY <1>1, Zenon DEF Copies, Ready, Threads
<1> QED
  BY <1>1, <1>2, <1>3, <1>4 DEF Copies

\* Most steps do not concern the journal.
LEMMA QuietCopies ==
  ASSUME IInv, Copies, UNCHANGED <<journalVars, up, verdict, decided>>,
         \A t \in Threads: pc'[t] \in {"rename", "sync", "ack"} =>
                             pc'[t] = pc[t] /\ job'[t] = job[t]
  PROVE  Copies'
  BY CopiesKept, Zenon DEF Copies

\* A final reply, or a lost one: the node judges a block once.
LEMMA ReplyCopies ==
  ASSUME IInv, Copies, Answered \/ Unanswered
  PROVE  Copies'
<1> DEFINE b == job[Node]
<1>1. b \in Blocks /\ Node \in Threads /\ verdict \in [Blocks -> {"unknown", "accepted", "rejected"}]
  BY Zenon DEF IInv, InHand, TypeOK, Threads, Answered, Unanswered
<1>2. /\ UNCHANGED <<journalVars, up>>
      /\ \A t \in Threads: pc'[t] \in {"rename", "sync", "ack"} =>
                             pc'[t] = pc[t] /\ job'[t] = job[t]
  BY Zenon DEF IInv, TypeOK, Answered, Unanswered, Leave, Goto, Threads
<1>3. /\ verdict' = verdict \/ \E v \in {"accepted", "rejected"}:
           verdict[b] \in {"unknown", v} /\ verdict' = [verdict EXCEPT ![b] = v]
      /\ \/ decided' = decided
         \/ decided' = decided \cup {b} /\ verdict'[b] \in {"accepted", "rejected"}
  BY <1>1, Zenon DEF Answered, Unanswered, historyVars
<1> HIDE DEF b
<1>4. \A c \in JudgedIn(verdict): c \in JudgedIn(verdict') /\ verdict'[c] = verdict[c]
  BY <1>1, <1>3 DEF JudgedIn
<1>5. decided' \subseteq JudgedIn(verdict')
  BY <1>1, <1>3, <1>4, Zenon DEF Copies, JudgedIn
<1> QED
  BY <1>2, <1>4, <1>5, CopiesKept

\* A block on its way into the journal is not in it yet.
LEMMA NotYetSaved ==
  ASSUME PInv, NEW d \in Devices, Saving(d)
  PROVE  job[d] \notin Held(mem)
<1>1. age[job[d]] = "found"
  BY Zenon DEF PInv, Parents, Marked, Saving
<1>2. job[d] \notin Saved
  BY Zenon DEF PInv, Parents, OnePerParent
<1> QED
  BY <1>1, <1>2 DEF Saved

\* Journal::push drafts a copy one save ahead; its test for a block that is
\* already saved is never met.
LEMMA EnqueueCopies ==
  ASSUME PInv, NEW d \in Devices, Enqueue(d)
  PROVE  Copies'
<1>0. /\ up /\ writer = NoOne /\ pc[d] = "enqueue" /\ d \in Threads
      /\ UNCHANGED <<mem, disk, synced, decided, up, verdict>>
  BY Zenon DEF Enqueue, historyVars, Threads
<1>1. job[d] \in Blocks /\ mem \in State /\ mem = synced
  BY <1>0, Zenon DEF PInv, IInv, InHand, TypeOK, Copies
<1>2. Sound(mem, verdict)
  BY <1>1 DEF PInv, Copies
<1>3. job[d] \notin mem.pending \cup mem.done
  BY <1>0, NotYetSaved DEF Saving, Held
<1>4. ~AlreadySaved(mem, job[d])
  BY <1>2, <1>3, Zenon DEF Sound, AlreadySaved
<1>5. \A t \in Threads: pc[t] \notin {"rename", "sync"}
  BY <1>0, NamesAreDistinct, Zenon DEF PInv, IInv, MutexHeld, Threads
<1>6. CASE /\ WithinLimits(PushedState(mem, job[d]))
           /\ draft' = PushedState(mem, job[d]) /\ writer' = d
           /\ Goto(d, "rename") /\ UNCHANGED <<job, stop>>
  <2>1. Sound(draft', verdict) /\ OneSave(draft', mem, job[d])
    BY <1>1, <1>2, <1>3, <1>6, PushSound, Zenon
  <2>2. \A t \in Threads: pc'[t] = IF t = d THEN "rename" ELSE pc[t]
    BY <1>0, <1>6, Zenon DEF Goto, PInv, IInv, TypeOK
  <2>3. Drafted'
    BY <1>0, <1>5, <1>6, <2>1, <2>2, NamesAreDistinct, Zenon DEF Drafted, Threads
  <2>4. Ready'
    BY <1>0, <1>6, <2>2, Zenon DEF Ready, PInv, Copies, Threads
  <2> QED
    BY <1>0, <1>1, <2>1, <2>3, <2>4, Zenon DEF PInv, Copies
<1>7. CASE SaveFails(d) /\ UNCHANGED <<draft, writer>>
  <2>1. \A t \in Threads: pc'[t] \in {"rename", "sync", "ack"} =>
                            pc'[t] = pc[t] /\ job'[t] = job[t]
    BY <1>0, <1>7, Zenon DEF SaveFails, Leave, Goto, PInv, IInv, TypeOK
  <2> QED
    BY <1>0, <1>7, <2>1, QuietCopies, Zenon DEF PInv, journalVars
<1> QED
  BY <1>4, <1>6, <1>7, Zenon DEF Enqueue

\* Journal::finish drafts a copy one answer ahead.
LEMMA FinishCopies ==
  ASSUME PInv, Finish
  PROVE  Copies'
<1> DEFINE b == job[Node]
<1>0. /\ up /\ writer = NoOne /\ pc[Node] = "finish" /\ Node \in Threads
      /\ UNCHANGED <<mem, disk, synced, decided, up, verdict>>
  BY Zenon DEF Finish, historyVars, Threads
<1>1. /\ b \in Blocks /\ b \in decided /\ mem \in State /\ mem = synced
      /\ verdict \in [Blocks -> {"unknown", "accepted", "rejected"}]
  BY <1>0, Zenon DEF PInv, IInv, InHand, TypeOK, Copies
<1>2. Sound(mem, verdict) /\ verdict[b] \in {"accepted", "rejected"}
  BY <1>1 DEF PInv, Copies, JudgedIn
<1>5. \A t \in Threads: pc[t] \notin {"rename", "sync"}
  BY <1>0, NamesAreDistinct, Zenon DEF PInv, IInv, MutexHeld, Threads
<1>6. CASE /\ b \in mem.pending
           /\ draft' = FinishedState(mem, b, verdict[b] = "accepted")
           /\ writer' = Node /\ Goto(Node, "rename") /\ UNCHANGED <<job, stop>>
  <2>1. Sound(draft', verdict) /\ OneAnswer(draft', mem, b)
    BY <1>1, <1>2, <1>6, FinishSound, Zenon
  <2>2. \A t \in Threads: pc'[t] = IF t = Node THEN "rename" ELSE pc[t]
    BY <1>0, <1>6, Zenon DEF Goto, PInv, IInv, TypeOK
  <2>3. Drafted'
    BY <1>0, <1>5, <1>6, <2>1, <2>2, NamesAreDistinct, Zenon DEF Drafted, Threads
  <2>4. Ready'
    BY <1>0, <1>6, <2>2, NamesAreDistinct, Zenon DEF Ready, PInv, Copies, Threads
  <2> QED
    BY <1>0, <1>1, <2>1, <2>3, <2>4, Zenon DEF PInv, Copies
<1>7. CASE (Leave(Node) \/ PersistFails(Node)) /\ UNCHANGED <<draft, writer>>
  <2>1. \A t \in Threads: pc'[t] \in {"rename", "sync", "ack"} =>
                            pc'[t] = pc[t] /\ job'[t] = job[t]
    BY <1>0, <1>7, Zenon DEF PersistFails, Leave, Goto, PInv, IInv, TypeOK
  <2> QED
    BY <1>0, <1>7, <2>1, QuietCopies, Zenon DEF PInv, journalVars
<1> QED
  BY <1>6, <1>7, Zenon DEF Finish

\* The draft is one save or one answer ahead of the synced file.
LEMMA DraftNear ==
  ASSUME PInv, NEW t \in Threads, writer = t
  PROVE  /\ up /\ mem = synced /\ Sound(draft, verdict) /\ Near(draft, synced)
         /\ \A u \in Threads \ {t}: pc[u] \notin {"rename", "sync"}
<1>1. up /\ pc[t] \in {"rename", "sync"} /\ job[t] \in Blocks /\ writer # NoOne
  BY NamesAreDistinct, Zenon DEF PInv, IInv, MutexHeld, InHand, Threads
<1>2. mem = synced /\ Sound(draft, verdict)
  BY <1>1 DEF PInv, Copies
<1>3. OneSave(draft, synced, job[t]) \/ OneAnswer(draft, synced, job[t])
  BY <1>1, <1>2, Zenon DEF PInv, Copies, Drafted, Threads
<1>4. \A u \in Threads \ {t}: pc[u] \notin {"rename", "sync"}
  BY DEF PInv, IInv, MutexHeld
<1> QED
  BY <1>1, <1>2, <1>3, <1>4, Zenon DEF Near

\* The mutex is released after a failed persist.
LEMMA FailedCopies ==
  ASSUME PInv, NEW t \in Threads, writer = t, Release, PersistFails(t),
         UNCHANGED <<mem, disk, synced, decided, up, verdict>>
  PROVE  Copies'
<1>1. /\ up /\ mem = synced
      /\ \A u \in Threads \ {t}: pc[u] \notin {"rename", "sync"}
  BY DraftNear
<1>2. pc'[t] \in {"idle", "dead"} /\ \A u \in Threads \ {t}: pc'[u] = pc[u] /\ job'[u] = job[u]
  BY Zenon DEF PersistFails, SaveFails, Leave, Goto, PInv, IInv, TypeOK
<1>3. Drafted'
  BY <1>1, <1>2, Zenon DEF Drafted, Threads
<1>4. Ready'
  BY <1>2, Zenon DEF Ready, PInv, Copies, Threads
<1>5. writer' = NoOne
  BY DEF Release
<1> QED
  BY <1>1, <1>3, <1>4, <1>5, Zenon DEF PInv, Copies

\* The rename puts the file one save or one answer ahead of the synced one.
LEMMA RenameCopies ==
  ASSUME PInv, NEW t \in Threads, Rename(t)
  PROVE  Copies'
<1>0. /\ writer = t /\ pc[t] = "rename"
      /\ UNCHANGED <<mem, synced, decided, up, verdict>>
  BY DEF Rename, historyVars
<1>1. CASE disk' = draft /\ Goto(t, "sync") /\ UNCHANGED <<writer, draft, job, stop>>
  <2>1. /\ up /\ mem = synced /\ Sound(draft, verdict) /\ Near(draft, synced)
        /\ \A u \in Threads \ {t}: pc[u] \notin {"rename", "sync"}
    BY <1>0, DraftNear
  <2>2. \A u \in Threads: pc'[u] = IF u = t THEN "sync" ELSE pc[u]
    BY <1>1, Zenon DEF Goto, PInv, IInv, TypeOK
  <2>3. Drafted'
    BY <1>0, <1>1, <2>1, <2>2, Zenon DEF PInv, Copies, Drafted, Threads
  <2>4. Ready'
    BY <1>0, <1>1, <2>2, Zenon DEF PInv, Copies, Ready, Threads
  <2> QED
    BY <1>0, <1>1, <2>1, <2>3, <2>4, Zenon DEF PInv, Copies
<1>2. CASE Release /\ PersistFails(t) /\ UNCHANGED disk
  BY <1>0, <1>2, FailedCopies
<1> QED
  BY <1>1, <1>2, Zenon DEF Rename

\* The sync makes all copies equal and lets a device thread acknowledge.
LEMMA SyncCopies ==
  ASSUME PInv, NEW t \in Threads, Sync(t)
  PROVE  Copies'
<1>0. /\ writer = t /\ pc[t] = "sync" /\ Release
      /\ UNCHANGED <<disk, decided, up, verdict>>
  BY DEF Sync, historyVars
<1>1. CASE /\ synced' = disk /\ mem' = draft
           /\ IF t = Node THEN Leave(t) ELSE Goto(t, "ack") /\ UNCHANGED job
  <2>1. /\ up /\ mem = synced /\ Sound(draft, verdict) /\ disk = draft
        /\ \A u \in Threads \ {t}: pc[u] \notin {"rename", "sync"}
    BY <1>0, DraftNear, Zenon DEF PInv, IInv, DraftInstalled
  <2>2. /\ pc'[t] = IF t = Node THEN "idle" ELSE "ack"
        /\ t # Node => job'[t] = job[t]
        /\ \A u \in Threads \ {t}: pc'[u] = pc[u] /\ job'[u] = job[u]
    BY <1>1, Zenon DEF Leave, Goto, PInv, IInv, TypeOK
  <2>3. Drafted'
    BY <2>1, <2>2, Zenon DEF Drafted, Threads
  <2>4. Near(disk, synced')
    BY <1>1 DEF Near
  <2>5. Near(draft, synced)
    BY <1>0, DraftNear
  <2>6. synced.pending \cup synced.done \subseteq draft.pending \cup draft.done
    BY <2>5 DEF Near, OneSave, OneAnswer
  <2>7. t # Node => job[t] \in draft.pending
    BY <1>0, Zenon DEF PInv, IInv, DraftInstalled, Threads
  <2>8. Ready'
    BY <1>1, <2>1, <2>2, <2>6, <2>7, NamesAreDistinct, Zenon DEF PInv, Copies, Ready, Threads
  <2>9. writer' = NoOne
    BY <1>0 DEF Release
  <2> QED
    BY <1>0, <1>1, <2>1, <2>3, <2>4, <2>8, <2>9, Zenon DEF PInv, Copies
<1>2. CASE PersistFails(t) /\ UNCHANGED <<synced, mem>>
  BY <1>0, <1>2, FailedCopies
<1> QED
  BY <1>1, <1>2, Zenon DEF Sync

\* The end of the process leaves one of the two copies, and Open reads it.
LEMMA LifeCopies ==
  ASSUME PInv, Exit \/ Open
  PROVE  Copies'
<1>1. CASE Exit
  <2>1. /\ disk' = synced' /\ (disk' = disk \/ disk' = synced)
        /\ mem' = EmptyState /\ writer' = NoOne /\ ~up'
        /\ UNCHANGED <<decided, verdict>>
        /\ \A u \in Threads: pc'[u] = "idle"
    BY <1>1, Zenon DEF Exit, Release, historyVars
  <2>2. Drafted' /\ Ready'
    BY <2>1 DEF Drafted, Ready, Threads
  <2>3. Near(disk', synced')
    BY <2>1 DEF Near
  <2> QED
    BY <2>1, <2>2, <2>3, Zenon DEF PInv, Copies
<1>2. CASE Open
  <2>1. /\ up' /\ mem' = disk /\ disk = synced
        /\ UNCHANGED <<disk, synced, draft, writer, pc, job, decided, verdict>>
        /\ \A u \in Threads: pc[u] = "idle"
    BY <1>2, Zenon DEF Open, threadVars, historyVars, PInv, IInv, InHand
  <2>2. Drafted' /\ Ready'
    BY <2>1 DEF Drafted, Ready, Threads
  <2> QED
    BY <2>1, <2>2, Zenon DEF PInv, Copies
<1> QED
  BY <1>1, <1>2

-----------------------------------------------------------------------------
\* A step that leaves the journal, the list and the chain alone and brings no
\* device thread a block or nearer to its save.
LEMMA ParentsKept ==
  ASSUME Parents, UNCHANGED <<solved, tip, age, up>>, Saved' = Saved,
         Held(disk') \cup Held(synced') \subseteq Held(disk) \cup Held(synced),
         \A d \in Devices:
           /\ pc'[d] # "idle" => pc[d] # "idle" /\ job'[d] = job[d]
           /\ pc'[d] = "solved" => pc[d] = "solved"
           /\ Saving(d)' => Saving(d)
  PROVE  Parents'
<1>0. OnePerParent
  BY Zenon DEF Parents
<1>1. OnePerParent'
  <2>1. \A d \in Devices: Saving(d)' => Saving(d) /\ job'[d] = job[d]
    BY DEF Saving
  <2>2. \A d, e \in Devices:
          Saving(d)' /\ Saving(e)' /\ ParentOf[job'[d]] = ParentOf[job'[e]] => d = e
    <3> SUFFICES ASSUME NEW d \in Devices, NEW e \in Devices, Saving(d)', Saving(e)',
                        ParentOf[job'[d]] = ParentOf[job'[e]]
                 PROVE  d = e
      BY Zenon
    <3>1. Saving(d) /\ Saving(e) /\ ParentOf[job[d]] = ParentOf[job[e]]
      BY <2>1, Zenon
    <3> QED
      BY <1>0, <3>1, Zenon DEF OnePerParent
  <2>3. \A d \in Devices, b \in Saved: Saving(d)' => ParentOf[job'[d]] # ParentOf[b]
    <3> SUFFICES ASSUME NEW d \in Devices, NEW b \in Saved, Saving(d)'
                 PROVE  ParentOf[job'[d]] # ParentOf[b]
      BY Zenon
    <3>1. Saving(d) /\ job'[d] = job[d]
      BY <2>1, Zenon
    <3>2. ParentOf[job[d]] # ParentOf[b]
      BY <1>0, <3>1, Zenon DEF OnePerParent
    <3> QED
      BY <3>1, <3>2, Zenon
  <2>4. \A b, c \in Saved: ParentOf[b] = ParentOf[c] => b = c
    BY <1>0, Zenon DEF OnePerParent
  <2> QED
    BY <2>2, <2>3, <2>4, Zenon DEF OnePerParent
<1>2. Marked'
  <2>1. \A d \in Devices: Saving(d)' => Saving(d) /\ job'[d] = job[d]
    BY DEF Saving
  <2> QED
    BY <2>1, Zenon DEF Parents, Marked
<1> QED
  BY <1>1, <1>2, Zenon DEF Parents

\* Most steps do not concern the parents.
LEMMA QuietParents ==
  ASSUME Parents, UNCHANGED <<solved, tip, age, up, mem, disk, synced>>,
         \A d \in Devices:
           /\ pc'[d] # "idle" => pc[d] # "idle" /\ job'[d] = job[d]
           /\ pc'[d] = "solved" => pc[d] = "solved"
           /\ Saving(d)' => Saving(d)
  PROVE  Parents'
<1>1. Saved' = Saved
  BY DEF Saved
<1> QED
  BY <1>1, ParentsKept, Zenon

\* A share arrives that solves a block on the tip.
LEMMA PresentParents ==
  ASSUME PInv, NEW d \in Devices, NEW b \in Blocks, Present(d, b)
  PROVE  Parents'
<1>0. /\ up /\ ParentOf[b] = tip /\ age[b] # "old" /\ age' = [age EXCEPT ![b] = "found"]
      /\ UNCHANGED <<mem, disk, synced, solved, up, tip>>
  BY DEF Present, journalVars
<1>1. /\ mem = synced /\ tip \in Nat /\ age \in [Blocks -> {"unfound", "found", "old"}]
      /\ Held(mem) \subseteq Blocks
  BY <1>0, Zenon DEF PInv, Copies, IInv, TypeOK, State, Held
<1>2. /\ pc'[d] = "solved" /\ job'[d] = b
      /\ \A e \in Devices \ {d}: pc'[e] = pc[e] /\ job'[e] = job[e]
  BY Zenon DEF Present, Goto, PInv, IInv, TypeOK, Threads
<1>3. \A c \in Blocks: age'[c] = IF c = b THEN "found" ELSE age[c]
  BY <1>0, <1>1
<1>4. Saved' = Saved
  <2>1. b \in Held(mem) => age[b] = "found"
    BY <1>0, <1>1, Zenon DEF PInv, Parents
  <2> QED
    BY <1>0, <1>1, <1>3, <2>1 DEF Saved
<1>5. \A e \in Devices: Saving(e)' => Saving(e) /\ e # d
  BY <1>2 DEF Saving
<1>6. OnePerParent'
  <2>1. OnePerParent
    BY DEF PInv, Parents
  <2>2. \A e \in Devices: Saving(e)' => Saving(e) /\ job'[e] = job[e]
    BY <1>2, <1>5
  <2> HIDE DEF Present
  <2> QED
    BY <1>4, <2>1, <2>2 DEF OnePerParent
<1>7. Fresh(tip, tip) /\ tip <= tip
  BY <1>1, BoundsAreNumbers DEF Fresh
<1>8. \A e \in Devices: pc[e] # "idle" => job[e] \in Blocks
  BY Zenon DEF PInv, IInv, InHand, Threads
<1>9. Marked'
  <2>1. Marked
    BY DEF PInv, Parents
  <2>2. ASSUME NEW e \in Devices
        PROVE  /\ pc'[e] = "solved" => ParentOf[job'[e]] <= tip /\ Fresh(ParentOf[job'[e]], tip)
               /\ Saving(e)' => Remembered(ParentOf[job'[e]], solved, tip)
               /\ pc'[e] # "idle" => age'[job'[e]] = "found"
    <3>1. CASE e = d
      BY <1>0, <1>2, <1>3, <1>5, <1>7, <3>1, Zenon
    <3>2. CASE e # d
      BY <1>2, <1>3, <1>5, <1>8, <2>1, <3>2, Zenon DEF Marked
    <3> QED
      BY <3>1, <3>2, Zenon
  <2> QED
    BY <1>0, <2>2, Zenon DEF Marked
<1>10. \A c \in Held(disk') \cup Held(synced'): age'[c] # "unfound"
  <2>1. Held(disk) \cup Held(synced) \subseteq Blocks
    BY Zenon DEF PInv, IInv, TypeOK, State, Held
  <2>2. \A c \in Held(disk) \cup Held(synced): age[c] # "unfound"
    BY DEF PInv, Parents
  <2>3. \A c \in Held(disk) \cup Held(synced): age'[c] # "unfound"
    BY <1>3, <2>1, <2>2
  <2> QED
    BY <1>0, <2>3
<1> QED
  BY <1>0, <1>4, <1>6, <1>9, <1>10, Zenon DEF PInv, Parents

\* The chain grows: parents grow older, and by Prompt none too old for a
\* device thread that has yet to mark it.
LEMMA NewTipParents ==
  ASSUME PInv, NewTip
  PROVE  Parents'
<1>0. /\ Prompt /\ tip' = tip + 1 /\ tip \in Nat
      /\ UNCHANGED <<mem, disk, synced, solved, pc, job, up, age>>
  BY Zenon DEF NewTip, journalVars, threadVars, PInv, IInv, TypeOK
<1>1. Saved' = Saved /\ \A d \in Devices: Saving(d)' = Saving(d)
  BY <1>0 DEF Saved, Saving
<1>2. OnePerParent'
  BY <1>0, <1>1, Zenon DEF PInv, Parents, OnePerParent
<1>3. Window(solved, tip')
  <2>1. \A i \in DOMAIN solved: solved[i] \in Nat
    BY DEF PInv, IInv, TypeOK
  <2> QED
    BY <1>0, <2>1 DEF PInv, Parents, Window
<1>4. ASSUME NEW p \in Nat, Remembered(p, solved, tip)
      PROVE  Remembered(p, solved, tip')
  BY <1>0, <1>4, BoundsAreNumbers DEF Remembered, Fresh
<1>5. \A b \in Blocks: ParentOf[b] \in Nat
  BY ParentsAreHeights
<1>6. Saved \subseteq Blocks /\ \A d \in Devices: pc[d] # "idle" => job[d] \in Blocks
  BY Zenon DEF PInv, IInv, InHand, Threads, Saved, Held, TypeOK, State
<1>7. \A b \in Saved: Remembered(ParentOf[b], solved, tip')
  BY <1>4, <1>5, <1>6 DEF PInv, Parents
<1>8. Marked'
  <2> SUFFICES ASSUME NEW d \in Devices
               PROVE  /\ pc[d] = "solved" => /\ ParentOf[job[d]] <= tip'
                                             /\ Fresh(ParentOf[job[d]], tip')
                      /\ Saving(d) => Remembered(ParentOf[job[d]], solved, tip')
                      /\ pc[d] # "idle" => age[job[d]] = "found"
    BY <1>0, <1>1, Zenon DEF Marked
  <2>1. CASE pc[d] = "solved"
    <3>1. ParentOf[job[d]] \in Nat /\ ParentOf[job[d]] <= tip
      BY <1>5, <1>6, <2>1, Zenon DEF PInv, Parents, Marked
    <3>2. Fresh(ParentOf[job[d]], tip')
      BY <1>0, <2>1 DEF Prompt, Fresh
    <3>3. ParentOf[job[d]] <= tip'
      BY <1>0, <3>1
    <3>4. ~Saving(d) /\ age[job[d]] = "found"
      BY <2>1, Zenon DEF PInv, Parents, Marked, Saving
    <3> QED
      BY <3>2, <3>3, <3>4, Zenon
  <2>2. CASE pc[d] # "solved"
    <3>1. Saving(d) => ParentOf[job[d]] \in Nat
      BY <1>5, <1>6 DEF Saving
    <3> QED
      BY <1>4, <2>2, <3>1, Zenon DEF PInv, Parents, Marked
  <2> QED
    BY <2>1, <2>2, Zenon
<1> QED
  BY <1>0, <1>1, <1>2, <1>3, <1>7, <1>8, Zenon DEF PInv, Parents

\* SolvedParents::first: a repeat changes nothing; a new parent is not that of
\* a block in the journal or on its way, for then the list would hold it.
LEMMA MarkParentParents ==
  ASSUME PInv, NEW d \in Devices, MarkParent(d)
  PROVE  Parents'
<1> DEFINE p == ParentOf[job[d]]
<1>0. /\ up /\ pc[d] = "solved" /\ d \in Threads
      /\ UNCHANGED <<mem, disk, synced, job, up, tip, age>>
  BY Zenon DEF MarkParent, journalVars, Threads
<1>1. /\ job[d] \in Blocks /\ p \in Nat /\ tip \in Nat
      /\ solved \in Seq(Nat) /\ Len(solved) <= RecentParents
      /\ p <= tip /\ Fresh(p, tip) /\ age[job[d]] = "found"
  BY <1>0, ParentsAreHeights, Zenon DEF PInv, IInv, InHand, TypeOK, Parents, Marked
<1> HIDE DEF p
<1>2. CASE p \in Range(solved) /\ Goto(d, "repeat") /\ UNCHANGED solved
  <2>1. \A e \in Devices: pc'[e] = IF e = d THEN "repeat" ELSE pc[e]
    BY <1>0, <1>2, Zenon DEF Goto, PInv, IInv, TypeOK, Threads
  <2> QED
    BY <1>0, <1>2, <2>1, QuietParents, Zenon DEF PInv, Saving
<1>3. CASE /\ p \notin Range(solved) /\ solved' = RememberParent(solved, p)
           /\ Goto(d, "enqueue")
  <2>1. \A e \in Devices: pc'[e] = IF e = d THEN "enqueue" ELSE pc[e]
    BY <1>0, <1>3, Zenon DEF Goto, PInv, IInv, TypeOK, Threads
  <2>2. /\ Window(solved', tip) /\ p \in Range(solved')
        /\ \A q \in Range(solved): Fresh(q, tip) => q \in Range(solved')
    BY <1>1, <1>3, RememberWindow, Zenon DEF PInv, Parents
  <2>3. ASSUME NEW q, Remembered(q, solved, tip)
        PROVE  q # p /\ Remembered(q, solved', tip)
    BY <1>1, <1>3, <2>2, <2>3, Zenon DEF Remembered
  <2>4. Saved' = Saved
    BY <1>0 DEF Saved
  <2>5. \A e \in Devices: Saving(e)' <=> e = d \/ Saving(e)
    BY <2>1 DEF Saving
  <2>6. /\ \A b \in Saved: Remembered(ParentOf[b], solved, tip)
        /\ \A e \in Devices: Saving(e) => Remembered(ParentOf[job[e]], solved, tip)
    BY Zenon DEF PInv, Parents, Marked
  <2>7. OnePerParent'
    BY <1>0, <2>3, <2>4, <2>5, <2>6, Zenon DEF PInv, Parents, OnePerParent, p
  <2>8. Remembered(p, solved', tip)
    BY <1>1, <2>2 DEF Remembered
  <2>9. Marked'
    BY <1>0, <1>1, <2>1, <2>3, <2>5, <2>6, <2>8, Zenon DEF PInv, Parents, Marked, p
  <2> QED
    BY <1>0, <2>2, <2>3, <2>4, <2>6, <2>7, <2>9, Zenon DEF PInv, Parents
<1> QED
  BY <1>2, <1>3, Zenon DEF MarkParent, p

\* A failed persist ends the thread's handler.
LEMMA FailedParents ==
  ASSUME PInv, NEW t \in Threads, PersistFails(t),
         UNCHANGED <<mem, disk, synced, solved, tip, age, up>>
  PROVE  Parents'
<1>1. \A d \in Devices: pc'[d] = "idle" \/ (pc'[d] = pc[d] /\ job'[d] = job[d])
  BY NamesAreDistinct, Zenon DEF PersistFails, SaveFails, Leave, Goto, PInv, IInv, TypeOK, Threads
<1> QED
  BY <1>1, QuietParents, Zenon DEF PInv, Saving

\* The rename leaves the parents alone; the draft's new block was found.
LEMMA RenameParents ==
  ASSUME PInv, NEW t \in Threads, Rename(t)
  PROVE  Parents'
<1>0. /\ writer = t /\ pc[t] = "rename"
      /\ UNCHANGED <<mem, synced, solved, tip, age, up>>
  BY DEF Rename
<1>1. CASE disk' = draft /\ Goto(t, "sync") /\ UNCHANGED <<writer, draft, job, stop>>
  <2>1. \A d \in Devices: pc'[d] = IF d = t THEN "sync" ELSE pc[d]
    BY <1>1, Zenon DEF Goto, PInv, IInv, TypeOK, Threads
  <2>2. Saved' = Saved
    BY <1>0 DEF Saved
  <2>3. mem = synced /\ (OneSave(draft, mem, job[t]) \/ OneAnswer(draft, mem, job[t]))
    BY <1>0, DraftNear, Zenon DEF PInv, Copies, Drafted, Threads
  <2>4. t \in Devices => age[job[t]] = "found"
    BY <1>0, Zenon DEF PInv, Parents, Marked
  <2>5. t = Node => Held(draft) = Held(mem)
    BY <1>0, Zenon DEF PInv, Copies, Drafted, OneAnswer, Held
  <2>6. \A b \in Held(disk'): age[b] # "unfound"
    <3>1. \A b \in Held(draft): b \in Held(synced) \/ (t \in Devices /\ b = job[t])
      BY <2>3, <2>5, Zenon DEF OneSave, OneAnswer, Held, Threads
    <3> QED
      BY <1>1, <2>4, <3>1, Zenon DEF PInv, Parents
  <2>7. \A d \in Devices: Saving(d)' <=> Saving(d)
    BY <1>0, <2>1 DEF Saving
  <2>8. OnePerParent'
    BY <1>1, <2>2, <2>7, Zenon DEF PInv, Parents, OnePerParent
  <2>9. Marked'
    BY <1>0, <1>1, <2>1, <2>7, Zenon DEF PInv, Parents, Marked
  <2> QED
    BY <1>0, <2>2, <2>6, <2>8, <2>9, Zenon DEF PInv, Parents
<1>2. CASE PersistFails(t) /\ UNCHANGED disk
  BY <1>0, <1>2, FailedParents
<1> QED
  BY <1>1, <1>2, Zenon DEF Rename

\* The sync moves a device thread's block from its hand into the journal.
LEMMA SyncParents ==
  ASSUME PInv, NEW t \in Threads, Sync(t)
  PROVE  Parents'
<1>0. /\ writer = t /\ pc[t] = "sync"
      /\ UNCHANGED <<disk, solved, tip, age, up>>
  BY DEF Sync
<1>1. CASE /\ synced' = disk /\ mem' = draft
           /\ IF t = Node THEN Leave(t) ELSE Goto(t, "ack") /\ UNCHANGED job
  <2>1. disk = draft
    BY <1>0 DEF PInv, IInv, DraftInstalled
  <2>2. Held(disk') \cup Held(synced') \subseteq Held(disk) \cup Held(synced)
    BY <1>0, <1>1
  <2>3. CASE t = Node
    <3>1. Held(draft) = Held(mem)
      BY <1>0, <2>3, Zenon DEF PInv, Copies, Drafted, OneAnswer, Held
    <3>2. Saved' = Saved
      BY <1>0, <1>1, <3>1 DEF Saved
    <3>3. \A d \in Devices: pc'[d] = pc[d] /\ job'[d] = job[d]
      BY <1>1, <2>3, NamesAreDistinct, Zenon DEF Leave, Goto, PInv, IInv, TypeOK, Threads
    <3> QED
      BY <1>0, <2>2, <3>2, <3>3, ParentsKept, Zenon DEF PInv, Saving
  <2>4. CASE t # Node
    <3>1. t \in Devices /\ Saving(t) /\ job' = job
      BY <1>0, <1>1, <2>4 DEF Threads, Saving
    <3>2. \A d \in Devices: pc'[d] = IF d = t THEN "ack" ELSE pc[d]
      BY <1>1, <2>4, Zenon DEF Goto, PInv, IInv, TypeOK, Threads
    <3>3. Held(draft) = Held(mem) \cup {job[t]}
      BY <1>0, <3>1, Zenon DEF PInv, Copies, Drafted, OneSave, Held
    <3>4. Saved' = Saved \cup {job[t]}
      <4>1. age[job[t]] = "found"
        BY <1>0, <3>1, Zenon DEF PInv, Parents, Marked
      <4> QED
        BY <1>0, <1>1, <3>3, <4>1 DEF Saved
    <3>5. \A d \in Devices: Saving(d)' <=> d # t /\ Saving(d)
      BY <3>2 DEF Saving
    <3>6. OnePerParent'
      <4>1. OnePerParent
        BY DEF PInv, Parents
      <4> QED
        BY <3>1, <3>4, <3>5, <4>1 DEF OnePerParent
    <3>7. Marked'
      BY <1>0, <3>1, <3>2, <3>5, Zenon DEF PInv, Parents, Marked
    <3>8. \A b \in Saved': Remembered(ParentOf[b], solved, tip)
      BY <3>1, <3>4, Zenon DEF PInv, Parents, Marked
    <3>9. \A b \in Held(disk') \cup Held(synced'): age[b] # "unfound"
      BY <2>2 DEF PInv, Parents
    <3> QED
      BY <1>0, <3>6, <3>7, <3>8, <3>9, Zenon DEF PInv, Parents
  <2> QED
    BY <2>3, <2>4
<1>2. CASE PersistFails(t) /\ UNCHANGED <<synced, mem>>
  BY <1>0, <1>2, FailedParents
<1> QED
  BY <1>1, <1>2, Zenon DEF Sync

\* The end of the process empties the list; no block of a new run is in the
\* journal it opens.
LEMMA LifeParents ==
  ASSUME PInv, Exit \/ Open
  PROVE  Parents'
<1>0. Held(disk) \cup Held(synced) \subseteq Blocks /\ tip \in Nat
  BY Zenon DEF PInv, IInv, TypeOK, State, Held
<1>1. CASE Exit
  <2>1. /\ disk' = synced' /\ (disk' = disk \/ disk' = synced)
        /\ mem' = EmptyState /\ solved' = <<>>
        /\ age' = [b \in Blocks |-> IF age[b] = "found" THEN "old" ELSE age[b]]
        /\ \A u \in Threads: pc'[u] = "idle"
    BY <1>1, Zenon DEF Exit
  <2>2. /\ \A b \in Blocks: age'[b] # "found"
        /\ \A b \in Held(disk) \cup Held(synced): age'[b] # "unfound"
    BY <1>0, <2>1, Zenon DEF PInv, Parents
  <2>3. Saved' = {} /\ \A d \in Devices: pc'[d] = "idle"
    BY <2>1, Zenon DEF Saved, Held, EmptyState, Threads
  <2>4. OnePerParent' /\ Marked'
    BY <2>3, Zenon DEF OnePerParent, Marked, Saving
  <2>5. Window(solved', tip')
    BY <2>1 DEF Window
  <2> QED
    BY <2>1, <2>2, <2>3, <2>4, <2>5, Zenon DEF Parents
<1>2. CASE Open
  <2>1. /\ ~up /\ mem' = disk /\ up'
        /\ UNCHANGED <<disk, synced, solved, pc, job, tip, age>>
    BY <1>2 DEF Open, threadVars
  <2>2. Saved' = {} /\ \A d \in Devices: pc'[d] = "idle"
    BY <1>0, <2>1, Zenon DEF Saved, PInv, Parents, IInv, InHand, Threads
  <2>3. OnePerParent' /\ Marked'
    BY <2>2, Zenon DEF OnePerParent, Marked, Saving
  <2> QED
    BY <2>1, <2>2, <2>3, Zenon DEF PInv, Parents
<1> QED
  BY <1>1, <1>2

-----------------------------------------------------------------------------
\* Every action keeps what the copies promise.
LEMMA NextCopies ==
  ASSUME PInv, Next
  PROVE  Copies'
<1> USE DEF PInv
<1> DEFINE Carried == \A t \in Threads: pc'[t] \in {"rename", "sync", "ack"} =>
                                          pc'[t] = pc[t] /\ job'[t] = job[t]
<1>0. TypeOK /\ Devices \subseteq Threads /\ Node \in Threads
  BY DEF IInv, Threads
<1>1. ASSUME NEW d \in Devices, NEW b \in Blocks, Present(d, b) PROVE Copies'
  <2>1. Carried /\ UNCHANGED <<journalVars, up, verdict, decided>>
    BY <1>0, <1>1, Zenon DEF Present, Goto, historyVars, TypeOK
  <2> QED BY <2>1, QuietCopies
<1>2. ASSUME NEW d \in Devices, MarkParent(d) PROVE Copies'
  <2>1. Carried /\ UNCHANGED <<journalVars, up, verdict, decided>>
    BY <1>0, <1>2, Zenon DEF MarkParent, Goto, historyVars, TypeOK
  <2> QED BY <2>1, QuietCopies
<1>3. ASSUME NEW d \in Devices, Acknowledge(d) \/ ConnectionLost(d) PROVE Copies'
  <2>1. Carried /\ UNCHANGED <<journalVars, up, verdict, decided>>
    BY <1>0, <1>3, Zenon DEF Acknowledge, ConnectionLost, Leave, Goto, historyVars, TypeOK
  <2> QED BY <2>1, QuietCopies
<1>4. ASSUME NEW b \in Blocks, PickPending(b) PROVE Copies'
  <2>1. Carried /\ UNCHANGED <<journalVars, up, verdict, decided>>
    BY <1>0, <1>4, Zenon DEF PickPending, Goto, historyVars, TypeOK
  <2> QED BY <2>1, QuietCopies
<1>5. ASSUME NodeDied \/ OperatorStops \/ NewTip PROVE Copies'
  <2>1. Carried /\ UNCHANGED <<journalVars, up, verdict, decided>>
    BY <1>5, Zenon DEF NodeDied, OperatorStops, NewTip, threadVars, historyVars
  <2> QED BY <2>1, QuietCopies
<1>6. ASSUME Answered \/ Unanswered PROVE Copies'
  BY <1>6, ReplyCopies
<1> HIDE DEF PInv
<1> QED
  BY <1>1, <1>2, <1>3, <1>4, <1>5, <1>6, EnqueueCopies, RenameCopies, SyncCopies,
     FinishCopies, LifeCopies, Zenon DEF Next

\* Every action keeps what the list of parents promises.
LEMMA NextParents ==
  ASSUME PInv, Next
  PROVE  Parents'
<1> USE DEF PInv
<1> DEFINE Carried == \A d \in Devices:
             /\ pc'[d] # "idle" => pc[d] # "idle" /\ job'[d] = job[d]
             /\ pc'[d] = "solved" => pc[d] = "solved"
             /\ Saving(d)' => Saving(d)
           Frame == UNCHANGED <<solved, tip, age, up, mem, disk, synced>>
<1>0. TypeOK /\ Devices \subseteq Threads /\ Node \in Threads /\ Node \notin Devices
  BY NamesAreDistinct DEF IInv, Threads
<1>1. ASSUME NEW d \in Devices, Enqueue(d) PROVE Parents'
  <2>1. Carried /\ Frame
    BY <1>0, <1>1, Zenon DEF Enqueue, SaveFails, Leave, Goto, Saving, TypeOK
  <2> QED BY <2>1, QuietParents
<1>2. ASSUME NEW d \in Devices, Acknowledge(d) \/ ConnectionLost(d) PROVE Parents'
  <2>1. Carried /\ Frame
    BY <1>0, <1>2, Zenon DEF Acknowledge, ConnectionLost, Leave, Goto, Saving, journalVars, TypeOK
  <2> QED BY <2>1, QuietParents
<1>3. ASSUME NEW b \in Blocks, PickPending(b) PROVE Parents'
  <2>1. Carried /\ Frame
    BY <1>0, <1>3, Zenon DEF PickPending, Goto, Saving, journalVars, TypeOK
  <2> QED BY <2>1, QuietParents
<1>4. ASSUME Answered \/ Unanswered PROVE Parents'
  <2>1. Carried /\ Frame
    BY <1>0, <1>4, Zenon DEF Answered, Unanswered, Leave, Goto, Saving, journalVars, TypeOK
  <2> QED BY <2>1, QuietParents
<1>5. ASSUME Finish PROVE Parents'
  <2>1. Carried /\ Frame
    BY <1>0, <1>5, Zenon DEF Finish, PersistFails, Leave, Goto, Saving, TypeOK
  <2> QED BY <2>1, QuietParents
<1>6. ASSUME NodeDied \/ OperatorStops PROVE Parents'
  <2>1. Carried /\ Frame
    BY <1>6, Zenon DEF NodeDied, OperatorStops, threadVars, journalVars, Saving
  <2> QED BY <2>1, QuietParents
<1> HIDE DEF PInv
<1> QED
  BY <1>1, <1>2, <1>3, <1>4, <1>5, <1>6, PresentParents, MarkParentParents, RenameParents,
     SyncParents, NewTipParents, LifeParents, Zenon DEF Next

\* Every step keeps the inductive invariant.
LEMMA NextPInv == PInv /\ [Next]_vars => PInv'
<1> SUFFICES ASSUME PInv, [Next]_vars PROVE PInv'
  OBVIOUS
<1>1. IInv'
  BY NextIInv DEF PInv
<1>2. CASE Next
  BY <1>1, <1>2, NextCopies, NextParents DEF PInv
<1>3. CASE UNCHANGED vars
  <2>1. /\ UNCHANGED <<journalVars, up, verdict, decided, pc, job>>
        /\ UNCHANGED <<solved, tip, age, up, mem, disk, synced>>
    BY <1>3 DEF vars, journalVars, threadVars, historyVars
  <2>2. Copies'
    BY <2>1, QuietCopies DEF PInv
  <2>3. Parents'
    BY <2>1, QuietParents DEF PInv, Saving
  <2> QED
    BY <1>1, <2>2, <2>3 DEF PInv
<1> QED
  BY <1>2, <1>3

-----------------------------------------------------------------------------
\* The server never writes a journal that its next start would refuse, whatever
\* write fails and whenever the process ends (Journal::persist, validate_state).
THEOREM EveryFileReopens == Spec => []FileReopens
<1>1. PInv => FileReopens
  BY Zenon DEF PInv, Copies, Sound, FileReopens
<1> QED
  BY <1>1, InitPInv, NextPInv, PTL DEF Spec

\* Each outcome is counted once and as the node judged it, across lost replies,
\* resubmissions, failed writes and restarts (Journal::finish, submit_saved).
THEOREM OutcomesCounted == Spec => []CountsExact
<1>1. PInv => CountsExact
  <2> SUFFICES ASSUME PInv PROVE CountsExact
    OBVIOUS
  <2>1. Sound(disk, verdict) /\ Sound(synced, verdict) /\ Sound(mem, verdict)
    BY EmptySound DEF PInv, Copies
  <2>2. \A s \in {mem, disk, synced}: Sound(s, verdict)
    BY <2>1
  <2> QED
    BY <2>2, Zenon DEF CountsExact, Sound, Outcome
<1> QED
  BY <1>1, InitPInv, NextPInv, PTL DEF Spec

\* One run saves one block per parent, for any bound on the list of recent
\* parents and any number of devices (SolvedParents::first, serve_device).
THEOREM OneSavePerParent == Spec => []OneBlockPerParent
<1>1. PInv => OneBlockPerParent
  BY Zenon DEF PInv, Parents, OnePerParent, Saved, Held, OneBlockPerParent
<1> QED
  BY <1>1, InitPInv, NextPInv, PTL DEF Spec

-----------------------------------------------------------------------------
\* Blocks in the synced file are saved or answered.
LEMMA PromisedStatus ==
  ASSUME PInv, NEW b \in Blocks
  PROVE  b \in Held(synced) => Promised[b] # "unsaved"
<1>1. b \in synced.done => verdict[b] # "unknown"
  BY Zenon DEF PInv, Copies, Sound, JudgedIn
<1>2. verdict[b] \in {"unknown", "accepted", "rejected"}
  BY Zenon DEF PInv, IInv, TypeOK
<1> QED
  BY <1>1, <1>2 DEF Promised, Held

\* A synced file that moves by one save or one answer keeps the promise.
LEMMA SyncedMoves ==
  ASSUME PInv, PInv', UNCHANGED <<verdict, saveAcked>>, Near(synced', synced)
  PROVE  [Promise!Next]_<<Promised, saveAcked>>
<1>0. \A b \in Blocks:
        Promised'[b] = IF b \in synced'.done THEN verdict[b]
                       ELSE IF b \in synced'.pending THEN "saved" ELSE "unsaved"
  BY DEF Promised
<1>a. \A b \in Blocks:
        Promised[b] = IF b \in synced.done THEN verdict[b]
                      ELSE IF b \in synced.pending THEN "saved" ELSE "unsaved"
  BY DEF Promised
<1>b. /\ Promised = [b \in Blocks |-> Promised[b]]
      /\ Promised' = [b \in Blocks |-> Promised'[b]]
  BY DEF Promised
<1>c. synced.pending \cap synced.done = {} /\ synced'.pending \cap synced'.done = {}
  BY Zenon DEF PInv, Copies, Sound
<1>1. CASE synced'.pending = synced.pending /\ synced'.done = synced.done
  <2>1. Promised' = Promised
    BY <1>1 DEF Promised
  <2> QED
    BY <2>1
<1>2. ASSUME NEW b \in Blocks, OneSave(synced', synced, b)
      PROVE  Promise!Save(b)
  <2>1. Promised[b] = "unsaved" /\ Promised'[b] = "saved"
    BY <1>0, <1>a, <1>c, <1>2, Zenon DEF OneSave
  <2>2. \A c \in Blocks \ {b}: Promised'[c] = Promised[c]
    BY <1>0, <1>a, <1>2 DEF OneSave
  <2>3. Promised' = [Promised EXCEPT ![b] = "saved"]
    BY <1>b, <2>1, <2>2
  <2> QED
    BY <2>1, <2>3 DEF Promise!Save
<1>3. ASSUME NEW b \in Blocks, OneAnswer(synced', synced, b)
      PROVE  \E v \in {"accepted", "rejected"}: Promise!Answer(b, v)
  <2>1. /\ Promised[b] = "saved" /\ Promised'[b] = verdict[b]
        /\ verdict[b] \in {"accepted", "rejected"}
    <3>1. b \in synced.pending /\ b \in synced'.done
      BY <1>3 DEF OneAnswer
    <3>2. verdict[b] \in {"accepted", "rejected"}
      <4>1. Sound(synced', verdict) /\ verdict \in [Blocks -> {"unknown", "accepted", "rejected"}]
        BY Zenon DEF PInv, Copies, IInv, TypeOK
      <4> QED
        BY <3>1, <4>1 DEF Sound, JudgedIn
    <3> QED
      BY <1>0, <1>a, <1>c, <3>1, <3>2, Zenon
  <2>2. \A c \in Blocks \ {b}: Promised'[c] = Promised[c]
    BY <1>0, <1>a, <1>3 DEF OneAnswer
  <2>3. Promised' = [Promised EXCEPT ![b] = verdict[b]]
    BY <1>b, <2>1, <2>2
  <2>4. Promise!Answer(b, verdict[b])
    BY <2>1, <2>3 DEF Promise!Answer
  <2> QED
    BY <2>1, <2>4
<1> QED
  BY <1>1, <1>2, <1>3, Zenon DEF Near, Promise!Next

\* A reply of the node changes no judgement, so nothing that was promised.
LEMMA ReplyKeepsPromise ==
  ASSUME PInv, Answered \/ Unanswered
  PROVE  UNCHANGED <<Promised, saveAcked>>
<1>1. /\ verdict' = verdict \/ \E v \in {"accepted", "rejected"}:
           /\ verdict[job[Node]] \in {"unknown", v}
           /\ verdict' = [verdict EXCEPT ![job[Node]] = v]
      /\ UNCHANGED <<synced, saveAcked>>
  BY Zenon DEF Answered, Unanswered, journalVars, historyVars
<1>2. verdict \in [Blocks -> {"unknown", "accepted", "rejected"}]
  BY Zenon DEF PInv, IInv, TypeOK
<1>3. \A b \in synced.done: b \in Blocks /\ verdict[b] # "unknown"
  BY Zenon DEF PInv, Copies, Sound, JudgedIn
<1>4. \A b \in synced.done: verdict'[b] = verdict[b]
  BY <1>1, <1>2, <1>3, Zenon
<1> QED
  BY <1>1, <1>4, Zenon DEF Promised

\* Every step of the server is a step of the promise, or none.
LEMMA StepKeepsPromise ==
  ASSUME PInv, PInv', [Next]_vars
  PROVE  [Promise!Next]_<<Promised, saveAcked>>
<1>1. ASSUME UNCHANGED <<synced, verdict, saveAcked>>
      PROVE  UNCHANGED <<Promised, saveAcked>>
  BY <1>1 DEF Promised
<1>2. ASSUME NEW t \in Threads, Sync(t)
      PROVE  [Promise!Next]_<<Promised, saveAcked>>
  <2>1. /\ synced' = disk \/ synced' = synced
        /\ UNCHANGED <<verdict, saveAcked>>
    BY <1>2 DEF Sync, historyVars
  <2>2. Near(disk, synced) /\ Near(synced, synced)
    BY Zenon DEF PInv, Copies, Near
  <2> QED
    BY <2>1, <2>2, SyncedMoves
<1>3. ASSUME Exit
      PROVE  [Promise!Next]_<<Promised, saveAcked>>
  <2>1. /\ synced' = disk \/ synced' = synced
        /\ UNCHANGED <<verdict, saveAcked>>
    BY <1>3 DEF Exit, historyVars
  <2>2. Near(disk, synced) /\ Near(synced, synced)
    BY Zenon DEF PInv, Copies, Near
  <2> QED
    BY <2>1, <2>2, SyncedMoves
<1>4. ASSUME NEW d \in Devices, Acknowledge(d)
      PROVE  [Promise!Next]_<<Promised, saveAcked>>
  <2>1. UNCHANGED <<synced, verdict>>
    BY <1>4 DEF Acknowledge, journalVars
  <2>2. Promised' = Promised
    BY <2>1 DEF Promised
  <2>3. CASE pc[d] = "ack"
    <3>1. job[d] \in Blocks /\ job[d] \in Held(synced)
      BY <2>3, Zenon DEF PInv, IInv, InHand, Copies, Ready, Held, Threads
    <3>2. saveAcked' = saveAcked \cup {job[d]}
      BY <1>4, <2>3 DEF Acknowledge
    <3>3. Promise!Acknowledge(job[d])
      BY <2>2, <3>1, <3>2, PromisedStatus DEF Promise!Acknowledge
    <3> QED
      BY <3>1, <3>3 DEF Promise!Next
  <2>4. CASE pc[d] # "ack"
    BY <1>4, <2>2, <2>4 DEF Acknowledge
  <2> QED
    BY <2>3, <2>4
<1>5. ASSUME \/ \E d \in Devices, b \in Blocks: Present(d, b)
             \/ \E d \in Devices: MarkParent(d) \/ Enqueue(d) \/ ConnectionLost(d)
             \/ \E t \in Threads: Rename(t)
             \/ \E b \in Blocks: PickPending(b)
             \/ Finish \/ NodeDied \/ NewTip \/ OperatorStops \/ Open
             \/ UNCHANGED vars
      PROVE  UNCHANGED <<Promised, saveAcked>>
  <2>1. UNCHANGED <<synced, verdict, saveAcked>>
    BY <1>5, Zenon DEF Present, MarkParent, Enqueue, ConnectionLost, Rename, PickPending, Finish,
                NodeDied, NewTip, OperatorStops, Open, vars, journalVars, historyVars
  <2> QED
    BY <1>1, <2>1
<1> QED
  BY <1>2, <1>3, <1>4, <1>5, ReplyKeepsPromise, Zenon DEF Next

\* The journal and its threads implement the promise: durable storage moves by
\* one save or one answer of one block at a time, an answer follows a save and
\* is never revised, and only what is saved is acknowledged, through any failed
\* write, end of the process and loss of power.
THEOREM JournalKeepsPromise == Spec => KeepsPromise
<1>1. Init => Promise!Init
  BY DEF Init, Promise!Init, Promised, EmptyState
<1> QED
  BY <1>1, InitPInv, NextPInv, StepKeepsPromise, PTL DEF Spec, KeepsPromise, Promise!Spec

=============================================================================
