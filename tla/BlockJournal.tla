---------------------------- MODULE BlockJournal ----------------------------
(***************************************************************************)
(* The durable block journal of the Stratum V2 server                      *)
(* (stratum_v2/journal.rs) with the threads that use it in                 *)
(* stratum_v2/server.rs: the device threads that save a solved block       *)
(* before they acknowledge its share, and the node thread that submits     *)
(* saved blocks until the node answers.  The same module stands for the    *)
(* server's own journal and for the Job Declaration journal: both are      *)
(* filled behind a SolvedParents filter and drained by submit_next.        *)
(*                                                                         *)
(* The file is seen at two depths.  "disk" is what the file system shows   *)
(* (the last rename), "synced" what a power loss cannot take back (the     *)
(* last rename whose fsyncs returned).  A process crash keeps "disk"; a    *)
(* power loss may fall back to "synced".                                   *)
(***************************************************************************)
EXTENDS Naturals, Sequences, FiniteSets, Functions

CONSTANTS
  Devices,      \* threads serving a device connection (serve_device)
  Node,         \* the thread that talks to the BCH node
  NoOne,        \* nobody holds the journal's mutex
  Blocks,       \* solved blocks, one member per block hash
  NoBlock,      \* no block in hand
  ParentOf,     \* the parent each block extends, a chain height
  MaxPending,   \* MAX_PENDING
  MaxReceipts,  \* MAX_RECEIPTS
  RecentParents \* SolvedParents::RECENT

ASSUME NamesAreDistinct == Node \notin Devices /\ NoOne \notin Devices \cup {Node}
ASSUME NoBlockIsNone == NoBlock \notin Blocks
ASSUME ParentsAreHeights == ParentOf \in [Blocks -> Nat]
ASSUME BoundsAreNumbers ==
  MaxPending \in Nat /\ MaxReceipts \in Nat /\ RecentParents \in Nat \ {0}

VARIABLES
  mem,      \* Journal::state, the state in memory
  disk,     \* the journal file as the file system shows it
  synced,   \* the journal file as a power loss would leave it
  draft,    \* the state being persisted by the mutex holder
  writer,   \* the thread that holds the journal's mutex across persist
  solved,   \* Shared::solved, the recent parents with a block
  pc,       \* where each thread stands
  job,      \* the block each thread has in hand
  up,       \* the process runs
  stop,     \* Shared::stop
  tip,      \* the parent the current template extends
  age,      \* whether a block was found in this run of the process
  verdict,  \* what the node decided about a block it received
  decided,  \* blocks the node thread got a final answer for
  saveAcked,\* blocks acknowledged after their own save
  ackedParents \* parents with an acknowledged solution, repeats included

journalVars == <<mem, disk, synced, draft, writer>>
threadVars == <<pc, job, solved>>
historyVars == <<saveAcked, ackedParents, decided>>
vars == <<journalVars, threadVars, historyVars, up, stop, tip, age, verdict>>

Threads == Devices \cup {Node}

-----------------------------------------------------------------------------
(***************************************************************************)
(* The journal's state.  "done" is a history field: every block ever       *)
(* completed, where "completed" keeps only the recent receipts.            *)
(***************************************************************************)

State == [pending: SUBSET Blocks, completed: Seq(Blocks),
          accepted: Nat, rejected: Nat, done: SUBSET Blocks]

EmptyState == [pending |-> {}, completed |-> <<>>,
               accepted |-> 0, rejected |-> 0, done |-> {}]

\* validate_limits, the counts; block sizes are not modelled.
WithinLimits(s) ==
  Cardinality(s.pending) <= MaxPending /\ Len(s.completed) <= MaxReceipts

\* validate_state: within limits, and no hash twice among receipts and pending.
ValidState(s) ==
  /\ WithinLimits(s)
  /\ IsInjective(s.completed)
  /\ s.pending \cap Range(s.completed) = {}

\* push refuses to save twice what is pending or has a recent receipt.
AlreadySaved(s, b) == b \in s.pending \cup Range(s.completed)

\* Faulty variant of PushedState: the new block replaces the saved ones.
PushedOver(s, b) == [s EXCEPT !.pending = {b}]

\* The state push persists.
PushedState(s, b) == [s EXCEPT !.pending = @ \cup {b}]

\* Faulty variant of AddReceipt: receipts are never dropped.
KeepEveryReceipt(receipts, b) == Append(receipts, b)

\* The oldest receipt gives way (Vec::remove(0)).
AddReceipt(receipts, b) ==
  LET longer == Append(receipts, b)
  IN  IF Len(longer) > MaxReceipts THEN Tail(longer) ELSE longer

\* Faulty variant of FinishedState: the block stays pending.
CountedStillPending(s, b, accepted) ==
  [s EXCEPT !.accepted = IF accepted THEN @ + 1 ELSE @,
            !.rejected = IF accepted THEN @ ELSE @ + 1,
            !.done = @ \cup {b}]

\* The state finish persists: pending removal, receipt and counter at once.
FinishedState(s, b, accepted) ==
  [pending |-> s.pending \ {b},
   completed |-> AddReceipt(s.completed, b),
   accepted |-> IF accepted THEN s.accepted + 1 ELSE s.accepted,
   rejected |-> IF accepted THEN s.rejected ELSE s.rejected + 1,
   done |-> s.done \cup {b}]

\* Faulty variants of RememberParent: without the bound, and without the record.
RememberEveryParent(parents, p) == Append(parents, p)
ForgetParent(parents, p) == parents

\* SolvedParents::first, when the parent is new: the oldest one gives way.
RememberParent(parents, p) ==
  Append(IF Len(parents) >= RecentParents THEN Tail(parents) ELSE parents, p)

-----------------------------------------------------------------------------
Init ==
  /\ mem = EmptyState
  /\ disk = EmptyState
  /\ synced = EmptyState
  /\ draft = EmptyState
  /\ writer = NoOne
  /\ solved = <<>>
  /\ pc = [t \in Threads |-> "idle"]
  /\ job = [t \in Threads |-> NoBlock]
  /\ up = TRUE
  /\ stop = FALSE
  /\ tip = 0
  /\ age = [b \in Blocks |-> "unfound"]
  /\ verdict = [b \in Blocks |-> "unknown"]
  /\ decided = {}
  /\ saveAcked = {}
  /\ ackedParents = {}

Goto(t, label) == pc' = [pc EXCEPT ![t] = label]

\* The thread's handler is over: its session waits for the next frame, or ends.
Leave(t) ==
  /\ Goto(t, "idle")
  /\ job' = [job EXCEPT ![t] = NoBlock]

-----------------------------------------------------------------------------
(***************************************************************************)
(* Device threads (serve_device, save_declared).                           *)
(***************************************************************************)

\* The serving loop takes a frame with a share that solves a block on the
\* current parent.  One block can arrive twice in a run, as a share and as a
\* PushSolution; sessions and their jobs do not outlive the process.
Present(d, b) ==
  /\ up /\ ~stop /\ pc[d] = "idle"
  /\ ParentOf[b] = tip /\ age[b] # "old"
  /\ age' = [age EXCEPT ![b] = "found"]
  /\ Goto(d, "solved")
  /\ job' = [job EXCEPT ![d] = b]
  /\ UNCHANGED <<journalVars, historyVars, solved, up, stop, tip, verdict>>

\* SolvedParents::first under its own lock: a repeat skips the save and is
\* still acknowledged; a first solution marks the parent and goes on to save.
MarkParent(d) ==
  LET p == ParentOf[job[d]] IN
  /\ up /\ pc[d] = "solved"
  /\ \/ p \in Range(solved) /\ Goto(d, "repeat") /\ UNCHANGED solved
     \/ /\ p \notin Range(solved)
        /\ solved' = RememberParent(solved, p)
        /\ Goto(d, "enqueue")
  /\ UNCHANGED <<journalVars, historyVars, job, up, stop, tip, age, verdict>>

\* Faulty variant of SaveFails: the error is dropped and the share acknowledged.
SaveErrorIgnored(d) == Goto(d, "ack") /\ UNCHANGED <<job, stop>>

\* A save that fails stops the server and ends the session without an answer.
SaveFails(d) ==
  /\ stop' = TRUE
  /\ Leave(d)

\* Journal::push under the journal's mutex, up to the temporary file.
Enqueue(d) ==
  /\ up /\ pc[d] = "enqueue" /\ writer = NoOne
  /\ \/ /\ AlreadySaved(mem, job[d])
        /\ Goto(d, "ack")
        /\ UNCHANGED <<draft, writer, job, stop>>
     \/ /\ ~AlreadySaved(mem, job[d])
        /\ WithinLimits(PushedState(mem, job[d]))
        /\ draft' = PushedState(mem, job[d])
        /\ writer' = d
        /\ Goto(d, "rename")
        /\ UNCHANGED <<job, stop>>
     \/ /\ ~AlreadySaved(mem, job[d])
        /\ SaveFails(d)   \* over the limits, or the temporary file failed
        /\ UNCHANGED <<draft, writer>>
  /\ UNCHANGED <<mem, disk, synced, historyVars, solved, up, tip, age, verdict>>

\* The answer reaches the device: its share counts as acknowledged.
Acknowledge(d) ==
  /\ up /\ pc[d] \in {"ack", "repeat"}
  /\ saveAcked' = IF pc[d] = "ack" THEN saveAcked \cup {job[d]} ELSE saveAcked
  /\ ackedParents' = ackedParents \cup {ParentOf[job[d]]}
  /\ Leave(d)
  /\ UNCHANGED <<journalVars, decided, solved, up, stop, tip, age, verdict>>

\* The socket fails before the answer is sent.
ConnectionLost(d) ==
  /\ up /\ pc[d] \in {"ack", "repeat"}
  /\ Leave(d)
  /\ UNCHANGED <<journalVars, historyVars, solved, up, stop, tip, age, verdict>>

-----------------------------------------------------------------------------
(***************************************************************************)
(* Journal::persist: the rename and the fsyncs, with the mutex held.       *)
(***************************************************************************)

\* What a thread does with a failed persist: a device thread stops the
\* server, the node thread ends, which the accept loop notices (NodeDied).
PersistFails(t) ==
  IF t = Node
  THEN Goto(t, "dead") /\ job' = [job EXCEPT ![t] = NoBlock] /\ UNCHANGED stop
  ELSE SaveFails(t)

\* The mutex guard and the new state go out of scope.
Release == writer' = NoOne /\ draft' = EmptyState

Rename(t) ==
  /\ up /\ writer = t /\ pc[t] = "rename"
  /\ \/ disk' = draft /\ Goto(t, "sync") /\ UNCHANGED <<writer, draft, job, stop>>
     \/ Release /\ PersistFails(t) /\ UNCHANGED disk
  /\ UNCHANGED <<mem, synced, historyVars, solved, up, tip, age, verdict>>

\* Only a synced file installs the new state in memory; a failed sync leaves
\* the file ahead of it.
Sync(t) ==
  /\ up /\ writer = t /\ pc[t] = "sync"
  /\ Release
  /\ \/ /\ synced' = disk
        /\ mem' = draft
        /\ IF t = Node THEN Leave(t) ELSE Goto(t, "ack") /\ UNCHANGED job
        /\ UNCHANGED stop
     \/ PersistFails(t) /\ UNCHANGED <<synced, mem>>
  /\ UNCHANGED <<disk, historyVars, solved, up, tip, age, verdict>>

-----------------------------------------------------------------------------
(***************************************************************************)
(* The node thread (submit_next, submit_saved).                            *)
(***************************************************************************)

\* A pending block that is due is copied out and the mutex released.
PickPending(b) ==
  /\ up /\ ~stop /\ pc[Node] = "idle" /\ writer = NoOne
  /\ b \in mem.pending
  /\ Goto(Node, "rpc")
  /\ job' = [job EXCEPT ![Node] = b]
  /\ UNCHANGED <<journalVars, historyVars, solved, up, stop, tip, age, verdict>>

\* The node judges a block once; a later "duplicate" repeats its judgement.
\* A final reply: submitblock's result, or the header lookup after it.
Answered ==
  LET b == job[Node] IN
  /\ up /\ pc[Node] = "rpc"
  /\ \E v \in {"accepted", "rejected"}:
       /\ verdict[b] \in {"unknown", v}
       /\ verdict' = [verdict EXCEPT ![b] = v]
  /\ decided' = decided \cup {b}
  /\ Goto(Node, "finish")
  /\ UNCHANGED <<journalVars, saveAcked, ackedParents, solved, job, up, stop, tip, age>>

\* No final reply (node down, inconclusive, or the reply was lost after the
\* node judged the block): the block stays pending and is deferred.
Unanswered ==
  LET b == job[Node] IN
  /\ up /\ pc[Node] = "rpc"
  /\ \/ UNCHANGED verdict
     \/ /\ verdict[b] = "unknown"
        /\ \E v \in {"accepted", "rejected"}: verdict' = [verdict EXCEPT ![b] = v]
  /\ Leave(Node)
  /\ UNCHANGED <<journalVars, historyVars, solved, up, stop, tip, age>>

\* Journal::finish, up to the temporary file.
Finish ==
  LET b == job[Node] IN
  /\ up /\ pc[Node] = "finish" /\ writer = NoOne
  /\ \/ b \notin mem.pending /\ Leave(Node) /\ UNCHANGED <<draft, writer, stop>>
     \/ /\ b \in mem.pending
        /\ draft' = FinishedState(mem, b, verdict[b] = "accepted")
        /\ writer' = Node
        /\ Goto(Node, "rename")
        /\ UNCHANGED <<job, stop>>
     \/ /\ b \in mem.pending
        /\ PersistFails(Node)
        /\ UNCHANGED <<draft, writer>>
  /\ UNCHANGED <<mem, disk, synced, historyVars, solved, up, tip, age, verdict>>

\* The accept loop sees that the node thread ended and stops the server.
NodeDied ==
  /\ up /\ ~stop /\ pc[Node] = "dead"
  /\ stop' = TRUE
  /\ UNCHANGED <<journalVars, threadVars, historyVars, up, tip, age, verdict>>

-----------------------------------------------------------------------------
(***************************************************************************)
(* The environment and the process's life.                                 *)
(***************************************************************************)

\* Timing assumption: the chain does not grow by half of RecentParents while a
\* device thread runs from the frame it took to SolvedParents::first.  (With
\* more, late threads on older parents could drop a parent from the list that
\* another late thread still needs.)
Prompt == \A d \in Devices:
  pc[d] = "solved" => 2 * (tip + 1) < 2 * ParentOf[job[d]] + RecentParents

\* A new block on the chain: templates, and so solutions, move to it.
NewTip ==
  /\ \E b \in Blocks: ParentOf[b] > tip
  /\ Prompt
  /\ tip' = tip + 1
  /\ UNCHANGED <<journalVars, threadVars, historyVars, up, stop, age, verdict>>

OperatorStops ==
  /\ up /\ ~stop
  /\ stop' = TRUE
  /\ UNCHANGED <<journalVars, threadVars, historyVars, up, tip, age, verdict>>

\* The process ends at any point, orderly or not.  A rename that was not
\* synced may be lost with the power.
Exit ==
  /\ up
  /\ up' = FALSE
  /\ \E file \in {disk, synced}: disk' = file /\ synced' = file
  /\ pc' = [t \in Threads |-> "idle"]
  /\ job' = [t \in Threads |-> NoBlock]
  /\ mem' = EmptyState /\ Release
  /\ solved' = <<>> /\ stop' = FALSE
  /\ age' = [b \in Blocks |-> IF age[b] = "found" THEN "old" ELSE age[b]]
  /\ UNCHANGED <<historyVars, tip, verdict>>

\* Journal::open reads the file back and refuses one it finds invalid.
Open ==
  /\ ~up
  /\ ValidState(disk)
  /\ up' = TRUE
  /\ mem' = disk
  /\ UNCHANGED <<disk, synced, draft, writer, threadVars, historyVars, stop, tip, age, verdict>>

-----------------------------------------------------------------------------
Next ==
  \/ \E d \in Devices, b \in Blocks: Present(d, b)
  \/ \E d \in Devices: MarkParent(d) \/ Enqueue(d) \/ Acknowledge(d) \/ ConnectionLost(d)
  \/ \E t \in Threads: Rename(t) \/ Sync(t)
  \/ \E b \in Blocks: PickPending(b)
  \/ Answered \/ Unanswered \/ Finish \/ NodeDied
  \/ NewTip \/ OperatorStops \/ Exit \/ Open

Spec == Init /\ [][Next]_vars

-----------------------------------------------------------------------------
(***************************************************************************)
(* Properties.                                                             *)
(***************************************************************************)

\* Every variable keeps its type; the labels are the points where a thread
\* gives up or takes a lock in serve_device, save_declared and submit_next.
TypeOK ==
  /\ mem \in State /\ disk \in State /\ synced \in State /\ draft \in State
  /\ writer \in Threads \cup {NoOne}
  /\ solved \in Seq(Nat) /\ Len(solved) <= RecentParents
  /\ pc \in [Threads -> {"idle", "solved", "enqueue", "rename", "sync", "ack",
                         "repeat", "rpc", "finish", "dead"}]
  /\ job \in [Threads -> Blocks \cup {NoBlock}]
  /\ up \in BOOLEAN /\ stop \in BOOLEAN
  /\ tip \in Nat
  /\ age \in [Blocks -> {"unfound", "found", "old"}]
  /\ verdict \in [Blocks -> {"unknown", "accepted", "rejected"}]
  /\ decided \subseteq Blocks /\ saveAcked \subseteq Blocks /\ ackedParents \subseteq Nat

\* A block whose save was acknowledged to a device is in every copy of the
\* journal a restart could read, until the node has given a final answer for
\* it: no crash, power loss, failed write or later write by another thread
\* loses it (serve_device saves before it sends the answer).
SavedBeforeAck ==
  \A b \in saveAcked: b \in decided \/ (b \in disk.pending /\ b \in synced.pending)

\* The server never writes a journal that its own next start would refuse:
\* whichever copy a crash leaves passes validate_state.
FileReopens == ValidState(disk) /\ ValidState(synced)

\* Each outcome is counted once and as the node judged it, across lost
\* replies, resubmissions and restarts: in every copy the counters are the
\* numbers of completed blocks the node accepted and rejected.
CountsExact ==
  \A s \in {mem, disk, synced}:
    /\ s.accepted = Cardinality({b \in s.done: verdict[b] = "accepted"})
    /\ s.rejected = Cardinality({b \in s.done: verdict[b] = "rejected"})
    /\ s.pending \cap s.done = {}

\* One run saves at most one block per parent, so a burst of solutions on one
\* parent cannot fill the journal (SolvedParents).
OneBlockPerParent ==
  \A b, c \in {x \in mem.pending \cup mem.done: age[x] = "found"}:
    up /\ ParentOf[b] = ParentOf[c] => b = c

\* SolvedParents::first answers "false when a block on it was already saved",
\* and a repeat is acknowledged on that word; "Storage failure or exhaustion
\* stops the server before an unsaved block is acknowledged".  So once nobody
\* is still saving a block on it, a parent with an acknowledged solution has a
\* block in the durable journal or answered by the node.
AckedParentIsSaved ==
  \A p \in ackedParents:
    \/ \E b \in decided \cup synced.pending: ParentOf[b] = p
    \/ \E d \in Devices: pc[d] \in {"enqueue", "rename", "sync"} /\ ParentOf[job[d]] = p

\* The journal as a promise: a block is unsaved, saved, then answered once.
Promised ==
  [b \in Blocks |-> IF b \in synced.done THEN verdict[b]
                   ELSE IF b \in synced.pending THEN "saved" ELSE "unsaved"]

Promise == INSTANCE BlockPromise WITH status <- Promised, acked <- saveAcked

\* The journal and its threads implement the promise.
KeepsPromise == Promise!Spec

=============================================================================
