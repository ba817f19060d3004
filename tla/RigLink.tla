------------------------------- MODULE RigLink -------------------------------
(***************************************************************************)
(* A rig and its coordinators (rigs.rs, rigs/pending.rs).                  *)
(*                                                                         *)
(* A rig mines the jobs of the first coordinator that answers and sends    *)
(* winners back; it never talks to the chain.  Sending a winner is no      *)
(* receipt, so the rig keeps its proof in a file and sends it again with   *)
(* every job for the same work, whichever coordinator the job comes from.  *)
(* A coordinator queues the winners that answer its current job for the    *)
(* supervisor, which claims one of them.  A public pool gives a rig two    *)
(* kinds of jobs: for the rig's own payout and, in a window of time, for   *)
(* the operator's.                                                         *)
(*                                                                         *)
(* Transactions are numbered in the order in which they come to exist.  A  *)
(* baton is the number of the claim that made it and a proof's digest is   *)
(* the number of its claim, so the rig's list, oldest proof first, is a    *)
(* set ordered by digest.                                                  *)
(***************************************************************************)
EXTENDS Integers, Sequences, FiniteSets, SequencesExt

CONSTANTS
  Coords,      \* the coordinators: 1 is the main one, the others are backups
  MaxWinners,  \* MAX_WINNERS of the rig's file
  MaxQueued,   \* MAX_QUEUED_WINNERS of a coordinator
  LinkCap,     \* bound: frames under way in one direction
  MaxHeight,   \* bound: blocks
  MaxTx,       \* bound: claims, of this rig and of others
  MaxJobs,     \* bound: job changes of all coordinators
  MaxWindows,  \* bound: fee windows of a public pool; 0 if the pools are private
  MaxFaults    \* bound: lost links, unreachable coordinators, failed writes, crashes

ASSUME CoordsGiven == Coords \subseteq Nat \ {0} /\ 1 \in Coords
ASSUME CapsGiven == {MaxWinners, MaxQueued, LinkCap} \subseteq Nat \ {0}
ASSUME BoundsGiven == {MaxHeight, MaxTx, MaxJobs, MaxWindows, MaxFaults} \subseteq Nat

VARIABLES
  tip,      \* the chain's height and baton
  past,     \* every height and baton the chain has had
  txs,      \* transactions so far
  posted,   \* per coordinator: HubState.job
  jobs,     \* job changes so far
  queue,    \* per coordinator: HubState.winners
  window,   \* the fee clock of the rig's connection: "own" or "fee"
  windows,  \* fee windows so far
  sent,     \* the window of the last job sent, or "none" if a job is to be sent
  conn,     \* the rig's coordinator, or 0
  down,     \* frames on their way to the rig: jobs
  up,       \* per coordinator: frames on their way to it: winners
  running,  \* the rig: "on", "crashed" or "failed"
  cur,      \* current_job, or NoJob
  found,    \* winners of the search that are not drained
  paused,   \* whether the search is paused
  mem,      \* PendingWinners.saved
  disk,     \* its file
  proofs,   \* history: the first proof of each work the rig recorded
  dropped,  \* history: proofs the full list let go
  refused,  \* history: digests a coordinator did not queue though they answered
  unsaved,  \* history: proofs that could not be written
  faults

chainVars == <<tip, past, txs>>
hubVars   == <<posted, jobs, queue, refused>>
linkVars  == <<window, windows, sent, conn, down, up>>
rigVars   == <<running, cur, found, paused, mem, disk>>
history   == <<proofs, dropped, unsaved>>
vars == <<chainVars, hubVars, linkVars, rigVars, history, faults>>

NoJob == [gen |-> 0, work |-> [height |-> 0, baton |-> 0, to |-> "own"]]

Init ==
  /\ tip = [height |-> 0, baton |-> 0] /\ past = {tip} /\ txs = 0
  /\ posted = [c \in Coords |-> [gen |-> 1, at |-> tip]] /\ jobs = 0
  /\ queue = [c \in Coords |-> <<>>] /\ refused = {}
  /\ window = "own" /\ windows = 0 /\ sent = "none" /\ conn = 0
  /\ down = <<>> /\ up = [c \in Coords |-> <<>>]
  /\ running = "on" /\ cur = NoJob /\ found = <<>> /\ paused = FALSE
  /\ mem = {} /\ disk = {}
  /\ proofs = {} /\ dropped = {} /\ unsaved = {} /\ faults = 0

Fault == faults < MaxFaults /\ faults' = faults + 1

---------------------------------------------------------------------------
(* The chain.                                                              *)

MoveTip(t) == tip' = t /\ past' = past \cup {t}

Block ==
  /\ tip.height < MaxHeight
  /\ MoveTip([tip EXCEPT !.height = @ + 1])
  /\ UNCHANGED <<txs, hubVars, linkVars, rigVars, history, faults>>

OtherClaims ==
  /\ txs < MaxTx /\ txs' = txs + 1
  /\ MoveTip([tip EXCEPT !.baton = txs'])
  /\ UNCHANGED <<hubVars, linkVars, rigVars, history, faults>>

---------------------------------------------------------------------------
(* A coordinator.                                                          *)

(* RigHub::publish of the supervisor's new job, which may come from a      *)
(* server behind the chain.                                                *)
Publish(c) ==
  /\ jobs < MaxJobs /\ jobs' = jobs + 1
  /\ \E at \in past :
       /\ at # posted[c].at
       /\ posted' = [posted EXCEPT ![c] = [gen |-> @.gen + 1, at |-> at]]
  /\ sent' = IF conn = c THEN "none" ELSE sent
  /\ UNCHANGED <<chainVars, queue, refused, window, windows, conn, down, up, rigVars,
                 history, faults>>

(* FeeClock::window                                                        *)
Window ==
  /\ conn # 0
  /\ \/ window = "own" /\ windows < MaxWindows /\ windows' = windows + 1 /\ window' = "fee"
     \/ window = "fee" /\ window' = "own" /\ UNCHANGED windows
  /\ UNCHANGED <<chainVars, hubVars, sent, conn, down, up, rigVars, history, faults>>

(* rig_job: the job as a rig gets it.                                      *)
RigJob(c, to) ==
  [gen  |-> posted[c].gen,
   work |-> [height |-> posted[c].at.height, baton |-> posted[c].at.baton, to |-> to]]

(* serve_rig: a new version or a change of the fee window is sent.         *)
SendJob ==
  /\ conn # 0 /\ sent # window /\ Len(down) < LinkCap
  /\ down' = Append(down, RigJob(conn, window))
  /\ sent' = window
  /\ UNCHANGED <<chainVars, hubVars, window, windows, conn, up, rigVars, history,
                 faults>>

(* A winner is not queued if its transaction is, be it under an earlier    *)
(* generation, and a full queue turns it away.                             *)
Queue(c, winner) ==
  \/ /\ winner \in ToSet(queue[c]) /\ UNCHANGED <<queue, refused>>
  \/ /\ winner \notin ToSet(queue[c])
     /\ IF Len(queue[c]) < MaxQueued
           /\ \A q \in ToSet(queue[c]) : q.digest # winner.digest
        THEN queue' = [queue EXCEPT ![c] = Append(@, winner)] /\ UNCHANGED refused
        ELSE refused' = refused \cup {winner.digest} /\ UNCHANGED queue

(* serve_rig, WINNER: verify_rig_winner against the job this rig was given *)
(* for the window the winner names.                                        *)
TakeWinner(c) ==
  /\ up[c] # <<>>
  /\ LET winner == Head(up[c]) IN
       IF winner.gen = posted[c].gen /\ winner.work = RigJob(c, winner.work.to).work
       THEN Queue(c, winner)
       ELSE UNCHANGED <<queue, refused>>
  /\ up' = [up EXCEPT ![c] = Tail(@)]
  /\ UNCHANGED <<chainVars, posted, jobs, window, windows, sent, conn, down, rigVars,
                 history, faults>>

(* The first winner that passes the test, as a set of at most one.         *)
FirstOf(winners, Test(_)) ==
  {winners[i] : i \in {k \in DOMAIN winners :
                         Test(winners[k]) /\ \A l \in 1..(k - 1) : ~Test(winners[l])}}

(* The supervisor drains the queue and claims the first winner of the live *)
(* generation; the network takes it if its baton is unspent.               *)
Claim(c) ==
  /\ queue[c] # <<>> /\ queue' = [queue EXCEPT ![c] = <<>>]
  /\ LET mine == FirstOf(queue[c], LAMBDA w : w.gen = posted[c].gen) IN
       \/ \E w \in mine : /\ w.work.baton = tip.baton
                          /\ MoveTip([tip EXCEPT !.baton = w.digest])
       \/ (\A w \in mine : w.work.baton # tip.baton) /\ UNCHANGED <<tip, past>>
  /\ UNCHANGED <<txs, posted, jobs, refused, linkVars, rigVars, history, faults>>

---------------------------------------------------------------------------
(* The rig's file of proofs (PendingWinners).                              *)

Oldest(list) == CHOOSE e \in list : \A f \in list : e.digest <= f.digest

(* Mutant: the list grows without bound.                                  *)
KeepAll(list) == list

Trimmed(list) ==
  IF Cardinality(list) > MaxWinners THEN list \ {Oldest(list)} ELSE list

(* The proof record adds: of this job and generation, and the first one    *)
(* for its work.                                                           *)
New(job, winners) ==
  IF \E e \in mem : e.work = job.work THEN {}
  ELSE {[work |-> job.work, digest |-> w.digest] :
          w \in FirstOf(winners, LAMBDA v : v.gen = job.gen /\ v.work = job.work)}

Noted(new, next) ==
  /\ proofs' = proofs \cup new
  /\ dropped' = dropped \cup ((mem \cup new) \ next)

(* record and commit.                                                      *)
Records(job, winners) ==
  LET new == New(job, winners) IN
  IF new = {}
  THEN UNCHANGED <<mem, disk, history>>
  ELSE /\ mem' = Trimmed(mem \cup new) /\ disk' = mem'
       /\ Noted(new, mem') /\ UNCHANGED unsaved

(* The write fails, or the sync after the file was replaced.               *)
RecordFails(job, winners) ==
  LET new  == New(job, winners)
      next == Trimmed(mem \cup new)
  IN  /\ new # {} /\ mem' = mem /\ disk' \in {disk, next}
      /\ Noted(new, next) /\ unsaved' = unsaved \cup new

(* Mutant: every other baton retires a proof.                              *)
RetainedForBaton(job) == {e \in mem : e.work.baton = job.work.baton}

(* for_job: a job on the proof's own claim, or another baton at a higher   *)
(* tip, retires a proof.                                                   *)
Retained(job) ==
  {e \in mem : /\ e.digest # job.work.baton
               /\ e.work.height >= job.work.height \/ e.work.baton = job.work.baton}

---------------------------------------------------------------------------
(* The rig (run_rig).                                                      *)

(* The session and its search end; frames not received yet may be lost.    *)
Hangup ==
  /\ conn' = 0 /\ sent' = "none" /\ down' = <<>> /\ UNCHANGED <<window, windows>>
  /\ \E k \in 0..Len(up[conn]) : up' = [up EXCEPT ![conn] = SubSeq(@, 1, k)]
  /\ cur' = NoJob /\ found' = <<>> /\ paused' = FALSE

(* connect_first: a backup only when those before it do not answer.        *)
Connect(c) ==
  /\ running = "on" /\ conn = 0
  /\ IF c = 1 THEN UNCHANGED faults ELSE Fault
  /\ conn' = c
  /\ UNCHANGED <<chainVars, hubVars, window, windows, sent, down, up, rigVars, history>>

(* Mutant: winners are sent only when they are found.                      *)
SendOnce(job, list) == up' = up /\ paused' = FALSE

(* The saved proof for the job's work goes out under the job's generation; *)
(* the list has one for a work.                                            *)
Resend(job, list) ==
  \/ \E e \in list :
       /\ e.work = job.work /\ paused' = TRUE
       /\ LET again == [gen |-> job.gen, work |-> e.work, digest |-> e.digest]
          IN  up' = [up EXCEPT ![conn] = Append(@, again)]
  \/ (\A e \in list : e.work # job.work) /\ up' = up /\ paused' = FALSE

(* A job comes: retire, send the saved proof again, replace the search.    *)
ReceiveJob ==
  /\ running = "on" /\ conn # 0 /\ down # <<>> /\ Len(up[conn]) < LinkCap
  /\ LET job == Head(down) IN
       /\ mem' = Retained(job)
       /\ disk' = IF mem' = mem THEN disk ELSE mem'
       /\ Resend(job, mem') /\ cur' = job
  /\ down' = Tail(down)
  /\ UNCHANGED <<chainVars, hubVars, window, windows, sent, conn, running, found,
                 history, faults>>

(* The file was replaced by the one without the proofs that job retires,   *)
(* then the sync failed; the drained winners could not be written either,  *)
(* if there were any.                                                      *)
OnlyRetired(job) ==
  LET new == New(cur, found) IN
  /\ mem' = mem /\ disk' = Retained(job)
  /\ Noted(new, Trimmed(mem \cup new)) /\ unsaved' = unsaved \cup new

(* The list without the retired proofs cannot be written: the search is    *)
(* drained, its winners recorded or not, and the rig stops.                *)
ReceiveFails ==
  /\ running = "on" /\ conn # 0 /\ down # <<>> /\ Fault
  /\ Retained(Head(down)) # mem
  /\ Records(cur, found) \/ RecordFails(cur, found) \/ OnlyRetired(Head(down))
  /\ Hangup /\ running' = "failed"
  /\ UNCHANGED <<chainVars, hubVars>>

(* A GPU finds a winner and pauses the search; batches of other GPUs may   *)
(* still end with one.                                                     *)
Find ==
  /\ running = "on" /\ cur # NoJob /\ (~paused \/ found # <<>>)
  /\ txs < MaxTx /\ txs' = txs + 1
  /\ found' = Append(found, [gen |-> cur.gen, work |-> cur.work, digest |-> txs'])
  /\ paused' = TRUE
  /\ UNCHANGED <<tip, past, hubVars, linkVars, running, cur, mem, disk, history,
                 faults>>

(* Winners are saved first and then sent, also when they are not saved.    *)
Drain ==
  /\ running = "on" /\ conn # 0 /\ found # <<>> /\ Len(up[conn]) < LinkCap
  /\ Records(cur, found)
  /\ up' = [up EXCEPT ![conn] = @ \o found] /\ found' = <<>>
  /\ UNCHANGED <<chainVars, hubVars, window, windows, sent, conn, down, running,
                 cur, paused, faults>>

DrainUnsaved ==
  /\ running = "on" /\ conn # 0 /\ found # <<>> /\ Fault
  /\ RecordFails(cur, found)
  /\ up' = [up EXCEPT ![conn] = @ \o found]
  /\ conn' = 0 /\ sent' = "none" /\ down' = <<>>
  /\ cur' = NoJob /\ found' = <<>> /\ paused' = FALSE /\ running' = "failed"
  /\ UNCHANGED <<chainVars, hubVars, window, windows>>

(* The link fails before the winners are sent: the error of the send comes *)
(* before the error of the save, and the rig goes on.                      *)
DrainCutOff ==
  /\ running = "on" /\ conn # 0 /\ found # <<>> /\ Fault
  /\ RecordFails(cur, found)
  /\ Hangup
  /\ UNCHANGED <<chainVars, hubVars, running>>

(* No new job came for 20 seconds.                                         *)
Resume ==
  /\ running = "on" /\ conn # 0 /\ paused /\ found = <<>>
  /\ paused' = FALSE
  /\ UNCHANGED <<chainVars, hubVars, linkVars, running, cur, found, mem, disk,
                 history, faults>>

(* The link fails, or the rig cannot mine the job: stop_and_drain.         *)
LinkFails ==
  /\ running = "on" /\ conn # 0
  /\ \/ Fault /\ Records(cur, found) /\ UNCHANGED running
     \/ Fault /\ RecordFails(cur, found) /\ running' = "failed"
  /\ Hangup
  /\ UNCHANGED <<chainVars, hubVars>>

Crash ==
  /\ running = "on" /\ Fault /\ running' = "crashed"
  /\ IF conn # 0 THEN Hangup ELSE UNCHANGED <<linkVars, cur, found, paused>>
  /\ mem' = {}
  /\ UNCHANGED <<chainVars, hubVars, disk, history>>

(* PendingWinners::open.                                                   *)
Restart ==
  /\ running # "on" /\ running' = "on" /\ mem' = disk
  /\ UNCHANGED <<chainVars, hubVars, linkVars, cur, found, paused, disk, history,
                 faults>>

RigStep == \/ ReceiveJob \/ ReceiveFails \/ Find \/ Drain \/ DrainUnsaved
           \/ DrainCutOff \/ Resume \/ LinkFails \/ Crash \/ Restart

Next == \/ Block \/ OtherClaims \/ Window \/ SendJob \/ RigStep
        \/ \E c \in Coords : Publish(c) \/ TakeWinner(c) \/ Claim(c) \/ Connect(c)

Spec == Init /\ [][Next]_vars

(* Threads run, frames of a link that holds arrive, the supervisor takes   *)
(* up winners and a stopped rig is started again.  Nothing makes a job     *)
(* change, a winner turn up or a link fail.                                *)
Fairness ==
  /\ WF_vars(SendJob) /\ WF_vars(ReceiveJob) /\ WF_vars(Drain)
  /\ WF_vars(Restart) /\ WF_vars(Connect(1))
  /\ \A c \in Coords : WF_vars(TakeWinner(c)) /\ WF_vars(Claim(c))

FairSpec == Spec /\ Fairness
---------------------------------------------------------------------------
Place == [height : Nat, baton : Nat]
Work == [height : Nat, baton : Nat, to : {"own", "fee"}]
Job == [gen : Nat, work : Work]
Winner == [gen : Nat, work : Work, digest : Nat]
Proof == [work : Work, digest : Nat]

(* Types; the file holds at most MAX_WINNERS proofs, and one for a work:   *)
(* "a lost reply must not duplicate or rewrite a proof".                   *)
TypeOK ==
  /\ tip \in Place /\ past \subseteq Place /\ txs \in Nat /\ jobs \in Nat
  /\ posted \in [Coords -> [gen : Nat, at : Place]]
  /\ queue \in [Coords -> Seq(Winner)] /\ up \in [Coords -> Seq(Winner)]
  /\ window \in {"own", "fee"} /\ windows \in Nat
  /\ sent \in {"none", "own", "fee"} /\ conn \in Coords \cup {0}
  /\ down \in Seq(Job) /\ running \in {"on", "crashed", "failed"}
  /\ cur \in Job /\ found \in Seq(Winner) /\ paused \in BOOLEAN
  /\ {mem, disk, proofs, dropped, unsaved} \subseteq SUBSET Proof
  /\ refused \subseteq Nat /\ faults \in Nat
  /\ \A list \in {mem, disk} :
       /\ Cardinality(list) <= MaxWinners
       /\ \A e, f \in list : e.work = f.work => e = f

(* A proof for a baton nobody has spent is in the file through             *)
(* disconnections, crashes, failover and coordinators behind the chain,    *)
(* unless the full list let it go or it could not be written.              *)
ProofIsKept ==
  \A e \in proofs \ (dropped \cup unsaved) : e.work.baton = tip.baton => e \in disk

(* What a full list lets go is spent: "Each newer proof spends a later     *)
(* baton, so the oldest are the ones already spent" (record).              *)
DroppedIsSpent ==
  \A e \in dropped : e.work.baton # tip.baton

(* A saved proof that answers the live job of the rig's coordinator does   *)
(* not wait for ever: it is claimed, or another claim comes first, unless  *)
(* the coordinator turned it away once, its queue full or holding the same *)
(* proof for an earlier generation.                                        *)
Waits(d) ==
  /\ running = "on" /\ conn # 0 /\ d \notin refused
  /\ \E e \in mem : e.digest = d /\ e.work.baton = tip.baton
                    /\ e.work = RigJob(conn, window).work

Delivered == \A d \in 1..MaxTx : Waits(d) ~> ~Waits(d)
=============================================================================
