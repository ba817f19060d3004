----------------------------- MODULE Supervisor -----------------------------
(***************************************************************************)
(* The live supervisor thread (run_supervisor in runtime.rs) beside the    *)
(* GPU threads (run_worker in search.rs) and the rig hub.                  *)
(*                                                                         *)
(* GPU threads find winners at any time.  They pause the whole search,     *)
(* queue the winner and then count it; the supervisor compares its own     *)
(* count of acknowledged winners with theirs, drains the queue, journals   *)
(* one winner of the current generation and submits it, while the GPUs     *)
(* already mine the baton it makes.  Operator commands, lost sessions,     *)
(* other miners and the shutdown come in between.                          *)
(*                                                                         *)
(* A generation is a number: every change of the work raises it, so it     *)
(* stands for the job.  What one submission does to files and network is   *)
(* the subject of ClaimJournal; here it ends in one of its outcomes.       *)
(***************************************************************************)
EXTENDS Integers, Sequences, FiniteSets

CONSTANTS
  Gpus,        \* the GPU worker threads
  Rigs,        \* whether rigs are connected
  QueueCap,    \* WINNER_CHANNEL_CAP
  DiskFails,   \* whether the write of a journal may fail
  MaxGen,      \* bound: the last generation in which anything new happens
  MaxFound,    \* bound: winners the GPUs find
  MaxFaults    \* bound: failed steps, lost sessions, manual reconnections

ASSUME GpusFinite == IsFiniteSet(Gpus)
ASSUME QueueHoldsOne == QueueCap \in Nat \ {0}
ASSUME BoundsCount == MaxGen \in Nat \ {0} /\ MaxFound \in Nat /\ MaxFaults \in Nat
ASSUME Switches == Rigs \in BOOLEAN /\ DiskFails \in BOOLEAN

NoGen == 0

VARIABLES
  stage,      \* a GPU thread: "idle", "batch", "found", "queued", "counted"
  gpuGen,     \* the generation a GPU thread works on
  paused,     \* SharedControl.paused
  queue,      \* the winner channel: the generation of each winner
  found,      \* the GPU threads' count of queued winners
  rigWinner,  \* the generation of a checked rig winner, or NoGen
  published,  \* the generation the rigs work on
  at,         \* where in its loop the supervisor is
  gen,        \* cfg.generation_id: the generation of the live job
  session,    \* a job source is connected
  moved,      \* the network's job is no longer the live one
  observed,   \* observed_search_winners
  refreshing, \* winner_refresh_pending
  pending,    \* pending_winners
  held,       \* pending_winner: its generation, or NoGen
  submitting, \* pending_submission: its generation, or NoGen
  successor,  \* successor_parent: the claim whose baton was taken up
  journal,    \* the journal file: the generation of its claim, or NoGen
  userPaused,
  shutdown,   \* ShutdownSignal
  faults

gpuVars   == <<stage, gpuGen, queue, found>>
rigVars   == <<rigWinner, published>>
linkVars  == <<session, moved>>
ackVars   == <<observed, refreshing, pending>>
claimVars == <<held, submitting, successor, journal>>
userVars  == <<userPaused, shutdown>>
vars == <<gpuVars, paused, rigVars, at, gen, linkVars, ackVars, claimVars,
          userVars, faults>>

Init ==
  /\ stage = [g \in Gpus |-> "idle"] /\ gpuGen = [g \in Gpus |-> 1]
  /\ paused = FALSE /\ queue = <<>> /\ found = 0
  /\ rigWinner = NoGen /\ published = 1
  /\ at = "top" /\ gen = 1 /\ session = TRUE /\ moved = FALSE
  /\ observed = 0 /\ refreshing = FALSE /\ pending = 0
  /\ held = NoGen /\ submitting = NoGen /\ successor = NoGen /\ journal = NoGen
  /\ userPaused = FALSE /\ shutdown = FALSE
  /\ faults = 0

Fault == faults < MaxFaults /\ faults' = faults + 1

---------------------------------------------------------------------------
(* The GPU threads.                                                        *)

(* A thread takes the newest job of its mailbox at a batch boundary, and   *)
(* starts a batch unless the search is paused.                             *)
Launch(g) ==
  /\ stage[g] = "idle" /\ ~paused /\ at # "stopped"
  /\ stage' = [stage EXCEPT ![g] = "batch"]
  /\ gpuGen' = [gpuGen EXCEPT ![g] = gen]
  /\ UNCHANGED <<paused, queue, found, rigVars, at, gen, linkVars, ackVars,
                 claimVars, userVars, faults>>

Room == found + Cardinality({g \in Gpus : stage[g] \in {"found", "queued"}}) < MaxFound

(* deliver_verified_batch, in the order in which its effects show: pause   *)
(* the search, queue a winner, count it; the next winner of the batch; and *)
(* batch_in_flight is cleared last.                                        *)
Find(g) ==
  /\ stage[g] = "batch" /\ gpuGen[g] <= MaxGen /\ Room
  /\ stage' = [stage EXCEPT ![g] = "found"]
  /\ paused' = TRUE
  /\ UNCHANGED <<gpuGen, queue, found, rigVars, at, gen, linkVars, ackVars,
                 claimVars, userVars, faults>>

(* Mutant: the channel has no bound.                                       *)
QueueAlways(g) ==
  /\ stage[g] = "found"
  /\ queue' = Append(queue, gpuGen[g])
  /\ stage' = [stage EXCEPT ![g] = "queued"]
  /\ UNCHANGED <<gpuGen, found, paused, rigVars, at, gen, linkVars, ackVars,
                 claimVars, userVars, faults>>

(* A full channel already holds winners of the job, and drops this one.    *)
QueueWinner(g) ==
  /\ stage[g] = "found"
  /\ \/ /\ Len(queue) < QueueCap
        /\ queue' = Append(queue, gpuGen[g])
        /\ stage' = [stage EXCEPT ![g] = "queued"]
     \/ /\ Len(queue) = QueueCap
        /\ stage' = [stage EXCEPT ![g] = "counted"]
        /\ UNCHANGED queue
  /\ UNCHANGED <<gpuGen, found, paused, rigVars, at, gen, linkVars, ackVars,
                 claimVars, userVars, faults>>

CountWinner(g) ==
  /\ stage[g] = "queued"
  /\ \/ stage' = [stage EXCEPT ![g] = "counted"]
     \/ /\ Room
        /\ stage' = [stage EXCEPT ![g] = "found"]
  /\ found' = found + 1
  /\ UNCHANGED <<gpuGen, queue, paused, rigVars, at, gen, linkVars, ackVars,
                 claimVars, userVars, faults>>

(* batch_in_flight: FALSE.                                                 *)
EndBatch(g) ==
  /\ stage[g] \in {"batch", "counted"}
  /\ stage' = [stage EXCEPT ![g] = "idle"]
  /\ UNCHANGED <<gpuGen, queue, found, paused, rigVars, at, gen, linkVars,
                 ackVars, claimVars, userVars, faults>>

BatchInFlight == \E g \in Gpus : stage[g] # "idle"

(* The hub checked a rig's winner of the published job.                    *)
RigFinds ==
  /\ Rigs /\ rigWinner = NoGen /\ published <= MaxGen /\ at # "stopped"
  /\ rigWinner' = published
  /\ UNCHANGED <<gpuVars, paused, published, at, gen, linkVars, ackVars,
                 claimVars, userVars, faults>>

(* Another miner's claim, or a block that changes the baton's age.         *)
JobMoves ==
  /\ ~moved /\ gen <= MaxGen /\ at # "stopped"
  /\ moved' = TRUE
  /\ UNCHANGED <<gpuVars, paused, rigVars, at, gen, session, ackVars,
                 claimVars, userVars, faults>>

---------------------------------------------------------------------------
(* The supervisor: operator commands, handled at the top of its loop.      *)

(* Mutant: a winner in hand does not keep the search paused.               *)
ResumeUnlessUser(p) == ~shutdown /\ ~userPaused

ResumeAllowed(p) == ~shutdown /\ ~userPaused /\ p = 0

ResumeIfAllowed(p) == paused' = IF ResumeAllowed(p) THEN FALSE ELSE paused

Pause ==
  /\ at = "top"
  /\ userPaused' = TRUE /\ paused' = TRUE
  /\ UNCHANGED <<gpuVars, rigVars, at, gen, linkVars, ackVars, claimVars,
                 shutdown, faults>>

(* resume_search_if_safe.                                                  *)
Resume ==
  /\ at = "top"
  /\ ~shutdown /\ session /\ pending = 0 /\ found <= observed
  /\ userPaused' = FALSE /\ paused' = FALSE
  /\ UNCHANGED <<gpuVars, rigVars, at, gen, linkVars, ackVars, claimVars,
                 shutdown, faults>>

(* Mutant: the new job is not refused beside a journal.                    *)
SetPayoutUnprobed ==
  /\ at = "top" /\ pending = 0 /\ gen <= MaxGen
  /\ gen' = gen + 1
  /\ UNCHANGED <<gpuVars, paused, rigVars, at, linkVars, ackVars, claimVars,
                 userVars, faults>>

(* A payout change restamps the live job.  The preflight refuses it beside *)
(* a journal.                                                              *)
SetPayout ==
  /\ at = "top" /\ pending = 0 /\ gen <= MaxGen
  /\ journal = NoGen
  /\ gen' = gen + 1
  /\ UNCHANGED <<gpuVars, paused, rigVars, at, linkVars, ackVars, claimVars,
                 userVars, faults>>

(* An endpoint change does the same and drops the session.                 *)
SetFulcrum ==
  /\ at = "top" /\ pending = 0 /\ gen <= MaxGen
  /\ journal = NoGen
  /\ gen' = gen + 1 /\ session' = FALSE
  /\ UNCHANGED <<gpuVars, paused, rigVars, at, moved, ackVars, claimVars,
                 userVars, faults>>

(* A manual reconnection; the bound on faults counts it.                   *)
DropSession ==
  /\ at = "top" /\ pending = 0
  /\ Fault /\ session' = FALSE
  /\ UNCHANGED <<gpuVars, paused, rigVars, at, gen, moved, ackVars, claimVars,
                 userVars>>

(* ShutdownSignal::request, from any thread: it pauses the search at once. *)
Stop ==
  /\ at # "stopped" /\ ~shutdown
  /\ shutdown' = TRUE /\ paused' = TRUE
  /\ UNCHANGED <<gpuVars, rigVars, at, gen, linkVars, ackVars, claimVars,
                 userPaused, faults>>

---------------------------------------------------------------------------
(* The supervisor: one turn of its loop.                                   *)

BeginLoop ==
  /\ at = "top" /\ at' = "check"
  /\ userPaused' = (userPaused \/ shutdown)
  /\ paused' = (paused \/ shutdown)
  /\ UNCHANGED <<gpuVars, rigVars, gen, linkVars, ackVars, claimVars, shutdown,
                 faults>>

(* Mutant: one winner more must be counted.                                *)
TwoWinnersWait == found > observed + 1 \/ rigWinner # NoGen

WinnerWaits == found > observed \/ rigWinner # NoGen

(* should_begin_winner_refresh reads the winner counts.                    *)
CheckWinners ==
  /\ at = "check" /\ at' = "exit"
  /\ IF WinnerWaits /\ ~refreshing /\ held = NoGen /\ submitting = NoGen
       THEN refreshing' = TRUE /\ pending' = 1 /\ paused' = TRUE
       ELSE UNCHANGED <<refreshing, pending, paused>>
  /\ UNCHANGED <<gpuVars, rigVars, gen, linkVars, observed, claimVars, userVars,
                 faults>>

(* shutdown_can_exit reads batch_in_flight after that.  SearchHandle::stop *)
(* ends the GPU threads and drops the channel.                             *)
ExitTest ==
  /\ at = "exit"
  /\ at' = IF shutdown /\ held = NoGen /\ ~refreshing /\ ~BatchInFlight
             THEN "stopped" ELSE "act"
  /\ UNCHANGED <<gpuVars, paused, rigVars, gen, linkVars, ackVars, claimVars,
                 userVars, faults>>

(* The turn ends: the rigs get the generation this miner mines.            *)
EndLoop == at' = "top" /\ published' = gen'

(* Nothing is due yet.  A forced refresh is always due.                    *)
Wait ==
  /\ at \in {"act", "attempt"}
  /\ ~(at = "act" /\ session /\ refreshing /\ held = NoGen /\ submitting = NoGen)
  /\ at = "act" /\ session /\ held = NoGen => submitting = NoGen
  /\ UNCHANGED <<gpuVars, paused, rigWinner, gen, linkVars, ackVars, claimVars,
                 userVars, faults>>
  /\ EndLoop

(* No claim is open: a ready node may take over.                           *)
Safe == session /\ pending = 0 /\ held = NoGen /\ submitting = NoGen /\ ~refreshing

(* apply_refreshed_job on the network's job: a changed one becomes the     *)
(* next generation, which the preflight refuses beside a journal.          *)
Applicable == moved => journal = NoGen
ApplyJob   == gen' = (IF moved THEN gen + 1 ELSE gen) /\ moved' = FALSE

(* A new session.  An open submission comes first; else the job is applied.*)
Reconnect ==
  /\ at = "act" /\ (~session \/ Safe)
  /\ \/ /\ submitting # NoGen
        /\ session' = TRUE /\ UNCHANGED <<gen, moved, paused>>
     \/ /\ submitting = NoGen /\ Applicable
        /\ session' = TRUE /\ ApplyJob /\ ResumeIfAllowed(pending)
     \/ /\ submitting = NoGen /\ ~Applicable
        /\ session' = FALSE /\ UNCHANGED <<gen, moved, paused>>
  /\ UNCHANGED <<gpuVars, rigWinner, ackVars, claimVars, userVars, faults>>
  /\ EndLoop

(* No source answers, or the job cannot be installed; the fee check of     *)
(* apply_refreshed_job pauses the search when it fails.                    *)
SessionFails ==
  /\ at = "act" /\ held = NoGen /\ submitting = NoGen
  /\ Fault /\ session' = FALSE /\ paused' \in {paused, TRUE}
  /\ UNCHANGED <<gpuVars, rigWinner, gen, moved, ackVars, claimVars, userVars>>
  /\ EndLoop

(* The winner that could not be journaled is tried again.  It is refused   *)
(* for ever once its generation is over.                                   *)
PrepareHeld ==
  /\ at = "act" /\ session /\ held # NoGen
  /\ \/ /\ held = gen
        /\ submitting' = held /\ held' = NoGen /\ journal' = held
        /\ UNCHANGED faults
     \/ /\ held # gen /\ UNCHANGED <<held, submitting, journal, faults>>
     \/ /\ held = gen /\ DiskFails /\ Fault
        /\ journal' \in {journal, held} /\ UNCHANGED <<held, submitting>>
  /\ UNCHANGED <<gpuVars, paused, rigWinner, gen, linkVars, ackVars, successor,
                 userVars>>
  /\ EndLoop

(* begin_successor_generation, once per claim: the GPUs turn to the baton  *)
(* the claim makes, unless the new job cannot be installed.                *)
BeginSuccessor ==
  /\ at = "act" /\ session /\ held = NoGen /\ submitting # NoGen
  /\ at' = "attempt" /\ successor' = submitting
  /\ \/ /\ successor # submitting /\ submitting = gen
        /\ gen' = gen + 1
        /\ pending' = IF ResumeAllowed(0) THEN 0 ELSE pending
        /\ ResumeIfAllowed(0)
        /\ UNCHANGED faults
     \/ /\ successor # submitting /\ Fault /\ UNCHANGED <<gen, pending, paused>>
     \/ /\ successor = submitting /\ UNCHANGED <<gen, pending, paused, faults>>
  /\ UNCHANGED <<gpuVars, rigVars, linkVars, observed, refreshing, held,
                 submitting, journal, userVars>>

(* Mutant: a stale claim leaves its journal behind.                        *)
AttemptResolvesInMemory ==
  /\ at = "attempt"
  /\ submitting' = NoGen /\ pending' = 0
  /\ gen' = (IF moved \/ submitting = gen THEN gen + 1 ELSE gen)
  /\ moved' = FALSE
  /\ ResumeIfAllowed(0)
  /\ UNCHANGED <<gpuVars, rigWinner, session, observed, refreshing, held,
                 successor, journal, userVars, faults>>
  /\ EndLoop

(* The attempt ends the claim, confirmed or stale, and the network's job   *)
(* is installed: the claim's own baton, or another miner's.  If that fails *)
(* the session is dropped and the job stays behind.                        *)
AttemptResolves ==
  /\ at = "attempt"
  /\ submitting' = NoGen /\ journal' = NoGen /\ pending' = 0
  /\ LET stale == moved \/ submitting = gen
     IN  \/ /\ gen' = (IF stale THEN gen + 1 ELSE gen)
            /\ moved' = FALSE
            /\ ResumeIfAllowed(0)
            /\ UNCHANGED <<session, faults>>
         \/ /\ Fault /\ session' = FALSE /\ moved' = stale
            /\ paused' \in {paused, TRUE} /\ UNCHANGED gen
  /\ UNCHANGED <<gpuVars, rigWinner, observed, refreshing, held, successor,
                 userVars>>
  /\ EndLoop

(* The attempt fails: the search is paused and the session dropped.        *)
AttemptFails ==
  /\ at = "attempt"
  /\ Fault /\ session' = FALSE /\ paused' = TRUE
  /\ UNCHANGED <<gpuVars, rigWinner, gen, moved, ackVars, claimVars, userVars>>
  /\ EndLoop

(* Mutant: the counter's value is acknowledged, not what was drained.      *)
AcknowledgeCounter == found

(* acknowledge_drained.                                                    *)
AcknowledgeDrained == observed + Len(queue)

(* What a drain of both queues yields.                                     *)
Drained == {queue[i] : i \in 1..Len(queue)} \cup ({rigWinner} \ {NoGen})

DrainQueues ==
  /\ queue' = <<>> /\ rigWinner' = NoGen
  /\ observed' = AcknowledgeDrained
  /\ UNCHANGED <<stage, gpuGen, found>>

(* Mutant: the request to drain is not taken back.                         *)
DrainForEver ==
  /\ at = "act" /\ session /\ refreshing /\ held = NoGen /\ submitting = NoGen
  /\ DrainQueues
  /\ gen \notin Drained
  /\ pending' = 0 /\ ResumeIfAllowed(0)
  /\ UNCHANGED <<gen, linkVars, refreshing, claimVars, userVars, faults>>
  /\ EndLoop

(* Mutant: the search stays paused for stale winners.                      *)
DrainStaysPaused ==
  /\ at = "act" /\ session /\ refreshing /\ held = NoGen /\ submitting = NoGen
  /\ DrainQueues
  /\ refreshing' = FALSE
  /\ gen \notin Drained
  /\ UNCHANGED <<gen, paused, pending, linkVars, claimVars, userVars, faults>>
  /\ EndLoop

(* The forced refresh drains the queues and finds no winner of the live    *)
(* generation: all are stale, or the relay fee has just changed the job.   *)
DrainStale ==
  /\ at = "act" /\ session /\ refreshing /\ held = NoGen /\ submitting = NoGen
  /\ DrainQueues
  /\ refreshing' = FALSE
  /\ \/ gen \notin Drained /\ gen' = gen
     \/ gen <= MaxGen /\ gen' = gen + 1
  /\ pending' = 0 /\ ResumeIfAllowed(0)
  /\ UNCHANGED <<linkVars, claimVars, userVars, faults>>
  /\ EndLoop

(* The forced refresh journals one winner of the live generation; the      *)
(* others are dropped with it, for only one claim can spend the baton.     *)
(* If the journal cannot be written the winner is held in memory.          *)
DrainClaim ==
  /\ at = "act" /\ session /\ refreshing /\ held = NoGen /\ submitting = NoGen
  /\ DrainQueues
  /\ refreshing' = FALSE /\ pending' = 1 /\ paused' = TRUE
  /\ gen \in Drained
  /\ \/ /\ submitting' = gen /\ journal' = gen
        /\ UNCHANGED <<held, session, faults>>
     \/ /\ DiskFails /\ Fault
        /\ held' = gen /\ session' = FALSE
        /\ journal' \in {journal, gen} /\ UNCHANGED submitting
  /\ UNCHANGED <<gen, moved, successor, userVars>>
  /\ EndLoop

(* The refresh on the cadence.                                             *)
Refresh ==
  /\ at = "act" /\ session /\ ~refreshing /\ held = NoGen /\ submitting = NoGen
  /\ moved /\ Applicable /\ ApplyJob
  /\ ResumeIfAllowed(pending)
  /\ UNCHANGED <<gpuVars, rigWinner, session, ackVars, claimVars, userVars,
                 faults>>
  /\ EndLoop

Commands == Pause \/ Resume \/ SetPayout \/ SetFulcrum \/ DropSession \/ Stop

Turn ==
  \/ BeginLoop \/ CheckWinners \/ ExitTest
  \/ Wait \/ Reconnect \/ SessionFails \/ PrepareHeld \/ BeginSuccessor
  \/ AttemptResolves \/ AttemptFails \/ DrainStale \/ DrainClaim \/ Refresh

GpuWorks(g) == QueueWinner(g) \/ CountWinner(g) \/ EndBatch(g)

Stopped == at = "stopped" /\ UNCHANGED vars

Next ==
  \/ \E g \in Gpus : Launch(g) \/ Find(g) \/ GpuWorks(g)
  \/ RigFinds \/ JobMoves
  \/ Commands
  \/ Turn
  \/ Stopped

Spec == Init /\ [][Next]_vars

(* Both kinds of threads keep running and batches end.  Every deadline of  *)
(* the loop passes in the end, so that what may have to wait (a new        *)
(* session, a retry, an attempt that resolves the claim, the cadence) is   *)
(* not put off for ever.                                                   *)
Fairness ==
  /\ WF_vars(Turn)
  /\ \A g \in Gpus : WF_vars(GpuWorks(g))
  /\ SF_vars(Reconnect)
  /\ SF_vars(PrepareHeld)
  /\ SF_vars(AttemptResolves)

FairSpec == Spec /\ Fairness

---------------------------------------------------------------------------
(* Properties.                                                             *)

Gens == 1..(MaxGen + 2)

(* Types; the channel never holds more than its capacity.                  *)
TypeOK ==
  /\ stage \in [Gpus -> {"idle", "batch", "found", "queued", "counted"}]
  /\ gpuGen \in [Gpus -> Gens] /\ gen \in Gens /\ published \in Gens
  /\ queue \in Seq(Gens) /\ Len(queue) <= QueueCap
  /\ found \in Nat /\ observed \in Nat
  /\ {rigWinner, held, submitting, successor, journal} \subseteq Gens \cup {NoGen}
  /\ at \in {"top", "check", "exit", "act", "attempt", "stopped"}
  /\ {paused, session, moved, refreshing, userPaused, shutdown} \subseteq BOOLEAN
  /\ pending \in {0, 1} /\ faults \in 0..MaxFaults

(* No queued winner is acknowledged unseen: the supervisor has             *)
(* acknowledged exactly the winners that left the channel, whatever GPU    *)
(* threads do between its reads (PR #35, acknowledge_drained).             *)
WinnersAccounted ==
  observed + Len(queue) = found + Cardinality({g \in Gpus : stage[g] = "queued"})

(* From the moment a winner is noticed until its claim is journaled, no    *)
(* GPU starts another batch, whatever commands and reconnections come in   *)
(* between (search_resume_allowed, resume_search_if_safe).                 *)
HeldWhilePending ==
  refreshing \/ held # NoGen => paused

(* The journal on disk is the one of the claim in memory.  A journal       *)
(* nobody works on would make the preflight refuse every later job.        *)
JournalIsOwned ==
  journal # NoGen => journal \in {submitting, held}

(* While a claim is open the job changes only to the baton it makes:       *)
(* payout, endpoint, refresh and reconnection leave it alone.              *)
JobKeptWhileClaiming ==
  [][submitting # NoGen /\ submitting' = submitting /\ gen' # gen
       => gen = submitting /\ gen' = submitting + 1]_vars

(* A winner whose journal could not be written waits in memory; it keeps   *)
(* the search paused, and a new generation strands it there.               *)
Unjournaled == held # NoGen

(* Every winner the GPUs counted is drained in the end.                    *)
WinnersHandled ==
  found > observed ~> (found <= observed \/ at = "stopped" \/ Unjournaled)

(* The search does not stay paused unless the operator asked for it or a   *)
(* journal could not be written.                                           *)
MiningResumes ==
  paused ~> (~paused \/ userPaused \/ shutdown \/ Unjournaled)

(* A requested shutdown comes to an end.                                   *)
ShutdownEnds ==
  shutdown ~> (at = "stopped" \/ Unjournaled)

(* The search resumes also when a journal could not be written: "Match     *)
(* the winner against the current job without another round trip; a stale  *)
(* claim resolves through its journal."                                    *)
HeldResolves ==
  Unjournaled ~> (~Unjournaled \/ userPaused \/ shutdown)

(* Shutdown loses no winner of the live generation: "Reports whether       *)
(* shutdown may finish without losing a pending winner" says               *)
(* shutdown_can_exit.                                                      *)
ShutdownKeepsWinners ==
  at = "stopped" => gen \notin Drained

(* A payout change does not turn a verified winner of the live job stale:  *)
(* SetPayout is "unavailable while a verified winner is pending".          *)
PayoutKeepsWinners ==
  [][SetPayout => gen \notin Drained]_vars

===========================================================================
