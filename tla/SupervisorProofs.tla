-------------------------- MODULE SupervisorProofs --------------------------
(***************************************************************************)
(* For any set of GPUs and any bounds: the supervisor's types, the count   *)
(* of its winners, the pause while a winner waits, the owner of a journal, *)
(* and the job under an open claim.                                        *)
(***************************************************************************)
EXTENDS Supervisor, FiniteSetTheorems, TLAPS

(* Nothing new happens beyond generation MaxGen: winners, held or queued,  *)
(* are of earlier ones, and a job that moved is taken up once more.        *)
Bounded ==
  /\ moved => gen <= MaxGen + 1
  /\ \A i \in 1..Len(queue) : queue[i] <= MaxGen
  /\ rigWinner <= MaxGen /\ held <= MaxGen /\ submitting <= MaxGen
  /\ \A g \in Gpus : stage[g] \in {"found", "queued"} => gpuGen[g] <= MaxGen

(* A winner is in one place at a time: noticed, held or submitted.  Until  *)
(* it is submitted pending_winners says so, and then its journal is there. *)
OneOwner ==
  /\ held # NoGen => submitting = NoGen
  /\ held # NoGen \/ submitting # NoGen => ~refreshing
  /\ at = "attempt" => submitting # NoGen
  /\ refreshing \/ held # NoGen => pending = 1
  /\ submitting # NoGen => journal = submitting

(* The Boolean part of TypeOK.                                             *)
FlagsOK == {paused, session, moved, refreshing, userPaused, shutdown} \subseteq BOOLEAN

(* The inductive invariant.                                                *)
IInv ==
  /\ TypeOK /\ Bounded /\ OneOwner
  /\ HeldWhilePending /\ JournalIsOwned

---------------------------------------------------------------------------
LEMMA InitIInv == ASSUME Init PROVE IInv
  <1> USE QueueHoldsOne, BoundsCount DEF Init, NoGen
  <1>b. FlagsOK
    BY Zenon DEF FlagsOK
  <1>1. TypeOK
    BY <1>b DEF TypeOK, FlagsOK, Gens
  <1>2. Bounded /\ OneOwner
    BY DEF Bounded, OneOwner
  <1>3. HeldWhilePending /\ JournalIsOwned
    BY DEF HeldWhilePending, JournalIsOwned
  <1> QED
    BY <1>1, <1>2, <1>3 DEF IInv

LEMMA FaultCounted ==
  ASSUME TypeOK, faults' = faults \/ Fault PROVE faults' \in 0..MaxFaults
  BY BoundsCount DEF TypeOK, Fault

(* The channel's winners are of the past.                                  *)
LEMMA DrainedBounded ==
  ASSUME IInv PROVE \A w \in Drained : w \in Gens /\ w <= MaxGen
  <1>1. ASSUME NEW i \in 1..Len(queue) PROVE queue[i] \in Gens /\ queue[i] <= MaxGen
    BY DEF IInv, TypeOK, Bounded
  <1>2. rigWinner # NoGen => rigWinner \in Gens /\ rigWinner <= MaxGen
    BY DEF IInv, TypeOK, Bounded
  <1> QED
    BY <1>1, <1>2 DEF Drained

LEMMA LaunchStep ==
  ASSUME IInv, NEW g \in Gpus, Launch(g)
  PROVE  IInv'
  <1> USE QueueHoldsOne, BoundsCount, Switches
      DEF Launch, gpuVars, rigVars, linkVars, ackVars, claimVars, userVars
  <1>0. TypeOK /\ Bounded /\ OneOwner
    BY DEF IInv
  <1>1. TypeOK'
    BY <1>0 DEF TypeOK, Bounded, Gens, NoGen
  <1>2. Bounded'
    BY <1>0 DEF TypeOK, Bounded, Gens, NoGen
  <1>3. OneOwner'
    BY <1>0 DEF TypeOK, OneOwner
  <1>4. HeldWhilePending' /\ JournalIsOwned'
    BY <1>0 DEF IInv, TypeOK, OneOwner, HeldWhilePending, JournalIsOwned
  <1> QED
    BY <1>1, <1>2, <1>3, <1>4 DEF IInv

LEMMA FindStep ==
  ASSUME IInv, NEW g \in Gpus, Find(g)
  PROVE  IInv'
  <1> USE QueueHoldsOne, BoundsCount, Switches
      DEF Find, Room, gpuVars, rigVars, linkVars, ackVars, claimVars, userVars
  <1>0. TypeOK /\ Bounded /\ OneOwner
    BY DEF IInv
  <1>1. TypeOK'
    BY <1>0, Zenon DEF TypeOK, Bounded, Gens, NoGen
  <1>2. Bounded'
    BY <1>0 DEF TypeOK, Bounded, Gens, NoGen
  <1>3. OneOwner'
    BY <1>0 DEF TypeOK, OneOwner
  <1>4. HeldWhilePending' /\ JournalIsOwned'
    BY <1>0 DEF IInv, TypeOK, OneOwner, HeldWhilePending, JournalIsOwned
  <1> QED
    BY <1>1, <1>2, <1>3, <1>4 DEF IInv

LEMMA QueueWinnerStep ==
  ASSUME IInv, NEW g \in Gpus, QueueWinner(g)
  PROVE  IInv'
  <1> USE QueueHoldsOne, BoundsCount, Switches
      DEF QueueWinner, gpuVars, rigVars, linkVars, ackVars, claimVars, userVars
  <1>0. TypeOK /\ Bounded /\ OneOwner
    BY DEF IInv
  <1>a. /\ queue' \in Seq(Gens) /\ Len(queue') <= QueueCap
        /\ \A i \in 1..Len(queue') : queue'[i] <= MaxGen
    <2>0. gpuGen[g] \in Gens /\ gpuGen[g] <= MaxGen
      BY <1>0 DEF TypeOK, Bounded
    <2>1. CASE queue' = Append(queue, gpuGen[g]) /\ Len(queue) < QueueCap
      <3>1. queue' \in Seq(Gens) /\ Len(queue') = Len(queue) + 1
        BY <1>0, <2>0, <2>1 DEF TypeOK
      <3>2. ASSUME NEW i \in 1..Len(queue') PROVE queue'[i] <= MaxGen
        BY <1>0, <2>0, <2>1, <3>1, <3>2 DEF TypeOK, Bounded
      <3> QED
        BY <1>0, <2>1, <3>1, <3>2 DEF TypeOK
    <2>2. CASE queue' = queue
      BY <1>0, <2>2 DEF TypeOK, Bounded
    <2> QED
      BY <2>1, <2>2
  <1>b. stage' \in [Gpus -> {"idle", "batch", "found", "queued", "counted"}]
    BY <1>0 DEF TypeOK
  <1>1. TypeOK'
    BY <1>0, <1>a, <1>b DEF TypeOK
  <1>2. Bounded'
    BY <1>0, <1>a DEF TypeOK, Bounded
  <1>3. OneOwner'
    BY <1>0 DEF TypeOK, OneOwner
  <1>4. HeldWhilePending' /\ JournalIsOwned'
    BY <1>0 DEF IInv, TypeOK, OneOwner, HeldWhilePending, JournalIsOwned
  <1> QED
    BY <1>1, <1>2, <1>3, <1>4 DEF IInv

LEMMA CountWinnerStep ==
  ASSUME IInv, NEW g \in Gpus, CountWinner(g)
  PROVE  IInv'
  <1> USE QueueHoldsOne, BoundsCount, Switches
      DEF CountWinner, Room, gpuVars, rigVars, linkVars, ackVars, claimVars,
          userVars
  <1>0. TypeOK /\ Bounded /\ OneOwner
    BY DEF IInv
  <1>1. TypeOK'
    BY <1>0 DEF TypeOK, Bounded, Gens, NoGen
  <1>2. Bounded'
    BY <1>0 DEF TypeOK, Bounded, Gens, NoGen
  <1>3. OneOwner'
    BY <1>0 DEF TypeOK, OneOwner
  <1>4. HeldWhilePending' /\ JournalIsOwned'
    BY <1>0 DEF IInv, TypeOK, OneOwner, HeldWhilePending, JournalIsOwned
  <1> QED
    BY <1>1, <1>2, <1>3, <1>4 DEF IInv

LEMMA EndBatchStep ==
  ASSUME IInv, NEW g \in Gpus, EndBatch(g)
  PROVE  IInv'
  <1> USE QueueHoldsOne, BoundsCount, Switches
      DEF EndBatch, gpuVars, rigVars, linkVars, ackVars, claimVars, userVars
  <1>0. TypeOK /\ Bounded /\ OneOwner
    BY DEF IInv
  <1>1. TypeOK'
    BY <1>0 DEF TypeOK, Bounded, Gens, NoGen
  <1>2. Bounded'
    BY <1>0 DEF TypeOK, Bounded, Gens, NoGen
  <1>3. OneOwner'
    BY <1>0 DEF TypeOK, OneOwner
  <1>4. HeldWhilePending' /\ JournalIsOwned'
    BY <1>0 DEF IInv, TypeOK, OneOwner, HeldWhilePending, JournalIsOwned
  <1> QED
    BY <1>1, <1>2, <1>3, <1>4 DEF IInv

LEMMA RigFindsStep ==
  ASSUME IInv, RigFinds
  PROVE  IInv'
  <1> USE QueueHoldsOne, BoundsCount, Switches
      DEF RigFinds, gpuVars, rigVars, linkVars, ackVars, claimVars, userVars
  <1>0. TypeOK /\ Bounded /\ OneOwner
    BY DEF IInv
  <1>1. TypeOK'
    BY <1>0 DEF TypeOK, Bounded, Gens, NoGen
  <1>2. Bounded'
    BY <1>0 DEF TypeOK, Bounded, Gens, NoGen
  <1>3. OneOwner'
    BY <1>0 DEF TypeOK, OneOwner
  <1>4. HeldWhilePending' /\ JournalIsOwned'
    BY <1>0 DEF IInv, TypeOK, OneOwner, HeldWhilePending, JournalIsOwned
  <1> QED
    BY <1>1, <1>2, <1>3, <1>4 DEF IInv

LEMMA JobMovesStep ==
  ASSUME IInv, JobMoves
  PROVE  IInv'
  <1> USE QueueHoldsOne, BoundsCount, Switches
      DEF JobMoves, gpuVars, rigVars, linkVars, ackVars, claimVars, userVars
  <1>0. TypeOK /\ Bounded /\ OneOwner
    BY DEF IInv
  <1>1. TypeOK'
    BY <1>0 DEF TypeOK, Bounded, Gens, NoGen
  <1>2. Bounded'
    BY <1>0 DEF TypeOK, Bounded, Gens, NoGen
  <1>3. OneOwner'
    BY <1>0 DEF TypeOK, OneOwner
  <1>4. HeldWhilePending' /\ JournalIsOwned'
    BY <1>0 DEF IInv, TypeOK, OneOwner, HeldWhilePending, JournalIsOwned
  <1> QED
    BY <1>1, <1>2, <1>3, <1>4 DEF IInv

LEMMA PauseStep ==
  ASSUME IInv, Pause
  PROVE  IInv'
  <1> USE QueueHoldsOne, BoundsCount, Switches
      DEF Pause, gpuVars, rigVars, linkVars, ackVars, claimVars, userVars
  <1>0. TypeOK /\ Bounded /\ OneOwner
    BY DEF IInv
  <1>1. TypeOK'
    BY <1>0 DEF TypeOK, Bounded, Gens, NoGen
  <1>2. Bounded'
    BY <1>0 DEF TypeOK, Bounded, Gens, NoGen
  <1>3. OneOwner'
    BY <1>0 DEF TypeOK, OneOwner
  <1>4. HeldWhilePending' /\ JournalIsOwned'
    BY <1>0 DEF IInv, TypeOK, OneOwner, HeldWhilePending, JournalIsOwned
  <1> QED
    BY <1>1, <1>2, <1>3, <1>4 DEF IInv

LEMMA ResumeStep ==
  ASSUME IInv, Resume
  PROVE  IInv'
  <1> USE QueueHoldsOne, BoundsCount, Switches
      DEF Resume, gpuVars, rigVars, linkVars, ackVars, claimVars, userVars
  <1>0. TypeOK /\ Bounded /\ OneOwner
    BY DEF IInv
  <1>1. TypeOK'
    BY <1>0, Zenon DEF TypeOK, Bounded, Gens, NoGen
  <1>2. Bounded'
    BY <1>0 DEF TypeOK, Bounded, Gens, NoGen
  <1>3. OneOwner'
    BY <1>0 DEF TypeOK, OneOwner
  <1>4. HeldWhilePending' /\ JournalIsOwned'
    BY <1>0 DEF IInv, TypeOK, OneOwner, HeldWhilePending, JournalIsOwned
  <1> QED
    BY <1>1, <1>2, <1>3, <1>4 DEF IInv

LEMMA SetPayoutStep ==
  ASSUME IInv, SetPayout
  PROVE  IInv'
  <1> USE QueueHoldsOne, BoundsCount, Switches
      DEF SetPayout, gpuVars, rigVars, linkVars, ackVars, claimVars, userVars
  <1>0. TypeOK /\ Bounded /\ OneOwner
    BY DEF IInv
  <1>1. TypeOK'
    BY <1>0 DEF TypeOK, Bounded, Gens, NoGen
  <1>2. Bounded'
    BY <1>0 DEF TypeOK, Bounded, Gens, NoGen
  <1>3. OneOwner'
    BY <1>0 DEF TypeOK, OneOwner
  <1>4. HeldWhilePending' /\ JournalIsOwned'
    BY <1>0 DEF IInv, TypeOK, OneOwner, HeldWhilePending, JournalIsOwned
  <1> QED
    BY <1>1, <1>2, <1>3, <1>4 DEF IInv

LEMMA SetFulcrumStep ==
  ASSUME IInv, SetFulcrum
  PROVE  IInv'
  <1> USE QueueHoldsOne, BoundsCount, Switches
      DEF SetFulcrum, gpuVars, rigVars, linkVars, ackVars, claimVars, userVars
  <1>0. TypeOK /\ Bounded /\ OneOwner
    BY DEF IInv
  <1>b. FlagsOK'
    BY <1>0, Zenon DEF TypeOK, FlagsOK
  <1>1. TypeOK'
    BY <1>0, <1>b DEF TypeOK, Bounded, Gens, NoGen, FlagsOK
  <1>2. Bounded'
    BY <1>0, <1>b DEF TypeOK, Bounded, Gens, NoGen
  <1>3. OneOwner'
    BY <1>0 DEF TypeOK, OneOwner
  <1>4. HeldWhilePending' /\ JournalIsOwned'
    BY <1>0 DEF IInv, TypeOK, OneOwner, HeldWhilePending, JournalIsOwned
  <1> QED
    BY <1>1, <1>2, <1>3, <1>4 DEF IInv

LEMMA DropSessionStep ==
  ASSUME IInv, DropSession
  PROVE  IInv'
  <1> USE QueueHoldsOne, BoundsCount, Switches
      DEF DropSession, Fault, gpuVars, rigVars, linkVars, ackVars, claimVars,
          userVars
  <1>0. TypeOK /\ Bounded /\ OneOwner
    BY DEF IInv
  <1>b. FlagsOK'
    BY <1>0, Zenon DEF TypeOK, FlagsOK
  <1>1. TypeOK'
    BY <1>0, <1>b DEF TypeOK, Bounded, Gens, NoGen, FlagsOK
  <1>2. Bounded'
    BY <1>0, <1>b DEF TypeOK, Bounded, Gens, NoGen
  <1>3. OneOwner'
    BY <1>0 DEF TypeOK, OneOwner
  <1>4. HeldWhilePending' /\ JournalIsOwned'
    BY <1>0 DEF IInv, TypeOK, OneOwner, HeldWhilePending, JournalIsOwned
  <1> QED
    BY <1>1, <1>2, <1>3, <1>4 DEF IInv

LEMMA StopStep ==
  ASSUME IInv, Stop
  PROVE  IInv'
  <1> USE QueueHoldsOne, BoundsCount, Switches
      DEF Stop, gpuVars, rigVars, linkVars, ackVars, claimVars, userVars
  <1>0. TypeOK /\ Bounded /\ OneOwner
    BY DEF IInv
  <1>1. TypeOK'
    BY <1>0 DEF TypeOK, Bounded, Gens, NoGen
  <1>2. Bounded'
    BY <1>0 DEF TypeOK, Bounded, Gens, NoGen
  <1>3. OneOwner'
    BY <1>0 DEF TypeOK, OneOwner
  <1>4. HeldWhilePending' /\ JournalIsOwned'
    BY <1>0 DEF IInv, TypeOK, OneOwner, HeldWhilePending, JournalIsOwned
  <1> QED
    BY <1>1, <1>2, <1>3, <1>4 DEF IInv

LEMMA BeginLoopStep ==
  ASSUME IInv, BeginLoop
  PROVE  IInv'
  <1> USE QueueHoldsOne, BoundsCount, Switches
      DEF BeginLoop, gpuVars, rigVars, linkVars, ackVars, claimVars, userVars
  <1>0. TypeOK /\ Bounded /\ OneOwner
    BY DEF IInv
  <1>1. TypeOK'
    BY <1>0 DEF TypeOK, Bounded, Gens, NoGen
  <1>2. Bounded'
    BY <1>0 DEF TypeOK, Bounded, Gens, NoGen
  <1>3. OneOwner'
    BY <1>0 DEF TypeOK, OneOwner
  <1>4. HeldWhilePending' /\ JournalIsOwned'
    BY <1>0 DEF IInv, TypeOK, OneOwner, HeldWhilePending, JournalIsOwned
  <1> QED
    BY <1>1, <1>2, <1>3, <1>4 DEF IInv

LEMMA CheckWinnersStep ==
  ASSUME IInv, CheckWinners
  PROVE  IInv'
  <1> USE QueueHoldsOne, BoundsCount, Switches
      DEF CheckWinners, WinnerWaits, gpuVars, rigVars, linkVars, ackVars,
          claimVars, userVars
  <1>0. TypeOK /\ Bounded /\ OneOwner
    BY DEF IInv
  <1>1. TypeOK'
    BY <1>0, Zenon DEF TypeOK, Bounded, Gens, NoGen
  <1>2. Bounded'
    BY <1>0 DEF TypeOK, Bounded, Gens, NoGen
  <1>3. OneOwner'
    BY <1>0 DEF TypeOK, OneOwner
  <1>4. HeldWhilePending' /\ JournalIsOwned'
    BY <1>0 DEF IInv, TypeOK, OneOwner, HeldWhilePending, JournalIsOwned
  <1> QED
    BY <1>1, <1>2, <1>3, <1>4 DEF IInv

LEMMA ExitTestStep ==
  ASSUME IInv, ExitTest
  PROVE  IInv'
  <1> USE QueueHoldsOne, BoundsCount, Switches
      DEF ExitTest, BatchInFlight, gpuVars, rigVars, linkVars, ackVars,
          claimVars, userVars
  <1>0. TypeOK /\ Bounded /\ OneOwner
    BY DEF IInv
  <1>1. TypeOK'
    BY <1>0 DEF TypeOK, Bounded, Gens, NoGen
  <1>2. Bounded'
    BY <1>0 DEF TypeOK, Bounded, Gens, NoGen
  <1>3. OneOwner'
    BY <1>0 DEF TypeOK, OneOwner
  <1>4. HeldWhilePending' /\ JournalIsOwned'
    BY <1>0 DEF IInv, TypeOK, OneOwner, HeldWhilePending, JournalIsOwned
  <1> QED
    BY <1>1, <1>2, <1>3, <1>4 DEF IInv

LEMMA WaitStep ==
  ASSUME IInv, Wait
  PROVE  IInv'
  <1> USE QueueHoldsOne, BoundsCount, Switches
      DEF Wait, EndLoop, gpuVars, rigVars, linkVars, ackVars, claimVars, userVars
  <1>0. TypeOK /\ Bounded /\ OneOwner
    BY DEF IInv
  <1>1. TypeOK'
    BY <1>0 DEF TypeOK, Bounded, Gens, NoGen
  <1>2. Bounded'
    BY <1>0 DEF TypeOK, Bounded, Gens, NoGen
  <1>3. OneOwner'
    BY <1>0 DEF TypeOK, OneOwner
  <1>4. HeldWhilePending' /\ JournalIsOwned'
    BY <1>0 DEF IInv, TypeOK, OneOwner, HeldWhilePending, JournalIsOwned
  <1> QED
    BY <1>1, <1>2, <1>3, <1>4 DEF IInv

LEMMA ReconnectStep ==
  ASSUME IInv, Reconnect
  PROVE  IInv'
  <1> USE QueueHoldsOne, BoundsCount, Switches
      DEF Reconnect, EndLoop, Safe, gpuVars, rigVars, linkVars, ackVars,
          claimVars, userVars
  <1>0. TypeOK /\ Bounded /\ OneOwner
    BY DEF IInv
  <1>b. FlagsOK'
    BY <1>0, Zenon DEF TypeOK, FlagsOK, ApplyJob, ResumeIfAllowed
  <1>a. \/ gen' = gen /\ (moved' => moved)
        \/ gen' = gen + 1 /\ moved /\ ~moved'
    BY <1>0, Zenon DEF ApplyJob
  <1>c. gen' \in Gens /\ (moved' => gen' <= MaxGen + 1)
    BY <1>0, <1>a DEF TypeOK, Bounded, Gens
  <1>d. pending = 1 => paused' = paused
    BY <1>0 DEF TypeOK, ResumeIfAllowed, ResumeAllowed
  <1>e. HeldWhilePending'
    <2>1. refreshing' = refreshing /\ held' = held
      OBVIOUS
    <2>2. refreshing \/ held # NoGen => paused /\ paused' = paused
      BY <1>0, <1>d DEF IInv, OneOwner, HeldWhilePending
    <2>3. paused /\ paused' = paused => paused'
      OBVIOUS
    <2> QED
      BY <2>1, <2>2, <2>3, SMT DEF HeldWhilePending
  <1>1. TypeOK'
    BY <1>0, <1>b, <1>c DEF TypeOK, FlagsOK
  <1>2. Bounded'
    BY <1>0, <1>c DEF Bounded
  <1>3. OneOwner'
    BY <1>0 DEF TypeOK, OneOwner
  <1>4. HeldWhilePending' /\ JournalIsOwned'
    BY <1>0, <1>d, <1>e DEF IInv, OneOwner, HeldWhilePending, JournalIsOwned
  <1> QED
    BY <1>1, <1>2, <1>3, <1>4 DEF IInv

LEMMA SessionFailsStep ==
  ASSUME IInv, SessionFails
  PROVE  IInv'
  <1> USE QueueHoldsOne, BoundsCount, Switches
      DEF SessionFails, EndLoop, Fault, gpuVars, rigVars, linkVars, ackVars,
          claimVars, userVars
  <1>0. TypeOK /\ Bounded /\ OneOwner
    BY DEF IInv
  <1>b. FlagsOK'
    BY <1>0, Zenon DEF TypeOK, FlagsOK
  <1>a. HeldWhilePending'
    <2>1. paused => paused'
      BY Zenon
    <2> QED
      BY <2>1, Zenon DEF IInv, HeldWhilePending
  <1>1. TypeOK'
    BY <1>0, <1>b DEF TypeOK, FlagsOK
  <1>2. Bounded'
    BY <1>0 DEF TypeOK, Bounded
  <1>3. OneOwner'
    BY <1>0 DEF TypeOK, OneOwner
  <1>4. HeldWhilePending' /\ JournalIsOwned'
    BY <1>a DEF IInv, JournalIsOwned
  <1> QED
    BY <1>1, <1>2, <1>3, <1>4 DEF IInv

LEMMA PrepareHeldStep ==
  ASSUME IInv, PrepareHeld
  PROVE  IInv'
  <1> USE QueueHoldsOne, BoundsCount, Switches
      DEF PrepareHeld, EndLoop, Fault, gpuVars, rigVars, linkVars, ackVars,
          claimVars, userVars
  <1>0. TypeOK /\ Bounded /\ OneOwner
    BY DEF IInv
  <1>1. TypeOK'
    BY <1>0 DEF TypeOK, Bounded, Gens, NoGen
  <1>2. Bounded'
    BY <1>0 DEF TypeOK, Bounded, Gens, NoGen
  <1>3. OneOwner'
    BY <1>0 DEF TypeOK, OneOwner
  <1>4. HeldWhilePending' /\ JournalIsOwned'
    BY <1>0 DEF IInv, TypeOK, OneOwner, HeldWhilePending, JournalIsOwned
  <1> QED
    BY <1>1, <1>2, <1>3, <1>4 DEF IInv

LEMMA BeginSuccessorStep ==
  ASSUME IInv, BeginSuccessor
  PROVE  IInv'
  <1> USE QueueHoldsOne, BoundsCount, Switches
      DEF BeginSuccessor, gpuVars, rigVars, linkVars, ackVars, claimVars, userVars
  <1>0. TypeOK /\ Bounded /\ OneOwner
    BY DEF IInv
  <1>b. FlagsOK'
    BY <1>0, Zenon DEF TypeOK, FlagsOK, ResumeIfAllowed
  <1>a. \/ gen' = gen
        \/ gen' = gen + 1 /\ submitting = gen
    BY <1>0
  <1>c. /\ gen' \in Gens /\ (moved' => gen' <= MaxGen + 1)
        /\ pending' \in {0, 1} /\ faults' \in 0..MaxFaults
    BY <1>0, <1>a DEF TypeOK, Bounded, Gens, Fault
  <1>1. TypeOK'
    BY <1>0, <1>b, <1>c DEF TypeOK, FlagsOK
  <1>2. Bounded'
    BY <1>0, <1>c DEF Bounded
  <1>3. OneOwner'
    BY <1>0 DEF TypeOK, OneOwner
  <1>4. HeldWhilePending' /\ JournalIsOwned'
    BY <1>0 DEF IInv, TypeOK, OneOwner, HeldWhilePending, JournalIsOwned
  <1> QED
    BY <1>1, <1>2, <1>3, <1>4 DEF IInv

LEMMA AttemptResolvesStep ==
  ASSUME IInv, AttemptResolves
  PROVE  IInv'
  <1> USE QueueHoldsOne, BoundsCount, Switches
      DEF AttemptResolves, EndLoop, gpuVars, rigVars, linkVars, ackVars,
          claimVars, userVars
  <1>0. TypeOK /\ Bounded /\ OneOwner
    BY DEF IInv
  <1>b. FlagsOK'
    BY <1>0, Zenon DEF TypeOK, FlagsOK, ResumeIfAllowed
  <1>a. \/ gen' = gen + 1 /\ ~moved' /\ (moved \/ submitting = gen)
        \/ gen' = gen /\ ~moved'
        \/ gen' = gen /\ (moved \/ submitting = gen)
    BY <1>0, Zenon
  <1>c. gen' \in Gens /\ (moved' => gen' <= MaxGen + 1)
    BY <1>0, <1>a DEF TypeOK, Bounded, Gens
  <1>d. faults' \in 0..MaxFaults
    <2>1. faults' = faults \/ Fault
      BY Zenon
    <2> QED
      BY <1>0, <2>1, FaultCounted, Zenon
  <1>1. TypeOK'
    BY <1>0, <1>b, <1>c, <1>d DEF TypeOK, FlagsOK
  <1>2. Bounded'
    <2>1. /\ UNCHANGED <<stage, gpuGen, queue, rigWinner, held>>
          /\ submitting' = NoGen
      OBVIOUS
    <2> HIDE DEF AttemptResolves
    <2> QED
      BY <1>0, <1>c, <2>1 DEF Bounded, NoGen
  <1>3. OneOwner'
    BY <1>0 DEF TypeOK, OneOwner
  <1>4. HeldWhilePending' /\ JournalIsOwned'
    BY <1>0 DEF IInv, TypeOK, OneOwner, HeldWhilePending, JournalIsOwned
  <1> QED
    BY <1>1, <1>2, <1>3, <1>4 DEF IInv

LEMMA AttemptFailsStep ==
  ASSUME IInv, AttemptFails
  PROVE  IInv'
  <1> USE QueueHoldsOne, BoundsCount, Switches
      DEF AttemptFails, EndLoop, Fault, gpuVars, rigVars, linkVars, ackVars,
          claimVars, userVars
  <1>0. TypeOK /\ Bounded /\ OneOwner
    BY DEF IInv
  <1>b. FlagsOK'
    BY <1>0, Zenon DEF TypeOK, FlagsOK
  <1>1. TypeOK'
    BY <1>0, <1>b DEF TypeOK, Bounded, Gens, NoGen, FlagsOK
  <1>2. Bounded'
    BY <1>0, <1>b DEF TypeOK, Bounded, Gens, NoGen
  <1>3. OneOwner'
    BY <1>0 DEF TypeOK, OneOwner
  <1>4. HeldWhilePending' /\ JournalIsOwned'
    BY <1>0 DEF IInv, TypeOK, OneOwner, HeldWhilePending, JournalIsOwned
  <1> QED
    BY <1>1, <1>2, <1>3, <1>4 DEF IInv

LEMMA DrainStaleStep ==
  ASSUME IInv, DrainStale
  PROVE  IInv'
  <1> USE QueueHoldsOne, BoundsCount, Switches
      DEF DrainStale, EndLoop, DrainQueues, AcknowledgeDrained, gpuVars,
          rigVars, linkVars, ackVars, claimVars, userVars
  <1>0. TypeOK /\ Bounded /\ OneOwner
    BY DEF IInv
  <1>b. FlagsOK'
    BY <1>0, Zenon DEF TypeOK, FlagsOK, ResumeIfAllowed
  <1>c. gen' \in Gens /\ queue' \in Seq(Gens) /\ Len(queue') = 0 /\ observed' \in Nat
    BY <1>0 DEF TypeOK, Gens
  <1>1. TypeOK'
    BY <1>0, <1>b, <1>c DEF TypeOK, FlagsOK
  <1>2. Bounded'
    BY <1>0, <1>b, <1>c DEF TypeOK, Bounded, Gens, NoGen, FlagsOK
  <1>3. OneOwner'
    BY <1>0 DEF TypeOK, OneOwner
  <1>4. HeldWhilePending' /\ JournalIsOwned'
    BY <1>0 DEF IInv, TypeOK, OneOwner, HeldWhilePending, JournalIsOwned
  <1> QED
    BY <1>1, <1>2, <1>3, <1>4 DEF IInv

LEMMA DrainClaimStep ==
  ASSUME IInv, DrainClaim
  PROVE  IInv'
  <1> USE QueueHoldsOne, BoundsCount, Switches
      DEF DrainClaim, EndLoop, DrainQueues, AcknowledgeDrained, gpuVars,
          rigVars, linkVars, ackVars, claimVars, userVars
  <1>0. TypeOK /\ Bounded /\ OneOwner
    BY DEF IInv
  <1>b. FlagsOK'
    BY <1>0, Zenon DEF TypeOK, FlagsOK
  <1>c. queue' \in Seq(Gens) /\ Len(queue') = 0 /\ observed' \in Nat
    BY <1>0 DEF TypeOK
  <1>f. {held', submitting', journal'} \subseteq {held, submitting, journal, gen}
    BY Zenon
  <1>e. faults' \in 0..MaxFaults
    <2>1. faults' = faults \/ Fault
      BY Zenon
    <2> QED
      BY <1>0, <2>1, FaultCounted, Zenon
  <1>d. held' <= MaxGen /\ submitting' <= MaxGen
    BY <1>0, DrainedBounded, Zenon DEF TypeOK, Bounded, NoGen
  <1>1. TypeOK'
    BY <1>0, <1>b, <1>c, <1>e, <1>f DEF TypeOK, FlagsOK
  <1>2. Bounded'
    <2>1. UNCHANGED <<stage, gpuGen, gen, moved>> /\ queue' = <<>> /\ rigWinner' = NoGen
      OBVIOUS
    <2> HIDE DEF DrainClaim
    <2> QED
      BY <1>0, <1>d, <2>1 DEF Bounded, NoGen
  <1>3. OneOwner'
    BY <1>0, Zenon DEF TypeOK, OneOwner
  <1>4. HeldWhilePending' /\ JournalIsOwned'
    BY <1>0, Zenon DEF IInv, TypeOK, OneOwner, HeldWhilePending, JournalIsOwned
  <1> QED
    BY <1>1, <1>2, <1>3, <1>4 DEF IInv

LEMMA RefreshStep ==
  ASSUME IInv, Refresh
  PROVE  IInv'
  <1> USE QueueHoldsOne, BoundsCount, Switches
      DEF Refresh, EndLoop, gpuVars, rigVars, linkVars, ackVars, claimVars, userVars
  <1>0. TypeOK /\ Bounded /\ OneOwner
    BY DEF IInv
  <1>b. FlagsOK'
    BY <1>0, Zenon DEF TypeOK, FlagsOK, ApplyJob, ResumeIfAllowed
  <1>c. gen' = gen + 1 /\ gen' \in Gens /\ ~moved'
    BY <1>0 DEF TypeOK, Bounded, Gens, ApplyJob
  <1>d. pending = 1 => paused' = paused
    BY <1>0 DEF TypeOK, ResumeIfAllowed, ResumeAllowed
  <1>1. TypeOK'
    BY <1>0, <1>b, <1>c DEF TypeOK, FlagsOK
  <1>2. Bounded'
    BY <1>0, <1>c DEF Bounded
  <1>3. OneOwner'
    BY <1>0 DEF TypeOK, OneOwner
  <1>4. HeldWhilePending' /\ JournalIsOwned'
    BY <1>0, <1>d DEF IInv, TypeOK, OneOwner, HeldWhilePending, JournalIsOwned
  <1> QED
    BY <1>1, <1>2, <1>3, <1>4 DEF IInv

LEMMA NextIInv == ASSUME IInv, [Next]_vars PROVE IInv'
  <1>1. CASE UNCHANGED vars
    BY <1>1 DEF IInv, TypeOK, Bounded, OneOwner, HeldWhilePending, JournalIsOwned,
                vars, gpuVars, rigVars, linkVars, ackVars, claimVars, userVars
  <1>2. CASE \E g \in Gpus : Launch(g) \/ Find(g) \/ GpuWorks(g)
    BY <1>2, LaunchStep, FindStep, QueueWinnerStep, CountWinnerStep, EndBatchStep
       DEF GpuWorks
  <1>3. CASE RigFinds \/ JobMoves
    BY <1>3, RigFindsStep, JobMovesStep
  <1>4. CASE Commands
    BY <1>4, PauseStep, ResumeStep, SetPayoutStep, SetFulcrumStep, DropSessionStep,
       StopStep DEF Commands
  <1>5. CASE Turn
    BY <1>5, BeginLoopStep, CheckWinnersStep, ExitTestStep, WaitStep, ReconnectStep,
       SessionFailsStep, PrepareHeldStep, BeginSuccessorStep, AttemptResolvesStep,
       AttemptFailsStep, DrainStaleStep, DrainClaimStep, RefreshStep DEF Turn
  <1>6. CASE Stopped
    BY <1>1, <1>6 DEF Stopped
  <1> QED
    BY <1>1, <1>2, <1>3, <1>4, <1>5, <1>6 DEF Next

LEMMA Inductive == Spec => []IInv
  BY InitIInv, NextIInv, PTL DEF Spec

(* The channel never exceeds its capacity, counters and generations stay   *)
(* in their ranges (deliver_verified_batch, run_supervisor).               *)
THEOREM SupervisorTypes == Spec => []TypeOK
  <1>1. IInv => TypeOK
    BY DEF IInv
  <1> QED
    BY <1>1, Inductive, PTL

(* No GPU starts a batch between the notice of a winner and its journal    *)
(* (search_resume_allowed, resume_search_if_safe).                         *)
THEOREM PausedForWinner == Spec => []HeldWhilePending
  <1>1. IInv => HeldWhilePending
    BY DEF IInv
  <1> QED
    BY <1>1, Inductive, PTL

(* A journal on disk is the one of the claim the supervisor works on.      *)
THEOREM JournalHasOwner == Spec => []JournalIsOwned
  <1>1. IInv => JournalIsOwned
    BY DEF IInv
  <1> QED
    BY <1>1, Inductive, PTL

---------------------------------------------------------------------------
(* A step that changes the job while a claim stays open begins the claim's *)
(* own successor: everything else needs no claim, or no journal.           *)
LEMMA JobStep ==
  ASSUME IInv, [Next]_vars, submitting # NoGen, submitting' = submitting, gen' # gen
  PROVE  gen = submitting /\ gen' = submitting + 1
  <1> USE DEF vars, gpuVars, rigVars, linkVars, ackVars, claimVars, userVars
  <1>0. TypeOK /\ OneOwner
    BY DEF IInv
  <1>1. CASE UNCHANGED vars \/ Stopped
    BY <1>1 DEF Stopped
  <1>2. CASE \E g \in Gpus : Launch(g) \/ Find(g) \/ GpuWorks(g)
    BY <1>2 DEF Launch, Find, GpuWorks, QueueWinner, CountWinner, EndBatch
  <1>3. CASE RigFinds \/ JobMoves
    BY <1>3 DEF RigFinds, JobMoves
  <1>4. CASE Commands
    BY <1>0, <1>4 DEF OneOwner, Commands, Pause, Resume, SetPayout, SetFulcrum,
       DropSession, Stop
  <1>5. CASE BeginSuccessor
    BY <1>5, Zenon DEF BeginSuccessor
  <1>6. CASE AttemptResolves
    BY <1>6 DEF AttemptResolves
  <1>7. CASE BeginLoop \/ CheckWinners \/ ExitTest \/ Wait \/ PrepareHeld
    BY <1>7 DEF BeginLoop, CheckWinners, ExitTest, Wait, PrepareHeld
  <1>8. CASE Reconnect \/ SessionFails \/ AttemptFails
    BY <1>8, Zenon DEF Reconnect, SessionFails, AttemptFails
  <1>9. CASE DrainStale \/ DrainClaim \/ Refresh
    BY <1>9 DEF DrainStale, DrainClaim, Refresh
  <1> QED
    BY <1>1, <1>2, <1>3, <1>4, <1>5, <1>6, <1>7, <1>8, <1>9 DEF Next, Turn

(* The job under an open claim changes to the claim's own baton only.      *)
THEOREM ClaimKeepsJob == Spec => JobKeptWhileClaiming
  <1>1. IInv /\ [Next]_vars
          => [submitting # NoGen /\ submitting' = submitting /\ gen' # gen
                => gen = submitting /\ gen' = submitting + 1]_vars
    BY JobStep
  <1> QED
    BY <1>1, Inductive, PTL DEF Spec, JobKeptWhileClaiming

---------------------------------------------------------------------------
(* GPU threads between the queue and the counter.                          *)
Queued == {g \in Gpus : stage[g] = "queued"}

(* One thread more in a finite set counts one more, and one less one less. *)
LEMMA CountChanges ==
  ASSUME NEW S \in SUBSET Gpus, NEW g \in Gpus
  PROVE  /\ Cardinality(S) \in Nat
         /\ g \notin S => Cardinality(S \cup {g}) = Cardinality(S) + 1
         /\ g \in S => Cardinality(S \ {g}) = Cardinality(S) - 1
  <1>1. IsFiniteSet(S)
    BY GpusFinite, FS_Subset
  <1> QED
    BY <1>1, FS_CardinalityType, FS_AddElement, FS_RemoveElement

(* A thread's step into or out of the queue moves one winner between the   *)
(* two sides of the count.                                                 *)
LEMMA CountStep ==
  ASSUME TypeOK, WinnersAccounted, NEW g \in Gpus,
         Launch(g) \/ Find(g) \/ GpuWorks(g)
  PROVE  WinnersAccounted'
  <1> SUFFICES observed' + Len(queue') = found' + Cardinality(Queued')
    BY DEF WinnersAccounted, Queued
  <1>a. observed + Len(queue) = found + Cardinality(Queued)
    BY DEF WinnersAccounted, Queued
  <1>0. found \in Nat /\ observed \in Nat /\ Len(queue) \in Nat
    BY DEF TypeOK
  <1>1. CASE Launch(g) \/ Find(g) \/ EndBatch(g)
    <2>1. Queued' = Queued
      BY <1>1 DEF TypeOK, Queued, Launch, Find, EndBatch
    <2> QED
      BY <1>a, <1>1, <2>1 DEF Launch, Find, EndBatch, ackVars
  <1>2. CASE QueueWinner(g)
    <2>0. stage[g] = "found" /\ found' = found /\ observed' = observed
      BY <1>2 DEF QueueWinner, ackVars
    <2>1. CASE /\ queue' = Append(queue, gpuGen[g])
               /\ stage' = [stage EXCEPT ![g] = "queued"]
      <3>1. Queued' = Queued \cup {g} /\ g \notin Queued
        BY <2>0, <2>1 DEF TypeOK, Queued
      <3>2. Len(queue') = Len(queue) + 1
        <4>1. queue \in Seq(Gens) /\ gpuGen[g] \in Gens
          BY DEF TypeOK
        <4> QED
          BY <2>1, <4>1
      <3>3. Cardinality(Queued') = Cardinality(Queued) + 1 /\ Cardinality(Queued) \in Nat
        BY <3>1, CountChanges, Zenon DEF Queued
      <3> QED
        BY <1>0, <1>a, <2>0, <3>2, <3>3
    <2>2. CASE queue' = queue /\ stage' = [stage EXCEPT ![g] = "counted"]
      <3>1. Queued' = Queued
        BY <2>0, <2>2 DEF TypeOK, Queued
      <3> QED
        BY <1>a, <2>0, <2>2, <3>1
    <2> QED
      BY <1>2, <2>1, <2>2 DEF QueueWinner
  <1>3. CASE CountWinner(g)
    <2>1. Queued' = Queued \ {g} /\ g \in Queued
      BY <1>3 DEF TypeOK, Queued, CountWinner
    <2>2. Cardinality(Queued') = Cardinality(Queued) - 1 /\ Cardinality(Queued) \in Nat
      BY <2>1, CountChanges DEF Queued
    <2>3. found' = found + 1 /\ queue' = queue /\ observed' = observed
      BY <1>3 DEF CountWinner, ackVars
    <2> QED
      BY <1>0, <1>a, <2>2, <2>3
  <1> QED
    BY <1>1, <1>2, <1>3 DEF GpuWorks

(* A drain takes what it acknowledges.                                     *)
LEMMA DrainStep ==
  ASSUME TypeOK, WinnersAccounted, DrainQueues
  PROVE  WinnersAccounted'
  BY DEF TypeOK, WinnersAccounted, DrainQueues, AcknowledgeDrained

(* Winners are acknowledged exactly as they leave the channel, whatever    *)
(* the GPU threads do meanwhile (PR #35, acknowledge_drained).             *)
THEOREM WinnersCounted == Spec => []WinnersAccounted
  <1>1. Init => WinnersAccounted
    <2>1. Init => Queued = {}
      BY DEF Init, Queued
    <2> QED
      BY <2>1, FS_EmptySet, Zenon DEF Init, WinnersAccounted, Queued
  <1>2. IInv /\ WinnersAccounted /\ [Next]_vars => WinnersAccounted'
    <2> SUFFICES ASSUME IInv, WinnersAccounted, [Next]_vars PROVE WinnersAccounted'
      OBVIOUS
    <2>0. TypeOK
      BY DEF IInv
    <2>1. CASE \E g \in Gpus : Launch(g) \/ Find(g) \/ GpuWorks(g)
      BY <2>0, <2>1, CountStep
    <2>2. CASE DrainStale \/ DrainClaim
      BY <2>0, <2>2, DrainStep DEF DrainStale, DrainClaim
    <2>3. CASE UNCHANGED <<stage, queue, found, observed>>
      BY <2>3 DEF WinnersAccounted
    <2>4. CASE RigFinds \/ JobMoves \/ Commands \/ Stopped \/ UNCHANGED vars
      BY <2>3, <2>4 DEF RigFinds, JobMoves, Commands, Pause, Resume, SetPayout,
         SetFulcrum,
         DropSession, Stop, Stopped, vars, gpuVars, ackVars
    <2>5. CASE Turn /\ ~(DrainStale \/ DrainClaim)
      BY <2>3, <2>5, Zenon DEF Turn, BeginLoop, CheckWinners, ExitTest, Wait,
         Reconnect, SessionFails,
         PrepareHeld, BeginSuccessor, AttemptResolves, AttemptFails, Refresh, gpuVars, ackVars
    <2> QED
      BY <2>1, <2>2, <2>4, <2>5 DEF Next
  <1> QED
    BY <1>1, <1>2, Inductive, PTL DEF Spec

===========================================================================
