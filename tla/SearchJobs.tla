----------------------------- MODULE SearchJobs -----------------------------
(***************************************************************************)
(* How a new job reaches the GPUs (SearchHandle::replace_job, run_gpu,     *)
(* run_worker and wait_for_retry in search.rs).                            *)
(*                                                                         *)
(* Every GPU thread has a mailbox for one job.  replace_job puts the new   *)
(* job into all of them, over a job not taken yet, and returns as soon as  *)
(* one GPU has answered that it took it.  The GPUs take it at a batch      *)
(* boundary, or while they wait to be restarted after a failure.  The      *)
(* supervisor commits to a generation only when the call succeeded, so the *)
(* number of a failed call is used again by the next one.                  *)
(***************************************************************************)
EXTENDS Integers, FiniteSets

CONSTANTS
  Gpus,         \* the GPU worker threads
  Jobs,         \* the work: baton, age, target, fee and payout address
  FirstJob,     \* the job the search was started with
  Refused,      \* jobs prepare_job rejects (the same ones on every GPU)
  MaxCalls,     \* bound: job changes
  MaxFaults     \* bound: GPU failures

ASSUME JobsGiven == FirstJob \in Jobs \ Refused /\ Refused \subseteq Jobs
ASSUME BoundsGiven == MaxCalls \in Nat /\ MaxFaults \in Nat
ASSUME GpusGiven == IsFiniteSet(Gpus) /\ Gpus # {}

VARIABLES
  live,     \* the supervisor's generation and job
  call,     \* the replace_job under way, or NoCall
  calls,    \* calls so far; a command carries the number of its call
  settled,  \* whether the last call succeeded
  gaveUp,   \* whether a call ever timed out on a GPU that still ran
  applied,  \* SharedControl.generation_id
  mailbox,  \* per GPU: the newest command not taken yet, or NoCommand
  stage,    \* per GPU: where its thread is
  hand,     \* per GPU: the command it took and has not answered
  work,     \* per GPU: generation and job it mines or will restart on
  faults

vars == <<live, call, calls, settled, gaveUp, applied, mailbox, stage, hand, work, faults>>

NoCall == [number |-> 0, gen |-> 0, job |-> FirstJob, owed |-> {}, taken |-> FALSE]
NoCommand == [number |-> 0, gen |-> 0, job |-> FirstJob]

Init ==
  /\ live = [gen |-> 1, job |-> FirstJob]
  /\ call = NoCall /\ calls = 0 /\ settled = TRUE /\ gaveUp = FALSE /\ applied = 1
  /\ mailbox = [g \in Gpus |-> NoCommand] /\ hand = mailbox
  /\ stage = [g \in Gpus |-> "ready"]
  /\ work = [g \in Gpus |-> live]
  /\ faults = 0

Fault == faults < MaxFaults /\ faults' = faults + 1

(* GpuWorker::alive                                                        *)
Alive == {g \in Gpus : stage[g] # "stopped"}

---------------------------------------------------------------------------
(* The supervisor: refresh, successor, payout or endpoint change.          *)

(* Mutant: a job that waits in a mailbox is not replaced.                  *)
PostIfEmpty(command) ==
  mailbox' = [g \in Gpus |->
                IF g \in Alive /\ mailbox[g] = NoCommand THEN command ELSE mailbox[g]]

Post(command) ==
  mailbox' = [g \in Gpus |-> IF g \in Alive THEN command ELSE mailbox[g]]

(* The next generation is the live one plus one.  If the GPUs already      *)
(* report it, replace_job returns at once and the supervisor commits.      *)
Request(j) ==
  /\ call = NoCall /\ calls < MaxCalls /\ j # live.job
  /\ LET next == live.gen + 1 IN
     \/ /\ applied = next
        /\ live' = [gen |-> next, job |-> j]
        /\ settled' = TRUE
        /\ calls' = calls + 1
        /\ UNCHANGED <<call, mailbox>>
     \/ /\ applied # next /\ Alive # {}
        /\ calls' = calls + 1
        /\ Post([number |-> calls', gen |-> next, job |-> j])
        /\ call' = [number |-> calls', gen |-> next, job |-> j,
                    owed |-> Alive, taken |-> FALSE]
        /\ UNCHANGED <<live, settled>>
  /\ UNCHANGED <<gaveUp, applied, stage, hand, work, faults>>

ReturnOk ==
  /\ call # NoCall /\ call.taken
  /\ live' = [gen |-> call.gen, job |-> call.job]
  /\ call' = NoCall /\ settled' = TRUE
  /\ UNCHANGED <<calls, gaveUp, applied, mailbox, stage, hand, work, faults>>

(* Mutant: one refusal fails the call, though another GPU took the job.    *)
ReturnErrAlways ==
  /\ call # NoCall
  /\ call' = NoCall /\ settled' = FALSE
  /\ gaveUp' = (gaveUp \/ call.owed \cap Alive # {})
  /\ UNCHANGED <<live, calls, applied, mailbox, stage, hand, work, faults>>

(* Every GPU refused, or the 120 s passed.  A GPU that has stopped leaves  *)
(* its command in the mailbox and never answers.                           *)
ReturnErr ==
  /\ call # NoCall /\ ~call.taken
  /\ call' = NoCall /\ settled' = FALSE
  /\ gaveUp' = (gaveUp \/ call.owed \cap Alive # {})
  /\ UNCHANGED <<live, calls, applied, mailbox, stage, hand, work, faults>>

---------------------------------------------------------------------------
(* A GPU thread.                                                           *)

(* Mutant: one channel of answers for all calls.                           *)
AnswerAny(g, took) ==
  call' = IF call # NoCall
          THEN [call EXCEPT !.owed = @ \ {g}, !.taken = @ \/ took]
          ELSE call

(* The answer to a call that has returned goes nowhere.                    *)
Answer(g, took) ==
  call' = IF call # NoCall /\ hand[g].number = call.number
          THEN [call EXCEPT !.owed = @ \ {g}, !.taken = @ \/ took]
          ELSE call

(* GpuCounters::take_command at a batch boundary, or while waiting to be   *)
(* restarted.                                                              *)
Take(g) ==
  /\ mailbox[g] # NoCommand
  /\ \/ stage[g] = "ready"   /\ stage' = [stage EXCEPT ![g] = "install"]
     \/ stage[g] = "waiting" /\ stage' = [stage EXCEPT ![g] = "adopt"]
  /\ hand' = [hand EXCEPT ![g] = mailbox[g]]
  /\ mailbox' = [mailbox EXCEPT ![g] = NoCommand]
  /\ UNCHANGED <<live, call, calls, settled, gaveUp, applied, work, faults>>

Adopted(g) == [gen |-> hand[g].gen, job |-> hand[g].job]

(* Mutant: the GPU answers and goes on with its old job.                   *)
InstallLost(g) ==
  /\ stage[g] = "install" /\ hand[g].job \notin Refused
  /\ applied' = hand[g].gen
  /\ stage' = [stage EXCEPT ![g] = "ready"]
  /\ hand' = [hand EXCEPT ![g] = NoCommand]
  /\ Answer(g, TRUE)
  /\ UNCHANGED <<live, calls, settled, gaveUp, mailbox, work, faults>>

(* The engine takes the job: the shared generation moves, then the answer. *)
Install(g) ==
  /\ stage[g] = "install" /\ hand[g].job \notin Refused
  /\ work' = [work EXCEPT ![g] = Adopted(g)]
  /\ applied' = hand[g].gen
  /\ stage' = [stage EXCEPT ![g] = "ready"]
  /\ hand' = [hand EXCEPT ![g] = NoCommand]
  /\ Answer(g, TRUE)
  /\ UNCHANGED <<live, calls, settled, gaveUp, mailbox, faults>>

(* Mutant: no answer when the job is rejected.                             *)
RefuseSilently(g) ==
  /\ stage[g] = "install" /\ hand[g].job \in Refused
  /\ stage' = [stage EXCEPT ![g] = "ready"]
  /\ hand' = [hand EXCEPT ![g] = NoCommand]
  /\ UNCHANGED <<live, call, calls, settled, gaveUp, applied, mailbox, work, faults>>

(* prepare_job rejects the job: the GPU keeps its old one.                 *)
Refuse(g) ==
  /\ stage[g] = "install" /\ hand[g].job \in Refused
  /\ stage' = [stage EXCEPT ![g] = "ready"]
  /\ hand' = [hand EXCEPT ![g] = NoCommand]
  /\ Answer(g, FALSE)
  /\ UNCHANGED <<live, calls, settled, gaveUp, applied, mailbox, work, faults>>

(* The engine fails: the GPU is rebuilt on the requested job, though the   *)
(* answer is an error and the shared generation stays.                     *)
InstallFails(g) ==
  /\ stage[g] = "install" /\ hand[g].job \notin Refused /\ Fault
  /\ work' = [work EXCEPT ![g] = Adopted(g)]
  /\ stage' = [stage EXCEPT ![g] = "waiting"]
  /\ hand' = [hand EXCEPT ![g] = NoCommand]
  /\ Answer(g, FALSE)
  /\ UNCHANGED <<live, calls, settled, gaveUp, applied, mailbox>>

(* wait_for_retry does not look at the job before it says it took it.      *)
Adopt(g) ==
  /\ stage[g] = "adopt"
  /\ work' = [work EXCEPT ![g] = Adopted(g)]
  /\ applied' = hand[g].gen
  /\ stage' = [stage EXCEPT ![g] = "waiting"]
  /\ hand' = [hand EXCEPT ![g] = NoCommand]
  /\ Answer(g, TRUE)
  /\ UNCHANGED <<live, calls, settled, gaveUp, mailbox, faults>>

(* The delay is over and a new engine takes the job, or fails again, which *)
(* changes nothing.                                                        *)
Restart(g) ==
  /\ stage[g] = "waiting" /\ work[g].job \notin Refused
  /\ stage' = [stage EXCEPT ![g] = "ready"]
  /\ UNCHANGED <<live, call, calls, settled, gaveUp, applied, mailbox, hand, work, faults>>

(* Commands are taken before a batch starts; pauses only delay the batch.  *)
StartBatch(g) ==
  /\ stage[g] = "ready" /\ mailbox[g] = NoCommand
  /\ stage' = [stage EXCEPT ![g] = "batch"]
  /\ UNCHANGED <<live, call, calls, settled, gaveUp, applied, mailbox, hand, work, faults>>

EndBatch(g) ==
  /\ stage[g] = "batch"
  /\ stage' = [stage EXCEPT ![g] = "ready"]
  /\ UNCHANGED <<live, call, calls, settled, gaveUp, applied, mailbox, hand, work, faults>>

(* The GPU fails in a batch, or for good.                                  *)
BatchFails(g) ==
  /\ stage[g] = "batch" /\ Fault
  /\ \E s \in {"waiting", "stopped"} : stage' = [stage EXCEPT ![g] = s]
  /\ UNCHANGED <<live, call, calls, settled, gaveUp, applied, mailbox, hand, work>>

GpuStep(g) == \/ Take(g) \/ Install(g) \/ Refuse(g) \/ InstallFails(g) \/ Adopt(g)
              \/ Restart(g) \/ StartBatch(g) \/ EndBatch(g) \/ BatchFails(g)

Next == \/ \E j \in Jobs : Request(j)
        \/ ReturnOk \/ ReturnErr
        \/ \E g \in Gpus : GpuStep(g)

Spec == Init /\ [][Next]_vars

(* The supervisor sees the answers, batches end and the delay before a     *)
(* restart passes.  Nothing makes a job change or a GPU fail, and a call   *)
(* reaches its deadline for sure only when all who owe an answer stopped.  *)
GpuProgress(g) == \/ Take(g) \/ Install(g) \/ Refuse(g) \/ Adopt(g)
                  \/ Restart(g) \/ EndBatch(g)

Fairness == /\ WF_vars(ReturnOk \/ (ReturnErr /\ call.owed \cap Alive = {}))
            /\ \A g \in Gpus : WF_vars(GpuProgress(g))

FairSpec == Spec /\ Fairness
---------------------------------------------------------------------------
(* After a job change that succeeded, every running GPU mines the new job, *)
(* has it in its hand or finds it in its mailbox, as long as no call has   *)
(* given up on a GPU that was merely slow.  It takes that the supervisor's *)
(* preflight lets no job through that a GPU refuses: a GPU that waits to   *)
(* be restarted takes such a job without looking.                          *)
Heads(g) == \/ work[g] = live /\ mailbox[g] = NoCommand /\ hand[g] = NoCommand
            \/ \E c \in {mailbox[g], hand[g]} : c.gen = live.gen /\ c.job = live.job

AllFollow ==
  call = NoCall /\ settled /\ live.job \notin Refused => \A g \in Alive : Heads(g)

Followed == ~gaveUp => AllFollow

(* The same whatever the delays: "a GPU that falls behind resumes on the   *)
(* newest job, never an old one" (comment of replace_job).                 *)
NeverAnOldJob == AllFollow

(* The winner of a batch is told from a stale one by its generation: "Any  *)
(* change to the signed work bumps the generation" (winner_matches_live).  *)
GenerationIsJob ==
  \A g \in Gpus : stage[g] = "batch" /\ work[g].gen = live.gen => work[g].job = live.job

(* The number a GPU reports is ahead of the supervisor only while the call *)
(* that sends it is under way, so no job change is taken for done, unless  *)
(* a call has given up on a slow GPU.                                      *)
NeverSkipped ==
  gaveUp \/ applied <= live.gen \/ (call.taken /\ applied = call.gen)

(* A call succeeds only on the answer of a GPU that took the call's own    *)
(* job, though GPUs may still be busy with the job of a call given up.     *)
AnsweredByTaker ==
  call.taken => \E g \in Gpus : work[g] = [gen |-> call.gen, job |-> call.job]

(* Every call of replace_job returns, also without its deadline.           *)
CallReturns == call # NoCall ~> call = NoCall

(* When job changes stop after one that succeeded, and no call gave up on  *)
(* a slow GPU, every GPU that still runs ends on the live job, for good.   *)
Arrived(g) == \/ stage[g] = "stopped" \/ work[g] = live
              \/ ~settled \/ gaveUp \/ live.job \in Refused

Converges == \A g \in Gpus : <>[]Arrived(g)
=============================================================================
