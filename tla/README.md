# Pickaxe Miner: TLA+ models and proofs

Specifications of the parts of Pickaxe Miner in which the order of events decides
whether mined value is kept: the journal of solved BCH blocks, the journal of PHOTON
claims, the supervisor that moves a GPU's winner into such a claim, the way of a job to
the GPUs, rigs and their coordinators, the way of a block template to a device, Job
Declaration, and the fee pot of ELECTRIC. Line numbers refer to the sources under
`src/`; `PROJECT.json` maps every definition to its lines.

## The system

Pickaxe mines the PHOTON and ELECTRIC tokens on GPUs and serves BCH ASICs over
Stratum. One process holds:

| Part | State | What changes it |
| --- | --- | --- |
| Live supervisor (`runtime.rs`) | live job and its generation, session, held winner, open submission, counters | operator commands, GPU and rig winners, job sources, shutdown |
| GPU workers (`search.rs`) | mailbox with the newest job, pause flag, winner channel, counters | one thread per GPU |
| PHOTON claim (`runtime.rs`) | `pending-reward.json`, its two markers, the `.resolved` record, list of unindexed spends | the supervisor, the recovery at the start |
| Job sources (`source_pool.rs`, `job_source.rs`, `electrum.rs`, `node.rs`) | catalog with quarantines, watch of the own node | refresh failures, reconnections |
| Rig hub and rigs (`rigs.rs`, `rigs/pending.rs`) | published job, checked winners, durable list of unacknowledged winners | rig sessions, coordinator failover |
| Block journal (`stratum_v2/journal.rs`) | pending blocks, receipts, counts, in one file | device threads, node thread |
| SV2 server (`stratum_v2/server.rs`, `channel.rs`, `sv1.rs`) | published job, generations, solved parents, channels | devices, template sources |
| Job Declaration, Template Distribution (`stratum_v2/jd`, `tdp`) | tokens, declared jobs, templates, relay journal | pools, miners, nodes |
| Merge mining (`stratum_v2/merge`) | token set, claims | devices, token sources |
| ELECTRIC (`electric`) | pending file, withdrawal | GPU, network |
| Donation, fee and hash split schedules | work counters | accepted work |
| P2Pool launcher (`p2pool`) | child process | operator |

What is hard about them: a crash between any two file operations of a claim; replies
that are lost after the node acted; servers that lag behind one another; GPU threads
that find a winner at any moment of the supervisor's loop; two devices that solve the
same parent. `PROJECT.json` lists these hazards with the line where each one bites and
the property that would notice.

## Modules

| Module | Models | Kind |
| --- | --- | --- |
| `BlockJournal` | block journal, device threads, node thread | specification |
| `BlockPromise` | what a device is promised: an acknowledged block is kept until the node decided it, and is decided once | abstract specification |
| `ClaimJournal` | one claim after another, with its files, the recovery and the network | specification |
| `Supervisor` | supervisor loop, GPU threads, winner channel, commands | specification |
| `SearchJobs` | a job change and the GPUs' mailboxes, refusals, failures, restarts | specification |
| `RigLink` | a rig with its file of proofs, its link, and several coordinators | specification |
| `Templates` | template sources, failover, offers, preparations, the published job | specification |
| `Declaration` | the uplink to a pool, the gate in front of the devices, shares | specification |
| `Pot` | claims and approved sends from the fee pot, dashboard, refund, servers | specification |
| `BlockJournalProofs`, `ClaimJournalProofs`, `SupervisorProofs`, `SearchJobsProofs`, `RigLinkProofs`, `TemplatesProofs`, `DeclarationProofs`, `PotProofs` | theorems about the specifications | proofs |
| `MC...` | small instances for TLC | model checking |

The specifications meet at their edges. What `Supervisor` takes as one attempt that
resolves a claim or fails is `ClaimJournal`; the job change it takes as one step is
`SearchJobs`; the rig that hands it a winner is `RigLink`. `Templates` takes the uplink's
plan as given and publishes, `Declaration` takes the published templates as given and
declares them; a block found on either goes through `BlockJournal`.

### BlockJournal

State: `mem`, `disk` and `synced` are the journal in memory, in the file, and what of
the file would survive a power loss. Each thread has a position `pc` and the block it
holds, `writer` is the journal's mutex during `persist`, `solved` is `SolvedParents`.
A device thread runs Present, MarkParent, Enqueue, Rename, Sync, Acknowledge; the
node thread PickPending, Answered or Unanswered, Finish, Rename, Sync. Every write may
fail at each of its steps, and then the thread does what the code does: a device thread
stops the server without an answer, the node thread ends. `Exit` is every end of the
process, with or without the loss of an unsynced rename; `Open` reads the file back. After
an end that keeps the file its contents count as synced: a process that stops between the
rename and the sync, is started again, and loses its power only then is not covered.
`saveAcked`, `ackedParents`, `decided` and the field `done` are history.

A block is a name with a parent. Contents, sizes and the payout check of
`validate_block` are left out. One assumption on time is made (`Prompt`): the chain does
not grow by half of `RECENT` (32 blocks) while a device thread runs from its frame to
`SolvedParents::first`. Under it the branch of `push` for a block already in the journal is
never met by a device of the run that found the block; it is kept in the model, as it is
in the code.

### ClaimJournal

State: `chain` is the lineage of batons the network accepted, of which the connected
server lists the first `view` and every server at least the first `floor`. The four
files are four variables that hold a claim's name. `pc` names the point of
`attempt_parent_only_submission`, `resolve_*_submission` and `remove` that is next, and
`ctx` says whether the recovery at the start or the supervisor makes the attempt; the
two differ in what they do with an answer. Every file operation is one action, so a
crash falls between any two of them. `fresh` and `known` are the answers of the server,
read at two moments. `unindexed` is `UnindexedSpends`; `grace` is the history of what it
would hold had only the indexer's answers emptied it. `DescendsFrom` is the walk from the
live baton back to a claim; it gives up after `LineageSteps` transactions
(`BATON_LINEAGE_MAX_STEPS`, 256 in the code).

### Supervisor

State: the supervisor's local variables under the names of the code; `at` is the point
of its loop. Operator commands are handled at the loop's top; the winner counter is
read in `CheckWinners`, `batch_in_flight` in `ExitTest`, and GPU threads run in between.
A GPU thread delivers a winner in three visible steps (pause, queue, count) and clears
`batch_in_flight` in a fourth. A generation is a number and stands for its job. What
one attempt does to files and network is `ClaimJournal`'s subject; here an attempt
resolves the claim or fails. A new job reaches a GPU with its next batch.

### SearchJobs

State: the supervisor's generation and job (`live`), the `replace_job` under way (`call`),
the shared generation number (`applied`) and, per GPU, the mailbox, the command in hand,
the work and the thread's stage. A call succeeds with the first GPU that took its job and
fails when all refused or its 120 s passed, which may be at any moment; the number of a
failed call is used again, as in the code. A GPU that fails is rebuilt on the job it was
asked to take, and one that waits for its restart takes a job without looking at it.

### RigLink

State: the chain's tip, each coordinator's published job and winner queue, the link with
its frames in both directions, and the rig: its current job, found winners, the list of
unclaimed proofs in memory (`mem`) and in its file (`disk`). Coordinators may publish any
place the chain has ever been at, since their servers lag. A lost link loses any suffix of
the frames on their way; writes fail before or after the file was replaced; the rig
crashes and is started again. A link that fails while a saved proof is sent again is
taken as failing before or after that job. Transactions are numbered in the order in which they come
to exist, so a proof's digest orders the list as its age does. Reports of rates, names, keys and the
status file carry no decision and are left out.

### Templates

State: per source its tip and its `TemplateProvider`, the failover order, the shared
`Generations`, `Offered` with the preparation that runs and the one that waits, the
published job, the uplink's and the donation's plans, and the job a device took. A
refresh that finds a tip or fails, a spent template, a token change, a plan that came or
went, the helper's answers and the end of a preparation are one action each. Time is left
out: a lease, the coalescing window and the wait before a retry end at any moment, the
oldest lease first. Publication and a device's look at the published job are atomic, as
they are under the code's mutex. The test that a result is still of the uplink's plan and
its publication are one step (`FinishPreparation`, and `Offer` where nothing is prepared);
in the code the uplink's thread may change the plan between them.

### Declaration

State: the server's newest template and published job, the uplink's plan, queue,
declarations without an answer, known pool jobs and kept shares, the count of acknowledged
declarations, a device's job and the older ones its channel accepts. A device's thread
reads the published job first (`ReadJob`, into `read`) and the count of acknowledged
declarations after it (`Update`), and anything may happen in between. The pool answers in
any order and may refuse; queues, the share cache, the kept jobs and a channel's jobs have
their caps. A new session starts after the uplink's wait of 30 seconds, in which the node
thread withdrew the old work and the devices dropped it (`SessionStarts` states that as its
guard). The donation's own session repeats the uplink and is left out, as are `PushSolution`
and the pool's verdicts on single shares, which only end a session. In `TakePublished`
the branch for a template of another plan is kept though no run meets it: the wait before
a session drains the queue.

### Pot

State: the dashboard's `Control` and what it drew last, the mining thread's position and
server, the quote, the approved send in memory and in its journal, the claim's journal, the
confirmed spender of each coin and the servers' mempools. The owner's keys interleave with
the thread at any point. A broadcast is taken, refused, refused for its fee, or its reply is
lost either way; servers relay to one another, evict, and confirm. A save fails before the
file was replaced or after it, at the sync of its directory; what the file then holds is
also what it may hold after a power loss that undoes the rename or does not. `buried` are
the coins whose confirmed spender is older than a server's search goes back
(`Spender::Unknown`). `Outside` is a spend with a copy of the key. Phases Complete and Error are one phase "over". Two quotes over the
same coins are different transfers, refunds and foreign spends are one kind of
transaction, a claim may be dropped at any time (the baton it depends on is not modelled),
and `Reconnect` may choose any other server, more than the code's catalog would.

## Model checking

| Run | Instance | Result |
| --- | --- | --- |
| `block_journal` | 2 devices, 3 blocks on 2 parents, limits of 1 pending, 1 receipt and 1 recent parent | 6 properties hold |
| `claim_journal` | 2 claims, 2 rivals, a walk of 1 step, 1 fault, fairness | 8 properties hold |
| `supervisor` | 2 GPUs, rigs, a channel of 1, 2 winners, 2 generations, 1 fault | 5 properties hold |
| `supervisor_live` | 1 GPU, a disk that may fail, 1 fault, fairness | 3 liveness properties hold |
| `supervisor_exit` | 1 GPU | `ShutdownKeepsWinners` violated |
| `search_jobs` | 2 GPUs, 3 jobs of which GPUs refuse one, 3 calls, 2 failures, fairness | 5 properties hold |
| `rig_link` | 2 coordinators, lists and queues of 1, 2 claims, 2 job changes, a fee window, 1 fault, fairness | 3 properties hold |
| `templates` | 2 sources, the three modes, 1 block, 4 or 2 events, fairness | 3 properties hold |
| `declaration` | both modes, 3 templates (2 under P2Pool), 2 sessions, 2 shares, 1 fault | 4 properties hold |
| `pot` | 2 coins, 2 servers, 1 quote, 1 claim, 2 faults, fairness | 3 properties hold |
| `pot_mark` | the same, and the mark may fail to reach the file | `AbandonedIsDead` violated |
| `pot_shown` | 2 quotes, no claim, no fault | `ApprovedWasShown` violated |

The properties that hold, in words:

- A block whose share was acknowledged after a save is on disk, synced, until the node
  decided it (`SavedBeforeAck`); what is on disk can always be opened again
  (`FileReopens`); accepted and rejected counts are exact through lost replies and
  restarts (`CountsExact`); one run saves one block per parent (`OneBlockPerParent`);
  the journal implements `BlockPromise` (`KeepsPromise`).
- A claim that reached the network is marked as sent whatever stopped the process
  (`SentIsMarked`), is sent once while its outcome is open (`BroadcastOnce`), leaves no
  marker behind (`NoOrphanMarker`), is recorded as confirmed only when it is
  (`ConfirmedIsAccepted`), and its journal goes only after its record is written
  (`ResolvedBeforeForgotten`). With no claim open the GPUs mine an accepted baton
  (`MinesAcceptedBaton`). An accepted claim resolves, unless the baton
  moved on by more steps than the walk over its lineage takes (`AcceptedResolves`).
- Winners are acknowledged exactly as they leave the channel (`WinnersAccounted`); no
  GPU starts a batch while a winner waits (`HeldWhilePending`); a journal on disk always
  has its claim in memory (`JournalIsOwned`); the job under an open claim changes only to
  the claim's own baton (`JobKeptWhileClaiming`). Winners are handled, mining resumes and
  a shutdown ends (`WinnersHandled`, `MiningResumes`, `ShutdownEnds`). `MiningResumes`
  excepts a winner whose journal could not be written.
- After a job change that succeeded every running GPU is on the new job or will find it
  (`Followed`), no change is taken for done before a GPU took it (`NeverSkipped`), both as
  long as no call gave up on a slow GPU, and a call succeeds only on an answer to its own job
  (`AnsweredByTaker`). Every call returns, and the GPUs converge (`CallReturns`,
  `Converges`).
- The proof of an unspent baton stays in the rig's file through failover and crashes,
  unless the full list let it go or it could not be written (`ProofIsKept`), and one that
  answers the coordinator's live job is delivered (`Delivered`).
- No late preparation publishes an old parent or session (`PublishesNewest`), equal
  generation and serial mean equal work across sources and sessions (`SameWork`), and
  devices get work again while some source answers (`WorkReturns`).
- A share goes to the pool under the job of its own template (`RightJob`), none found on
  accepted work is dropped for arriving before the answer (`NoSilentLoss`), and a device moves
  to newer work of its parent only once the pool accepted it or, when the work was replaced
  after the device's thread read it, newer work of the session (`AcceptedFirst`).
- A send is abandoned only when it can no longer confirm (`AbandonedIsDead`), the claim
  journal and the send journal never both hold work, except after an approval whose save
  failed with its file in place already (`ClaimXorSend`), and an approved send ends while
  the miner runs (`SendResolves`). Two cases keep it: the spender of its coin is confirmed
  and too old to be found, for which `src/docs/electric-token.md:244` says that the journal is
  retained, and its journal was renamed but the sync of the directory failed, so that it
  cannot be renamed again.

### Where the code and its text differ

Three runs state what a comment or a message of the code says and end in a
counterexample; the findings in `PROJECT.json` quote the lines. Shutdown reads the winner
counter before `batch_in_flight`, so a winner counted between the two reads is lost
(`supervisor_exit`). A mark that could not be saved stays set in memory, so the next attempt
broadcasts without a mark on disk; if the miner stops once the server took it, a fee
refusal by another server after the restart abandons a transfer the network holds
(`pot_mark`). A quote that finishes late replaces the one the owner has
just confirmed, and is then approved without having been drawn (`pot_shown`).

More configurations end in a counterexample and can be run the same way
(`tlc -config X.cfg MCModule`):

| Configuration | Property | What happens |
| --- | --- | --- |
| `BlockJournalRace.cfg` | `AckedParentIsSaved` | a second device's solution is acknowledged as a repeat of a block that is not saved yet |
| `ClaimLost.cfg` | `JournalResolves` | a claim marked as attempted, whose broadcast was lost, is never broadcast again |
| `ClaimStale.cfg` | `StaleIsNotAccepted` | a lagging server turns an accepted claim into a conflicted one |
| `ClaimBack.cfg` | `KeepsSuccessor` | the forced refresh forgets spent batons without asking the indexer |
| `ClaimLong.cfg` | `AlwaysResolves` | the baton moved on by more than the walk's limit, and an accepted claim is never recognised |
| `SupervisorPayout.cfg` | `PayoutKeepsWinners` | a payout change does not look at winners that are queued and not noticed |
| `SupervisorStuck.cfg` | `HeldResolves` | a winner whose journal could not be written is refused for ever once the job moved |
| `SearchSkipped.cfg` | `NeverAnOldJob` | after a call that gave up on a slow GPU, the next change is taken for done and the GPU mines the old job |
| `SearchReused.cfg` | `GenerationIsJob` | the number of a failed call is used again for another job, which winners are then checked against |
| `DeclarationTokens.cfg` | `AcceptedFirst` | a token change republishes a template under the same declaration id, so the new coinbase counts as accepted |
| `DeclarationRace.cfg` | `AlwaysAccepted` | the pool accepts a newer declaration between a device's two reads, and the device takes older work that the pool has not answered for |
| `PotSync.cfg` | `NeverBoth` | an approval is on disk though its save failed; the miner takes it for not approved, finds a proof and journals its claim beside it |

### Bounds

Two claims are the least for a successor claim on a predecessor's baton. With two rivals
and a walk of one step a claim gets within the walk's reach and out of it. One fault is a
crash, a lost reply or a failed read at any point. Two devices are needed for the race on a parent, three blocks on two parents for a repeat and a new
parent, and limits of one are reached by the second block. Two GPUs and a channel of one
give a full channel and a second winner during a drain; the bound on generations leaves
room for the successor and one job that moves. Three calls are a call that fails, the reuse
of its number and one after it. Two coordinators and two claims give a failover with a
proof of either age, and lists of one are full with the first proof. Two sources and one
block give a source that is behind; four events (two with the modes that add sessions and
preparations) are a failure in the recovery from a failure. Three templates and two jobs
kept fill the uplink's list, and two sessions let the end of one meet the work of the
other. Two coins are the least for a send that stops in the middle, and two faults a lost
reply with a crash or an eviction after it; the owner opens no send once the quotes are used
up. GPUs are symmetric in `supervisor`; no run with
a liveness property uses symmetry.

Deadlock checking is off where a run ends because its bounds are used up, and for `pot`
also because a miner that finds work in both journals really stops (`Start`).

### Fairness

`ClaimJournal`: the runtime's loops keep turning (the code polls with finite sleeps and
retries with bounded backoff), a stopped miner is started again, a message arrives or is
lost, and servers learn of every transaction in the end. Rivals, winners and faults have
no fairness.

`Supervisor`: the loop and the GPU threads keep running, and batches end. Strong
fairness stands for deadlines that pass in the end: a reconnection, the retry of a held
winner, and an attempt that resolves its claim. The last is an assumption on the network
for which `AcceptedResolves` and `JournalResolves` show the limits.

`SearchJobs`: GPU threads run, batches end and the delay before a restart passes. No
fairness lets a call reach its deadline, so `CallReturns` does not lean on it, except for a
GPU that stopped for good with the call's command in its mailbox: nobody answers then, and the
error the call ends with, once nobody else owes an answer, is its deadline.

`RigLink`: frames of a link that holds arrive, the supervisor takes up queued winners, a
stopped rig is started again and the main coordinator answers. No fairness on job changes,
winners or faults.

`Templates`: the node thread's loop runs, the helper's calls end (they have a deadline in
the code), time passes and the uplink reconnects. `WorkReturns` assumes that from some
point on some source answers.

`Pot`: the mining thread runs and transactions in a mempool are mined in the end.
`SendResolves` is about a miner that stays up, with faults bounded.

## Proofs

TLAPS checks these for every value of the constants (any sets of devices, blocks, claims,
rivals, GPUs, jobs, coordinators, coins and servers, any bound), from the named
assumptions beside the constants.

`BlockJournalProofs`: `TypesHold` and `AcknowledgedSurvives`. `SavedBeforeAck` is not
inductive: `IInv` says of every copy of the journal that may be read back or written next
(memory, file, synced file, draft) that it keeps the blocks a thread acknowledged or is
about to acknowledge, unless they are decided (`Keeps`), and that each copy covers what
memory holds as pending (`Covers`), for a failed save leaves the file ahead of memory. To
that belong who holds the mutex (`MutexHeld`), that a renamed draft is the file
(`DraftInstalled`) and what a thread has in hand (`InHand`). Each action's lemma shows that
it keeps them.

Its second half has the refinement `JournalKeepsPromise`, and `EveryFileReopens`,
`OutcomesCounted` and `OneSavePerParent`. To `IInv` come `Copies` and `Parents`. `Copies`:
every copy of the journal is sound (its limits, no block twice, exact counts), memory is
the synced file while the process is up, and a file that is ahead of it is so by one save
or one answer. So a step that moves the synced file is one step of `BlockPromise`, and
every other step a stutter. `Parents`: the window of `SolvedParents` remembers every parent
a thread may still present. `RECENT` new parents would have to pass through it before one is
forgotten, and by `Prompt` fewer do; the lemmas carry this out as a count of heights.

`ClaimJournalProofs`: the type invariant, the five safety invariants and the action
property of `claim_journal`, all from one invariant `IInv`. It adds to them what holds
at each point of an attempt: at "send" the marker is written, at "accept" and later the
claim is in the lineage, at "remove" the record names the journal's claim, and a claim
that is not built is in no file and on no wire. `ForgetsOnlyResolved` follows from `IInv` for
every step.

`SupervisorProofs`: the five properties of `supervisor`. `IInv` adds to the type
invariant and the safety invariants that a winner is in one place (`OneOwner`: noticed,
held or submitted; `pending_winners` is 1 until it is submitted, its journal is there from
then on) and that all that waits is of a generation within the bound (`Bounded`).
`WinnersCounted` needs no more than types: each thread's step moves one winner between the
two sides of the count, which takes finiteness of the set of GPUs (`GpusFinite`).

`SearchJobsProofs`: `OwnAnswersOnly`, `NoChangeSkipped` and `GpusFollow`. `Followed` looks at
the moment after a call; the invariant follows each GPU through the call by where it is
headed (`Headed`: its newest command, else its work). A GPU's steps move a command from the
mailbox to the hand to the work and keep that, also through a failure, since a GPU is rebuilt
on what it was asked to take; only a refusal changes it. `Commands` orders what a mailbox and
a hand hold by the number of the call, `Owing` says who still owes an answer, `Taken` that a
call counted as taken has a GPU on its job, and `Behind` that no other command carries a
later generation while no call gave up.

`RigLinkProofs`: `RigKeepsProofs` and `FileWithinLimits`. A job retires proofs, so what jobs
may carry matters: by `Chain` the places the chain has been at are ordered in height and in
baton at once, and `Hubs`, `Links`, `Rigs` and `Saved` say that all jobs, winners and proofs
anywhere are on such places and spend a baton older than their digest. A job that retires a
proof, on the proof's own claim or above its height with another baton, then comes from a
place after the claim of the proof's baton, so that the proof is worthless. The second theorem
needs that a list that is not empty has an oldest proof (well-foundedness of the naturals)
and that `record` adds one at most.

`PotProofs`: `ClaimOrSend`, whatever save fails (a send's journal beside a claim's is an
approval whose save failed, `unsynced`), from types, the links between what
the thread holds and its journals, and where each transfer may be (`Exclusive`).
`AbandonedCannotConfirm` and `RecordedBeforeSent`, under the assumption that the mark before a
broadcast is saved, from `Safe`, which adds that a transfer that is not marked on disk is not
published, and how attempts and marks count; `pot_mark` shows that the assumption is needed.

`TemplatesProofs`: `KeptJobIsSameWork` and `PublicationsAreNewest`, for any sources. By
`Sourced` only the active source has a template, it is of the newest parent, and its
generation was the last one counted: so a failover, which resets the source it leaves, cannot
make two parents share a number. By `Known` an offer that waits is of the newest parent, and a
preparation that runs is so too, or is of an older session, or has an offer of another parent
behind it; the last two are what `finish_preparations` drops a result for. By `Keyed` no job
has a number not yet given. A publication of a new number is then of the newest parent, and
one of the same number the same work.

`DeclarationProofs`: `WithinCaps` (the type invariant, with the caps of queue, jobs, kept
shares and older jobs), `SharesOfTheirBlock` and `SharesOfTheirTemplate`,
`AcceptedGenerationFirst` and `AcceptedTemplateFirst`, and `NoShareIsLost`. The state does not
record what an id stands for; `IInv` says that some set `M` of declarations of this session
explains it (`Declared`): all that is queued, asked, kept, published or on a device is in `M`
(`Within`), an id of `M` is of one generation, parent and session (`Distinct`), nothing in
`M` is newer than the newest template and the published job (`Known`), of two members the
one with the larger id is not of an older generation (`Ordered`), and the last id
acknowledged is of an accepted one (`Acked`). `Within` holds of the job a device's thread has
read as well; with `Ordered` the count it reads later is of that job's id, or of one that is
not older. A step enlarges `M` by the new declaration, or
starts again with an empty one when a session begins. `NoShareIsLost` also needs the way of a
declaration (`Ways`): queue, then the pool's answers, then the pool's jobs, an id in one of
them at a time (`Apart`), its shares behind it in the queue (`InOrder`), so that a share that
is not sent is still queued, kept, or of a declaration that left the way and never comes back
(`Accounted`). The cap of the kept shares is a count of a finite set (`Counted`).

`SharesOfTheirTemplate`, `AcceptedTemplateFirst` and `NoShareIsLost` carry the hypothesis
`OneTokens(mode)`: the mode is P2Pool, or the token set does not change. It is what the
passing run's instance has, and it cannot be dropped: outside of P2Pool a changed token set
keeps the declaration's id (`DeclarationTokens.cfg`). What holds there too is stated by the
two theorems without it, of the generation, parent and session instead of the template.

Only model-checked: liveness (`WorkReturns` of `Templates` and the liveness properties of the
other modules; TLAPS 1.4.5 does not do fairness).

## Not modelled

Left out of modules that model the rest of their part:

- Claims: power loss (removals are not synced in the code, so any combination of files may
  come back; only the process's end is modelled), the claim with a separate settlement
  transaction, which the program reads back from old journals and no longer writes, and the
  cap of the list of unindexed spends.
- Block journal: contents, sizes and the payout check of a block.
- GPU workers: the sweep of nonces, pacing, rates, kernels.
- Templates: the contents of a template and of its coinbase, with the payout rotation.
- Declaration: what a loop slower than the uplink's wait would leave over for the next
  session. The passing run has token changes under P2Pool only. Outside of P2Pool they
  break `AcceptedFirst` (`DeclarationTokens.cfg`) and `RightJob` in the same way: the changed
  template keeps its declaration id.
- Pot: unconfirmed coins that fund it, the cache of the spender search, reorganisations, replies
  with a wrong transaction id, the choice between this and the previous pot, the dry run, the
  baton of a claim.

Parts without a module:

- The order of job sources, their quarantine and the return to the own node: timers and
  scores decide, and no property of the supervisor depends on the choice (`Supervisor` lets a
  reconnection end with any job, `ClaimJournal` with any server that lags).
- SV2 channels, the SV1 translator and the codec: per-connection parsing and arithmetic.
- The Job Declaration server: `Declaration` lets the pool answer with any verdict in any
  order the protocol allows. Template Distribution: a source like the others in `Templates`,
  and a way for solutions into the journal of `BlockJournal`.
- Merge mining claims, the schedules of donation and hash split, the P2Pool launcher.
- GPU kernels, transaction and wire formats, cryptography, user interface, configuration: no
  protocol state.
