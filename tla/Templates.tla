------------------------------ MODULE Templates ------------------------------
(***************************************************************************)
(* From a node's block template to the work of a device                    *)
(* (stratum_v2/provider.rs, server.rs).                                    *)
(*                                                                         *)
(* The node thread takes templates from the first of its sources and moves *)
(* to the next one when that fails.  It publishes each template as a job   *)
(* with a lease of 30 seconds.  Under Job Declaration it publishes only    *)
(* while the uplink holds a plan of the pool, and with BCH P2Pool's own    *)
(* templates only after a helper, on a thread of its own, has prepared the *)
(* coinbases of the miner and of the donation.  The thread of a device     *)
(* compares the published job with the one the device has (what else it    *)
(* does is in Declaration).                                                *)
(*                                                                         *)
(* A parent stands for the previous block and its bits.  Times are left    *)
(* out: a lease, the coalescing window or the wait before a retry ends at  *)
(* any moment after it began, and older leases end first.                  *)
(***************************************************************************)
EXTENDS Integers, Sequences, FiniteSets

CONSTANTS
  Sources,    \* number of template sources
  Modes,      \* of "own", "declared", "p2pool": the server's settings
  MaxTip,     \* bound: blocks
  MaxEvents   \* bound, per mode: what the clock does (refreshes, ends of leases),
              \* token changes, donation sessions, and failures of nodes,
              \* sessions, preparations and queues

ASSUME ModesGiven == Modes \subseteq {"own", "declared", "p2pool"}
ASSUME BoundsGiven ==
  Sources \in Nat \ {0} /\ MaxTip \in Nat /\ MaxEvents \in [Modes -> Nat]

Slots == 1..Sources
None == [none |-> TRUE]

VARIABLES
  mode,      \* how templates reach the devices; never changes
  view,      \* per source: its tip
  good,      \* per source: whether it answers
  source,    \* per source: generation and current parent (TemplateProvider)
  order,     \* the sources in failover order
  gens,      \* Generations
  tokens,    \* serial of the merge-mined token set
  latest,    \* history: parent of the newest template
  off,       \* Offered
  issued,    \* Offered.issued
  job,       \* Shared.job, the published job
  plan,      \* the personal session's plan, 0 without one
  sessions,  \* sessions so far
  donation,  \* the donation session: its plan and its sessions so far
  taken,     \* the published job a device took last
  events

nodeVars == <<view, good>>
sourceVars == <<source, order, gens>>
offerVars == <<latest, off, issued, job>>
poolVars == <<plan, sessions, donation>>
vars == <<mode, nodeVars, sourceVars, tokens, offerVars, poolVars, taken, events>>

Spend(n) == events + n <= MaxEvents[mode] /\ events' = events + n
Event == Spend(1)

Init ==
  /\ mode \in Modes
  /\ view = [s \in Slots |-> 0] /\ good = [s \in Slots |-> TRUE]
  /\ source = [s \in Slots |-> [gen |-> 0, parent |-> -1]]
  /\ order = [i \in Slots |-> i] /\ gens = [count |-> 0, last |-> <<0, 0>>]
  /\ tokens = 0 /\ latest = -1
  /\ off = [plan |-> 0, donation |-> 0, cohort |-> 0, last |-> <<-1, 0>>,
            recent |-> FALSE, preparing |-> None, waiting |-> None,
            retry |-> FALSE, hold |-> FALSE]
  /\ issued = 0 /\ job = None
  /\ plan = 0 /\ sessions = 0 /\ donation = [plan |-> 0, sessions |-> 0]
  /\ taken = None /\ events = 0

---------------------------------------------------------------------------
(* The nodes.                                                              *)

(* A node sees the next block; the others may be behind.                   *)
NodeTip(s) ==
  /\ view[s] < MaxTip
  /\ view' = [view EXCEPT ![s] = @ + 1]
  /\ UNCHANGED <<mode, good, sourceVars, tokens, offerVars, poolVars, taken, events>>

NodeFails(s) ==
  /\ good[s] /\ Event /\ good' = [good EXCEPT ![s] = FALSE]
  /\ UNCHANGED <<mode, view, sourceVars, tokens, offerVars, poolVars, taken>>

NodeRecovers(s) ==
  /\ ~good[s] /\ good' = [good EXCEPT ![s] = TRUE]
  /\ UNCHANGED <<mode, view, sourceVars, tokens, offerVars, poolVars, taken, events>>

---------------------------------------------------------------------------
(* Publication.  The operators below compute the node thread's state: o is *)
(* Offered, j the published job.                                           *)

Lease(r) == r # None /\ r.fresh

(* failed_offer: fresh work of the same parent and session stays.          *)
FailedOffer(o, j, parent, pl) ==
  IF /\ Lease(j) /\ j.parent = parent
     /\ j.session = IF mode = "p2pool" THEN o.cohort ELSE pl
  THEN j ELSE None

(* failed_preparation: a retry is due soon, and devices wait for it.       *)
Failed(o) == [o EXCEPT !.last = <<-1, 0>>, !.retry = TRUE, !.hold = TRUE]

(* start_preparation: one runs at a time.                                  *)
Start(o) ==
  IF o.preparing = None /\ o.waiting # None
  THEN [o EXCEPT !.preparing = o.waiting, !.waiting = None]
  ELSE o

(* offer: a plan that came or went.                                        *)
Noticed(o) ==
  LET p == IF o.plan = plan THEN o
           ELSE [o EXCEPT !.plan = plan, !.cohort = @ + 1, !.last = <<-1, 0>>]
  IN  IF p.donation = donation.plan THEN p
      ELSE [p EXCEPT !.donation = donation.plan, !.last = <<-1, 0>>]

(* Offered.coalesce                                                        *)
Coalesced(o, parent) == o.last = <<parent, plan>> /\ o.recent

(* offer: without an uplink published at once; without a plan nothing is;  *)
(* a declared template goes to the uplink's queue first; P2Pool's is       *)
(* prepared first (its thread may fail to start).                          *)
Offer(was, cost, gen, parent) ==
  LET tok == tokens'
      o == Noticed(was)
      next == [o EXCEPT !.last = <<parent, plan>>, !.recent = TRUE]
      template == [gen |-> gen, session |-> plan, serial |-> tok, tokens |-> tok,
                   parent |-> parent, plan |-> plan, donation |-> 0, fresh |-> TRUE]
      asked == [gen |-> gen, cohort |-> o.cohort, tokens |-> tok, parent |-> parent,
                plan |-> plan, donation |-> donation.plan, fresh |-> TRUE,
                state |-> "running"]
      prepare == [next EXCEPT !.retry = FALSE, !.waiting = asked]
  IN
  \/ /\ mode = "own" /\ off' = was /\ job' = [template EXCEPT !.session = 0, !.plan = 0]
     /\ Spend(cost)
  \/ /\ mode # "own" /\ plan = 0
     /\ off' = [o EXCEPT !.waiting = None, !.retry = FALSE, !.hold = FALSE]
     /\ job' = None /\ Spend(cost)
  \/ /\ mode # "own" /\ plan # 0 /\ Coalesced(o, parent)
     /\ off' = o /\ UNCHANGED job /\ Spend(cost)
  \/ /\ mode = "declared" /\ plan # 0 /\ ~Coalesced(o, parent)
     /\ \/ off' = next /\ job' = template /\ Spend(cost)
        \/ /\ Spend(cost + 1) /\ off' = [next EXCEPT !.last = <<-1, 0>>]
           /\ job' = FailedOffer(o, job, parent, plan)
  \/ /\ mode = "p2pool" /\ plan # 0 /\ ~Coalesced(o, parent)
     /\ \/ off' = Start(prepare) /\ UNCHANGED job /\ Spend(cost)
        \/ /\ o.preparing = None /\ Spend(cost + 1)
           /\ off' = Failed([prepare EXCEPT !.waiting = None])
           /\ job' = FailedOffer(o, job, parent, plan)

(* Mutant: a source's own generation.                                      *)
SourceGeneration(s, gen) == [count |-> gen, last |-> <<s, gen>>]

(* Generations.of                                                          *)
Generation(s, gen) ==
  IF gens.last = <<s, gen>> THEN gens
  ELSE [count |-> gens.count + 1, last |-> <<s, gen>>]

---------------------------------------------------------------------------
(* The node thread.                                                        *)

Active == order[1]

(* What the next refresh by the clock must mend; it is not counted then.   *)
Unserved ==
  /\ ~Lease(job) /\ (mode = "own" \/ plan # 0)
  /\ ~off.recent /\ ~off.retry /\ off.preparing = None /\ off.waiting = None

(* TemplateProvider: tip_is_current, refresh, reset.                       *)
TipIsCurrent(s) == source[s].parent = view[s]
Refreshed(s) == [gen |-> source[s].gen + 1, parent |-> view[s]]
Reset(s) == [source EXCEPT ![s].parent = -1]

(* The template of the node's tip is published or offered.                 *)
Refresh ==
  LET s == Active
      new == Refreshed(s)
      g == Generation(s, new.gen)
      cost == IF TipIsCurrent(s) /\ ~Unserved THEN 1 ELSE 0
  IN
  /\ good[s]
  /\ source' = [source EXCEPT ![s] = new]
  /\ gens' = g /\ latest' = new.parent /\ UNCHANGED tokens
  /\ Offer(off, cost, g.count, new.parent)
  /\ UNCHANGED <<mode, nodeVars, order, issued, poolVars, taken>>

(* Mutant: the failed source stays first.                                  *)
StaysFirst == order

(* The source gives no template, or its tip moved meanwhile: its work is   *)
(* revoked, a preparation that runs is forgotten, and the next source      *)
(* takes its place.                                                        *)
Rotated == IF Sources > 1 THEN Tail(order) \o <<Head(order)>> ELSE order

RefreshFails ==
  /\ IF good[Active] THEN Event ELSE UNCHANGED events
  /\ job' = None
  /\ off' = [off EXCEPT !.preparing = None, !.waiting = None, !.last = <<-1, 0>>]
  /\ order' = Rotated
  /\ source' = Reset(Active)
  /\ UNCHANGED <<mode, nodeVars, gens, tokens, latest, issued, poolVars, taken>>

(* A saved block was accepted: the template is spent (submit_saved).       *)
BlockAccepted ==
  /\ source[Active].parent # -1 /\ view[Active] < MaxTip
  /\ source' = Reset(Active)
  /\ view' = [view EXCEPT ![Active] = @ + 1]
  /\ UNCHANGED <<mode, good, order, gens, tokens, offerVars, poolVars, taken, events>>

(* The current template again: the token set or a plan changed, or a       *)
(* failed preparation is due.                                              *)
Reoffer(was, cost) ==
  LET s == Active
      g == Generation(s, source[s].gen)
  IN
  /\ source[s].parent # -1
  /\ gens' = g /\ Offer(was, cost, g.count, source[s].parent)
  /\ UNCHANGED <<mode, nodeVars, source, order, latest, issued, poolVars, taken>>

TokensChange ==
  /\ tokens' = tokens + 1 /\ Reoffer(off, 1)

PlanChanged ==
  /\ mode # "own" /\ (plan # off.plan \/ donation.plan # off.donation)
  /\ UNCHANGED tokens /\ Reoffer(off, 0)

RetryDue ==
  LET due == [off EXCEPT !.retry = FALSE] IN
  /\ off.retry /\ off.preparing = None /\ off.waiting = None
  /\ UNCHANGED tokens
  /\ \/ Reoffer(due, 0)
     \/ /\ source[Active].parent = -1 /\ off' = due
        /\ UNCHANGED <<mode, nodeVars, sourceVars, latest, issued, job, poolVars, taken,
                       events>>

(* The helper answers on the preparation's thread, or the thread dies.     *)
Prepared(result) ==
  /\ off.preparing # None /\ off.preparing.state = "running"
  /\ result = "paired" => off.preparing.donation # 0
  /\ IF result \in {"failed", "died"} THEN Event ELSE UNCHANGED events
  /\ off' = [off EXCEPT !.preparing.state = result]
  /\ UNCHANGED <<mode, nodeVars, sourceVars, tokens, latest, issued, job, poolVars,
                 taken>>

(* Mutant: every result is finished.                                       *)
NeverSuperseded(done) == FALSE

(* A result on another parent than the offer that waits is dropped, and    *)
(* so is one of a session that is gone.                                    *)
Superseded(done) == off.waiting # None /\ off.waiting.parent # done.parent
NewSession(done) == done.cohort # off.cohort \/ plan # done.plan

(* finish_preparations, finish_offer: a pair that the donation's queue     *)
(* refuses goes alone, and the personal queue may refuse too.              *)
FinishPreparation ==
  LET done == off.preparing
      o == [off EXCEPT !.preparing = None]
      usable == done.state \in {"alone", "paired"}
      stale == Superseded(done) \/ NewSession(done)
      alone == [gen |-> done.gen, session |-> done.cohort, serial |-> issued + 1,
                tokens |-> done.tokens, parent |-> done.parent, plan |-> done.plan,
                donation |-> 0, fresh |-> done.fresh]
  IN
  /\ done # None /\ done.state # "running"
  /\ \/ /\ done.state # "died" /\ stale
        /\ off' = Start(o) /\ UNCHANGED <<issued, job, events>>
     \/ /\ done.state = "died" \/ ~stale
        /\ IF usable THEN Event ELSE UNCHANGED events
        /\ off' = Start(Failed(o))
        /\ job' = FailedOffer(o, job, done.parent, done.plan) /\ UNCHANGED issued
     \/ /\ usable /\ ~stale
        /\ off' = Start([o EXCEPT !.retry = FALSE, !.hold = FALSE])
        /\ issued' = issued + 1
        /\ \/ /\ done.state = "paired" /\ UNCHANGED events
              /\ job' = [alone EXCEPT !.donation = done.donation]
           \/ /\ IF done.state = "paired" THEN Event ELSE UNCHANGED events
              /\ job' = alone
  /\ UNCHANGED <<mode, nodeVars, sourceVars, tokens, latest, poolVars, taken>>

---------------------------------------------------------------------------
(* The clock.                                                              *)

Over(r) == IF r = None THEN r ELSE [r EXCEPT !.fresh = FALSE]

(* Leases end, the oldest first: the published job's, the running          *)
(* preparation's, the waiting one's.                                       *)
LeaseEnds ==
  \E n \in 1..3 :
    /\ Event
    /\ job' = Over(job)
    /\ off' = [off EXCEPT !.preparing = IF n > 1 THEN Over(@) ELSE @,
                          !.waiting = IF n > 2 THEN Over(@) ELSE @]
    /\ <<job, off>>' # <<job, off>>
    /\ UNCHANGED <<mode, nodeVars, sourceVars, tokens, latest, issued, poolVars, taken>>

(* 5 seconds since the last offer.                                         *)
CoalesceEnds ==
  /\ off.recent /\ off' = [off EXCEPT !.recent = FALSE]
  /\ UNCHANGED <<mode, nodeVars, sourceVars, tokens, latest, issued, job, poolVars,
                 taken, events>>

---------------------------------------------------------------------------
(* The uplink's sessions (jd/client.rs): a plan comes and goes with one.   *)

SessionStarts ==
  /\ mode # "own" /\ plan = 0
  /\ sessions' = sessions + 1 /\ plan' = sessions + 1
  /\ UNCHANGED <<mode, nodeVars, sourceVars, tokens, offerVars, donation, taken, events>>

SessionEnds ==
  /\ plan # 0 /\ Event /\ plan' = 0
  /\ UNCHANGED <<mode, nodeVars, sourceVars, tokens, offerVars, sessions, donation,
                 taken>>

DonationStarts ==
  /\ mode = "p2pool" /\ donation.plan = 0 /\ Event
  /\ donation' = [plan |-> donation.sessions + 1, sessions |-> donation.sessions + 1]
  /\ UNCHANGED <<mode, nodeVars, sourceVars, tokens, offerVars, plan, sessions, taken>>

DonationEnds ==
  /\ donation.plan # 0 /\ Event /\ donation' = [donation EXCEPT !.plan = 0]
  /\ UNCHANGED <<mode, nodeVars, sourceVars, tokens, offerVars, plan, sessions, taken>>

---------------------------------------------------------------------------
(* A device's thread: the generation and the serial tell a new job.        *)
SameJob(a, b) == a.gen = b.gen /\ a.session = b.session /\ a.serial = b.serial

Update ==
  /\ taken' = IF ~Lease(job) THEN None
              ELSE IF taken # None /\ SameJob(taken, job) THEN taken ELSE job
  /\ UNCHANGED <<mode, nodeVars, sourceVars, tokens, offerVars, poolVars, events>>

---------------------------------------------------------------------------
Helper == \E r \in {"alone", "paired", "failed", "died"} : Prepared(r)

Next ==
  \/ \E s \in Slots : NodeTip(s) \/ NodeFails(s) \/ NodeRecovers(s)
  \/ Refresh \/ RefreshFails \/ BlockAccepted
  \/ TokensChange \/ PlanChanged \/ RetryDue \/ Helper \/ FinishPreparation
  \/ LeaseEnds \/ CoalesceEnds
  \/ SessionStarts \/ SessionEnds \/ DonationStarts \/ DonationEnds
  \/ Update

Spec == Init /\ [][Next]_vars

(* The threads run, the helper's calls end at their deadline, time passes  *)
(* and the uplink reconnects.                                              *)
FairSpec ==
  /\ Spec
  /\ WF_vars(Refresh) /\ WF_vars(~good[Active] /\ RefreshFails) /\ WF_vars(PlanChanged)
  /\ WF_vars(RetryDue) /\ WF_vars(FinishPreparation) /\ WF_vars(Helper)
  /\ WF_vars(CoalesceEnds) /\ WF_vars(SessionStarts) /\ WF_vars(Update)

---------------------------------------------------------------------------
(* A publication is always of the newest template's parent and, under Job  *)
(* Declaration, of the plan the uplink holds: a preparation that ends late *)
(* (another block came, a source failed, a session was replaced) publishes *)
(* nothing old (finish_preparations, finish_offer).                        *)
PublishesNewest ==
  [][(job' # None /\ (job = None \/ ~SameJob(job, job'))) =>
       (job'.parent = latest' /\ (mode = "own" \/ job'.plan = plan'))]_vars

(* A device keeps its job when the published one has its generation and    *)
(* serial: then it is the same work, though every source counts its own    *)
(* generations and sessions and declarations come and go.                  *)
SameWork ==
  (taken # None /\ job # None /\ SameJob(taken, job)) =>
     [taken EXCEPT !.fresh = TRUE] = [job EXCEPT !.fresh = TRUE]

Served == taken # None /\ taken.parent = view[Active]

(* While some source answers, devices get work on the active source's tip  *)
(* again after any failure of nodes, sessions, preparations and donations. *)
WorkReturns == (<>[](\E s \in Slots : good[s])) => []<>Served
=============================================================================
