----------------------------- MODULE Declaration -----------------------------
(***************************************************************************)
(* A Job Declaration client (stratum_v2/jd/client.rs) between the local    *)
(* server and a pool.                                                      *)
(*                                                                         *)
(* The node thread queues every template it publishes to the uplink, which *)
(* declares it to the pool (in Full-Template mode to the job declarator    *)
(* first) and counts the newest template the pool accepted.  The thread of *)
(* a device reads the published job, and then that count (JobAvailability  *)
(* in server.rs), and queues the device's shares behind the templates; the *)
(* uplink sends a share under the pool's job of its template, or keeps it  *)
(* while the pool still has to answer.                                     *)
(*                                                                         *)
(* A template is its generation, its token set, its parent and the plan it *)
(* was built for: a different one of these is a different coinbase (under  *)
(* P2Pool a new token set only asks for a new coinbase).  The uplink tells *)
(* templates apart by a declaration id only.                               *)
(***************************************************************************)
EXTENDS Integers, Sequences, FiniteSets

CONSTANTS
  Modes,         \* of "declared", "p2pool"
  MaxGen,        \* bound, per mode: templates
  MaxParent,     \* bound: blocks
  MaxTokens,     \* bound, per mode: changes of the token set
  MaxSessions,   \* bound: pool sessions
  MaxShares,     \* bound: shares of the device
  MaxFaults,     \* bound: refusals, full queues, ends of leases and sessions
  QueueCap,      \* EVENTS
  CacheCap,      \* CACHED_SHARES
  KeptJobs,      \* KEPT_JOBS
  ActiveJobs     \* MAX_ACTIVE_JOBS of a channel

ASSUME ModesGiven == Modes \subseteq {"declared", "p2pool"}
ASSUME BoundsGiven ==
  /\ {MaxParent, MaxSessions, MaxShares, MaxFaults, CacheCap} \subseteq Nat
  /\ {QueueCap, KeptJobs, ActiveJobs} \subseteq Nat \ {0}
  /\ MaxGen \in [Modes -> Nat] /\ MaxTokens \in [Modes -> Nat]

VARIABLES
  mode, full,      \* settings: P2Pool's own templates; Full-Template
  newest,          \* the node thread's template: generation, tokens, parent
  offered,         \* Offered.plan
  issued,          \* Offered.issued
  job,             \* Shared.job: template, declaration id, whether its lease holds
  plan, sessions,  \* the uplink's plan (0 without one) and session serial
  queue,           \* the uplink's events
  asked,           \* declarations the pool has to answer
  jobs,            \* the pool's jobs the uplink knows, oldest first
  cache,           \* shares that wait for an answer
  ack,             \* JdStatus.acknowledged
  dev,             \* a device: its job and the older ones its channel accepts
  read,            \* what its thread has read: the published job, its own lease
  found,           \* history: shares of the device
  sent,            \* history: shares sent, with the template of the pool's job
  accepted,        \* history: templates the pool accepted
  overflow,        \* history: shares that found a queue or the cache full
  faults

serverVars == <<newest, offered, issued, job>>
uplinkVars == <<asked, jobs, cache, ack>>
history == <<found, sent, accepted, overflow>>
settings == <<mode, full>>
vars == <<settings, serverVars, plan, sessions, queue, uplinkVars, dev, read, history, faults>>

None == [none |-> TRUE]
Idle == [job |-> None, older |-> <<>>]
Fault == faults < MaxFaults /\ faults' = faults + 1

Init ==
  /\ mode \in Modes /\ full \in BOOLEAN
  /\ newest = [gen |-> 1, tok |-> 0, parent |-> 0]
  /\ offered = 0 /\ issued = 0 /\ job = None
  /\ plan = 0 /\ sessions = 0 /\ queue = <<>>
  /\ asked = {} /\ jobs = <<>> /\ cache = {} /\ ack = 0
  /\ dev = Idle /\ read = None
  /\ found = {} /\ sent = {} /\ accepted = {} /\ overflow = {} /\ faults = 0

---------------------------------------------------------------------------
(* The node thread.                                                        *)

Template(n) == [gen |-> n.gen, tok |-> n.tok, parent |-> n.parent, plan |-> plan]

(* Mutant: P2Pool declarations are told apart by their generation.         *)
GenerationId(n) == n.gen

(* BchTemplate::declaration_id                                             *)
DeclarationId(n) == IF mode = "p2pool" THEN issued + 1 ELSE n.gen

(* failed_offer: fresh work of the parent and session stays.               *)
Kept(n) ==
  IF job # None /\ job.fresh /\ job.t.parent = n.parent /\ job.t.plan = plan
  THEN job ELSE None

(* offer, finish_offer: the uplink's queue first, then the devices.        *)
Offer(n) ==
  LET new == [t |-> Template(n), id |-> DeclarationId(n)] IN
  /\ newest' = n /\ offered' = plan
  /\ \/ /\ plan = 0 /\ job' = None
        /\ UNCHANGED <<issued, queue, faults>>
     \/ /\ plan # 0 /\ Len(queue) < QueueCap
        /\ queue' = Append(queue, [kind |-> "published", t |-> new.t, id |-> new.id])
        /\ issued' = IF mode = "p2pool" THEN new.id ELSE issued
        /\ job' = [t |-> new.t, id |-> new.id, fresh |-> TRUE] /\ UNCHANGED faults
     \/ /\ plan # 0 /\ Len(queue) = QueueCap /\ Fault
        /\ job' = Kept(n) /\ UNCHANGED <<issued, queue>>
  /\ UNCHANGED <<settings, plan, sessions, uplinkVars, dev, read, history>>

Refresh(parent) ==
  /\ newest.gen < MaxGen[mode]
  /\ Offer([newest EXCEPT !.gen = @ + 1, !.parent = parent])

(* The same template with the token set of now.                            *)
TokensChange ==
  /\ newest.tok < MaxTokens[mode]
  /\ Offer([newest EXCEPT !.tok = @ + 1])

PlanChanged == plan # offered /\ Offer(newest)

HasTemplate(t) == dev.job # None /\ dev.job.t = t

(* The oldest leases end: the device's work, or the published job as well. *)
(* The device's thread takes the time when it reads the job.               *)
Ended(j) == IF j = None THEN j ELSE [j EXCEPT !.fresh = FALSE]

LeaseEnds ==
  /\ Fault
  /\ \/ /\ job # None /\ job.fresh /\ job' = Ended(job)
     \/ /\ dev.job # None /\ dev.job.fresh /\ job' = job
        /\ job # None => ~HasTemplate(job.t)
  /\ dev' = [dev EXCEPT !.job = Ended(dev.job)]
  /\ UNCHANGED <<settings, newest, offered, issued, plan, sessions, queue, uplinkVars,
                 read, history>>

---------------------------------------------------------------------------
(* The uplink thread: the queue.                                           *)

Awaits(a, id) == \E d \in a : d.id = id

(* A template is declared; shares are kept only while an answer is due.    *)
Declares(e) ==
  LET a == asked \cup {[id |-> e.id, t |-> e.t,
                        stage |-> IF full THEN "declarator" ELSE "pool"]}
  IN  /\ asked' = a /\ cache' = {s \in cache : Awaits(a, s.id)}

(* One of another plan is dropped, and so is one without a token or with   *)
(* too many transactions.                                                  *)
TakePublished ==
  /\ plan # 0 /\ queue # <<>> /\ Head(queue).kind = "published"
  /\ queue' = Tail(queue)
  /\ \/ /\ IF Head(queue).t.plan = plan THEN Declares(Head(queue))
           ELSE UNCHANGED <<asked, cache>>
        /\ UNCHANGED faults
     \/ /\ mode = "declared" \/ full
        /\ Fault /\ UNCHANGED <<asked, cache>>
  /\ UNCHANGED <<settings, serverVars, plan, sessions, jobs, ack, dev, read, history>>

(* The pool's newest job with the share's id.                              *)
NewestJob(i, id) == jobs[i].id = id /\ \A k \in i + 1..Len(jobs) : jobs[k].id # id
HasJob(id) == \E i \in DOMAIN jobs : jobs[i].id = id
Sent(s, j) == [n |-> s.n, t |-> s.t, job |-> j]

TakeShare ==
  LET s == Head(queue)
      share == [n |-> s.n, t |-> s.t, id |-> s.id]
  IN
  /\ plan # 0 /\ queue # <<>> /\ s.kind = "share"
  /\ queue' = Tail(queue)
  /\ \/ /\ \E i \in DOMAIN jobs :
             NewestJob(i, s.id) /\ sent' = sent \cup {Sent(s, jobs[i].t)}
        /\ UNCHANGED <<cache, overflow>>
     \/ /\ ~HasJob(s.id) /\ Awaits(asked, s.id)
        /\ IF Cardinality({c \in cache : c.id = s.id}) < CacheCap
           THEN cache' = cache \cup {share} /\ UNCHANGED overflow
           ELSE overflow' = overflow \cup {s.n} /\ UNCHANGED cache
        /\ UNCHANGED sent
     \/ ~HasJob(s.id) /\ ~Awaits(asked, s.id) /\ UNCHANGED <<sent, cache, overflow>>
  /\ UNCHANGED <<settings, serverVars, plan, sessions, asked, jobs, ack, dev, read,
                 found, accepted, faults>>

---------------------------------------------------------------------------
(* The uplink thread: the pool's answers, in any order.                    *)

DeclareMiningJobSuccess(d) ==
  /\ d.stage = "declarator"
  /\ asked' = (asked \ {d}) \cup {[d EXCEPT !.stage = "pool"]}
  /\ UNCHANGED <<settings, serverVars, plan, sessions, queue, jobs, cache, ack, dev,
                 read, history, faults>>

(* Mutant: the shares that wait are dropped with the answer.               *)
KeptForgotten(d) == {}

(* The shares that wait for this answer.                                   *)
KeptShares(d) == {s \in cache : s.id = d.id}

(* Mutant: old jobs are never forgotten.                                   *)
AllJobs(known) == known

NewestJobs(known) == IF Len(known) > KeptJobs THEN Tail(known) ELSE known

SetCustomMiningJobSuccess(d) ==
  /\ d.stage = "pool" /\ asked' = asked \ {d}
  /\ jobs' = NewestJobs(Append(jobs, [id |-> d.id, t |-> d.t]))
  /\ ack' = IF d.id > ack THEN d.id ELSE ack
  /\ sent' = sent \cup {Sent(s, d.t) : s \in KeptShares(d)}
  /\ cache' = {s \in cache : s.id # d.id}
  /\ accepted' = accepted \cup {d.t}
  /\ UNCHANGED <<settings, serverVars, plan, sessions, queue, dev, read, found,
                 overflow, faults>>

(* A race at a new block, a refused declaration, or missing transactions   *)
(* that do not fit a frame.                                                *)
Refused(d) ==
  /\ Fault /\ asked' = asked \ {d}
  /\ cache' = {s \in cache : s.id # d.id}
  /\ UNCHANGED <<settings, serverVars, plan, sessions, queue, jobs, ack, dev, read,
                 history>>

---------------------------------------------------------------------------
(* The uplink thread: its sessions.                                        *)

SessionEnds ==
  /\ plan # 0 /\ Fault /\ plan' = 0
  /\ asked' = {} /\ jobs' = <<>> /\ cache' = {}
  /\ UNCHANGED <<settings, serverVars, sessions, queue, ack, dev, read, history>>

(* While it waits to try again the uplink drops what is queued.            *)
Drain ==
  /\ plan = 0 /\ queue # <<>> /\ queue' = Tail(queue)
  /\ UNCHANGED <<settings, serverVars, plan, sessions, uplinkVars, dev, read, history,
                 faults>>

(* The wait is 30 seconds or more: the node's loop has withdrawn the work  *)
(* of the last session, and the devices' loops revoked it and read none.   *)
SessionStarts ==
  /\ plan = 0 /\ sessions < MaxSessions
  /\ queue = <<>> /\ job = None /\ dev = Idle /\ (read # None => read.job = None)
  /\ sessions' = sessions + 1 /\ plan' = sessions + 1 /\ ack' = 0
  /\ found' = {} /\ sent' = {} /\ overflow' = {}
  /\ UNCHANGED <<settings, serverVars, queue, asked, jobs, cache, dev, read,
                 accepted, faults>>

---------------------------------------------------------------------------
(* The device's thread (JobAvailability::update and the channel's jobs).   *)

Accepted(j) == ack >= j.id
SameSession(j) == dev.job.t.parent = j.t.parent /\ dev.job.t.plan = j.t.plan

(* The arguments of update: the published job and the time first.          *)
ReadJob ==
  /\ read = None
  /\ read' = [job |-> job, live |-> dev.job # None /\ dev.job.fresh]
  /\ UNCHANGED <<settings, serverVars, plan, sessions, queue, uplinkVars, dev, history,
                 faults>>

(* P2Pool: while the job waits for the pool, accepted work of its parent   *)
(* and session stays as long as its lease holds.                           *)
Held(j) ==
  /\ mode = "p2pool" /\ j # None /\ ~Accepted(j)
  /\ dev.job # None /\ SameSession(j) /\ read.live /\ Accepted(dev.job)

Usable(j) == j # None /\ j.fresh /\ (mode = "p2pool" => Accepted(j))

(* Mutant: newer work goes to the device at once.                          *)
NeverGated(j) == FALSE

(* Same-parent gating.                                                     *)
Gated(j) ==
  /\ mode = "declared" /\ dev.job # None
  /\ SameSession(j) /\ j.t.gen > ack

(* Channel::retain_previous                                                *)
Previous(j) ==
  CASE dev.job = None -> dev.older
    [] dev.job # None /\ dev.job.t.parent # j.t.parent -> <<>>
    [] dev.job # None /\ dev.job.t.parent = j.t.parent ->
         LET all == Append(dev.older, dev.job)
         IN  IF Len(all) >= ActiveJobs THEN Tail(all) ELSE all

(* The accepted declarations are read last, and the job that was read goes *)
(* to the device, or is revoked, or nothing changes.                       *)
Update ==
  LET j == read.job IN
  /\ read # None /\ read' = None
  /\ \/ /\ Usable(j) /\ ~Gated(j)
        /\ ~HasTemplate(j.t)
        /\ dev' = [job |-> j, older |-> Previous(j)]
     \/ Usable(j) /\ (HasTemplate(j.t) \/ Gated(j)) /\ UNCHANGED dev
     \/ Held(j) /\ UNCHANGED dev
     \/ ~Usable(j) /\ ~Held(j) /\ dev' = Idle
  /\ UNCHANGED <<settings, serverVars, plan, sessions, queue, uplinkVars, history, faults>>

(* A share of a job the channel still accepts is handed to the uplink.     *)
Find ==
  \E j \in {dev.job} \cup {dev.older[k] : k \in DOMAIN dev.older} :
    LET share == [n |-> Cardinality(found) + 1, t |-> j.t, id |-> j.id] IN
    /\ read = None /\ dev.job # None /\ share.n <= MaxShares
    /\ found' = found \cup {share}
    /\ IF Len(queue) < QueueCap
       THEN /\ queue' = Append(queue, [kind |-> "share", n |-> share.n,
                                       t |-> share.t, id |-> share.id])
            /\ UNCHANGED overflow
       ELSE overflow' = overflow \cup {share.n} /\ UNCHANGED queue
    /\ UNCHANGED <<settings, serverVars, plan, sessions, uplinkVars, dev, read, sent,
                   accepted, faults>>

---------------------------------------------------------------------------
Next ==
  \/ \E parent \in {newest.parent, newest.parent + 1} :
       parent <= MaxParent /\ Refresh(parent)
  \/ TokensChange
  \/ PlanChanged
  \/ LeaseEnds
  \/ TakePublished
  \/ TakeShare
  \/ \E d \in asked : DeclareMiningJobSuccess(d)
  \/ \E d \in asked : SetCustomMiningJobSuccess(d)
  \/ \E d \in asked : Refused(d)
  \/ SessionEnds
  \/ Drain
  \/ SessionStarts
  \/ ReadJob
  \/ Update
  \/ Find

Spec == Init /\ [][Next]_vars

---------------------------------------------------------------------------
(* Properties.                                                             *)

Templates ==
  [gen : Nat \ {0}, tok : Nat, parent : 0..MaxParent, plan : 1..MaxSessions]
Work == [t : Templates, id : Nat \ {0}, fresh : BOOLEAN]
Shares == [n : 1..MaxShares, t : Templates, id : Nat \ {0}]

(* The state has its type: the queue, the pool's jobs the uplink keeps,    *)
(* the shares that wait and the jobs of a channel are within their caps.   *)
TypeOK ==
  /\ mode \in Modes /\ full \in BOOLEAN
  /\ newest \in [gen : Nat \ {0}, tok : Nat, parent : 0..MaxParent]
  /\ {offered, plan, sessions} \subseteq 0..MaxSessions /\ {issued, ack} \subseteq Nat
  /\ job \in Work \cup {None}
  /\ Len(queue) <= QueueCap
  /\ asked \subseteq [id : Nat, t : Templates, stage : {"declarator", "pool"}]
  /\ Len(jobs) <= KeptJobs /\ \A i \in DOMAIN jobs : jobs[i] \in [id : Nat, t : Templates]
  /\ cache \cup found \subseteq Shares
  /\ \A s \in cache : Cardinality({c \in cache : c.id = s.id}) <= CacheCap
  /\ dev.job \in Work \cup {None} /\ Len(dev.older) < ActiveJobs
  /\ read \in [job : Work \cup {None}, live : BOOLEAN] \cup {None}
  /\ sent \subseteq [n : 1..MaxShares, t : Templates, job : Templates]
  /\ accepted \subseteq Templates /\ overflow \subseteq 1..MaxShares
  /\ faults \in 0..MaxFaults

(* Every share goes to the pool under the job of the template it was found *)
(* on, never under another one of the same parent, of another token set or *)
(* of the session before (jobs.iter().rev().find and the cache).           *)
RightJob == \A s \in sent : s.t = s.job

(* A share found on work whose custom job the pool accepted is in the      *)
(* uplink's queue or was sent, unless the queue or the cache was full: it  *)
(* is never dropped for arriving before the pool's answer.                 *)
NoSilentLoss ==
  \A s \in found :
    (\E i \in DOMAIN jobs : jobs[i].t = s.t) =>
      \/ s.n \in overflow
      \/ \E x \in sent : x.n = s.n
      \/ \E i \in DOMAIN queue : queue[i].kind = "share" /\ queue[i].n = s.n

(* The work a device takes that the pool has to accept first: any under    *)
(* P2Pool, and newer work on the parent and session of the work it has.    *)
TakesNew ==
  /\ dev'.job # None /\ ~HasTemplate(dev'.job.t)
  /\ mode = "p2pool" \/ (dev.job # None /\ SameSession(dev'.job))

Replaced(j) == job = None \/ job.t # j.t
NotOlder(x, t) == x.plan = t.plan /\ x.gen >= t.gen /\ x.tok >= t.tok

(* The pool accepted the work a device takes so.  Only when the work was   *)
(* replaced after the thread read it may the pool have accepted newer work *)
(* of the session instead (JobAvailability::update reads the published job *)
(* first, and the count of accepted declarations after it).                *)
AcceptedFirst ==
  [][ TakesNew =>
        \E x \in accepted :
          x = dev'.job.t \/ (Replaced(dev'.job) /\ NotOlder(x, dev'.job.t)) ]_vars

(* Without the exception: the pool accepted that very work.  A declaration *)
(* that is accepted between the two reads refutes it, and so do token sets *)
(* that change outside of P2Pool.                                          *)
AlwaysAccepted == [][ TakesNew => dev'.job.t \in accepted ]_vars
=============================================================================
