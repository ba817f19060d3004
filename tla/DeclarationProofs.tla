-------------------------- MODULE DeclarationProofs --------------------------
(***************************************************************************)
(* Proofs about the Job Declaration client, for any bounds and caps: the   *)
(* caps hold, a share goes to the pool under the job of its template, none *)
(* found on accepted work is lost, and devices move to newer work only     *)
(* once the pool accepted it or work that replaced it.                     *)
(***************************************************************************)
EXTENDS Declaration, TLAPS

(* Declarations: what a template is offered as.                            *)
Item(x) == [id |-> x.id, t |-> x.t]
Items == [id : Nat \ {0}, t : Templates]
Event ==
  [kind : {"published"}, t : Templates, id : Nat \ {0}]
    \cup [kind : {"share"}, n : 1..MaxShares, t : Templates, id : Nat \ {0}]

ServerTypes ==
  /\ mode \in Modes /\ full \in BOOLEAN
  /\ newest \in [gen : Nat \ {0}, tok : Nat, parent : 0..MaxParent]
  /\ offered \in 0..MaxSessions /\ plan \in 0..MaxSessions /\ sessions \in 0..MaxSessions
  /\ issued \in Nat /\ ack \in Nat /\ job \in Work \cup {None} /\ faults \in 0..MaxFaults
UplinkTypes ==
  /\ queue \in Seq(Event) /\ Len(queue) <= QueueCap
  /\ asked \subseteq [id : Nat \ {0}, t : Templates, stage : {"declarator", "pool"}]
  /\ jobs \in Seq(Items) /\ Len(jobs) <= KeptJobs
  /\ cache \subseteq Shares
DeviceTypes ==
  /\ dev \in [job : Work \cup {None}, older : Seq(Work)] /\ Len(dev.older) < ActiveJobs
  /\ read \in [job : Work \cup {None}, live : BOOLEAN] \cup {None}
HistoryTypes ==
  /\ found \subseteq Shares
  /\ sent \subseteq [n : 1..MaxShares, t : Templates, job : Templates]
  /\ accepted \subseteq Templates /\ overflow \subseteq 1..MaxShares
Types == ServerTypes /\ UplinkTypes /\ DeviceTypes /\ HistoryTypes

(* Templates that declarations of one id have, in the mode md: the token   *)
(* sets are the same under P2Pool, and where they never change.            *)
OneTokens(md) == md = "p2pool" \/ MaxTokens[md] = 0
Alike(md, x, y) ==
  x.gen = y.gen /\ x.parent = y.parent /\ x.plan = y.plan /\ (OneTokens(md) => x = y)

(* M is what this session's templates were declared as, in the mode md,    *)
(* with the newest template nw, is ids issued, the published job jb and    *)
(* the session's serial ss.                                                *)
Known(M, md, nw, is, jb, ss) ==
  \A a \in M :
    /\ a.t.plan = ss /\ a.t.gen <= nw.gen /\ a.t.tok <= nw.tok
    /\ a.t.gen = nw.gen => a.t.parent = nw.parent
    /\ IF md = "p2pool" THEN a.id <= is ELSE a.id = a.t.gen
    /\ jb # None => a.id <= jb.id
Distinct(M, md) ==
  \A a \in M, b \in M : (a.id = b.id => Alike(md, a.t, b.t)) /\ (a.t = b.t => a.id = b.id)
(* Newer declarations have greater ids.                                    *)
Ordered(M, md) ==
  \A a \in M, b \in M :
    a.id <= b.id => a.t.gen <= b.t.gen /\ (OneTokens(md) => a.t.tok <= b.t.tok)
Within(M, q, js, shares, jb, dv, rd) ==
  /\ \A i \in DOMAIN q : Item(q[i]) \in M
  /\ \A i \in DOMAIN js : Item(js[i]) \in M
  /\ \A x \in shares : Item(x) \in M
  /\ jb # None => Item(jb) \in M
  /\ dv.job # None => Item(dv.job) \in M
  /\ \A i \in DOMAIN dv.older : Item(dv.older[i]) \in M
  /\ rd # None /\ rd.job # None => Item(rd.job) \in M
Acked(M, n, acc) == n # 0 => \E a \in M : a.id = n /\ a.t \in acc

Sessions ==
  /\ newest.tok <= MaxTokens[mode] /\ offered <= sessions /\ plan \in {0, sessions}
  /\ plan = 0 => asked = {} /\ jobs = <<>> /\ cache = {}
Declared(M) ==
  /\ M \in SUBSET Items
  /\ Known(M, mode, newest, issued, job, sessions) /\ Distinct(M, mode) /\ Ordered(M, mode)
  /\ Within(M, queue, jobs, asked \cup cache \cup found, job, dev, read)
  /\ Acked(M, ack, accepted)
  /\ plan # 0 /\ offered # plan => M = {}

(* Every share went to the pool under a job of its generation, parent and  *)
(* plan, whatever token sets came and went.                                *)
SameBlock == \A s \in sent : Alike(mode, s.t, s.job)

IInv == Types /\ Sessions /\ (\E M : Declared(M)) /\ SameBlock

---------------------------------------------------------------------------
(* None is no work.                                                        *)
LEMMA Nones == None \notin Work
<1>1. DOMAIN None = {"none"}
  BY Zenon DEF None
<1>2. \A r \in Work : "t" \in DOMAIN r
  BY DEF Work
<1> QED
  BY <1>1, <1>2

LEMMA Bounds ==
  /\ MaxParent \in Nat /\ MaxSessions \in Nat /\ MaxShares \in Nat /\ MaxFaults \in Nat
  /\ CacheCap \in Nat
  /\ QueueCap \in Nat \ {0} /\ KeptJobs \in Nat \ {0} /\ ActiveJobs \in Nat \ {0}
  /\ \A m \in Modes : MaxTokens[m] \in Nat
  BY BoundsGiven

LEMMA InitTypes == Init => Types
<1> SUFFICES ASSUME Init PROVE Types
  OBVIOUS
<1>1. ServerTypes
  BY Bounds DEF Init, ServerTypes
<1>2. UplinkTypes
  BY Bounds DEF Init, UplinkTypes
<1>3. DeviceTypes
  BY Bounds DEF Init, DeviceTypes, Idle
<1>4. HistoryTypes
  BY Zenon DEF Init, HistoryTypes
<1> QED
  BY <1>1, <1>2, <1>3, <1>4 DEF Types

LEMMA FaultTypes ==
  ASSUME ServerTypes, Fault \/ UNCHANGED faults
  PROVE  faults' \in 0..MaxFaults
  BY Bounds DEF ServerTypes, Fault

(* Template and declaration id.                                            *)
LEMMA NewTypes ==
  ASSUME Types, plan # 0, NEW n \in [gen : Nat \ {0}, tok : Nat, parent : 0..MaxParent]
  PROVE  Template(n) \in Templates /\ DeclarationId(n) \in Nat \ {0}
<1>1. plan \in 1..MaxSessions /\ issued \in Nat
  BY DEF Types, ServerTypes
<1>2. n.gen \in Nat \ {0}
  BY Bounds
<1> QED
  BY <1>1, <1>2 DEF Template, Templates, DeclarationId

LEMMA OfferTypes ==
  ASSUME Types, NEW n \in [gen : Nat \ {0}, tok : Nat, parent : 0..MaxParent], Offer(n)
  PROVE  Types'
<1> USE DEF Types
<1>0. /\ newest' = n /\ offered' = plan
      /\ UNCHANGED <<mode, full, plan, sessions, asked, jobs, cache, ack, dev, read, found,
                     sent, accepted, overflow>>
  BY Zenon DEF Offer, settings, uplinkVars, history
<1>1. DeviceTypes' /\ HistoryTypes'
  BY <1>0, Zenon DEF DeviceTypes, HistoryTypes
<1>2. faults' \in 0..MaxFaults
  <2>1. Fault \/ UNCHANGED faults
    BY Zenon DEF Offer
  <2> QED
    BY <2>1, FaultTypes
<1>3. CASE plan # 0 /\ Len(queue) < QueueCap
  <2> DEFINE t == Template(n)
             id == DeclarationId(n)
             e == [kind |-> "published", t |-> t, id |-> id]
  <2>1. t \in Templates /\ id \in Nat \ {0}
    BY <1>3, NewTypes
  <2>2. /\ queue' = Append(queue, e) /\ issued' \in {id, issued}
        /\ job' = [t |-> t, id |-> id, fresh |-> TRUE]
    BY <1>3, Bounds DEF Offer, UplinkTypes
  <2> HIDE DEF t, id
  <2>3. e \in Event /\ job' \in Work
    BY <2>1, <2>2, Zenon DEF Event, Work
  <2> HIDE DEF e
  <2>4. queue' \in Seq(Event) /\ Len(queue') <= QueueCap
    BY <1>3, <2>2, <2>3, Bounds DEF UplinkTypes
  <2> QED
    BY <1>0, <1>1, <1>2, <2>1, <2>2, <2>3, <2>4, Zenon DEF ServerTypes, UplinkTypes
<1>4. CASE ~(plan # 0 /\ Len(queue) < QueueCap)
  <2>1. UNCHANGED <<issued, queue>> /\ job' \in {job, None}
    BY <1>4, Zenon DEF Offer, Kept
  <2> QED
    BY <1>0, <1>1, <1>2, <2>1, Zenon DEF ServerTypes, UplinkTypes
<1> QED
  BY <1>3, <1>4

(* What the node thread offers.                                            *)
LEMMA OffersTypes ==
  ASSUME Types
  PROVE  /\ \A parent \in {newest.parent, newest.parent + 1} :
              parent <= MaxParent /\ Refresh(parent) => Types'
         /\ TokensChange => Types'
         /\ PlanChanged => Types'
<1> DEFINE N == [gen : Nat \ {0}, tok : Nat, parent : 0..MaxParent]
<1>0. newest \in N
  BY DEF Types, ServerTypes
<1>1. ASSUME NEW parent \in {newest.parent, newest.parent + 1}, parent <= MaxParent,
             Refresh(parent)
      PROVE  Types'
  <2>1. newest.gen + 1 \in Nat \ {0} /\ parent \in 0..MaxParent
    BY <1>0, <1>1, Bounds DEF Refresh
  <2>2. [newest EXCEPT !.gen = @ + 1, !.parent = parent] \in N
    BY <1>0, <2>1, Zenon
  <2> QED
    BY <1>1, <2>2, OfferTypes, Zenon DEF Refresh
<1>2. CASE TokensChange
  <2>1. [newest EXCEPT !.tok = @ + 1] \in N
    BY <1>0
  <2> QED
    BY <1>2, <2>1, OfferTypes DEF TokensChange
<1>3. CASE PlanChanged
  BY <1>0, <1>3, OfferTypes DEF PlanChanged
<1> QED
  BY <1>1, <1>2, <1>3, Zenon

LEMMA EndedIs ==
  \A j \in Work \cup {None} :
    /\ Ended(j) \in Work \cup {None} /\ (Ended(j) = None <=> j = None)
    /\ j # None => Ended(j).t = j.t /\ Ended(j).id = j.id
<1>1. \A j \in Work : LET e == [j EXCEPT !.fresh = FALSE] IN
        e \in Work /\ e.t = j.t /\ e.id = j.id
  BY Zenon DEF Work
<1> QED
  BY <1>1, Nones, Zenon DEF Ended

LEMMA LeaseEndsTypes == Types /\ LeaseEnds => Types'
<1> SUFFICES ASSUME Types, LeaseEnds PROVE Types'
  OBVIOUS
<1> USE DEF Types
<1>1. /\ UNCHANGED <<mode, full, newest, offered, issued, plan, sessions, queue, asked,
                     jobs, cache, ack, read, found, sent, accepted, overflow>>
      /\ job' \in {job, Ended(job)} /\ dev' = [dev EXCEPT !.job = Ended(dev.job)]
      /\ Fault
  BY DEF LeaseEnds, settings, uplinkVars, history
<1>2. faults' \in 0..MaxFaults
  BY <1>1, FaultTypes
<1>3. job' \in Work \cup {None}
  BY <1>1, EndedIs, Zenon DEF ServerTypes
<1>4. DeviceTypes'
  <2>1. dev \in [job : Work \cup {None}, older : Seq(Work)]
    BY DEF DeviceTypes
  <2>2. Ended(dev.job) \in Work \cup {None}
    BY <2>1, EndedIs
  <2> QED
    BY <1>1, <2>1, <2>2, Zenon DEF DeviceTypes
<1> QED
  BY <1>1, <1>2, <1>3, <1>4, Zenon DEF ServerTypes, UplinkTypes, HistoryTypes

(* What the uplink takes from the queue.                                   *)
LEMMA TakenTypes ==
  ASSUME UplinkTypes, queue # <<>>
  PROVE  /\ Head(queue) \in Event /\ Tail(queue) \in Seq(Event)
         /\ Len(Tail(queue)) <= QueueCap
  BY Bounds DEF UplinkTypes

LEMMA TakePublishedTypes == Types /\ TakePublished => Types'
<1> SUFFICES ASSUME Types, TakePublished PROVE Types'
  OBVIOUS
<1> USE DEF Types
<1>1. /\ UNCHANGED <<mode, full, newest, offered, issued, job, plan, sessions, jobs, ack,
                     dev, read, found, sent, accepted, overflow>>
      /\ queue # <<>> /\ queue' = Tail(queue) /\ Head(queue).kind = "published"
      /\ Declares(Head(queue)) \/ UNCHANGED <<asked, cache>>
  BY Zenon DEF TakePublished, settings, serverVars, history
<1>2. faults' \in 0..MaxFaults
  <2>1. Fault \/ UNCHANGED faults
    BY Zenon DEF TakePublished
  <2> QED
    BY <2>1, FaultTypes
<1>3. cache' \subseteq cache
  BY <1>1, Zenon DEF Declares
<1>4. asked' \subseteq [id : Nat \ {0}, t : Templates, stage : {"declarator", "pool"}]
  <2>1. Head(queue).id \in Nat \ {0} /\ Head(queue).t \in Templates
    BY <1>1, TakenTypes, Zenon DEF Event
  <2> QED
    BY <1>1, <2>1 DEF Declares, UplinkTypes
<1>5. UplinkTypes'
  BY <1>1, <1>3, <1>4, TakenTypes, Zenon DEF UplinkTypes
<1> QED
  BY <1>1, <1>2, <1>5, Zenon DEF ServerTypes, DeviceTypes, HistoryTypes

LEMMA TakeShareTypes == Types /\ TakeShare => Types'
<1> SUFFICES ASSUME Types, TakeShare PROVE Types'
  OBVIOUS
<1> USE DEF Types
<1> DEFINE s == Head(queue)
           share == [n |-> s.n, t |-> s.t, id |-> s.id]
<1>1. /\ UNCHANGED <<mode, full, newest, offered, issued, job, plan, sessions, asked, jobs,
                     ack, dev, read, found, accepted, faults>>
      /\ queue # <<>> /\ queue' = Tail(queue) /\ s.kind = "share"
  BY Zenon DEF TakeShare, settings, serverVars
<1>2. /\ s.n \in 1..MaxShares /\ s.t \in Templates /\ s.id \in Nat \ {0}
      /\ share \in Shares
  BY <1>1, TakenTypes, Zenon DEF Event, Shares
<1>3. /\ cache' = cache \/ cache' = cache \cup {share}
      /\ overflow' = overflow \/ overflow' = overflow \cup {s.n}
      /\ sent' = sent \/ \E i \in DOMAIN jobs : sent' = sent \cup {Sent(s, jobs[i].t)}
  BY Zenon DEF TakeShare
<1> HIDE DEF s, share
<1>4. UplinkTypes'
  BY <1>1, <1>2, <1>3, TakenTypes, Zenon DEF UplinkTypes
<1>5. sent' \subseteq [n : 1..MaxShares, t : Templates, job : Templates]
  <2>1. \A i \in DOMAIN jobs : jobs[i] \in Items
    BY DEF UplinkTypes
  <2>2. \A i \in DOMAIN jobs :
          Sent(s, jobs[i].t) \in [n : 1..MaxShares, t : Templates, job : Templates]
    BY <1>2, <2>1, Zenon DEF Items, Sent
  <2>3. sent \subseteq [n : 1..MaxShares, t : Templates, job : Templates]
    BY DEF HistoryTypes
  <2> QED
    BY <1>3, <2>2, <2>3, Zenon
<1> QED
  BY <1>1, <1>2, <1>3, <1>4, <1>5, Zenon DEF ServerTypes, DeviceTypes, HistoryTypes

(* The pool's answers.                                                     *)
LEMMA DeclareMiningJobSuccessTypes ==
  ASSUME Types, NEW d \in asked, DeclareMiningJobSuccess(d) PROVE Types'
<1> USE DEF Types
<1>1. /\ UNCHANGED <<mode, full, newest, offered, issued, job, plan, sessions, queue, jobs,
                     cache, ack, dev, read, found, sent, accepted, overflow, faults>>
      /\ asked' = (asked \ {d}) \cup {[d EXCEPT !.stage = "pool"]}
  BY DEF DeclareMiningJobSuccess, settings, serverVars, history
<1>2. asked' \subseteq [id : Nat \ {0}, t : Templates, stage : {"declarator", "pool"}]
  BY <1>1, Zenon DEF UplinkTypes
<1> QED
  BY <1>1, <1>2, Zenon DEF ServerTypes, UplinkTypes, DeviceTypes, HistoryTypes

LEMMA NewestJobsIs ==
  ASSUME NEW S, NEW js \in Seq(S), Len(js) <= KeptJobs, NEW x \in S
  PROVE  LET known == Append(js, x)
             ns == NewestJobs(known)
         IN  /\ ns \in Seq(S) /\ Len(ns) <= KeptJobs
             /\ \A i \in DOMAIN ns : ns[i] = x \/ \E k \in DOMAIN js : ns[i] = js[k]
<1> DEFINE known == Append(js, x)
<1>1. /\ known \in Seq(S) /\ Len(known) = Len(js) + 1 /\ known # <<>>
      /\ \A i \in DOMAIN known : known[i] = x \/ \E k \in DOMAIN js : known[i] = js[k]
  OBVIOUS
<1> HIDE DEF known
<1>2. CASE Len(known) > KeptJobs
  <2>1. /\ Tail(known) \in Seq(S) /\ Len(Tail(known)) = Len(known) - 1
        /\ \A i \in DOMAIN Tail(known) : i + 1 \in DOMAIN known /\ Tail(known)[i] = known[i + 1]
    BY <1>1
  <2>2. NewestJobs(known) = Tail(known)
    BY <1>2 DEF NewestJobs
  <2>3. Len(Tail(known)) <= KeptJobs
    BY <1>1, <2>1, Bounds
  <2> QED
    BY <1>1, <2>1, <2>2, <2>3 DEF known
<1>3. CASE ~(Len(known) > KeptJobs)
  <2>1. NewestJobs(known) = known /\ Len(known) <= KeptJobs
    BY <1>1, <1>3, Bounds DEF NewestJobs
  <2> QED
    BY <1>1, <2>1, Zenon DEF known
<1> QED
  BY <1>2, <1>3, Zenon

LEMMA SetCustomMiningJobSuccessTypes ==
  ASSUME Types, NEW d \in asked, SetCustomMiningJobSuccess(d) PROVE Types'
<1> USE DEF Types
<1>1. /\ UNCHANGED <<mode, full, newest, offered, issued, job, plan, sessions, queue, dev, read,
                     found, overflow, faults>>
      /\ asked' = asked \ {d} /\ ack' \in {ack, d.id}
      /\ jobs' = NewestJobs(Append(jobs, [id |-> d.id, t |-> d.t]))
      /\ sent' = sent \cup {Sent(s, d.t) : s \in KeptShares(d)}
      /\ cache' \subseteq cache /\ accepted' = accepted \cup {d.t}
  BY Zenon DEF SetCustomMiningJobSuccess, settings, serverVars
<1>2. d.id \in Nat \ {0} /\ d.t \in Templates /\ [id |-> d.id, t |-> d.t] \in Items
  BY DEF UplinkTypes, Items
<1>3. jobs' \in Seq(Items) /\ Len(jobs') <= KeptJobs
  BY <1>1, <1>2, NewestJobsIs, Zenon DEF UplinkTypes
<1>4. UplinkTypes'
  BY <1>1, <1>3, Zenon DEF UplinkTypes
<1>5. \A s \in KeptShares(d) :
        Sent(s, d.t) \in [n : 1..MaxShares, t : Templates, job : Templates]
  BY <1>2, Zenon DEF KeptShares, UplinkTypes, Shares, Sent
<1>6. HistoryTypes'
  BY <1>1, <1>2, <1>5, Zenon DEF HistoryTypes
<1> QED
  BY <1>1, <1>2, <1>4, <1>6, Zenon DEF ServerTypes, DeviceTypes

LEMMA RefusedTypes ==
  ASSUME Types, NEW d \in asked, Refused(d) PROVE Types'
<1> USE DEF Types
<1>1. /\ UNCHANGED <<mode, full, newest, offered, issued, job, plan, sessions, queue, jobs,
                     ack, dev, read, found, sent, accepted, overflow>>
      /\ asked' \subseteq asked /\ cache' \subseteq cache
  BY Zenon DEF Refused, settings, serverVars, history
<1>2. faults' \in 0..MaxFaults
  <2>1. Fault \/ UNCHANGED faults
    BY Zenon DEF Refused
  <2> QED
    BY <2>1, FaultTypes
<1> QED
  BY <1>1, <1>2, Zenon DEF ServerTypes, UplinkTypes, DeviceTypes, HistoryTypes

(* Sessions.                                                               *)
LEMMA SessionEndsTypes == Types /\ SessionEnds => Types'
<1> SUFFICES ASSUME Types, SessionEnds PROVE Types'
  OBVIOUS
<1> USE DEF Types
<1>1. /\ UNCHANGED <<mode, full, newest, offered, issued, job, sessions, queue, ack, dev, read,
                     found, sent, accepted, overflow>>
      /\ asked' = {} /\ jobs' = <<>> /\ cache' = {} /\ plan' = 0
  BY DEF SessionEnds, settings, serverVars, history
<1>2. faults' \in 0..MaxFaults
  <2>1. Fault \/ UNCHANGED faults
    BY Zenon DEF SessionEnds
  <2> QED
    BY <2>1, FaultTypes
<1> QED
  BY <1>1, <1>2, Bounds DEF ServerTypes, UplinkTypes, DeviceTypes, HistoryTypes

LEMMA DrainTypes == Types /\ Drain => Types'
<1> SUFFICES ASSUME Types, Drain PROVE Types'
  OBVIOUS
<1> USE DEF Types
<1>1. /\ UNCHANGED <<mode, full, newest, offered, issued, job, plan, sessions, asked, jobs,
                     cache, ack, dev, read, found, sent, accepted, overflow, faults>>
      /\ queue # <<>> /\ queue' = Tail(queue)
  BY Zenon DEF Drain, settings, serverVars, uplinkVars, history
<1> QED
  BY <1>1, TakenTypes, Zenon
     DEF ServerTypes, UplinkTypes, DeviceTypes, HistoryTypes

LEMMA SessionStartsTypes == Types /\ SessionStarts => Types'
<1> SUFFICES ASSUME Types, SessionStarts PROVE Types'
  OBVIOUS
<1> USE DEF Types
<1>1. /\ UNCHANGED <<mode, full, newest, offered, issued, job, queue, asked, jobs, cache,
                     dev, read, accepted, faults>>
      /\ sessions < MaxSessions /\ sessions' = sessions + 1 /\ plan' = sessions + 1
      /\ ack' = 0 /\ found' = {} /\ sent' = {} /\ overflow' = {}
  BY Zenon DEF SessionStarts, settings, serverVars
<1>2. plan' \in 0..MaxSessions /\ sessions' \in 0..MaxSessions
  BY <1>1, Bounds DEF ServerTypes
<1>3. HistoryTypes'
  BY <1>1, Zenon DEF HistoryTypes
<1> QED
  BY <1>1, <1>2, <1>3, Zenon DEF ServerTypes, UplinkTypes, DeviceTypes

(* The device.                                                             *)
LEMMA PreviousIs ==
  ASSUME Types, NEW j
  PROVE  /\ Previous(j) \in Seq(Work) /\ Len(Previous(j)) < ActiveJobs
         /\ \A i \in DOMAIN Previous(j) :
              \/ Previous(j)[i] = dev.job /\ dev.job # None
              \/ \E k \in DOMAIN dev.older : Previous(j)[i] = dev.older[k]
<1>0. /\ dev.older \in Seq(Work) /\ Len(dev.older) < ActiveJobs
      /\ dev.job \in Work \cup {None}
  BY DEF Types, DeviceTypes
<1>1. CASE dev.job = None
  <2>1. Previous(j) = dev.older
    BY <1>1 DEF Previous
  <2> QED
    BY <1>0, <2>1
<1>2. CASE dev.job # None /\ dev.job.t.parent # j.t.parent
  <2>1. Previous(j) = <<>>
    BY <1>2 DEF Previous
  <2> QED
    BY <2>1, Bounds
<1>3. CASE dev.job # None /\ dev.job.t.parent = j.t.parent
  <2> DEFINE all == Append(dev.older, dev.job)
  <2>1. /\ all \in Seq(Work) /\ all # <<>> /\ Len(all) = Len(dev.older) + 1
        /\ \A i \in DOMAIN all : all[i] = dev.job \/ \E k \in DOMAIN dev.older : all[i] = dev.older[k]
    BY <1>0, <1>3
  <2>2. Previous(j) = IF Len(all) >= ActiveJobs THEN Tail(all) ELSE all
    BY <1>3 DEF Previous
  <2> HIDE DEF all
  <2>3. /\ Tail(all) \in Seq(Work) /\ Len(Tail(all)) = Len(all) - 1
        /\ \A i \in DOMAIN Tail(all) : i + 1 \in DOMAIN all /\ Tail(all)[i] = all[i + 1]
    BY <2>1
  <2>4. /\ Len(Tail(all)) < ActiveJobs
        /\ Len(dev.older) \in Nat /\ Len(all) \in Nat
    BY <1>0, <2>1, <2>3, Bounds
  <2>5. CASE Len(all) >= ActiveJobs
    <3>1. Previous(j) = Tail(all)
      BY <2>2, <2>5, Zenon
    <3>2. \A i \in DOMAIN Tail(all) :
             Tail(all)[i] = dev.job \/ \E k \in DOMAIN dev.older : Tail(all)[i] = dev.older[k]
      <4> TAKE i \in DOMAIN Tail(all)
      <4>1. i + 1 \in DOMAIN all /\ Tail(all)[i] = all[i + 1]
        BY <2>3, Zenon
      <4> QED
        BY <2>1, <4>1, Zenon
    <3> QED
      BY <1>3, <2>3, <2>4, <3>1, <3>2, Zenon
  <2>6. CASE ~(Len(all) >= ActiveJobs)
    <3>1. Previous(j) = all /\ Len(all) < ActiveJobs
      BY <2>2, <2>4, <2>6, Bounds
    <3> QED
      BY <1>3, <2>1, <3>1, Zenon
  <2> QED
    BY <2>5, <2>6, Zenon
<1> QED
  BY <1>1, <1>2, <1>3, Zenon

(* The device's thread reads.                                              *)
LEMMA ReadJobIs ==
  ASSUME Types, ReadJob
  PROVE  /\ UNCHANGED <<mode, full, newest, offered, issued, job, plan, sessions, queue,
                        asked, jobs, cache, ack, dev, found, sent, accepted, overflow, faults>>
         /\ read' # None /\ read'.job = job
         /\ read' \in [job : Work \cup {None}, live : BOOLEAN]
<1>1. UNCHANGED <<mode, full, newest, offered, issued, job, plan, sessions, queue, asked,
                  jobs, cache, ack, dev, found, sent, accepted, overflow, faults>>
  BY Zenon DEF ReadJob, settings, serverVars, uplinkVars, history
<1> DEFINE live == dev.job # None /\ dev.job.fresh
<1>2. read' = [job |-> job, live |-> live]
  BY DEF ReadJob
<1>3. live \in BOOLEAN /\ job \in Work \cup {None}
  BY DEF Types, ServerTypes, DeviceTypes, Work
<1> HIDE DEF live
<1>4. read'.job = job /\ read' \in [job : Work \cup {None}, live : BOOLEAN]
  BY <1>2, <1>3, Zenon
<1>5. read' # None
  <2>1. DOMAIN None = {"none"}
    BY Zenon DEF None
  <2>2. DOMAIN read' = {"job", "live"}
    BY <1>2, Zenon
  <2> QED
    BY <2>1, <2>2
<1> QED
  BY <1>1, <1>4, <1>5, Zenon

LEMMA ReadJobTypes == Types /\ ReadJob => Types'
  BY ReadJobIs, Zenon DEF Types, ServerTypes, UplinkTypes, DeviceTypes, HistoryTypes

(* The work a device takes is the job its thread read.                     *)
LEMMA UpdateIs ==
  ASSUME Types, Update
  PROVE  /\ UNCHANGED <<mode, full, newest, offered, issued, job, plan, sessions, queue,
                        asked, jobs, cache, ack, found, sent, accepted, overflow, faults>>
         /\ read # None /\ read' = None
         /\ \/ dev' = Idle
            \/ dev' = dev
            \/ /\ dev' = [job |-> read.job, older |-> Previous(read.job)]
               /\ read.job \in Work
               /\ mode = "p2pool" => Accepted(read.job)
               /\ ~Gated(read.job)
<1>1. UNCHANGED <<mode, full, newest, offered, issued, job, plan, sessions, queue, asked,
                  jobs, cache, ack, found, sent, accepted, overflow, faults>>
  BY Zenon DEF Update, settings, serverVars, uplinkVars, history
<1>2. read # None /\ read' = None
  BY Zenon DEF Update
<1>3. read.job \in Work \cup {None}
  BY <1>2 DEF Types, DeviceTypes
<1>4. \/ dev' = Idle
      \/ dev' = dev
      \/ /\ dev' = [job |-> read.job, older |-> Previous(read.job)]
         /\ Usable(read.job) /\ ~Gated(read.job)
  BY Zenon DEF Update
<1> QED
  BY <1>1, <1>2, <1>3, <1>4, Zenon DEF Usable

LEMMA UpdateTypes == Types /\ Update => Types'
<1> SUFFICES ASSUME Types, Update PROVE Types'
  OBVIOUS
<1>1. DeviceTypes'
  <2>0. read' = None
    BY UpdateIs
  <2>1. CASE dev' = Idle
    BY <2>0, <2>1, Bounds DEF Idle, DeviceTypes
  <2>2. CASE dev' = [job |-> read.job, older |-> Previous(read.job)] /\ read.job \in Work
    BY <2>0, <2>2, PreviousIs, Zenon DEF DeviceTypes
  <2>3. CASE dev' = dev
    BY <2>0, <2>3, Zenon DEF Types, DeviceTypes
  <2> QED
    BY <2>1, <2>2, <2>3, UpdateIs, Zenon
<1> QED
  BY <1>1, UpdateIs, Zenon DEF Types, ServerTypes, UplinkTypes, HistoryTypes

(* A share of a job the channel accepts, with the next number.             *)
LEMMA FindIs ==
  ASSUME Types, Cardinality(found) \in Nat, Find
  PROVE  /\ UNCHANGED <<mode, full, newest, offered, issued, job, plan, sessions, asked,
                        jobs, cache, ack, dev, read, sent, accepted, faults>>
         /\ \E share \in Shares :
              /\ \/ dev.job # None /\ Item(share) = Item(dev.job)
                 \/ \E i \in DOMAIN dev.older : Item(share) = Item(dev.older[i])
              /\ found' = found \cup {share}
              /\ \/ /\ Len(queue) < QueueCap /\ UNCHANGED overflow
                    /\ queue' = Append(queue, [kind |-> "share", n |-> share.n,
                                               t |-> share.t, id |-> share.id])
                 \/ overflow' = overflow \cup {share.n} /\ UNCHANGED queue
<1>1. PICK j \in {dev.job} \cup {dev.older[k] : k \in DOMAIN dev.older} :
        LET share == [n |-> Cardinality(found) + 1, t |-> j.t, id |-> j.id] IN
        /\ dev.job # None /\ share.n <= MaxShares
        /\ found' = found \cup {share}
        /\ \/ /\ Len(queue) < QueueCap /\ UNCHANGED overflow
              /\ queue' = Append(queue, [kind |-> "share", n |-> share.n,
                                         t |-> share.t, id |-> share.id])
           \/ overflow' = overflow \cup {share.n} /\ UNCHANGED queue
        /\ UNCHANGED <<settings, serverVars, plan, sessions, uplinkVars, dev, read, sent,
                       accepted, faults>>
  BY Zenon DEF Find
<1>2. /\ dev.job \in Work /\ dev.older \in Seq(Work)
  BY <1>1, Zenon DEF Types, DeviceTypes
<1>3. /\ j \in Work
      /\ j = dev.job \/ \E i \in DOMAIN dev.older : j = dev.older[i]
  BY <1>1, <1>2
<1> DEFINE share == [n |-> Cardinality(found) + 1, t |-> j.t, id |-> j.id]
<1>4. share \in Shares /\ Item(share) = Item(j)
  <2>1. Cardinality(found) + 1 \in 1..MaxShares
    BY <1>1, Bounds
  <2>2. j.t \in Templates /\ j.id \in Nat \ {0}
    BY <1>3 DEF Work
  <2> QED
    BY <2>1, <2>2, Zenon DEF Shares, Item
<1>5. UNCHANGED <<mode, full, newest, offered, issued, job, plan, sessions, asked, jobs,
                  cache, ack, dev, read, sent, accepted, faults>>
  BY <1>1, Zenon DEF settings, serverVars, uplinkVars
<1>6. \/ dev.job # None /\ Item(share) = Item(dev.job)
      \/ \E i \in DOMAIN dev.older : Item(share) = Item(dev.older[i])
  BY <1>1, <1>3, <1>4, Zenon
<1>7. /\ found' = found \cup {share}
      /\ \/ /\ Len(queue) < QueueCap /\ UNCHANGED overflow
            /\ queue' = Append(queue, [kind |-> "share", n |-> share.n,
                                       t |-> share.t, id |-> share.id])
         \/ overflow' = overflow \cup {share.n} /\ UNCHANGED queue
  BY <1>1, Zenon
<1> HIDE DEF share
<1> QED
  BY <1>4, <1>5, <1>6, <1>7, Zenon

LEMMA FindTypes ==
  ASSUME Types, Cardinality(found) \in Nat, Find PROVE Types'
<1> USE DEF Types
<1>0. UNCHANGED <<mode, full, newest, offered, issued, job, plan, sessions, asked, jobs,
                  cache, ack, dev, read, sent, accepted, faults>>
  BY FindIs, Zenon
<1>1. PICK share \in Shares :
        /\ found' = found \cup {share}
        /\ \/ /\ Len(queue) < QueueCap /\ UNCHANGED overflow
              /\ queue' = Append(queue, [kind |-> "share", n |-> share.n,
                                         t |-> share.t, id |-> share.id])
           \/ overflow' = overflow \cup {share.n} /\ UNCHANGED queue
  BY FindIs, Zenon
<1> DEFINE e == [kind |-> "share", n |-> share.n, t |-> share.t, id |-> share.id]
<1>2. e \in Event /\ share.n \in 1..MaxShares
  BY Zenon DEF Shares, Event
<1>3. found' \subseteq Shares /\ overflow' \subseteq 1..MaxShares
  BY <1>1, <1>2, Zenon DEF HistoryTypes
<1> HIDE DEF e
<1>4. queue' \in Seq(Event) /\ Len(queue') <= QueueCap
  <2>1. CASE Len(queue) < QueueCap /\ queue' = Append(queue, e)
    BY <1>2, <2>1, Bounds DEF UplinkTypes
  <2>2. CASE queue' = queue
    BY <2>2 DEF UplinkTypes
  <2> QED
    BY <1>1, <2>1, <2>2, Zenon DEF e
<1> QED
  BY <1>0, <1>3, <1>4, Zenon DEF ServerTypes, UplinkTypes, DeviceTypes, HistoryTypes

(* The number of shares found is a number: the set is finite (NextCounted).*)
LEMMA NextTypes ==
  ASSUME Types, Cardinality(found) \in Nat, [Next]_vars PROVE Types'
<1>1. CASE UNCHANGED vars
  BY <1>1, Zenon DEF vars, settings, serverVars, uplinkVars, history, Types, ServerTypes,
              UplinkTypes, DeviceTypes, HistoryTypes
<1>2. CASE Next
  BY <1>2, OffersTypes, LeaseEndsTypes, TakePublishedTypes, TakeShareTypes,
     DeclareMiningJobSuccessTypes, SetCustomMiningJobSuccessTypes, RefusedTypes,
     SessionEndsTypes, DrainTypes, SessionStartsTypes, ReadJobTypes, UpdateTypes,
     FindTypes, Zenon
     DEF Next
<1> QED
  BY <1>1, <1>2

---------------------------------------------------------------------------
(* What was declared.  Bigger sets of declarations hold what smaller do.   *)

LEMMA ItemIs ==
  \A x, y : /\ Item(x) = Item(y) <=> x.id = y.id /\ x.t = y.t
            /\ Item(x).id = x.id /\ Item(x).t = x.t
  BY DEF Item

(* The jobs after an acceptance: the one accepted, or jobs there were.     *)
LEMMA AcceptedJobs ==
  ASSUME jobs \in Seq(Items), Len(jobs) <= KeptJobs, NEW x \in Items,
         jobs' = NewestJobs(Append(jobs, x))
  PROVE  \A i \in DOMAIN jobs' : jobs'[i] = x \/ \E k \in DOMAIN jobs : jobs'[i] = jobs[k]
<1> DEFINE ns == NewestJobs(Append(jobs, x))
<1>1. \A i \in DOMAIN ns : ns[i] = x \/ \E k \in DOMAIN jobs : ns[i] = jobs[k]
  BY NewestJobsIs
<1> HIDE DEF ns
<1> QED
  BY <1>1, Zenon DEF ns

(* Two declarations of a session are of one id just when they are alike.   *)
LEMMA SameDeclaration ==
  ASSUME NEW M, NEW md, Distinct(M, md), NEW x, NEW y, Item(x) \in M, Item(y) \in M
  PROVE  (x.id = y.id => Alike(md, x.t, y.t)) /\ (x.t = y.t => x.id = y.id)
<1>1. Item(x).id = x.id /\ Item(x).t = x.t /\ Item(y).id = y.id /\ Item(y).t = y.t
  BY DEF Item
<1> QED
  BY <1>1, Zenon DEF Distinct

(* An event is queued behind the others.                                   *)
LEMMA AppendIs ==
  ASSUME NEW S, NEW q \in Seq(S), NEW e, NEW r, r = Append(q, e)
  PROVE  /\ Len(q) \in Nat /\ DOMAIN q = 1..Len(q)
         /\ \A i \in DOMAIN q : i \in DOMAIN r /\ r[i] = q[i]
         /\ Len(q) + 1 \in DOMAIN r /\ r[Len(q) + 1] = e
         /\ \A i \in DOMAIN r : i \in DOMAIN q \/ i = Len(q) + 1
<1>1. /\ Len(q) \in Nat /\ DOMAIN q = 1..Len(q)
      /\ DOMAIN r = 1..(Len(q) + 1)
      /\ \A i \in 1..Len(q) : r[i] = q[i]
      /\ r[Len(q) + 1] = e
  OBVIOUS
<1>2. 1..(Len(q) + 1) = 1..Len(q) \cup {Len(q) + 1}
  BY <1>1
<1> QED
  BY <1>1, <1>2

LEMMA InitIInv == Init => IInv
<1> SUFFICES ASSUME Init PROVE IInv
  OBVIOUS
<1>1. Sessions
  BY Bounds DEF Init, Sessions
<1>2. Declared({})
  BY DEF Init, Declared, Known, Distinct, Ordered, Within, Acked, Idle
<1>3. SameBlock
  BY DEF Init, SameBlock
<1> QED
  BY <1>1, <1>2, <1>3, InitTypes DEF IInv

(* The offered template is new, up to the token set: to declarations of    *)
(* its session it is like only itself.                                     *)
LEMMA NewIsDistinct ==
  ASSUME Types, NEW M \in SUBSET Items, plan # 0, plan = sessions,
         Known(M, mode, newest, issued, job, sessions), Distinct(M, mode),
         NEW n \in [gen : Nat \ {0}, tok : Nat, parent : 0..MaxParent],
         newest.tok <= MaxTokens[mode], n.tok <= MaxTokens[mode],
         \/ n.gen > newest.gen /\ n.tok = newest.tok
         \/ n.gen = newest.gen /\ n.tok > newest.tok /\ n.parent = newest.parent
         \/ M = {}
  PROVE  LET new == [id |-> DeclarationId(n), t |-> Template(n)]
             N == M \cup {new}
         IN  /\ Distinct(N, mode)
             /\ \A r : (r # None => r.id = new.id) =>
                  Known(N, mode, n, IF mode = "p2pool" THEN new.id ELSE issued, r, sessions)
             /\ OneTokens(mode) => \A a \in M : a.id # new.id
<1> DEFINE new == [id |-> DeclarationId(n), t |-> Template(n)]
           N == M \cup {new}
<1>1. /\ issued \in Nat /\ newest.gen \in Nat /\ newest.tok \in Nat
      /\ n.gen \in Nat /\ n.tok \in Nat /\ mode \in Modes
  BY Bounds DEF Types, ServerTypes
<1>2. \A a \in M : a.id \in Nat /\ a.t.gen \in Nat /\ a.t.tok \in Nat /\ a.t \in Templates
  BY Bounds DEF Items, Templates
<1>3. /\ new.id = (IF mode = "p2pool" THEN issued + 1 ELSE n.gen)
      /\ new.t.gen = n.gen /\ new.t.tok = n.tok /\ new.t.parent = n.parent
      /\ new.t.plan = plan
  BY Zenon DEF DeclarationId, Template
<1> HIDE DEF new
<1>4. \A a \in M :
        /\ a.t.plan = sessions /\ a.t.gen <= newest.gen /\ a.t.tok <= newest.tok
        /\ a.t.gen = newest.gen => a.t.parent = newest.parent
        /\ IF mode = "p2pool" THEN a.id <= issued ELSE a.id = a.t.gen
  BY Zenon DEF Known
<1>5. \A a \in M : a.t # new.t
  <2> SUFFICES ASSUME NEW a \in M PROVE a.t.gen # new.t.gen \/ a.t.tok # new.t.tok
    BY Zenon
  <2>1. a.t.gen <= newest.gen /\ a.t.tok <= newest.tok
    BY <1>4, Zenon
  <2>2. n.gen > newest.gen \/ n.tok > newest.tok
    BY Zenon
  <2> QED
    BY <1>1, <1>2, <1>3, <2>1, <2>2
<1>6. \A a \in M : mode = "p2pool" => a.id # new.id
  BY <1>1, <1>2, <1>3, <1>4
<1>7. \A a \in M : mode # "p2pool" /\ a.id = new.id =>
        a.t.gen = n.gen /\ a.t.parent = n.parent /\ n.gen = newest.gen
  BY <1>1, <1>2, <1>3, <1>4
<1>8. OneTokens(mode) => \A a \in M : a.id # new.id
  <2>1. ASSUME MaxTokens[mode] = 0, mode # "p2pool", NEW a \in M, a.id = new.id PROVE FALSE
    <3>1. a.t.gen = new.t.gen /\ a.t.parent = new.t.parent /\ a.t.plan = new.t.plan
      BY <1>3, <1>4, <1>7, <2>1, Zenon
    <3>2. a.t.tok = 0 /\ new.t.tok = 0
      BY <1>1, <1>2, <1>3, <1>4, <2>1
    <3>3. a.t = new.t
      BY <1>2, <3>1, <3>2, Zenon DEF new, Template, Templates
    <3> QED
      BY <1>5, <3>3, Zenon
  <2> QED
    BY <1>6, <2>1, Zenon DEF OneTokens
<1>9. \A a \in M : a.id = new.id => Alike(mode, a.t, new.t) /\ Alike(mode, new.t, a.t)
  BY <1>3, <1>4, <1>6, <1>7, <1>8, Zenon DEF Alike
<1>10. Distinct(N, mode)
  BY <1>5, <1>9 DEF Distinct, Alike
<1>11. ASSUME NEW r, r # None => r.id = new.id
       PROVE  Known(N, mode, n, IF mode = "p2pool" THEN new.id ELSE issued, r, sessions)
  <2>1. ASSUME NEW a \in M
        PROVE  /\ a.t.plan = sessions /\ a.t.gen <= n.gen /\ a.t.tok <= n.tok
               /\ a.t.gen = n.gen => a.t.parent = n.parent
               /\ a.id <= new.id
    <3>1. /\ a.t.plan = sessions /\ a.t.gen <= newest.gen /\ a.t.tok <= newest.tok
          /\ a.t.gen = newest.gen => a.t.parent = newest.parent
          /\ a.id \in Nat /\ a.t.gen \in Nat /\ a.t.tok \in Nat
      BY <1>2, <1>4, Zenon
    <3>2. newest.gen <= n.gen /\ newest.tok <= n.tok
          /\ (n.gen = newest.gen => n.parent = newest.parent)
      BY <1>1, <2>1
    <3>3. a.id <= new.id
      <4>1. CASE mode = "p2pool"
        <5>1. a.id <= issued /\ new.id = issued + 1
          BY <1>3, <1>4, <4>1, Zenon
        <5> QED
          BY <1>1, <3>1, <5>1
      <4>2. CASE mode # "p2pool"
        <5>1. a.id = a.t.gen /\ new.id = n.gen
          BY <1>3, <1>4, <4>2, Zenon
        <5> QED
          BY <1>1, <3>1, <3>2, <5>1
      <4> QED
        BY <4>1, <4>2, Zenon
    <3> QED
      BY <1>1, <3>1, <3>2, <3>3
  <2>2. \A a \in N :
           /\ a.t.plan = sessions /\ a.t.gen <= n.gen /\ a.t.tok <= n.tok
           /\ a.t.gen = n.gen => a.t.parent = n.parent
           /\ a.id <= new.id
    <3>1. /\ new.t.plan = sessions /\ new.t.gen = n.gen /\ new.t.tok = n.tok
          /\ new.t.parent = n.parent
      BY <1>3, Zenon
    <3>2. n.gen <= n.gen /\ n.tok <= n.tok /\ new.id <= new.id
      BY <1>1, <1>3
    <3> QED
      BY <2>1, <3>1, <3>2, Zenon
  <2>3. \A a \in N : mode # "p2pool" => a.id = a.t.gen
    BY <1>3, <1>4, Zenon
  <2> HIDE DEF N
  <2> QED
    BY <1>11, <2>2, <2>3, Zenon DEF Known
<1> QED
  BY <1>8, <1>10, <1>11, Zenon DEF new

(* The offered template is newer than the others of its session.           *)
LEMMA NewIsOrdered ==
  ASSUME Types, NEW M \in SUBSET Items, plan # 0, plan = sessions, Ordered(M, mode),
         Known(M, mode, newest, issued, job, sessions), Distinct(M, mode),
         NEW n \in [gen : Nat \ {0}, tok : Nat, parent : 0..MaxParent],
         newest.tok <= MaxTokens[mode], n.tok <= MaxTokens[mode],
         \/ n.gen > newest.gen /\ n.tok = newest.tok
         \/ n.gen = newest.gen /\ n.tok > newest.tok /\ n.parent = newest.parent
         \/ M = {}
  PROVE  Ordered(M \cup {[id |-> DeclarationId(n), t |-> Template(n)]}, mode)
<1> DEFINE new == [id |-> DeclarationId(n), t |-> Template(n)]
<1>1. /\ new.id = (IF mode = "p2pool" THEN issued + 1 ELSE n.gen)
      /\ new.t.gen = n.gen /\ new.t.tok = n.tok
  BY Zenon DEF DeclarationId, Template
<1>2. /\ issued \in Nat /\ n.gen \in Nat /\ n.tok \in Nat
      /\ MaxTokens[mode] \in Nat
  BY Bounds DEF Types, ServerTypes
<1>3. \A a \in M : a.id \in Nat /\ a.t.gen \in Nat /\ a.t.tok \in Nat
  BY DEF Items, Templates
<1>4. \A a \in M : a.t.gen <= n.gen /\ a.t.tok <= n.tok
  <2>1. Known(M \cup {new}, mode, n, IF mode = "p2pool" THEN new.id ELSE issued, None, sessions)
    BY NewIsDistinct, Zenon
  <2> QED
    BY <2>1, Zenon DEF Known
<1>5. \A a \in M : IF mode = "p2pool" THEN a.id <= issued ELSE a.id = a.t.gen
  BY Zenon DEF Known
<1> HIDE DEF new
<1>6. ASSUME NEW b \in M, new.id <= b.id
      PROVE  n.gen <= b.t.gen /\ (OneTokens(mode) => n.tok <= b.t.tok)
  <2>1. mode # "p2pool" /\ b.id = b.t.gen
    BY <1>1, <1>2, <1>3, <1>5, <1>6
  <2>2. OneTokens(mode) => n.tok = 0
    BY <1>2, <2>1 DEF OneTokens
  <2> QED
    BY <1>1, <1>2, <1>3, <1>6, <2>1, <2>2
<1>7. n.gen <= n.gen /\ n.tok <= n.tok
  BY <1>2
<1>8. Ordered(M \cup {new}, mode)
  BY <1>1, <1>4, <1>6, <1>7, Zenon DEF Ordered
<1> QED
  BY <1>8 DEF new

(* A newer template, or the same one.                                      *)
Newer(n) ==
  \/ n.gen > newest.gen /\ n.tok = newest.tok
  \/ n.gen = newest.gen /\ n.tok > newest.tok /\ n.parent = newest.parent
  \/ n = newest /\ plan # offered

LEMMA OfferKeeps ==
  ASSUME IInv, NEW n \in [gen : Nat \ {0}, tok : Nat, parent : 0..MaxParent], Newer(n),
         n.tok <= MaxTokens[mode], Offer(n)
  PROVE  IInv'
<1> USE DEF IInv
<1>0. /\ newest' = n /\ offered' = plan
      /\ UNCHANGED <<mode, full, plan, sessions, asked, jobs, cache, ack, dev, read, found,
                     sent, accepted, overflow>>
  BY Zenon DEF Offer, settings, uplinkVars, history
<1>1. Types' /\ SameBlock'
  BY <1>0, OfferTypes, Zenon DEF SameBlock
<1>2. Sessions'
  <2>1. plan \in Nat /\ sessions \in Nat
    BY DEF Types, ServerTypes
  <2> QED
    BY <1>0, <2>1 DEF Sessions
<1>3. PICK M : Declared(M)
  OBVIOUS
<1>4. CASE plan # 0 /\ Len(queue) < QueueCap
  <2> DEFINE new == [id |-> DeclarationId(n), t |-> Template(n)]
             N == M \cup {new}
             e == [kind |-> "published", t |-> new.t, id |-> new.id]
  <2>1. plan = sessions /\ (n = newest => M = {})
    BY <1>3, <1>4 DEF Sessions, Declared, Newer
  <2>2. /\ queue' = Append(queue, e) /\ queue \in Seq(Event)
        /\ issued' = (IF mode = "p2pool" THEN new.id ELSE issued)
        /\ job' = [t |-> new.t, id |-> new.id, fresh |-> TRUE]
    BY <1>4, Bounds DEF Offer, Types, UplinkTypes
  <2>3. new \in Items
    BY <1>4, NewTypes, Zenon DEF Items
  <2>4. Item(e) = new /\ Item(job') = new /\ job'.id = new.id
    BY <2>2, Zenon DEF Item
  <2>5. /\ Distinct(N, mode) /\ Ordered(N, mode)
        /\ Known(N, mode, n, IF mode = "p2pool" THEN new.id ELSE issued, job', sessions)
    <3>1. /\ Known(M, mode, newest, issued, job, sessions) /\ Distinct(M, mode)
          /\ Ordered(M, mode) /\ M \in SUBSET Items
      BY <1>3, Zenon DEF Declared
    <3>2. Ordered(N, mode)
      BY <1>4, <2>1, <3>1, NewIsOrdered, Zenon DEF Newer, Sessions
    <3> QED
      BY <1>4, <2>1, <2>4, <3>1, <3>2, NewIsDistinct, Zenon DEF Newer, Sessions
  <2>6. Acked(N, ack, accepted) /\ N \in SUBSET Items
    BY <1>3, <2>3, Zenon DEF Declared, Acked
  <2> HIDE DEF new, e
  <2>7. Within(N, queue', jobs, asked \cup cache \cup found, job', dev, read)
    <3>1. Within(M, queue, jobs, asked \cup cache \cup found, job, dev, read)
      BY <1>3, Zenon DEF Declared
    <3>2. \A i \in DOMAIN queue' : (i \in DOMAIN queue /\ queue'[i] = queue[i]) \/ queue'[i] = e
      BY <2>2, AppendIs
    <3> QED
      BY <2>4, <3>1, <3>2, Zenon DEF Within
  <2>8. PICK K : K = N
    BY Zenon
  <2> HIDE DEF N
  <2>9. Declared(K)'
    BY <1>0, <2>2, <2>5, <2>6, <2>7, <2>8, Zenon DEF Declared
  <2> QED
    BY <1>1, <1>2, <2>9
<1>5. CASE ~(plan # 0 /\ Len(queue) < QueueCap)
  <2>1. UNCHANGED <<issued, queue>> /\ job' \in {job, None}
    BY <1>5, Zenon DEF Offer, Kept
  <2>2. Known(M, mode, n, issued, job', sessions)
    <3>1. Known(M, mode, newest, issued, job, sessions) /\ M \in SUBSET Items
      BY <1>3, Zenon DEF Declared
    <3>2. \A a \in M : a.t.gen \in Nat /\ a.t.tok \in Nat
      BY <3>1, Bounds DEF Items, Templates
    <3>3. n.gen \in Nat /\ n.tok \in Nat /\ newest.gen \in Nat /\ newest.tok \in Nat
      BY Bounds DEF Types, ServerTypes
    <3>4. \A a \in M : /\ a.t.gen <= n.gen /\ a.t.tok <= n.tok
                       /\ a.t.gen = n.gen => a.t.parent = n.parent
      BY <3>1, <3>2, <3>3 DEF Known, Newer
    <3> QED
      BY <2>1, <3>1, <3>4, Zenon DEF Known
  <2>3. Within(M, queue', jobs, asked \cup cache \cup found, job', dev, read)
    BY <1>3, <2>1, Zenon DEF Declared, Within
  <2>4. Declared(M)'
    BY <1>0, <1>3, <2>1, <2>2, <2>3, Zenon DEF Declared
  <2> QED
    BY <1>1, <1>2, <2>4
<1> QED
  BY <1>4, <1>5

(* Every offer is of a newer template, or of the same one in a new         *)
(* session.                                                                *)
LEMMA OffersAreNewer ==
  ASSUME IInv,
         \/ \E parent \in {newest.parent, newest.parent + 1} :
              parent <= MaxParent /\ Refresh(parent)
         \/ TokensChange
         \/ PlanChanged
  PROVE  \E n \in [gen : Nat \ {0}, tok : Nat, parent : 0..MaxParent] :
           Newer(n) /\ n.tok <= MaxTokens[mode] /\ Offer(n)
<1> DEFINE N == [gen : Nat \ {0}, tok : Nat, parent : 0..MaxParent]
<1>0. newest \in N /\ newest.tok <= MaxTokens[mode] /\ MaxTokens[mode] \in Nat
  BY Bounds, Zenon DEF IInv, Types, ServerTypes, Sessions
<1>1. ASSUME NEW parent \in {newest.parent, newest.parent + 1}, parent <= MaxParent,
             Refresh(parent)
      PROVE  \E n \in N : Newer(n) /\ n.tok <= MaxTokens[mode] /\ Offer(n)
  <2> DEFINE n == [newest EXCEPT !.gen = @ + 1, !.parent = parent]
  <2>1. newest.gen + 1 \in Nat \ {0} /\ parent \in 0..MaxParent
        /\ newest.gen + 1 > newest.gen
    BY <1>0, <1>1, Bounds DEF Refresh
  <2>2. n \in N /\ n.gen = newest.gen + 1 /\ n.tok = newest.tok
    BY <1>0, <2>1, Zenon
  <2>3. Offer(n)
    BY <1>1 DEF Refresh
  <2> HIDE DEF n
  <2> QED
    BY <1>0, <2>1, <2>2, <2>3, Zenon DEF Newer
<1>2. CASE TokensChange
  <2> DEFINE n == [newest EXCEPT !.tok = @ + 1]
  <2>1. /\ n \in N /\ n.gen = newest.gen /\ n.tok = newest.tok + 1
        /\ n.parent = newest.parent
    BY <1>0
  <2>2. Offer(n) /\ newest.tok + 1 > newest.tok /\ newest.tok + 1 <= MaxTokens[mode]
    BY <1>0, <1>2 DEF TokensChange
  <2> HIDE DEF n
  <2> QED
    BY <2>1, <2>2, Zenon DEF Newer
<1>3. CASE PlanChanged
  BY <1>0, <1>3, Zenon DEF PlanChanged, Newer
<1> QED
  BY <1>1, <1>2, <1>3, Zenon

(* The leases of the published job and of the device's.                    *)
LEMMA LeaseEndsKeeps == IInv /\ LeaseEnds => IInv'
<1> SUFFICES ASSUME IInv, LeaseEnds PROVE IInv'
  OBVIOUS
<1> USE DEF IInv
<1>1. /\ UNCHANGED <<mode, full, newest, offered, issued, plan, sessions, queue, asked,
                     jobs, cache, ack, read, found, sent, accepted, overflow>>
      /\ job' \in {job, Ended(job)} /\ dev' = [dev EXCEPT !.job = Ended(dev.job)]
  BY DEF LeaseEnds, settings, uplinkVars, history
<1>2. Types' /\ SameBlock' /\ Sessions'
  BY <1>1, LeaseEndsTypes, Zenon DEF SameBlock, Sessions
<1>3. PICK M : Declared(M)
  OBVIOUS
<1>4. /\ job' = None <=> job = None
      /\ job # None => job'.id = job.id /\ job'.t = job.t
  BY <1>1, EndedIs, Zenon DEF Types, ServerTypes
<1>5. /\ dev'.older = dev.older /\ (dev'.job = None <=> dev.job = None)
      /\ dev.job # None => dev'.job.id = dev.job.id /\ dev'.job.t = dev.job.t
  <2>1. dev \in [job : Work \cup {None}, older : Seq(Work)]
    BY DEF Types, DeviceTypes
  <2>2. dev'.job = Ended(dev.job) /\ dev'.older = dev.older
    BY <1>1, <2>1
  <2> QED
    BY <2>1, <2>2, EndedIs, Zenon
<1>6. Within(M, queue, jobs, asked \cup cache \cup found, job', dev', read)
  BY <1>3, <1>4, <1>5, ItemIs, Zenon DEF Declared, Within
<1>7. Known(M, mode, newest, issued, job', sessions)
  BY <1>3, <1>4, Zenon DEF Declared, Known
<1>8. Declared(M)'
  BY <1>1, <1>3, <1>6, <1>7, Zenon DEF Declared
<1> QED
  BY <1>2, <1>8

(* A step that declares nothing new.                                       *)
LEMMA NothingNew ==
  ASSUME IInv, Types', Sessions', SameBlock', NEW M, Declared(M),
         UNCHANGED <<mode, newest, offered, issued, job, sessions>>, plan' \in {0, plan},
         Within(M, queue', jobs', asked' \cup cache' \cup found', job, dev', read'),
         Acked(M, ack', accepted')
  PROVE  IInv'
<1>1. Declared(M)'
  BY Zenon DEF Declared
<1> QED
  BY <1>1 DEF IInv

LEMMA TakePublishedKeeps == IInv /\ TakePublished => IInv'
<1> SUFFICES ASSUME IInv, TakePublished PROVE IInv'
  OBVIOUS
<1> USE DEF IInv
<1>1. /\ UNCHANGED <<mode, full, newest, offered, issued, job, plan, sessions, jobs, ack,
                     dev, read, found, sent, accepted, overflow>>
      /\ queue # <<>> /\ queue' = Tail(queue) /\ plan # 0
      /\ Declares(Head(queue)) \/ UNCHANGED <<asked, cache>>
  BY Zenon DEF TakePublished, settings, serverVars, history
<1>2. Types' /\ Sessions' /\ SameBlock'
  BY <1>1, TakePublishedTypes, Zenon DEF Sessions, SameBlock
<1>3. PICK M : Declared(M)
  OBVIOUS
<1>4. /\ Within(M, queue, jobs, asked \cup cache \cup found, job, dev, read)
      /\ Acked(M, ack, accepted)
  BY <1>3, Zenon DEF Declared
<1>5. queue \in Seq(Event) /\ Head(queue) = queue[1] /\ 1 \in DOMAIN queue
      /\ \A i \in DOMAIN Tail(queue) : i + 1 \in DOMAIN queue /\ Tail(queue)[i] = queue[i + 1]
  BY <1>1 DEF Types, UplinkTypes
<1>6. \A x \in asked' \cup cache' \cup found' : Item(x) \in M
  <2>1. Item(Head(queue)) \in M
    BY <1>4, <1>5, Zenon DEF Within
  <2>2. \A x \in asked' : x \in asked \/ Item(x) = Item(Head(queue))
    <3>1. CASE asked' = asked
      BY <3>1
    <3>2. CASE Declares(Head(queue))
      <4>1. PICK d : asked' = asked \cup {d} /\ Item(d) = Item(Head(queue))
        <5> DEFINE h == Head(queue)
                   d == [id |-> h.id, t |-> h.t, stage |-> IF full THEN "declarator" ELSE "pool"]
        <5>1. asked' = asked \cup {d}
          BY <3>2, Zenon DEF Declares
        <5>2. Item(d) = Item(h)
          BY Zenon DEF Item
        <5> HIDE DEF d
        <5> QED
          BY <5>1, <5>2
      <4> QED
        BY <4>1
    <3> QED
      BY <1>1, <3>1, <3>2, Zenon
  <2>3. cache' \subseteq cache
    BY <1>1, Zenon DEF Declares
  <2> QED
    BY <1>1, <1>4, <2>1, <2>2, <2>3, Zenon DEF Within
<1>7. Within(M, queue', jobs', asked' \cup cache' \cup found', job, dev', read')
  BY <1>1, <1>4, <1>5, <1>6, Zenon DEF Within
<1> QED
  BY <1>1, <1>2, <1>3, <1>4, <1>7, NothingNew, Zenon

LEMMA TakeShareKeeps == IInv /\ TakeShare => IInv'
<1> SUFFICES ASSUME IInv, TakeShare PROVE IInv'
  OBVIOUS
<1> USE DEF IInv
<1> DEFINE s == Head(queue)
           share == [n |-> s.n, t |-> s.t, id |-> s.id]
<1>1. /\ UNCHANGED <<mode, full, newest, offered, issued, job, plan, sessions, asked, jobs,
                     ack, dev, read, found, accepted, faults>>
      /\ queue # <<>> /\ queue' = Tail(queue) /\ plan # 0
  BY Zenon DEF TakeShare, settings, serverVars
<1>2. /\ cache' \in {cache, cache \cup {share}}
      /\ \/ sent' = sent
         \/ \E i \in DOMAIN jobs : jobs[i].id = s.id /\ sent' = sent \cup {Sent(s, jobs[i].t)}
  BY Zenon DEF TakeShare, NewestJob
<1>3. PICK M : Declared(M)
  OBVIOUS
<1>4. /\ Within(M, queue, jobs, asked \cup cache \cup found, job, dev, read)
      /\ Acked(M, ack, accepted) /\ Distinct(M, mode)
  BY <1>3, Zenon DEF Declared
<1>5. queue \in Seq(Event) /\ s = queue[1] /\ 1 \in DOMAIN queue
      /\ \A i \in DOMAIN Tail(queue) : i + 1 \in DOMAIN queue /\ Tail(queue)[i] = queue[i + 1]
  BY <1>1 DEF Types, UplinkTypes
<1> HIDE DEF s
<1>6. Item(s) \in M /\ Item(share) = Item(s)
  BY <1>4, <1>5, ItemIs, Zenon DEF Within
<1>7. SameBlock'
  <2>1. CASE sent' = sent
    BY <1>1, <2>1 DEF SameBlock
  <2>2. ASSUME NEW i \in DOMAIN jobs, jobs[i].id = s.id, sent' = sent \cup {Sent(s, jobs[i].t)}
        PROVE  SameBlock'
    <3>1. Item(jobs[i]) \in M
      BY <1>4, Zenon DEF Within
    <3>2. Alike(mode, s.t, jobs[i].t)
      BY <1>4, <1>6, <2>2, <3>1, SameDeclaration, Zenon
    <3>3. Sent(s, jobs[i].t).t = s.t /\ Sent(s, jobs[i].t).job = jobs[i].t
      BY DEF Sent
    <3> QED
      BY <1>1, <2>2, <3>2, <3>3, Zenon DEF SameBlock
  <2> QED
    BY <1>2, <2>1, <2>2, Zenon
<1>8. Types' /\ Sessions'
  BY <1>1, TakeShareTypes, Zenon DEF Sessions
<1> HIDE DEF share
<1>9. Within(M, queue', jobs', asked' \cup cache' \cup found', job, dev', read')
  BY <1>1, <1>2, <1>4, <1>5, <1>6, Zenon DEF Within
<1> QED
  BY <1>1, <1>3, <1>4, <1>7, <1>8, <1>9, NothingNew, Zenon

LEMMA DeclareMiningJobSuccessKeeps ==
  ASSUME IInv, NEW d \in asked, DeclareMiningJobSuccess(d) PROVE IInv'
<1> USE DEF IInv
<1>1. /\ UNCHANGED <<mode, full, newest, offered, issued, job, plan, sessions, queue, jobs,
                     cache, ack, dev, read, found, sent, accepted, overflow, faults>>
      /\ asked' = (asked \ {d}) \cup {[d EXCEPT !.stage = "pool"]}
  BY DEF DeclareMiningJobSuccess, settings, serverVars, history
<1>2. Types' /\ SameBlock'
  BY <1>1, DeclareMiningJobSuccessTypes DEF SameBlock
<1>3. Sessions'
  BY <1>1 DEF Sessions
<1>4. PICK M : Declared(M)
  OBVIOUS
<1>5. /\ Within(M, queue, jobs, asked \cup cache \cup found, job, dev, read)
      /\ Acked(M, ack, accepted)
  BY <1>4, Zenon DEF Declared
<1>6. Item([d EXCEPT !.stage = "pool"]) = Item(d)
  BY DEF Item, Types, UplinkTypes
<1>7. Within(M, queue', jobs', asked' \cup cache' \cup found', job, dev', read')
  BY <1>1, <1>5, <1>6, Zenon DEF Within
<1> QED
  BY <1>1, <1>2, <1>3, <1>4, <1>5, <1>7, NothingNew, Zenon

LEMMA SetCustomMiningJobSuccessKeeps ==
  ASSUME IInv, NEW d \in asked, SetCustomMiningJobSuccess(d) PROVE IInv'
<1> USE DEF IInv
<1>1. /\ UNCHANGED <<mode, full, newest, offered, issued, job, plan, sessions, queue, dev, read,
                     found, overflow, faults>>
      /\ asked' = asked \ {d} /\ ack' \in {ack, d.id}
      /\ jobs' = NewestJobs(Append(jobs, Item(d)))
      /\ sent' = sent \cup {Sent(s, d.t) : s \in KeptShares(d)}
      /\ cache' \subseteq cache /\ accepted' = accepted \cup {d.t}
  BY Zenon DEF SetCustomMiningJobSuccess, settings, serverVars, Item
<1>2. Types'
  BY SetCustomMiningJobSuccessTypes
<1>3. Sessions'
  BY <1>1, Zenon DEF Sessions
<1>4. PICK M : Declared(M)
  OBVIOUS
<1>5. /\ Within(M, queue, jobs, asked \cup cache \cup found, job, dev, read)
      /\ Acked(M, ack, accepted) /\ Distinct(M, mode)
  BY <1>4, Zenon DEF Declared
<1>6. Item(d) \in M
  BY <1>5, Zenon DEF Within
<1>7. SameBlock'
  <2>1. ASSUME NEW s \in KeptShares(d) PROVE Alike(mode, Sent(s, d.t).t, Sent(s, d.t).job)
    <3>1. s \in cache /\ s.id = d.id
      BY DEF KeptShares
    <3>2. Item(s) \in M
      BY <1>5, <3>1, Zenon DEF Within
    <3>3. Sent(s, d.t).t = s.t /\ Sent(s, d.t).job = d.t
      BY DEF Sent
    <3>4. Alike(mode, s.t, d.t)
      BY <1>5, <1>6, <3>1, <3>2, SameDeclaration
    <3> QED
      BY <3>3, <3>4, Zenon
  <2> QED
    BY <1>1, <2>1, Zenon DEF SameBlock
<1>8. \A i \in DOMAIN jobs' : Item(jobs'[i]) \in M
  <2>1. jobs \in Seq(Items) /\ Len(jobs) <= KeptJobs /\ Item(d) \in Items
    BY <1>4, <1>6, Zenon DEF Types, UplinkTypes, Declared
  <2>2. \A i \in DOMAIN jobs' : jobs'[i] = Item(d) \/ \E k \in DOMAIN jobs : jobs'[i] = jobs[k]
    BY <1>1, <2>1, AcceptedJobs, Zenon
  <2>3. Item(Item(d)) = Item(d)
    BY DEF Item
  <2> QED
    BY <1>5, <1>6, <2>2, <2>3, Zenon DEF Within
<1>9. Acked(M, ack', accepted')
  BY <1>1, <1>5, <1>6, ItemIs, Zenon DEF Acked
<1>10. Within(M, queue', jobs', asked' \cup cache' \cup found', job, dev', read')
  BY <1>1, <1>5, <1>8, Zenon DEF Within
<1> QED
  BY <1>1, <1>2, <1>3, <1>4, <1>7, <1>9, <1>10, NothingNew, Zenon

LEMMA RefusedKeeps ==
  ASSUME IInv, NEW d \in asked, Refused(d) PROVE IInv'
<1> USE DEF IInv
<1>1. /\ UNCHANGED <<mode, full, newest, offered, issued, job, plan, sessions, queue, jobs,
                     ack, dev, read, found, sent, accepted, overflow>>
      /\ asked' \subseteq asked /\ cache' \subseteq cache
  BY Zenon DEF Refused, settings, serverVars, history
<1>2. Types' /\ SameBlock'
  BY <1>1, RefusedTypes, Zenon DEF SameBlock
<1>3. Sessions'
  BY <1>1, Zenon DEF Sessions
<1>4. PICK M : Declared(M)
  OBVIOUS
<1>5. /\ Within(M, queue, jobs, asked \cup cache \cup found, job, dev, read)
      /\ Acked(M, ack, accepted)
  BY <1>4, Zenon DEF Declared
<1>6. Within(M, queue', jobs', asked' \cup cache' \cup found', job, dev', read')
  BY <1>1, <1>5, Zenon DEF Within
<1> QED
  BY <1>1, <1>2, <1>3, <1>4, <1>5, <1>6, NothingNew, Zenon

LEMMA SessionEndsKeeps == IInv /\ SessionEnds => IInv'
<1> SUFFICES ASSUME IInv, SessionEnds PROVE IInv'
  OBVIOUS
<1> USE DEF IInv
<1>1. /\ UNCHANGED <<mode, full, newest, offered, issued, job, sessions, queue, ack, dev, read,
                     found, sent, accepted, overflow>>
      /\ asked' = {} /\ jobs' = <<>> /\ cache' = {} /\ plan' = 0
  BY DEF SessionEnds, settings, serverVars, history
<1>2. Types' /\ SameBlock' /\ Sessions'
  BY <1>1, SessionEndsTypes, Zenon DEF SameBlock, Sessions
<1>3. PICK M : Declared(M)
  OBVIOUS
<1>4. /\ Within(M, queue, jobs, asked \cup cache \cup found, job, dev, read)
      /\ Acked(M, ack, accepted)
  BY <1>3, Zenon DEF Declared
<1>5. Within(M, queue', jobs', asked' \cup cache' \cup found', job, dev', read')
  <2>1. DOMAIN jobs' = {}
    BY <1>1
  <2>2. asked' \cup cache' \cup found' \subseteq asked \cup cache \cup found
    BY <1>1, Zenon
  <2> QED
    BY <1>1, <1>4, <2>1, <2>2, Zenon DEF Within
<1> QED
  BY <1>1, <1>2, <1>3, <1>4, <1>5, NothingNew, Zenon

LEMMA DrainKeeps == IInv /\ Drain => IInv'
<1> SUFFICES ASSUME IInv, Drain PROVE IInv'
  OBVIOUS
<1> USE DEF IInv
<1>1. /\ UNCHANGED <<mode, full, newest, offered, issued, job, plan, sessions, asked, jobs,
                     cache, ack, dev, read, found, sent, accepted, overflow, faults>>
      /\ queue # <<>> /\ queue' = Tail(queue)
  BY DEF Drain, settings, serverVars, uplinkVars, history
<1>2. Types' /\ SameBlock' /\ Sessions'
  BY <1>1, DrainTypes, Zenon DEF SameBlock, Sessions
<1>3. PICK M : Declared(M)
  OBVIOUS
<1>4. /\ Within(M, queue, jobs, asked \cup cache \cup found, job, dev, read)
      /\ Acked(M, ack, accepted)
  BY <1>3, Zenon DEF Declared
<1>5. \A i \in DOMAIN Tail(queue) : i + 1 \in DOMAIN queue /\ Tail(queue)[i] = queue[i + 1]
  BY <1>1 DEF Types, UplinkTypes
<1>6. Within(M, queue', jobs', asked' \cup cache' \cup found', job, dev', read')
  BY <1>1, <1>4, <1>5, Zenon DEF Within
<1> QED
  BY <1>1, <1>2, <1>3, <1>4, <1>6, NothingNew, Zenon

(* Nothing is left of the last session.                                    *)
LEMMA SessionStartsKeeps == IInv /\ SessionStarts => IInv'
<1> SUFFICES ASSUME IInv, SessionStarts PROVE IInv'
  OBVIOUS
<1> USE DEF IInv
<1>1. /\ UNCHANGED <<mode, full, newest, offered, issued, job, queue, asked, jobs, cache,
                     dev, read, accepted, faults>>
      /\ plan = 0 /\ queue = <<>> /\ job = None /\ dev = Idle
      /\ read # None => read.job = None
      /\ sessions' = sessions + 1 /\ plan' = sessions + 1
      /\ ack' = 0 /\ found' = {} /\ sent' = {} /\ overflow' = {}
  BY Zenon DEF SessionStarts, settings, serverVars
<1>2. Types' /\ SameBlock'
  BY <1>1, SessionStartsTypes, Zenon DEF SameBlock
<1>3. Sessions'
  BY <1>1 DEF Sessions, Types, ServerTypes
<1>4. Declared({})'
  <2>1. Within({}, queue', jobs', asked' \cup cache' \cup found', job', dev', read')
    BY <1>1 DEF Sessions, Within, Idle
  <2> QED
    BY <1>1, <2>1, Zenon DEF Declared, Known, Distinct, Ordered, Acked
<1> QED
  BY <1>2, <1>3, <1>4

LEMMA ReadJobKeeps == IInv /\ ReadJob => IInv'
<1> SUFFICES ASSUME IInv, ReadJob PROVE IInv'
  OBVIOUS
<1> USE DEF IInv
<1>1. /\ UNCHANGED <<mode, full, newest, offered, issued, job, plan, sessions, queue,
                     asked, jobs, cache, ack, dev, found, sent, accepted, overflow, faults>>
      /\ read'.job = job
  BY ReadJobIs, Zenon
<1>2. Types' /\ SameBlock' /\ Sessions'
  BY <1>1, ReadJobTypes, Zenon DEF SameBlock, Sessions
<1>3. PICK M : Declared(M)
  OBVIOUS
<1>4. Within(M, queue, jobs, asked \cup cache \cup found, job, dev, read)
      /\ Acked(M, ack, accepted)
  BY <1>3, Zenon DEF Declared
<1>5. Within(M, queue', jobs', asked' \cup cache' \cup found', job, dev', read')
  BY <1>1, <1>4, Zenon DEF Within
<1> QED
  BY <1>1, <1>2, <1>3, <1>4, <1>5, NothingNew, Zenon

LEMMA UpdateKeeps == IInv /\ Update => IInv'
<1> SUFFICES ASSUME IInv, Update PROVE IInv'
  OBVIOUS
<1> USE DEF IInv
<1>1. /\ UNCHANGED <<mode, full, newest, offered, issued, job, plan, sessions, queue,
                     asked, jobs, cache, ack, found, sent, accepted, overflow, faults>>
      /\ read # None /\ read' = None
      /\ \/ dev' = Idle
         \/ dev' = dev
         \/ dev' = [job |-> read.job, older |-> Previous(read.job)] /\ read.job \in Work
  BY UpdateIs, Zenon
<1>2. Types' /\ SameBlock' /\ Sessions'
  BY <1>1, UpdateTypes, Zenon DEF SameBlock, Sessions
<1>3. PICK M : Declared(M)
  OBVIOUS
<1>4. /\ Within(M, queue, jobs, asked \cup cache \cup found, job, dev, read)
      /\ Acked(M, ack, accepted)
  BY <1>3, Zenon DEF Declared
<1>5. /\ dev'.job # None => Item(dev'.job) \in M
      /\ \A i \in DOMAIN dev'.older : Item(dev'.older[i]) \in M
  <2>1. CASE dev' = Idle
    BY <2>1 DEF Idle
  <2>2. CASE dev' = [job |-> read.job, older |-> Previous(read.job)] /\ read.job \in Work
    <3> DEFINE older == Previous(read.job)
    <3>1. dev'.job = read.job /\ dev'.older = older /\ read.job # None
      BY <2>2, Nones
    <3>2. \A i \in DOMAIN older :
             \/ older[i] = dev.job /\ dev.job # None
             \/ \E k \in DOMAIN dev.older : older[i] = dev.older[k]
      BY PreviousIs, Zenon
    <3> HIDE DEF older
    <3> QED
      BY <1>1, <1>4, <3>1, <3>2, Zenon DEF Within
  <2>3. CASE dev' = dev
    BY <1>4, <2>3, Zenon DEF Within
  <2> QED
    BY <1>1, <2>1, <2>2, <2>3, Zenon
<1>6. Within(M, queue', jobs', asked' \cup cache' \cup found', job, dev', read')
  BY <1>1, <1>4, <1>5, Zenon DEF Within
<1> QED
  BY <1>1, <1>2, <1>3, <1>4, <1>6, NothingNew, Zenon

LEMMA FindKeeps ==
  ASSUME IInv, Cardinality(found) \in Nat, Find PROVE IInv'
<1> USE DEF IInv
<1>1. UNCHANGED <<mode, full, newest, offered, issued, job, plan, sessions, asked,
                  jobs, cache, ack, dev, read, sent, accepted, faults>>
  BY FindIs, Zenon
<1>2. PICK share \in Shares :
        /\ \/ dev.job # None /\ Item(share) = Item(dev.job)
           \/ \E i \in DOMAIN dev.older : Item(share) = Item(dev.older[i])
        /\ found' = found \cup {share}
        /\ \/ queue' = Append(queue, [kind |-> "share", n |-> share.n,
                                      t |-> share.t, id |-> share.id])
           \/ queue' = queue
  BY FindIs, Zenon
<1>3. Types' /\ SameBlock' /\ Sessions'
  BY <1>1, FindTypes, Zenon DEF SameBlock, Sessions
<1>4. PICK M : Declared(M)
  OBVIOUS
<1>5. /\ Within(M, queue, jobs, asked \cup cache \cup found, job, dev, read)
      /\ Acked(M, ack, accepted)
  BY <1>4, Zenon DEF Declared
<1>6. Item(share) \in M
  BY <1>2, <1>5, Zenon DEF Within
<1> DEFINE e == [kind |-> "share", n |-> share.n, t |-> share.t, id |-> share.id]
<1>7. \A i \in DOMAIN queue' : Item(queue'[i]) \in M
  <2>1. Item(e) = Item(share) /\ queue \in Seq(Event)
    BY Zenon DEF Item, Types, UplinkTypes
  <2>2. queue' = Append(queue, e) \/ queue' = queue
    BY <1>2, Zenon
  <2> HIDE DEF e
  <2>3. \A i \in DOMAIN queue' : (i \in DOMAIN queue /\ queue'[i] = queue[i]) \/ queue'[i] = e
    BY <2>1, <2>2, AppendIs
  <2> QED
    BY <1>5, <1>6, <2>1, <2>3, Zenon DEF Within
<1>8. Within(M, queue', jobs', asked' \cup cache' \cup found', job, dev', read')
  BY <1>1, <1>2, <1>5, <1>6, <1>7, Zenon DEF Within
<1> QED
  BY <1>1, <1>3, <1>4, <1>5, <1>8, NothingNew, Zenon

LEMMA NextIInv ==
  ASSUME IInv, Cardinality(found) \in Nat, [Next]_vars PROVE IInv'
<1>1. CASE UNCHANGED vars
  <2>1. UNCHANGED <<mode, full, newest, offered, issued, job, plan, sessions, queue, asked,
                    jobs, cache, ack, dev, read, found, sent, accepted, overflow, faults>>
    BY <1>1, Zenon DEF vars, settings, serverVars, uplinkVars, history
  <2>2. Types' /\ Sessions' /\ SameBlock'
    BY <2>1, NextTypes, Zenon DEF IInv, Sessions, SameBlock
  <2>3. PICK M : Declared(M)
    BY DEF IInv
  <2>4. Within(M, queue', jobs', asked' \cup cache' \cup found', job, dev', read')
        /\ Acked(M, ack', accepted')
    BY <2>1, <2>3, Zenon DEF Declared
  <2> QED
    BY <2>1, <2>2, <2>3, <2>4, NothingNew, Zenon
<1>2. CASE Next
  BY <1>2, OffersAreNewer, OfferKeeps, LeaseEndsKeeps, TakePublishedKeeps, TakeShareKeeps,
     DeclareMiningJobSuccessKeeps, SetCustomMiningJobSuccessKeeps, RefusedKeeps,
     SessionEndsKeeps, DrainKeeps, SessionStartsKeeps, ReadJobKeeps, UpdateKeeps,
     FindKeeps, Zenon
     DEF Next
<1> QED
  BY <1>1, <1>2

---------------------------------------------------------------------------
(* The device's work.                                                      *)

(* What AcceptedFirst says of a step, and what remains of it when token    *)
(* sets change: the pool accepted a template of the work's generation, or  *)
(* the work was replaced and the pool accepted work of its session of that *)
(* generation or a newer one.                                              *)
GenerationAccepted ==
  TakesNew =>
    \E x \in accepted :
      \/ Alike(mode, x, dev'.job.t)
      \/ /\ Replaced(dev'.job)
         /\ x.plan = dev'.job.t.plan /\ x.gen >= dev'.job.t.gen
         /\ OneTokens(mode) => x.tok >= dev'.job.t.tok

LEMMA TakesAccepted == IInv /\ [Next]_vars => [GenerationAccepted]_vars
<1> SUFFICES ASSUME IInv, Next, TakesNew PROVE GenerationAccepted
  BY DEF GenerationAccepted
<1>1. dev'.job # None /\ ~HasTemplate(dev'.job.t)
  BY DEF TakesNew
<1>2. dev' # dev
  BY <1>1 DEF HasTemplate
<1>3. ~LeaseEnds
  <2> SUFFICES ASSUME LeaseEnds PROVE FALSE
    OBVIOUS
  <2>1. dev'.job = Ended(dev.job) /\ dev.job \in Work \cup {None}
    BY DEF LeaseEnds, IInv, Types, DeviceTypes
  <2> QED
    BY <1>1, <2>1, EndedIs DEF HasTemplate
<1>4. Update
  BY <1>2, <1>3, Zenon DEF Next, Refresh, TokensChange, PlanChanged, Offer, TakePublished,
     TakeShare, DeclareMiningJobSuccess, SetCustomMiningJobSuccess, Refused, SessionEnds,
     Drain, SessionStarts, ReadJob, Find
<1>5. PICK j : j = read.job
  OBVIOUS
<1>6. /\ dev' = [job |-> j, older |-> Previous(j)] /\ j \in Work /\ read # None
      /\ mode = "p2pool" => Accepted(j)
      /\ ~Gated(j)
  <2>1. dev' # Idle
    BY <1>1 DEF Idle
  <2> QED
    BY <1>2, <1>4, <1>5, <2>1, UpdateIs, Zenon DEF IInv
<1>7. dev'.job = j /\ j # None
  BY <1>1, <1>6
<1>8. PICK M : Declared(M)
  BY DEF IInv
<1>9. /\ Item(j) \in M /\ M \in SUBSET Items /\ Distinct(M, mode) /\ Ordered(M, mode)
      /\ Acked(M, ack, accepted) /\ Known(M, mode, newest, issued, job, sessions)
      /\ job # None => Item(job) \in M
  BY <1>5, <1>6, <1>7, <1>8, Zenon DEF Declared, Within
<1>10. Item(j).id = j.id /\ Item(j).t = j.t
  BY ItemIs, Zenon
<1>11. j.id \in Nat \ {0} /\ ack \in Nat /\ (mode # "p2pool" => j.id = j.t.gen)
  BY <1>6, <1>9, <1>10, Zenon DEF Work, Known, IInv, Types, ServerTypes
<1>12. ack >= j.id
  <2>1. CASE mode = "p2pool"
    BY <1>6, <2>1 DEF Accepted
  <2>2. CASE mode # "p2pool"
    <3>1. mode = "declared" /\ dev.job # None /\ SameSession(j)
      BY <1>7, <2>2, ModesGiven DEF TakesNew, IInv, Types, ServerTypes
    <3>2. ~(j.t.gen > ack)
      BY <1>6, <3>1 DEF Gated
    <3> QED
      BY <1>11, <2>2, <3>2
  <2> QED
    BY <2>1, <2>2
<1>13. PICK a \in M : a.id = ack /\ a.t \in accepted
  BY <1>9, <1>11, <1>12 DEF Acked
<1>14. CASE ~Replaced(j)
  <2>1. job # None /\ job.t = j.t
    BY <1>14, Zenon DEF Replaced
  <2>2. job.id = j.id
    BY <1>9, <2>1, SameDeclaration, Zenon
  <2>3. a.id <= j.id
    BY <1>9, <2>1, <2>2, Zenon DEF Known
  <2>4. a.id = Item(j).id
    BY <1>10, <1>11, <1>12, <1>13, <2>3
  <2>5. Alike(mode, a.t, j.t)
    BY <1>9, <1>10, <2>4, Zenon DEF Distinct
  <2> QED
    BY <1>7, <1>13, <2>5, Zenon DEF GenerationAccepted
<1>15. CASE Replaced(j)
  <2>1. Item(j).id <= a.id
    BY <1>10, <1>11, <1>12, <1>13
  <2>2. j.t.gen <= a.t.gen /\ (OneTokens(mode) => j.t.tok <= a.t.tok)
    BY <1>9, <1>10, <2>1, Zenon DEF Ordered
  <2>3. a.t.plan = j.t.plan
    BY <1>9, <1>10, Zenon DEF Known
  <2>4. /\ j.t.gen \in Nat /\ j.t.tok \in Nat /\ a.t.gen \in Nat /\ a.t.tok \in Nat
    BY <1>6, <1>9 DEF Work, Items, Templates
  <2>5. a.t.gen >= j.t.gen /\ (OneTokens(mode) => a.t.tok >= j.t.tok)
    BY <2>2, <2>4
  <2> QED
    BY <1>7, <1>13, <1>15, <2>3, <2>5, Zenon DEF GenerationAccepted
<1> QED
  BY <1>14, <1>15

---------------------------------------------------------------------------
(* The way of a declaration: the queue q, then the declarations a the pool *)
(* has to answer, then the pool's jobs js.  Once off it, it never comes    *)
(* back.                                                                   *)

Published(q, k) == \E i \in DOMAIN q : q[i].kind = "published" /\ q[i].id = k
InJobs(js, k) == \E i \in DOMAIN js : js[i].id = k
Gone(q, a, js, k) == ~Published(q, k) /\ ~Awaits(a, k) /\ ~InJobs(js, k)

(* An id is in one place.                                                  *)
Apart(q, a, js) ==
  /\ \A i \in DOMAIN q, k \in DOMAIN q :
       q[i].kind = "published" /\ q[k].kind = "published" /\ q[i].id = q[k].id => i = k
  /\ \A d \in a, e \in a : d.id = e.id => d = e
  /\ \A d \in a : ~Published(q, d.id) /\ ~InJobs(js, d.id)
  /\ \A i \in DOMAIN js : ~Published(q, js[i].id)

(* A share is queued behind its template.                                  *)
InOrder(q) ==
  \A i \in DOMAIN q, k \in DOMAIN q :
    i < k /\ q[i].kind = "share" /\ q[k].kind = "published" => q[i].id # q[k].id

ShareEvent(s) == [kind |-> "share", n |-> s.n, t |-> s.t, id |-> s.id]

(* Where a share is that is neither sent nor found a queue full: queued,   *)
(* waiting for an answer, or dropped with its declaration.                 *)
Accounted(s, q, a, js, c, sn, ov) ==
  \/ s.n \in ov
  \/ \E x \in sn : x.n = s.n
  \/ \E i \in DOMAIN q : q[i] = ShareEvent(s)
  \/ s \in c
  \/ Gone(q, a, js, s.id)

Ways ==
  /\ Apart(queue, asked, jobs) /\ InOrder(queue)
  /\ \A s \in cache : Awaits(asked, s.id)
  /\ \A s \in found : Accounted(s, queue, asked, jobs, cache, sent, overflow)
Pipeline == OneTokens(mode) => Ways

LEMMA InitPipeline == Init => Pipeline
<1> SUFFICES ASSUME Init PROVE Ways
  BY DEF Pipeline
<1>1. queue = <<>> /\ asked = {} /\ jobs = <<>> /\ cache = {} /\ found = {}
  BY DEF Init
<1>2. Apart(queue, asked, jobs) /\ InOrder(queue)
  BY <1>1 DEF Apart, InOrder
<1> QED
  BY <1>1, <1>2 DEF Ways

LEMMA WaysFrame ==
  Ways /\ UNCHANGED <<queue, asked, jobs, cache, found, sent, overflow>> => Ways'
  BY DEF Ways

LEMMA OfferWays ==
  ASSUME IInv, NEW n \in [gen : Nat \ {0}, tok : Nat, parent : 0..MaxParent], Newer(n),
         n.tok <= MaxTokens[mode], Offer(n), OneTokens(mode), Ways
  PROVE  Ways'
<1>0. UNCHANGED <<asked, jobs, cache, found, sent, overflow>>
  BY Zenon DEF Offer, uplinkVars, history
<1>1. CASE ~(plan # 0 /\ Len(queue) < QueueCap)
  <2>1. queue' = queue
    BY <1>1, Zenon DEF Offer
  <2> QED
    BY <1>0, <2>1, WaysFrame
<1>2. CASE plan # 0 /\ Len(queue) < QueueCap
  <2> DEFINE f == DeclarationId(n)
             e == [kind |-> "published", t |-> Template(n), id |-> f]
  <2>1. queue' = Append(queue, e) /\ queue \in Seq(Event)
    <3>1. queue' = Append(queue, e)
      BY <1>2 DEF Offer
    <3>2. queue \in Seq(Event)
      BY DEF IInv, Types, UplinkTypes
    <3> QED
      BY <3>1, <3>2, Zenon
  <2>2. PICK M : Declared(M)
    BY DEF IInv
  <2>3. \A a \in M : a.id # f
    <3>1. /\ plan = sessions /\ (n = newest => M = {}) /\ M \in SUBSET Items
          /\ Known(M, mode, newest, issued, job, sessions) /\ Distinct(M, mode)
          /\ newest.tok <= MaxTokens[mode]
      BY <1>2, <2>2 DEF IInv, Sessions, Declared, Newer
    <3>2. OneTokens(mode) => \A a \in M : a.id # [id |-> f, t |-> Template(n)].id
      BY <1>2, <3>1, NewIsDistinct, Zenon DEF IInv, Newer
    <3> QED
      BY <3>2
  <2>4. e.id = f /\ e.kind = "published"
    OBVIOUS
  <2> HIDE DEF f, e
  <2>5. Within(M, queue, jobs, asked \cup cache \cup found, job, dev, read)
    BY <2>2, Zenon DEF Declared
  <2>6. /\ \A i \in DOMAIN queue : queue[i].id # f
        /\ \A i \in DOMAIN jobs : jobs[i].id # f
        /\ \A x \in asked \cup cache \cup found : x.id # f
    BY <2>3, <2>5, ItemIs DEF Within
  <2>7. /\ Len(queue) \in Nat /\ DOMAIN queue = 1..Len(queue)
        /\ \A i \in DOMAIN queue : i \in DOMAIN queue' /\ queue'[i] = queue[i]
        /\ queue'[Len(queue) + 1] = e
        /\ \A i \in DOMAIN queue' : i \in DOMAIN queue \/ i = Len(queue) + 1
    BY <2>1, AppendIs
  <2>8. \A k : Published(queue', k) => Published(queue, k) \/ k = f
    BY <2>4, <2>7, Zenon DEF Published
  <2>a. \A i \in DOMAIN queue' :
          \/ i \in DOMAIN queue /\ queue'[i] = queue[i] /\ queue'[i].id # f
          \/ i = Len(queue) + 1 /\ queue'[i].id = f
    BY <2>4, <2>6, <2>7, Zenon
  <2>9. \A s \in found : Gone(queue, asked, jobs, s.id) => Gone(queue', asked, jobs, s.id)
    BY <2>6, <2>8, Zenon DEF Gone
  <2>10. Apart(queue', asked, jobs)
    <3>1. \A i \in DOMAIN queue', k \in DOMAIN queue' :
            queue'[i].kind = "published" /\ queue'[k].kind = "published"
              /\ queue'[i].id = queue'[k].id => i = k
      BY <2>a, Zenon DEF Ways, Apart
    <3> QED
      BY <2>6, <2>8, <3>1, Zenon DEF Ways, Apart
  <2>11. InOrder(queue')
    <3> SUFFICES ASSUME NEW i \in DOMAIN queue', NEW k \in DOMAIN queue', i < k,
                        queue'[i].kind = "share", queue'[k].kind = "published"
                 PROVE  queue'[i].id # queue'[k].id
      BY DEF InOrder
    <3>1. i \in DOMAIN queue
      BY <2>4, <2>7, Zenon
    <3>2. queue'[i] = queue[i] /\ queue[i].id # f
      BY <2>6, <2>7, <3>1, Zenon
    <3>3. CASE k \in DOMAIN queue /\ queue'[k] = queue[k]
      BY <3>1, <3>2, <3>3, Zenon DEF Ways, InOrder
    <3> QED
      BY <2>a, <3>2, <3>3, Zenon
  <2>12. \A s \in found : Accounted(s, queue', asked, jobs, cache, sent, overflow)
    BY <2>7, <2>9, Zenon DEF Ways, Accounted
  <2> QED
    BY <1>0, <2>10, <2>11, <2>12, Zenon DEF Ways
<1> QED
  BY <1>1, <1>2

(* The queue without its first event.                                      *)
LEMMA TailIs ==
  ASSUME NEW S, NEW q \in Seq(S), q # <<>>
  PROVE  /\ 1 \in DOMAIN q /\ q[1] = Head(q)
         /\ \A i \in DOMAIN Tail(q) :
              i \in Nat \ {0} /\ i + 1 \in DOMAIN q /\ Tail(q)[i] = q[i + 1]
         /\ \A i \in DOMAIN q : i # 1 => i - 1 \in DOMAIN Tail(q) /\ Tail(q)[i - 1] = q[i]
  OBVIOUS

LEMMA TailWays ==
  ASSUME NEW q \in Seq(Event), q # <<>>, NEW a, NEW js, Apart(q, a, js), InOrder(q)
  PROVE  /\ Apart(Tail(q), a, js) /\ InOrder(Tail(q))
         /\ \A k : Published(Tail(q), k) => Published(q, k)
         /\ ~Published(Tail(q), Head(q).id)
<1> DEFINE r == Tail(q)
<1>1. /\ 1 \in DOMAIN q /\ q[1] = Head(q)
      /\ \A i \in DOMAIN r : i \in Nat \ {0} /\ i + 1 \in DOMAIN q /\ r[i] = q[i + 1]
  BY TailIs
<1> HIDE DEF r
<1>2. \A k : Published(r, k) => Published(q, k)
  BY <1>1 DEF Published
<1>3. \A i \in DOMAIN r, k \in DOMAIN r :
        r[i].kind = "published" /\ r[k].kind = "published" /\ r[i].id = r[k].id => i = k
  <2> SUFFICES ASSUME NEW i \in DOMAIN r, NEW k \in DOMAIN r, r[i].kind = "published",
                      r[k].kind = "published", r[i].id = r[k].id
               PROVE  i = k
    OBVIOUS
  <2>1. i + 1 = k + 1
    BY <1>1 DEF Apart
  <2> QED
    BY <1>1, <2>1
<1>4. Apart(r, a, js)
  BY <1>2, <1>3, Zenon DEF Apart
<1>5. InOrder(r)
  <2> SUFFICES ASSUME NEW i \in DOMAIN r, NEW k \in DOMAIN r, i < k, r[i].kind = "share",
                      r[k].kind = "published"
               PROVE  r[i].id # r[k].id
    BY DEF InOrder
  <2>1. i + 1 < k + 1
    BY <1>1
  <2> QED
    BY <1>1, <2>1 DEF InOrder
<1>6. ~Published(r, Head(q).id)
  <2> SUFFICES ASSUME NEW i \in DOMAIN r, r[i].kind = "published", r[i].id = Head(q).id
               PROVE  FALSE
    BY DEF Published
  <2>1. i + 1 \in DOMAIN q /\ q[i + 1] = r[i] /\ 1 < i + 1 /\ 1 # i + 1
    BY <1>1
  <2>2. q[1].kind = "published" \/ q[1].kind = "share"
    <3>1. Head(q) \in Event
      OBVIOUS
    <3> QED
      BY <1>1, <3>1, Zenon DEF Event
  <2>3. CASE q[1].kind = "published"
    BY <1>1, <2>1, <2>3, Zenon DEF Apart
  <2>4. CASE q[1].kind = "share"
    BY <1>1, <2>1, <2>4 DEF InOrder
  <2> QED
    BY <2>2, <2>3, <2>4
<1> QED
  BY <1>2, <1>4, <1>5, <1>6 DEF r

(* A share behind the first event is still queued.                         *)
LEMMA TailAccounts ==
  ASSUME NEW q \in Seq(Event), q # <<>>, NEW s, NEW i \in DOMAIN q, q[i] = ShareEvent(s),
         Head(q) # ShareEvent(s)
  PROVE  \E k \in DOMAIN Tail(q) : Tail(q)[k] = ShareEvent(s)
<1>1. i # 1
  BY TailIs
<1>2. i - 1 \in DOMAIN Tail(q) /\ Tail(q)[i - 1] = q[i]
  BY <1>1, TailIs
<1> QED
  BY <1>2

LEMMA TakePublishedWays == IInv /\ Ways /\ TakePublished => Ways'
<1> SUFFICES ASSUME IInv, Ways, TakePublished PROVE Ways'
  OBVIOUS
<1> DEFINE h == Head(queue)
<1>1. /\ UNCHANGED <<jobs, found, sent, overflow>>
      /\ queue # <<>> /\ queue' = Tail(queue) /\ h.kind = "published"
      /\ Declares(h) \/ UNCHANGED <<asked, cache>>
  BY Zenon DEF TakePublished, history
<1>2. queue \in Seq(Event)
  BY DEF IInv, Types, UplinkTypes
<1>3. /\ Apart(queue', asked, jobs) /\ InOrder(queue')
      /\ \A k : Published(queue', k) => Published(queue, k)
      /\ ~Published(queue', h.id)
  BY <1>1, <1>2, TailWays, Zenon DEF Ways
<1>4. Published(queue, h.id)
  BY <1>1, <1>2, TailIs, Zenon DEF Published
<1>5. ASSUME NEW s \in found, cache \subseteq cache',
             \A k : Awaits(asked', k) => Awaits(asked, k) \/ k = h.id
      PROVE  Accounted(s, queue', asked', jobs, cache', sent, overflow)
  <2>1. Accounted(s, queue, asked, jobs, cache, sent, overflow)
    BY DEF Ways
  <2>2. h # ShareEvent(s)
    BY <1>1 DEF ShareEvent
  <2>3. \A i \in DOMAIN queue : queue[i] = ShareEvent(s) =>
          \E k \in DOMAIN queue' : queue'[k] = ShareEvent(s)
    BY <1>1, <1>2, <2>2, TailAccounts, Zenon
  <2>4. Gone(queue, asked, jobs, s.id) => Gone(queue', asked', jobs, s.id)
    BY <1>3, <1>4, <1>5, Zenon DEF Gone
  <2> QED
    BY <1>5, <2>1, <2>3, <2>4, Zenon DEF Accounted
<1>6. CASE UNCHANGED <<asked, cache>>
  <2>1. \A s \in found : Accounted(s, queue', asked', jobs, cache', sent, overflow)
    BY <1>5, <1>6
  <2> QED
    BY <1>1, <1>3, <1>6, <2>1, Zenon DEF Ways
<1>7. CASE Declares(h)
  <2>1. PICK d : asked' = asked \cup {d} /\ d.id = h.id
    <3> DEFINE d == [id |-> h.id, t |-> h.t, stage |-> IF full THEN "declarator" ELSE "pool"]
    <3>1. asked' = asked \cup {d}
      BY <1>7, Zenon DEF Declares
    <3>2. d.id = h.id
      OBVIOUS
    <3> QED
      BY <3>1, <3>2, Zenon
  <2>2. cache' = {s \in cache : Awaits(asked', s.id)}
    BY <1>7, Zenon DEF Declares
  <2> HIDE DEF h
  <2>3. \A k : Awaits(asked', k) <=> Awaits(asked, k) \/ k = h.id
    BY <2>1 DEF Awaits
  <2>4. cache' = cache
    BY <2>2, <2>3 DEF Ways
  <2>5. \A s \in found : Accounted(s, queue', asked', jobs, cache', sent, overflow)
    BY <1>5, <2>3, <2>4
  <2>6. Apart(queue', asked', jobs)
    <3>1. /\ \A e \in asked : e.id # h.id
          /\ ~InJobs(jobs, h.id)
      BY <1>4, Zenon DEF Ways, Apart, InJobs
    <3> QED
      BY <1>3, <2>1, <3>1, Zenon DEF Apart
  <2>7. \A s \in cache : Awaits(asked', s.id)
    BY <2>3 DEF Ways
  <2> QED
    BY <1>1, <1>3, <2>4, <2>5, <2>6, <2>7, Zenon DEF Ways
<1> QED
  BY <1>1, <1>6, <1>7

LEMMA TakeShareWays == IInv /\ Ways /\ TakeShare => Ways'
<1> SUFFICES ASSUME IInv, Ways, TakeShare PROVE Ways'
  OBVIOUS
<1> DEFINE h == Head(queue)
           share == [n |-> h.n, t |-> h.t, id |-> h.id]
<1>1. /\ UNCHANGED <<asked, jobs, found>>
      /\ queue # <<>> /\ queue' = Tail(queue) /\ h.kind = "share"
  BY Zenon DEF TakeShare
<1>2. queue \in Seq(Event)
  BY DEF IInv, Types, UplinkTypes
<1>3. /\ Apart(queue', asked, jobs) /\ InOrder(queue')
      /\ \A k : Published(queue', k) => Published(queue, k)
      /\ ~Published(queue', h.id)
  BY <1>1, <1>2, TailWays, Zenon DEF Ways
<1>4. \/ /\ \E i \in DOMAIN jobs : sent' = sent \cup {Sent(h, jobs[i].t)}
         /\ UNCHANGED <<cache, overflow>>
      \/ cache' = cache \cup {share} /\ Awaits(asked, h.id) /\ UNCHANGED <<overflow, sent>>
      \/ overflow' = overflow \cup {h.n} /\ UNCHANGED <<cache, sent>>
      \/ ~HasJob(h.id) /\ ~Awaits(asked, h.id) /\ UNCHANGED <<sent, cache, overflow>>
  BY Zenon DEF TakeShare
<1>5. /\ sent \subseteq sent' /\ cache \subseteq cache' /\ overflow \subseteq overflow'
      /\ \A s \in cache' : Awaits(asked, s.id)
  <2>1. share.id = h.id
    OBVIOUS
  <2> HIDE DEF h, share
  <2> QED
    BY <1>4, <2>1, Zenon DEF Ways
<1>6. ASSUME NEW s \in found, h # ShareEvent(s)
      PROVE  Accounted(s, queue', asked, jobs, cache', sent', overflow')
  <2>1. Accounted(s, queue, asked, jobs, cache, sent, overflow)
    BY DEF Ways
  <2>2. \A i \in DOMAIN queue : queue[i] = ShareEvent(s) =>
          \E k \in DOMAIN queue' : queue'[k] = ShareEvent(s)
    BY <1>1, <1>2, <1>6, TailAccounts
  <2>3. Gone(queue, asked, jobs, s.id) => Gone(queue', asked, jobs, s.id)
    BY <1>3 DEF Gone
  <2> QED
    BY <1>5, <2>1, <2>2, <2>3, Zenon DEF Accounted
<1>7. ASSUME NEW s \in found, h = ShareEvent(s)
      PROVE  Accounted(s, queue', asked, jobs, cache', sent', overflow')
  <2>1. h.n = s.n /\ h.t = s.t /\ h.id = s.id
    BY <1>7 DEF ShareEvent
  <2>2. share = s
    <3>1. s \in Shares
      BY DEF IInv, Types, HistoryTypes
    <3> QED
      BY <2>1, <3>1, Zenon DEF Shares
  <2> HIDE DEF h, share
  <2>3. CASE \E i \in DOMAIN jobs : sent' = sent \cup {Sent(h, jobs[i].t)}
    <3>1. \A x : Sent(h, x).n = s.n
      BY <2>1 DEF Sent
    <3>2. \E x \in sent' : x.n = s.n
      BY <2>3, <3>1
    <3> QED
      BY <3>2 DEF Accounted
  <2>4. CASE cache' = cache \cup {share}
    BY <2>2, <2>4 DEF Accounted
  <2>5. CASE overflow' = overflow \cup {h.n}
    BY <2>1, <2>5 DEF Accounted
  <2>6. CASE ~HasJob(h.id) /\ ~Awaits(asked, h.id)
    BY <1>3, <2>1, <2>6, Zenon DEF Accounted, Gone, HasJob, InJobs
  <2> QED
    BY <1>4, <2>3, <2>4, <2>5, <2>6, Zenon
<1>8. \A s \in found : Accounted(s, queue', asked, jobs, cache', sent', overflow')
  BY <1>6, <1>7
<1> HIDE DEF h
<1> QED
  BY <1>1, <1>3, <1>5, <1>8, Zenon DEF Ways

(* The pool's answers move a declaration on, or drop it with its shares.   *)
LEMMA DeclareMiningJobSuccessWays ==
  ASSUME IInv, Ways, NEW d \in asked, DeclareMiningJobSuccess(d) PROVE Ways'
<1>1. /\ UNCHANGED <<queue, jobs, cache, found, sent, overflow>>
      /\ asked' = (asked \ {d}) \cup {[d EXCEPT !.stage = "pool"]}
  BY DEF DeclareMiningJobSuccess, history
<1>2. PICK e : asked' = (asked \ {d}) \cup {e} /\ e.id = d.id
  <2>1. [d EXCEPT !.stage = "pool"].id = d.id
    BY DEF IInv, Types, UplinkTypes
  <2> QED
    BY <1>1, <2>1, Zenon
<1>3. \A k : Awaits(asked', k) <=> Awaits(asked, k)
  BY <1>2 DEF Awaits
<1>4. Apart(queue, asked', jobs)
  <2>1. \A x \in asked' : \E y \in asked : x.id = y.id
    BY <1>2
  <2>2. \A x \in asked', y \in asked' : x.id = y.id => x = y
    <3>1. \A x \in asked \ {d}, y \in asked : x.id = y.id => x = y
      BY Zenon DEF Ways, Apart
    <3>2. \A x \in asked \ {d} : x.id # e.id
      BY <1>2, <3>1, Zenon
    <3> QED
      BY <1>2, <3>1, <3>2, Zenon
  <2> QED
    BY <2>1, <2>2, Zenon DEF Ways, Apart
<1>5. \A s \in found : Accounted(s, queue, asked', jobs, cache, sent, overflow)
  BY <1>3, Zenon DEF Ways, Accounted, Gone
<1> QED
  BY <1>1, <1>3, <1>4, <1>5, Zenon DEF Ways

LEMMA SetCustomMiningJobSuccessWays ==
  ASSUME IInv, Ways, NEW d \in asked, SetCustomMiningJobSuccess(d) PROVE Ways'
<1>1. /\ UNCHANGED <<queue, found, overflow>>
      /\ asked' = asked \ {d}
      /\ jobs' = NewestJobs(Append(jobs, Item(d)))
      /\ sent' = sent \cup {Sent(s, d.t) : s \in KeptShares(d)}
      /\ cache' = {s \in cache : s.id # d.id}
  BY Zenon DEF SetCustomMiningJobSuccess, Item
<1>2. \A i \in DOMAIN jobs' : jobs'[i] = Item(d) \/ \E k \in DOMAIN jobs : jobs'[i] = jobs[k]
  <2>1. jobs \in Seq(Items) /\ Len(jobs) <= KeptJobs /\ Item(d) \in Items
    BY DEF IInv, Types, UplinkTypes, Item, Items
  <2> QED
    BY <1>1, <2>1, AcceptedJobs, Zenon
<1>3. \A k : InJobs(jobs', k) => InJobs(jobs, k) \/ k = d.id
  BY <1>2, ItemIs DEF InJobs
<1>4. /\ \A k : Awaits(asked', k) => Awaits(asked, k) /\ k # d.id
      /\ \A k : Awaits(asked, k) /\ k # d.id => Awaits(asked', k)
  BY <1>1, Zenon DEF Awaits, Ways, Apart
<1>5. Apart(queue, asked', jobs')
  <2>1. \A e \in asked' : ~Published(queue, e.id) /\ ~InJobs(jobs', e.id)
    BY <1>1, <1>3, Zenon DEF Ways, Apart
  <2>2. \A i \in DOMAIN jobs' : ~Published(queue, jobs'[i].id)
    <3>1. Item(d).id = d.id
      BY ItemIs, Zenon
    <3> QED
      BY <1>2, <3>1, Zenon DEF Ways, Apart
  <2> QED
    BY <1>1, <2>1, <2>2, Zenon DEF Ways, Apart
<1>6. \A s \in cache' : Awaits(asked', s.id)
  BY <1>1, <1>4, Zenon DEF Ways
<1>7. ASSUME NEW s \in found
      PROVE  Accounted(s, queue, asked', jobs', cache', sent', overflow)
  <2>1. Accounted(s, queue, asked, jobs, cache, sent, overflow)
    BY DEF Ways
  <2>2. Gone(queue, asked, jobs, s.id) => Gone(queue, asked', jobs', s.id)
    <3>1. Awaits(asked, d.id)
      BY DEF Awaits
    <3> QED
      BY <1>3, <1>4, <3>1, Zenon DEF Gone
  <2>3. s \in cache => s \in cache' \/ \E x \in sent' : x.n = s.n
    <3>1. Sent(s, d.t).n = s.n
      BY DEF Sent
    <3>2. s \in cache /\ s.id = d.id => Sent(s, d.t) \in sent'
      BY <1>1 DEF KeptShares
    <3> QED
      BY <1>1, <3>1, <3>2, Zenon
  <2> QED
    BY <1>1, <2>1, <2>2, <2>3, Zenon DEF Accounted
<1> QED
  BY <1>1, <1>5, <1>6, <1>7, Zenon DEF Ways

LEMMA RefusedWays ==
  ASSUME IInv, Ways, NEW d \in asked, Refused(d) PROVE Ways'
<1>1. /\ UNCHANGED <<queue, jobs, found, sent, overflow>>
      /\ asked' = asked \ {d} /\ cache' = {s \in cache : s.id # d.id}
  BY DEF Refused, history
<1>2. /\ \A k : Awaits(asked', k) => Awaits(asked, k) /\ k # d.id
      /\ \A k : Awaits(asked, k) /\ k # d.id => Awaits(asked', k)
  BY <1>1, Zenon DEF Awaits, Ways, Apart
<1>3. Gone(queue, asked', jobs, d.id)
  BY <1>2, Zenon DEF Gone, Ways, Apart
<1>4. Apart(queue, asked', jobs)
  BY <1>1, Zenon DEF Ways, Apart
<1>5. \A s \in found : Accounted(s, queue, asked', jobs, cache', sent, overflow)
  BY <1>1, <1>2, <1>3, Zenon DEF Ways, Accounted, Gone
<1> QED
  BY <1>1, <1>2, <1>4, <1>5, Zenon DEF Ways

(* With its session every declaration and every share that waited is gone. *)
LEMMA SessionEndsWays == Ways /\ SessionEnds => Ways'
<1> SUFFICES ASSUME Ways, SessionEnds PROVE Ways'
  OBVIOUS
<1>1. /\ UNCHANGED <<queue, found, sent, overflow>>
      /\ asked' = {} /\ jobs' = <<>> /\ cache' = {}
  BY DEF SessionEnds, history
<1>2. \A k : ~Awaits({}, k) /\ ~InJobs(<<>>, k)
  BY DEF Awaits, InJobs
<1>3. \A s \in cache : ~Published(queue, s.id)
  BY DEF Ways, Awaits, Apart
<1>4. \A s \in found : Accounted(s, queue, {}, <<>>, {}, sent, overflow)
  BY <1>2, <1>3, Zenon DEF Ways, Accounted, Gone
<1>5. Apart(queue, {}, <<>>)
  <2>1. \A i \in DOMAIN <<>> : FALSE
    OBVIOUS
  <2> QED
    BY <2>1, Zenon DEF Ways, Apart
<1> QED
  BY <1>1, <1>4, <1>5 DEF Ways

LEMMA DrainWays == IInv /\ Ways /\ Drain => Ways'
<1> SUFFICES ASSUME IInv, Ways, Drain PROVE Ways'
  OBVIOUS
<1>1. /\ UNCHANGED <<asked, jobs, cache, found, sent, overflow>>
      /\ plan = 0 /\ queue # <<>> /\ queue' = Tail(queue)
  BY DEF Drain, uplinkVars, history
<1>2. queue \in Seq(Event) /\ asked = {} /\ jobs = <<>>
  BY <1>1 DEF IInv, Sessions, Types, UplinkTypes
<1>3. /\ Apart(queue', asked, jobs) /\ InOrder(queue')
      /\ \A k : Published(queue', k) => Published(queue, k)
      /\ ~Published(queue', Head(queue).id)
  BY <1>1, <1>2, TailWays, Zenon DEF Ways
<1>4. ASSUME NEW s \in found
      PROVE  Accounted(s, queue', asked, jobs, cache, sent, overflow)
  <2>1. Accounted(s, queue, asked, jobs, cache, sent, overflow)
    BY DEF Ways
  <2>2. Gone(queue, asked, jobs, s.id) => Gone(queue', asked, jobs, s.id)
    BY <1>3 DEF Gone
  <2>3. CASE Head(queue) = ShareEvent(s)
    <3>1. Head(queue).id = s.id
      BY <2>3 DEF ShareEvent
    <3>2. Gone(queue', asked, jobs, s.id)
      BY <1>2, <1>3, <3>1 DEF Gone, Awaits, InJobs
    <3> QED
      BY <3>2 DEF Accounted
  <2>4. CASE Head(queue) # ShareEvent(s)
    <3>1. \A i \in DOMAIN queue : queue[i] = ShareEvent(s) =>
            \E k \in DOMAIN queue' : queue'[k] = ShareEvent(s)
      BY <1>1, <1>2, <2>4, TailAccounts, Zenon
    <3> QED
      BY <2>1, <2>2, <3>1, Zenon DEF Accounted
  <2> QED
    BY <2>3, <2>4
<1> QED
  BY <1>1, <1>3, <1>4, Zenon DEF Ways

LEMMA SessionStartsWays == IInv /\ Ways /\ SessionStarts => Ways'
<1> SUFFICES ASSUME IInv, Ways, SessionStarts PROVE Ways'
  OBVIOUS
<1>1. found' = {} /\ UNCHANGED <<queue, asked, jobs, cache>>
  BY DEF SessionStarts
<1> QED
  BY <1>1 DEF Ways

LEMMA FindWays ==
  ASSUME IInv, Cardinality(found) \in Nat, Ways, Find PROVE Ways'
<1>1. UNCHANGED <<asked, jobs, cache, sent>>
  BY FindIs, Zenon DEF IInv
<1>2. PICK share \in Shares :
        /\ found' = found \cup {share}
        /\ \/ queue' = Append(queue, ShareEvent(share)) /\ UNCHANGED overflow
           \/ overflow' = overflow \cup {share.n} /\ UNCHANGED queue
  BY FindIs, Zenon DEF IInv, ShareEvent
<1>3. CASE overflow' = overflow \cup {share.n} /\ UNCHANGED queue
  <2>1. \A s \in found' : Accounted(s, queue, asked, jobs, cache, sent, overflow')
    BY <1>2, <1>3, Zenon DEF Ways, Accounted
  <2> QED
    BY <1>1, <1>3, <2>1, Zenon DEF Ways
<1>4. CASE queue' = Append(queue, ShareEvent(share)) /\ UNCHANGED overflow
  <2> DEFINE e == ShareEvent(share)
  <2>1. queue \in Seq(Event) /\ queue' = Append(queue, e)
    BY <1>4, Zenon DEF IInv, Types, UplinkTypes
  <2>a. e.kind = "share"
    BY DEF ShareEvent
  <2> HIDE DEF e
  <2>2. /\ Len(queue) \in Nat /\ DOMAIN queue = 1..Len(queue)
        /\ \A i \in DOMAIN queue : i \in DOMAIN queue' /\ queue'[i] = queue[i]
        /\ Len(queue) + 1 \in DOMAIN queue' /\ queue'[Len(queue) + 1] = e
        /\ \A i \in DOMAIN queue' : i \in DOMAIN queue \/ i = Len(queue) + 1
    BY <2>1, AppendIs
  <2>3. \A i \in DOMAIN queue' : queue'[i].kind = "published" =>
          i \in DOMAIN queue /\ queue'[i] = queue[i]
    BY <2>a, <2>2
  <2>4. \A k : Published(queue', k) => Published(queue, k)
    BY <2>3 DEF Published
  <2>5. Apart(queue', asked, jobs)
    BY <2>3, <2>4, Zenon DEF Ways, Apart
  <2>6. InOrder(queue')
    <3> SUFFICES ASSUME NEW i \in DOMAIN queue', NEW k \in DOMAIN queue', i < k,
                        queue'[i].kind = "share", queue'[k].kind = "published"
                 PROVE  queue'[i].id # queue'[k].id
      BY DEF InOrder
    <3>1. k \in DOMAIN queue /\ queue'[k] = queue[k]
      BY <2>3
    <3>2. i \in DOMAIN queue /\ queue'[i] = queue[i]
      BY <2>2, <3>1
    <3> QED
      BY <3>1, <3>2, Zenon DEF Ways, InOrder
  <2>7. \A s \in found : Accounted(s, queue', asked, jobs, cache, sent, overflow)
    BY <2>2, <2>4, Zenon DEF Ways, Accounted, Gone
  <2>8. Accounted(share, queue', asked, jobs, cache, sent, overflow)
    BY <2>2 DEF Accounted, e
  <2> QED
    BY <1>1, <1>2, <1>4, <2>5, <2>6, <2>7, <2>8, Zenon DEF Ways
<1> QED
  BY <1>2, <1>3, <1>4

LEMMA NextPipeline ==
  ASSUME IInv, Cardinality(found) \in Nat, Pipeline, [Next]_vars PROVE Pipeline'
<1> SUFFICES ASSUME OneTokens(mode)' PROVE Ways'
  BY DEF Pipeline
<1>1. mode' = mode
  BY Zenon DEF Next, vars, settings, Refresh, TokensChange, PlanChanged, Offer, LeaseEnds,
     TakePublished, TakeShare, DeclareMiningJobSuccess, SetCustomMiningJobSuccess, Refused,
     SessionEnds, Drain, SessionStarts, ReadJob, Update, Find
<1>2. OneTokens(mode) /\ Ways
  BY <1>1 DEF Pipeline
<1>3. CASE UNCHANGED vars
  BY <1>2, <1>3, WaysFrame, Zenon DEF vars, uplinkVars, history
<1>4. CASE Next
  <2>1. CASE LeaseEnds \/ ReadJob \/ Update
    BY <1>2, <2>1, WaysFrame, Zenon DEF LeaseEnds, ReadJob, Update, uplinkVars, history
  <2> QED
    BY <1>2, <1>4, <2>1, OffersAreNewer, OfferWays, TakePublishedWays, TakeShareWays,
       DeclareMiningJobSuccessWays, SetCustomMiningJobSuccessWays, RefusedWays,
       SessionEndsWays, DrainWays, SessionStartsWays, FindWays, Zenon DEF Next
<1> QED
  BY <1>3, <1>4

(* What became of a share of a job the uplink knows.                       *)
LEMMA NoneIsLost == IInv /\ Pipeline => (OneTokens(mode) => NoSilentLoss)
<1> SUFFICES ASSUME IInv, Ways, NEW s \in found, NEW i \in DOMAIN jobs, jobs[i].t = s.t,
                    s.n \notin overflow, ~\E x \in sent : x.n = s.n
             PROVE  \E k \in DOMAIN queue : queue[k].kind = "share" /\ queue[k].n = s.n
  BY DEF Pipeline, NoSilentLoss
<1>1. PICK M : Declared(M)
  BY DEF IInv
<1>2. Item(jobs[i]) \in M /\ Item(s) \in M /\ Distinct(M, mode)
  BY <1>1, Zenon DEF Declared, Within
<1>3. jobs[i].id = s.id
  BY <1>2, SameDeclaration
<1>4. InJobs(jobs, s.id)
  BY <1>3 DEF InJobs
<1>5. s \notin cache
  BY <1>4, Zenon DEF Ways, Apart, Awaits
<1>6. \E k \in DOMAIN queue : queue[k] = ShareEvent(s)
  BY <1>4, <1>5, Zenon DEF Ways, Accounted, Gone
<1>7. ShareEvent(s).kind = "share" /\ ShareEvent(s).n = s.n
  BY DEF ShareEvent
<1> QED
  BY <1>6, <1>7, Zenon

---------------------------------------------------------------------------
(* The shares: finitely many are found, and no more wait for one answer    *)
(* than the cache holds.                                                   *)

INSTANCE FiniteSetTheorems

Counted ==
  /\ IsFiniteSet(found) /\ IsFiniteSet(cache)
  /\ \A k \in Nat : Cardinality({c \in cache : c.id = k}) <= CacheCap

LEMMA InitCounted == Init => Counted
<1> SUFFICES ASSUME Init PROVE Counted
  OBVIOUS
<1>1. found = {} /\ cache = {} /\ \A k \in Nat : {c \in cache : c.id = k} = {}
  BY DEF Init
<1> QED
  BY <1>1, Bounds, FS_EmptySet DEF Counted

(* Some shares of the cache are still within its cap.                      *)
LEMMA FewerCounted ==
  ASSUME Counted, cache' \subseteq cache, found' = found \/ found' = {}
  PROVE  Counted'
<1>1. IsFiniteSet(cache') /\ IsFiniteSet(found')
  BY FS_Subset, FS_EmptySet DEF Counted
<1>2. ASSUME NEW k \in Nat PROVE Cardinality({c \in cache' : c.id = k}) <= CacheCap
  <2> DEFINE A == {c \in cache' : c.id = k}
             B == {c \in cache : c.id = k}
  <2>1. A \subseteq B /\ B \subseteq cache /\ Cardinality(B) <= CacheCap /\ IsFiniteSet(cache)
    BY DEF Counted
  <2> HIDE DEF A, B
  <2>2. IsFiniteSet(B) /\ IsFiniteSet(A) /\ Cardinality(A) <= Cardinality(B)
    BY <2>1, FS_Subset
  <2>3. Cardinality(A) \in Nat /\ Cardinality(B) \in Nat
    BY <2>2, FS_CardinalityType
  <2> QED
    BY <2>1, <2>2, <2>3, Bounds DEF A
<1> QED
  BY <1>1, <1>2 DEF Counted

(* One more share waits, where there was room for it.                      *)
LEMMA OneMoreCounted ==
  ASSUME Counted, NEW x, Cardinality({c \in cache : c.id = x.id}) < CacheCap,
         cache' = cache \cup {x}, found' = found
  PROVE  Counted'
<1>1. IsFiniteSet(cache') /\ IsFiniteSet(found')
  BY FS_AddElement DEF Counted
<1>2. ASSUME NEW k \in Nat PROVE Cardinality({c \in cache' : c.id = k}) <= CacheCap
  <2> DEFINE A == {c \in cache : c.id = k}
  <2>1. CASE k = x.id
    <3>1. {c \in cache' : c.id = k} = A \cup {x} /\ Cardinality(A) < CacheCap
      BY <2>1
    <3>2. IsFiniteSet(A)
      BY FS_Subset DEF Counted
    <3> HIDE DEF A
    <3>3. Cardinality(A \cup {x}) \in {Cardinality(A), Cardinality(A) + 1}
          /\ Cardinality(A) \in Nat
      BY <3>2, FS_AddElement, FS_CardinalityType
    <3>4. Cardinality(A \cup {x}) <= CacheCap
      BY <3>1, <3>3, Bounds
    <3> QED
      BY <3>1, <3>4, Zenon
  <2>2. CASE k # x.id
    <3>1. {c \in cache' : c.id = k} = A
      BY <2>2
    <3> QED
      BY <3>1 DEF Counted
  <2> QED
    BY <2>1, <2>2
<1> QED
  BY <1>1, <1>2 DEF Counted

LEMMA NextCounted ==
  ASSUME Counted, [Next]_vars PROVE Counted'
<1>1. CASE TakeShare
  <2> DEFINE s == Head(queue)
             share == [n |-> s.n, t |-> s.t, id |-> s.id]
  <2>1. /\ found' = found
        /\ \/ cache' = cache
           \/ /\ Cardinality({c \in cache : c.id = s.id}) < CacheCap
              /\ cache' = cache \cup {share}
    BY <1>1, Zenon DEF TakeShare
  <2>2. share.id = s.id
    OBVIOUS
  <2> HIDE DEF share, s
  <2> QED
    BY <2>1, <2>2, FewerCounted, OneMoreCounted
<1>2. CASE Find
  <2>1. cache' = cache /\ \E x : found' = found \cup {x}
    BY <1>2, Zenon DEF Find, uplinkVars
  <2>2. IsFiniteSet(found')
    BY <2>1, FS_AddElement DEF Counted
  <2> QED
    BY <2>1, <2>2 DEF Counted
<1>3. CASE UNCHANGED vars
  BY <1>3 DEF vars, uplinkVars, history, Counted
<1>4. CASE Next /\ ~TakeShare /\ ~Find
  <2>1. cache' \subseteq cache /\ (found' = found \/ found' = {})
    BY <1>4, Zenon DEF Next, Refresh, TokensChange, PlanChanged, Offer, LeaseEnds,
       TakePublished, Declares, DeclareMiningJobSuccess, SetCustomMiningJobSuccess,
       Refused, SessionEnds, Drain, SessionStarts, ReadJob, Update, uplinkVars, history
  <2> QED
    BY <2>1, FewerCounted
<1> QED
  BY <1>1, <1>2, <1>3, <1>4

Inv == IInv /\ Counted

LEMMA InvHolds == Spec => []Inv
<1>1. Init => Inv
  BY InitIInv, InitCounted DEF Inv
<1>2. Inv => Cardinality(found) \in Nat
  BY FS_CardinalityType DEF Inv, Counted
<1>3. Inv /\ [Next]_vars => Inv'
  BY <1>2, NextIInv, NextCounted DEF Inv
<1> QED
  BY <1>1, <1>3, PTL DEF Spec

LEMMA PipelineHolds == Spec => []Pipeline
<1>1. Inv => IInv /\ Cardinality(found) \in Nat
  BY FS_CardinalityType DEF Inv, Counted
<1>2. Inv /\ Pipeline /\ [Next]_vars => Pipeline'
  BY <1>1, NextPipeline
<1> QED
  BY <1>2, InitPipeline, InvHolds, PTL DEF Spec

(* The state has its type, and the uplink's queue (EVENTS), the pool's     *)
(* jobs it keeps (KEPT_JOBS), the shares that wait for one answer          *)
(* (CACHED_SHARES) and the jobs of a channel (MAX_ACTIVE_JOBS) stay within *)
(* their caps.                                                             *)
THEOREM WithinCaps == Spec => []TypeOK
<1>1. Inv => TypeOK
  <2> SUFFICES ASSUME Inv PROVE TypeOK
    OBVIOUS
  <2>0. Types /\ Counted
    BY DEF Inv, IInv
  <2> USE DEF Types
  <2>1. \A i \in DOMAIN jobs : jobs[i] \in [id : Nat, t : Templates]
    <3>1. jobs \in Seq(Items)
      BY <2>0 DEF UplinkTypes
    <3>2. \A x \in Items : x \in [id : Nat, t : Templates]
      BY DEF Items
    <3> QED
      BY <3>1, <3>2
  <2>2. asked \subseteq [id : Nat, t : Templates, stage : {"declarator", "pool"}]
    BY <2>0 DEF UplinkTypes
  <2>3. \A s \in cache : Cardinality({c \in cache : c.id = s.id}) <= CacheCap
    <3>1. \A s \in cache : s.id \in Nat
      BY <2>0 DEF UplinkTypes, Shares
    <3> QED
      BY <2>0, <3>1 DEF Counted
  <2> QED
    BY <2>0, <2>1, <2>2, <2>3, Zenon
       DEF TypeOK, ServerTypes, UplinkTypes, DeviceTypes, HistoryTypes
<1> QED
  BY <1>1, InvHolds, PTL

(* Every share goes to the pool under a job of its generation, parent and  *)
(* plan, in any mode and whatever token sets come and go: never under one  *)
(* of another block or of the session before (jobs.iter().rev().find and   *)
(* the cache of the uplink).                                               *)
THEOREM SharesOfTheirBlock == Spec => []SameBlock
<1>1. Inv => SameBlock
  BY DEF Inv, IInv
<1> QED
  BY <1>1, InvHolds, PTL

(* Under P2Pool, and where the token set never changes, the job is of the  *)
(* very template the share was found on.                                   *)
THEOREM SharesOfTheirTemplate == Spec => [](OneTokens(mode) => RightJob)
<1>1. Inv => (OneTokens(mode) => RightJob)
  BY DEF Inv, IInv, SameBlock, Alike, RightJob
<1> QED
  BY <1>1, InvHolds, PTL

(* A device with work of a parent and a session takes other work of them   *)
(* only once the pool accepted a template of its generation, and P2Pool    *)
(* work only then (JobAvailability::update).  When the work was replaced   *)
(* after the thread read it, the pool accepted that generation or a newer  *)
(* one of the session: so much holds whatever token sets come and go.      *)
THEOREM AcceptedGenerationFirst == Spec => [][GenerationAccepted]_vars
<1>1. Inv => IInv
  BY DEF Inv
<1> QED
  BY <1>1, TakesAccepted, InvHolds, PTL DEF Spec

(* Under P2Pool, and where the token set never changes, the pool accepted  *)
(* that very template, or a newer one of the session when the work was     *)
(* replaced after the thread read it.                                      *)
THEOREM AcceptedTemplateFirst == Spec /\ []OneTokens(mode) => AcceptedFirst
<1>1. OneTokens(mode) /\ [GenerationAccepted]_vars =>
        [ TakesNew =>
            \E x \in accepted :
              x = dev'.job.t \/ (Replaced(dev'.job) /\ NotOlder(x, dev'.job.t)) ]_vars
  <2> SUFFICES ASSUME OneTokens(mode), GenerationAccepted, TakesNew
               PROVE  \E x \in accepted :
                        x = dev'.job.t \/ (Replaced(dev'.job) /\ NotOlder(x, dev'.job.t))
    OBVIOUS
  <2> QED
    BY Zenon DEF GenerationAccepted, Alike, NotOlder
<1> QED
  BY <1>1, AcceptedGenerationFirst, PTL DEF AcceptedFirst

(* Under P2Pool, and where the token set never changes, a share found on   *)
(* work whose custom job the pool accepted and the uplink still knows was  *)
(* sent or is queued, unless a queue or the cache was full: it is never    *)
(* dropped for arriving before the pool's answer.                          *)
THEOREM NoShareIsLost == Spec => [](OneTokens(mode) => NoSilentLoss)
<1>1. Inv => IInv
  BY DEF Inv
<1> QED
  BY <1>1, NoneIsLost, InvHolds, PipelineHolds, PTL
=============================================================================
