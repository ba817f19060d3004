--------------------------- MODULE TemplatesProofs ---------------------------
(***************************************************************************)
(* Proofs about the way of a template to the devices, for any sources,     *)
(* settings and bounds: what is published is of the newest template and    *)
(* the plan of now, and a device that keeps its job has the published work.*)
(***************************************************************************)
EXTENDS Templates, TLAPS

Job ==
  [gen : Nat, session : Nat, serial : Nat, tokens : Nat, parent : Int, plan : Nat,
   donation : Nat, fresh : BOOLEAN]
Ask ==
  [gen : Nat, cohort : Nat, tokens : Nat, parent : Int, plan : Nat, donation : Nat,
   fresh : BOOLEAN, state : {"running", "alone", "paired", "failed", "died"}]
Offered ==
  [plan : Nat, donation : Nat, cohort : Nat, last : Int \X Nat, recent : BOOLEAN,
   preparing : Ask \cup {None}, waiting : Ask \cup {None}, retry : BOOLEAN,
   hold : BOOLEAN]

Types ==
  /\ mode \in Modes /\ view \in [Slots -> Nat]
  /\ source \in [Slots -> [gen : Nat, parent : Int]]
  /\ order \in Seq(Slots) /\ Len(order) = Sources
  /\ gens \in [count : Nat, last : Nat \X Nat]
  /\ tokens \in Nat /\ latest \in Int /\ off \in Offered /\ issued \in Nat
  /\ job \in Job \cup {None} /\ taken \in Job \cup {None}
  /\ plan \in Nat /\ sessions \in Nat /\ donation \in [plan : Nat, sessions : Nat]

(* Only the active source has a template: the newest one, whose generation *)
(* was the last one counted.                                               *)
Sourced ==
  /\ \A s \in Slots : s # Active => source[s].parent = -1
  /\ source[Active].parent # -1 =>
       source[Active].parent = latest /\ gens.last = <<Active, source[Active].gen>>
  /\ \A s \in Slots : gens.last[1] = s => gens.last[2] <= source[s].gen

(* A preparation of the current session is of the session's plan.          *)
Current(a, o) == a.cohort = o.cohort => a.plan = o.plan /\ a.plan # 0

(* Offered in the mode m with the newest parent lt: the offer that waits   *)
(* is of that parent; one that runs is too, or will be dropped.            *)
Known(o, m, lt) ==
  /\ m # "p2pool" => o.preparing = None /\ o.waiting = None
  /\ o.last[1] \in {-1, lt} /\ (o.plan = 0 \/ m = "own" => o.last = <<-1, 0>>)
  /\ \A a \in {o.preparing, o.waiting} : a # None => a.cohort <= o.cohort /\ Current(a, o)
  /\ o.waiting # None => o.waiting.parent = lt
  /\ o.preparing # None =>
       \/ o.preparing.parent = lt \/ o.preparing.cohort # o.cohort
       \/ o.waiting # None /\ o.waiting.parent # o.preparing.parent

(* A job, by its generation and serial: P2Pool's serials are given once;   *)
(* otherwise the generation has the parent, and the rest is in the key.    *)
Keyed(r, m, n, count, lt) ==
  r # None =>
    /\ m = "p2pool" => r.serial <= n
    /\ m # "p2pool" =>
         /\ r.gen <= count /\ (r.gen = count => r.parent = lt)
         /\ r.serial = r.tokens /\ r.session = r.plan /\ r.donation = 0

IInv ==
  /\ Types /\ Sourced /\ Known(off, mode, latest)
  /\ Keyed(job, mode, issued, gens.count, latest)
  /\ Keyed(taken, mode, issued, gens.count, latest) /\ SameWork

---------------------------------------------------------------------------
(* None is no record of any kind.                                          *)
LEMMA Nones == None \notin Job /\ None \notin Ask
<1>1. DOMAIN None = {"none"}
  BY Zenon DEF None
<1>2. \A r \in Job : "gen" \in DOMAIN r
  BY DEF Job
<1>3. \A r \in Ask : "gen" \in DOMAIN r
  BY DEF Ask
<1> QED
  BY <1>1, <1>2, <1>3

LEMMA ActiveIsSlot == Types => Active \in Slots
<1> SUFFICES ASSUME Types PROVE order[1] \in Slots
  BY DEF Active
<1>1. order \in Seq(Slots) /\ 1 \in 1..Len(order)
  BY BoundsGiven DEF Types
<1> QED
  BY <1>1

LEMMA NoLast == <<-1, 0>> \in Int \X Nat
  OBVIOUS

LEMMA InitIInv == Init => IInv
<1> SUFFICES ASSUME Init PROVE IInv
  OBVIOUS
<1> USE BoundsGiven
<1>1. order \in Seq(Slots) /\ Len(order) = Sources /\ Active = 1
  BY DEF Init, Slots, Active
<1>2. off \in Offered /\ Known(off, mode, latest)
  BY Nones DEF Init, Offered, Known
<1>3. Types
  BY <1>1, <1>2 DEF Types, Init, Slots
<1>4. Sourced
  BY DEF Sourced, Init, Slots, Active
<1>5. Keyed(job, mode, issued, gens.count, latest)
      /\ Keyed(taken, mode, issued, gens.count, latest) /\ SameWork
  BY Zenon DEF Init, Keyed, SameWork
<1> QED
  BY <1>2, <1>3, <1>4, <1>5 DEF IInv

---------------------------------------------------------------------------
(* What the node thread computes keeps Offered in order.                   *)

LEMMA StartKeeps ==
  ASSUME NEW o \in Offered, NEW m, NEW lt, Known(o, m, lt)
  PROVE  Start(o) \in Offered /\ Known(Start(o), m, lt)
<1>1. CASE o.preparing = None /\ o.waiting # None
  <2> DEFINE s == [o EXCEPT !.preparing = o.waiting, !.waiting = None]
  <2>1. /\ s \in Offered /\ s.preparing = o.waiting /\ s.waiting = None
        /\ s.plan = o.plan /\ s.last = o.last /\ s.cohort = o.cohort
    BY Zenon DEF Offered
  <2>2. Start(o) = s
    BY <1>1 DEF Start
  <2> HIDE DEF s
  <2> QED
    BY <1>1, <2>1, <2>2, Zenon DEF Known, Current
<1>2. CASE ~(o.preparing = None /\ o.waiting # None)
  BY <1>2 DEF Start
<1> QED
  BY <1>1, <1>2

(* A plan that came or went makes the preparations old.                    *)
LEMMA NoticedKeeps ==
  ASSUME NEW o \in Offered, NEW m, NEW lt, Known(o, m, lt), Types
  PROVE  /\ Noticed(o) \in Offered /\ Known(Noticed(o), m, lt)
         /\ Noticed(o).plan = plan
         /\ Noticed(o).preparing = o.preparing /\ Noticed(o).waiting = o.waiting
<1> DEFINE p == [o EXCEPT !.plan = plan, !.cohort = @ + 1, !.last = <<-1, 0>>]
           q == IF o.plan = plan THEN o ELSE p
<1>1. /\ p \in Offered /\ p.plan = plan /\ p.cohort = o.cohort + 1 /\ p.last = <<-1, 0>>
      /\ p.preparing = o.preparing /\ p.waiting = o.waiting
  <2>1. plan \in Nat
    BY DEF Types
  <2>2. o.cohort + 1 \in Nat
    BY DEF Offered
  <2> QED
    BY <2>1, <2>2, NoLast, Zenon DEF Offered
<1>2. Known(p, m, lt)
  <2>1. o.cohort \in Nat /\ \A a \in Ask : a.cohort \in Nat
    BY Zenon DEF Offered, Ask
  <2>2. \A a \in {p.preparing, p.waiting} : a # None => a.cohort < p.cohort
    <3>1. \A a \in {o.preparing, o.waiting} : a # None => a \in Ask /\ a.cohort <= o.cohort
      BY DEF Known, Offered
    <3> QED
      BY <1>1, <2>1, <3>1
  <2>3. \A a \in {p.preparing, p.waiting} : a # None => a.cohort \in Nat
    BY <1>1, <2>1 DEF Offered
  <2>4. p.cohort \in Nat
    BY <1>1 DEF Offered
  <2>5. \A a \in {p.preparing, p.waiting} : a # None => a.cohort <= p.cohort /\ a.cohort # p.cohort
    BY <2>2, <2>3, <2>4
  <2> HIDE DEF p
  <2> QED
    BY <1>1, <2>5 DEF Known, Current
<1> HIDE DEF p
<1>3. /\ q \in Offered /\ Known(q, m, lt) /\ q.plan = plan
      /\ q.preparing = o.preparing /\ q.waiting = o.waiting
  BY <1>1, <1>2, Zenon
<1>4. CASE q.donation = donation.plan
  <2>1. Noticed(o) = q
    BY <1>4 DEF Noticed, p
  <2> QED
    BY <1>3, <2>1
<1>5. CASE q.donation # donation.plan
  <2> DEFINE r == [q EXCEPT !.donation = donation.plan, !.last = <<-1, 0>>]
  <2>1. Noticed(o) = r
    BY <1>5 DEF Noticed, p
  <2> HIDE DEF q
  <2>2. /\ r \in Offered /\ r.plan = q.plan /\ r.cohort = q.cohort /\ r.last = <<-1, 0>>
        /\ r.preparing = q.preparing /\ r.waiting = q.waiting
    <3>1. donation.plan \in Nat
      BY DEF Types
    <3> QED
      BY <1>3, <3>1, NoLast, Zenon DEF Offered
  <2> HIDE DEF r
  <2>3. Known(r, m, lt)
    BY <1>3, <2>2 DEF Known, Current
  <2> QED
    BY <1>3, <2>1, <2>2, <2>3, Zenon
<1> QED
  BY <1>4, <1>5, Zenon

LEMMA FailedKeeps ==
  ASSUME NEW o \in Offered, NEW m, NEW lt, Known(o, m, lt)
  PROVE  Failed(o) \in Offered /\ Known(Failed(o), m, lt)
<1>1. /\ Failed(o) \in Offered /\ Failed(o).plan = o.plan /\ Failed(o).last = <<-1, 0>>
      /\ Failed(o).preparing = o.preparing /\ Failed(o).waiting = o.waiting
      /\ Failed(o).cohort = o.cohort
  BY NoLast, Zenon DEF Failed, Offered
<1> QED
  BY <1>1 DEF Known, Current

LEMMA FailedOfferIs ==
  ASSUME NEW o, NEW j, NEW parent, NEW pl PROVE FailedOffer(o, j, parent, pl) \in {j, None}
  BY DEF FailedOffer

(* offer, with the template of the parent that is now the newest.          *)
LEMMA OfferKnown ==
  ASSUME Types, NEW was \in Offered, Known(was, mode, latest), NEW cost, NEW gen \in Nat,
         NEW parent \in Int \ {-1}, tokens' \in Nat, Offer(was, cost, gen, parent)
  PROVE  off' \in Offered /\ Known(off', mode, parent)
<1> DEFINE o == Noticed(was)
           next == [o EXCEPT !.last = <<parent, plan>>, !.recent = TRUE]
           asked == [gen |-> gen, cohort |-> o.cohort, tokens |-> tokens',
                     parent |-> parent, plan |-> plan, donation |-> donation.plan,
                     fresh |-> TRUE, state |-> "running"]
           prepare == [next EXCEPT !.retry = FALSE, !.waiting = asked]
<1>0. /\ o \in Offered /\ Known(o, mode, latest) /\ o.plan = plan
      /\ plan \in Nat /\ donation.plan \in Nat /\ <<parent, plan>> \in Int \X Nat
  BY NoticedKeeps, Zenon DEF Types
<1>1. CASE mode = "own" /\ off' = was
  BY <1>1 DEF Known
<1>2. CASE plan = 0 /\ off' = [o EXCEPT !.waiting = None, !.retry = FALSE, !.hold = FALSE]
  <2> DEFINE n == [o EXCEPT !.waiting = None, !.retry = FALSE, !.hold = FALSE]
  <2> HIDE DEF o
  <2>1. /\ n \in Offered /\ n.plan = o.plan /\ n.last = o.last /\ n.cohort = o.cohort
        /\ n.preparing = o.preparing /\ n.waiting = None
    BY <1>0, Zenon DEF Offered
  <2>2. o.last = <<-1, 0>> /\ (o.preparing # None => o.preparing.cohort # o.cohort)
    BY <1>0, <1>2, Zenon DEF Known, Current
  <2> HIDE DEF n
  <2>3. Known(n, mode, parent)
    BY <1>0, <2>1, <2>2 DEF Known, Current
  <2> QED
    BY <1>2, <2>1, <2>3 DEF n
<1>3. CASE Coalesced(o, parent) /\ off' = o
  <2>1. o.last[1] = parent
    BY <1>3 DEF Coalesced
  <2>2. latest = parent
    BY <1>0, <2>1, Zenon DEF Known
  <2> QED
    BY <1>0, <1>3, <2>2
<1> HIDE DEF o
<1>4. /\ next \in Offered /\ next.plan = o.plan /\ next.last = <<parent, plan>>
      /\ next.cohort = o.cohort /\ next.preparing = o.preparing
      /\ next.waiting = o.waiting
  BY <1>0, Zenon DEF Offered
<1> HIDE DEF next
<1>5. CASE /\ mode = "declared" /\ plan # 0
           /\ off' \in {next, [next EXCEPT !.last = <<-1, 0>>]}
  <2>1. /\ off' \in Offered /\ off'.plan = plan /\ off'.last[1] \in {-1, parent}
        /\ off'.preparing = o.preparing /\ off'.waiting = o.waiting
    BY <1>0, <1>4, <1>5, NoLast DEF Offered
  <2> QED
    BY <1>0, <1>5, <2>1, Zenon DEF Known
<1>6. ASSUME mode = "p2pool", plan # 0
      PROVE  prepare \in Offered /\ Known(prepare, mode, parent)
  <2>1. /\ asked \in Ask /\ asked.cohort = o.cohort /\ asked.plan = plan
        /\ asked.parent = parent
    BY <1>0, Zenon DEF Ask, Offered
  <2> HIDE DEF asked
  <2>2. /\ prepare \in Offered /\ prepare.plan = plan /\ prepare.last = <<parent, plan>>
        /\ prepare.cohort = o.cohort /\ prepare.preparing = o.preparing
        /\ prepare.waiting = asked
    BY <1>0, <1>4, <2>1, Zenon DEF Offered
  <2> HIDE DEF prepare
  <2>3. \A a \in {prepare.preparing, prepare.waiting} :
           a # None => a.cohort <= prepare.cohort /\ Current(a, prepare)
    <3>1. o.cohort \in Nat
      BY <1>0, Zenon DEF Offered
    <3> QED
      BY <1>0, <1>6, <2>1, <2>2, <3>1 DEF Known, Current
  <2>4. asked # None
    BY <2>1, Nones
  <2>5. /\ mode # "p2pool" => prepare.preparing = None /\ prepare.waiting = None
        /\ prepare.last[1] \in {-1, parent}
        /\ prepare.plan = 0 \/ mode = "own" => prepare.last = <<-1, 0>>
    BY <1>6, <2>2
  <2> QED
    BY <2>1, <2>2, <2>3, <2>4, <2>5, Zenon DEF Known
<1>7. CASE mode = "p2pool" /\ plan # 0 /\ off' = Start(prepare)
  <2> HIDE DEF prepare
  <2> QED
    BY <1>6, <1>7, StartKeeps
<1>8. CASE /\ mode = "p2pool" /\ plan # 0 /\ o.preparing = None
           /\ off' = Failed([prepare EXCEPT !.waiting = None])
  <2> DEFINE n == [prepare EXCEPT !.waiting = None]
  <2>0. prepare.preparing = None
    BY <1>0, <1>4, <1>8, Zenon DEF Offered
  <2> HIDE DEF prepare
  <2>1. /\ n \in Offered /\ n.plan = prepare.plan /\ n.last = prepare.last
        /\ n.preparing = None /\ n.waiting = None
    BY <1>6, <1>8, <2>0 DEF Offered
  <2> HIDE DEF n
  <2>2. Known(n, mode, parent)
    BY <1>6, <1>8, <2>1, Zenon DEF Known
  <2>3. off' = Failed(n)
    BY <1>8 DEF n
  <2> QED
    BY <2>1, <2>2, <2>3, FailedKeeps
<1>9. \/ mode = "own" /\ off' = was
      \/ plan = 0 /\ off' = [o EXCEPT !.waiting = None, !.retry = FALSE, !.hold = FALSE]
      \/ Coalesced(o, parent) /\ off' = o
      \/ mode = "declared" /\ plan # 0 /\ off' \in {next, [next EXCEPT !.last = <<-1, 0>>]}
      \/ mode = "p2pool" /\ plan # 0 /\ off' = Start(prepare)
      \/ /\ mode = "p2pool" /\ plan # 0 /\ o.preparing = None
         /\ off' = Failed([prepare EXCEPT !.waiting = None])
  BY Zenon DEF Offer, o, next
<1> QED
  BY <1>1, <1>2, <1>3, <1>5, <1>7, <1>8, <1>9, Zenon

(* What offer publishes: the template, on the plan of now, or what is      *)
(* there already.                                                          *)
LEMMA OfferPublishes ==
  ASSUME NEW was, NEW cost, NEW gen, NEW parent, Offer(was, cost, gen, parent)
  PROVE  \/ job' \in {job, None}
         \/ /\ mode # "p2pool"
            /\ \E pl \in {0, plan} :
                 /\ pl = IF mode = "own" THEN 0 ELSE plan
                 /\ job' = [gen |-> gen, session |-> pl, serial |-> tokens',
                            tokens |-> tokens', parent |-> parent, plan |-> pl,
                            donation |-> 0, fresh |-> TRUE]
<1> DEFINE template == [gen |-> gen, session |-> plan, serial |-> tokens',
                        tokens |-> tokens', parent |-> parent, plan |-> plan,
                        donation |-> 0, fresh |-> TRUE]
<1>1. \/ mode = "own" /\ job' = [template EXCEPT !.session = 0, !.plan = 0]
      \/ job' = None
      \/ job' = job
      \/ mode = "declared" /\ plan # 0 /\ job' = template
      \/ job' = FailedOffer(Noticed(was), job, parent, plan)
  BY Zenon DEF Offer
<1>2. CASE mode = "own" /\ job' = [template EXCEPT !.session = 0, !.plan = 0]
  BY <1>2, Zenon
<1>3. CASE mode = "declared" /\ plan # 0 /\ job' = template
  BY <1>3, Zenon
<1> QED
  BY <1>1, <1>2, <1>3, FailedOfferIs, Zenon

---------------------------------------------------------------------------
(* The actions.                                                            *)

(* A publication, as PublishesNewest wants it.                             *)
Publication ==
  (job' # None /\ (job = None \/ ~SameJob(job, job'))) =>
    (job'.parent = latest' /\ (mode = "own" \/ job'.plan = plan'))

LEMMA SameFields ==
  ASSUME NEW a \in Job, NEW b \in Job, SameJob(a, b), a.tokens = b.tokens,
         a.parent = b.parent, a.plan = b.plan, a.donation = b.donation
  PROVE  [a EXCEPT !.fresh = TRUE] = [b EXCEPT !.fresh = TRUE]
  BY Zenon DEF Job, SameJob

(* A job stays what it was when generations move on.                       *)
LEMMA KeyedLater ==
  ASSUME NEW r \in Job \cup {None}, NEW m, NEW n \in Nat, NEW count \in Nat, NEW lt,
         NEW later \in Nat, NEW newer, count <= later, count = later => newer = lt,
         Keyed(r, m, n, count, lt)
  PROVE  Keyed(r, m, n, later, newer)
<1>1. r # None => r.gen \in Nat
  BY DEF Job
<1> QED
  BY <1>1 DEF Keyed

(* The parts of the state that an offer decides.                           *)
Right ==
  /\ off \in Offered /\ Known(off, mode, latest)
  /\ job \in Job \cup {None}
  /\ Keyed(job, mode, issued, gens.count, latest)
  /\ Keyed(taken, mode, issued, gens.count, latest) /\ SameWork

LEMMA OfferKeeps ==
  ASSUME IInv, NEW was \in Offered, Known(was, mode, latest), NEW cost, NEW gen \in Nat,
         NEW parent \in Int \ {-1}, tokens' \in Nat, Offer(was, cost, gen, parent),
         latest' = parent, gens'.count = gen, gens.count <= gen,
         gens.count = gen => latest = parent,
         UNCHANGED <<mode, plan, issued, taken>>
  PROVE  Right' /\ Publication
<1> USE DEF IInv
<1>1. off' \in Offered /\ Known(off', mode, parent)
  BY OfferKnown, Zenon
<1>2. Keyed(taken', mode', issued', gens'.count, latest')
  <2>1. Keyed(taken, mode, issued, gen, parent)
    BY KeyedLater, Zenon DEF Types
  <2> QED
    BY <2>1, Zenon
<1>3. CASE job' \in {job, None}
  <2>1. job' \in Job \cup {None} /\ SameWork' /\ Publication
    BY <1>3, Zenon DEF SameWork, Types, Publication, SameJob
  <2>2. Keyed(job, mode, issued, gen, parent)
    BY KeyedLater, Zenon DEF Types
  <2>3. Keyed(job', mode, issued, gen, parent)
    BY <1>3, <2>2, Zenon DEF Keyed
  <2> QED
    BY <1>1, <1>2, <2>1, <2>3, Zenon DEF Right
<1>4. ASSUME NEW pl \in {0, plan}, mode # "p2pool", pl = IF mode = "own" THEN 0 ELSE plan,
             job' = [gen |-> gen, session |-> pl, serial |-> tokens', tokens |-> tokens',
                     parent |-> parent, plan |-> pl, donation |-> 0, fresh |-> TRUE]
      PROVE  Right' /\ Publication
  <2>1. /\ job' \in Job /\ job'.gen = gen /\ job'.session = pl /\ job'.serial = tokens'
        /\ job'.tokens = tokens' /\ job'.parent = parent /\ job'.plan = pl
        /\ job'.donation = 0
    BY <1>4, Zenon DEF Types, Job
  <2>2. Keyed(job', mode, issued, gen, parent) /\ Publication
    BY <1>4, <2>1 DEF Keyed, Publication
  <2>3. SameWork'
    <3> SUFFICES ASSUME taken # None, SameJob(taken, job')
                 PROVE  [taken EXCEPT !.fresh = TRUE] = [job' EXCEPT !.fresh = TRUE]
      BY Zenon DEF SameWork, SameJob
    <3>1. taken \in Job /\ taken.gen = gen /\ taken.session = pl /\ taken.serial = tokens'
      BY <2>1, Zenon DEF Types, SameJob
    <3>2. taken.parent = parent /\ taken.tokens = tokens' /\ taken.plan = pl
          /\ taken.donation = 0
      BY <1>2, <1>4, <3>1, Zenon DEF Keyed
    <3> QED
      BY <2>1, <3>1, <3>2, SameFields, Zenon
  <2> QED
    BY <1>1, <1>2, <2>1, <2>2, <2>3, Zenon DEF Right
<1>5. \/ job' \in {job, None}
      \/ /\ mode # "p2pool"
         /\ \E pl \in {0, plan} :
              /\ pl = IF mode = "own" THEN 0 ELSE plan
              /\ job' = [gen |-> gen, session |-> pl, serial |-> tokens',
                         tokens |-> tokens', parent |-> parent, plan |-> pl,
                         donation |-> 0, fresh |-> TRUE]
  BY OfferPublishes, Zenon
<1> QED
  BY <1>3, <1>4, <1>5, Zenon

(* A refresh counts a new generation.                                      *)
LEMMA RefreshKeeps == IInv /\ Refresh => IInv' /\ Publication
<1> SUFFICES ASSUME IInv, Refresh PROVE IInv' /\ Publication
  OBVIOUS
<1> USE DEF IInv
<1>0. Active \in Slots
  BY ActiveIsSlot
<1> DEFINE s == Active
           new == Refreshed(s)
<1>1. new \in [gen : Nat, parent : Int] /\ new.parent = view[s] /\ new.gen = source[s].gen + 1
      /\ view[s] \in Nat /\ source[s].gen \in Nat
  BY <1>0 DEF Types, Refreshed
<1>2. gens' = [count |-> gens.count + 1, last |-> <<s, new.gen>>]
  <2>1. gens.last # <<s, new.gen>>
    <3>1. gens.last \in Nat \X Nat
      BY Zenon DEF Types
    <3>2. gens.last[1] = s => gens.last[2] <= source[s].gen
      BY <1>0, Zenon DEF Sourced
    <3> QED
      BY <1>1, <3>1, <3>2
  <2> QED
    BY <2>1, Zenon DEF Refresh, Generation
<1>3. /\ latest' = new.parent /\ order' = order /\ source' = [source EXCEPT ![s] = new]
      /\ UNCHANGED <<mode, view, tokens, issued, plan, sessions, donation, taken>>
      /\ \E cost : Offer(off, cost, gens.count + 1, new.parent)
  <2>1. \E cost : Offer(off, cost, gens'.count, new.parent)
    BY Zenon DEF Refresh
  <2>2. gens'.count = gens.count + 1
    BY <1>2
  <2> QED
    BY <2>1, <2>2, Zenon DEF Refresh, nodeVars, poolVars
<1>4. s \in Nat /\ gens' \in [count : Nat, last : Nat \X Nat] /\ gens'.count = gens.count + 1
      /\ gens.count \in Nat /\ gens.count + 1 \in Nat
  <2>1. s \in Nat
    BY <1>0, BoundsGiven DEF Slots
  <2>2. gens.count \in Nat /\ gens.count + 1 \in Nat
    BY DEF Types
  <2>3. <<s, new.gen>> \in Nat \X Nat
    BY <1>1, <2>1, Zenon
  <2> HIDE DEF s, new
  <2> QED
    BY <1>2, <2>1, <2>2, <2>3, Zenon
<1> HIDE DEF new
<1>5. Right' /\ Publication
  <2>1. PICK cost : Offer(off, cost, gens.count + 1, new.parent)
    BY <1>3, Zenon
  <2>2. new.parent \in Int \ {-1} /\ off \in Offered /\ tokens' \in Nat
        /\ gens.count + 1 \in Nat
    <3>1. new.parent \in Nat /\ gens.count + 1 \in Nat
      BY <1>1, <1>4, Zenon
    <3> QED
      BY <1>3, <3>1 DEF Types
  <2>3. gens.count <= gens.count + 1 /\ gens.count # gens.count + 1
    BY <1>4
  <2> QED
    BY <1>3, <1>4, <2>1, <2>2, <2>3, OfferKeeps, Zenon
<1>6. Types'
  BY <1>0, <1>1, <1>3, <1>4, <1>5, Zenon DEF Types, Right
<1>7. Sourced'
  <2>1. Active' = s /\ source'[s] = new /\ \A t \in Slots : t # s => source'[t] = source[t]
    BY <1>0, <1>3, Zenon DEF Types, Active
  <2>2. gens'.last = <<s, new.gen>>
    BY <1>2, Zenon
  <2>3. \A t \in Slots : t # Active' => source'[t].parent = -1
    BY <2>1, Zenon DEF Sourced
  <2>4. \A t \in Slots : gens'.last[1] = t => gens'.last[2] <= source'[t].gen
    BY <1>1, <2>1, <2>2
  <2> HIDE DEF s
  <2> QED
    BY <1>3, <2>1, <2>2, <2>3, <2>4, Zenon DEF Sourced
<1> QED
  BY <1>5, <1>6, <1>7, Zenon DEF Right

(* The current template again keeps its generation.                        *)
LEMMA ReofferKeeps ==
  ASSUME IInv, NEW was \in Offered, Known(was, mode, latest), NEW cost, tokens' \in Nat,
         Reoffer(was, cost)
  PROVE  IInv' /\ Publication
<1> USE DEF IInv
<1>0. Active \in Slots
  BY ActiveIsSlot
<1> DEFINE s == Active
           parent == source[s].parent
<1>1. /\ parent \in Int \ {-1} /\ parent = latest /\ gens.last = <<s, source[s].gen>>
      /\ gens.count \in Nat
  BY <1>0, Zenon DEF Reoffer, Sourced, Types
<1>2. gens' = gens
  BY <1>1, Zenon DEF Reoffer, Generation
<1>3. /\ UNCHANGED <<mode, view, source, order, latest, issued, plan, sessions, donation,
                     taken>>
      /\ Offer(was, cost, gens'.count, parent)
  BY Zenon DEF Reoffer, nodeVars, poolVars
<1>4. Right' /\ Publication
  <2> HIDE DEF parent
  <2>1. /\ Offer(was, cost, gens.count, parent) /\ latest' = parent
        /\ gens'.count = gens.count /\ gens.count <= gens.count
    BY <1>1, <1>2, <1>3
  <2> QED
    BY <1>1, <1>3, <2>1, OfferKeeps, Zenon
<1>5. Types'
  BY <1>2, <1>3, <1>4, Zenon DEF Types, Right
<1>6. Sourced'
  BY <1>2, <1>3, Zenon DEF Sourced, Active
<1> QED
  BY <1>4, <1>5, <1>6, Zenon DEF Right

LEMMA TokensChangeKeeps == IInv /\ TokensChange => IInv' /\ Publication
<1> SUFFICES ASSUME IInv, TokensChange PROVE IInv' /\ Publication
  OBVIOUS
<1>1. tokens' \in Nat /\ off \in Offered /\ Known(off, mode, latest) /\ Reoffer(off, 1)
  BY DEF TokensChange, IInv, Types
<1> QED
  BY <1>1, ReofferKeeps

LEMMA PlanChangedKeeps == IInv /\ PlanChanged => IInv' /\ Publication
<1> SUFFICES ASSUME IInv, PlanChanged PROVE IInv' /\ Publication
  OBVIOUS
<1>1. tokens' \in Nat /\ off \in Offered /\ Known(off, mode, latest) /\ Reoffer(off, 0)
  BY Zenon DEF PlanChanged, IInv, Types
<1> QED
  BY <1>1, ReofferKeeps

(* A step of Offered alone, which keeps it in order.                       *)
LEMMA OnlyOffered ==
  ASSUME IInv, off' \in Offered, Known(off', mode, latest),
         UNCHANGED <<mode, view, source, order, gens, tokens, latest, issued, job, plan,
                     sessions, donation, taken>>
  PROVE  IInv' /\ Publication
<1>1. Types' /\ Sourced'
  BY Zenon DEF IInv, Types, Sourced, Active
<1>2. SameWork' /\ Publication
  BY DEF IInv, SameWork, SameJob, Publication
<1> QED
  BY <1>1, <1>2, Zenon DEF IInv

LEMMA RetryDueKeeps == IInv /\ RetryDue => IInv' /\ Publication
<1> SUFFICES ASSUME IInv, RetryDue PROVE IInv' /\ Publication
  OBVIOUS
<1> DEFINE due == [off EXCEPT !.retry = FALSE]
<1>1. /\ off \in Offered /\ Known(off, mode, latest) /\ tokens' \in Nat /\ tokens' = tokens
  BY Zenon DEF IInv, Types, RetryDue
<1>2. /\ due \in Offered /\ due.plan = off.plan /\ due.last = off.last
      /\ due.cohort = off.cohort /\ due.preparing = off.preparing
      /\ due.waiting = off.waiting
  BY <1>1, Zenon DEF Offered
<1>3. \/ Reoffer(due, 0)
      \/ /\ off' = due
         /\ UNCHANGED <<mode, view, source, order, gens, latest, issued, job, plan,
                        sessions, donation, taken>>
  BY DEF RetryDue, nodeVars, sourceVars, poolVars
<1> HIDE DEF due
<1>4. Known(due, mode, latest)
  BY <1>1, <1>2 DEF Known, Current
<1>5. CASE Reoffer(due, 0)
  BY <1>1, <1>2, <1>4, <1>5, ReofferKeeps
<1>6. CASE /\ off' = due
           /\ UNCHANGED <<mode, view, source, order, gens, latest, issued, job, plan,
                          sessions, donation, taken>>
  BY <1>1, <1>2, <1>4, <1>6, OnlyOffered, Zenon
<1> QED
  BY <1>3, <1>5, <1>6

LEMMA CoalesceEndsKeeps == IInv /\ CoalesceEnds => IInv' /\ Publication
<1> SUFFICES ASSUME IInv, CoalesceEnds PROVE IInv' /\ Publication
  OBVIOUS
<1>1. off \in Offered /\ Known(off, mode, latest)
  BY Zenon DEF IInv, Types
<1>2. /\ off' \in Offered /\ off'.plan = off.plan /\ off'.last = off.last
      /\ off'.cohort = off.cohort /\ off'.preparing = off.preparing
      /\ off'.waiting = off.waiting
  BY <1>1, Zenon DEF Offered, CoalesceEnds
<1>3. Known(off', mode, latest)
  BY <1>1, <1>2 DEF Known, Current
<1>4. UNCHANGED <<mode, view, source, order, gens, tokens, latest, issued, job, plan,
                  sessions, donation, taken>>
  BY DEF CoalesceEnds, nodeVars, sourceVars, poolVars
<1> QED
  BY <1>2, <1>3, <1>4, OnlyOffered, Zenon

(* An ask with another state or lease is still the same ask.               *)
LEMMA KnownAlike ==
  ASSUME NEW o \in Offered, NEW p \in Offered, NEW m, NEW lt, Known(o, m, lt),
         p.plan = o.plan, p.last = o.last, p.cohort = o.cohort,
         (p.preparing = None) = (o.preparing = None),
         (p.waiting = None) = (o.waiting = None),
         o.preparing # None => /\ p.preparing.parent = o.preparing.parent
                               /\ p.preparing.cohort = o.preparing.cohort
                               /\ p.preparing.plan = o.preparing.plan,
         o.waiting # None => /\ p.waiting.parent = o.waiting.parent
                             /\ p.waiting.cohort = o.waiting.cohort
                             /\ p.waiting.plan = o.waiting.plan
  PROVE  Known(p, m, lt)
  BY DEF Known, Current

LEMMA PreparedKeeps ==
  ASSUME IInv, NEW result \in {"alone", "paired", "failed", "died"}, Prepared(result)
  PROVE  IInv' /\ Publication
<1>1. off \in Offered /\ Known(off, mode, latest) /\ off.preparing \in Ask
  BY Zenon DEF IInv, Types, Prepared, Offered
<1> DEFINE a == [off.preparing EXCEPT !.state = result]
<1>2. /\ a \in Ask /\ a.parent = off.preparing.parent /\ a.plan = off.preparing.plan
      /\ a.cohort = off.preparing.cohort
  BY <1>1 DEF Ask
<1>3. off' = [off EXCEPT !.preparing = a]
  BY <1>1, Zenon DEF Prepared, Offered
<1> HIDE DEF a
<1>4. /\ off' \in Offered /\ off'.plan = off.plan /\ off'.last = off.last
      /\ off'.cohort = off.cohort /\ off'.preparing = a
      /\ off'.waiting = off.waiting
  BY <1>1, <1>2, <1>3 DEF Offered
<1>5. Known(off', mode, latest)
  <2>1. a # None /\ off.preparing # None
    BY <1>1, <1>2, Nones
  <2> QED
    BY <1>1, <1>2, <1>4, <2>1, KnownAlike, Zenon
<1>6. UNCHANGED <<mode, view, source, order, gens, tokens, latest, issued, job, plan,
                  sessions, donation, taken>>
  BY DEF Prepared, nodeVars, sourceVars, poolVars
<1> QED
  BY <1>4, <1>5, <1>6, OnlyOffered, Zenon

(* Without the preparation that ran Offered is still in order.             *)
LEMMA DroppedKeeps ==
  ASSUME NEW o \in Offered, NEW m, NEW lt, Known(o, m, lt), NEW retry \in BOOLEAN,
         NEW hold \in BOOLEAN
  PROVE  LET p == [o EXCEPT !.preparing = None, !.retry = retry, !.hold = hold]
         IN  p \in Offered /\ Known(p, m, lt)
<1> DEFINE p == [o EXCEPT !.preparing = None, !.retry = retry, !.hold = hold]
<1>1. /\ p \in Offered /\ p.plan = o.plan /\ p.last = o.last /\ p.cohort = o.cohort
      /\ p.preparing = None /\ p.waiting = o.waiting
  BY Zenon DEF Offered
<1> HIDE DEF p
<1>2. Known(p, m, lt)
  BY <1>1, Zenon DEF Known, Current
<1> QED
  BY <1>1, <1>2 DEF p

(* A preparation that ended: only one of the newest parent and the plan of *)
(* now is published, under a new serial.                                   *)
LEMMA FinishPreparationKeeps == IInv /\ FinishPreparation => IInv' /\ Publication
<1> SUFFICES ASSUME IInv, FinishPreparation PROVE IInv' /\ Publication
  OBVIOUS
<1> USE DEF IInv
<1> DEFINE done == off.preparing
           o == [off EXCEPT !.preparing = None]
           free == [o EXCEPT !.retry = FALSE, !.hold = FALSE]
           alone == [gen |-> done.gen, session |-> done.cohort, serial |-> issued + 1,
                     tokens |-> done.tokens, parent |-> done.parent, plan |-> done.plan,
                     donation |-> 0, fresh |-> done.fresh]
<1>0. /\ off \in Offered /\ Known(off, mode, latest) /\ done # None /\ done \in Ask
      /\ mode = "p2pool"
  BY Zenon DEF Types, FinishPreparation, Offered, Known
<1>1. UNCHANGED <<mode, view, source, order, gens, tokens, latest, plan, sessions,
                  donation, taken>>
  BY Zenon DEF FinishPreparation, nodeVars, sourceVars, poolVars
<1>2. o \in Offered /\ Known(o, mode, latest)
  <2>1. /\ off.retry \in BOOLEAN /\ off.hold \in BOOLEAN
        /\ o = [off EXCEPT !.preparing = None, !.retry = off.retry, !.hold = off.hold]
    BY <1>0, Zenon DEF Offered
  <2> HIDE DEF o
  <2> QED
    BY <1>0, <2>1, DroppedKeeps, Zenon
<1>3. free \in Offered /\ Known(free, mode, latest)
  <2>1. free = [off EXCEPT !.preparing = None, !.retry = FALSE, !.hold = FALSE]
    BY <1>0 DEF Offered
  <2> HIDE DEF free
  <2> QED
    BY <1>0, <2>1, DroppedKeeps, Zenon
<1>4. \/ off' = Start(o) /\ UNCHANGED <<issued, job>>
      \/ /\ off' = Start(Failed(o)) /\ UNCHANGED issued
         /\ job' = FailedOffer(o, job, done.parent, done.plan)
      \/ /\ ~Superseded(done) /\ ~NewSession(done) /\ off' = Start(free)
         /\ issued' = issued + 1
         /\ job' \in {alone, [alone EXCEPT !.donation = done.donation]}
  BY Zenon DEF FinishPreparation
<1>5. Sourced'
  BY <1>1, Zenon DEF Sourced, Active
<1> HIDE DEF o, free
<1>6. ASSUME job' \in {job, None}, issued' = issued, off' \in Offered,
             Known(off', mode, latest)
      PROVE  IInv' /\ Publication
  <2>1. Types'
    BY <1>1, <1>6, Zenon DEF Types
  <2>2. SameWork' /\ Publication
    BY <1>1, <1>6, Zenon DEF SameWork, SameJob, Publication
  <2>3. Keyed(job', mode, issued, gens.count, latest)
    BY <1>6, Zenon DEF Keyed
  <2> QED
    BY <1>1, <1>5, <1>6, <2>1, <2>2, <2>3, Zenon
<1>7. CASE off' = Start(o) /\ UNCHANGED <<issued, job>>
  BY <1>2, <1>6, <1>7, StartKeeps, Zenon
<1>8. CASE /\ off' = Start(Failed(o)) /\ UNCHANGED issued
           /\ job' = FailedOffer(o, job, done.parent, done.plan)
  BY <1>2, <1>6, <1>8, StartKeeps, FailedKeeps, FailedOfferIs, Zenon
<1>9. CASE /\ ~Superseded(done) /\ ~NewSession(done) /\ off' = Start(free)
           /\ issued' = issued + 1
           /\ job' \in {alone, [alone EXCEPT !.donation = done.donation]}
  <2>1. off' \in Offered /\ Known(off', mode, latest)
    BY <1>3, <1>9, StartKeeps, Zenon
  <2>2. /\ job' \in Job /\ job'.serial = issued + 1 /\ job'.parent = done.parent
        /\ job'.plan = done.plan /\ issued \in Nat /\ issued' \in Nat
    <3>1. issued \in Nat /\ issued + 1 \in Nat /\ 0 \in Nat
      BY DEF Types
    <3>2. /\ alone \in Job /\ alone.serial = issued + 1 /\ alone.parent = done.parent
          /\ alone.plan = done.plan
      BY <1>0, <3>1, Zenon DEF Job, Ask
    <3>3. done.donation \in Nat
      BY <1>0, Zenon DEF Ask
    <3> HIDE DEF alone
    <3>4. \A r \in {alone, [alone EXCEPT !.donation = done.donation]} :
            /\ r \in Job /\ r.serial = issued + 1 /\ r.parent = done.parent
            /\ r.plan = done.plan
      BY <3>2, <3>3 DEF Job
    <3> QED
      BY <1>9, <3>1, <3>4, Zenon
  <2>3. done.parent = latest /\ done.plan = plan
    BY <1>0, <1>9, Zenon DEF Known, Superseded, NewSession
  <2>4. Publication
    BY <1>1, <2>2, <2>3, Zenon DEF Publication
  <2>5. Types'
    BY <1>1, <2>1, <2>2, Zenon DEF Types
  <2>6. taken # None => taken.serial <= issued /\ taken.serial \in Nat
    BY <1>0, Zenon DEF Keyed, Types, Job
  <2>7. /\ Keyed(job', mode, issued', gens.count, latest)
        /\ Keyed(taken, mode, issued', gens.count, latest)
    BY <1>0, <1>9, <2>2, <2>6 DEF Keyed
  <2>8. SameWork'
    <3>1. taken # None => taken.serial # job'.serial
      BY <2>2, <2>6
    <3> QED
      BY <1>1, <3>1 DEF SameWork, SameJob
  <2> QED
    BY <1>1, <1>5, <2>1, <2>4, <2>5, <2>7, <2>8, Zenon
<1> QED
  BY <1>4, <1>7, <1>8, <1>9, Zenon

(* Leases end.                                                             *)
LEMMA OverKeeps ==
  /\ \A r \in Job \cup {None} :
       /\ Over(r) \in Job \cup {None} /\ (Over(r) = None <=> r = None)
       /\ r # None => Over(r) = [r EXCEPT !.fresh = FALSE]
  /\ \A a \in Ask \cup {None} :
       /\ Over(a) \in Ask \cup {None} /\ (Over(a) = None <=> a = None)
       /\ a # None => Over(a).parent = a.parent /\ Over(a).cohort = a.cohort
                      /\ Over(a).plan = a.plan
<1>1. \A r \in Job : [r EXCEPT !.fresh = FALSE] \in Job
  BY Zenon DEF Job
<1>2. \A a \in Ask : LET b == [a EXCEPT !.fresh = FALSE] IN
        b \in Ask /\ b.parent = a.parent /\ b.cohort = a.cohort /\ b.plan = a.plan
  BY Zenon DEF Ask
<1> QED
  BY <1>1, <1>2, Nones DEF Over

LEMMA LeaseEndsKeeps == IInv /\ LeaseEnds => IInv' /\ Publication
<1> SUFFICES ASSUME IInv, LeaseEnds PROVE IInv' /\ Publication
  OBVIOUS
<1> USE DEF IInv
<1>1. PICK n \in 1..3 :
        /\ job' = Over(job)
        /\ off' = [off EXCEPT !.preparing = IF n > 1 THEN Over(@) ELSE @,
                              !.waiting = IF n > 2 THEN Over(@) ELSE @]
  BY Zenon DEF LeaseEnds
<1>2. UNCHANGED <<mode, view, source, order, gens, tokens, latest, issued, plan,
                  sessions, donation, taken>>
  BY DEF LeaseEnds, nodeVars, sourceVars, poolVars
<1>3. off \in Offered /\ Known(off, mode, latest)
      /\ off.preparing \in Ask \cup {None} /\ off.waiting \in Ask \cup {None}
  BY Zenon DEF Types, Offered
<1> DEFINE p == IF n > 1 THEN Over(off.preparing) ELSE off.preparing
           w == IF n > 2 THEN Over(off.waiting) ELSE off.waiting
<1>4. /\ p \in Ask \cup {None} /\ w \in Ask \cup {None}
      /\ (p = None) = (off.preparing = None) /\ (w = None) = (off.waiting = None)
      /\ off.preparing # None => /\ p.parent = off.preparing.parent
                                 /\ p.cohort = off.preparing.cohort
                                 /\ p.plan = off.preparing.plan
      /\ off.waiting # None => /\ w.parent = off.waiting.parent
                               /\ w.cohort = off.waiting.cohort
                               /\ w.plan = off.waiting.plan
  BY <1>3, OverKeeps, Zenon
<1>5. off' = [off EXCEPT !.preparing = p, !.waiting = w]
  BY <1>1, <1>3 DEF Offered
<1> HIDE DEF p, w
<1>6. /\ off' \in Offered /\ off'.plan = off.plan /\ off'.last = off.last
      /\ off'.cohort = off.cohort /\ off'.preparing = p /\ off'.waiting = w
  BY <1>3, <1>4, <1>5, Zenon DEF Offered
<1>7. Known(off', mode, latest)
  BY <1>3, <1>4, <1>6, KnownAlike, Zenon
<1>8. /\ job' \in Job \cup {None} /\ (job' = None <=> job = None)
      /\ job # None => job' = [job EXCEPT !.fresh = FALSE]
  BY <1>1, OverKeeps, Zenon DEF Types
<1>9. job # None => /\ SameJob(job, job')
                    /\ [job' EXCEPT !.fresh = TRUE] = [job EXCEPT !.fresh = TRUE]
                    /\ job'.gen = job.gen /\ job'.parent = job.parent
                    /\ job'.serial = job.serial /\ job'.session = job.session
                    /\ job'.tokens = job.tokens /\ job'.plan = job.plan
                    /\ job'.donation = job.donation
  BY <1>8, Zenon DEF Job, Types, SameJob
<1>10. Types' /\ Sourced'
  BY <1>2, <1>6, <1>8, Zenon DEF Types, Sourced, Active
<1>11. Keyed(job', mode, issued, gens.count, latest)
  BY <1>8, <1>9, Zenon DEF Keyed
<1>12. SameWork' /\ Publication
  BY <1>2, <1>8, <1>9, Zenon DEF SameWork, SameJob, Publication
<1> QED
  BY <1>2, <1>7, <1>10, <1>11, <1>12, Zenon

(* The active source fails: no source has a template, and nothing is       *)
(* prepared or published.                                                  *)
LEMMA RefreshFailsKeeps == IInv /\ RefreshFails => IInv' /\ Publication
<1> SUFFICES ASSUME IInv, RefreshFails PROVE IInv' /\ Publication
  OBVIOUS
<1> USE DEF IInv
<1>0. Active \in Slots
  BY ActiveIsSlot
<1>1. /\ job' = None /\ order' = Rotated /\ source' = Reset(Active)
      /\ off' = [off EXCEPT !.preparing = None, !.waiting = None, !.last = <<-1, 0>>]
      /\ UNCHANGED <<mode, view, gens, tokens, latest, issued, plan, sessions, donation,
                     taken>>
  BY DEF RefreshFails, nodeVars, poolVars
<1>2. /\ off' \in Offered /\ off'.last = <<-1, 0>>
      /\ off'.preparing = None /\ off'.waiting = None
  BY <1>1, NoLast, Zenon DEF Types, Offered
<1>3. Known(off', mode, latest)
  BY <1>2 DEF Known
<1>4. order' \in Seq(Slots) /\ Len(order') = Sources
  <2>1. order \in Seq(Slots) /\ Len(order) = Sources /\ order # <<>> /\ Sources \in Nat \ {0}
    BY BoundsGiven, Zenon DEF Types
  <2>2. /\ Tail(order) \in Seq(Slots) /\ Len(Tail(order)) = Sources - 1
        /\ Head(order) \in Slots
    BY <2>1
  <2>3. <<Head(order)>> \in Seq(Slots) /\ Len(<<Head(order)>>) = 1
    BY <2>2
  <2>4. /\ Tail(order) \o <<Head(order)>> \in Seq(Slots)
        /\ Len(Tail(order) \o <<Head(order)>>) = Sources - 1 + 1
    BY <2>2, <2>3
  <2> QED
    BY <1>1, <2>1, <2>4 DEF Rotated
<1>5. /\ source' \in [Slots -> [gen : Nat, parent : Int]]
      /\ \A s \in Slots : source'[s].parent = -1 /\ source'[s].gen = source[s].gen
  <2>1. source \in [Slots -> [gen : Nat, parent : Int]]
    BY Zenon DEF Types
  <2>2. \A s \in Slots \ {Active} : source[s].parent = -1
    BY Zenon DEF Sourced
  <2> QED
    BY <1>0, <1>1, <2>1, <2>2 DEF Reset
<1>6. Types'
  BY <1>1, <1>2, <1>4, <1>5, Zenon DEF Types
<1>7. Sourced'
  <2>1. Active' \in Slots
    <3>1. order' \in Seq(Slots) /\ 1 \in 1..Len(order')
      BY <1>4, BoundsGiven
    <3> QED
      BY <3>1 DEF Active
  <2> QED
    BY <1>1, <1>5, <2>1, Zenon DEF Sourced
<1>8. Keyed(None, mode, issued, gens.count, latest)
  BY Zenon DEF Keyed
<1>9. SameWork' /\ Publication
  BY <1>1 DEF SameWork, Publication
<1> QED
  BY <1>1, <1>3, <1>6, <1>7, <1>8, <1>9

LEMMA BlockAcceptedKeeps == IInv /\ BlockAccepted => IInv' /\ Publication
<1> SUFFICES ASSUME IInv, BlockAccepted PROVE IInv' /\ Publication
  OBVIOUS
<1> USE DEF IInv
<1>0. Active \in Slots
  BY ActiveIsSlot
<1>1. /\ source' = Reset(Active) /\ view' = [view EXCEPT ![Active] = @ + 1]
      /\ UNCHANGED <<mode, order, gens, tokens, latest, off, issued, job, plan, sessions,
                     donation, taken>>
  BY Zenon DEF BlockAccepted, offerVars, poolVars
<1>2. view' \in [Slots -> Nat]
  BY <1>0, <1>1 DEF Types
<1>3. /\ source' \in [Slots -> [gen : Nat, parent : Int]]
      /\ \A s \in Slots : source'[s].gen = source[s].gen
      /\ \A s \in Slots : source'[s].parent = -1
  <2>1. source \in [Slots -> [gen : Nat, parent : Int]]
    BY Zenon DEF Types
  <2>2. \A s \in Slots \ {Active} : source[s].parent = -1
    BY Zenon DEF Sourced
  <2> QED
    BY <1>0, <1>1, <2>1, <2>2 DEF Reset
<1>4. Types'
  BY <1>1, <1>2, <1>3, Zenon DEF Types
<1>5. Sourced'
  BY <1>0, <1>1, <1>3, Zenon DEF Sourced, Active
<1>6. SameWork' /\ Publication
  BY <1>1, Zenon DEF SameWork, SameJob, Publication
<1> QED
  BY <1>1, <1>4, <1>5, <1>6, Zenon

(* What the nodes and the uplinks do is noticed later.                     *)
LEMMA ElsewhereKeeps ==
  ASSUME IInv, view' \in [Slots -> Nat], plan' \in Nat, sessions' \in Nat,
         donation' \in [plan : Nat, sessions : Nat],
         UNCHANGED <<mode, source, order, gens, tokens, latest, off, issued, job, taken>>
  PROVE  IInv' /\ Publication
<1>1. Types' /\ Sourced'
  BY Zenon DEF IInv, Types, Sourced, Active
<1>2. SameWork' /\ Publication
  BY DEF IInv, SameWork, SameJob, Publication
<1> QED
  BY <1>1, <1>2, Zenon DEF IInv

LEMMA NodesKeep ==
  ASSUME IInv, NEW s \in Slots, NodeTip(s) \/ NodeFails(s) \/ NodeRecovers(s)
  PROVE  IInv' /\ Publication
<1>1. view' \in [Slots -> Nat]
  <2>1. view \in [Slots -> Nat]
    BY Zenon DEF IInv, Types
  <2>2. view' = view \/ view' = [view EXCEPT ![s] = @ + 1]
    BY Zenon DEF NodeTip, NodeFails, NodeRecovers
  <2> QED
    BY <2>1, <2>2
<1>2. UNCHANGED <<mode, source, order, gens, tokens, latest, off, issued, job, taken,
                  plan, sessions, donation>>
  BY Zenon DEF NodeTip, NodeFails, NodeRecovers, sourceVars, offerVars, poolVars
<1>3. plan' \in Nat /\ sessions' \in Nat /\ donation' \in [plan : Nat, sessions : Nat]
  BY <1>2, Zenon DEF IInv, Types
<1> QED
  BY <1>1, <1>2, <1>3, ElsewhereKeeps

LEMMA UplinksKeep ==
  IInv /\ (SessionStarts \/ SessionEnds \/ DonationStarts \/ DonationEnds)
    => IInv' /\ Publication
<1> SUFFICES ASSUME IInv, SessionStarts \/ SessionEnds \/ DonationStarts \/ DonationEnds
             PROVE  IInv' /\ Publication
  OBVIOUS
<1>1. UNCHANGED <<mode, view, source, order, gens, tokens, latest, off, issued, job,
                  taken>>
  BY Zenon DEF SessionStarts, SessionEnds, DonationStarts, DonationEnds, nodeVars, sourceVars,
         offerVars
<1>2. plan \in Nat /\ sessions \in Nat /\ donation \in [plan : Nat, sessions : Nat]
      /\ view' \in [Slots -> Nat]
  BY <1>1, Zenon DEF IInv, Types
<1>3. plan' \in Nat /\ sessions' \in Nat /\ donation' \in [plan : Nat, sessions : Nat]
  BY <1>2 DEF SessionStarts, SessionEnds, DonationStarts, DonationEnds
<1> QED
  BY <1>1, <1>2, <1>3, ElsewhereKeeps, Zenon

LEMMA UpdateKeeps == IInv /\ Update => IInv' /\ Publication
<1> SUFFICES ASSUME IInv, Update PROVE IInv' /\ Publication
  OBVIOUS
<1> USE DEF IInv
<1>1. UNCHANGED <<mode, view, source, order, gens, tokens, latest, off, issued, job,
                  plan, sessions, donation>>
  BY Zenon DEF Update, nodeVars, sourceVars, offerVars, poolVars
<1>2. taken' \in {None, taken, job}
  BY DEF Update
<1>3. Types' /\ Sourced'
  BY <1>1, <1>2, Zenon DEF Types, Sourced, Active
<1>4. Keyed(taken', mode, issued, gens.count, latest)
  BY <1>2 DEF Keyed
<1>5. SameWork' /\ Publication
  BY <1>1, <1>2, Zenon DEF SameWork, SameJob, Publication
<1> QED
  BY <1>1, <1>3, <1>4, <1>5, Zenon

LEMMA NextKeeps == IInv /\ [Next]_vars => IInv' /\ [Publication]_vars
<1> SUFFICES ASSUME IInv, [Next]_vars PROVE IInv' /\ [Publication]_vars
  OBVIOUS
<1>1. CASE UNCHANGED vars
  <2>1. UNCHANGED <<mode, view, source, order, gens, tokens, latest, off, issued, job,
                    plan, sessions, donation, taken>>
    BY <1>1 DEF vars, nodeVars, sourceVars, offerVars, poolVars
  <2>2. view' \in [Slots -> Nat] /\ plan' \in Nat /\ sessions' \in Nat
        /\ donation' \in [plan : Nat, sessions : Nat]
    BY <2>1, Zenon DEF IInv, Types
  <2> QED
    BY <1>1, <2>1, <2>2, ElsewhereKeeps, Zenon
<1>2. CASE Next
  <2>1. CASE \E s \in Slots : NodeTip(s) \/ NodeFails(s) \/ NodeRecovers(s)
    BY <2>1, NodesKeep
  <2>2. CASE Helper
    BY <2>2, PreparedKeeps DEF Helper
  <2> QED
    BY <1>2, <2>1, <2>2, RefreshKeeps, RefreshFailsKeeps, BlockAcceptedKeeps,
       TokensChangeKeeps, PlanChangedKeeps, RetryDueKeeps, FinishPreparationKeeps,
       LeaseEndsKeeps, CoalesceEndsKeeps, UplinksKeep, UpdateKeeps, Zenon DEF Next
<1> QED
  BY <1>1, <1>2

LEMMA IInvHolds == Spec => []IInv
<1>1. IInv /\ [Next]_vars => IInv'
  BY NextKeeps
<1> QED
  BY <1>1, InitIInv, PTL DEF Spec

(* A device that keeps its job because the published one has its           *)
(* generation, session and serial (update in server.rs) has the published  *)
(* work, whatever sources, sessions and token sets came and went.          *)
THEOREM KeptJobIsSameWork == Spec => []SameWork
<1>1. IInv => SameWork
  BY DEF IInv
<1> QED
  BY <1>1, IInvHolds, PTL

(* What is published is of the newest template's parent and, under Job     *)
(* Declaration, of the plan of now (finish_preparations, finish_offer).    *)
THEOREM PublicationsAreNewest == Spec => PublishesNewest
<1>1. IInv /\ [Next]_vars => [Publication]_vars
  BY NextKeeps
<1> QED
  BY <1>1, IInvHolds, PTL DEF Spec, PublishesNewest, Publication
=============================================================================
