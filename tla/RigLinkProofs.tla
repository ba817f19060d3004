---------------------------- MODULE RigLinkProofs ----------------------------
(***************************************************************************)
(* Proof that a rig keeps its proofs, for any coordinators and bounds: the *)
(* proof of a baton nobody has spent stays in the rig's file through       *)
(* failover, crashes and coordinators behind the chain, and the file stays *)
(* within its limits.                                                      *)
(***************************************************************************)
EXTENDS RigLink, FiniteSetTheorems, WellFoundedInduction, TLAPS

At(work) == [height |-> work.height, baton |-> work.baton]

(* Jobs, winners and proofs on places P of the chain, each spending a      *)
(* baton older than its own claim, with at most n claims so far.           *)
JobsOn(P) == {j \in Job : At(j.work) \in P}
Spends(w, P, n) == At(w.work) \in P /\ w.work.baton < w.digest /\ w.digest <= n
WinnersOn(P, n) == {w \in Winner : Spends(w, P, n)}
ProofsOn(P, n) == {e \in Proof : Spends(e, P, n)}

(* The chain only grows: of two places, one is not behind in either count. *)
Chain ==
  /\ tip \in past /\ past \subseteq Place /\ NoJob \in JobsOn(past)
  /\ txs \in Nat /\ tip.baton <= txs
  /\ \A p \in past : p.height <= tip.height /\ p.baton <= tip.baton
  /\ \A p, q \in past : p.height < q.height => p.baton <= q.baton

(* All that is posted, under way or saved is of such places.               *)
Hubs(P, n) ==
  /\ posted \in [Coords -> [gen : Nat, at : P]]
  /\ queue \in [Coords -> Seq(WinnersOn(P, n))]
Links(P, n) ==
  /\ window \in {"own", "fee"} /\ conn \in Coords \cup {0}
  /\ down \in Seq(JobsOn(P)) /\ up \in [Coords -> Seq(WinnersOn(P, n))]
Rigs(P, n) ==
  /\ cur \in JobsOn(P) /\ found \in Seq(WinnersOn(P, n))
Saved(P, n) ==
  /\ mem \subseteq ProofsOn(P, n) /\ disk \subseteq ProofsOn(P, n)
  /\ proofs \subseteq ProofsOn(P, n)

(* The proofs that must be kept are in the file and, while the rig runs,   *)
(* in its memory.                                                          *)
Owed == {e \in proofs \ (dropped \cup unsaved) : e.work.baton = tip.baton}
Kept == Owed \subseteq disk /\ (running = "on" => Owed \subseteq mem)

IInv ==
  /\ Chain /\ Hubs(past, txs) /\ Links(past, txs) /\ Rigs(past, txs) /\ Saved(past, txs)
  /\ Kept

---------------------------------------------------------------------------
LEMMA InitIInv == Init => IInv
<1> SUFFICES ASSUME Init PROVE IInv
  OBVIOUS
<1>1. tip \in Place /\ tip = [height |-> 0, baton |-> 0] /\ past = {tip} /\ txs = 0
  BY DEF Init, Place
<1>2. NoJob \in Job /\ At(NoJob.work) = tip
  BY <1>1 DEF NoJob, Job, Work, At
<1>3. Chain
  BY <1>1, <1>2 DEF Chain, JobsOn
<1>4. Hubs(past, txs) /\ Links(past, txs)
  BY <1>1 DEF Init, Hubs, Links
<1>5. Rigs(past, txs) /\ Saved(past, txs) /\ Kept
  BY <1>1, <1>2 DEF Init, Rigs, Saved, Kept, Owed, JobsOn
<1> QED
  BY <1>3, <1>4, <1>5 DEF IInv

---------------------------------------------------------------------------
(* The chain grows.                                                        *)

LEMMA SeqsGrow == ASSUME NEW S, NEW T, S \subseteq T PROVE Seq(S) \subseteq Seq(T)
  OBVIOUS

LEMMA SetsGrow ==
  ASSUME NEW P, NEW Q, NEW m \in Nat, NEW n \in Nat, P \subseteq Q, m <= n
  PROVE  /\ JobsOn(P) \subseteq JobsOn(Q)
         /\ WinnersOn(P, m) \subseteq WinnersOn(Q, n)
         /\ ProofsOn(P, m) \subseteq ProofsOn(Q, n)
  BY DEF JobsOn, WinnersOn, ProofsOn, Spends, Winner, Proof

(* The tip moves to t, or a claim comes to exist.                          *)
LEMMA Grows ==
  ASSUME IInv, NEW t \in Place, NEW n \in Nat, txs <= n,
         tip.height <= t.height, tip.baton <= t.baton, t.baton <= n
  PROVE  LET P == past \cup {t} IN
         /\ Hubs(P, n) /\ Links(P, n) /\ Rigs(P, n) /\ Saved(P, n)
         /\ tip' = t /\ past' = P /\ txs' = n => Chain'
<1> DEFINE P == past \cup {t}
<1>0. Chain /\ txs \in Nat /\ past \subseteq P
  BY DEF IInv, Chain
<1>1. /\ JobsOn(past) \subseteq JobsOn(P)
      /\ WinnersOn(past, txs) \subseteq WinnersOn(P, n)
      /\ ProofsOn(past, txs) \subseteq ProofsOn(P, n)
  BY <1>0, SetsGrow
<1>2. /\ Seq(JobsOn(past)) \subseteq Seq(JobsOn(P))
      /\ Seq(WinnersOn(past, txs)) \subseteq Seq(WinnersOn(P, n))
  BY <1>1, SeqsGrow
<1>3. Hubs(P, n) /\ Links(P, n)
  BY <1>0, <1>2 DEF IInv, Hubs, Links
<1>4. Rigs(P, n) /\ Saved(P, n)
  BY <1>1, <1>2 DEF IInv, Rigs, Saved
<1>5. ASSUME tip' = t, past' = P, txs' = n PROVE Chain'
  <2>1. tip \in Place /\ \A p \in P : p \in Place
    BY <1>0 DEF Chain
  <2>2. \A p \in P : p.height <= t.height /\ p.baton <= t.baton
    BY <1>0, <2>1 DEF Chain, Place
  <2>3. \A p, q \in P : p.height < q.height => p.baton <= q.baton
    BY <1>0, <2>1, <2>2 DEF Chain, Place
  <2> QED
    BY <1>0, <1>1, <1>5, <2>1, <2>2, <2>3 DEF Chain
<1> QED
  BY <1>3, <1>4, <1>5

(* A proof of the new tip's baton is one of the old tip's.                 *)
LEMMA KeptAsTipMoves ==
  ASSUME IInv, tip' \in Place, tip.baton <= tip'.baton,
         UNCHANGED <<running, mem, disk, history>>
  PROVE  Kept'
<1>1. \A e \in proofs : At(e.work) \in past /\ e.work.baton \in Nat
  BY DEF IInv, Saved, ProofsOn, Spends, Proof, Work
<1>2. \A e \in proofs : e.work.baton <= tip.baton
  BY <1>1 DEF IInv, Chain, At
<1>3. Owed' \subseteq Owed
  BY <1>1, <1>2 DEF Owed, history, IInv, Chain, Place
<1> QED
  BY <1>3 DEF IInv, Kept

LEMMA ChainKeeps ==
  ASSUME IInv, Block \/ OtherClaims
  PROVE  IInv'
<1> DEFINE t == tip'
<1>0. tip \in Place /\ txs \in Nat /\ tip.baton <= txs
  BY DEF IInv, Chain
<1>1. /\ t \in Place /\ past' = past \cup {t} /\ txs' \in Nat /\ txs <= txs'
      /\ tip.height <= t.height /\ tip.baton <= t.baton /\ t.baton <= txs'
  BY <1>0 DEF Block, OtherClaims, MoveTip, Place
<1>2. UNCHANGED <<hubVars, linkVars, rigVars, history>>
  BY DEF Block, OtherClaims
<1>3. Chain' /\ Hubs(past', txs') /\ Links(past', txs') /\ Rigs(past', txs') /\ Saved(past', txs')
  BY <1>1, Grows
<1>4. Kept'
  BY <1>1, <1>2, KeptAsTipMoves DEF rigVars
<1>5. (Hubs(past, txs) /\ Links(past, txs))'
  BY <1>2, <1>3 DEF Hubs, Links, hubVars, linkVars
<1>6. (Rigs(past, txs) /\ Saved(past, txs))'
  BY <1>2, <1>3 DEF Rigs, Saved, rigVars, history
<1> QED
  BY <1>3, <1>4, <1>5, <1>6 DEF IInv

(* The supervisor of a coordinator claims.                                 *)
LEMMA ClaimKeeps == ASSUME NEW c \in Coords, IInv, Claim(c) PROVE IInv'
<1> DEFINE W == WinnersOn(past, txs)
<1>0. /\ tip \in Place /\ past \subseteq Place /\ tip \in past /\ txs \in Nat
      /\ tip.baton <= txs /\ queue \in [Coords -> Seq(W)]
  BY DEF IInv, Chain, Hubs
<1>1. /\ queue' = [queue EXCEPT ![c] = <<>>]
      /\ UNCHANGED <<txs, posted, linkVars, rigVars, history>>
  BY DEF Claim
<1>2. \E t \in Place : /\ tip' = t /\ past' = past \cup {t} /\ t.height = tip.height
                       /\ tip.baton <= t.baton /\ t.baton <= txs
  <2> DEFINE mine == FirstOf(queue[c], LAMBDA w : w.gen = posted[c].gen)
  <2>1. mine \subseteq W
    BY <1>0 DEF FirstOf
  <2>2. CASE UNCHANGED <<tip, past>>
    BY <1>0, <2>2 DEF Place
  <2>3. CASE \E w \in mine : /\ w.work.baton = tip.baton
                             /\ MoveTip([tip EXCEPT !.baton = w.digest])
    <3>1. PICK w \in W : w.work.baton = tip.baton /\ MoveTip([tip EXCEPT !.baton = w.digest])
      BY <2>1, <2>3
    <3>2. w.digest \in Nat /\ w.work.baton < w.digest /\ w.digest <= txs
      BY DEF WinnersOn, Spends, Winner
    <3> DEFINE t == [tip EXCEPT !.baton = w.digest]
    <3>3. t \in Place /\ t.height = tip.height /\ t.baton = w.digest
      BY <1>0, <3>2 DEF Place
    <3>4. tip.baton <= w.digest
      BY <1>0, <3>1, <3>2 DEF Place
    <3>5. tip' = t /\ past' = past \cup {t}
      BY <3>1 DEF MoveTip
    <3> QED
      BY <3>2, <3>3, <3>4, <3>5
  <2> QED
    BY <2>2, <2>3 DEF Claim
<1>3. Chain' /\ Hubs(past', txs) /\ Links(past', txs) /\ Rigs(past', txs) /\ Saved(past', txs)
  <2>1. PICK t \in Place : /\ tip' = t /\ past' = past \cup {t} /\ t.height = tip.height
                          /\ tip.baton <= t.baton /\ t.baton <= txs
    BY <1>2
  <2>2. tip.height <= t.height /\ txs <= txs /\ txs' = txs
    BY <1>0, <1>1, <2>1 DEF Place
  <2> QED
    BY <1>0, <2>1, <2>2, Grows
<1>4. Kept'
  BY <1>0, <1>1, <1>2, KeptAsTipMoves DEF rigVars, Place
<1>5. Hubs(past, txs)'
  BY <1>1, <1>3 DEF Hubs
<1>6. Links(past, txs)'
  BY <1>1, <1>3 DEF Links, linkVars
<1>7. (Rigs(past, txs) /\ Saved(past, txs))'
  BY <1>1, <1>3 DEF Rigs, Saved, rigVars, history
<1> QED
  BY <1>3, <1>4, <1>5, <1>6, <1>7 DEF IInv

---------------------------------------------------------------------------
(* Coordinators and links.                                                 *)

(* A step that leaves the chain and the rig alone.                         *)
LEMMA RigAlone ==
  ASSUME IInv, UNCHANGED <<chainVars, rigVars, history>>,
         Hubs(past, txs)', Links(past, txs)'
  PROVE  IInv'
<1>1. Chain'
  BY DEF IInv, Chain, chainVars
<1>2. (Rigs(past, txs) /\ Saved(past, txs))' /\ Kept'
  BY DEF IInv, Rigs, Saved, Kept, Owed, chainVars, rigVars, history
<1> QED
  BY <1>1, <1>2 DEF IInv

LEMMA HubKeeps ==
  ASSUME NEW c \in Coords, IInv, Publish(c) \/ TakeWinner(c) \/ Connect(c)
  PROVE  IInv'
<1>0. Hubs(past, txs) /\ Links(past, txs)
  BY DEF IInv
<1>1. CASE Publish(c)
  <2>1. Hubs(past, txs)'
    BY <1>0, <1>1 DEF Publish, Hubs, chainVars
  <2>2. Links(past, txs)'
    BY <1>0, <1>1 DEF Publish, Links, chainVars
  <2> QED
    BY <1>1, <2>1, <2>2, RigAlone DEF Publish
<1>2. CASE TakeWinner(c)
  <2> DEFINE W == WinnersOn(past, txs)
  <2>1. up[c] \in Seq(W) /\ up[c] # <<>> /\ queue[c] \in Seq(W)
    BY <1>0, <1>2 DEF TakeWinner, Hubs, Links
  <2>2. Head(up[c]) \in W /\ Tail(up[c]) \in Seq(W)
    BY <2>1
  <2> HIDE DEF W
  <2>3. queue' \in [Coords -> Seq(W)]
    <3>1. queue' = queue \/ queue' = [queue EXCEPT ![c] = Append(@, Head(up[c]))]
      BY <1>2 DEF TakeWinner, Queue
    <3>2. Append(queue[c], Head(up[c])) \in Seq(W)
      BY <2>1, <2>2
    <3> QED
      BY <1>0, <3>1, <3>2 DEF Hubs, W
  <2>4. up' \in [Coords -> Seq(W)]
    BY <1>0, <1>2, <2>2 DEF TakeWinner, Links, W
  <2>5. Hubs(past, txs)' /\ Links(past, txs)'
    BY <1>0, <1>2, <2>3, <2>4 DEF TakeWinner, Hubs, Links, W, chainVars
  <2> QED
    BY <1>2, <2>5, RigAlone DEF TakeWinner
<1>3. CASE Connect(c)
  <2>1. Hubs(past, txs)' /\ Links(past, txs)'
    BY <1>0, <1>3 DEF Connect, Hubs, Links, chainVars, hubVars
  <2> QED
    BY <1>3, <2>1, RigAlone DEF Connect
<1> QED
  BY <1>1, <1>2, <1>3

LEMMA LinkKeeps == ASSUME IInv, Window \/ SendJob PROVE IInv'
<1>0. Hubs(past, txs) /\ Links(past, txs)
  BY DEF IInv
<1>1. CASE Window
  <2>1. Hubs(past, txs)' /\ Links(past, txs)'
    BY <1>0, <1>1 DEF Window, Hubs, Links, chainVars, hubVars
  <2> QED
    BY <1>1, <2>1, RigAlone DEF Window
<1>2. CASE SendJob
  <2>1. conn \in Coords /\ posted[conn] \in [gen : Nat, at : past] /\ past \subseteq Place
    BY <1>0, <1>2 DEF SendJob, Hubs, Links, IInv, Chain
  <2>2. RigJob(conn, window) \in JobsOn(past)
    BY <1>0, <2>1 DEF RigJob, JobsOn, Job, Work, Place, At, Links
  <2>3. down' \in Seq(JobsOn(past))
    BY <1>0, <1>2, <2>2 DEF SendJob, Links
  <2>4. Hubs(past, txs)' /\ Links(past, txs)'
    BY <1>0, <1>2, <2>3 DEF SendJob, Hubs, Links, chainVars, hubVars
  <2> QED
    BY <1>2, <2>4, RigAlone DEF SendJob
<1> QED
  BY <1>1, <1>2

---------------------------------------------------------------------------
(* The rig's file.                                                         *)

LEMMA NewIsProof == ASSUME IInv PROVE New(cur, found) \subseteq ProofsOn(past, txs)
<1> SUFFICES ASSUME NEW e \in New(cur, found) PROVE e \in ProofsOn(past, txs)
  OBVIOUS
<1>1. cur \in JobsOn(past) /\ found \in Seq(WinnersOn(past, txs))
  BY DEF IInv, Rigs
<1>2. PICK w \in WinnersOn(past, txs) :
        w.work = cur.work /\ e = [work |-> cur.work, digest |-> w.digest]
  BY <1>1 DEF New, FirstOf
<1> QED
  BY <1>2 DEF WinnersOn, ProofsOn, Spends, Winner, Proof

LEMMA TrimmedIsPart == ASSUME NEW list PROVE Trimmed(list) \subseteq list
  BY DEF Trimmed

(* record and commit.                                                      *)
LEMMA RecordsKeeps ==
  ASSUME IInv, running = "on", UNCHANGED chainVars, Records(cur, found)
  PROVE  Saved(past, txs)' /\ Owed' \subseteq disk' /\ Owed' \subseteq mem'
<1> DEFINE new == New(cur, found)
<1>0. Owed \subseteq disk /\ Owed \subseteq mem /\ Saved(past, txs)
  BY DEF IInv, Kept
<1>1. CASE UNCHANGED <<mem, disk, history>>
  BY <1>0, <1>1 DEF Saved, Owed, history, chainVars
<1>2. CASE /\ mem' = Trimmed(mem \cup new) /\ disk' = mem'
           /\ Noted(new, mem') /\ UNCHANGED unsaved
  <2>1. new \subseteq ProofsOn(past, txs) /\ mem' \subseteq mem \cup new
    BY <1>2, NewIsProof, TrimmedIsPart
  <2> HIDE DEF new
  <2>2. Saved(past, txs)'
    BY <1>0, <1>2, <2>1 DEF Saved, Noted, chainVars
  <2>3. Owed' \subseteq mem'
    BY <1>0, <1>2 DEF Owed, Noted, chainVars
  <2> QED
    BY <1>2, <2>2, <2>3
<1> QED
  BY <1>1, <1>2 DEF Records

LEMMA RecordFailsKeeps ==
  ASSUME IInv, running = "on", UNCHANGED chainVars, RecordFails(cur, found)
  PROVE  Saved(past, txs)' /\ Owed' \subseteq disk' /\ Owed' \subseteq mem'
<1> DEFINE new == New(cur, found)
           next == Trimmed(mem \cup new)
<1>0. Owed \subseteq disk /\ Owed \subseteq mem /\ Saved(past, txs)
  BY DEF IInv, Kept
<1>1. /\ mem' = mem /\ disk' \in {disk, next}
      /\ Noted(new, next) /\ unsaved' = unsaved \cup new
  BY DEF RecordFails
<1>2. new \subseteq ProofsOn(past, txs) /\ next \subseteq mem \cup new
  BY NewIsProof, TrimmedIsPart
<1> HIDE DEF new, next
<1>3. Saved(past, txs)'
  BY <1>0, <1>1, <1>2 DEF Saved, Noted, chainVars
<1>4. Owed' \subseteq Owed /\ (Owed' \cap mem \subseteq next)
  BY <1>1 DEF Owed, Noted, chainVars
<1> QED
  BY <1>0, <1>1, <1>3, <1>4

(* A proof that a job retires is of a spent baton.                         *)
LEMMA RetiredIsSpent ==
  ASSUME IInv, NEW job \in JobsOn(past), NEW e \in mem \ Retained(job)
  PROVE  e.work.baton # tip.baton
<1> DEFINE p == At(e.work)
           q == At(job.work)
<1>1. /\ p \in past /\ q \in past /\ past \subseteq Place /\ tip \in past
      /\ e.work.baton < e.digest /\ e.digest \in Nat
  BY DEF IInv, Chain, Saved, ProofsOn, Spends, JobsOn, Proof
<1>2. /\ p.height = e.work.height /\ p.baton = e.work.baton
      /\ q.height = job.work.height /\ q.baton = job.work.baton
  BY DEF At
<1>3. q.baton <= tip.baton /\ (p.height < q.height => p.baton <= q.baton)
  BY <1>1 DEF IInv, Chain
<1>4. /\ p.height \in Nat /\ p.baton \in Nat /\ q.height \in Nat
      /\ q.baton \in Nat /\ tip.baton \in Nat
  BY <1>1 DEF Place
<1>5. e.digest = q.baton \/ (~(p.height >= q.height) /\ p.baton # q.baton)
  BY <1>2 DEF Retained
<1> HIDE DEF p, q
<1> QED
  BY <1>1, <1>2, <1>3, <1>4, <1>5

---------------------------------------------------------------------------
(* The rig.                                                                *)

LEMMA HangupKeeps ==
  ASSUME IInv, conn # 0, UNCHANGED chainVars, Hangup
  PROVE  Links(past, txs)' /\ Rigs(past, txs)'
<1> DEFINE W == WinnersOn(past, txs)
<1>0. Links(past, txs) /\ NoJob \in JobsOn(past)
  BY DEF IInv, Chain
<1>1. conn \in Coords /\ up \in [Coords -> Seq(W)] /\ up[conn] \in Seq(W)
  BY <1>0 DEF Links
<1>2. PICK k \in 0..Len(up[conn]) : up' = [up EXCEPT ![conn] = SubSeq(@, 1, k)]
  BY DEF Hangup
<1> HIDE DEF W
<1>3. SubSeq(up[conn], 1, k) \in Seq(W)
  BY <1>1
<1>4. up' \in [Coords -> Seq(W)]
  BY <1>1, <1>2, <1>3
<1>5. Links(past, txs)'
  BY <1>0, <1>4 DEF Links, Hangup, chainVars, W
<1>6. Rigs(past, txs)'
  BY <1>0 DEF Rigs, Hangup, chainVars
<1> QED
  BY <1>5, <1>6

(* A step of the rig that leaves the chain and the coordinators alone.     *)
LEMMA RigMoves ==
  ASSUME IInv, UNCHANGED <<chainVars, hubVars>>,
         Links(past, txs)', Rigs(past, txs)', Saved(past, txs)', Kept'
  PROVE  IInv'
<1>1. Chain' /\ Hubs(past, txs)'
  BY DEF IInv, Chain, Hubs, chainVars, hubVars
<1> QED
  BY <1>1 DEF IInv

LEMMA ReceiveJobKeeps == ASSUME IInv, ReceiveJob PROVE IInv'
<1> DEFINE job == Head(down)
           W == WinnersOn(past, txs)
<1>0. /\ running = "on" /\ running' = "on" /\ conn \in Coords
      /\ UNCHANGED <<chainVars, hubVars, window, conn, found, history>>
  BY DEF ReceiveJob, IInv, Links
<1>1. job \in JobsOn(past) /\ Tail(down) \in Seq(JobsOn(past))
  BY DEF ReceiveJob, IInv, Links
<1>2. /\ mem' = Retained(job) /\ cur' = job /\ down' = Tail(down)
      /\ disk' = IF mem' = mem THEN disk ELSE mem'
      /\ Resend(job, mem')
  BY DEF ReceiveJob
<1>3. Owed' = Owed /\ Owed \subseteq mem /\ Owed \subseteq disk
  BY <1>0 DEF Owed, history, chainVars, IInv, Kept
<1>4. mem' \subseteq mem /\ Owed \subseteq mem'
  <2>1. \A e \in mem \ mem' : e.work.baton # tip.baton
    BY <1>1, <1>2, RetiredIsSpent
  <2> QED
    BY <1>2, <1>3, <2>1 DEF Owed, Retained
<1> HIDE DEF job
<1>5. Saved(past, txs)' /\ Kept'
  BY <1>0, <1>2, <1>3, <1>4 DEF IInv, Saved, Kept, history, chainVars
<1>6. up' \in [Coords -> Seq(W)]
  <2>0. up \in [Coords -> Seq(W)]
    BY DEF IInv, Links
  <2>1. CASE up' = up
    BY <2>0, <2>1
  <2>2. ASSUME NEW e \in mem', e.work = job.work,
               up' = [up EXCEPT ![conn] =
                        Append(@, [gen |-> job.gen, work |-> e.work, digest |-> e.digest])]
        PROVE  up' \in [Coords -> Seq(W)]
    <3>1. [gen |-> job.gen, work |-> e.work, digest |-> e.digest] \in W
      BY <1>1, <1>4
         DEF IInv, Saved, ProofsOn, WinnersOn, Spends, Proof, Winner, JobsOn, Job
    <3> HIDE DEF W
    <3> QED
      BY <1>0, <2>0, <2>2, <3>1
  <2> QED
    BY <1>2, <2>1, <2>2 DEF Resend
<1>7. Links(past, txs)'
  BY <1>0, <1>1, <1>2, <1>6 DEF Links, IInv, chainVars
<1>8. Rigs(past, txs)'
  BY <1>0, <1>1, <1>2 DEF Rigs, IInv, chainVars
<1> QED
  BY <1>0, <1>5, <1>7, <1>8, RigMoves

(* A new winner spends the baton of the rig's job, older than itself.      *)
LEMMA FindKeeps == ASSUME IInv, Find PROVE IInv'
<1> DEFINE w == [gen |-> cur.gen, work |-> cur.work, digest |-> txs']
<1>0. /\ txs' = txs + 1 /\ found' = Append(found, w)
      /\ UNCHANGED <<tip, past, hubVars, linkVars, running, cur, mem, disk, history>>
  BY DEF Find
<1>1. /\ Chain /\ tip \in Place /\ txs \in Nat /\ txs' \in Nat /\ txs <= txs'
      /\ tip.baton <= txs' /\ past = past \cup {tip}
  BY <1>0 DEF IInv, Chain, Place
<1>2. tip.height <= tip.height /\ tip.baton <= tip.baton
  BY <1>1 DEF Place
<1>3. Chain' /\ Hubs(past, txs') /\ Links(past, txs') /\ Rigs(past, txs') /\ Saved(past, txs')
  BY <1>0, <1>1, <1>2, Grows
<1>4. Kept'
  BY <1>0 DEF IInv, Kept, Owed, history
<1>5. (Hubs(past, txs) /\ Links(past, txs) /\ Saved(past, txs))'
  BY <1>0, <1>3 DEF Hubs, Links, Saved, hubVars, linkVars, history
<1>6. Rigs(past, txs)'
  <2>1. /\ cur \in Job /\ At(cur.work) \in past /\ cur.work.baton \in Nat
    BY DEF IInv, Rigs, JobsOn, Job, Work
  <2>2. cur.work.baton <= tip.baton
    BY <1>1, <2>1 DEF Chain, At
  <2>3. cur.work.baton < txs' /\ txs' <= txs'
    BY <1>0, <1>1, <2>1, <2>2 DEF Chain, Place
  <2>4. w \in WinnersOn(past, txs')
    BY <1>1, <2>1, <2>3 DEF WinnersOn, Winner, Spends, Job
  <2> HIDE DEF w
  <2>5. found' \in Seq(WinnersOn(past, txs'))
    BY <1>0, <1>3, <2>4 DEF Rigs
  <2> QED
    BY <1>0, <1>3, <2>5 DEF Rigs
<1> QED
  BY <1>3, <1>4, <1>5, <1>6 DEF IInv

(* Winners are sent, saved or not.                                         *)
LEMMA SentWinners ==
  ASSUME IInv, conn # 0
  PROVE  [up EXCEPT ![conn] = @ \o found] \in [Coords -> Seq(WinnersOn(past, txs))]
<1> DEFINE W == WinnersOn(past, txs)
<1>1. /\ conn \in Coords /\ up \in [Coords -> Seq(W)] /\ up[conn] \in Seq(W)
      /\ found \in Seq(W)
  BY DEF IInv, Links, Rigs
<1> HIDE DEF W
<1>2. up[conn] \o found \in Seq(W)
  BY <1>1
<1>3. [up EXCEPT ![conn] = @ \o found] \in [Coords -> Seq(W)]
  BY <1>1, <1>2
<1> QED
  BY <1>3 DEF W

LEMMA DrainKeeps == ASSUME IInv, Drain \/ DrainUnsaved \/ DrainCutOff PROVE IInv'
<1>0. running = "on" /\ conn # 0 /\ UNCHANGED <<chainVars, hubVars>>
  BY DEF Drain, DrainUnsaved, DrainCutOff
<1>1. Saved(past, txs)' /\ Owed' \subseteq disk' /\ Owed' \subseteq mem'
  BY <1>0, RecordsKeeps, RecordFailsKeeps DEF Drain, DrainUnsaved, DrainCutOff
<1>2. Kept'
  BY <1>1 DEF Kept
<1>3. Links(past, txs)' /\ Rigs(past, txs)'
  <2>0. Links(past, txs) /\ Rigs(past, txs) /\ NoJob \in JobsOn(past)
    BY DEF IInv, Chain
  <2>1. CASE Drain
    BY <1>0, <2>0, <2>1, SentWinners DEF Drain, Links, Rigs, chainVars
  <2>2. CASE DrainUnsaved
    BY <1>0, <2>0, <2>2, SentWinners DEF DrainUnsaved, Links, Rigs, chainVars
  <2>3. CASE DrainCutOff
    BY <1>0, <2>3, HangupKeeps DEF DrainCutOff
  <2> QED
    BY <2>1, <2>2, <2>3
<1> QED
  BY <1>0, <1>1, <1>2, <1>3, RigMoves

(* A lost link, or retired proofs that could not be written.               *)
(* A file without the proofs a job retires still has those that must stay. *)
LEMMA OnlyRetiredKeeps ==
  ASSUME IInv, running = "on", UNCHANGED chainVars,
         NEW job \in JobsOn(past), OnlyRetired(job)
  PROVE  Saved(past, txs)' /\ Owed' \subseteq disk' /\ Owed' \subseteq mem'
<1> DEFINE new == New(cur, found)
           next == Trimmed(mem \cup new)
<1>0. Owed \subseteq mem /\ Saved(past, txs)
  BY DEF IInv, Kept
<1>1. /\ mem' = mem /\ disk' = Retained(job)
      /\ Noted(new, next) /\ unsaved' = unsaved \cup new
  BY DEF OnlyRetired
<1>2. new \subseteq ProofsOn(past, txs) /\ disk' \subseteq mem
  BY <1>1, NewIsProof DEF Retained
<1> HIDE DEF new, next
<1>3. Saved(past, txs)'
  BY <1>0, <1>1, <1>2 DEF Saved, Noted, chainVars
<1>4. Owed' \subseteq Owed
  BY <1>1 DEF Owed, Noted, chainVars
<1>5. Owed \subseteq disk'
  BY <1>0, <1>1, RetiredIsSpent DEF Owed
<1> QED
  BY <1>0, <1>1, <1>3, <1>4, <1>5

LEMMA FailureKeeps == ASSUME IInv, ReceiveFails \/ LinkFails PROVE IInv'
<1>0. running = "on" /\ conn # 0 /\ UNCHANGED <<chainVars, hubVars>> /\ Hangup
  BY DEF ReceiveFails, LinkFails
<1>1. Saved(past, txs)' /\ Owed' \subseteq disk' /\ Owed' \subseteq mem'
  <2>1. CASE Records(cur, found) \/ RecordFails(cur, found)
    BY <1>0, <2>1, RecordsKeeps, RecordFailsKeeps
  <2>2. CASE ReceiveFails /\ OnlyRetired(Head(down))
    <3>1. Head(down) \in JobsOn(past)
      BY <2>2 DEF ReceiveFails, IInv, Links
    <3> QED
      BY <1>0, <2>2, <3>1, OnlyRetiredKeeps
  <2> QED
    BY <2>1, <2>2 DEF ReceiveFails, LinkFails
<1>2. Kept'
  BY <1>1 DEF Kept
<1> QED
  BY <1>0, <1>1, <1>2, HangupKeeps, RigMoves

LEMMA RestKeeps == ASSUME IInv, Resume \/ Crash \/ Restart PROVE IInv'
<1>0. Links(past, txs) /\ Rigs(past, txs) /\ Saved(past, txs) /\ Kept
  BY DEF IInv
<1>1. CASE Resume
  <2>1. Links(past, txs)' /\ Rigs(past, txs)'
    BY <1>0, <1>1 DEF Resume, Links, Rigs, linkVars, chainVars
  <2>2. Saved(past, txs)' /\ Kept'
    BY <1>0, <1>1 DEF Resume, Saved, Kept, Owed, history, chainVars
  <2> QED
    BY <1>1, <2>1, <2>2, RigMoves DEF Resume
<1>2. CASE Crash
  <2>1. Links(past, txs)' /\ Rigs(past, txs)'
    <3>1. CASE conn # 0
      BY <1>2, <3>1, HangupKeeps DEF Crash
    <3>2. CASE conn = 0
      BY <1>0, <1>2, <3>2 DEF Crash, Links, Rigs, linkVars, chainVars
    <3> QED
      BY <3>1, <3>2
  <2>2. Saved(past, txs)' /\ Kept'
    BY <1>0, <1>2 DEF Crash, Saved, Kept, Owed, history, chainVars
  <2> QED
    BY <1>2, <2>1, <2>2, RigMoves DEF Crash
<1>3. CASE Restart
  <2>1. Links(past, txs)' /\ Rigs(past, txs)'
    BY <1>0, <1>3 DEF Restart, Links, Rigs, linkVars, chainVars
  <2>2. Saved(past, txs)' /\ Kept'
    BY <1>0, <1>3 DEF Restart, Saved, Kept, Owed, history, chainVars
  <2> QED
    BY <1>3, <2>1, <2>2, RigMoves DEF Restart
<1> QED
  BY <1>1, <1>2, <1>3

---------------------------------------------------------------------------
LEMMA NextIInv == IInv /\ [Next]_vars => IInv'
<1> SUFFICES ASSUME IInv, [Next]_vars PROVE IInv'
  OBVIOUS
<1>1. CASE Block \/ OtherClaims
  BY <1>1, ChainKeeps
<1>2. CASE Window \/ SendJob
  BY <1>2, LinkKeeps
<1>3. ASSUME NEW c \in Coords, Publish(c) \/ TakeWinner(c) \/ Claim(c) \/ Connect(c)
      PROVE  IInv'
  BY <1>3, HubKeeps, ClaimKeeps
<1>4. CASE RigStep
  BY <1>4, ReceiveJobKeeps, FindKeeps, DrainKeeps, FailureKeeps, RestKeeps DEF RigStep
<1>5. CASE UNCHANGED vars
  <2>1. Links(past, txs)' /\ Rigs(past, txs)'
    BY <1>5 DEF IInv, Links, Rigs, vars, linkVars, rigVars, chainVars
  <2>2. Saved(past, txs)' /\ Kept'
    BY <1>5 DEF IInv, Saved, Kept, Owed, vars, rigVars, history, chainVars
  <2> QED
    BY <1>5, <2>1, <2>2, RigMoves DEF vars
<1> QED
  BY <1>1, <1>2, <1>3, <1>4, <1>5 DEF Next

(* The proof of a baton nobody has spent is in the rig's file, whichever   *)
(* coordinators the rig meets and whatever links, writes or processes      *)
(* fail, unless the full list let it go or it could not be written         *)
(* (PendingWinners::record and for_job).                                   *)
THEOREM RigKeepsProofs == Spec => []ProofIsKept
<1>1. IInv => ProofIsKept
  BY DEF IInv, Kept, Owed, ProofIsKept
<1> QED
  BY <1>1, InitIInv, NextIInv, PTL DEF Spec

---------------------------------------------------------------------------
(* The file within its limits.                                             *)

(* A list within MAX_WINNERS, with one proof for a work.                   *)
Fits(list) ==
  /\ IsFiniteSet(list) /\ Cardinality(list) <= MaxWinners
  /\ \A e, f \in list : e.work = f.work => e = f

LEMMA PartFits == ASSUME NEW S, NEW T, Fits(S), T \subseteq S PROVE Fits(T)
<1>1. /\ IsFiniteSet(T) /\ Cardinality(T) <= Cardinality(S)
      /\ Cardinality(T) \in Nat /\ Cardinality(S) \in Nat
  BY FS_Subset, FS_CardinalityType DEF Fits
<1> QED
  BY <1>1, CapsGiven DEF Fits

(* A list that is not empty has an oldest proof.                           *)
LEMMA OldestIsThere ==
  ASSUME NEW list \in SUBSET Proof, list # {}
  PROVE  Oldest(list) \in list
<1> DEFINE D == {e.digest : e \in list}
<1>1. D \subseteq Nat /\ D # {}
  BY DEF Proof
<1> HIDE DEF D
<1>2. \E x \in D : \A y \in D : ~(<<y, x>> \in OpToRel(<, Nat))
  BY <1>1, WFMin, NatLessThanWellFounded
<1>3. \E x \in D : \A y \in D : x <= y
  <2>1. PICK x \in D : \A y \in D : ~(<<y, x>> \in OpToRel(<, Nat))
    BY <1>2
  <2>2. ASSUME NEW y \in D PROVE x <= y
    <3>1. x \in Nat /\ y \in Nat /\ ~(y < x)
      BY <1>1, <2>1 DEF OpToRel
    <3> QED
      BY <3>1
  <2> QED
    BY <2>2
<1>4. \E e \in list : \A f \in list : e.digest <= f.digest
  BY <1>3 DEF D
<1> QED
  BY <1>4 DEF Oldest

(* record adds one proof at most, for a work without one.                  *)
LEMMA NewIsOne ==
  ASSUME NEW job, NEW S, NEW winners \in Seq(S), NEW d \in New(job, winners)
  PROVE  /\ New(job, winners) = {d} /\ d.work = job.work
         /\ \A e \in mem : e.work # job.work
<1>1. /\ \A e \in mem : e.work # job.work
      /\ New(job, winners) =
           {[work |-> job.work, digest |-> w.digest] :
              w \in FirstOf(winners, LAMBDA v : v.gen = job.gen /\ v.work = job.work)}
  BY DEF New
<1>2. \A v, w \in FirstOf(winners, LAMBDA u : u.gen = job.gen /\ u.work = job.work) : v = w
  <2> DEFINE Ok(k) == winners[k].gen = job.gen /\ winners[k].work = job.work
  <2>1. SUFFICES ASSUME NEW i \in DOMAIN winners, NEW k \in DOMAIN winners, Ok(i), Ok(k),
                        \A l \in 1..(i - 1) : ~Ok(l), \A l \in 1..(k - 1) : ~Ok(l)
                 PROVE  i = k
    BY DEF FirstOf
  <2>2. i \in Nat \ {0} /\ k \in Nat \ {0}
    OBVIOUS
  <2> HIDE DEF Ok
  <2>3. ~(i < k) /\ ~(k < i)
    BY <2>1, <2>2
  <2> QED
    BY <2>2, <2>3
<1>3. PICK w \in FirstOf(winners, LAMBDA u : u.gen = job.gen /\ u.work = job.work) :
        d = [work |-> job.work, digest |-> w.digest]
  BY <1>1
<1>4. New(job, winners) = {[work |-> job.work, digest |-> w.digest]}
  BY <1>1, <1>2
<1> QED
  BY <1>1, <1>3, <1>4

(* What record writes fits.                                                *)
LEMMA RecordFits ==
  ASSUME NEW job, NEW S, NEW winners \in Seq(S), New(job, winners) \subseteq Proof,
         mem \subseteq Proof, Fits(mem)
  PROVE  Fits(Trimmed(mem \cup New(job, winners)))
<1> DEFINE new == New(job, winners)
           list == mem \cup new
<1>1. CASE new = {}
  BY <1>1, TrimmedIsPart, PartFits
<1>2. CASE new # {}
  <2>1. PICK d \in new : TRUE
    BY <1>2
  <2>2. new = {d} /\ d.work = job.work /\ \A e \in mem : e.work # job.work
    BY <2>1, NewIsOne
  <2>3. list = mem \cup {d} /\ d \notin mem /\ list \in SUBSET Proof /\ list # {}
    BY <2>2
  <2>4. /\ IsFiniteSet(list) /\ Cardinality(list) = Cardinality(mem) + 1
        /\ Cardinality(mem) \in Nat /\ Cardinality(mem) <= MaxWinners
    BY <2>3, FS_AddElement, FS_CardinalityType DEF Fits
  <2>5. \A e, f \in list : e.work = f.work => e = f
    BY <2>2, <2>3 DEF Fits
  <2>6. /\ IsFiniteSet(list \ {Oldest(list)})
        /\ Cardinality(list \ {Oldest(list)}) = Cardinality(list) - 1
    BY <2>3, <2>4, OldestIsThere, FS_RemoveElement
  <2> HIDE DEF list
  <2>7. Fits(Trimmed(list))
    BY <2>4, <2>5, <2>6, CapsGiven DEF Trimmed, Fits
  <2> QED
    BY <2>7 DEF list
<1> QED
  BY <1>1, <1>2

LEMMA EmptyFits == Fits({})
  BY FS_EmptySet, CapsGiven DEF Fits

(* The rest of the types.                                                  *)
Counts == jobs \in Nat /\ windows \in Nat /\ faults \in Nat
Flags ==
  /\ sent \in {"none", "own", "fee"} /\ running \in {"on", "crashed", "failed"}
  /\ paused \in BOOLEAN
History == refused \subseteq Nat /\ dropped \subseteq Proof /\ unsaved \subseteq Proof
TInv == IInv /\ Fits(mem) /\ Fits(disk) /\ Counts /\ Flags /\ History

(* The file and the history after a record, written or not.                *)
LEMMA RecordsFit ==
  ASSUME TInv, NEW job,
         Records(cur, found) \/ RecordFails(cur, found) \/ OnlyRetired(job)
  PROVE  Fits(mem') /\ Fits(disk') /\ dropped' \subseteq Proof /\ unsaved' \subseteq Proof
<1> DEFINE new == New(cur, found)
           next == Trimmed(mem \cup new)
<1>0. /\ mem \subseteq Proof /\ found \in Seq(WinnersOn(past, txs))
      /\ Fits(mem) /\ Fits(disk) /\ dropped \subseteq Proof /\ unsaved \subseteq Proof
  BY DEF TInv, IInv, Saved, Rigs, ProofsOn, History
<1>1. new \subseteq Proof
  BY NewIsProof DEF TInv, ProofsOn
<1>2. Fits(next)
  BY <1>0, <1>1, RecordFits
<1>3. \/ UNCHANGED <<mem, disk, history>>
      \/ /\ mem' \in {mem, next} /\ disk' \in {disk, next, Retained(job)}
         /\ Noted(new, next) /\ unsaved' \in {unsaved, unsaved \cup new}
  BY DEF Records, RecordFails, OnlyRetired
<1>4. Fits(Retained(job))
  BY <1>0, PartFits DEF Retained
<1> HIDE DEF new, next
<1> QED
  BY <1>0, <1>1, <1>2, <1>3, <1>4 DEF Noted, history

LEMMA FitsKept == ASSUME TInv, [Next]_vars PROVE Fits(mem') /\ Fits(disk')
<1>0. Fits(mem) /\ Fits(disk)
  BY DEF TInv
<1>1. CASE UNCHANGED <<mem, disk>>
  BY <1>0, <1>1
<1>2. CASE ReceiveJob
  <2>1. mem' \subseteq mem /\ disk' \in {disk, mem'}
    BY <1>2 DEF ReceiveJob, Retained
  <2> QED
    BY <1>0, <2>1, PartFits
<1>3. CASE \/ Records(cur, found) \/ RecordFails(cur, found)
           \/ OnlyRetired(Head(down))
  BY <1>3, RecordsFit
<1>4. CASE Crash \/ Restart
  BY <1>0, <1>4, EmptyFits DEF Crash, Restart
<1>5. CASE ReceiveFails \/ Drain \/ DrainUnsaved \/ DrainCutOff \/ LinkFails
  BY <1>3, <1>5 DEF ReceiveFails, Drain, DrainUnsaved, DrainCutOff, LinkFails
<1>6. CASE \/ Block \/ OtherClaims \/ Window \/ SendJob \/ Find \/ Resume
           \/ UNCHANGED vars
  BY <1>1, <1>6 DEF Block, OtherClaims, Window, SendJob, Find, Resume, vars, rigVars
<1>7. ASSUME NEW c \in Coords, Publish(c) \/ TakeWinner(c) \/ Claim(c) \/ Connect(c)
      PROVE  Fits(mem') /\ Fits(disk')
  BY <1>1, <1>7 DEF Publish, TakeWinner, Claim, Connect, rigVars
<1> QED
  BY <1>2, <1>4, <1>5, <1>6, <1>7 DEF Next, RigStep

LEMMA CountsKept == ASSUME TInv, [Next]_vars PROVE Counts'
<1>0. Counts
  BY DEF TInv
<1>1. CASE \/ Block \/ OtherClaims \/ Window \/ SendJob \/ UNCHANGED vars
  BY <1>0, <1>1
     DEF Block, OtherClaims, Window, SendJob, vars, hubVars, linkVars, Counts
<1>2. ASSUME NEW c \in Coords, Publish(c) \/ TakeWinner(c) \/ Claim(c) \/ Connect(c)
      PROVE  Counts'
  <2>1. /\ faults' \in {faults, faults + 1} /\ jobs' \in {jobs, jobs + 1}
        /\ windows' = windows
    <3>1. CASE Publish(c)
      BY <3>1 DEF Publish
    <3>2. CASE TakeWinner(c)
      BY <3>2 DEF TakeWinner
    <3>3. CASE Claim(c)
      BY <3>3 DEF Claim, linkVars
    <3>4. CASE Connect(c)
      BY <3>4 DEF Connect, Fault, hubVars
    <3> QED
      BY <1>2, <3>1, <3>2, <3>3, <3>4
  <2> QED
    BY <1>0, <2>1 DEF Counts
<1>3. CASE ReceiveJob \/ Find \/ Drain \/ Resume \/ Restart
  BY <1>0, <1>3
     DEF ReceiveJob, Find, Drain, Resume, Restart, hubVars, linkVars, Counts
<1>4. CASE ReceiveFails \/ DrainUnsaved \/ DrainCutOff \/ LinkFails \/ Crash
  <2>1. /\ faults' = faults + 1 /\ UNCHANGED <<jobs, windows>>
    <3>1. CASE ReceiveFails
      BY <3>1 DEF ReceiveFails, Hangup, Fault, hubVars, linkVars
    <3>4. CASE Crash
      BY <3>4 DEF Crash, Hangup, Fault, hubVars, linkVars
    <3>2. CASE DrainUnsaved
      BY <3>2 DEF DrainUnsaved, Fault, hubVars, linkVars
    <3>3. CASE DrainCutOff \/ LinkFails
      BY <3>3 DEF DrainCutOff, LinkFails, Hangup, Fault, hubVars
    <3> QED
      BY <1>4, <3>1, <3>2, <3>3, <3>4
  <2> QED
    BY <1>0, <2>1 DEF Counts
<1> QED
  BY <1>1, <1>2, <1>3, <1>4 DEF Next, RigStep

LEMMA FlagsKept == ASSUME TInv, [Next]_vars PROVE Flags'
<1>0. Flags /\ window \in {"own", "fee"}
  BY DEF TInv, IInv, Links
<1>1. CASE \/ Block \/ OtherClaims \/ Window \/ SendJob \/ UNCHANGED vars
  BY <1>0, <1>1
     DEF Block, OtherClaims, Window, SendJob, vars, linkVars, rigVars, Flags
<1>2. ASSUME NEW c \in Coords, Publish(c) \/ TakeWinner(c) \/ Claim(c) \/ Connect(c)
      PROVE  Flags'
  BY <1>0, <1>2 DEF Publish, TakeWinner, Claim, Connect, linkVars, rigVars, Flags
<1>3. CASE ReceiveJob \/ Find \/ Drain \/ Resume \/ Restart
  BY <1>0, <1>3 DEF ReceiveJob, Resend, Find, Drain, Resume, Restart, linkVars, Flags
<1>4. CASE ReceiveFails \/ DrainUnsaved \/ DrainCutOff \/ LinkFails \/ Crash
  BY <1>0, <1>4
     DEF ReceiveFails, DrainUnsaved, DrainCutOff, LinkFails, Crash, Hangup,
         linkVars, Flags
<1> QED
  BY <1>1, <1>2, <1>3, <1>4 DEF Next, RigStep

LEMMA HistoryKept == ASSUME TInv, [Next]_vars PROVE History'
<1>0. History
  BY DEF TInv
<1>1. CASE UNCHANGED <<refused, history>>
  BY <1>0, <1>1 DEF History, history
<1>2. CASE /\ UNCHANGED refused
           /\ \/ Records(cur, found) \/ RecordFails(cur, found)
              \/ OnlyRetired(Head(down))
  BY <1>0, <1>2, RecordsFit DEF History
<1>3. ASSUME NEW c \in Coords, TakeWinner(c) PROVE History'
  <2>1. Head(up[c]) \in WinnersOn(past, txs)
    <3>1. up[c] # <<>> /\ up[c] \in Seq(WinnersOn(past, txs))
      BY <1>3 DEF TakeWinner, TInv, IInv, Links
    <3> QED
      BY <3>1
  <2>2. Head(up[c]).digest \in Nat
    BY <2>1 DEF WinnersOn, Winner
  <2>3. UNCHANGED history /\ refused' \in {refused, refused \cup {Head(up[c]).digest}}
    BY <1>3 DEF TakeWinner, Queue
  <2> QED
    BY <1>0, <2>2, <2>3 DEF History, history
<1>4. CASE ReceiveFails \/ Drain \/ DrainUnsaved \/ DrainCutOff \/ LinkFails
  BY <1>2, <1>4
     DEF ReceiveFails, Drain, DrainUnsaved, DrainCutOff, LinkFails, hubVars
<1>5. CASE \/ Block \/ OtherClaims \/ Window \/ SendJob \/ ReceiveJob \/ Find
           \/ Resume \/ Crash \/ Restart \/ UNCHANGED vars
  BY <1>1, <1>5
     DEF Block, OtherClaims, Window, SendJob, ReceiveJob, Find, Resume, Crash,
         Restart, vars, hubVars
<1>6. ASSUME NEW c \in Coords, Publish(c) \/ Claim(c) \/ Connect(c) PROVE History'
  BY <1>1, <1>6 DEF Publish, Claim, Connect, hubVars
<1> QED
  BY <1>3, <1>4, <1>5, <1>6 DEF Next, RigStep

(* Every state is well typed; the rig's file never has more proofs than    *)
(* MAX_WINNERS, where commit and open would refuse it, and never two of    *)
(* one work (PendingWinners::record, for_job, commit and open).            *)
THEOREM FileWithinLimits == Spec => []TypeOK
<1>1. Init => TInv
  <2> SUFFICES ASSUME Init PROVE TInv
    OBVIOUS
  <2>1. IInv
    BY InitIInv
  <2>2. Fits(mem) /\ Fits(disk)
    BY EmptyFits DEF Init
  <2>3. Counts /\ Flags /\ History
    BY DEF Init, Counts, Flags, History
  <2> QED
    BY <2>1, <2>2, <2>3 DEF TInv
<1>2. TInv /\ [Next]_vars => TInv'
  <2> SUFFICES ASSUME TInv, [Next]_vars PROVE TInv'
    OBVIOUS
  <2>1. IInv'
    BY NextIInv DEF TInv
  <2>2. (Fits(mem) /\ Fits(disk))'
    BY FitsKept DEF Fits
  <2> QED
    BY <2>1, <2>2, CountsKept, FlagsKept, HistoryKept DEF TInv
<1>3. TInv => TypeOK
  <2> SUFFICES ASSUME TInv PROVE TypeOK
    OBVIOUS
  <2>1. /\ tip \in Place /\ past \subseteq Place /\ txs \in Nat
    BY DEF TInv, IInv, Chain
  <2>2. /\ posted \in [Coords -> [gen : Nat, at : Place]]
    BY <2>1 DEF TInv, IInv, Hubs
  <2>3. /\ Seq(WinnersOn(past, txs)) \subseteq Seq(Winner)
        /\ Seq(JobsOn(past)) \subseteq Seq(Job)
    BY SeqsGrow DEF WinnersOn, JobsOn
  <2>4. /\ queue \in [Coords -> Seq(Winner)] /\ up \in [Coords -> Seq(Winner)]
        /\ down \in Seq(Job) /\ found \in Seq(Winner) /\ cur \in Job
    BY <2>3 DEF TInv, IInv, Hubs, Links, Rigs, JobsOn
  <2>5. {mem, disk, proofs, dropped, unsaved} \subseteq SUBSET Proof
    BY DEF TInv, IInv, Saved, ProofsOn, History
  <2>6. \A list \in {mem, disk} : /\ Cardinality(list) <= MaxWinners
                                  /\ \A e, f \in list : e.work = f.work => e = f
    BY DEF TInv, Fits
  <2> QED
    BY <2>1, <2>2, <2>4, <2>5, <2>6
       DEF TypeOK, TInv, IInv, Links, Counts, Flags, History
<1> QED
  BY <1>1, <1>2, <1>3, PTL DEF Spec

=============================================================================
