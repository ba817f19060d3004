--------------------------- MODULE ClaimJournal ---------------------------
(***************************************************************************)
(* The durable PHOTON claim of the live mining runtime (runtime.rs).       *)
(*                                                                         *)
(* A winner spends the live baton in one transaction, the claim (the       *)
(* "parent" of the code).  The claim is journaled before it is sent; two   *)
(* marker files beside the journal remember that it was sent and that it   *)
(* was accepted; a resolution record is written before the three files go. *)
(* The process may stop between any two of those steps, and the server it  *)
(* asks may be another one after every reconnection, one that has seen     *)
(* less of the network than the one before.                                *)
(*                                                                         *)
(* A baton is named after the transaction that made it.                    *)
(***************************************************************************)
EXTENDS Integers, Sequences, FiniteSets

CONSTANTS
  Claims,     \* claims this miner can build, numbered as they come
  Rivals,     \* claims of the other miners, numbered as they come
  Genesis,    \* the baton the run begins with
  None,       \* no file, no answer
  LineageSteps, \* BATON_LINEAGE_MAX_STEPS: how far a walk back may go
  MaxFaults   \* bound: crashes, failed writes and lost messages of a run

ASSUME NamesDiffer ==
  /\ Claims \cap Rivals = {}
  /\ Genesis \notin Claims \cup Rivals
  /\ None \notin Claims \cup Rivals \cup {Genesis}
ASSUME FaultsCount == MaxFaults \in Nat
ASSUME StepsCount == LineageSteps \in Nat

Batons == Claims \cup Rivals \cup {Genesis}

VARIABLES
  chain,      \* the batons the network made, oldest first
  floor,      \* how many of them every server lists
  view,       \* how many of them the connected server lists
  air,        \* claims with a copy on its way to the network
  spends,     \* the baton a claim spends, None before it is built
  journal,    \* pending-reward.json: the claim it holds
  attempted,  \* .parent-attempted: the claim it names
  accepted,   \* .parent-accepted: the claim it names
  record,     \* .resolved: the claim and the reason of its resolution
  pc,         \* where the runtime is
  ctx,        \* "start" before the search exists, "claim" in the supervisor
  live,       \* the baton being mined
  unindexed,  \* batons this miner spent less than the grace period ago
  grace,      \* history: those of them no indexer view has settled since
  known,      \* the server's answer to "is the claim known?"
  fresh,      \* the server's answer to "which baton is live?"
  sent,       \* history: claims handed to the network
  settled,    \* history: claims with a resolution written at some time
  faults      \* faults of the run so far

network == <<chain, floor, air>>
files   == <<journal, attempted, accepted, record>>
spent   == <<unindexed, grace>>
memory  == <<pc, ctx, live, spent, known, fresh>>
history == <<sent, settled, faults>>
vars    == <<network, view, spends, files, memory, history>>

NoRecord == [claim |-> None, reason |-> "none"]
Reasons  == {"confirmed", "conflicted", "stale-unbroadcast"}

Made       == {chain[i] : i \in 1..Len(chain)}
InChain(b) == b \in Made
Tip        == chain[Len(chain)]

(* The live baton of the connected server (fetch_live_job).                *)
Listed     == chain[view]

(* prove_baton_descends_from: the walk from the live baton back through    *)
(* first inputs meets the claim.  A walk that is too long is an error,     *)
(* and ends the attempt as a lineage without the claim does.               *)
DescendsFrom(b, c) ==
  \E i, j \in 1..Len(chain) :
    i <= j /\ j <= i + LineageSteps /\ chain[i] = c /\ chain[j] = b

(* indexer_lags: the server lists a baton this miner just spent.  Only the *)
(* supervisor keeps such a list.                                           *)
IndexerLags(b) == ctx = "claim" /\ b \in unindexed

Init ==
  /\ chain = <<Genesis>> /\ floor = 1 /\ view = 1 /\ air = {}
  /\ spends = [c \in Claims |-> None]
  /\ journal = None /\ attempted = None /\ accepted = None
  /\ record = NoRecord
  /\ pc = "down" /\ ctx = "start" /\ live = None
  /\ unindexed = {} /\ grace = {}
  /\ known = FALSE /\ fresh = None
  /\ sent = {} /\ settled = {} /\ faults = 0

---------------------------------------------------------------------------
(* The network, outside the program.                                       *)

(* Another miner's claim takes the newest baton.                           *)
RivalClaims(r) ==
  /\ ~InChain(r) /\ \A q \in Rivals : q < r => InChain(q)
  /\ chain' = Append(chain, r)
  /\ UNCHANGED <<floor, air, view, spends, files, memory, history>>

(* A copy of a claim arrives.  A node accepts it only if the baton it      *)
(* spends is still unspent; a copy that comes later changes nothing.       *)
Arrives(c) ==
  /\ c \in air
  /\ air' = air \ {c}
  /\ chain' = IF spends[c] = Tip THEN Append(chain, c) ELSE chain
  /\ UNCHANGED <<floor, view, spends, files, memory, history>>

Lost(c) ==
  /\ c \in air /\ faults < MaxFaults
  /\ air' = air \ {c} /\ faults' = faults + 1
  /\ UNCHANGED <<chain, floor, view, spends, files, memory, sent, settled>>

(* Servers learn of the network's transactions one by one.                 *)
ServersCatchUp ==
  /\ floor < Len(chain)
  /\ floor' = floor + 1
  /\ view' = IF view < floor + 1 THEN floor + 1 ELSE view
  /\ UNCHANGED <<chain, air, spends, files, memory, history>>

ServerCatchesUp ==
  /\ view < Len(chain)
  /\ view' = view + 1
  /\ UNCHANGED <<network, spends, files, memory, history>>

---------------------------------------------------------------------------
(* The runtime.                                                            *)

Goto(p) == pc' = p

Fault == faults < MaxFaults /\ faults' = faults + 1

(* UnindexedSpends::clear, when the indexer's view is authoritative again. *)
ForgetSpends == unindexed' = {} /\ grace' = {}

(* The process is gone; what it knew is gone with it.                      *)
Halt ==
  /\ Goto("down") /\ ctx' = "start" /\ live' = None /\ ForgetSpends
  /\ known' = FALSE /\ fresh' = None
  /\ UNCHANGED view

(* A session with some server: it lists at least what every server lists.  *)
Connect == view' \in floor..Len(chain)

(* An error leaves an attempt.  Before the search exists it fails the      *)
(* start; in the supervisor it drops the session, and the attempt is made  *)
(* again over the next one.                                                *)
GiveUp ==
  \/ ctx = "start" /\ Halt
  \/ /\ ctx = "claim"
     /\ Goto("try") /\ Connect /\ known' = FALSE /\ fresh' = None
     /\ UNCHANGED <<ctx, live, spent>>

(* Any step that touches a file or the network may fail and change nothing.*)
StepFails ==
  /\ pc \in {"mark", "send", "ask", "look", "accept", "resolve", "stale", "remove"}
  /\ Fault /\ GiveUp
  /\ UNCHANGED <<network, spends, files, sent, settled>>

(* The process ends: it is killed, it crashes or the operator stops it.    *)
Crash ==
  /\ pc # "down"
  /\ Fault /\ Halt
  /\ UNCHANGED <<network, spends, files, sent, settled>>

(* Mutant: a start without a journal attempts a claim all the same.        *)
StartTries ==
  /\ pc = "down"
  /\ Connect
  /\ Goto("try")
  /\ UNCHANGED <<network, spends, files, ctx, live, spent, known, fresh, history>>

(* start_on_gpus connects; resolve_pending_before_search loads the journal.*)
Start ==
  /\ pc = "down"
  /\ Connect
  /\ Goto(IF journal = None THEN "begin" ELSE "try")
  /\ UNCHANGED <<network, spends, files, ctx, live, spent, known, fresh, history>>

(* The first job.  production_preflight refuses to start beside a journal  *)
(* or a marker.                                                            *)
BeginMining ==
  /\ pc = "begin"
  /\ IF journal = None /\ attempted = None /\ accepted = None
       THEN /\ Goto("mine") /\ ctx' = "claim" /\ live' = Listed
            /\ UNCHANGED <<view, spent, known, fresh>>
       ELSE Halt
  /\ UNCHANGED <<network, spends, files, history>>

(* The server's live baton, read with no claim open.  A baton this miner   *)
(* just spent is not mined again: the indexer is behind.  Installing any   *)
(* other (apply_refreshed_job) may fail, and then the session is dropped.  *)
TakeListed ==
  /\ Connect
  /\ \/ /\ IndexerLags(chain[view'])
        /\ Goto("mine") /\ UNCHANGED <<live, spent, faults>>
     \/ /\ ~IndexerLags(chain[view'])
        /\ ForgetSpends
        /\ \/ Goto("mine") /\ live' = chain[view'] /\ UNCHANGED faults
           \/ Goto("drop") /\ Fault /\ UNCHANGED live
  /\ UNCHANGED <<network, spends, files, ctx, known, fresh, sent, settled>>

(* A state refresh or a reconnection.                                      *)
Refresh == pc = "mine" /\ TakeListed

(* The grace period of a spend ends.                                       *)
GraceEnds(b) ==
  /\ b \in grace
  /\ unindexed' = unindexed \ {b} /\ grace' = grace \ {b}
  /\ UNCHANGED <<network, view, spends, files, pc, ctx, live, known, fresh, history>>

(* The forced refresh that drains the winner queue takes the live job for  *)
(* the indexer's answer, and so empties the list of spends.                *)
ForcedRefresh ==
  /\ unindexed' = IF IndexerLags(live) THEN unindexed ELSE {}
  /\ UNCHANGED grace

(* The queue held winners of earlier generations only.                     *)
DrainStale ==
  /\ pc = "mine" /\ ForcedRefresh
  /\ UNCHANGED <<network, view, spends, files, pc, ctx, live, known, fresh, history>>

(* prepare_submission_for_network: a winner on the live baton becomes a    *)
(* claim, and persist_new commits its journal.                             *)
Prepare(c) ==
  /\ pc = "mine" /\ spends[c] = None /\ \A d \in Claims : d < c => spends[d] # None
  /\ journal = None /\ attempted = None /\ accepted = None
  /\ spends' = [spends EXCEPT ![c] = live]
  /\ journal' = c
  /\ ForcedRefresh
  /\ Goto("held")
  /\ UNCHANGED <<network, view, attempted, accepted, record, ctx, live, known,
                 fresh, history>>

(* begin_successor_generation: the GPUs turn to the baton the claim makes, *)
(* or stay where they are if the new job cannot be installed.              *)
BeginSuccessor ==
  /\ pc = "held"
  /\ Goto("try")
  /\ \/ /\ live' = journal
        /\ unindexed' = unindexed \cup {spends[journal]}
        /\ grace' = grace \cup {spends[journal]}
     \/ UNCHANGED <<live, spent>>
  /\ UNCHANGED <<network, view, spends, files, ctx, known, fresh, history>>

(* Mutant: the supervisor sends without the durable marker.                *)
TryUnmarked ==
  /\ pc = "try"
  /\ Goto(IF ctx = "claim" /\ attempted # journal THEN "send" ELSE "ask")
  /\ UNCHANGED <<network, view, spends, files, ctx, live, spent, known, fresh, history>>

(* attempt_parent_only_submission.  In the supervisor a claim that was     *)
(* never sent is sent at once; in all other cases the server is asked.     *)
Try ==
  /\ pc = "try"
  /\ Goto(IF ctx = "claim" /\ attempted # journal THEN "mark" ELSE "ask")
  /\ UNCHANGED <<network, view, spends, files, ctx, live, spent, known, fresh, history>>

(* mark_parent_attempted, after the node's preflight.                      *)
MarkAttempted ==
  /\ pc = "mark"
  /\ attempted' = journal
  /\ Goto("send")
  /\ UNCHANGED <<network, view, spends, journal, accepted, record, ctx, live,
                 spent, known, fresh, history>>

(* The claim goes to the session's server and to the relay's.              *)
Send ==
  /\ pc = "send"
  /\ air' = air \cup {journal}
  /\ sent' = sent \cup {journal}
  /\ Goto("sent")
  /\ UNCHANGED <<chain, floor, view, spends, files, ctx, live, spent,
                 known, fresh, settled, faults>>

(* The server took the claim: it returns the txid, or, to the supervisor,  *)
(* says that it already has it.                                            *)
ReplyAccepted ==
  /\ pc = "sent" /\ InChain(journal)
  /\ known' = TRUE
  /\ Goto("accept")
  /\ UNCHANGED <<network, view, spends, files, ctx, live, spent, fresh, history>>

(* Mutant: every broadcast error is taken for "already known".             *)
AnyErrorIsKnown ==
  /\ pc = "sent"
  /\ known' = TRUE
  /\ Goto("accept")
  /\ UNCHANGED <<network, view, spends, files, ctx, live, spent, fresh, history>>

(* The server refuses the claim, which lost its baton, or no answer comes. *)
(* The supervisor looks at the server's state; a start fails, even on the  *)
(* answer that the server already has the claim.                           *)
ReplyRefused ==
  /\ pc = "sent"
  /\ \/ /\ ctx = "start" \/ ~InChain(journal)
        /\ spends[journal] # Tip \/ journal \notin air
        /\ UNCHANGED faults
     \/ Fault
  /\ \/ ctx = "claim" /\ Goto("ask") /\ UNCHANGED <<view, ctx, live, spent, known, fresh>>
     \/ ctx = "start" /\ Halt
  /\ UNCHANGED <<network, spends, files, sent, settled>>

(* transaction_known.  A server can hold a claim it does not list yet.     *)
Ask ==
  /\ pc = "ask"
  /\ \E k \in view..Len(chain) : known' = (\E i \in 1..k : chain[i] = journal)
  /\ Goto("look")
  /\ UNCHANGED <<network, view, spends, files, ctx, live, spent, fresh, history>>

(* The baton the claim spends is listed no more, and not for lack of       *)
(* indexing.                                                               *)
BatonMoved(b) == b # spends[journal] /\ ~IndexerLags(b)

(* Mutant: a claim that was sent and is still unknown is sent again.       *)
LookSendsAgain ==
  /\ pc = "look"
  /\ LET isKnown == known \/ Listed = journal
     IN  \/ /\ isKnown
            /\ Goto(IF accepted = journal THEN "settle" ELSE "accept")
            /\ fresh' = Listed
         \/ /\ ~isKnown /\ BatonMoved(Listed)
            /\ Goto("stale") /\ fresh' = Listed
         \/ /\ ~isKnown /\ ~BatonMoved(Listed)
            /\ Goto("mark") /\ UNCHANGED fresh
  /\ UNCHANGED <<network, view, spends, files, ctx, live, spent, known, history>>

(* fetch_live_job, and what follows from both answers: the claim is known, *)
(* or it lost its baton, or it may be sent, or nothing can be said yet.    *)
(* A claim that was sent is not sent again.                                *)
Look ==
  /\ pc = "look"
  /\ LET isKnown == known \/ Listed = journal
     IN  \/ /\ isKnown
            /\ Goto(IF accepted = journal THEN "settle" ELSE "accept")
            /\ fresh' = Listed
            /\ UNCHANGED <<view, ctx, live, spent, known>>
         \/ /\ ~isKnown /\ BatonMoved(Listed)
            /\ Goto("stale") /\ fresh' = Listed
            /\ UNCHANGED <<view, ctx, live, spent, known>>
         \/ /\ ~isKnown /\ ~BatonMoved(Listed) /\ attempted # journal
            /\ Goto("mark")
            /\ UNCHANGED <<view, ctx, live, spent, known, fresh>>
         \/ /\ ~isKnown /\ ~BatonMoved(Listed) /\ attempted = journal
            /\ GiveUp
  /\ UNCHANGED <<network, spends, files, history>>

(* mark_parent_accepted writes the attempted marker first if it is not     *)
(* there.  After a broadcast of its own the supervisor needs no other      *)
(* answer: the next job is the baton the claim made.                       *)
MarkAccepted ==
  /\ pc = "accept"
  /\ IF attempted # journal
       THEN /\ attempted' = journal
            /\ UNCHANGED <<accepted, pc, fresh>>
       ELSE /\ accepted' = journal
            /\ UNCHANGED attempted
            /\ \/ fresh # None /\ Goto("settle") /\ UNCHANGED fresh
               \/ fresh = None /\ ctx = "claim" /\ Goto("resolve") /\ fresh' = journal
               \/ fresh = None /\ ctx = "start" /\ Goto("look") /\ UNCHANGED fresh
  /\ UNCHANGED <<network, view, spends, journal, record, ctx, live, spent,
                 known, history>>

(* Mutant: a live baton further down the lineage does not count.           *)
SettleOnOwnBaton ==
  /\ pc = "settle"
  /\ \/ /\ ~BatonMoved(fresh) /\ ctx = "claim"
        /\ Goto("resolve") /\ fresh' = journal
        /\ UNCHANGED <<view, ctx, live, spent, known>>
     \/ /\ ~BatonMoved(fresh) /\ ctx = "start"
        /\ Goto("try") /\ known' = FALSE /\ fresh' = None
        /\ UNCHANGED <<view, ctx, live, spent>>
     \/ /\ BatonMoved(fresh) /\ fresh = journal
        /\ Goto("resolve")
        /\ UNCHANGED <<view, ctx, live, spent, known, fresh>>
     \/ /\ BatonMoved(fresh) /\ fresh # journal
        /\ GiveUp
  /\ UNCHANGED <<network, spends, files, history>>

(* The claim is accepted; which job follows it?  A start waits for the     *)
(* server to list the claim or a descendant of it.                         *)
Settle ==
  /\ pc = "settle"
  /\ \/ /\ ~BatonMoved(fresh) /\ ctx = "claim"
        /\ Goto("resolve") /\ fresh' = journal
        /\ UNCHANGED <<view, ctx, live, spent, known>>
     \/ /\ ~BatonMoved(fresh) /\ ctx = "start"
        /\ Goto("try") /\ known' = FALSE /\ fresh' = None
        /\ UNCHANGED <<view, ctx, live, spent>>
     \/ /\ BatonMoved(fresh) /\ DescendsFrom(fresh, journal)
        /\ Goto("resolve")
        /\ UNCHANGED <<view, ctx, live, spent, known, fresh>>
     \/ /\ BatonMoved(fresh) /\ ~DescendsFrom(fresh, journal)
        /\ GiveUp
  /\ UNCHANGED <<network, spends, files, history>>

(* from_confirmed, from_stale.                                             *)
Resolution ==
  [claim  |-> journal,
   reason |-> IF pc = "resolve" THEN "confirmed"
              ELSE IF attempted = journal THEN "conflicted"
              ELSE "stale-unbroadcast"]

(* persist_latest removes the record it replaces, then renames the new one *)
(* into place.                                                             *)
EraseRecord ==
  /\ pc \in {"resolve", "stale"} /\ record # NoRecord
  /\ record' = NoRecord
  /\ UNCHANGED <<network, view, spends, journal, attempted, accepted, memory, history>>

(* Mutant: the files go without a record.                                  *)
SkipRecord ==
  /\ pc \in {"resolve", "stale"}
  /\ settled' = settled \cup {journal}
  /\ Goto("remove")
  /\ UNCHANGED <<network, view, spends, files, ctx, live, spent, known,
                 fresh, sent, faults>>

WriteRecord ==
  /\ pc \in {"resolve", "stale"} /\ record \in {NoRecord, Resolution}
  /\ record' = Resolution
  /\ settled' = settled \cup {journal}
  /\ Goto("remove")
  /\ UNCHANGED <<network, view, spends, journal, attempted, accepted, ctx,
                 live, spent, known, fresh, sent, faults>>

(* PendingSubmission::remove: the markers go before the journal.           *)
RemoveMarkers ==
  /\ pc = "remove"
  /\ \/ accepted # None /\ accepted' = None /\ UNCHANGED attempted
     \/ accepted = None /\ attempted # None /\ attempted' = None /\ UNCHANGED accepted
  /\ UNCHANGED <<network, view, spends, journal, record, memory, history>>

(* Mutant: the journal goes before its markers.                            *)
JournalFirst ==
  /\ pc = "remove"
  /\ journal' = None
  /\ known' = FALSE /\ fresh' = None
  /\ IF record.reason = "confirmed" THEN UNCHANGED spent ELSE ForgetSpends
  /\ \/ ctx = "start" /\ Goto("begin") /\ UNCHANGED live
     \/ ctx = "claim" /\ Goto("mine") /\ live' = fresh
  /\ UNCHANGED <<network, view, spends, attempted, accepted, record, ctx, history>>

(* Mutant: the successor job outlives the claim whether or not it failed.  *)
SuccessorStays ==
  /\ pc = "remove" /\ accepted = None /\ attempted = None
  /\ journal' = None
  /\ known' = FALSE /\ fresh' = None
  /\ Goto(IF ctx = "start" THEN "begin" ELSE "mine")
  /\ UNCHANGED <<network, view, spends, attempted, accepted, record, ctx, live,
                 spent, history>>

(* The journal goes.  The supervisor installs the next job; if that fails  *)
(* it keeps the job it has and drops the session.                          *)
RemoveJournal ==
  /\ pc = "remove" /\ accepted = None /\ attempted = None
  /\ journal' = None
  /\ known' = FALSE /\ fresh' = None
  /\ IF record.reason = "confirmed" THEN UNCHANGED spent ELSE ForgetSpends
  /\ \/ /\ ctx = "start" /\ Goto("begin") /\ UNCHANGED <<live, faults>>
     \/ /\ ctx = "claim" /\ Goto("mine") /\ live' = fresh /\ UNCHANGED faults
     \/ /\ ctx = "claim" /\ Goto("drop") /\ Fault /\ UNCHANGED live
  /\ UNCHANGED <<network, view, spends, attempted, accepted, record, ctx, sent, settled>>

(* The supervisor reconnects with no claim open.                           *)
Reconnect == pc = "drop" /\ TakeListed

Network ==
  \/ \E r \in Rivals : RivalClaims(r)
  \/ \E c \in Claims : Arrives(c) \/ Lost(c)
  \/ ServersCatchUp
  \/ ServerCatchesUp

(* What the runtime does of itself, faults aside.                          *)
Works ==
  \/ BeginMining \/ BeginSuccessor \/ Try \/ MarkAttempted \/ Send
  \/ ReplyAccepted \/ ReplyRefused \/ Ask \/ Look \/ MarkAccepted \/ Settle
  \/ EraseRecord \/ WriteRecord \/ RemoveMarkers \/ RemoveJournal \/ Reconnect

Next ==
  \/ Network
  \/ Start \/ Works \/ Refresh \/ DrainStale
  \/ \E b \in Batons : GraceEnds(b)
  \/ \E c \in Claims : Prepare(c)
  \/ StepFails \/ Crash

Spec == Init /\ [][Next]_vars

(* The loops of the runtime keep turning, a stopped miner is started       *)
(* again, a copy on its way arrives or is lost, and servers learn of every *)
(* transaction in the end.  Rivals, winners and faults are left free.      *)
Fairness ==
  /\ WF_vars(Works)
  /\ WF_vars(Start)
  /\ \A c \in Claims : WF_vars(Arrives(c))
  /\ WF_vars(ServersCatchUp)

FairSpec == Spec /\ Fairness

---------------------------------------------------------------------------
(* Properties.                                                             *)

PlacesWithClaim ==
  {"held", "try", "mark", "send", "sent", "ask", "look", "accept", "settle",
   "resolve", "stale", "remove"}

(* Types: one lineage of batons, files that hold at most one claim.        *)
TypeOK ==
  /\ chain \in Seq(Batons) /\ Len(chain) >= 1
  /\ floor \in 1..Len(chain) /\ view \in floor..Len(chain)
  /\ air \subseteq Claims /\ sent \subseteq Claims /\ settled \subseteq Claims
  /\ spends \in [Claims -> Batons \cup {None}]
  /\ journal \in Claims \cup {None}
  /\ attempted \in Claims \cup {None} /\ accepted \in Claims \cup {None}
  /\ record \in [claim : Claims, reason : Reasons] \cup {NoRecord}
  /\ pc \in PlacesWithClaim \cup {"down", "begin", "mine", "drop"}
  /\ pc \in PlacesWithClaim => journal # None
  /\ ctx \in {"start", "claim"}
  /\ live \in Batons \cup {None} /\ fresh \in Batons \cup {None}
  /\ unindexed \subseteq grace /\ grace \subseteq Batons /\ known \in BOOLEAN
  /\ faults \in 0..MaxFaults

(* A journaled claim that reached the network is known to have been sent,  *)
(* whatever stopped the process in between: the attempted marker is        *)
(* durable before the broadcast, and it goes only after a resolution was   *)
(* written.                                                                *)
SentIsMarked ==
  journal \in sent /\ journal \notin settled => attempted = journal

(* A claim whose outcome is open is broadcast once: a retry, a restart or  *)
(* a reconnection asks about it and never hands it to the network again.   *)
BroadcastOnce ==
  pc = "send" /\ journal \in sent => journal \in settled

(* A marker always belongs to the journal beside it.  An orphan would make *)
(* production_preflight and persist_new refuse every later start and every *)
(* later winner.                                                           *)
NoOrphanMarker ==
  /\ attempted # None => attempted = journal
  /\ accepted # None => accepted = attempted

(* The record says "confirmed" only of a claim the network accepted.       *)
ConfirmedIsAccepted ==
  record.reason = "confirmed" => InChain(record.claim)

(* The journal of a claim is given up only after its resolution is on disk.*)
ResolvedBeforeForgotten ==
  [][journal # None /\ journal' # journal
       => record.claim = journal /\ journal' = None]_vars

(* With no claim open the GPUs work on a baton of the accepted lineage,    *)
(* never on the output of a claim that failed.                             *)
MinesAcceptedBaton ==
  pc = "mine" => InChain(live)

(* The newest baton is further past the claim than a walk back may go.     *)
OutOfReach(c) ==
  \E i \in 1..Len(chain) : chain[i] = c /\ Len(chain) > i + LineageSteps

(* A claim the network accepted does not stay in the journal for ever,     *)
(* whatever other miners claim after it and however far behind the servers *)
(* are that the miner asks, unless more than BATON_LINEAGE_MAX_STEPS       *)
(* claims follow it first: prove_baton_descends_from then fails on every   *)
(* later attempt, and so does every start.                                 *)
AcceptedResolves ==
  (journal # None /\ InChain(journal)) ~> (journal = None \/ OutOfReach(journal))

(* The same without the exception, which a long lineage refutes.           *)
AlwaysResolves ==
  (journal # None /\ InChain(journal)) ~> journal = None

(* A journaled claim is resolved in the end, one lost message or not: the  *)
(* comment in attempt_parent_only_submission says that a claim of unknown  *)
(* outcome keeps its journal for retry.                                    *)
JournalResolves ==
  journal # None ~> journal = None

(* A claim resolved as stale or conflicted is not one the network          *)
(* accepted: the comments of from_stale and attempt_parent_only_submission *)
(* say that its baton belongs to another transaction and that it cannot    *)
(* confirm.                                                                *)
StaleIsNotAccepted ==
  record.reason \in {"conflicted", "stale-unbroadcast"} => ~InChain(record.claim)

(* The GPUs do not go back to a baton this miner spent within the grace    *)
(* period: the comment at the refresh in run_supervisor says that an       *)
(* indexer still listing one keeps the successor generation mining, and    *)
(* UnindexedSpends::clear that the list is forgotten once the indexer's    *)
(* view is authoritative again.                                            *)
KeepsSuccessor ==
  [][pc = "mine" /\ live' # live => live' \notin grace]_vars

===========================================================================
