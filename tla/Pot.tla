--------------------------------- MODULE Pot ---------------------------------
(***************************************************************************)
(* The fee pot of an ELECTRIC miner (electric/miner.rs, pending.rs and     *)
(* withdrawal.rs).                                                         *)
(*                                                                         *)
(* The mining thread pays claims from the pot's coins and sends the whole  *)
(* pot to an address the owner approves in the dashboard (Max/send), one   *)
(* transfer per coin.  Claims and approved sends are journaled and survive *)
(* a crash, a lost reply and a change of the server.  A refund is another  *)
(* process; the pot's lock lets one of the two run at a time.              *)
(*                                                                         *)
(* The servers share the chain and have mempools of their own.  A          *)
(* transaction is what it is for, a number and the pot coin it spends; a   *)
(* refund is one of the other spends that claims and sends may meet.       *)
(***************************************************************************)
EXTENDS Integers, Sequences, FiniteSets, Functions

CONSTANTS
  Coins,       \* 1..n, largest first
  Servers,
  MaxQuotes,   \* bound: quotes; the owner opens no send after the last
  MaxClaims,   \* bound: proofs found
  MaxFaults,   \* bound: lost replies, refusals, evictions, failed saves, crashes,
               \* coins that come late or are spent elsewhere, failed reads,
               \* spends that the servers' searches no longer reach
  MarkFails    \* whether the mark before a broadcast may fail to reach the file

ASSUME PotBounds ==
  /\ Coins \subseteq Nat \ {0} /\ IsFiniteSet(Coins)
  /\ {MaxQuotes, MaxClaims, MaxFaults} \subseteq Nat /\ MarkFails \in BOOLEAN

VARIABLES
  ui,          \* Control: phase, request, presented; the quote in its view
  drawn,       \* the quote the dashboard drew last, or 0
  pc, link,    \* where the thread is, and the server it talks to
  quote,       \* Transfers.quote
  send,        \* Transfers.approved
  disk,        \* the send's journal
  claim,       \* the claim's journal: None, a proof, or a claim on a coin
  unsynced,    \* history: the send's journal is an approval whose save failed
  chain,       \* the confirmed spender of a coin
  buried,      \* coins whose confirmed spender is older than a search goes back
  pool,        \* the servers' mempools
  funded,      \* coins that reached the pot
  quotes, claims, faults,
  shown,       \* history: quotes the dashboard drew
  abandoned    \* history: transfers of abandoned sends that were not counted

None == [none |-> TRUE]
network == <<chain, buried, pool, funded>>
control == <<ui, drawn, shown>>
journals == <<send, disk, claim, unsynced>>
counts == <<quotes, claims>>
vars == <<control, pc, link, quote, journals, network, counts, faults, abandoned>>

Fault == faults < MaxFaults /\ faults' = faults + 1

Quiet == [phase |-> "idle", request |-> "none", presented |-> FALSE, quote |-> 0]

Init ==
  /\ ui = Quiet /\ drawn = 0 /\ shown = {}
  /\ pc = "down" /\ link \in Servers
  /\ quote = None /\ send = None /\ disk = None /\ claim = None /\ unsynced = FALSE
  /\ chain = [c \in Coins |-> None] /\ buried = {} /\ pool = [s \in Servers |-> {}]
  /\ funded \in SUBSET Coins /\ quotes = 0 /\ claims = 0 /\ faults = 0 /\ abandoned = {}

---------------------------------------------------------------------------
(* The network.                                                            *)

Tx(use, n, c) == [use |-> use, n |-> n, coin |-> c]
Other(c) == Tx("other", 0, c)
Free(s, c) == chain[c] = None /\ ~\E t \in pool[s] : t.coin = c
Spendable(s) == {c \in funded : Free(s, c)}
Published(s, t) == t \in pool[s] \/ chain[t.coin] = t

Fund(c) ==
  /\ c \notin funded /\ Fault /\ funded' = funded \cup {c}
  /\ UNCHANGED <<control, pc, link, quote, journals, chain, buried, pool, counts, abandoned>>

Relay(s, t) ==
  /\ Free(s, t.coin) /\ \E other \in Servers : t \in pool[other]
  /\ pool' = [pool EXCEPT ![s] = @ \cup {t}]
  /\ UNCHANGED <<control, pc, link, quote, journals, chain, buried, funded, counts, faults,
                 abandoned>>

Evict(s, t) ==
  /\ t \in pool[s] /\ Fault /\ pool' = [pool EXCEPT ![s] = @ \ {t}]
  /\ UNCHANGED <<control, pc, link, quote, journals, chain, buried, funded, counts, abandoned>>

Mine(t) ==
  /\ \E s \in Servers : t \in pool[s]
  /\ chain' = [chain EXCEPT ![t.coin] = t]
  /\ pool' = [s \in Servers |-> {u \in pool[s] : u.coin # t.coin}]
  /\ UNCHANGED <<control, pc, link, quote, journals, buried, funded, counts, faults, abandoned>>

(* The chain and the pot's history grow: a spend falls out of the blocks   *)
(* and the transactions that a server searches for a coin's spender.       *)
Bury(c) ==
  /\ chain[c] # None /\ c \notin buried /\ Fault /\ buried' = buried \cup {c}
  /\ UNCHANGED <<control, pc, link, quote, journals, chain, pool, funded, counts, abandoned>>

(* The owner spends a coin elsewhere, with a copy of the key.              *)
Outside(s, c) ==
  /\ c \in Spendable(s) /\ Fault
  /\ pool' = [pool EXCEPT ![s] = @ \cup {Other(c)}]
  /\ UNCHANGED <<control, pc, link, quote, journals, chain, buried, funded, counts, abandoned>>

(* What becomes of a broadcast: the server takes it, refuses it, refuses   *)
(* its fee, or its answer is lost either way.                              *)
Broadcast(s, t, reply) ==
  LET taken == pool' = [pool EXCEPT ![s] = @ \cup {t}] IN
  CASE reply = "ok" -> Free(s, t.coin) /\ taken /\ UNCHANGED faults
    [] reply = "refused" -> ~Free(s, t.coin) /\ UNCHANGED <<pool, faults>>
    [] reply = "fee" -> Free(s, t.coin) /\ Fault /\ UNCHANGED pool
    [] reply = "lost" -> Fault /\ (UNCHANGED pool \/ (Free(s, t.coin) /\ taken))

---------------------------------------------------------------------------
(* The dashboard (Control).                                                *)

(* Phases Complete and Error are "over"; the view's quote is 0 outside of   *)
(* Preview.                                                                *)
Holding == ui.phase \in {"editing", "preparing", "preview", "sending"}
UiStep == UNCHANGED <<pc, link, quote, journals, network, counts, faults, abandoned>>

Edit ==
  /\ pc \notin {"down", "refund"} /\ ~Holding /\ quotes < MaxQuotes
  /\ ui' = [ui EXCEPT !.phase = "editing", !.presented = FALSE, !.quote = 0]
  /\ UNCHANGED <<drawn, shown>> /\ UiStep

Enter ==
  /\ ui.request = "none" /\ ui.phase = "editing"
  /\ ui' = [ui EXCEPT !.phase = "preparing", !.request = "prepare"]
  /\ UNCHANGED <<drawn, shown>> /\ UiStep

(* paste: text that is no address.                                         *)
BadPaste ==
  /\ ui.phase = "editing"
  /\ ui' = [ui EXCEPT !.phase = "over", !.request = "none", !.presented = FALSE]
  /\ UNCHANGED <<drawn, shown>> /\ UiStep

View == IF ui.phase = "preview" THEN ui.quote ELSE 0

(* A view without a quote is drawn too, but never acknowledged.            *)
Draw ==
  /\ pc \notin {"down", "refund"} /\ View \notin {0, drawn} /\ drawn' = View
  /\ shown' = shown \cup {View}
  /\ UNCHANGED ui /\ UiStep

SameView == View = drawn

Presented ==
  /\ ui.phase = "preview" /\ ~ui.presented /\ SameView
  /\ ui' = [ui EXCEPT !.presented = TRUE]
  /\ UNCHANGED <<drawn, shown>> /\ UiStep

Confirm ==
  /\ ui.phase = "preview" /\ ui.presented /\ ui.request = "none"
  /\ ui' = [ui EXCEPT !.phase = "sending", !.request = "confirm"]
  /\ UNCHANGED <<drawn, shown>> /\ UiStep

Cancel ==
  /\ pc \notin {"down", "refund"} /\ ui.phase # "sending"
  /\ ui' = [ui EXCEPT !.phase = "idle", !.request = "cancel", !.presented = FALSE,
                        !.quote = 0]
  /\ UNCHANGED <<drawn, shown>> /\ UiStep

---------------------------------------------------------------------------
(* The mining thread.                                                      *)

(* Control::failure                                                        *)
Failed(phase) ==
  [ui EXCEPT !.phase = phase, !.request = "none", !.presented = FALSE, !.quote = 0]

Active(r) == r # None /\ r.next <= Len(r.coins)
Transfer(r, i) == Tx("send", r.id, r.coins[i])
Unsent(r) == {Transfer(r, i) : i \in r.next..Len(r.coins)}

(* Both journals in need of recovery stop the start.                       *)
Start ==
  /\ pc = "down" /\ ~(Active(disk) /\ claim # None)
  /\ pc' = "loop" /\ send' = disk /\ unsynced' = FALSE
  /\ UNCHANGED <<control, link, quote, disk, claim, network, counts, faults, abandoned>>

(* The miner stops at the top of its loop, or dies anywhere.  A send whose *)
(* journal is archived already, but not given up, is given up with it.     *)
Crash ==
  /\ pc # "down" /\ (Fault \/ (pc = "loop" /\ UNCHANGED faults))
  /\ pc' = "down" /\ ui' = Quiet /\ drawn' = 0
  /\ quote' = None /\ send' = None
  /\ abandoned' = abandoned \cup (IF Active(send) /\ disk = None THEN Unsent(send) ELSE {})
  /\ UNCHANGED <<link, disk, claim, unsynced, network, counts, shown>>

(* The connection failed, and another one is made.                         *)
Reconnect ==
  /\ pc = "loop" /\ link' \in Servers \ {link}
  /\ UNCHANGED <<control, pc, quote, journals, network, counts, faults, abandoned>>

(* Mutant: a claim being paid does not keep the dashboard's requests back. *)
NeverPending == TRUE

(* The requests wait for the claim journal to drain.                       *)
NoClaim == claim = None

(* poll, without an approved send: the request of the dashboard.           *)
PollRequest ==
  /\ pc = "loop" /\ NoClaim /\ ~Active(send)
  /\ \/ /\ ui.request = "prepare" /\ quotes < MaxQuotes
        /\ pc' = "quoting" /\ ui' = [ui EXCEPT !.request = "none"]
     \/ /\ ui.request = "cancel" /\ ui' = [ui EXCEPT !.request = "none"]
        /\ pc' = IF Holding THEN "loop" ELSE "mining"
  /\ quote' = None
  /\ UNCHANGED <<drawn, shown, link, journals, network, counts, faults, abandoned>>

PollNothing ==
  /\ pc = "loop" /\ NoClaim /\ ~Active(send)
  /\ ui.request = "none" /\ ~Holding /\ pc' = "mining"
  /\ UNCHANGED <<control, link, quote, journals, network, counts, faults, abandoned>>

(* A send takes the confirmed coins in the server's order.                 *)
Plans(S) ==
  {plan \in [1..Cardinality(S) -> S] : \A i, j \in DOMAIN plan : i < j => plan[i] < plan[j]}

(* The quote is ready, cannot be made, or could not be read; the owner may *)
(* have cancelled meanwhile.                                               *)
Quoted ==
  /\ pc = "quoting"
  /\ \/ ui.phase = "idle" /\ pc' = "mining" /\ UNCHANGED <<ui, quote, quotes>>
     \/ /\ ui.phase # "idle" /\ Spendable(link) # {} /\ pc' = "loop"
        /\ quotes' = quotes + 1
        /\ \E plan \in Plans(Spendable(link)) :
             quote' = [id |-> quotes + 1, coins |-> plan]
        /\ ui' = [ui EXCEPT !.phase = "preview", !.presented = FALSE, !.quote = quotes + 1]
     \/ /\ ui.phase # "idle" /\ pc' = "loop"
        /\ ui' = [ui EXCEPT !.phase = "over", !.quote = 0] /\ UNCHANGED <<quote, quotes>>
     \/ ui' = Failed("over") /\ pc' = "loop" /\ UNCHANGED <<quote, quotes>>
  /\ UNCHANGED <<drawn, shown, link, journals, network, claims, faults, abandoned>>

(* The approval is saved, or the quote is gone, expired or of other coins, *)
(* or the save fails, maybe when the new file is in place already.         *)
PollConfirm ==
  LET new == [id |-> quote.id, coins |-> quote.coins, next |-> 1, uncertain |-> FALSE] IN
  /\ pc = "loop" /\ NoClaim /\ ~Active(send) /\ ui.request = "confirm"
  /\ quote' = None
  /\ \/ /\ quote # None /\ Range(quote.coins) = Spendable(link)
        /\ send' = new /\ disk' = new /\ unsynced' = FALSE /\ pc' = "step"
        /\ ui' = [ui EXCEPT !.phase = "sending", !.request = "none", !.quote = 0]
        /\ UNCHANGED faults
     \/ /\ quote # None /\ Range(quote.coins) = Spendable(link) /\ Fault
        /\ disk' = new /\ unsynced' = TRUE /\ UNCHANGED send
        /\ ui' = Failed("over") /\ pc' = "loop"
     \/ ui' = Failed("over") /\ pc' = "loop" /\ UNCHANGED <<send, disk, unsynced, faults>>
  /\ UNCHANGED <<drawn, shown, link, claim, network, counts, abandoned>>

PollActive ==
  /\ pc = "loop" /\ NoClaim /\ Active(send)
  /\ pc' = "step"
  /\ ui' = [ui EXCEPT !.phase = "sending", !.request = "none", !.quote = 0]
  /\ UNCHANGED <<drawn, shown, link, quote, journals, network, counts, faults, abandoned>>

---------------------------------------------------------------------------
(* Transfers::step.                                                        *)

Next1(r) == [r EXCEPT !.next = @ + 1, !.uncertain = FALSE]
Current == Transfer(send, send.next)

(* The step ends with an error, and with d in the journal.                 *)
Kept(d) ==
  /\ ui' = Failed("sending") /\ pc' = "loop" /\ disk' = d
  /\ UNCHANGED <<send, quote, abandoned>>

Retained == Kept(disk)

(* The journal was replaced or renamed, but its directory not synced.      *)
NotSynced(d) == Fault /\ Kept(d)

(* The server knows the transfer: the next one.                            *)
Advance ==
  /\ Published(link, Current)
  /\ \/ /\ send' = Next1(send) /\ disk' = Next1(send) /\ UNCHANGED <<quote, faults, abandoned>>
        /\ ui' = IF Active(Next1(send)) THEN ui ELSE [ui EXCEPT !.phase = "over"]
        /\ pc' = "loop"
     \/ NotSynced(Next1(send))

(* A journal that is not there cannot be archived.                         *)
Archive ==
  /\ disk # None /\ abandoned' = abandoned \cup Unsent(send)
  /\ send' = None /\ disk' = None /\ quote' = None

GivesUp ==
  \/ Archive /\ ui' = Failed("over") /\ pc' = "loop" /\ UNCHANGED faults
  \/ disk = None /\ Retained /\ UNCHANGED faults
  \/ disk # None /\ NotSynced(None)

(* Mutant: a send waits whoever spent its coin.                            *)
NeverOvertaken == FALSE

(* A confirmed transaction other than the transfer spent its coin, and the *)
(* server's search finds it.                                               *)
Overtaken ==
  /\ chain[Current.coin] # None /\ ~Published(link, Current)
  /\ Current.coin \notin buried

(* The transfer is not found and its coin not spendable.  Only a confirmed *)
(* spender ends the send; one in a mempool, or one that is not found, does *)
(* not.                                                                    *)
Superseded ==
  /\ ~Published(link, Current) \/ Current.coin \in buried
  /\ Current.coin \notin Spendable(link)
  /\ \/ Overtaken /\ GivesUp
     \/ ~Overtaken /\ Retained /\ UNCHANGED faults

(* The mark is saved before the broadcast.  It stays in memory when the    *)
(* save fails.                                                             *)
Mark ==
  LET marked == [send EXCEPT !.uncertain = TRUE] IN
  /\ ~Published(link, Current) /\ Current.coin \in Spendable(link)
  /\ UNCHANGED <<quote, abandoned>>
  /\ \/ send.uncertain /\ pc' = "again" /\ UNCHANGED <<ui, send, disk, faults>>
     \/ /\ ~send.uncertain /\ send' = marked /\ disk' = marked
        /\ pc' = "first" /\ UNCHANGED <<ui, faults>>
     \/ /\ ~send.uncertain /\ Fault /\ send' = marked
        /\ disk' = marked \/ (MarkFails /\ UNCHANGED disk)
        /\ ui' = Failed("sending") /\ pc' = "loop"

(* A read, the save of an advance or the archiving may fail.               *)
Step ==
  /\ pc = "step" /\ (Advance \/ Superseded \/ Mark \/ (Fault /\ Retained))
  /\ UNCHANGED <<drawn, shown, link, claim, unsynced, network, counts>>

(* Mutant: a fee refusal abandons whatever was tried before.               *)
AlwaysAbandons == {"first", "again"}

(* A fee refusal abandons the send only after a first attempt.             *)
Abandons == {"first"}

Unmarked == [send EXCEPT !.uncertain = FALSE]

(* A definite refusal of a first attempt takes the mark back, in memory    *)
(* also when the save fails.                                               *)
Transmit(reply) ==
  LET unmarks == pc = "first" /\ reply \in {"refused", "fee"} IN
  /\ pc \in {"first", "again"} /\ Broadcast(link, Current, reply)
  /\ send' = IF unmarks THEN Unmarked ELSE send
  /\ \/ /\ disk' = IF unmarks THEN Unmarked ELSE disk
        /\ pc' = IF reply = "fee" /\ pc \in Abandons THEN "fee" ELSE "loop"
        /\ ui' = IF reply = "ok" \/ pc' = "fee" THEN ui ELSE Failed("sending")
     \/ /\ unmarks /\ disk' \in {disk, Unmarked}
        /\ pc' = "loop" /\ ui' = Failed("sending")
  /\ UNCHANGED <<drawn, shown, link, quote, claim, unsynced, chain, buried, funded, counts,
                 abandoned>>

(* abandon_unsent                                                          *)
AbandonUnsent ==
  /\ pc = "fee"
  /\ \/ /\ \E t \in Unsent(send) \ {Current} : Published(link, t)
        /\ Retained /\ UNCHANGED faults
     \/ ~(\E t \in Unsent(send) \ {Current} : Published(link, t)) /\ GivesUp
     \/ Fault /\ Retained
  /\ UNCHANGED <<drawn, shown, link, claim, unsynced, network, counts>>

---------------------------------------------------------------------------
(* Claims (mine).                                                          *)

ClaimTx == Tx("claim", claims, claim.coin)
ClaimTaken == claim.coin # 0 /\ Published(link, ClaimTx)

(* A proof is found and saved, or the search ends without one.             *)
Search ==
  /\ pc = "mining" /\ pc' = "loop"
  /\ \/ /\ claims < MaxClaims /\ Spendable(link) # {}
        /\ claims' = claims + 1 /\ claim' = [coin |-> 0]
     \/ UNCHANGED <<claims, claim>>
  /\ UNCHANGED <<control, link, quote, send, disk, unsynced, network, quotes, faults,
                 abandoned>>

(* The saved proof was accepted, or another claim took the baton; or it is *)
(* given the largest coin of the pot and saved again; or it is sent again. *)
ClaimStep ==
  /\ pc = "loop" /\ claim # None
  /\ \/ claim' = None /\ pc' = "loop"
     \/ /\ claim.coin = 0 /\ pc' = "pay"
        /\ \E c \in Spendable(link) :
             (\A d \in Spendable(link) : c <= d) /\ claim' = [coin |-> c]
     \/ claim.coin # 0 /\ ~ClaimTaken /\ pc' = "pay" /\ UNCHANGED claim
  /\ UNCHANGED <<control, link, quote, send, disk, unsynced, network, counts, faults, abandoned>>

Pay(reply) ==
  /\ pc = "pay" /\ Broadcast(link, ClaimTx, reply) /\ pc' = "loop"
  /\ UNCHANGED <<control, link, quote, journals, chain, buried, funded, counts,
                 abandoned>>

---------------------------------------------------------------------------
(* A refund, while no miner has the pot's lock.                            *)

RefundStart ==
  /\ pc = "down" /\ claim = None
  /\ pc' = "refund" /\ send' = disk /\ unsynced' = FALSE /\ link' \in Servers
  /\ UNCHANGED <<control, quote, disk, claim, network, counts, faults, abandoned>>

(* settle: nothing is broadcast; a send that waits, a failed read or a     *)
(* failed save ends the refund.                                            *)
Settle ==
  LET ends == pc' = "down" /\ send' = None IN
  /\ pc = "refund" /\ Active(send)
  /\ \/ /\ Published(link, Current) /\ disk' = Next1(send)
        /\ ends \/ (send' = Next1(send) /\ UNCHANGED pc)
        /\ UNCHANGED <<quote, abandoned>>
     \/ Overtaken /\ Archive /\ pc' \in {pc, "down"}
     \/ ends /\ UNCHANGED <<disk, quote, abandoned>>
  /\ UNCHANGED <<control, link, claim, unsynced, network, counts, faults>>

RefundPay(c, reply) ==
  /\ pc = "refund" /\ ~Active(send) /\ c \in Spendable(link)
  /\ Broadcast(link, Other(c), reply)
  /\ IF reply = "ok" THEN UNCHANGED <<pc, send>> ELSE pc' = "down" /\ send' = None
  /\ UNCHANGED <<control, link, quote, disk, claim, unsynced, chain, buried, funded, counts,
                 abandoned>>

RefundEnds ==
  /\ pc = "refund" /\ ~Active(send) /\ Spendable(link) = {}
  /\ pc' = "down" /\ send' = None
  /\ UNCHANGED <<control, link, quote, disk, claim, unsynced, network, counts, faults, abandoned>>
---------------------------------------------------------------------------
Replies == {"ok", "refused", "fee", "lost"}
Sent == (UNION {pool[s] : s \in Servers}) \cup ({chain[c] : c \in Coins} \ {None})

Thread ==
  \/ PollRequest \/ PollNothing \/ Quoted \/ PollConfirm \/ PollActive \/ Step
  \/ AbandonUnsent \/ Search \/ ClaimStep
  \/ \E reply \in Replies : Transmit(reply) \/ Pay(reply)

Refund ==
  \/ RefundStart \/ Settle \/ RefundEnds
  \/ \E c \in Coins, reply \in Replies : RefundPay(c, reply)

Dashboard == Edit \/ Enter \/ BadPaste \/ Draw \/ Presented \/ Confirm \/ Cancel

Mining == \E t \in Sent : Mine(t)

Network ==
  \/ \E c \in Coins : Fund(c) \/ Bury(c) \/ \E s \in Servers : Outside(s, c)
  \/ \E s \in Servers, t \in Sent : Relay(s, t) \/ Evict(s, t)
  \/ Mining

Next == Start \/ Crash \/ Reconnect \/ Thread \/ Refund \/ Dashboard \/ Network

Spec == Init /\ [][Next]_vars
FairSpec == Spec /\ WF_vars(Thread) /\ WF_vars(Mining)

---------------------------------------------------------------------------
(* A send is abandoned only when it cannot confirm: no transfer of an      *)
(* abandoned send that was left to send is in a mempool or a block, then   *)
(* or later, whatever replies were lost, on whichever server, and whatever *)
(* crash came between (Transfers::step, abandon_unsent and settle).        *)
AbandonedIsDead == abandoned \cap Sent = {}

(* The claim journal and the send journal never both hold work, for which  *)
(* start would refuse them for good, unless the directory sync of an       *)
(* approval failed when the approval was in place already: the miner then  *)
(* takes it for not approved and mines on (mine, refund and save).         *)
ClaimXorSend == Active(disk) /\ claim # None => unsynced

(* The same without the exception, which a failed sync refutes.            *)
NeverBoth == ~(Active(disk) /\ claim # None)

(* The pot leaves only as the owner saw it: the quote of every journaled   *)
(* send was drawn before it was confirmed, also when another one replaced  *)
(* it between a draw and the key (Control::presented and confirm).         *)
ApprovedWasShown == disk # None => disk.id \in shown

(* The send's record on disk says so when its next transfer may be on the  *)
(* network: what a restart goes by ("Recorded before sending").            *)
SentIsRecorded ==
  Active(disk) /\ Transfer(disk, disk.next) \in Sent => disk.uncertain

(* What keeps a send from its end: its journal is archived, but the sync   *)
(* after the rename failed, so that it cannot be archived again; or the    *)
(* spend of its coin is out of the servers' search (Spender::Unknown).     *)
Stranded == Active(send) /\ (disk = None \/ Current.coin \in buried)

(* An approved send does not hold the pot for good: while the miner runs   *)
(* it completes or is abandoned, whatever was lost on the way and whatever *)
(* else spends its coins, but for the two cases above (poll and step).     *)
SendResolves ==
  <>[](pc \notin {"down", "refund"}) => (Active(send) ~> (~Active(send) \/ Stranded))
=============================================================================
