------------------------------ MODULE PotProofs ------------------------------
(***************************************************************************)
(* Proofs about the ELECTRIC pot, for any coins, servers and bounds: the   *)
(* claim journal and the send journal never both hold work, but for an     *)
(* approval whose save failed halfway, and, when the mark before a         *)
(* broadcast is saved, a send is abandoned only when its transfers are     *)
(* nowhere on the network.                                                 *)
(***************************************************************************)
EXTENDS Pot, FiniteSetTheorems, TLAPS

Record == [id : Nat, coins : Seq(Coins), next : Nat \ {0}, uncertain : BOOLEAN]
Quote == [id : Nat, coins : Seq(Coins)]
Claim == [coin : Coins \cup {0}]
Transactions == [use : {"send", "claim", "other"}, n : Nat, coin : Coins]

Places ==
  {"down", "loop", "quoting", "step", "first", "again", "fee", "mining", "pay", "refund"}

NetworkTypes ==
  /\ link \in Servers /\ funded \subseteq Coins
  /\ chain \in [Coins -> {None} \cup Transactions]
  /\ pool \in [Servers -> SUBSET Transactions]

Types ==
  /\ pc \in Places /\ quotes \in Nat /\ claims \in Nat
  /\ quote \in {None} \cup Quote /\ claim \in {None} \cup Claim
  /\ send \in {None} \cup Record /\ disk \in {None} \cup Record
  /\ NetworkTypes

(* No two transfers of a send have the same coin.                          *)
Distinct(q) == \A i, j \in 1..Len(q) : i # j => q[i] # q[j]

(* While a process has the pot it knows of the journal's send, but for an  *)
(* approval whose save failed.                                             *)
Linked == pc # "down" /\ Active(disk) /\ ~unsynced => Active(send)

(* What the thread does, by where it is.                                   *)
Placed ==
  /\ pc = "down" => send = None
  /\ pc \in {"down", "refund"} => quote = None
  /\ pc \in {"quoting", "mining"} => ~Active(send)
  /\ pc \in {"step", "first", "again", "fee"} => Active(send)
  /\ claim # None => ~Active(send)
  /\ pc = "pay" => claim # None /\ claim.coin # 0
  /\ quote # None => Len(quote.coins) >= 1

Exclusive == Types /\ Linked /\ Placed /\ ClaimXorSend

(* The transfers of a record after the next one are not among those sent,  *)
(* nor is the next one, unless the record is marked; nor was it given up.  *)
Fresh(r, sent, n, gone) ==
  r # None =>
    /\ r.id \in 1..n /\ Distinct(r.coins)
    /\ \A i \in r.next + 1..Len(r.coins) : Transfer(r, i) \notin sent
    /\ Active(r) /\ ~r.uncertain => Transfer(r, r.next) \notin sent
    /\ \A t \in gone : t.n # r.id

Unpublished ==
  Fresh(send, Sent, quotes, abandoned) /\ Fresh(disk, Sent, quotes, abandoned)

(* The journal d has the send r, at the same transfer and marked if r is,  *)
(* or one transfer ahead.                                                  *)
Twin(r, d) ==
  /\ d.id = r.id /\ d.coins = r.coins
  /\ \/ d.next = r.next /\ (r.uncertain => d.uncertain)
     \/ d.next = r.next + 1

(* A send whose journal is archived already is not on the network, and can *)
(* no longer be when it is marked.                                         *)
Paired ==
  Active(send) =>
    /\ disk # None => Twin(send, disk)
    /\ disk = None => /\ Current \notin Sent
                      /\ send.uncertain => chain[Current.coin] # None

(* The quote is newer than every send.                                     *)
Newest ==
  quote # None =>
    /\ quote.id = quotes /\ quotes > 0 /\ Distinct(quote.coins)
    /\ send # None => send.id < quotes
    /\ disk # None => disk.id < quotes
    /\ \A t \in Sent : t.use = "send" => t.n < quotes
    /\ \A t \in abandoned : t.n < quotes

Attempts ==
  /\ pc = "first" => send.uncertain /\ disk = send /\ Current \notin Sent
  /\ pc = "again" => send.uncertain /\ disk # None
  /\ pc = "fee" => ~send.uncertain

(* A mempool holds no spend of a coin that is spent in the chain.          *)
Consistent ==
  /\ \A s \in Servers : \A t \in pool[s] : chain[t.coin] = None
  /\ \A c \in Coins : chain[c] # None => chain[c].coin = c

Numbered ==
  /\ \A t \in Sent : t.use = "send" => t.n <= quotes
  /\ \A t \in abandoned : t \in Transactions /\ t.use = "send" /\ t.n <= quotes

Safe ==
  /\ Exclusive /\ Unpublished /\ Paired /\ Newest /\ Attempts /\ Consistent /\ Numbered
  /\ AbandonedIsDead

---------------------------------------------------------------------------
(* None is no record of any kind.                                          *)
LEMMA Nones ==
  None \notin Record /\ None \notin Quote /\ None \notin Claim /\ None \notin Transactions
<1>0. DOMAIN None = {"none"}
  BY Zenon DEF None
<1>1. \A r \in Record : "id" \in DOMAIN r
  BY DEF Record
<1>2. \A r \in Quote : "id" \in DOMAIN r
  BY DEF Quote
<1>3. \A r \in Claim : "coin" \in DOMAIN r
  BY DEF Claim
<1>4. \A r \in Transactions : "use" \in DOMAIN r
  BY DEF Transactions
<1> QED
  BY <1>0, <1>1, <1>2, <1>3, <1>4

(* A broadcast adds the transaction to a mempool or leaves the mempools    *)
(* alone, and adds it only where its coin is free.                         *)
LEMMA BroadcastAdds ==
  ASSUME NEW t, NEW reply \in Replies, Broadcast(link, t, reply)
  PROVE  \/ pool' = pool
         \/ pool' = [pool EXCEPT ![link] = @ \cup {t}] /\ Free(link, t.coin)
BY Zenon DEF Broadcast, Replies

(* The sequences that a send may take its coins in.                        *)
LEMMA PlansAre ==
  ASSUME NetworkTypes, NEW plan \in Plans(Spendable(link))
  PROVE  /\ plan \in Seq(Coins) /\ Distinct(plan)
         /\ Spendable(link) # {} => Len(plan) >= 1
<1> DEFINE S == Spendable(link)
<1>1. S \subseteq Coins
  BY DEF Spendable, NetworkTypes
<1>2. IsFiniteSet(S) /\ Cardinality(S) \in Nat
  BY <1>1, PotBounds, FS_Subset, FS_CardinalityType
<1>3. plan \in [1..Cardinality(S) -> S] /\ \A i, j \in 1..Cardinality(S) : i < j => plan[i] < plan[j]
  BY DEF Plans
<1>4. plan \in Seq(Coins) /\ Len(plan) = Cardinality(S)
  BY <1>1, <1>2, <1>3
<1>5. \A i \in 1..Len(plan) : plan[i] \in Nat
  BY <1>1, <1>3, <1>4, PotBounds, Zenon
<1>6. S # {} => Cardinality(S) >= 1
  BY <1>2, FS_EmptySet
<1> HIDE DEF S
<1>7. Distinct(plan)
  BY <1>2, <1>3, <1>4, <1>5 DEF Distinct
<1> QED
  BY <1>2, <1>4, <1>6, <1>7 DEF S

(* The network's own steps, and those that add to it.                      *)
LEMMA NetworkTyped ==
  ASSUME NetworkTypes, Network
  PROVE  NetworkTypes'
<1>1. ASSUME NEW c \in Coins, Fund(c) PROVE NetworkTypes'
  BY <1>1 DEF Fund, NetworkTypes
<1>2. ASSUME NEW c \in Coins, NEW s \in Servers, Outside(s, c) PROVE NetworkTypes'
  <2>1. Other(c) \in Transactions
    BY DEF Other, Tx, Transactions
  <2> QED
    BY <1>2, <2>1 DEF Outside, NetworkTypes
<1>3. ASSUME NEW s \in Servers, NEW t \in Sent, Relay(s, t) PROVE NetworkTypes'
  <2>1. t \in Transactions
    BY <1>3 DEF Relay, NetworkTypes
  <2> QED
    BY <1>3, <2>1 DEF Relay, NetworkTypes
<1>4. ASSUME NEW s \in Servers, NEW t \in Sent, Evict(s, t) PROVE NetworkTypes'
  BY <1>4 DEF Evict, NetworkTypes
<1>5. ASSUME NEW t \in Sent, Mine(t) PROVE NetworkTypes'
  <2>1. t \in Transactions
    BY <1>5 DEF Mine, NetworkTypes
  <2>2. t.coin \in Coins
    BY <2>1 DEF Transactions
  <2> QED
    BY <1>5, <2>1, <2>2 DEF Mine, NetworkTypes
<1>6. ASSUME NEW c \in Coins, Bury(c) PROVE NetworkTypes'
  BY <1>6 DEF Bury, NetworkTypes
<1> QED
  BY <1>1, <1>2, <1>3, <1>4, <1>5, <1>6 DEF Network, Mining

LEMMA BroadcastTyped ==
  ASSUME NetworkTypes, NEW t \in Transactions, NEW reply \in Replies,
         Broadcast(link, t, reply), UNCHANGED <<chain, funded, link>>
  PROVE  NetworkTypes'
BY BroadcastAdds DEF NetworkTypes
---------------------------------------------------------------------------
(* Nothing but the dashboard's own state, or the network, changes.         *)
LEMMA ExclusiveKept ==
  ASSUME Exclusive, NetworkTypes', UNCHANGED <<pc, quote, journals, counts>>
  PROVE  Exclusive'
BY DEF Exclusive, Types, Linked, Placed, ClaimXorSend, Active, journals, counts

(* The transaction a process broadcasts is one.                            *)
LEMMA CurrentTyped ==
  ASSUME Types, Active(send)
  PROVE  Current \in Transactions
<1>1. send \in Record /\ send.next \in 1..Len(send.coins)
  BY DEF Active, Types, Record
<1>2. send.coins[send.next] \in Coins
  BY <1>1 DEF Record
<1> QED
  BY <1>1, <1>2 DEF Current, Transfer, Tx, Transactions, Record

LEMMA ExclusiveInit ==
  ASSUME Init PROVE Exclusive
BY DEF Init, Exclusive, Types, NetworkTypes, Linked, Placed, ClaimXorSend, Active, Places

LEMMA ExclusiveStart ==
  ASSUME Exclusive, Start \/ RefundStart PROVE Exclusive'
BY DEF Start, RefundStart, Exclusive, Types, NetworkTypes, Linked, Placed, ClaimXorSend, Active,
       Places, network, counts

LEMMA ExclusiveCrash ==
  ASSUME Exclusive, Crash PROVE Exclusive'
BY DEF Crash, Exclusive, Types, NetworkTypes, Linked, Placed, ClaimXorSend, Active, Places,
       network, counts

LEMMA ExclusiveReconnect ==
  ASSUME Exclusive, Reconnect PROVE Exclusive'
BY ExclusiveKept DEF Reconnect, Exclusive, Types, NetworkTypes, network, counts, journals

LEMMA ExclusivePoll ==
  ASSUME Exclusive, PollRequest \/ PollNothing \/ PollActive PROVE Exclusive'
BY DEF PollRequest, PollNothing, PollActive, Exclusive, Types, NetworkTypes, Linked, Placed,
       ClaimXorSend, Active, Places, network, counts, journals

LEMMA ExclusiveQuoted ==
  ASSUME Exclusive, Quoted PROVE Exclusive'
<1>1. quote' = quote \/ (quote' \in Quote /\ Len(quote'.coins) >= 1)
  <2>1. ASSUME NEW plan \in Plans(Spendable(link)), Spendable(link) # {}
        PROVE  plan \in Seq(Coins) /\ Len(plan) >= 1
    BY <2>1, PlansAre DEF Exclusive, Types
  <2> QED
    BY <2>1 DEF Quoted, Quote, Exclusive, Types
<1>2. quotes' \in Nat /\ pc' \in {"mining", "loop"} /\ ~Active(send) /\ pc # "down"
  BY DEF Quoted, Exclusive, Types, Placed
<1>3. UNCHANGED <<link, send, disk, claim, unsynced, network, claims>>
  BY DEF Quoted, journals
<1> QED
  BY <1>1, <1>2, <1>3 DEF Exclusive, Types, NetworkTypes, Linked, Placed, ClaimXorSend, Active,
       Places, network

LEMMA ExclusiveConfirm ==
  ASSUME Exclusive, PollConfirm PROVE Exclusive'
<1> DEFINE new == [id |-> quote.id, coins |-> quote.coins, next |-> 1, uncertain |-> FALSE]
<1>1. /\ quote' = None /\ pc = "loop" /\ claim = None /\ ~Active(send)
      /\ UNCHANGED <<link, claim, network, counts>>
  BY DEF PollConfirm, NoClaim
<1>2. \/ quote # None /\ send' = new /\ disk' = new /\ pc' = "step"
      \/ quote # None /\ disk' = new /\ pc' = "loop" /\ unsynced' = TRUE /\ send' = send
      \/ UNCHANGED <<send, disk, unsynced>> /\ pc' = "loop"
  BY DEF PollConfirm
<1>3. NetworkTypes'
  BY <1>1 DEF Exclusive, Types, NetworkTypes, network
<1>4. quote # None => new \in Record /\ Active(new)
  <2>1. SUFFICES ASSUME quote # None PROVE new \in Record /\ Active(new)
    OBVIOUS
  <2>2. quote \in Quote /\ Len(quote.coins) >= 1
    BY <2>1, Zenon DEF Exclusive, Types, Placed
  <2>3. new \in Record
    BY <2>2 DEF Quote, Record
  <2>4. 1 <= Len(quote.coins)
    BY <2>2 DEF Quote
  <2> QED
    BY <2>3, <2>4, Nones, Zenon DEF Active
<1> HIDE DEF new
<1>5. CASE quote # None /\ send' = new /\ disk' = new /\ pc' = "step"
  BY <1>1, <1>3, <1>4, <1>5
     DEF Exclusive, Types, Linked, Placed, ClaimXorSend, Places, counts
<1>6. CASE quote # None /\ disk' = new /\ pc' = "loop" /\ unsynced' = TRUE /\ send' = send
  <2>1. Types'
    BY <1>1, <1>3, <1>4, <1>6 DEF Exclusive, Types, Places, counts
  <2>2. Placed'
    BY <1>1, <1>6 DEF Placed
  <2> QED
    BY <1>6, <2>1, <2>2, Zenon DEF Exclusive, Linked, ClaimXorSend
<1>7. CASE UNCHANGED <<send, disk, unsynced>> /\ pc' = "loop"
  BY <1>1, <1>3, <1>7 DEF Exclusive, Types, Linked, Placed, ClaimXorSend, Places, counts
<1> QED
  BY <1>2, <1>5, <1>6, <1>7, Zenon

(* A send with a transfer left, and the records it becomes.                *)
LEMMA ActiveRecord ==
  ASSUME Exclusive, Active(send)
  PROVE  /\ send \in Record /\ Next1(send) \in Record
         /\ [send EXCEPT !.uncertain = TRUE] \in Record /\ Unmarked \in Record
         /\ Active([send EXCEPT !.uncertain = TRUE]) /\ Active(Unmarked)
<1>1. send \in Record
  BY DEF Exclusive, Types, Active
<1>2. [send EXCEPT !.uncertain = TRUE] \in Record /\ Unmarked \in Record
  BY <1>1, Zenon DEF Record, Unmarked
<1>3. Active([send EXCEPT !.uncertain = TRUE]) /\ Active(Unmarked)
  <2>1. [send EXCEPT !.uncertain = TRUE].next = send.next /\ Unmarked.next = send.next
    BY <1>1 DEF Record, Unmarked
  <2>2. [send EXCEPT !.uncertain = TRUE].coins = send.coins /\ Unmarked.coins = send.coins
    BY <1>1 DEF Record, Unmarked
  <2> QED
    BY <1>2, <2>1, <2>2, Nones, Zenon DEF Active
<1>4. Next1(send) \in Record
  <2> DEFINE n == send.next + 1
  <2>1. n \in Nat \ {0}
    BY <1>1 DEF Record
  <2>2. Next1(send) = [[send EXCEPT !.next = n] EXCEPT !.uncertain = FALSE]
    BY DEF Next1
  <2> HIDE DEF n
  <2>3. [send EXCEPT !.next = n] \in Record
    BY <1>1, <2>1 DEF Record
  <2> QED
    BY <2>2, <2>3, Zenon DEF Record
<1> QED
  BY <1>1, <1>2, <1>3, <1>4

(* A step of a send keeps the claim journal empty, and leaves no send in   *)
(* the journal that is not in memory.                                      *)
LEMMA ExclusiveSend ==
  ASSUME Exclusive, pc \notin {"down", "mining", "quoting", "pay"}, Active(send),
         NetworkTypes', UNCHANGED <<claim, unsynced, counts>>,
         quote' \in {quote, None}, pc' \in Places \ {"mining", "quoting", "pay"},
         send' \in {None} \cup Record, disk' \in {None} \cup Record,
         pc' # "down" => (Active(disk') => Active(send')),
         pc' \in {"step", "first", "again", "fee"} => Active(send'),
         pc' = "down" => send' = None,
         pc' \in {"down", "refund"} => pc = "refund"
  PROVE  Exclusive'
<1>1. claim = None /\ claim' = None
  BY DEF Exclusive, Placed
<1>2. Types'
  BY <1>1, Zenon DEF Exclusive, Types, counts
<1>3. Linked'
  BY DEF Linked
<1>4. Placed'
  BY <1>1 DEF Exclusive, Placed, Places
<1>5. ClaimXorSend'
  BY <1>1 DEF ClaimXorSend
<1> QED
  BY <1>2, <1>3, <1>4, <1>5 DEF Exclusive

(* None is not a send with a transfer left.                                *)
LEMMA NotActive == ~Active(None)
BY DEF Active

LEMMA ExclusiveStep ==
  ASSUME Exclusive, Step PROVE Exclusive'
<1> DEFINE marked == [send EXCEPT !.uncertain = TRUE]
<1>1. pc = "step" /\ Active(send) /\ UNCHANGED <<link, claim, unsynced, network, counts>>
  BY DEF Step, Exclusive, Placed
<1>2. /\ send \in Record /\ disk \in {None} \cup Record /\ Next1(send) \in Record
      /\ marked \in Record /\ Active(marked)
  BY <1>1, ActiveRecord DEF Exclusive, Types
<1>3. NetworkTypes'
  BY <1>1 DEF Exclusive, Types, NetworkTypes, network
<1> HIDE DEF marked
<1>4. ASSUME NEW d \in {None} \cup Record, Kept(d) PROVE Exclusive'
  <2>1. pc' = "loop" /\ disk' = d /\ send' = send /\ quote' = quote /\ Active(send')
    BY <1>1, <1>4 DEF Kept, Active
  <2> QED
    BY <1>1, <1>2, <1>3, <2>1, ExclusiveSend DEF Places
<1>5. CASE Advance
  <2>1. CASE Kept(Next1(send))
    BY <1>2, <1>4, <2>1
  <2>2. CASE send' = Next1(send) /\ disk' = Next1(send) /\ pc' = "loop" /\ quote' = quote
    BY <1>1, <1>2, <1>3, <2>2, ExclusiveSend DEF Places
  <2> QED
    BY <1>5, <2>1, <2>2 DEF Advance, NotSynced
<1>6. CASE Superseded
  <2>1. CASE Kept(disk) \/ Kept(None)
    BY <1>2, <1>4, <2>1
  <2>2. CASE send' = None /\ disk' = None /\ pc' = "loop" /\ quote' = None
    BY <1>1, <1>2, <1>3, <2>2, ExclusiveSend, NotActive DEF Places
  <2> QED
    BY <1>6, <2>1, <2>2 DEF Superseded, GivesUp, Archive, NotSynced, Retained
<1>7. CASE Mark
  <2>1. /\ \/ pc' = "again" /\ UNCHANGED <<send, disk>>
           \/ pc' \in {"first", "loop"} /\ send' = marked /\ disk' \in {marked, disk}
        /\ quote' = quote
    BY <1>7 DEF Mark, marked
  <2>2. Active(send')
    BY <1>1, <1>2, <2>1 DEF Active
  <2>3. /\ pc' \in Places \ {"down", "mining", "quoting", "pay", "refund"}
        /\ send' \in Record /\ disk' \in {None} \cup Record
    BY <1>2, <2>1 DEF Places
  <2> QED
    BY <1>1, <1>3, <2>1, <2>2, <2>3, ExclusiveSend
<1>8. CASE Retained
  BY <1>2, <1>4, <1>8 DEF Retained
<1> QED
  BY <1>5, <1>6, <1>7, <1>8 DEF Step

LEMMA ExclusiveTransmit ==
  ASSUME Exclusive, NEW reply \in Replies, Transmit(reply) PROVE Exclusive'
<1>1. /\ pc \in {"first", "again"} /\ Broadcast(link, Current, reply) /\ Active(send)
      /\ UNCHANGED <<link, quote, claim, unsynced, chain, funded, counts>>
  BY DEF Transmit, Exclusive, Placed
<1>2. /\ send \in Record /\ disk \in {None} \cup Record
      /\ Unmarked \in Record /\ Active(Unmarked)
  BY <1>1, ActiveRecord DEF Exclusive, Types
<1>3. NetworkTypes'
  BY <1>1, CurrentTyped, BroadcastTyped DEF Exclusive, Types
<1>4. pc' \in {"fee", "loop"} /\ send' \in {send, Unmarked} /\ disk' \in {disk, Unmarked}
  BY Zenon DEF Transmit
<1>5. send' \in Record /\ disk' \in {None} \cup Record /\ Active(send')
  BY <1>1, <1>2, <1>4 DEF Active
<1> QED
  BY <1>1, <1>3, <1>4, <1>5, ExclusiveSend DEF Places

LEMMA ExclusiveAbandon ==
  ASSUME Exclusive, AbandonUnsent PROVE Exclusive'
<1>1. pc = "fee" /\ UNCHANGED <<link, claim, unsynced, network, counts>> /\ Active(send)
  BY DEF AbandonUnsent, Exclusive, Placed
<1>2. send \in Record /\ disk \in {None} \cup Record
  BY <1>1, ActiveRecord DEF Exclusive, Types
<1>3. NetworkTypes'
  BY <1>1 DEF Exclusive, Types, NetworkTypes, network
<1>4. /\ pc' = "loop" /\ quote' \in {quote, None}
      /\ \/ send' = send /\ disk' \in {disk, None}
         \/ send' = None /\ disk' = None
  BY DEF AbandonUnsent, GivesUp, Archive, NotSynced, Retained, Kept
<1>5. Active(disk') => Active(send')
  BY <1>1, <1>4, NotActive DEF Active
<1> QED
  BY <1>1, <1>2, <1>3, <1>4, <1>5, ExclusiveSend DEF Places

LEMMA ExclusiveSettle ==
  ASSUME Exclusive, Settle PROVE Exclusive'
<1>1. /\ pc = "refund" /\ Active(send)
      /\ UNCHANGED <<link, claim, unsynced, network, counts>>
  BY DEF Settle
<1>2. send \in Record /\ Next1(send) \in Record /\ disk \in {None} \cup Record
  BY <1>1, ActiveRecord DEF Exclusive, Types
<1>3. NetworkTypes'
  BY <1>1 DEF Exclusive, Types, NetworkTypes, network
<1>4. /\ quote' \in {quote, None}
      /\ \/ pc' = pc /\ send' = Next1(send) /\ disk' = Next1(send)
         \/ pc' = pc /\ send' = None /\ disk' = None
         \/ pc' = "down" /\ send' = None /\ disk' \in {disk, Next1(send), None}
  BY DEF Settle, Archive
<1> QED
  BY <1>1, <1>2, <1>3, <1>4, ExclusiveSend DEF Places

LEMMA ExclusiveRefund ==
  ASSUME Exclusive,
         RefundEnds \/ \E c \in Coins, reply \in Replies : RefundPay(c, reply)
  PROVE  Exclusive'
<1>1. NetworkTypes'
  <2>1. CASE RefundEnds
    BY <2>1 DEF RefundEnds, Exclusive, Types, NetworkTypes, network
  <2>2. ASSUME NEW c \in Coins, NEW reply \in Replies, RefundPay(c, reply)
        PROVE  NetworkTypes'
    <3>1. Other(c) \in Transactions
      BY DEF Other, Tx, Transactions
    <3> QED
      BY <2>2, <3>1, BroadcastTyped DEF RefundPay, Exclusive, Types
  <2> QED
    BY <2>1, <2>2
<1>2. /\ pc = "refund" /\ UNCHANGED <<quote, disk, claim, unsynced, counts>>
      /\ UNCHANGED <<pc, send>> \/ (pc' = "down" /\ send' = None)
  BY DEF RefundEnds, RefundPay
<1> QED
  BY <1>1, <1>2 DEF Exclusive, Types, Linked, Placed, ClaimXorSend, Active, Places, counts

LEMMA ExclusiveSearch ==
  ASSUME Exclusive, Search PROVE Exclusive'
<1>1. claim' \in {claim, [coin |-> 0]} /\ claims' \in Nat
  BY DEF Search, Exclusive, Types
<1>2. [coin |-> 0] \in Claim
  BY DEF Claim
<1> QED
  BY <1>1, <1>2 DEF Search, Exclusive, Types, NetworkTypes, Linked, Placed, ClaimXorSend, Active,
     Places, network

LEMMA ExclusiveClaim ==
  ASSUME Exclusive, ClaimStep PROVE Exclusive'
<1>1. /\ pc = "loop" /\ claim \in Claim /\ ~Active(send)
      /\ UNCHANGED <<link, quote, send, disk, unsynced, network, counts>>
  BY DEF ClaimStep, Exclusive, Types, Placed
<1>2. \/ claim' = None /\ pc' = "loop"
      \/ claim' \in Claim /\ claim'.coin # 0 /\ pc' = "pay"
  <2>1. ASSUME NEW c \in Spendable(link) PROVE [coin |-> c] \in Claim /\ c # 0
    BY PotBounds DEF Spendable, Exclusive, Types, NetworkTypes, Claim
  <2>2. \/ claim' = None /\ pc' = "loop"
        \/ pc' = "pay" /\ \E c \in Spendable(link) : claim' = [coin |-> c]
        \/ claim.coin # 0 /\ pc' = "pay" /\ UNCHANGED claim
    BY DEF ClaimStep
  <2> QED
    BY <1>1, <2>1, <2>2
<1> QED
  BY <1>1, <1>2, Nones DEF Exclusive, Types, NetworkTypes, Linked, Placed, ClaimXorSend, Active,
     Places, network, counts

LEMMA ExclusivePay ==
  ASSUME Exclusive, NEW reply \in Replies, Pay(reply) PROVE Exclusive'
<1>1. /\ pc = "pay" /\ pc' = "loop" /\ Broadcast(link, ClaimTx, reply)
      /\ UNCHANGED <<link, quote, send, disk, claim, unsynced, chain, funded, counts>>
  BY DEF Pay, journals
<1>2. ClaimTx \in Transactions
  <2>1. claim \in Claim /\ claim.coin \in Coins /\ claims \in Nat
    BY <1>1 DEF Exclusive, Types, Placed, Claim
  <2> QED
    BY <2>1 DEF ClaimTx, Tx, Transactions
<1>3. NetworkTypes'
  BY <1>1, <1>2, BroadcastTyped DEF Exclusive, Types
<1> QED
  BY <1>1, <1>3 DEF Exclusive, Types, Linked, Placed, ClaimXorSend, Active, Places, counts

(* A step of any process keeps the invariant.                              *)
LEMMA ExclusiveNext ==
  ASSUME Exclusive, [Next]_vars PROVE Exclusive'
<1>1. CASE Start \/ RefundStart
  BY <1>1, ExclusiveStart
<1>2. CASE Crash
  BY <1>2, ExclusiveCrash
<1>3. CASE Reconnect
  BY <1>3, ExclusiveReconnect
<1>4. CASE Thread
  BY <1>4, ExclusivePoll, ExclusiveQuoted, ExclusiveConfirm, ExclusiveStep, ExclusiveTransmit,
     ExclusiveAbandon, ExclusiveSearch, ExclusiveClaim, ExclusivePay DEF Thread
<1>5. CASE Refund
  BY <1>1, <1>5, ExclusiveSettle, ExclusiveRefund DEF Refund
<1>6. CASE Dashboard \/ UNCHANGED vars
  <2>1. UNCHANGED <<link, network, pc, quote, journals, counts>>
    BY <1>6 DEF Dashboard, Edit, Enter, BadPaste, Draw, Presented, Confirm, Cancel, UiStep, vars
  <2>2. NetworkTypes'
    BY <2>1 DEF Exclusive, Types, NetworkTypes, network
  <2> QED
    BY <2>1, <2>2, ExclusiveKept
<1>7. CASE Network
  <2>1. UNCHANGED <<pc, quote, journals, counts>>
    BY <1>7 DEF Network, Mining, Fund, Bury, Outside, Relay, Evict, Mine
  <2> QED
    BY <1>7, <2>1, NetworkTyped, ExclusiveKept DEF Exclusive, Types
<1> QED
  BY <1>1, <1>2, <1>3, <1>4, <1>5, <1>6, <1>7 DEF Next

(* The claim journal and the send journal never both hold work, whatever   *)
(* crashes, and whether or not the marks are saved, unless an approval was *)
(* in place when the sync of its directory failed: only then is a start    *)
(* refused for both (mine, refund and save).                               *)
THEOREM ClaimOrSend == Spec => []ClaimXorSend
<1>1. Init => Exclusive
  BY ExclusiveInit
<1>2. Exclusive /\ [Next]_vars => Exclusive'
  BY ExclusiveNext
<1>3. Exclusive => ClaimXorSend
  BY DEF Exclusive
<1> QED
  BY <1>1, <1>2, <1>3, PTL DEF Spec

---------------------------------------------------------------------------
(* What is on the network.                                                 *)

LEMMA SentIs ==
  ASSUME NEW t
  PROVE  t \in Sent <=>
           \/ \E s \in Servers : t \in pool[s]
           \/ t # None /\ \E c \in Coins : chain[c] = t
<1>1. t \in UNION {pool[s] : s \in Servers} <=> \E s \in Servers : t \in pool[s]
  OBVIOUS
<1>2. t \in {chain[c] : c \in Coins} <=> \E c \in Coins : chain[c] = t
  OBVIOUS
<1> QED
  BY <1>1, <1>2 DEF Sent

LEMMA SentIsPrimed ==
  ASSUME NEW t
  PROVE  t \in Sent' <=>
           \/ \E s \in Servers : t \in pool'[s]
           \/ t # None /\ \E c \in Coins : chain'[c] = t
<1>1. t \in UNION {pool'[s] : s \in Servers} <=> \E s \in Servers : t \in pool'[s]
  OBVIOUS
<1>2. t \in {chain'[c] : c \in Coins} <=> \E c \in Coins : chain'[c] = t
  OBVIOUS
<1> QED
  BY <1>1, <1>2 DEF Sent

LEMMA SentTyped ==
  ASSUME NetworkTypes, NEW t \in Sent
  PROVE  t \in Transactions
BY SentIs DEF NetworkTypes

(* The network brings no transfer that was not on it.                      *)
LEMMA NetworkSent ==
  ASSUME NetworkTypes, Consistent, Network
  PROVE  Consistent' /\ \A t \in Sent' : t \in Sent \/ t.use = "other"
<1>0. ASSUME NEW c \in Coins, Bury(c)
      PROVE  Consistent' /\ \A t \in Sent' : t \in Sent \/ t.use = "other"
  BY <1>0 DEF Bury, Consistent, Sent
<1>1. ASSUME NEW c \in Coins, Fund(c)
      PROVE  Consistent' /\ \A t \in Sent' : t \in Sent \/ t.use = "other"
  BY <1>1 DEF Fund, Consistent, Sent
<1>2. ASSUME NEW c \in Coins, NEW s \in Servers, Outside(s, c)
      PROVE  Consistent' /\ \A t \in Sent' : t \in Sent \/ t.use = "other"
  <2>1. /\ pool' = [pool EXCEPT ![s] = @ \cup {Other(c)}] /\ chain' = chain
        /\ chain[c] = None
    BY <1>2 DEF Outside, Spendable, Free
  <2>2. Other(c).coin = c /\ Other(c).use = "other"
    BY DEF Other, Tx
  <2> QED
    BY <2>1, <2>2, SentIs, SentIsPrimed DEF NetworkTypes, Consistent
<1>3. ASSUME NEW s \in Servers, NEW u \in Sent, Relay(s, u)
      PROVE  Consistent' /\ \A t \in Sent' : t \in Sent \/ t.use = "other"
  <2>1. pool' = [pool EXCEPT ![s] = @ \cup {u}] /\ chain' = chain /\ chain[u.coin] = None
    BY <1>3 DEF Relay, Free
  <2> QED
    BY <2>1, SentIs, SentIsPrimed DEF NetworkTypes, Consistent
<1>4. ASSUME NEW s \in Servers, NEW u \in Sent, Evict(s, u)
      PROVE  Consistent' /\ \A t \in Sent' : t \in Sent \/ t.use = "other"
  <2>1. pool' = [pool EXCEPT ![s] = @ \ {u}] /\ chain' = chain
    BY <1>4 DEF Evict
  <2> QED
    BY <2>1, SentIs, SentIsPrimed DEF NetworkTypes, Consistent
<1>5. ASSUME NEW u \in Sent, Mine(u)
      PROVE  Consistent' /\ \A t \in Sent' : t \in Sent \/ t.use = "other"
  <2>1. u \in Transactions /\ u.coin \in Coins /\ u # None
    BY SentTyped, Nones DEF Transactions
  <2>2. /\ chain' = [chain EXCEPT ![u.coin] = u]
        /\ pool' = [s \in Servers |-> {t \in pool[s] : t.coin # u.coin}]
    BY <1>5 DEF Mine
  <2>3. \A t \in Sent' : t \in Sent
    BY <2>1, <2>2, SentIs, SentIsPrimed DEF NetworkTypes
  <2>4. \A s \in Servers : \A t \in pool[s] : t \in Transactions /\ t.coin \in Coins
    BY DEF NetworkTypes, Transactions
  <2>5. Consistent'
    BY <2>1, <2>2, <2>4 DEF NetworkTypes, Consistent
  <2> QED
    BY <2>3, <2>5
<1> QED
  BY <1>0, <1>1, <1>2, <1>3, <1>4, <1>5 DEF Network, Mining

(* A spent coin stays spent.                                               *)
LEMMA StaysSpent ==
  ASSUME NetworkTypes, Network, NEW c \in Coins, chain[c] # None
  PROVE  chain'[c] # None
<1>1. CASE chain' = chain
  BY <1>1
<1>2. ASSUME NEW t \in Sent, Mine(t) PROVE chain'[c] # None
  <2>1. t # None /\ chain' = [chain EXCEPT ![t.coin] = t]
    BY <1>2, SentTyped, Nones DEF Mine
  <2> QED
    BY <2>1 DEF NetworkTypes
<1> QED
  BY <1>1, <1>2 DEF Network, Mining, Fund, Bury, Outside, Relay, Evict

LEMMA BroadcastSent ==
  ASSUME NetworkTypes, Consistent, NEW t \in Transactions, NEW reply \in Replies,
         Broadcast(link, t, reply), UNCHANGED <<chain, funded, link>>
  PROVE  Consistent' /\ Sent' \subseteq Sent \cup {t}
<1>1. CASE pool' = pool
  BY <1>1 DEF Consistent, Sent
<1>2. CASE pool' = [pool EXCEPT ![link] = @ \cup {t}] /\ Free(link, t.coin)
  <2>1. chain[t.coin] = None
    BY <1>2 DEF Free
  <2> QED
    BY <1>2, <2>1, SentIs, SentIsPrimed DEF NetworkTypes, Consistent
<1> QED
  BY <1>1, <1>2, BroadcastAdds

---------------------------------------------------------------------------
(* The send's history.                                                     *)

(* What becomes of a record that is not sent.                              *)
LEMMA FreshKept ==
  ASSUME NEW r, NEW sent, NEW sent2, NEW n \in Nat, NEW n2 \in Nat, NEW gone,
         Fresh(r, sent, n, gone), n <= n2,
         \A t \in sent2 : t \in sent \/ t.use # "send"
  PROVE  Fresh(r, sent2, n2, gone)
<1>1. SUFFICES ASSUME r # None PROVE Fresh(r, sent2, n2, gone)
  BY DEF Fresh
<1>2. \A i : Transfer(r, i).use = "send"
  BY DEF Transfer, Tx
<1>3. \A i : Transfer(r, i) \in sent2 => Transfer(r, i) \in sent
  BY <1>2
<1>4. r.id \in 1..n2
  BY <1>1 DEF Fresh
<1> QED
  BY <1>1, <1>3, <1>4, Zenon DEF Fresh

LEMMA FreshNext ==
  ASSUME NEW r \in Record, NEW sent, NEW n, NEW gone, Fresh(r, sent, n, gone)
  PROVE  Fresh(Next1(r), sent, n, gone) /\ Next1(r).id = r.id
<1> DEFINE q == Next1(r)
<1>1. q.id = r.id /\ q.coins = r.coins /\ q.next = r.next + 1
  BY DEF Next1, Record
<1>2. r # None /\ r.next \in Nat /\ Len(r.coins) \in Nat
  BY Nones DEF Record
<1> HIDE DEF q
<1>3. \A i : Transfer(q, i) = Transfer(r, i)
  BY <1>1 DEF Transfer
<1>4. \A i \in r.next + 1..Len(r.coins) : Transfer(q, i) \notin sent
  BY <1>2, <1>3 DEF Fresh
<1>5. Active(q) => Transfer(q, q.next) \notin sent
  BY <1>1, <1>2, <1>4 DEF Active
<1>6. \A i \in q.next + 1..Len(q.coins) : Transfer(q, i) \notin sent
  BY <1>1, <1>2, <1>4
<1>7. q.id \in 1..n /\ Distinct(q.coins) /\ \A t \in gone : t.n # q.id
  BY <1>1, <1>2, Zenon DEF Fresh
<1> QED
  BY <1>1, <1>5, <1>6, <1>7, Zenon DEF Fresh, q

(* A record with another mark, where that mark is right.                   *)
LEMMA FreshMarked ==
  ASSUME NEW r \in Record, NEW q \in Record, NEW sent, NEW n, NEW gone,
         Fresh(r, sent, n, gone),
         q.id = r.id, q.coins = r.coins, q.next = r.next,
         q.uncertain \/ Transfer(r, r.next) \notin sent
  PROVE  Fresh(q, sent, n, gone)
<1>1. r # None
  BY Nones
<1>2. \A i : Transfer(q, i) = Transfer(r, i)
  BY DEF Transfer
<1> QED
  BY <1>1, <1>2, Zenon DEF Fresh

(* A broadcast of the next transfer of r reaches no later one, of r or of  *)
(* the journal of r.                                                       *)
LEMMA FreshSent ==
  ASSUME NEW r \in Record, NEW q \in Record, NEW sent, NEW sent2, NEW n, NEW gone,
         Active(r), Fresh(q, sent, n, gone), Twin(r, q), r.uncertain,
         sent2 \subseteq sent \cup {Transfer(r, r.next)}
  PROVE  Fresh(q, sent2, n, gone)
<1>1. q # None
  BY Nones
<1>2. /\ r.next \in Nat \ {0} /\ r.coins \in Seq(Coins) /\ r.next <= Len(r.coins)
      /\ q.id = r.id /\ q.coins = r.coins /\ Distinct(q.coins)
  BY <1>1, Zenon DEF Record, Active, Twin, Fresh
<1>3. ASSUME NEW i \in r.next + 1..Len(r.coins) PROVE Transfer(q, i) # Transfer(r, r.next)
  <2>1. Transfer(q, i).coin = r.coins[i] /\ Transfer(r, r.next).coin = r.coins[r.next]
    BY <1>2 DEF Transfer, Tx
  <2>2. i \in 1..Len(r.coins) /\ r.next \in 1..Len(r.coins) /\ i # r.next
    BY <1>2, <1>3
  <2>3. r.coins[i] # r.coins[r.next]
    BY <1>2, <2>2, Zenon DEF Distinct
  <2> QED
    BY <2>1, <2>3
<1>4. ASSUME NEW i \in q.next + 1..Len(q.coins) PROVE Transfer(q, i) \notin sent2
  <2>1. i \in r.next + 1..Len(r.coins)
    BY <1>2, <1>4 DEF Twin
  <2>2. Transfer(q, i) \notin sent
    BY <1>1, <1>4, Zenon DEF Fresh
  <2> QED
    BY <1>3, <2>1, <2>2
<1>5. ASSUME Active(q), ~q.uncertain PROVE Transfer(q, q.next) \notin sent2
  <2>1. q.next \in r.next + 1..Len(r.coins)
    BY <1>2, <1>5 DEF Twin, Active
  <2>2. Transfer(q, q.next) \notin sent
    BY <1>1, <1>5, Zenon DEF Fresh
  <2> QED
    BY <1>3, <2>1, <2>2
<1> QED
  BY <1>1, <1>4, <1>5, Zenon DEF Fresh

LEMMA SafeInit ==
  ASSUME Init PROVE Safe
<1>1. Sent = {}
  BY SentIs DEF Init
<1> QED
  BY <1>1, ExclusiveInit DEF Init, Safe, Unpublished, Fresh, Paired, Active, Newest, Attempts,
     Consistent, Numbered, AbandonedIsDead

(* The journal stays, and no transfer comes to the network.                *)
LEMMA SafeKept ==
  ASSUME Safe, Exclusive', Consistent', UNCHANGED <<disk, quotes, abandoned>>,
         quote' \in {quote, None}, send' \in {send, disk, None},
         pc' \in {"first", "again", "fee"} => pc' = pc /\ send' = send,
         \A t \in Sent' : t \in Sent \/ t.use # "send",
         \A c \in Coins : chain[c] # None => chain'[c] # None
  PROVE  Safe'
<1>1. Unpublished'
  <2>1. quotes \in Nat /\ quotes <= quotes
    BY DEF Safe, Exclusive, Types
  <2>2. Fresh(send, Sent', quotes, abandoned) /\ Fresh(disk, Sent', quotes, abandoned)
    BY <2>1, FreshKept DEF Safe, Unpublished
  <2>3. Fresh(None, Sent', quotes, abandoned)
    BY DEF Fresh
  <2> QED
    BY <2>2, <2>3, Zenon DEF Unpublished
<1>2. \A i : Transfer(send, i) \in Sent' => Transfer(send, i) \in Sent
  BY DEF Transfer, Tx
<1>3. Paired'
  <2>1. CASE send' = send
    <3>1. SUFFICES ASSUME Active(send) PROVE Paired'
      BY <2>1 DEF Paired, Active
    <3>2. Current' = Current
      BY <2>1 DEF Current, Transfer
    <3>3. Current.coin \in Coins
      BY <3>1, CurrentTyped DEF Safe, Exclusive, Transactions
    <3>4. Current \in Sent' => Current \in Sent
      BY <1>2 DEF Current
    <3> QED
      BY <2>1, <3>1, <3>2, <3>3, <3>4, Zenon DEF Safe, Paired
  <2>2. CASE send' = disk
    <3>1. SUFFICES ASSUME Active(disk) PROVE Paired'
      BY <2>2 DEF Paired, Active
    <3> QED
      BY <2>2, <3>1 DEF Paired, Twin, Active
  <2>3. CASE send' = None
    BY <2>3 DEF Paired, Active
  <2> QED
    BY <2>1, <2>2, <2>3
<1>4. Newest'
  BY DEF Safe, Newest
<1>5. Attempts'
  BY <1>2, Zenon DEF Safe, Attempts, Current, Transfer
<1>6. Numbered' /\ AbandonedIsDead'
  BY DEF Safe, Numbered, AbandonedIsDead
<1> QED
  BY <1>1, <1>3, <1>4, <1>5, <1>6 DEF Safe

LEMMA SameSent ==
  ASSUME UNCHANGED network
  PROVE  Sent' = Sent /\ chain' = chain /\ (Consistent => Consistent')
BY DEF network, Sent, Consistent

LEMMA SafeQuoted ==
  ASSUME Safe, Exclusive', Quoted PROVE Safe'
<1>1. /\ UNCHANGED <<network, send, disk, abandoned>> /\ pc' \in {"mining", "loop"}
      /\ ~Active(send)
  BY DEF Quoted, journals, Safe, Exclusive, Placed
<1>2. Sent' = Sent /\ chain' = chain /\ Consistent'
  BY <1>1, SameSent DEF Safe
<1>3. CASE UNCHANGED <<quote, quotes>>
  BY <1>1, <1>2, <1>3, SafeKept
<1>4. ASSUME NEW plan \in Plans(Spendable(link)), quotes' = quotes + 1,
             quote' = [id |-> quotes + 1, coins |-> plan]
      PROVE  Safe'
  <2>1. Distinct(plan) /\ quotes \in Nat /\ quotes + 1 \in Nat /\ quotes <= quotes + 1
    BY PlansAre DEF Safe, Exclusive, Types
  <2>2. quote'.id = quotes + 1 /\ quote'.coins = plan
    BY <1>4
  <2>3. Unpublished'
    <3>1. /\ Fresh(send, Sent, quotes + 1, abandoned)
          /\ Fresh(disk, Sent, quotes + 1, abandoned)
      BY <2>1, FreshKept DEF Safe, Unpublished
    <3> QED
      BY <1>1, <1>2, <1>4, <3>1, Zenon DEF Unpublished
  <2>4. \A t \in abandoned : t.n \in Nat /\ t.n <= quotes
    BY DEF Safe, Numbered, Transactions
  <2>5. \A t \in Sent : t.n \in Nat /\ (t.use = "send" => t.n <= quotes)
    BY SentTyped DEF Safe, Exclusive, Types, Numbered, Transactions
  <2>6. Newest'
    <3>1. /\ send # None => send.id \in 1..quotes
          /\ disk # None => disk.id \in 1..quotes
      BY Zenon DEF Safe, Unpublished, Fresh
    <3> QED
      BY <1>1, <1>2, <1>4, <2>1, <2>2, <2>4, <2>5, <3>1 DEF Newest
  <2>7. Numbered'
    BY <1>1, <1>2, <1>4, <2>1, <2>4, <2>5 DEF Safe, Numbered
  <2>8. Paired' /\ Attempts' /\ AbandonedIsDead'
    BY <1>1, <1>2 DEF Safe, Paired, Active, Attempts, AbandonedIsDead
  <2> QED
    BY <1>2, <2>3, <2>6, <2>7, <2>8 DEF Safe
<1> QED
  BY <1>3, <1>4 DEF Quoted

LEMMA SafeConfirm ==
  ASSUME Safe, Exclusive', PollConfirm PROVE Safe'
<1> DEFINE new == [id |-> quote.id, coins |-> quote.coins, next |-> 1, uncertain |-> FALSE]
<1>1. /\ \/ quote # None /\ disk' = new /\ send' \in {send, new}
         \/ UNCHANGED <<send, disk>>
      /\ quote' = None /\ pc' \in {"step", "loop"} /\ ~Active(send)
      /\ UNCHANGED <<network, quotes, abandoned>>
  BY DEF PollConfirm, counts
<1>2. Sent' = Sent /\ chain' = chain /\ Consistent'
  BY <1>1, SameSent DEF Safe
<1>3. CASE UNCHANGED <<send, disk>>
  BY <1>1, <1>2, <1>3, SafeKept
<1>4. CASE quote # None /\ disk' = new /\ send' \in {send, new}
  <2>1. quote \in Quote /\ quote.id = quotes /\ quotes \in Nat \ {0} /\ Distinct(quote.coins)
    BY <1>4 DEF Safe, Newest, Exclusive, Types
  <2>2. /\ new.id = quotes /\ new.coins = quote.coins /\ new.next = 1 /\ new \in Record
    BY <2>1 DEF Record, Quote
  <2> HIDE DEF new
  <2>3. \A t \in Sent : t.n \in Nat /\ (t.use = "send" => t.n < quotes)
    BY <1>4, SentTyped DEF Safe, Newest, Exclusive, Types, Transactions
  <2>4. \A i : Transfer(new, i).use = "send" /\ Transfer(new, i).n = quotes
    BY <2>2 DEF Transfer, Tx
  <2>5. \A i : Transfer(new, i) \notin Sent
    BY <2>1, <2>3, <2>4
  <2>6. \A t \in abandoned : t.n # quotes
    BY <1>4, <2>1 DEF Safe, Newest, Numbered, Transactions
  <2>7. Fresh(new, Sent, quotes, abandoned)
    BY <2>1, <2>2, <2>5, <2>6 DEF Fresh
  <2>8. Unpublished'
    BY <1>1, <1>2, <1>4, <2>7, Zenon DEF Safe, Unpublished
  <2>9. Paired'
    <3>1. Active(send') => send' = disk' /\ send' # None
      BY <1>1, <1>4 DEF Active
    <3> QED
      BY <3>1 DEF Paired, Twin
  <2>10. Newest' /\ Attempts'
    BY <1>1 DEF Newest, Attempts
  <2>11. Numbered' /\ AbandonedIsDead'
    BY <1>1, <1>2 DEF Safe, Numbered, AbandonedIsDead
  <2> QED
    BY <1>2, <2>8, <2>9, <2>10, <2>11 DEF Safe
<1> QED
  BY <1>1, <1>3, <1>4

(* The next transfer becomes the journal's current one, and memory's, if   *)
(* the save is known to have been made.                                    *)
LEMMA SafeAdvance ==
  ASSUME Safe, Exclusive', Active(send), UNCHANGED <<network, quotes, abandoned>>,
         disk' = Next1(send), send' \in {send, Next1(send), None}, quote' = quote,
         pc' \in {"loop", "refund", "down"}
  PROVE  Safe'
<1>1. Sent' = Sent /\ chain' = chain /\ Consistent'
  BY SameSent DEF Safe
<1>2. send \in Record /\ send # None /\ Next1(send) \in Record
  BY ActiveRecord, Nones DEF Safe
<1>3. /\ Fresh(Next1(send), Sent, quotes, abandoned) /\ Next1(send).id = send.id
      /\ Fresh(send, Sent, quotes, abandoned)
  BY <1>2, FreshNext, Zenon DEF Safe, Unpublished
<1>4. Unpublished'
  <2>1. Fresh(None, Sent, quotes, abandoned)
    BY DEF Fresh
  <2> QED
    BY <1>1, <1>3, <2>1, Zenon DEF Unpublished
<1>5. Paired'
  <2>1. Twin(send, Next1(send))
    BY <1>2 DEF Twin, Next1, Record
  <2>2. Twin(Next1(send), Next1(send))
    BY DEF Twin
  <2>3. disk' # None
    BY <1>2, Nones
  <2>4. ~Active(None)
    BY NotActive
  <2> QED
    BY <2>1, <2>2, <2>3, <2>4, Zenon DEF Paired
<1>6. Newest'
  BY <1>1, <1>2, <1>3 DEF Safe, Newest
<1>7. Attempts' /\ Numbered' /\ AbandonedIsDead'
  BY <1>1 DEF Safe, Attempts, Numbered, AbandonedIsDead
<1> QED
  BY <1>1, <1>4, <1>5, <1>6, <1>7 DEF Safe

(* A send is given up only when its transfer is nowhere on the network.    *)
LEMMA SafeArchive ==
  ASSUME Safe, Exclusive', Active(send), UNCHANGED <<network, quotes>>,
         abandoned' = abandoned \cup Unsent(send), send' = None, disk' = None, quote' = None,
         Current \notin Sent, pc' \in {"loop", "refund", "down"}
  PROVE  Safe'
<1>1. Sent' = Sent /\ Consistent'
  BY SameSent DEF Safe
<1>2. send \in Record /\ send # None
  BY ActiveRecord, Nones DEF Safe
<1>3. /\ send.next \in Nat \ {0} /\ send.coins \in Seq(Coins) /\ send.id \in Nat
      /\ quotes \in Nat
  BY <1>2 DEF Record, Safe, Exclusive, Types
<1>4. ASSUME NEW i \in send.next..Len(send.coins)
      PROVE  /\ Transfer(send, i) \notin Sent
             /\ Transfer(send, i) \in Transactions
             /\ Transfer(send, i).use = "send" /\ Transfer(send, i).n <= quotes
  <2>1. Transfer(send, i) \notin Sent
    <3>1. CASE i = send.next
      BY <3>1 DEF Current
    <3>2. CASE i # send.next
      <4>1. i \in send.next + 1..Len(send.coins)
        BY <1>3, <3>2
      <4> QED
        BY <1>2, <4>1, Zenon DEF Safe, Unpublished, Fresh
    <3> QED
      BY <3>1, <3>2
  <2>2. send.coins[i] \in Coins
    BY <1>3
  <2>3. send.id \in 1..quotes
    BY <1>2, Zenon DEF Safe, Unpublished, Fresh
  <2>4. Transfer(send, i) \in Transactions
    BY <1>3, <2>2 DEF Transfer, Tx, Transactions
  <2>5. Transfer(send, i).use = "send" /\ Transfer(send, i).n = send.id
    BY DEF Transfer, Tx
  <2>6. send.id <= quotes
    BY <1>3, <2>3
  <2> QED
    BY <2>1, <2>4, <2>5, <2>6, Zenon
<1>5. \A t \in Unsent(send) : /\ t \notin Sent /\ t \in Transactions
                              /\ t.use = "send" /\ t.n <= quotes
  BY <1>4, Zenon DEF Unsent
<1>6. Unpublished' /\ Paired' /\ Newest' /\ Attempts'
  BY NotActive DEF Unpublished, Fresh, Paired, Newest, Attempts
<1>7. \A t \in abandoned' : /\ t \notin Sent' /\ t \in Transactions
                            /\ t.use = "send" /\ t.n <= quotes'
  BY <1>1, <1>5 DEF Safe, Numbered, AbandonedIsDead
<1>8. Numbered' /\ AbandonedIsDead'
  BY <1>1, <1>7 DEF Safe, Numbered, AbandonedIsDead
<1> QED
  BY <1>1, <1>6, <1>8 DEF Safe

(* A journal is archived, but not known to be.                             *)
LEMMA SafeOrphan ==
  ASSUME Safe, Exclusive', Active(send), UNCHANGED <<network, quotes>>, Kept(None),
         Current \notin Sent, send.uncertain => chain[Current.coin] # None
  PROVE  Safe'
<1>1. Sent' = Sent /\ chain' = chain /\ Consistent'
  BY SameSent DEF Safe
<1>2. pc' = "loop" /\ disk' = None /\ UNCHANGED <<send, quote, abandoned>>
  BY DEF Kept
<1>3. Current' = Current
  BY <1>2 DEF Current, Transfer
<1>4. Fresh(None, Sent, quotes, abandoned)
  BY DEF Fresh
<1>5. Unpublished'
  BY <1>1, <1>2, <1>4, Zenon DEF Safe, Unpublished
<1>6. Paired'
  BY <1>1, <1>2, <1>3, Zenon DEF Paired
<1>7. Newest' /\ Attempts' /\ Numbered' /\ AbandonedIsDead'
  BY <1>1, <1>2 DEF Safe, Newest, Attempts, Numbered, AbandonedIsDead
<1> QED
  BY <1>1, <1>5, <1>6, <1>7 DEF Safe

(* Giving up a send whose transfer is nowhere on the network.              *)
LEMMA SafeGivesUp ==
  ASSUME Safe, Exclusive', Active(send), UNCHANGED <<network, quotes>>, GivesUp,
         Current \notin Sent, send.uncertain => chain[Current.coin] # None
  PROVE  Safe'
<1>1. CASE Archive /\ pc' = "loop"
  BY <1>1, SafeArchive DEF Archive
<1>2. CASE Retained
  <2>1. pc' = "loop" /\ UNCHANGED <<send, disk, quote, abandoned>>
    BY <1>2 DEF Retained, Kept
  <2> QED
    BY <2>1, SameSent, SafeKept DEF Safe
<1>3. CASE Kept(None)
  BY <1>3, SafeOrphan
<1> QED
  BY <1>1, <1>2, <1>3 DEF GivesUp, NotSynced

(* A coin that another confirmed transaction spent leaves its transfer     *)
(* nowhere to be.                                                          *)
LEMMA OvertakenIsDead ==
  ASSUME Safe, Active(send), Overtaken
  PROVE  Current \notin Sent /\ chain[Current.coin] # None
<1>1. Current \in Transactions /\ Current.coin \in Coins
  BY CurrentTyped DEF Safe, Exclusive, Transactions
<1>2. chain[Current.coin] # None /\ chain[Current.coin] # Current
  BY DEF Overtaken, Published
<1>3. \A s \in Servers : Current \notin pool[s]
  BY <1>2 DEF Safe, Consistent
<1>4. \A c \in Coins : chain[c] = Current => c = Current.coin
  BY <1>1, Nones DEF Safe, Consistent
<1> QED
  BY <1>2, <1>3, <1>4, SentIs

(* The record is marked, in memory and in the journal.                     *)
LEMMA SafeMark ==
  ASSUME Safe, Exclusive', Active(send), UNCHANGED <<network, quotes, quote, abandoned>>,
         ~send.uncertain, send' = [send EXCEPT !.uncertain = TRUE], disk' = send',
         pc' \in {"first", "loop"}
  PROVE  Safe'
<1>1. Sent' = Sent /\ chain' = chain /\ Consistent'
  BY SameSent DEF Safe
<1>2. send \in Record /\ send # None /\ send' \in Record /\ send' # None
  BY ActiveRecord, Nones DEF Safe
<1>3. /\ send'.id = send.id /\ send'.coins = send.coins /\ send'.next = send.next
      /\ send'.uncertain
  BY <1>2 DEF Record
<1>4. Fresh(send', Sent, quotes, abandoned)
  BY <1>2, <1>3, FreshMarked DEF Safe, Unpublished
<1>5. Unpublished'
  BY <1>1, <1>4, Zenon DEF Unpublished
<1>6. Paired'
  BY <1>2 DEF Paired, Twin
<1>7. Newest'
  BY <1>1, <1>2, <1>3 DEF Safe, Newest
<1>8. Attempts'
  <2>1. Current \notin Sent
    BY <1>2, Zenon DEF Safe, Unpublished, Fresh, Current
  <2>2. Current' = Current
    BY <1>3 DEF Current, Transfer
  <2> QED
    BY <1>1, <1>3, <2>1, <2>2 DEF Attempts
<1>9. Numbered' /\ AbandonedIsDead'
  BY <1>1 DEF Safe, Numbered, AbandonedIsDead
<1> QED
  BY <1>1, <1>5, <1>6, <1>7, <1>8, <1>9 DEF Safe

LEMMA SafeStep ==
  ASSUME ~MarkFails, Safe, Exclusive', Step PROVE Safe'
<1>1. pc = "step" /\ UNCHANGED <<network, quotes>> /\ Active(send)
  BY DEF Step, counts, Safe, Exclusive, Placed
<1>2. Sent' = Sent /\ chain' = chain /\ Consistent'
  BY <1>1, SameSent DEF Safe
<1>3. CASE Retained
  <2>1. pc' = "loop" /\ UNCHANGED <<send, disk, quote, abandoned>>
    BY <1>3 DEF Retained, Kept
  <2> QED
    BY <1>1, <1>2, <2>1, SafeKept
<1>4. CASE Advance
  <2>1. /\ disk' = Next1(send) /\ send' \in {send, Next1(send)} /\ pc' = "loop"
        /\ UNCHANGED <<quote, abandoned>>
    BY <1>4 DEF Advance, NotSynced, Kept
  <2> QED
    BY <1>1, <2>1, SafeAdvance
<1>5. CASE Superseded
  BY <1>1, <1>3, <1>5, SafeGivesUp, OvertakenIsDead DEF Superseded
<1>6. CASE Mark
  <2>1. \/ send.uncertain /\ pc' = "again" /\ UNCHANGED <<send, disk>>
        \/ /\ ~send.uncertain /\ send' = [send EXCEPT !.uncertain = TRUE]
           /\ disk' = send' /\ pc' \in {"first", "loop"}
    BY <1>6, Zenon DEF Mark
  <2>2. UNCHANGED <<quote, abandoned>> /\ chain[Current.coin] = None
    BY <1>6 DEF Mark, Spendable, Free
  <2>3. CASE send.uncertain /\ pc' = "again" /\ UNCHANGED <<send, disk>>
    <3>1. disk # None
      BY <1>1, <2>2, <2>3, Zenon DEF Safe, Paired
    <3>2. Current' = Current
      BY <2>3 DEF Current, Transfer
    <3>3. Unpublished' /\ Newest' /\ Numbered' /\ AbandonedIsDead'
      BY <1>1, <1>2, <2>2, <2>3 DEF Safe, Unpublished, Newest, Numbered, AbandonedIsDead
    <3>4. Paired' /\ Attempts'
      BY <1>1, <1>2, <2>3, <3>1, <3>2, Zenon DEF Safe, Paired, Attempts
    <3> QED
      BY <1>2, <3>3, <3>4 DEF Safe
  <2> QED
    BY <1>1, <2>1, <2>2, <2>3, SafeMark
<1> QED
  BY <1>3, <1>4, <1>5, <1>6 DEF Step

(* A refused first attempt takes the mark back.                            *)
LEMMA SafeUnmark ==
  ASSUME Safe, Exclusive', Active(send), pc = "first", pc' \in {"fee", "loop"},
         Sent' = Sent, Consistent', UNCHANGED <<chain, quotes, quote, abandoned>>,
         send' = Unmarked, disk' \in {disk, Unmarked}
  PROVE  Safe'
<1>1. /\ send \in Record /\ send # None /\ send' \in Record /\ send' # None
      /\ disk = send /\ Current \notin Sent
  BY ActiveRecord, Nones DEF Safe, Attempts
<1>2. /\ send'.id = send.id /\ send'.coins = send.coins /\ send'.next = send.next
      /\ ~send'.uncertain
  BY <1>1 DEF Unmarked, Record
<1>3. Fresh(send', Sent, quotes, abandoned)
  BY <1>1, <1>2, FreshMarked DEF Safe, Unpublished, Current
<1>4. Unpublished'
  BY <1>3, Zenon DEF Safe, Unpublished
<1>5. Paired'
  BY <1>1, <1>2 DEF Paired, Twin
<1>6. Newest'
  BY <1>1, <1>2 DEF Safe, Newest
<1>7. Attempts'
  BY <1>2 DEF Attempts
<1>8. Numbered' /\ AbandonedIsDead'
  BY DEF Safe, Numbered, AbandonedIsDead
<1> QED
  BY <1>4, <1>5, <1>6, <1>7, <1>8 DEF Safe

LEMMA SafeTransmit ==
  ASSUME Safe, Exclusive', NEW reply \in Replies, Transmit(reply) PROVE Safe'
<1>1. /\ pc \in {"first", "again"} /\ Broadcast(link, Current, reply)
      /\ UNCHANGED <<link, quote, chain, funded, quotes, abandoned>>
      /\ Active(send) /\ send.uncertain
  BY DEF Transmit, counts, Safe, Exclusive, Placed, Attempts
<1>2. /\ send \in Record /\ send # None /\ disk # None /\ disk \in Record
      /\ send.id \in 1..quotes /\ Twin(send, disk) /\ quotes \in Nat
  <2>1. send \in Record /\ send # None
    BY <1>1, ActiveRecord, Nones DEF Safe
  <2>2. disk # None
    BY <1>1, <2>1, Zenon DEF Safe, Attempts
  <2> QED
    BY <1>1, <2>1, <2>2, Zenon DEF Safe, Exclusive, Types, Unpublished, Fresh, Paired
<1>3. Current \in Transactions /\ Current.use = "send" /\ Current.n = send.id
  BY <1>1, CurrentTyped, Zenon DEF Safe, Exclusive, Current, Transfer, Tx
<1>4. Consistent' /\ Sent' \subseteq Sent \cup {Current}
  BY <1>1, <1>3, BroadcastSent, Zenon DEF Safe, Exclusive, Types
<1>5. CASE UNCHANGED <<send, disk>> /\ pc' = "loop"
  <2>1. Fresh(disk, Sent', quotes, abandoned)
    BY <1>1, <1>2, <1>4, FreshSent DEF Safe, Unpublished, Current
  <2>2. Fresh(send, Sent', quotes, abandoned)
    <3>1. Twin(send, send)
      BY DEF Twin
    <3> QED
      BY <1>1, <1>2, <1>4, <3>1, FreshSent DEF Safe, Unpublished, Current
  <2>3. Unpublished'
    BY <1>1, <1>5, <2>1, <2>2, Zenon DEF Unpublished
  <2>4. Paired'
    BY <1>2, <1>5, Zenon DEF Paired
  <2>5. Newest'
    BY <1>1, <1>2, <1>3, <1>4, <1>5 DEF Safe, Newest
  <2>6. Numbered'
    BY <1>1, <1>2, <1>3, <1>4 DEF Safe, Numbered
  <2>7. AbandonedIsDead'
    <3>1. \A t \in abandoned : t.n # send.id
      BY <1>2, Zenon DEF Safe, Unpublished, Fresh
    <3> QED
      BY <1>1, <1>3, <1>4, <3>1 DEF Safe, AbandonedIsDead
  <2> QED
    BY <1>4, <1>5, <2>3, <2>4, <2>5, <2>6, <2>7 DEF Safe, Attempts
<1>6. CASE pc = "first" /\ reply \in {"refused", "fee"}
  <2>1. /\ send' = Unmarked /\ disk' \in {disk, Unmarked} /\ pc' \in {"fee", "loop"}
        /\ pool' = pool
    BY <1>1, <1>6, Zenon DEF Transmit, Broadcast
  <2>2. Sent' = Sent
    BY <1>1, <2>1 DEF Sent
  <2> QED
    BY <1>1, <1>4, <1>6, <2>1, <2>2, SafeUnmark
<1> QED
  BY <1>1, <1>5, <1>6, Zenon DEF Transmit, Abandons, Replies

LEMMA SafeAbandon ==
  ASSUME Safe, Exclusive', AbandonUnsent PROVE Safe'
<1>1. pc = "fee" /\ UNCHANGED <<network, quotes>> /\ Active(send) /\ ~send.uncertain
  BY DEF AbandonUnsent, counts, Safe, Exclusive, Placed, Attempts
<1>2. Current \notin Sent
  BY <1>1, NotActive, Zenon DEF Safe, Unpublished, Fresh, Current
<1>3. CASE Retained
  <2>1. pc' = "loop" /\ UNCHANGED <<send, disk, quote, abandoned>>
    BY <1>3 DEF Retained, Kept
  <2> QED
    BY <1>1, <2>1, SameSent, SafeKept DEF Safe
<1>4. CASE GivesUp
  BY <1>1, <1>2, <1>4, SafeGivesUp
<1> QED
  BY <1>3, <1>4 DEF AbandonUnsent

LEMMA SafeSettle ==
  ASSUME Safe, Exclusive', Settle PROVE Safe'
<1>1. pc = "refund" /\ UNCHANGED <<network, quotes>> /\ Active(send)
  BY DEF Settle, counts
<1>2. /\ pc' \in {"refund", "down"}
      /\ \/ /\ disk' = Next1(send) /\ send' \in {None, Next1(send)}
            /\ UNCHANGED <<quote, abandoned>>
         \/ Overtaken /\ Archive
         \/ send' = None /\ UNCHANGED <<disk, quote, abandoned>>
  BY <1>1 DEF Settle
<1>3. CASE /\ disk' = Next1(send) /\ send' \in {None, Next1(send)}
           /\ UNCHANGED <<quote, abandoned>>
  BY <1>1, <1>2, <1>3, SafeAdvance
<1>4. CASE Overtaken /\ Archive
  BY <1>1, <1>2, <1>4, OvertakenIsDead, SafeArchive DEF Archive
<1>5. CASE send' = None /\ UNCHANGED <<disk, quote, abandoned>>
  BY <1>1, <1>2, <1>5, SameSent, SafeKept DEF Safe
<1> QED
  BY <1>2, <1>3, <1>4, <1>5

(* Every other step leaves the journal alone and sends no transfer.        *)
LEMMA SafeThread ==
  ASSUME ~MarkFails, Safe, Exclusive', Thread PROVE Safe'
<1>1. CASE PollRequest \/ PollNothing \/ PollActive \/ Search \/ ClaimStep
  <2>1. /\ UNCHANGED <<network, send, disk, quotes, abandoned>> /\ quote' \in {quote, None}
        /\ pc' \in {"quoting", "loop", "mining", "step", "pay"}
    BY <1>1 DEF PollRequest, PollNothing, PollActive, Search, ClaimStep, journals, counts
  <2> QED
    BY <2>1, SameSent, SafeKept DEF Safe
<1>2. ASSUME NEW reply \in Replies, Pay(reply) PROVE Safe'
  <2>1. /\ UNCHANGED <<link, chain, funded, send, disk, quote, quotes, abandoned>>
        /\ pc = "pay" /\ pc' = "loop" /\ Broadcast(link, ClaimTx, reply)
    BY <1>2 DEF Pay, journals, counts
  <2>2. claim \in Claim /\ claim.coin \in Coins /\ claims \in Nat
    BY <2>1 DEF Safe, Exclusive, Types, Placed, Claim
  <2>3. ClaimTx \in Transactions /\ ClaimTx.use = "claim"
    BY <2>2 DEF ClaimTx, Tx, Transactions
  <2>4. Consistent' /\ Sent' \subseteq Sent \cup {ClaimTx}
    BY <2>1, <2>3, BroadcastSent DEF Safe, Exclusive, Types
  <2> QED
    BY <2>1, <2>3, <2>4, SafeKept
<1> QED
  BY <1>1, <1>2, SafeQuoted, SafeConfirm, SafeStep, SafeTransmit, SafeAbandon DEF Thread

LEMMA SafeRefund ==
  ASSUME Safe, Exclusive', Refund PROVE Safe'
<1>1. CASE RefundStart \/ RefundEnds
  <2>1. /\ UNCHANGED <<network, disk, quote, quotes, abandoned>> /\ send' \in {disk, None}
        /\ pc' \in {"refund", "down"}
    BY <1>1 DEF RefundStart, RefundEnds, counts
  <2> QED
    BY <2>1, SameSent, SafeKept DEF Safe
<1>2. ASSUME NEW c \in Coins, NEW reply \in Replies, RefundPay(c, reply) PROVE Safe'
  <2>1. /\ UNCHANGED <<link, chain, funded, disk, quote, quotes, abandoned>>
        /\ send' \in {send, None}
        /\ pc' \in {"refund", "down"} /\ Broadcast(link, Other(c), reply)
    BY <1>2 DEF RefundPay, counts
  <2>2. Other(c) \in Transactions /\ Other(c).use = "other"
    BY DEF Other, Tx, Transactions
  <2>3. Consistent' /\ Sent' \subseteq Sent \cup {Other(c)}
    BY <2>1, <2>2, BroadcastSent DEF Safe, Exclusive, Types
  <2> QED
    BY <2>1, <2>2, <2>3, SafeKept
<1> QED
  BY <1>1, <1>2, SafeSettle DEF Refund

(* A crash gives up a send whose journal is archived, and nothing else.    *)
LEMMA SafeCrash ==
  ASSUME Safe, Exclusive', Crash PROVE Safe'
<1>1. /\ UNCHANGED <<network, disk, quotes>> /\ quote' = None /\ send' = None /\ pc' = "down"
  BY DEF Crash, counts
<1>2. CASE Active(send) /\ disk = None
  <2>1. abandoned' = abandoned \cup Unsent(send) /\ disk' = None
    BY <1>1, <1>2 DEF Crash
  <2>2. Current \notin Sent
    BY <1>2, Zenon DEF Safe, Paired
  <2> QED
    BY <1>1, <1>2, <2>1, <2>2, SafeArchive
<1>3. CASE ~(Active(send) /\ disk = None)
  <2>1. abandoned' = abandoned
    BY <1>3 DEF Crash
  <2> QED
    BY <1>1, <2>1, SameSent, SafeKept DEF Safe
<1> QED
  BY <1>2, <1>3

LEMMA SafeNext ==
  ASSUME ~MarkFails, Safe, [Next]_vars PROVE Safe'
<1>0. Exclusive'
  BY ExclusiveNext DEF Safe
<1>1. CASE Start \/ Reconnect \/ Dashboard \/ UNCHANGED vars
  <2>1. /\ UNCHANGED <<network, disk, quotes, abandoned>> /\ quote' \in {quote, None}
        /\ send' \in {send, disk}
        /\ pc' \in {"first", "again", "fee"} => pc' = pc /\ send' = send
    BY <1>1 DEF Start, Reconnect, Dashboard, Edit, Enter, BadPaste, Draw, Presented,
       Confirm, Cancel, UiStep, vars, journals, counts
  <2> QED
    BY <1>0, <2>1, SameSent, SafeKept DEF Safe
<1>2. CASE Network
  <2>1. UNCHANGED <<pc, send, disk, quote, quotes, abandoned>>
    BY <1>2 DEF Network, Mining, Fund, Bury, Outside, Relay, Evict, Mine, journals, counts
  <2>2. NetworkTypes /\ Consistent
    BY DEF Safe, Exclusive, Types
  <2>3. Consistent' /\ \A t \in Sent' : t \in Sent \/ t.use = "other"
    BY <1>2, <2>2, NetworkSent
  <2>4. \A c \in Coins : chain[c] # None => chain'[c] # None
    BY <1>2, <2>2, StaysSpent
  <2> QED
    BY <1>0, <2>1, <2>3, <2>4, SafeKept
<1> QED
  BY <1>0, <1>1, <1>2, SafeThread, SafeRefund, SafeCrash DEF Next

(* A send is abandoned only when it cannot confirm, for any pot, servers   *)
(* and faults: where the mark before a broadcast is saved, no transfer     *)
(* that was left to send is ever on the network once its send is archived  *)
(* (Transfers::step, abandon_unsent, settle).                              *)
THEOREM AbandonedCannotConfirm ==
  ASSUME ~MarkFails PROVE Spec => []AbandonedIsDead
<1>1. Init => Safe
  BY SafeInit
<1>2. Safe /\ [Next]_vars => Safe'
  BY SafeNext
<1>3. Safe => AbandonedIsDead
  BY DEF Safe
<1> QED
  BY <1>1, <1>2, <1>3, PTL DEF Spec

(* What a restart goes by: the record on disk says so when its next        *)
(* transfer may be on the network (mark_uncertain before link.broadcast).  *)
THEOREM RecordedBeforeSent ==
  ASSUME ~MarkFails PROVE Spec => []SentIsRecorded
<1>1. Init => Safe
  BY SafeInit
<1>2. Safe /\ [Next]_vars => Safe'
  BY SafeNext
<1>3. Safe => SentIsRecorded
  BY DEF Safe, Unpublished, Fresh, SentIsRecorded, Active
<1> QED
  BY <1>1, <1>2, <1>3, PTL DEF Spec
=============================================================================
