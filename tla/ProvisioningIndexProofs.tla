----------------------- MODULE ProvisioningIndexProofs -----------------------
(***************************************************************************)
(* Proofs about the two indices of a device: D, the one the owner counts   *)
(* up, and C, the contract's.                                              *)
(*                                                                         *)
(* Three layers of invariants.  BaseInv holds whatever happens: what a     *)
(* transaction on its way may still do, and that C is not 0 once a chain   *)
(* is stored.  SerialInv is about a device whose handlers never            *)
(* overlapped: D is at most C, because the handler that counts D up has    *)
(* seen its transaction mined, and one that was accepted by the node and   *)
(* reverts when it is mined does so because C went up meanwhile.  Hence    *)
(* storeKey's index is the one after C, and the windows follow one         *)
(* another.  A changeCurrentIndex that somebody else sends only moves C    *)
(* further.  AgreeInv is about a device with no fault at all, not even     *)
(* such a call: C is D, plus 1 between the transaction and the handler's   *)
(* update, and the chain at D + 1 is the handler's.                        *)
(***************************************************************************)
EXTENDS ProvisioningProofs

\* The transactions of an account that are sent and not mined.
Sent(a) == {pool[a][i] : i \in 1..Len(pool[a])}

Registering == {"register", "registering"}
Storing     == {"submit", "storing"}
Changing    == {"change", "changing"}
Updating    == {"update", "write"}

\* The handler waits for a transaction of the pool.
Pending(c) == conn[c].pc \in {"registering", "storing", "changing"} /\ conn[c].receipt = "none"

\* The call that a handler waits for.
Awaited(c, call) ==
    \/ conn[c].pc = "registering" /\ call = "regOwner"
    \/ conn[c].pc = "storing" /\ call = "storeKey"
    \/ conn[c].pc = "changing" /\ call = "changeCurrentIndex"

-----------------------------------------------------------------------------
(* Whatever happens.                                                         *)

\* What the contract has of a device.
ChainsFrom(r) ==
    /\ RCDs[r].isTaken => RCDs[r].owner = Owner
    /\ ~RCDs[r].isTaken => RCDs[r].currentIndex = 0
    /\ RCDs[r].currentIndex = 0 => \A i \in Index : ~RCDs[r].chains[i].isIndexExist
    /\ RCDs[r].currentIndex # 0 => getKey(r).isIndexExist

\* A registration that was mined and not yet reported.
Reported(c, r) ==
    conn[c].device = r /\ conn[c].pc = "registering" /\ conn[c].receipt = "successful"

\* The device waits for the answer on one connection at a time.
DevInv(r) == dev[r].slot <= block /\ (dev[r].pc # "wait" => dev[r].conn = NoConn)

\* What the owner has of a device.
OwnerInv(r) ==
    /\ rcds[r].registered => RCDs[r].isTaken
    /\ ~rcds[r].registered => rcds[r].currentIndex = 0
    /\ rcds[r].currentIndex # 0 => RCDs[r].currentIndex # 0
    /\ DevInv(r)
    /\ RCDs[r].isTaken /\ "lost" \notin faults[r] =>
           rcds[r].registered \/ \E c \in Conns : Reported(c, r)

HandlerInv(c) ==
    LET r == conn[c].device
        pc == conn[c].pc
    IN  /\ conn[c].slot <= block
        /\ pc \in {"index"} \union Storing \union Changing \union Updating => rcds[r].registered
        /\ Reported(c, r) => RCDs[r].isTaken
        /\ pc \in Storing => /\ conn[c].index # 0
                             /\ conn[c].index # 1 => RCDs[r].currentIndex # 0
        /\ pc = "storing" /\ conn[c].receipt # "none" => RCDs[r].currentIndex # 0
        /\ pc \in Changing \union Updating => RCDs[r].currentIndex # 0
        /\ pc = "write" => conn[c].index # 0

\* A transaction has its handler waiting for it, with the same arguments, or nobody.
TxOf(a, t) ==
    /\ t.device = conn[t.conn].device /\ conn[t.conn].pc # "unused"
    /\ t.start <= block
    /\ (t.call = "regOwner") <=> (a = CM)
    /\ t.call # "regOwner" => RCDs[t.device].isTaken
    /\ t.call = "storeKey" => t.index # 0 /\ (t.index # 1 => RCDs[t.device].currentIndex # 0)
    /\ "lost" \notin faults[t.device] => conn[t.conn].pc # "done"
    /\ conn[t.conn].pc # "done" =>
           /\ Awaited(t.conn, t.call) /\ conn[t.conn].receipt = "none"
           /\ t.index = conn[t.conn].index /\ t.start = conn[t.conn].slot

\* A handler waits for one transaction.
OneEach(a) ==
    \A i, j \in 1..Len(pool[a]) :
        i < j /\ pool[a][i].conn = pool[a][j].conn => conn[pool[a][i].conn].pc = "done"

TxInv == \A a \in {Owner, CM} : OneEach(a) /\ \A t \in Sent(a) : TxOf(a, t)

BaseInv == /\ \A r \in Rcds : ChainsFrom(r) /\ OwnerInv(r)
           /\ \A c \in Conns : HandlerInv(c)
           /\ TxInv

-----------------------------------------------------------------------------
(* A device whose handlers never overlapped.                                 *)

Serial(r) == "overlap" \notin faults[r]

OneLive(r) ==
    \A b, c \in Conns :
        conn[b].device = r /\ conn[c].device = r /\ Live(b) =>
            /\ Live(c) => b = c
            /\ dev[r].conn # NoConn => b = dev[r].conn

SerialHandler(r, c) ==
    LET D == rcds[r].currentIndex
        C == RCDs[r].currentIndex
        pc == conn[c].pc
    IN  /\ pc \in Registering => ~rcds[r].registered
        /\ pc \in Storing \union Changing \union {"write"} => conn[c].index = D + 1
        /\ pc \in Changing => D # 0
        /\ pc = "changing" /\ conn[c].receipt # "none" => D < C
        /\ pc \in Updating => D < C

SerialTx(r, t) ==
    /\ t.call = "storeKey" => t.index <= RCDs[r].currentIndex + 1
    /\ t.call = "changeCurrentIndex" /\ conn[t.conn].pc # "done" =>
           CanChange(r) \/ rcds[r].currentIndex < RCDs[r].currentIndex

SerialInv(r) ==
    Serial(r) =>
        /\ OneLive(r)
        /\ rcds[r].currentIndex <= RCDs[r].currentIndex
        /\ \A c \in Conns : conn[c].device = r => SerialHandler(r, c)
        /\ \A a \in {Owner, CM} : \A t \in Sent(a) : t.device = r => SerialTx(r, t)
        /\ ChainsInv(r)

-----------------------------------------------------------------------------
(* A device with no fault.                                                   *)

Faultless(r) == faults[r] = {}

EntryOf(c) == [key |-> c, startTime |-> conn[c].slot, endTime |-> EndTime(conn[c].slot),
               isIndexExist |-> TRUE]

AgreeHandler(r, c) ==
    LET D == rcds[r].currentIndex
        C == RCDs[r].currentIndex
        pc == conn[c].pc
        receipt == conn[c].receipt
    IN  /\ pc \in {"load", "index", "submit", "change"} \union Registering => C = D
        /\ pc \in {"storing", "changing"} /\ receipt = "none" => C = D
        /\ pc = "storing" /\ receipt # "none" => C = (IF D = 0 THEN 1 ELSE D)
        /\ pc = "changing" /\ receipt # "none" => C = D + 1
        /\ pc \in Updating => C = D + 1
        /\ \/ pc = "storing" /\ receipt # "none"
           \/ pc \in Changing \union Updating
           => RCDs[r].chains[D + 1] = EntryOf(c)
        /\ pc = "send" /\ dev[r].conn = c => RCDs[r].chains[C] = EntryOf(c)
        /\ pc # "done" /\ dev[r].conn = c => conn[c].slot = dev[r].slot

AgreeInv(r) ==
    Faultless(r) =>
        /\ \/ rcds[r].currentIndex = RCDs[r].currentIndex
           \/ \E c \in Conns : conn[c].device = r /\ Live(c)
        /\ dev[r].conn # NoConn =>
               conn[dev[r].conn].device = r /\ conn[dev[r].conn].pc # "unused"
        /\ \A c \in Conns : conn[c].device = r => AgreeHandler(r, c)
        /\ \A a \in {Owner, CM} : \A t \in Sent(a) : t.device = r => Succeeds(t)

IndexInv == BaseInv /\ \A r \in Rcds : SerialInv(r) /\ AgreeInv(r)

-----------------------------------------------------------------------------
(* The pool.                                                                 *)

LEMMA SentType ==
    ASSUME PInv, NEW a \in {Owner, CM}, NEW t \in Sent(a)
    PROVE  /\ t \in Txs /\ t.start \in GoodSlots
           /\ t.conn \in Conns /\ t.device \in Rcds /\ t.index \in Index
           /\ t.index \in Nat /\ t.call \in Calls
<1>1. pool[a] \in Seq({u \in Txs : u.start \in GoodSlots})
  BY DEF PInv, PoolOK
<1>2. t \in Txs /\ t.start \in GoodSlots
  BY <1>1 DEF Sent
<1> QED
  BY <1>2, IndexIsNat DEF Txs

LEMMA SamePool ==
    ASSUME UNCHANGED pool
    PROVE  \A a \in {Owner, CM} : Sent(a)' = Sent(a)
  BY DEF Sent

LEMMA SubmitSent ==
    ASSUME PInv, NEW a \in {Owner, CM}, NEW call \in Calls, NEW c \in Conns,
           pool' = [pool EXCEPT ![a] = Append(@, Tx(call, c))]
    PROVE  /\ Sent(a)' = Sent(a) \union {Tx(call, c)}
           /\ \A b \in {Owner, CM} \ {a} : pool'[b] = pool[b] /\ Sent(b)' = Sent(b)
           /\ pool'[a] = Append(pool[a], Tx(call, c))
           /\ Len(pool[a]) \in Nat
<1> DEFINE S == {t : t \in Txs \union {Tx(call, c)}}
<1>1. pool \in [{Owner, CM} -> Seq(Txs)]
  BY DEF PInv, PTypeOK
<1>2. pool'[a] = Append(pool[a], Tx(call, c)) /\ pool[a] \in Seq(S)
  BY <1>1
<1>3. \A b \in {Owner, CM} \ {a} : pool'[b] = pool[b] /\ Sent(b)' = Sent(b)
  BY <1>1 DEF Sent
<1>4. /\ Len(pool'[a]) = Len(pool[a]) + 1
      /\ \A i \in 1..Len(pool[a]) : pool'[a][i] = pool[a][i]
      /\ pool'[a][Len(pool[a]) + 1] = Tx(call, c)
      /\ Len(pool[a]) \in Nat
  BY <1>2
<1>5. Sent(a)' = Sent(a) \union {Tx(call, c)}
  BY <1>4 DEF Sent
<1> QED
  BY <1>2, <1>3, <1>4, <1>5

\* The transaction that is mined is the first of its account.
LEMMA MineSent ==
    ASSUME PInv, NEW a \in {Owner, CM}, Mine(a), NEW t, t = Head(pool[a])
    PROVE  /\ t \in Sent(a) /\ Sent(a)' \subseteq Sent(a)
           /\ \A b \in {Owner, CM} \ {a} : pool'[b] = pool[b] /\ Sent(b)' = Sent(b)
           /\ pool'[a] = Tail(pool[a]) /\ pool[a] # <<>> /\ pool[a] \in Seq(Txs)
           /\ t = pool[a][1] /\ Len(pool[a]) \in Nat /\ Len(pool[a]) # 0
           /\ Len(pool'[a]) = Len(pool[a]) - 1
           /\ \A i \in 1..Len(pool'[a]) : pool'[a][i] = pool[a][i + 1]
<1>1. pool \in [{Owner, CM} -> Seq(Txs)]
  BY DEF PInv, PTypeOK
<1>2. pool'[a] = Tail(pool[a]) /\ pool[a] \in Seq(Txs) /\ pool[a] # <<>>
  BY <1>1 DEF Mine
<1>3. \A b \in {Owner, CM} \ {a} : pool'[b] = pool[b] /\ Sent(b)' = Sent(b)
  BY <1>1 DEF Mine, Sent
<1>4. /\ t = pool[a][1] /\ Len(pool[a]) \in Nat /\ Len(pool[a]) # 0
      /\ Len(pool'[a]) = Len(pool[a]) - 1
      /\ \A i \in 1..Len(pool'[a]) : pool'[a][i] = pool[a][i + 1]
  BY <1>2
<1>5. \A i \in 1..Len(pool'[a]) : i + 1 \in 1..Len(pool[a])
  BY <1>4
<1>6. Sent(a)' \subseteq Sent(a)
  BY <1>4, <1>5 DEF Sent
<1>7. 1 \in 1..Len(pool[a])
  BY <1>4
<1>8. t \in Sent(a)
  BY <1>4, <1>7 DEF Sent
<1> QED
  BY <1>2, <1>3, <1>4, <1>6, <1>8

\* Nothing on its way is a running handler's, unless the handler waits for it.
LEMMA NotPending ==
    ASSUME PInv, TxInv, NEW c \in Conns, ~Pending(c), conn[c].pc # "done",
           NEW a \in {Owner, CM}, NEW t \in Sent(a)
    PROVE  t.conn # c
  BY DEF TxInv, TxOf, Awaited, Pending

-----------------------------------------------------------------------------
(* What a transaction does to what the contract has of the device.           *)

LEMMA ExecuteEffect ==
    ASSUME PInv, BaseInv, NEW a \in {Owner, CM}, NEW t \in Sent(a), Execute(t)
    PROVE  LET r == t.device
               C == RCDs[r].currentIndex
           IN  /\ block' = block
               /\ r \in Rcds
               /\ \A s \in Rcds \ {r} : RCDs'[s] = RCDs[s]
               /\ C \in Nat /\ RCDs'[r].currentIndex \in Nat
               /\ RCDs'[r].isTaken
               /\ RCDs'[r].owner = Owner
               /\ C <= RCDs'[r].currentIndex
               /\ \A i \in Index : RCDs[r].chains[i].isIndexExist
                                       => RCDs'[r].chains[i].isIndexExist
               /\ t.call = "regOwner" => /\ C = 0 /\ RCDs'[r].currentIndex = 0
                                         /\ RCDs'[r].chains = RCDs[r].chains
               /\ t.call = "storeKey" =>
                     /\ RCDs'[r].currentIndex = IF C = 0 THEN 1 ELSE C
                     /\ C < t.index
                     /\ \A i \in Index \ {t.index} : RCDs'[r].chains[i] = RCDs[r].chains[i]
                     /\ RCDs'[r].chains[t.index] =
                           [key |-> t.conn, startTime |-> t.start,
                            endTime |-> EndTime(t.start), isIndexExist |-> TRUE]
               /\ t.call = "changeCurrentIndex" =>
                     /\ RCDs'[r].currentIndex = C + 1
                     /\ RCDs'[r].chains = RCDs[r].chains
                     /\ C + 1 \in Index /\ RCDs[r].chains[C + 1].isIndexExist
<1> DEFINE r == t.device
           C == RCDs[r].currentIndex
<1>0. TypeOK /\ r \in Rcds
  BY SentType DEF PInv, PTypeOK
<1>1. /\ t.index \in Index /\ t.conn \in Keys /\ t.start \in Blocks
      /\ EndTime(t.start) \in Blocks /\ Owner \in Accounts /\ CM \in Accounts
      /\ t.index \in Nat
  BY SentType, ProvisioningAssumption, ContractAssumption DEF GoodSlots, Blocks
<1>2. C \in Index /\ C \in Nat
  BY <1>0, FieldTypes, IndexIsNat
<1>3. /\ t.call # "regOwner" => RCDs[r].isTaken
      /\ RCDs[r].isTaken => RCDs[r].owner = Owner
      /\ ~RCDs[r].isTaken => C = 0
  BY <1>0 DEF BaseInv, TxInv, TxOf, ChainsFrom
<1>4. CASE t.call = "regOwner" /\ regOwner(CM, Owner, r)
  BY <1>0, <1>1, <1>2, <1>3, <1>4, RegOwnerEffect
<1>5. CASE t.call = "storeKey" /\ storeKey(Owner, r, t.index, t.conn, t.start, EndTime(t.start))
  <2>1. /\ RCDs[r].isTaken /\ t.index > C
        /\ \A s \in Rcds \ {r} : RCDs'[s] = RCDs[s]
        /\ RCDs'[r].isTaken /\ RCDs'[r].owner = RCDs[r].owner
        /\ RCDs'[r].currentIndex = IF C = 0 THEN 1 ELSE C
        /\ \A i \in Index \ {t.index} : RCDs'[r].chains[i] = RCDs[r].chains[i]
        /\ RCDs'[r].chains[t.index].isIndexExist
        /\ block' = block
    BY <1>0, <1>1, <1>5, StoreKeyEffect
  <2>2. RCDs'[r].chains[t.index] = [key |-> t.conn, startTime |-> t.start,
                                    endTime |-> EndTime(t.start), isIndexExist |-> TRUE]
    BY <1>0, <1>1, <1>5, StoreKeyEntry
  <2>3. C <= RCDs'[r].currentIndex /\ C < t.index /\ RCDs'[r].currentIndex \in Nat
    BY <1>1, <1>2, <2>1
  <2> QED
    BY <1>0, <1>2, <1>3, <1>5, <2>1, <2>2, <2>3
<1>6. CASE t.call = "changeCurrentIndex" /\ changeCurrentIndex(r)
  <2>1. /\ C + 1 \in Index /\ RCDs[r].chains[C + 1].isIndexExist
        /\ \A s \in Rcds \ {r} : RCDs'[s] = RCDs[s]
        /\ RCDs'[r].isTaken = RCDs[r].isTaken /\ RCDs'[r].owner = RCDs[r].owner
        /\ RCDs'[r].currentIndex = C + 1
        /\ RCDs'[r].chains = RCDs[r].chains
        /\ block' = block
    BY <1>0, <1>6, ChangeCurrentIndexEffect
  <2> QED
    BY <1>0, <1>2, <1>3, <1>6, <2>1
<1> QED
  BY <1>4, <1>5, <1>6 DEF Execute

-----------------------------------------------------------------------------
(* A step of one handler: what it may touch.                                 *)

Local(c) ==
    LET r == conn[c].device
    IN  /\ UNCHANGED <<RCDs, block>>
        /\ conn[c].pc \notin {"unused", "done"}
        /\ \A d \in Conns \ {c} : conn'[d] = conn[d]
        /\ conn'[c].device = r /\ conn'[c].pc # "unused"
        /\ Live(c)' => Live(c)
        /\ \A q \in Rcds \ {r} : rcds'[q] = rcds[q] /\ faults'[q] = faults[q] /\ dev'[q] = dev[q]
        /\ faults[r] \subseteq faults'[r]
        /\ rcds[r].registered => rcds'[r].registered
        /\ rcds'[r] = rcds[r] \/ Live(c)
        /\ dev'[r] = dev[r] \/ (dev'[r].conn = NoConn /\ dev'[r].slot = 0)
        /\ ~Pending(c) \/ (conn'[c].pc = "done" /\ "lost" \in faults'[r])

\* What never goes back.
Grows ==
    /\ block <= block'
    /\ \A r \in Rcds :
         /\ RCDs[r].isTaken => RCDs'[r].isTaken
         /\ RCDs[r].currentIndex # 0 => RCDs'[r].currentIndex # 0
         /\ rcds[r].registered => rcds'[r].registered
         /\ faults[r] \subseteq faults'[r]

LEMMA Numbers ==
    ASSUME PInv
    PROVE  /\ block \in Nat
           /\ \A r \in Rcds :
                /\ RCDs[r].currentIndex \in Nat /\ RCDs[r].currentIndex \in Index
                /\ rcds[r].currentIndex \in Nat /\ dev[r].slot \in Nat
                /\ dev[r].conn \in Conns \union {NoConn}
                /\ rcds[r].registered \in BOOLEAN /\ RCDs[r].isTaken \in BOOLEAN
                /\ faults[r] \subseteq {"overlap", "lost", "moved"}
           /\ \A c \in Conns :
                /\ conn[c].slot \in Nat /\ conn[c].index \in Nat
                /\ conn[c].device \in Rcds /\ conn[c].pc \in ConnPcs
                /\ conn[c].receipt \in {"none", "successful", "failed"}
<1>1. TypeOK /\ \A b \in Blocks : b \in Nat
  BY DEF PInv, PTypeOK, Blocks
<1>2. \A r \in Rcds : RCDs[r].currentIndex \in Index /\ RCDs[r].isTaken \in BOOLEAN
  BY <1>1, FieldTypes
<1>3. block \in Nat
  BY <1>1 DEF TypeOK
<1>4. \A r \in Rcds : /\ rcds[r].currentIndex \in Nat /\ rcds[r].registered \in BOOLEAN
                      /\ dev[r].slot \in Blocks /\ dev[r].conn \in Conns \union {NoConn}
                      /\ faults[r] \subseteq {"overlap", "lost", "moved"}
  BY DEF PInv, PTypeOK
<1>5. \A c \in Conns : /\ conn[c].slot \in Blocks /\ conn[c].index \in Nat
                       /\ conn[c].device \in Rcds /\ conn[c].pc \in ConnPcs
                       /\ conn[c].receipt \in {"none", "successful", "failed"}
  BY DEF PInv, PTypeOK
<1> QED
  BY <1>1, <1>2, <1>3, <1>4, <1>5, IndexIsNat

LEMMA NumbersNext ==
    ASSUME PInv'
    PROVE  /\ block' \in Nat
           /\ \A r \in Rcds :
                /\ RCDs'[r].currentIndex \in Nat /\ RCDs'[r].currentIndex \in Index
                /\ rcds'[r].currentIndex \in Nat /\ dev'[r].slot \in Nat
                /\ dev'[r].conn \in Conns \union {NoConn}
                /\ rcds'[r].registered \in BOOLEAN /\ RCDs'[r].isTaken \in BOOLEAN
                /\ faults'[r] \subseteq {"overlap", "lost", "moved"}
           /\ \A c \in Conns :
                /\ conn'[c].slot \in Nat /\ conn'[c].index \in Nat
                /\ conn'[c].device \in Rcds /\ conn'[c].pc \in ConnPcs
                /\ conn'[c].receipt \in {"none", "successful", "failed"}
<1>1. TypeOK' /\ \A b \in Blocks : b \in Nat
  BY DEF PInv, PTypeOK, Blocks
<1>2. \A r \in Rcds : RCDs'[r].currentIndex \in Index /\ RCDs'[r].isTaken \in BOOLEAN
  BY <1>1 DEF TypeOK, rcd
<1>3. block' \in Nat
  BY <1>1 DEF TypeOK, Blocks
<1>4. \A r \in Rcds : /\ rcds'[r].currentIndex \in Nat /\ rcds'[r].registered \in BOOLEAN
                      /\ dev'[r].slot \in Blocks /\ dev'[r].conn \in Conns \union {NoConn}
                      /\ faults'[r] \subseteq {"overlap", "lost", "moved"}
  BY DEF PInv, PTypeOK, Blocks, Conns
<1>5. \A c \in Conns : /\ conn'[c].slot \in Blocks /\ conn'[c].index \in Nat
                       /\ conn'[c].device \in Rcds /\ conn'[c].pc \in ConnPcs
                       /\ conn'[c].receipt \in {"none", "successful", "failed"}
  BY DEF PInv, PTypeOK, Blocks, Conns, ConnPcs
<1> QED
  BY <1>1, <1>2, <1>3, <1>4, <1>5, IndexIsNat

LEMMA LocalGrows ==
    ASSUME PInv, PInv', NEW c \in Conns, Local(c)
    PROVE  Grows
<1>1. \A r \in Rcds : r # conn[c].device => rcds'[r] = rcds[r] /\ faults'[r] = faults[r]
  BY DEF Local
<1>2. block <= block' /\ UNCHANGED RCDs
  BY Numbers DEF Local
<1>3. /\ faults[conn[c].device] \subseteq faults'[conn[c].device]
      /\ rcds[conn[c].device].registered => rcds'[conn[c].device].registered
  BY DEF Local
<1> QED
  BY <1>1, <1>2, <1>3 DEF Grows

LEMMA HandlerStays ==
    ASSUME PInv, PInv', Grows, NEW c \in Conns, HandlerInv(c), conn'[c] = conn[c]
    PROVE  HandlerInv(c)'
<1>1. conn[c].device \in Rcds /\ conn[c].slot \in Nat /\ block \in Nat /\ block' \in Nat
  BY Numbers, NumbersNext
<1>2. conn[c].slot <= block'
  BY <1>1 DEF HandlerInv, Grows
<1> QED
  BY <1>1, <1>2 DEF HandlerInv, Grows, Reported

LEMMA OwnerStays ==
    ASSUME PInv, PInv', Grows, NEW r \in Rcds, OwnerInv(r),
           rcds'[r] = rcds[r], RCDs'[r].isTaken => RCDs[r].isTaken, DevInv(r)',
           \A c \in Conns : Reported(c, r) => Reported(c, r)' \/ "lost" \in faults'[r]
    PROVE  OwnerInv(r)'
<1>1. ASSUME RCDs'[r].isTaken, "lost" \notin faults'[r]
      PROVE  rcds'[r].registered \/ \E c \in Conns : Reported(c, r)'
  <2>1. "lost" \notin faults[r]
    BY <1>1 DEF Grows
  <2> QED
    BY <1>1, <2>1 DEF OwnerInv
<1> QED
  BY <1>1 DEF OwnerInv, Grows

LEMMA TxStays ==
    ASSUME PInv, PInv', Grows, NEW a \in {Owner, CM}, NEW t \in Sent(a), TxOf(a, t),
           \/ conn'[t.conn] = conn[t.conn]
           \/ /\ conn'[t.conn].pc = "done" /\ conn'[t.conn].device = conn[t.conn].device
              /\ "lost" \in faults'[t.device]
    PROVE  TxOf(a, t)'
<1>1. /\ t.device \in Rcds /\ t.start \in Nat /\ block \in Nat /\ block' \in Nat
      /\ t.conn \in Conns
  BY SentType, Numbers, NumbersNext DEF GoodSlots
<1>2. t.start <= block'
  BY <1>1 DEF TxOf, Grows
<1>3. /\ t.device = conn'[t.conn].device /\ conn'[t.conn].pc # "unused"
      /\ "lost" \notin faults'[t.device] => conn'[t.conn].pc # "done"
  BY <1>1 DEF TxOf, Grows
<1>4. conn'[t.conn].pc # "done" => conn'[t.conn] = conn[t.conn] /\ conn[t.conn].pc # "done"
  OBVIOUS
<1> QED
  BY <1>1, <1>2, <1>3, <1>4 DEF TxOf, Grows, Awaited

-----------------------------------------------------------------------------
(* BaseInv, through a step of one handler.                                   *)

\* A transaction that is on its way and whose handler is not done is not that of the
\* handler which makes the step.
LEMMA LocalOldTx ==
    ASSUME PInv, TxInv, NEW c \in Conns, Local(c), NEW a \in {Owner, CM}, NEW t \in Sent(a)
    PROVE  \/ t.conn # c /\ conn'[t.conn] = conn[t.conn]
           \/ /\ t.conn = c /\ Pending(c) /\ t.device = conn[c].device
              /\ conn'[c].pc = "done" /\ "lost" \in faults'[conn[c].device]
<1>1. CASE t.conn = c
  BY <1>1, NotPending DEF Local, TxInv, TxOf
<1>2. CASE t.conn # c
  BY <1>2, SentType DEF Local
<1> QED
  BY <1>1, <1>2

LEMMA LocalOldTxOf ==
    ASSUME PInv, PInv', TxInv, NEW c \in Conns, Local(c), NEW a \in {Owner, CM},
           NEW t \in Sent(a)
    PROVE  TxOf(a, t)'
<1>1. Grows
  BY LocalGrows
<1>2. TxOf(a, t)
  BY DEF TxInv
<1>3. t.device = conn[t.conn].device
  BY <1>2 DEF TxOf
<1> QED
  BY <1>1, <1>2, <1>3, LocalOldTx, TxStays DEF Local

LEMMA LocalTxSame ==
    ASSUME PInv, PInv', TxInv, NEW c \in Conns, Local(c), UNCHANGED pool
    PROVE  TxInv'
<1>1. \A a \in {Owner, CM} : \A t \in Sent(a)' : TxOf(a, t)'
  BY SamePool, LocalOldTxOf
<1>2. ASSUME NEW a \in {Owner, CM} PROVE OneEach(a)'
  <2>1. \A d \in Conns : conn[d].pc = "done" => conn'[d].pc = "done"
    BY DEF Local
  <2>2. \A i \in 1..Len(pool[a]) : pool[a][i].conn \in Conns
    BY SentType DEF Sent
  <2> QED
    BY <2>1, <2>2 DEF TxInv, OneEach
<1> QED
  BY <1>1, <1>2 DEF TxInv

\* The transaction of the handler itself.
LEMMA LocalTxSubmit ==
    ASSUME PInv, PInv', TxInv, NEW c \in Conns, Local(c), ~Pending(c),
           NEW a \in {Owner, CM}, NEW call \in Calls,
           pool' = [pool EXCEPT ![a] = Append(@, Tx(call, c))],
           NEW t, t = Tx(call, c), TxOf(a, t)'
    PROVE  TxInv'
<1>1. /\ Sent(a)' = Sent(a) \union {t}
      /\ \A b \in {Owner, CM} \ {a} : pool'[b] = pool[b] /\ Sent(b)' = Sent(b)
      /\ pool'[a] = Append(pool[a], t)
      /\ Len(pool[a]) \in Nat
  BY SubmitSent
<1>2. \A b \in {Owner, CM} : \A u \in Sent(b)' : TxOf(b, u)'
  BY <1>1, LocalOldTxOf
<1>3. \A d \in Conns : conn[d].pc = "done" => conn'[d].pc = "done"
  BY DEF Local
<1>4. ASSUME NEW b \in {Owner, CM}
      PROVE  \A i \in 1..Len(pool[b]) : pool[b][i].conn \in Conns /\ pool[b][i].conn # c
  BY SentType, NotPending DEF Sent, Local
<1>5. ASSUME NEW b \in {Owner, CM}, b # a PROVE OneEach(b)'
  <2>1. pool'[b] = pool[b]
    BY <1>1, <1>5
  <2>2. ASSUME NEW i \in 1..Len(pool[b]), NEW j \in 1..Len(pool[b]), i < j,
               pool[b][i].conn = pool[b][j].conn
        PROVE  conn'[pool[b][i].conn].pc = "done"
    BY <1>3, <1>4, <2>2 DEF TxInv, OneEach
  <2> QED
    BY <2>1, <2>2 DEF OneEach
<1>6. OneEach(a)'
  <2> SUFFICES ASSUME NEW i \in 1..Len(pool'[a]), NEW j \in 1..Len(pool'[a]), i < j,
                      pool'[a][i].conn = pool'[a][j].conn
               PROVE  conn'[pool'[a][i].conn].pc = "done"
    BY DEF OneEach
  <2>1. /\ Len(pool'[a]) = Len(pool[a]) + 1
        /\ \A k \in 1..Len(pool[a]) : pool'[a][k] = pool[a][k]
        /\ pool'[a][Len(pool[a]) + 1] = t
    <3>1. pool[a] \in Seq(Txs)
      BY DEF PInv, PTypeOK
    <3> QED
      BY <1>1, <3>1
  <2>2. i \in 1..Len(pool[a]) /\ pool'[a][i] = pool[a][i]
    BY <1>1, <2>1
  <2>3. t.conn = c
    BY DEF Tx
  <2>4. j \in 1..Len(pool[a]) /\ pool'[a][j] = pool[a][j]
    <3>1. CASE j = Len(pool[a]) + 1
      BY <1>4, <2>1, <2>2, <2>3, <3>1
    <3>2. CASE j # Len(pool[a]) + 1
      BY <1>1, <2>1, <3>2
    <3> QED
      BY <3>1, <3>2
  <2>5. conn[pool[a][i].conn].pc = "done"
    BY <2>2, <2>4 DEF TxInv, OneEach
  <2> QED
    BY <1>3, <1>4, <2>2, <2>5
<1> QED
  BY <1>2, <1>5, <1>6 DEF TxInv

LEMMA LocalBase ==
    ASSUME PInv, PInv', BaseInv, NEW c \in Conns, Local(c),
           NEW r \in Rcds, r = conn[c].device,
           TxInv', HandlerInv(c)', OwnerInv(r)'
    PROVE  BaseInv'
<1>1. Grows
  BY LocalGrows, Numbers
<1>2. \A d \in Conns : HandlerInv(d)'
  <2>1. ASSUME NEW d \in Conns \ {c} PROVE HandlerInv(d)'
    BY <1>1, <2>1, HandlerStays DEF BaseInv, Local
  <2> QED
    BY <2>1
<1>3. ASSUME NEW q \in Rcds, q # r PROVE OwnerInv(q)'
  <2>1. rcds'[q] = rcds[q] /\ dev'[q] = dev[q] /\ UNCHANGED <<RCDs, block>>
    BY <1>3 DEF Local
  <2>2. \A d \in Conns : Reported(d, q) => Reported(d, q)'
    BY <1>3 DEF Reported, Local
  <2>3. OwnerInv(q)
    BY DEF BaseInv
  <2>4. DevInv(q)'
    BY <2>1, <2>3 DEF OwnerInv, DevInv
  <2> QED
    BY <1>1, <2>1, <2>2, <2>3, <2>4, OwnerStays
<1>4. \A q \in Rcds : ChainsFrom(q)'
  BY DEF BaseInv, ChainsFrom, getKey, Local
<1> QED
  BY <1>2, <1>3, <1>4 DEF BaseInv

-----------------------------------------------------------------------------
(* SerialInv and AgreeInv, through a step of one handler.                    *)

\* What is on its way afterwards: what was, and perhaps the handler's transaction.
NewTxOnly(c, r) ==
    \A a \in {Owner, CM} : \A t \in Sent(a)' :
        \/ t \in Sent(a)
        \/ /\ t.conn = c /\ t.device = r
           /\ Succeeds(t)'
           /\ Serial(r) => SerialTx(r, t)'

LEMMA SubmitNewTx ==
    ASSUME PInv, NEW c \in Conns, NEW r \in Rcds, NEW a \in {Owner, CM}, NEW call \in Calls,
           pool' = [pool EXCEPT ![a] = Append(@, Tx(call, c))],
           NEW t, t = Tx(call, c), t.conn = c, t.device = r,
           Succeeds(t)', Serial(r) => SerialTx(r, t)'
    PROVE  NewTxOnly(c, r)
<1>1. /\ Sent(a)' = Sent(a) \union {t}
      /\ \A b \in {Owner, CM} \ {a} : Sent(b)' = Sent(b)
  <2>1. /\ Sent(a)' = Sent(a) \union {Tx(call, c)}
        /\ \A b \in {Owner, CM} \ {a} : Sent(b)' = Sent(b)
    BY ONLY PInv, c \in Conns, a \in {Owner, CM}, call \in Calls,
            pool' = [pool EXCEPT ![a] = Append(@, Tx(call, c))], SubmitSent
  <2> QED
    BY <2>1
<1>2. ASSUME NEW b \in {Owner, CM}, NEW u \in Sent(b)', u \notin Sent(b)
      PROVE  u = t
  BY <1>1, <1>2
<1>3. ASSUME NEW b \in {Owner, CM}, NEW u \in Sent(b)', u \notin Sent(b)
      PROVE  /\ u.conn = c /\ u.device = r
             /\ Succeeds(u)'
             /\ Serial(r) => SerialTx(r, u)'
  <2>1. u = t
    BY <1>2, <1>3
  <2> QED
    BY <2>1
<1> QED
  BY <1>3 DEF NewTxOnly

\* A waiting handler is live.
LEMMA TxLive ==
    ASSUME PInv, TxInv, NEW a \in {Owner, CM}, NEW t \in Sent(a), conn[t.conn].pc # "done"
    PROVE  t.conn \in Conns /\ t.device = conn[t.conn].device /\ Live(t.conn) /\ Pending(t.conn)
  BY SentType DEF TxInv, TxOf, Awaited, Live, Pending

LEMMA SerialGrows ==
    ASSUME Grows, NEW r \in Rcds
    PROVE  /\ Serial(r)' => Serial(r)
           /\ Faultless(r)' => Faultless(r) /\ Serial(r)
  BY DEF Grows, Serial, Faultless

LEMMA LocalSerial ==
    ASSUME PInv, PInv', BaseInv, NEW c \in Conns, Local(c),
           \A q \in Rcds : SerialInv(q),
           NEW r \in Rcds, r = conn[c].device, NewTxOnly(c, r),
           Serial(r) => /\ rcds'[r].currentIndex <= RCDs[r].currentIndex
                        /\ SerialHandler(r, c)'
    PROVE  \A q \in Rcds : SerialInv(q)'
<1> SUFFICES ASSUME NEW q \in Rcds, Serial(q)' PROVE SerialInv(q)'
  BY DEF SerialInv
<1>0. Serial(q) /\ Grows
  BY LocalGrows, SerialGrows
<1>1. /\ OneLive(q)
      /\ rcds[q].currentIndex <= RCDs[q].currentIndex
      /\ \A d \in Conns : conn[d].device = q => SerialHandler(q, d)
      /\ \A a \in {Owner, CM} : \A t \in Sent(a) : t.device = q => SerialTx(q, t)
      /\ ChainsInv(q)
  BY <1>0 DEF SerialInv
<1>2. ChainsInv(q)'
  BY <1>1 DEF ChainsInv, StoredPrefix, WindowsWellFormed, Disjoint, Local
<1>3. \A d \in Conns : Live(d)' => Live(d)
  BY DEF Local, Live
<1>4. \A d \in Conns : conn'[d].device = conn[d].device
  BY DEF Local
<1>5. dev'[q].conn # NoConn => dev'[q].conn = dev[q].conn
  BY DEF Local
<1>6. OneLive(q)'
  BY <1>1, <1>3, <1>4, <1>5 DEF OneLive
<1>7. CASE q # r
  <2>1. rcds'[q] = rcds[q] /\ UNCHANGED <<RCDs, block>>
    BY <1>7 DEF Local
  <2>2. ASSUME NEW d \in Conns, conn'[d].device = q PROVE SerialHandler(q, d)'
    <3>1. conn'[d] = conn[d]
      BY <1>4, <1>7, <2>2 DEF Local
    <3> QED
      BY <1>1, <2>1, <2>2, <3>1 DEF SerialHandler
  <2>3. ASSUME NEW a \in {Owner, CM}, NEW t \in Sent(a)', t.device = q PROVE SerialTx(q, t)'
    <3>1. t \in Sent(a)
      BY <1>7, <2>3 DEF NewTxOnly
    <3>2. t.device = conn[t.conn].device
      BY <3>1 DEF BaseInv, TxInv, TxOf
    <3>3. conn'[t.conn] = conn[t.conn]
      BY <1>7, <2>3, <3>1, <3>2, LocalOldTx DEF BaseInv
    <3>4. SerialTx(q, t)
      BY <1>1, <2>3, <3>1
    <3> QED
      BY <2>1, <3>3, <3>4 DEF SerialTx, CanChange
  <2> QED
    BY <1>1, <1>2, <1>6, <2>1, <2>2, <2>3 DEF SerialInv
<1>8. CASE q = r
  <2>1. UNCHANGED <<RCDs, block>> /\ (rcds'[q] = rcds[q] \/ Live(c))
    BY <1>8 DEF Local
  <2>2. ASSUME NEW d \in Conns, conn'[d].device = q PROVE SerialHandler(q, d)'
    <3>1. CASE d = c
      BY <1>0, <1>8, <3>1
    <3>2. CASE d # c /\ rcds'[q] = rcds[q]
      <4>1. conn'[d] = conn[d]
        BY <3>2 DEF Local
      <4> QED
        BY <1>1, <2>1, <2>2, <3>2, <4>1 DEF SerialHandler
    <3>3. CASE d # c /\ Live(c)
      <4>1. conn'[d] = conn[d] /\ ~Live(d)
        BY <1>1, <1>4, <1>8, <2>2, <3>3 DEF Local, OneLive
      <4>2. conn'[d].pc \in {"unused", "send", "done"}
        BY <4>1 DEF Live
      <4> QED
        BY <4>2 DEF SerialHandler, Registering, Storing, Changing, Updating
    <3> QED
      BY <2>1, <3>1, <3>2, <3>3
  <2>3. ASSUME NEW a \in {Owner, CM}, NEW t \in Sent(a)', t.device = q PROVE SerialTx(q, t)'
    <3>1. CASE t \notin Sent(a)
      BY <1>0, <1>8, <3>1, <2>3 DEF NewTxOnly
    <3>2. CASE t \in Sent(a)
      <4>1. SerialTx(q, t)
        BY <1>1, <2>3, <3>2
      <4>2. conn'[t.conn].pc # "done" =>
                conn'[t.conn] = conn[t.conn] /\ rcds'[q] = rcds[q]
        <5> SUFFICES ASSUME conn'[t.conn].pc # "done"
                     PROVE  conn'[t.conn] = conn[t.conn] /\ rcds'[q] = rcds[q]
          OBVIOUS
        <5>1. t.conn # c /\ conn'[t.conn] = conn[t.conn]
          BY <3>2, LocalOldTx DEF BaseInv
        <5>2. Live(t.conn) /\ t.conn \in Conns /\ conn[t.conn].device = q
          BY <2>3, <3>2, <5>1, TxLive DEF BaseInv
        <5>3. ~Live(c)
          BY <1>1, <1>8, <5>1, <5>2 DEF OneLive
        <5> QED
          BY <2>1, <5>1, <5>3
      <4> QED
        BY <2>1, <4>1, <4>2 DEF SerialTx, CanChange
    <3> QED
      BY <3>1, <3>2
  <2>4. rcds'[q].currentIndex <= RCDs'[q].currentIndex
    BY <1>0, <1>8, <2>1
  <2> QED
    BY <1>2, <1>6, <2>2, <2>3, <2>4 DEF SerialInv
<1> QED
  BY <1>7, <1>8

LEMMA LocalAgree ==
    ASSUME PInv, PInv', BaseInv, NEW c \in Conns, Local(c),
           \A q \in Rcds : SerialInv(q) /\ AgreeInv(q),
           NEW r \in Rcds, r = conn[c].device, NewTxOnly(c, r),
           Faultless(r)' => /\ AgreeHandler(r, c)'
                            /\ \/ rcds'[r].currentIndex = RCDs[r].currentIndex
                               \/ Live(c)'
                               \/ ~Live(c)
    PROVE  \A q \in Rcds : AgreeInv(q)'
<1> SUFFICES ASSUME NEW q \in Rcds, Faultless(q)' PROVE AgreeInv(q)'
  BY DEF AgreeInv
<1>0. Faultless(q) /\ Serial(q) /\ Grows
  BY LocalGrows, SerialGrows
<1>1. /\ \/ rcds[q].currentIndex = RCDs[q].currentIndex
         \/ \E d \in Conns : conn[d].device = q /\ Live(d)
      /\ dev[q].conn # NoConn => conn[dev[q].conn].device = q /\ conn[dev[q].conn].pc # "unused"
      /\ \A d \in Conns : conn[d].device = q => AgreeHandler(q, d)
      /\ \A a \in {Owner, CM} : \A t \in Sent(a) : t.device = q => Succeeds(t)
  BY <1>0 DEF AgreeInv
<1>2. OneLive(q)
  BY <1>0 DEF SerialInv
<1>3. \A d \in Conns : conn'[d].device = conn[d].device
  BY DEF Local
<1>4. /\ UNCHANGED <<RCDs, block>>
      /\ dev'[q] = dev[q] \/ dev'[q].conn = NoConn
      /\ q # r => rcds'[q] = rcds[q]
      /\ rcds'[q] = rcds[q] \/ Live(c)
  BY DEF Local
<1>5. dev'[q].conn # NoConn =>
          conn'[dev'[q].conn].device = q /\ conn'[dev'[q].conn].pc # "unused"
  <2>1. dev[q].conn \in Conns \union {NoConn}
    BY Numbers
  <2> QED
    BY <1>1, <1>3, <1>4, <2>1 DEF Local
<1>6. ASSUME NEW a \in {Owner, CM}, NEW t \in Sent(a)', t.device = q PROVE Succeeds(t)'
  <2>1. CASE t \in Sent(a)
    BY <1>1, <1>4, <1>6, <2>1
       DEF Succeeds, CanRegOwner, CanStoreKey, FutureIndex, AfterPrevious, CanChange
  <2>2. CASE t \notin Sent(a)
    BY <1>6, <2>2 DEF NewTxOnly
  <2> QED
    BY <2>1, <2>2
<1>7. ASSUME NEW d \in Conns, conn'[d].device = q, d # c PROVE AgreeHandler(q, d)'
  <2>1. conn'[d] = conn[d] /\ AgreeHandler(q, d) /\ d # NoConn
    BY <1>1, <1>3, <1>7 DEF Local, Conns, NoConn
  <2>2. dev'[q].conn = d => dev'[q] = dev[q]
    BY <1>4, <2>1
  <2>3. CASE rcds'[q] = rcds[q]
    BY <1>4, <2>1, <2>2, <2>3 DEF AgreeHandler, EntryOf
  <2>4. CASE rcds'[q] # rcds[q]
    <3>1. q = r /\ Live(c)
      BY <1>4, <2>4
    <3>2. ~Live(d)
      BY <1>2, <1>3, <1>7, <3>1 DEF OneLive
    <3>3. conn[d].pc \in {"unused", "send", "done"}
      BY <3>2 DEF Live
    <3> QED
      BY <1>4, <2>1, <2>2, <3>3
         DEF AgreeHandler, EntryOf, Registering, Storing, Changing, Updating
  <2> QED
    BY <2>3, <2>4
<1>8. \/ rcds'[q].currentIndex = RCDs'[q].currentIndex
      \/ \E d \in Conns : conn'[d].device = q /\ Live(d)'
  <2>1. CASE q = r /\ Live(c)
    BY <1>3, <1>4, <2>1
  <2>2. CASE ~(q = r /\ Live(c))
    <3>1. rcds'[q] = rcds[q]
      BY <1>4, <2>2
    <3>2. \A d \in Conns : conn[d].device = q /\ Live(d) => Live(d)' /\ conn'[d].device = q
      BY <1>3, <2>2 DEF Local, Live
    <3> QED
      BY <1>1, <1>4, <3>1, <3>2
  <2> QED
    BY <2>1, <2>2
<1>9. \A d \in Conns : conn'[d].device = q => AgreeHandler(q, d)'
  BY <1>3, <1>7
<1> QED
  BY <1>5, <1>6, <1>8, <1>9 DEF AgreeInv

LEMMA LocalInv ==
    ASSUME PInv, PInv', IndexInv, NEW c \in Conns, Local(c),
           NEW r \in Rcds, r = conn[c].device, NewTxOnly(c, r),
           TxInv', HandlerInv(c)', OwnerInv(r)',
           Serial(r) => /\ rcds'[r].currentIndex <= RCDs[r].currentIndex
                        /\ SerialHandler(r, c)',
           Faultless(r)' => /\ AgreeHandler(r, c)'
                            /\ \/ rcds'[r].currentIndex = RCDs[r].currentIndex
                               \/ Live(c)'
                               \/ ~Live(c)
    PROVE  IndexInv'
<1>1. BaseInv'
  BY LocalBase DEF IndexInv
<1>2. \A q \in Rcds : SerialInv(q)'
  BY LocalSerial DEF IndexInv
<1>3. \A q \in Rcds : AgreeInv(q)'
  BY LocalAgree DEF IndexInv
<1> QED
  BY <1>1, <1>2, <1>3 DEF IndexInv

\* What the invariants say of a handler and its device.
LEMMA Here ==
    ASSUME PInv, IndexInv, NEW c \in Conns, NEW r \in Rcds, r = conn[c].device
    PROVE  /\ HandlerInv(c) /\ OwnerInv(r) /\ ChainsFrom(r) /\ TxInv
           /\ Serial(r) => /\ rcds[r].currentIndex <= RCDs[r].currentIndex
                           /\ SerialHandler(r, c)
           /\ Faultless(r) => AgreeHandler(r, c) /\ Serial(r)
           /\ rcds[r].currentIndex \in Nat /\ RCDs[r].currentIndex \in Nat
           /\ conn[c].index \in Nat
  BY Numbers DEF IndexInv, BaseInv, SerialInv, AgreeInv, Faultless, Serial

-----------------------------------------------------------------------------
(* The steps of a handler, by what they change.                              *)

LEMMA GotoFields ==
    ASSUME PInv, NEW c \in Conns, NEW pc, Goto(c, pc)
    PROVE  /\ \A d \in Conns \ {c} : conn'[d] = conn[d]
           /\ conn'[c].pc = pc /\ conn'[c].receipt = "none"
           /\ conn'[c].device = conn[c].device /\ conn'[c].slot = conn[c].slot
           /\ conn'[c].index = conn[c].index
  BY ConnFields DEF Goto, ConnRecords

LEMMA DoneFields ==
    ASSUME PInv, NEW c \in Conns, Done(c)
    PROVE  /\ \A d \in Conns \ {c} : conn'[d] = conn[d]
           /\ conn'[c].pc = "done" /\ conn'[c].receipt = "none"
           /\ conn'[c].device = conn[c].device /\ conn'[c].slot = 0
           /\ conn'[c].index = 0
  BY ConnFields DEF Done, ConnRecords

\* The handler alone moves on.
LEMMA QuietStep ==
    ASSUME PInv, PInv', IndexInv, NEW c \in Conns, NEW r \in Rcds, r = conn[c].device,
           conn[c].pc \notin {"unused", "send", "done"}, ~Pending(c), ~Reported(c, r),
           UNCHANGED <<RCDs, block, rcds, pool, dev, faults>>,
           \A d \in Conns \ {c} : conn'[d] = conn[d],
           conn'[c].device = r, conn'[c].pc # "unused",
           HandlerInv(c)',
           Serial(r) => SerialHandler(r, c)',
           Faultless(r) => /\ AgreeHandler(r, c)'
                           /\ rcds[r].currentIndex = RCDs[r].currentIndex \/ Live(c)'
    PROVE  IndexInv'
<1>1. Local(c)
  BY DEF Local, Live
<1>2. TxInv'
  BY <1>1, Here, LocalTxSame
<1>3. NewTxOnly(c, r)
  BY SamePool DEF NewTxOnly
<1>4. OwnerInv(r)'
  <2>1. \A d \in Conns : Reported(d, r) => Reported(d, r)'
    BY DEF Reported
  <2>2. DevInv(r)'
    BY Here DEF OwnerInv, DevInv
  <2> QED
    BY <1>1, <2>1, <2>2, Here, LocalGrows, OwnerStays
<1>5. Faultless(r)' => Faultless(r)
  BY DEF Faultless
<1> QED
  BY <1>1, <1>2, <1>3, <1>4, <1>5, Here, LocalInv

\* The node takes the handler's transaction, and the handler waits for it.
LEMMA SubmitStep ==
    ASSUME PInv, PInv', IndexInv, NEW c \in Conns, NEW r \in Rcds, r = conn[c].device,
           NEW a \in {Owner, CM}, NEW call \in Calls, Submit(a, call, c),
           (call = "regOwner") <=> (a = CM),
           \/ call = "regOwner" /\ conn[c].pc = "register" /\ Goto(c, "registering")
           \/ call = "storeKey" /\ conn[c].pc = "submit" /\ Goto(c, "storing")
           \/ call = "changeCurrentIndex" /\ conn[c].pc = "change" /\ Goto(c, "changing"),
           UNCHANGED <<RCDs, block, rcds, dev, faults>>
    PROVE  IndexInv'
<1>1. PICK t : t = Tx(call, c)
  OBVIOUS
<1>2. /\ t.call = call /\ t.conn = c /\ t.device = r /\ t.index = conn[c].index
      /\ t.start = conn[c].slot
  BY <1>1 DEF Tx
<1>3. /\ \A d \in Conns \ {c} : conn'[d] = conn[d]
      /\ conn'[c].receipt = "none" /\ conn'[c].device = r
      /\ conn'[c].slot = conn[c].slot /\ conn'[c].index = conn[c].index
      /\ \/ call = "regOwner" /\ conn[c].pc = "register" /\ conn'[c].pc = "registering"
         \/ call = "storeKey" /\ conn[c].pc = "submit" /\ conn'[c].pc = "storing"
         \/ call = "changeCurrentIndex" /\ conn[c].pc = "change" /\ conn'[c].pc = "changing"
  BY GotoFields
<1>4. Local(c) /\ ~Pending(c)
  BY <1>3 DEF Local, Live, Pending
<1>5. Succeeds(t) /\ pool' = [pool EXCEPT ![a] = Append(@, Tx(call, c))]
  BY <1>1 DEF Submit
<1>6. Succeeds(t)'
  BY <1>5 DEF Succeeds, CanRegOwner, CanStoreKey, FutureIndex, AfterPrevious, CanChange
<1>7. /\ HandlerInv(c) /\ OwnerInv(r) /\ ChainsFrom(r) /\ TxInv
      /\ rcds[r].currentIndex \in Nat /\ RCDs[r].currentIndex \in Nat
  BY Here
<1>8. TxOf(a, t)'
  BY <1>2, <1>3, <1>7 DEF TxOf, HandlerInv, OwnerInv, Awaited, Storing, Changing
<1>9. TxInv'
  BY <1>1, <1>4, <1>5, <1>7, <1>8, LocalTxSubmit
<1>10. Serial(r) => SerialTx(r, t)'
  <2> SUFFICES ASSUME Serial(r) PROVE SerialTx(r, t)'
    OBVIOUS
  <2>1. SerialHandler(r, c) /\ rcds[r].currentIndex <= RCDs[r].currentIndex
    BY Here
  <2>2. call = "storeKey" => t.index <= RCDs[r].currentIndex + 1
    BY <1>2, <1>3, <1>7, <2>1 DEF SerialHandler, Storing
  <2>3. call = "changeCurrentIndex" => CanChange(r)'
    BY <1>2, <1>6 DEF Succeeds
  <2> QED
    BY <1>2, <2>2, <2>3 DEF SerialTx
<1>11. NewTxOnly(c, r)
  BY <1>1, <1>2, <1>5, <1>6, <1>10, SubmitNewTx
<1>12. HandlerInv(c)'
  BY <1>3, <1>7 DEF HandlerInv, Storing, Changing, Updating, Reported
<1>13. OwnerInv(r)'
  <2>1. \A d \in Conns : Reported(d, r) => Reported(d, r)'
    BY <1>3 DEF Reported
  <2>2. DevInv(r)'
    BY <1>7 DEF OwnerInv, DevInv
  <2> QED
    BY <1>4, <1>7, <2>1, <2>2, LocalGrows, OwnerStays
<1>14. Serial(r) => SerialHandler(r, c)'
  BY <1>3, Here DEF SerialHandler, Registering, Storing, Changing, Updating
<1>15. Faultless(r)' => AgreeHandler(r, c)' /\ Live(c)'
  BY <1>3, Here DEF AgreeHandler, Registering, Storing, Changing, Updating, Live, EntryOf, Faultless
<1> QED
  BY <1>4, <1>9, <1>11, <1>12, <1>13, <1>14, <1>15, Here, LocalInv

\* The handler is done, with a transaction on its way that nobody waits for.
LEMMA LostStep ==
    ASSUME PInv, PInv', IndexInv, NEW c \in Conns, NEW r \in Rcds, r = conn[c].device,
           conn[c].pc \notin {"unused", "send", "done"}, Done(c),
           Loses(c), UNCHANGED <<RCDs, block, rcds, dev>>,
           \/ UNCHANGED pool
           \/ /\ ~Pending(c)
              /\ \/ Submit(CM, "regOwner", c) /\ conn[c].pc = "register"
                 \/ Submit(Owner, "storeKey", c) /\ conn[c].pc = "submit"
                 \/ Submit(Owner, "changeCurrentIndex", c) /\ conn[c].pc = "change"
    PROVE  IndexInv'
<1>1. /\ \A d \in Conns \ {c} : conn'[d] = conn[d]
      /\ conn'[c].pc = "done" /\ conn'[c].receipt = "none" /\ conn'[c].device = r
      /\ conn'[c].slot = 0 /\ conn'[c].index = 0
  BY DoneFields
<1>2. /\ faults'[r] = faults[r] \union {"lost"}
      /\ \A q \in Rcds \ {r} : faults'[q] = faults[q]
  <2>1. faults \in [Rcds -> SUBSET {"overlap", "lost", "moved"}]
    BY DEF PInv, PTypeOK
  <2> QED
    BY <2>1 DEF Loses
<1>3. Local(c)
  BY <1>1, <1>2 DEF Local, Live
<1>4. /\ HandlerInv(c) /\ OwnerInv(r) /\ ChainsFrom(r) /\ TxInv
      /\ rcds[r].currentIndex \in Nat /\ RCDs[r].currentIndex \in Nat
  BY Here
<1>5. TxInv' /\ NewTxOnly(c, r)
  <2>1. CASE UNCHANGED pool
    BY <1>3, <1>4, <2>1, SamePool, LocalTxSame DEF NewTxOnly
  <2>2. ASSUME NEW a \in {Owner, CM}, NEW call \in Calls, Submit(a, call, c), ~Pending(c),
               (call = "regOwner") <=> (a = CM),
               \/ call = "regOwner" /\ conn[c].pc = "register"
               \/ call = "storeKey" /\ conn[c].pc = "submit"
               \/ call = "changeCurrentIndex" /\ conn[c].pc = "change"
        PROVE  TxInv' /\ NewTxOnly(c, r)
    <3>1. PICK t : t = Tx(call, c)
      OBVIOUS
    <3>2. /\ t.call = call /\ t.conn = c /\ t.device = r /\ t.index = conn[c].index
          /\ t.start = conn[c].slot
      BY <3>1 DEF Tx
    <3>3. Succeeds(t) /\ pool' = [pool EXCEPT ![a] = Append(@, Tx(call, c))]
      BY <2>2, <3>1 DEF Submit
    <3>4. Succeeds(t)'
      BY <3>3 DEF Succeeds, CanRegOwner, CanStoreKey, FutureIndex, AfterPrevious, CanChange
    <3>5. TxOf(a, t)'
      BY <1>1, <1>2, <1>4, <2>2, <3>2 DEF TxOf, HandlerInv, OwnerInv, Storing, Changing
    <3>6. TxInv'
      BY <1>3, <1>4, <2>2, <3>1, <3>3, <3>5, LocalTxSubmit
    <3>7. Serial(r) => SerialTx(r, t)'
      <4> SUFFICES ASSUME Serial(r) PROVE SerialTx(r, t)'
        OBVIOUS
      <4>1. SerialHandler(r, c) /\ rcds[r].currentIndex <= RCDs[r].currentIndex
        BY Here
      <4>2. call = "storeKey" => t.index <= RCDs[r].currentIndex + 1
        BY <1>4, <2>2, <3>2, <4>1 DEF SerialHandler, Storing
      <4> QED
        BY <1>1, <3>2, <4>2 DEF SerialTx
    <3>8. NewTxOnly(c, r)
      BY <2>2, <3>1, <3>2, <3>3, <3>4, <3>7, SubmitNewTx
    <3> QED
      BY <3>6, <3>8
  <2>3. CM # Owner
    BY ProvisioningAssumption
  <2> QED
    BY <2>1, <2>2, <2>3 DEF Calls
<1>6. HandlerInv(c)'
  BY <1>1, Numbers DEF HandlerInv, Storing, Changing, Updating, Reported
<1>7. OwnerInv(r)'
  <2>1. "lost" \in faults'[r] /\ DevInv(r)'
    BY <1>2, <1>4 DEF OwnerInv, DevInv
  <2> QED
    BY <1>3, <1>4, <2>1, LocalGrows, OwnerStays
<1>8. Serial(r) => SerialHandler(r, c)'
  BY <1>1 DEF SerialHandler, Registering, Storing, Changing, Updating
<1>9. ~Faultless(r)'
  BY <1>2 DEF Faultless
<1> QED
  BY <1>3, <1>4, <1>5, <1>6, <1>7, <1>8, <1>9, Here, LocalInv

-----------------------------------------------------------------------------
(* The steps of a handler, one by one.                                       *)

LEMMA SubmitFailsInv ==
    ASSUME PInv, PInv', IndexInv, NEW c \in Conns,
           \/ conn[c].pc = "register" /\ SubmitFails(CM, "regOwner", c)
           \/ conn[c].pc = "submit" /\ SubmitFails(Owner, "storeKey", c)
           \/ conn[c].pc = "change" /\ SubmitFails(Owner, "changeCurrentIndex", c)
    PROVE  IndexInv'
<1>1. PICK r \in Rcds : r = conn[c].device
  BY Numbers
<1>2. /\ conn[c].pc \in {"register", "submit", "change"} /\ ~Pending(c) /\ ~Reported(c, r)
      /\ Done(c) /\ UNCHANGED <<RCDs, block, rcds, dev>>
  BY DEF SubmitFails, Pending, Reported
<1>3. CASE UNCHANGED <<pool, faults>>
  <2>1. /\ \A d \in Conns \ {c} : conn'[d] = conn[d]
        /\ conn'[c].pc = "done" /\ conn'[c].device = r /\ conn'[c].slot = 0
    BY <1>1, <1>2, DoneFields
  <2>2. HandlerInv(c)'
    BY <1>2, <2>1, Numbers DEF HandlerInv, Storing, Changing, Updating, Reported
  <2>3. SerialHandler(r, c)'
    BY <2>1 DEF SerialHandler, Registering, Storing, Changing, Updating
  <2>4. Faultless(r) => AgreeHandler(r, c)' /\ rcds[r].currentIndex = RCDs[r].currentIndex
    BY <1>1, <1>2, <2>1, Here DEF AgreeHandler, Registering, Storing, Changing, Updating
  <2> QED
    BY <1>1, <1>2, <1>3, <2>1, <2>2, <2>3, <2>4, QuietStep
<1>4. CASE ~UNCHANGED <<pool, faults>>
  <2>1. /\ Loses(c)
        /\ \/ Submit(CM, "regOwner", c) /\ conn[c].pc = "register"
           \/ Submit(Owner, "storeKey", c) /\ conn[c].pc = "submit"
           \/ Submit(Owner, "changeCurrentIndex", c) /\ conn[c].pc = "change"
    BY <1>4 DEF SubmitFails
  <2> QED
    BY <1>1, <1>2, <2>1, LostStep
<1> QED
  BY <1>3, <1>4

LEMMA LoadInv == ASSUME PInv, PInv', IndexInv, NEW c \in Conns, Load(c) PROVE IndexInv'
<1>1. PICK r \in Rcds : r = conn[c].device
  BY Numbers
<1>2. /\ conn[c].pc = "load" /\ ~Pending(c) /\ ~Reported(c, r)
      /\ UNCHANGED <<RCDs, block, rcds, pool, dev, faults>>
  BY DEF Load, Pending, Reported
<1>3. /\ \A d \in Conns \ {c} : conn'[d] = conn[d]
      /\ conn'[c].pc = IF rcds[r].registered THEN "index" ELSE "register"
      /\ conn'[c].device = r /\ conn'[c].slot = conn[c].slot
  BY <1>1, GotoFields DEF Load
<1>4. HandlerInv(c)'
  BY <1>1, <1>2, <1>3, Here DEF HandlerInv, Storing, Changing, Updating, Reported
<1>5. SerialHandler(r, c)'
  BY <1>2, <1>3 DEF SerialHandler, Registering, Storing, Changing, Updating
<1>6. Faultless(r) => AgreeHandler(r, c)' /\ Live(c)'
  BY <1>1, <1>2, <1>3, Here
     DEF AgreeHandler, Registering, Storing, Changing, Updating, Live
<1> QED
  BY <1>1, <1>2, <1>3, <1>4, <1>5, <1>6, QuietStep

LEMMA RegisterRevertedInv ==
    ASSUME PInv, PInv', IndexInv, NEW c \in Conns, RegisterReverted(c) PROVE IndexInv'
<1>1. PICK r \in Rcds : r = conn[c].device
  BY Numbers
<1>2. /\ conn[c].pc = "registering" /\ ~Pending(c) /\ ~Reported(c, r)
      /\ UNCHANGED <<RCDs, block, rcds, pool, dev, faults>>
  BY DEF RegisterReverted, Pending, Reported
<1>3. /\ \A d \in Conns \ {c} : conn'[d] = conn[d]
      /\ conn'[c].pc = "done" /\ conn'[c].device = r /\ conn'[c].slot = 0
  BY <1>1, DoneFields DEF RegisterReverted
<1>4. HandlerInv(c)'
  BY <1>2, <1>3, Numbers DEF HandlerInv, Storing, Changing, Updating, Reported
<1>5. SerialHandler(r, c)'
  BY <1>3 DEF SerialHandler, Registering, Storing, Changing, Updating
<1>6. Faultless(r) => AgreeHandler(r, c)' /\ rcds[r].currentIndex = RCDs[r].currentIndex
  BY <1>1, <1>2, <1>3, Here DEF AgreeHandler, Registering, Storing, Changing, Updating
<1> QED
  BY <1>1, <1>2, <1>3, <1>4, <1>5, <1>6, QuietStep

\* The owner's fresh rcdState: D was 0 already, unless handlers overlapped.
LEMMA RegisteredInv ==
    ASSUME PInv, PInv', IndexInv, NEW c \in Conns, Registered(c) PROVE IndexInv'
<1>1. PICK r \in Rcds : r = conn[c].device
  BY Numbers
<1>2. /\ conn[c].pc = "registering" /\ conn[c].receipt = "successful"
      /\ UNCHANGED <<RCDs, block, pool, dev, faults>>
      /\ \A q \in Rcds \ {r} : rcds'[q] = rcds[q]
      /\ rcds'[r].registered /\ rcds'[r].currentIndex = 0
  <2>1. rcds \in [Rcds -> [registered : BOOLEAN, currentIndex : Nat]]
    BY DEF PInv, PTypeOK
  <2> QED
    BY <1>1, <2>1 DEF Registered
<1>3. /\ \A d \in Conns \ {c} : conn'[d] = conn[d]
      /\ conn'[c].pc = "index" /\ conn'[c].device = r /\ conn'[c].slot = conn[c].slot
  BY <1>1, GotoFields DEF Registered
<1>4. Local(c)
  BY <1>1, <1>2, <1>3 DEF Local, Live, Pending
<1>5. TxInv' /\ NewTxOnly(c, r)
  <2>1. UNCHANGED pool /\ TxInv
    BY <1>1, <1>2, Here
  <2>2. TxInv'
    BY <1>4, <2>1, LocalTxSame
  <2> QED
    BY <2>1, <2>2, SamePool DEF NewTxOnly
<1>6. HandlerInv(c)'
  BY <1>1, <1>2, <1>3, Here DEF HandlerInv, Storing, Changing, Updating, Reported
<1>7. OwnerInv(r)'
  BY <1>1, <1>2, <1>3, Here DEF OwnerInv, DevInv, HandlerInv, Reported
<1>8. rcds'[r].currentIndex <= RCDs[r].currentIndex /\ SerialHandler(r, c)'
  BY <1>1, <1>2, <1>3, Here DEF SerialHandler, Registering, Storing, Changing, Updating
<1>9. Faultless(r)' => AgreeHandler(r, c)' /\ Live(c)'
  <2> SUFFICES ASSUME Faultless(r)' PROVE AgreeHandler(r, c)' /\ Live(c)'
    OBVIOUS
  <2>1. Faultless(r)
    BY <1>2 DEF Faultless
  <2>2. ~rcds[r].registered /\ RCDs[r].currentIndex = rcds[r].currentIndex
    BY <1>1, <1>2, <2>1, Here DEF SerialHandler, AgreeHandler, Registering
  <2>3. RCDs[r].currentIndex = 0
    BY <1>1, <2>2, Here DEF OwnerInv
  <2>4. dev[r].conn = c => conn[c].slot = dev[r].slot
    BY <1>1, <1>2, <2>1, Here DEF AgreeHandler
  <2> QED
    BY <1>2, <1>3, <2>3, <2>4
       DEF AgreeHandler, Registering, Storing, Changing, Updating, Live
<1> QED
  BY <1>1, <1>4, <1>5, <1>6, <1>7, <1>8, <1>9, LocalInv

LEMMA NextIndexInv ==
    ASSUME PInv, PInv', IndexInv, NEW c \in Conns, NextIndex(c) PROVE IndexInv'
<1>1. PICK r \in Rcds : r = conn[c].device
  BY Numbers
<1>2. /\ conn[c].pc = "index" /\ ~Pending(c) /\ ~Reported(c, r)
      /\ UNCHANGED <<RCDs, block, rcds, pool, dev, faults>>
  BY DEF NextIndex, Pending, Reported
<1>3. /\ \A d \in Conns \ {c} : conn'[d] = conn[d]
      /\ conn'[c].pc = "submit" /\ conn'[c].device = r /\ conn'[c].slot = conn[c].slot
      /\ conn'[c].index = rcds[r].currentIndex + 1
  BY <1>1, ConnFields DEF NextIndex, ConnRecords
<1>4. HandlerInv(c)'
  BY <1>1, <1>2, <1>3, Here DEF HandlerInv, OwnerInv, Storing, Changing, Updating, Reported
<1>5. SerialHandler(r, c)'
  BY <1>2, <1>3 DEF SerialHandler, Registering, Storing, Changing, Updating
<1>6. Faultless(r) => AgreeHandler(r, c)' /\ Live(c)'
  BY <1>1, <1>2, <1>3, Here
     DEF AgreeHandler, Registering, Storing, Changing, Updating, Live
<1> QED
  BY <1>1, <1>2, <1>3, <1>4, <1>5, <1>6, QuietStep

\* Whatever the receipt says, the contract has a current chain.
LEMMA StoreKeyMinedInv ==
    ASSUME PInv, PInv', IndexInv, NEW c \in Conns, StoreKeyMined(c) PROVE IndexInv'
<1>1. PICK r \in Rcds : r = conn[c].device
  BY Numbers
<1>2. /\ conn[c].pc = "storing" /\ conn[c].receipt # "none" /\ ~Pending(c) /\ ~Reported(c, r)
      /\ UNCHANGED <<RCDs, block, rcds, pool, dev, faults>>
  BY DEF StoreKeyMined, Pending, Reported
<1>3. /\ \A d \in Conns \ {c} : conn'[d] = conn[d]
      /\ conn'[c].pc = IF rcds[r].currentIndex = 0 THEN "update" ELSE "change"
      /\ conn'[c].device = r /\ conn'[c].slot = conn[c].slot /\ conn'[c].index = conn[c].index
      /\ conn'[c].receipt = "none"
  BY <1>1, GotoFields DEF StoreKeyMined
<1>4. HandlerInv(c)'
  BY <1>1, <1>2, <1>3, Here DEF HandlerInv, Storing, Changing, Updating, Reported
<1>5. Serial(r) => SerialHandler(r, c)'
  <2>1. RCDs[r].currentIndex # 0
    BY <1>1, <1>2, Here DEF HandlerInv
  <2> QED
    BY <1>1, <1>2, <1>3, <2>1, Here
       DEF SerialHandler, Registering, Storing, Changing, Updating
<1>6. Faultless(r) => AgreeHandler(r, c)' /\ Live(c)'
  <2> SUFFICES ASSUME Faultless(r) PROVE AgreeHandler(r, c)' /\ Live(c)'
    OBVIOUS
  <2>1. /\ RCDs[r].currentIndex = IF rcds[r].currentIndex = 0 THEN 1 ELSE rcds[r].currentIndex
        /\ RCDs[r].chains[rcds[r].currentIndex + 1] = EntryOf(c)
        /\ dev[r].conn = c => conn[c].slot = dev[r].slot
    BY <1>1, <1>2, Here DEF AgreeHandler
  <2>2. EntryOf(c)' = EntryOf(c)
    BY <1>3 DEF EntryOf
  <2> QED
    BY <1>2, <1>3, <2>1, <2>2
       DEF AgreeHandler, Registering, Storing, Changing, Updating, Live
<1> QED
  BY <1>1, <1>2, <1>3, <1>4, <1>5, <1>6, QuietStep

LEMMA ChangeMinedInv ==
    ASSUME PInv, PInv', IndexInv, NEW c \in Conns, ChangeMined(c) PROVE IndexInv'
<1>1. PICK r \in Rcds : r = conn[c].device
  BY Numbers
<1>2. /\ conn[c].pc = "changing" /\ conn[c].receipt # "none" /\ ~Pending(c) /\ ~Reported(c, r)
      /\ UNCHANGED <<RCDs, block, rcds, pool, dev, faults>>
  BY DEF ChangeMined, Pending, Reported
<1>3. /\ \A d \in Conns \ {c} : conn'[d] = conn[d]
      /\ conn'[c].pc = "update"
      /\ conn'[c].device = r /\ conn'[c].slot = conn[c].slot
  BY <1>1, GotoFields DEF ChangeMined
<1>4. HandlerInv(c)'
  BY <1>1, <1>2, <1>3, Here DEF HandlerInv, Storing, Changing, Updating, Reported
<1>5. Serial(r) => SerialHandler(r, c)'
  BY <1>1, <1>2, <1>3, Here DEF SerialHandler, Registering, Storing, Changing, Updating
<1>6. Faultless(r) => AgreeHandler(r, c)' /\ Live(c)'
  <2> SUFFICES ASSUME Faultless(r) PROVE AgreeHandler(r, c)' /\ Live(c)'
    OBVIOUS
  <2>1. /\ RCDs[r].currentIndex = rcds[r].currentIndex + 1
        /\ RCDs[r].chains[rcds[r].currentIndex + 1] = EntryOf(c)
        /\ dev[r].conn = c => conn[c].slot = dev[r].slot
    BY <1>1, <1>2, Here DEF AgreeHandler, Changing
  <2>2. EntryOf(c)' = EntryOf(c)
    BY <1>3 DEF EntryOf
  <2> QED
    BY <1>2, <1>3, <2>1, <2>2
       DEF AgreeHandler, Registering, Storing, Changing, Updating, Live
<1> QED
  BY <1>1, <1>2, <1>3, <1>4, <1>5, <1>6, QuietStep

LEMMA UpdateReadInv ==
    ASSUME PInv, PInv', IndexInv, NEW c \in Conns, UpdateRead(c) PROVE IndexInv'
<1>1. PICK r \in Rcds : r = conn[c].device
  BY Numbers
<1>2. /\ conn[c].pc = "update" /\ ~Pending(c) /\ ~Reported(c, r)
      /\ UNCHANGED <<RCDs, block, rcds, pool, dev, faults>>
  BY DEF UpdateRead, Pending, Reported
<1>3. /\ \A d \in Conns \ {c} : conn'[d] = conn[d]
      /\ conn'[c].pc = "write" /\ conn'[c].device = r /\ conn'[c].slot = conn[c].slot
      /\ conn'[c].index = rcds[r].currentIndex + 1
  BY <1>1, ConnFields DEF UpdateRead, ConnRecords
<1>4. HandlerInv(c)'
  BY <1>1, <1>2, <1>3, Here DEF HandlerInv, Storing, Changing, Updating, Reported
<1>5. Serial(r) => SerialHandler(r, c)'
  BY <1>1, <1>2, <1>3, Here DEF SerialHandler, Registering, Storing, Changing, Updating
<1>6. Faultless(r) => AgreeHandler(r, c)' /\ Live(c)'
  <2> SUFFICES ASSUME Faultless(r) PROVE AgreeHandler(r, c)' /\ Live(c)'
    OBVIOUS
  <2>1. /\ RCDs[r].currentIndex = rcds[r].currentIndex + 1
        /\ RCDs[r].chains[rcds[r].currentIndex + 1] = EntryOf(c)
        /\ dev[r].conn = c => conn[c].slot = dev[r].slot
    BY <1>1, <1>2, Here DEF AgreeHandler, Updating
  <2>2. EntryOf(c)' = EntryOf(c)
    BY <1>3 DEF EntryOf
  <2> QED
    BY <1>2, <1>3, <2>1, <2>2
       DEF AgreeHandler, Registering, Storing, Changing, Updating, Live
<1> QED
  BY <1>1, <1>2, <1>3, <1>4, <1>5, <1>6, QuietStep

\* D becomes C.
LEMMA UpdateWriteInv ==
    ASSUME PInv, PInv', IndexInv, NEW c \in Conns, UpdateWrite(c) PROVE IndexInv'
<1>1. PICK r \in Rcds : r = conn[c].device
  BY Numbers
<1>2. /\ conn[c].pc = "write"
      /\ UNCHANGED <<RCDs, block, pool, dev, faults>>
      /\ \A q \in Rcds \ {r} : rcds'[q] = rcds[q]
      /\ rcds'[r].registered = rcds[r].registered /\ rcds'[r].currentIndex = conn[c].index
  <2>1. rcds \in [Rcds -> [registered : BOOLEAN, currentIndex : Nat]]
    BY DEF PInv, PTypeOK
  <2> QED
    BY <1>1, <2>1 DEF UpdateWrite
<1>3. /\ \A d \in Conns \ {c} : conn'[d] = conn[d]
      /\ conn'[c].pc = "send" /\ conn'[c].device = r /\ conn'[c].slot = conn[c].slot
  BY <1>1, GotoFields DEF UpdateWrite
<1>4. Local(c)
  BY <1>1, <1>2, <1>3 DEF Local, Live, Pending
<1>5. TxInv' /\ NewTxOnly(c, r)
  <2>1. UNCHANGED pool /\ TxInv
    BY <1>1, <1>2, Here
  <2>2. TxInv'
    BY <1>4, <2>1, LocalTxSame
  <2> QED
    BY <2>1, <2>2, SamePool DEF NewTxOnly
<1>6. HandlerInv(c)'
  BY <1>1, <1>2, <1>3, Here DEF HandlerInv, Storing, Changing, Updating, Reported
<1>7. OwnerInv(r)'
  <2>1. rcds[r].registered /\ RCDs[r].currentIndex # 0
    BY <1>1, <1>2, Here DEF HandlerInv, Updating
  <2> QED
    BY <1>1, <1>2, <2>1, Here DEF OwnerInv, DevInv
<1>8. Serial(r) => rcds'[r].currentIndex <= RCDs[r].currentIndex /\ SerialHandler(r, c)'
  BY <1>1, <1>2, <1>3, Here DEF SerialHandler, Registering, Storing, Changing, Updating
<1>9. Faultless(r)' => /\ AgreeHandler(r, c)'
                       /\ rcds'[r].currentIndex = RCDs[r].currentIndex
  <2> SUFFICES ASSUME Faultless(r)'
               PROVE  AgreeHandler(r, c)' /\ rcds'[r].currentIndex = RCDs[r].currentIndex
    OBVIOUS
  <2>1. Faultless(r)
    BY <1>2 DEF Faultless
  <2>2. /\ RCDs[r].currentIndex = rcds[r].currentIndex + 1
        /\ conn[c].index = rcds[r].currentIndex + 1
        /\ RCDs[r].chains[rcds[r].currentIndex + 1] = EntryOf(c)
        /\ dev[r].conn = c => conn[c].slot = dev[r].slot
    BY <1>1, <1>2, <2>1, Here DEF SerialHandler, AgreeHandler, Updating
  <2>3. EntryOf(c)' = EntryOf(c)
    BY <1>3 DEF EntryOf
  <2> QED
    BY <1>2, <1>3, <2>2, <2>3
       DEF AgreeHandler, Registering, Storing, Changing, Updating
<1> QED
  BY <1>1, <1>4, <1>5, <1>6, <1>7, <1>8, <1>9, LocalInv

LEMMA SendChainInv ==
    ASSUME PInv, PInv', IndexInv, NEW c \in Conns, SendChain(c) PROVE IndexInv'
<1>1. PICK r \in Rcds : r = conn[c].device
  BY Numbers
<1>2. /\ conn[c].pc = "send"
      /\ UNCHANGED <<RCDs, block, pool, rcds, faults>>
      /\ \A q \in Rcds \ {r} : dev'[q] = dev[q]
      /\ dev'[r] = dev[r] \/ (dev'[r].conn = NoConn /\ dev'[r].slot = 0)
  <2>1. dev \in [Rcds -> DevRecords]
    BY Parts DEF DevPart
  <2> QED
    BY <1>1, <2>1 DEF SendChain
<1>3. /\ \A d \in Conns \ {c} : conn'[d] = conn[d]
      /\ conn'[c].pc = "done" /\ conn'[c].device = r /\ conn'[c].slot = 0
  BY <1>1, DoneFields DEF SendChain
<1>4. Local(c) /\ ~Live(c)
  BY <1>1, <1>2, <1>3 DEF Local, Live, Pending
<1>5. TxInv' /\ NewTxOnly(c, r)
  <2>1. UNCHANGED pool /\ TxInv
    BY <1>1, <1>2, Here
  <2>2. TxInv'
    BY <1>4, <2>1, LocalTxSame
  <2> QED
    BY <2>1, <2>2, SamePool DEF NewTxOnly
<1>6. HandlerInv(c)'
  BY <1>2, <1>3, Numbers DEF HandlerInv, Storing, Changing, Updating, Reported
<1>7. OwnerInv(r)'
  <2>1. \A d \in Conns : Reported(d, r) => Reported(d, r)'
    BY <1>2, <1>3 DEF Reported
  <2>2. DevInv(r)'
    BY <1>1, <1>2, Here, Numbers DEF OwnerInv, DevInv
  <2> QED
    BY <1>1, <1>2, <1>4, <2>1, <2>2, Here, LocalGrows, OwnerStays
<1>8. SerialHandler(r, c)' /\ AgreeHandler(r, c)'
  BY <1>3 DEF SerialHandler, AgreeHandler, Registering, Storing, Changing, Updating
<1> QED
  BY <1>1, <1>2, <1>4, <1>5, <1>6, <1>7, <1>8, Here, LocalInv

LEMMA HandlerIndexInv ==
    ASSUME PInv, PInv', IndexInv, NEW c \in Conns, HandleRCD(c) \/ RegisterLost(c)
    PROVE  IndexInv'
<1>1. PICK r \in Rcds : r = conn[c].device
  BY Numbers
<1>2. CM # Owner
  BY ProvisioningAssumption
<1>3. CASE RegisterSubmit(c)
  BY <1>1, <1>2, <1>3, SubmitStep DEF RegisterSubmit, Calls
<1>4. CASE StoreKeySubmit(c)
  BY <1>1, <1>2, <1>4, SubmitStep DEF StoreKeySubmit, Calls
<1>5. CASE ChangeSubmit(c)
  BY <1>1, <1>2, <1>5, SubmitStep DEF ChangeSubmit, Calls
<1>6. CASE RegisterFails(c) \/ StoreKeyFails(c) \/ ChangeFails(c)
  BY <1>6, SubmitFailsInv DEF RegisterFails, StoreKeyFails, ChangeFails
<1>7. CASE RegisterLost(c)
  BY <1>1, <1>7, LostStep DEF RegisterLost
<1> QED
  BY <1>3, <1>4, <1>5, <1>6, <1>7, LoadInv, RegisterRevertedInv, RegisteredInv, NextIndexInv,
     StoreKeyMinedInv, ChangeMinedInv, UpdateReadInv, UpdateWriteInv, SendChainInv
     DEF HandleRCD

-----------------------------------------------------------------------------
(* The steps of the device, and a new block.                                 *)

\* Nothing but the record of one device changes.
LEMMA DeviceStep ==
    ASSUME PInv, PInv', IndexInv, NEW r \in Rcds,
           UNCHANGED <<RCDs, block, rcds, conn, pool, faults>>,
           \A q \in Rcds \ {r} : dev'[q] = dev[q],
           DevInv(r)',
           \/ dev'[r].conn = NoConn
           \/ dev'[r].conn = dev[r].conn /\ dev'[r].slot = dev[r].slot
    PROVE  IndexInv'
<1>1. Grows
  BY Numbers DEF Grows
<1>2. \A q \in Rcds : DevInv(q)'
  BY DEF IndexInv, BaseInv, OwnerInv, DevInv
<1>3. \A q \in Rcds : OwnerInv(q)'
  <2> SUFFICES ASSUME NEW q \in Rcds PROVE OwnerInv(q)'
    OBVIOUS
  <2>1. \A d \in Conns : Reported(d, q) => Reported(d, q)'
    BY DEF Reported
  <2>2. OwnerInv(q) /\ DevInv(q)'
    BY <1>2 DEF IndexInv, BaseInv
  <2> QED
    BY <1>1, <2>1, <2>2, OwnerStays
<1>4. \A c \in Conns : HandlerInv(c)'
  BY <1>1, HandlerStays DEF IndexInv, BaseInv
<1>5. \A a \in {Owner, CM} : Sent(a)' = Sent(a)
  BY SamePool
<1>6. TxInv'
  <2>1. \A a \in {Owner, CM} : OneEach(a)'
    BY DEF IndexInv, BaseInv, TxInv, OneEach
  <2>2. \A a \in {Owner, CM} : \A t \in Sent(a)' : TxOf(a, t)'
    BY <1>1, <1>5, TxStays DEF IndexInv, BaseInv, TxInv
  <2> QED
    BY <2>1, <2>2 DEF TxInv
<1>7. \A q \in Rcds : ChainsFrom(q)'
  BY DEF IndexInv, BaseInv, ChainsFrom, getKey
<1>8. \A q \in Rcds : dev'[q].conn # NoConn => dev'[q].conn = dev[q].conn /\ dev'[q].slot = dev[q].slot
  OBVIOUS
<1>9. ASSUME NEW q \in Rcds PROVE SerialInv(q)'
  <2> SUFFICES ASSUME Serial(q)' PROVE SerialInv(q)'
    BY DEF SerialInv
  <2>1. SerialInv(q) /\ Serial(q)
    BY DEF IndexInv, Serial
  <2>2. OneLive(q)'
    BY <1>8, <2>1 DEF SerialInv, OneLive, Live
  <2>3. \A c \in Conns : conn'[c].device = q => SerialHandler(q, c)'
    BY <2>1 DEF SerialInv, SerialHandler
  <2>4. \A a \in {Owner, CM} : \A t \in Sent(a)' : t.device = q => SerialTx(q, t)'
    BY <1>5, <2>1 DEF SerialInv, SerialTx, CanChange
  <2>5. ChainsInv(q)' /\ rcds'[q].currentIndex <= RCDs'[q].currentIndex
    BY <2>1 DEF SerialInv, ChainsInv, StoredPrefix, WindowsWellFormed, Disjoint
  <2> QED
    BY <2>2, <2>3, <2>4, <2>5 DEF SerialInv
<1>10. ASSUME NEW q \in Rcds PROVE AgreeInv(q)'
  <2> SUFFICES ASSUME Faultless(q)' PROVE AgreeInv(q)'
    BY DEF AgreeInv
  <2>1. AgreeInv(q) /\ Faultless(q)
    BY DEF IndexInv, Faultless
  <2>2. \A c \in Conns : conn'[c].device = q => AgreeHandler(q, c)'
    <3> SUFFICES ASSUME NEW c \in Conns, conn[c].device = q PROVE AgreeHandler(q, c)'
      OBVIOUS
    <3>1. AgreeHandler(q, c) /\ c # NoConn
      BY <2>1 DEF AgreeInv, Conns, NoConn
    <3> QED
      BY <1>8, <3>1 DEF AgreeHandler, EntryOf
  <2>3. \A a \in {Owner, CM} : \A t \in Sent(a)' : t.device = q => Succeeds(t)'
    BY <1>5, <2>1
       DEF AgreeInv, Succeeds, CanRegOwner, CanStoreKey, FutureIndex, AfterPrevious, CanChange
  <2> QED
    BY <1>8, <2>1, <2>2, <2>3 DEF AgreeInv, Live
<1> QED
  BY <1>3, <1>4, <1>6, <1>7, <1>9, <1>10 DEF IndexInv, BaseInv

LEMMA RequestIndexInv ==
    ASSUME PInv, PInv', IndexInv, NEW r \in Rcds, RequestHashChain(r) PROVE IndexInv'
<1>1. /\ UNCHANGED <<RCDs, block, rcds, conn, pool, faults>>
      /\ \A q \in Rcds \ {r} : dev'[q] = dev[q]
      /\ dev'[r].conn = dev[r].conn /\ dev'[r].slot = block /\ dev[r].pc = "idle"
  <2>1. dev \in [Rcds -> DevRecords]
    BY Parts DEF DevPart
  <2> QED
    BY <2>1 DEF RequestHashChain, DevRecords
<1>2. dev'[r].conn = NoConn /\ block <= block'
  BY <1>1, Numbers DEF IndexInv, BaseInv, OwnerInv, DevInv
<1>3. DevInv(r)'
  BY <1>1, <1>2 DEF DevInv
<1> QED
  BY <1>1, <1>2, <1>3, DeviceStep

LEMMA AttemptFailsIndexInv ==
    ASSUME PInv, PInv', IndexInv, NEW r \in Rcds, AttemptFails(r) PROVE IndexInv'
<1>1. /\ UNCHANGED <<RCDs, block, rcds, conn, pool, faults>>
      /\ \A q \in Rcds \ {r} : dev'[q] = dev[q]
      /\ dev'[r].conn = NoConn /\ (dev'[r].slot = 0 \/ dev'[r].slot = dev[r].slot)
  <2>1. dev \in [Rcds -> DevRecords]
    BY Parts DEF DevPart
  <2> QED
    BY <2>1 DEF AttemptFails, DevRecords
<1>2. DevInv(r)'
  BY <1>1, Numbers DEF DevInv, IndexInv, BaseInv, OwnerInv
<1> QED
  BY <1>1, <1>2, DeviceStep

LEMMA NewBlockIndexInv ==
    ASSUME PInv, PInv', IndexInv, NewBlock, UNCHANGED <<rcds, conn, pool, dev, faults>>
    PROVE  IndexInv'
<1>1. UNCHANGED RCDs /\ block < block' /\ block \in Nat /\ block' \in Nat
  BY Numbers, NumbersNext DEF NewBlock
<1>2. Grows
  BY <1>1 DEF Grows
<1>3. \A q \in Rcds : OwnerInv(q)'
  <2> SUFFICES ASSUME NEW q \in Rcds PROVE OwnerInv(q)'
    OBVIOUS
  <2>1. \A d \in Conns : Reported(d, q) => Reported(d, q)'
    BY DEF Reported
  <2>2. OwnerInv(q) /\ dev[q].slot \in Nat
    BY Numbers DEF IndexInv, BaseInv
  <2>3. DevInv(q)'
    BY <1>1, <2>2 DEF OwnerInv, DevInv
  <2> QED
    BY <1>1, <1>2, <2>1, <2>2, <2>3, OwnerStays
<1>4. \A c \in Conns : HandlerInv(c)'
  BY <1>2, HandlerStays DEF IndexInv, BaseInv
<1>5. \A a \in {Owner, CM} : Sent(a)' = Sent(a)
  BY SamePool
<1>6. TxInv'
  <2>1. \A a \in {Owner, CM} : OneEach(a)'
    BY DEF IndexInv, BaseInv, TxInv, OneEach
  <2>2. \A a \in {Owner, CM} : \A t \in Sent(a)' : TxOf(a, t)'
    BY <1>2, <1>5, TxStays DEF IndexInv, BaseInv, TxInv
  <2> QED
    BY <2>1, <2>2 DEF TxInv
<1>7. \A q \in Rcds : ChainsFrom(q)'
  BY <1>1 DEF IndexInv, BaseInv, ChainsFrom, getKey
<1>8. ASSUME NEW q \in Rcds, CanChange(q) PROVE CanChange(q)'
  <2>1. RCDs[q].currentIndex \in Index /\ TypeOK
    BY Numbers DEF PInv, PTypeOK
  <2>2. RCDs[q].chains[RCDs[q].currentIndex].endTime \in Nat
    BY <2>1, FieldTypes DEF Blocks
  <2> QED
    BY <1>1, <1>8, <2>2 DEF CanChange
<1>9. ASSUME NEW q \in Rcds PROVE SerialInv(q)'
  <2> SUFFICES ASSUME Serial(q)' PROVE SerialInv(q)'
    BY DEF SerialInv
  <2>1. SerialInv(q) /\ Serial(q)
    BY DEF IndexInv, Serial
  <2>2. OneLive(q)'
    BY <2>1 DEF SerialInv, OneLive, Live
  <2>3. \A c \in Conns : conn'[c].device = q => SerialHandler(q, c)'
    BY <1>1, <2>1 DEF SerialInv, SerialHandler
  <2>4. \A a \in {Owner, CM} : \A t \in Sent(a)' : t.device = q => SerialTx(q, t)'
    BY <1>1, <1>5, <1>8, <2>1 DEF SerialInv, SerialTx
  <2>5. ChainsInv(q)'
    <3>1. TypeOK /\ TypeOK' /\ ChainsInv(q) /\ block' >= block
      BY <1>1, <2>1 DEF SerialInv, PInv, PTypeOK
    <3> QED
      BY <1>1, <3>1, SameKeepsChains
  <2> QED
    BY <1>1, <2>1, <2>2, <2>3, <2>4, <2>5 DEF SerialInv
<1>10. ASSUME NEW q \in Rcds PROVE AgreeInv(q)'
  <2> SUFFICES ASSUME Faultless(q)' PROVE AgreeInv(q)'
    BY DEF AgreeInv
  <2>1. AgreeInv(q) /\ Faultless(q)
    BY DEF IndexInv, Faultless
  <2>2. \A c \in Conns : conn'[c].device = q => AgreeHandler(q, c)'
    BY <1>1, <2>1 DEF AgreeInv, AgreeHandler, EntryOf
  <2>3. \A a \in {Owner, CM} : \A t \in Sent(a)' : t.device = q => Succeeds(t)'
    BY <1>1, <1>5, <1>8, <2>1
       DEF AgreeInv, Succeeds, CanRegOwner, CanStoreKey, FutureIndex, AfterPrevious
  <2> QED
    BY <1>1, <2>1, <2>2, <2>3 DEF AgreeInv, Live
<1> QED
  BY <1>3, <1>4, <1>6, <1>7, <1>9, <1>10 DEF IndexInv, BaseInv

\* Somebody else's changeCurrentIndex: C goes up, which nothing but AgreeInv minds.
LEMMA AnotherIndexInv ==
    ASSUME PInv, PInv', IndexInv, NEW r \in Rcds, ChangedByAnother(r) PROVE IndexInv'
<1> DEFINE C == RCDs[r].currentIndex
<1>1. /\ RCDs[r].chains[C + 1].isIndexExist /\ C + 1 \in Index
      /\ RCDs'[r].isTaken = RCDs[r].isTaken /\ RCDs'[r].owner = RCDs[r].owner
      /\ RCDs'[r].currentIndex = C + 1 /\ RCDs'[r].chains = RCDs[r].chains
      /\ \A q \in Rcds \ {r} : RCDs'[q] = RCDs[q]
      /\ block' = block
  BY ChangeCurrentIndexEffect DEF ChangedByAnother, PInv, PTypeOK
<1>2. /\ faults'[r] = faults[r] \union {"moved"}
      /\ \A q \in Rcds \ {r} : faults'[q] = faults[q]
      /\ UNCHANGED <<rcds, conn, pool, dev>>
  <2>1. faults \in [Rcds -> SUBSET {"overlap", "lost", "moved"}]
    BY DEF PInv, PTypeOK
  <2> QED
    BY <2>1 DEF ChangedByAnother
<1>3. /\ C \in Nat /\ rcds[r].currentIndex \in Nat /\ block \in Nat
      /\ \A q \in Rcds : RCDs[q].isTaken <=> RCDs'[q].isTaken
  BY <1>1, Numbers, NumbersNext
<1> HIDE DEF C
<1>4. Grows
  BY <1>1, <1>2, <1>3, Numbers DEF Grows, C
<1>5. \A a \in {Owner, CM} : Sent(a)' = Sent(a)
  BY <1>2, SamePool
<1>6. ASSUME NEW q \in Rcds PROVE OwnerInv(q)'
  <2>1. OwnerInv(q) /\ DevInv(q)'
    BY <1>1, <1>2 DEF IndexInv, BaseInv, OwnerInv, DevInv
  <2>2. \A d \in Conns : Reported(d, q) => Reported(d, q)'
    BY <1>2 DEF Reported
  <2> QED
    BY <1>2, <1>3, <1>4, <2>1, <2>2, OwnerStays
<1>7. \A c \in Conns : HandlerInv(c)'
  BY <1>2, <1>4, HandlerStays DEF IndexInv, BaseInv
<1>8. TxInv'
  <2>1. \A a \in {Owner, CM} : OneEach(a)'
    BY <1>2 DEF IndexInv, BaseInv, TxInv, OneEach
  <2>2. \A a \in {Owner, CM} : \A t \in Sent(a)' : TxOf(a, t)'
    BY <1>2, <1>4, <1>5, TxStays DEF IndexInv, BaseInv, TxInv
  <2> QED
    BY <2>1, <2>2 DEF TxInv
<1>9. ASSUME NEW q \in Rcds PROVE ChainsFrom(q)'
  <2>1. ChainsFrom(q)
    BY DEF IndexInv, BaseInv
  <2>2. CASE q = r
    <3>1. C # 0 => RCDs[r].isTaken
      BY <2>1, <2>2, Numbers DEF ChainsFrom, C
    <3>2. C # 0
      BY <1>1, <2>1, <2>2 DEF ChainsFrom, C
    <3> QED
      BY <1>1, <1>3, <2>1, <2>2, <3>1, <3>2 DEF ChainsFrom, getKey
  <2>3. CASE q # r
    BY <1>1, <2>1, <2>3 DEF ChainsFrom, getKey
  <2> QED
    BY <2>2, <2>3
<1>10. ASSUME NEW q \in Rcds PROVE SerialInv(q)'
  <2> SUFFICES ASSUME Serial(q)' PROVE SerialInv(q)'
    BY DEF SerialInv
  <2>1. SerialInv(q) /\ Serial(q)
    BY <1>4, SerialGrows DEF IndexInv
  <2>2. OneLive(q)'
    BY <1>2, <2>1 DEF SerialInv, OneLive, Live
  <2>3. CASE q # r
    <3>1. \A c \in Conns : conn'[c].device = q => SerialHandler(q, c)'
      BY <1>1, <1>2, <2>1, <2>3 DEF SerialInv, SerialHandler
    <3>2. \A a \in {Owner, CM} : \A t \in Sent(a)' : t.device = q => SerialTx(q, t)'
      BY <1>1, <1>2, <1>5, <2>1, <2>3 DEF SerialInv, SerialTx, CanChange
    <3>3. ChainsInv(q)' /\ rcds'[q].currentIndex <= RCDs'[q].currentIndex
      BY <1>1, <1>2, <2>1, <2>3
         DEF SerialInv, ChainsInv, StoredPrefix, WindowsWellFormed, Disjoint
    <3> QED
      BY <2>2, <3>1, <3>2, <3>3 DEF SerialInv
  <2>4. CASE q = r
    <3>1. rcds[r].currentIndex <= C /\ rcds[r].currentIndex < C + 1
      BY <1>3, <2>1, <2>4 DEF SerialInv, C
    <3>2. \A c \in Conns : conn'[c].device = r => SerialHandler(r, c)'
      BY <1>1, <1>2, <2>1, <2>4, <3>1 DEF SerialInv, SerialHandler
    <3>3. ASSUME NEW a \in {Owner, CM}, NEW t \in Sent(a)', t.device = r PROVE SerialTx(r, t)'
      <4>1. t \in Sent(a) /\ t.index \in Nat
        BY <1>5, <3>3, SentType
      <4>2. t.call = "storeKey" => t.index <= C + 1
        BY <2>1, <2>4, <3>3, <4>1 DEF SerialInv, SerialTx, C
      <4> QED
        BY <1>1, <1>2, <1>3, <3>1, <4>1, <4>2 DEF SerialTx
    <3>4. ChainsInv(r)'
      BY <2>1, <2>4, ChangeKeepsChains DEF SerialInv, PInv, PTypeOK, ChangedByAnother
    <3>5. rcds'[r].currentIndex <= RCDs'[r].currentIndex
      BY <1>1, <1>2, <1>3, <3>1
    <3>6. SerialInv(r)'
      BY <2>2, <2>4, <3>2, <3>3, <3>4, <3>5 DEF SerialInv
    <3> QED
      BY <2>4, <3>6
  <2> QED
    BY <2>3, <2>4
<1>11. ASSUME NEW q \in Rcds PROVE AgreeInv(q)'
  <2> SUFFICES ASSUME Faultless(q)' PROVE AgreeInv(q)'
    BY DEF AgreeInv
  <2>1. q # r /\ RCDs'[q] = RCDs[q] /\ AgreeInv(q) /\ Faultless(q)
    BY <1>1, <1>2 DEF IndexInv, Faultless
  <2>2. \A c \in Conns : conn'[c].device = q => AgreeHandler(q, c)'
    BY <1>2, <2>1 DEF AgreeInv, AgreeHandler, EntryOf
  <2>3. \A a \in {Owner, CM} : \A t \in Sent(a)' : t.device = q => Succeeds(t)'
    BY <1>1, <1>5, <2>1
       DEF AgreeInv, Succeeds, CanRegOwner, CanStoreKey, FutureIndex, AfterPrevious, CanChange
  <2> QED
    BY <1>2, <2>1, <2>2, <2>3 DEF AgreeInv, Live
<1> QED
  BY <1>6, <1>7, <1>8, <1>9, <1>10, <1>11 DEF IndexInv, BaseInv

LEMMA DialIndexInv ==
    ASSUME PInv, PInv', IndexInv, NEW r \in Rcds, Dial(r) PROVE IndexInv'
<1>1. PICK c \in Conns :
          /\ dev[r].pc = "dial"
          /\ dev' = [dev EXCEPT ![r].pc = "wait", ![r].conn = c]
          /\ conn' = [conn EXCEPT ![c].pc = "load", ![c].device = r, ![c].slot = dev[r].slot]
          /\ conn[c].pc = "unused"
          /\ faults' = [faults EXCEPT ![r] =
                 IF \E b \in Conns : conn[b].device = r /\ Live(b)
                 THEN @ \union {"overlap"} ELSE @]
          /\ UNCHANGED <<RCDs, block, rcds, pool>>
  BY DEF Dial
<1>2. /\ \A d \in Conns \ {c} : conn'[d] = conn[d]
      /\ conn'[c].pc = "load" /\ conn'[c].device = r /\ conn'[c].slot = dev[r].slot
  BY <1>1, ConnFields DEF ConnRecords
<1>3. /\ \A q \in Rcds \ {r} : dev'[q] = dev[q] /\ faults'[q] = faults[q]
      /\ dev'[r].conn = c /\ dev'[r].slot = dev[r].slot /\ dev'[r].pc = "wait"
      /\ faults[r] \subseteq faults'[r]
      /\ "overlap" \notin faults'[r] => \A b \in Conns : ~(conn[b].device = r /\ Live(b))
  <2>1. dev \in [Rcds -> DevRecords]
    BY Parts DEF DevPart
  <2>2. faults \in [Rcds -> SUBSET {"overlap", "lost", "moved"}]
    BY DEF PInv, PTypeOK
  <2> QED
    BY <1>1, <2>1, <2>2 DEF DevRecords
<1>4. Grows
  BY <1>1, <1>3, Numbers DEF Grows
<1>5. \A q \in Rcds : ChainsFrom(q) /\ OwnerInv(q) /\ SerialInv(q) /\ AgreeInv(q)
  BY DEF IndexInv, BaseInv
<1>6. \A q \in Rcds : OwnerInv(q)'
  <2> SUFFICES ASSUME NEW q \in Rcds PROVE OwnerInv(q)'
    OBVIOUS
  <2>1. \A d \in Conns : Reported(d, q) => Reported(d, q)'
    BY <1>1, <1>2 DEF Reported
  <2>2. DevInv(q)'
    BY <1>1, <1>3, <1>5 DEF OwnerInv, DevInv
  <2> QED
    BY <1>1, <1>4, <1>5, <2>1, <2>2, OwnerStays
<1>7. \A d \in Conns : HandlerInv(d)'
  <2>1. ASSUME NEW d \in Conns, d # c PROVE HandlerInv(d)'
    BY <1>2, <1>4, <2>1, HandlerStays DEF IndexInv, BaseInv
  <2>2. HandlerInv(c)'
    BY <1>1, <1>2, <1>5
       DEF HandlerInv, OwnerInv, DevInv, Storing, Changing, Updating, Reported
  <2> QED
    BY <2>1, <2>2
<1>8. /\ \A a \in {Owner, CM} : Sent(a)' = Sent(a)
      /\ \A a \in {Owner, CM} : \A t \in Sent(a) :
            t.conn # c /\ conn'[t.conn] = conn[t.conn] /\ t.device = conn[t.conn].device
  <2>1. ASSUME NEW a \in {Owner, CM}, NEW t \in Sent(a)
        PROVE  t.conn # c /\ conn'[t.conn] = conn[t.conn] /\ t.device = conn[t.conn].device
    <3>1. TxOf(a, t) /\ t.conn \in Conns
      BY SentType DEF IndexInv, BaseInv, TxInv
    <3> QED
      BY <1>1, <1>2, <3>1 DEF TxOf
  <2> QED
    BY <1>1, <2>1, SamePool
<1>9. TxInv'
  <2>1. ASSUME NEW a \in {Owner, CM} PROVE OneEach(a)'
    <3>1. \A i \in 1..Len(pool[a]) : pool[a][i].conn # c /\ pool[a][i].conn \in Conns
      BY <1>8, SentType DEF Sent
    <3>2. \A d \in Conns : conn[d].pc = "done" => conn'[d].pc = "done"
      BY <1>1, <1>2
    <3> QED
      BY <1>1, <3>1, <3>2 DEF IndexInv, BaseInv, TxInv, OneEach
  <2>2. \A a \in {Owner, CM} : \A t \in Sent(a)' : TxOf(a, t)'
    BY <1>4, <1>8, TxStays DEF IndexInv, BaseInv, TxInv
  <2> QED
    BY <2>1, <2>2 DEF TxInv
<1>10. \A q \in Rcds : ChainsFrom(q)'
  BY <1>1, <1>5 DEF ChainsFrom, getKey
<1>11. ASSUME NEW q \in Rcds, NEW d \in Conns, conn'[d].device = q, d # c
       PROVE  conn'[d] = conn[d] /\ conn[d].device = q
  BY <1>2, <1>11
<1>12. ~Live(c)
  BY <1>1 DEF Live
<1>13. ASSUME NEW q \in Rcds PROVE SerialInv(q)'
  <2> SUFFICES ASSUME Serial(q)' PROVE SerialInv(q)'
    BY DEF SerialInv
  <2>1. SerialInv(q) /\ Serial(q)
    BY <1>4, <1>5, SerialGrows
  <2>2. OneLive(q)'
    <3>1. CASE q = r
      <4>1. \A b \in Conns : ~(conn[b].device = r /\ Live(b))
        BY <1>3, <3>1 DEF Serial
      <4>2. \A b \in Conns : conn'[b].device = r /\ Live(b)' => b = c
        BY <1>11, <4>1 DEF Live
      <4> QED
        BY <1>3, <3>1, <4>2 DEF OneLive
    <3>2. CASE q # r
      <4>1. \A b \in Conns : conn'[b].device = q => conn'[b] = conn[b] /\ conn[b].device = q
        BY <1>2, <1>11, <3>2
      <4> QED
        BY <1>3, <2>1, <3>2, <4>1 DEF SerialInv, OneLive, Live
    <3> QED
      BY <3>1, <3>2
  <2>3. ASSUME NEW d \in Conns, conn'[d].device = q PROVE SerialHandler(q, d)'
    <3>1. CASE d = c
      BY <1>2, <3>1 DEF SerialHandler, Registering, Storing, Changing, Updating
    <3>2. CASE d # c
      <4>1. conn'[d] = conn[d]
        BY <1>11, <2>3, <3>2
      <4>2. SerialHandler(q, d)
        BY <2>1, <2>3, <4>1 DEF SerialInv
      <4> QED
        BY <1>1, <4>1, <4>2 DEF SerialHandler
    <3> QED
      BY <3>1, <3>2
  <2>4. \A a \in {Owner, CM} : \A t \in Sent(a)' : t.device = q => SerialTx(q, t)'
    BY <1>1, <1>8, <2>1 DEF SerialInv, SerialTx, CanChange
  <2>5. ChainsInv(q)' /\ rcds'[q].currentIndex <= RCDs'[q].currentIndex
    BY <1>1, <2>1 DEF SerialInv, ChainsInv, StoredPrefix, WindowsWellFormed, Disjoint
  <2> QED
    BY <2>2, <2>3, <2>4, <2>5 DEF SerialInv
<1>14. ASSUME NEW q \in Rcds PROVE AgreeInv(q)'
  <2> SUFFICES ASSUME Faultless(q)' PROVE AgreeInv(q)'
    BY DEF AgreeInv
  <2>1. AgreeInv(q) /\ Faultless(q) /\ Serial(q)
    BY <1>4, <1>5, SerialGrows
  <2>2. \A a \in {Owner, CM} : \A t \in Sent(a)' : t.device = q => Succeeds(t)'
    BY <1>1, <1>8, <2>1
       DEF AgreeInv, Succeeds, CanRegOwner, CanStoreKey, FutureIndex, AfterPrevious, CanChange
  <2>3. CASE q = r
    <3>1. \A b \in Conns : ~(conn[b].device = r /\ Live(b))
      BY <1>3, <2>3 DEF Faultless
    <3>2. rcds[q].currentIndex = RCDs[q].currentIndex
      BY <2>1, <2>3, <3>1 DEF AgreeInv
    <3>3. AgreeHandler(q, c)'
      BY <1>1, <1>2, <1>3, <2>3, <3>2
         DEF AgreeHandler, Registering, Storing, Changing, Updating
    <3>4. ASSUME NEW d \in Conns, conn'[d].device = q, d # c PROVE AgreeHandler(q, d)'
      <4>1. conn'[d].pc \in {"unused", "send", "done"} /\ dev'[q].conn # d
        BY <1>3, <1>11, <2>3, <3>1, <3>4 DEF Live
      <4> QED
        BY <4>1 DEF AgreeHandler, Registering, Storing, Changing, Updating
    <3>5. c # NoConn
      BY DEF Conns, NoConn
    <3> QED
      BY <1>1, <1>2, <1>3, <2>2, <2>3, <3>2, <3>3, <3>4, <3>5 DEF AgreeInv
  <2>4. CASE q # r
    <3>1. \A d \in Conns : conn'[d].device = q => conn'[d] = conn[d] /\ conn[d].device = q
      BY <1>2, <1>11, <2>4
    <3>2. \A d \in Conns : conn'[d].device = q => AgreeHandler(q, d)'
      <4> SUFFICES ASSUME NEW d \in Conns, conn'[d].device = q PROVE AgreeHandler(q, d)'
        OBVIOUS
      <4>1. AgreeHandler(q, d) /\ conn'[d] = conn[d]
        BY <2>1, <3>1 DEF AgreeInv
      <4>2. UNCHANGED <<RCDs, rcds>> /\ dev'[q] = dev[q]
        BY <1>1, <1>3, <2>4
      <4> QED
        BY <4>1, <4>2 DEF AgreeHandler, EntryOf
    <3>3. dev'[q].conn # NoConn =>
              conn'[dev'[q].conn].device = q /\ conn'[dev'[q].conn].pc # "unused"
      <4>1. dev'[q].conn = dev[q].conn /\ dev[q].conn \in Conns \union {NoConn}
        BY <1>3, <2>4, Numbers
      <4>2. dev[q].conn # NoConn => conn[dev[q].conn].device = q /\ dev[q].conn # c
                                    /\ conn[dev[q].conn].pc # "unused"
        BY <1>1, <2>1 DEF AgreeInv
      <4> QED
        BY <1>2, <4>1, <4>2
    <3>4. \A d \in Conns : conn[d].device = q /\ Live(d) => conn'[d].device = q /\ Live(d)'
      BY <1>2, <1>12 DEF Live
    <3> QED
      BY <1>1, <2>1, <2>2, <3>2, <3>3, <3>4 DEF AgreeInv
  <2> QED
    BY <2>3, <2>4
<1> QED
  BY <1>6, <1>7, <1>9, <1>10, <1>13, <1>14 DEF IndexInv, BaseInv

-----------------------------------------------------------------------------
(* A transaction is mined.                                                   *)

\* The handler that waits for t, if there is one, gets the receipt.
Mined(t, status) ==
    /\ UNCHANGED <<block, rcds, dev, faults>>
    /\ \A d \in Conns : /\ conn'[d].pc = conn[d].pc /\ conn'[d].device = conn[d].device
                        /\ conn'[d].slot = conn[d].slot /\ conn'[d].index = conn[d].index
                        /\ d # t.conn \/ conn[d].pc = "done" => conn'[d] = conn[d]
    /\ conn[t.conn].pc # "done" => conn'[t.conn].receipt = status
    /\ status = "successful" => Execute(t)
    /\ status = "failed" => ~Succeeds(t) /\ UNCHANGED RCDs

LEMMA MineEffect ==
    ASSUME PInv, BaseInv, NEW a \in {Owner, CM}, Mine(a), NEW t, t = Head(pool[a])
    PROVE  \E status \in {"successful", "failed"} : Mined(t, status)
<1>1. t \in Sent(a) /\ t.conn \in Conns
  BY MineSent, SentType
<1>2. PICK status \in {"successful", "failed"} :
          /\ conn' = IF conn[t.conn].pc = "done" THEN conn
                     ELSE [conn EXCEPT ![t.conn].receipt = status]
          /\ status = "successful" => Execute(t)
          /\ status = "failed" => ~Succeeds(t) /\ UNCHANGED <<RCDs, block>>
  BY DEF Mine
<1>3. UNCHANGED <<block, rcds, dev, faults>>
  <2>1. status = "successful" => block' = block
    BY <1>1, <1>2, ExecuteEffect
  <2> QED
    BY <1>2, <2>1 DEF Mine
<1>4. conn \in [Conns -> ConnRecords]
  BY <1>1, ConnFields
<1>5. \A d \in Conns : /\ conn'[d].pc = conn[d].pc /\ conn'[d].device = conn[d].device
                       /\ conn'[d].slot = conn[d].slot /\ conn'[d].index = conn[d].index
                       /\ d # t.conn \/ conn[d].pc = "done" => conn'[d] = conn[d]
  BY <1>1, <1>2, <1>4 DEF ConnRecords
<1>6. conn[t.conn].pc # "done" => conn'[t.conn].receipt = status
  BY <1>1, <1>2, <1>4 DEF ConnRecords
<1>7. Mined(t, status)
  BY <1>2, <1>3, <1>5, <1>6 DEF Mined
<1> QED
  BY <1>7

\* No other transaction has the same handler, unless nobody waits.
LEMMA MineOthers ==
    ASSUME PInv, TxInv, NEW a \in {Owner, CM}, Mine(a), NEW t, t = Head(pool[a]),
           NEW b \in {Owner, CM}, NEW u \in Sent(b)', u.conn = t.conn
    PROVE  conn[t.conn].pc = "done"
<1>1. CASE b = a
  <2>1. PICK i \in 1..Len(pool'[a]) : u = pool'[a][i]
    BY <1>1 DEF Sent
  <2>2. /\ u = pool[a][i + 1] /\ t = pool[a][1]
        /\ 1 \in 1..Len(pool[a]) /\ i + 1 \in 1..Len(pool[a]) /\ 1 < i + 1
    BY <2>1, MineSent
  <2> QED
    BY <2>2 DEF TxInv, OneEach
<1>2. CASE b # a
  <2>1. u \in Sent(b) /\ t \in Sent(a)
    BY <1>2, MineSent
  <2>2. TxOf(b, u) /\ TxOf(a, t)
    BY <2>1 DEF TxInv
  <2> QED
    BY <1>2, <2>2, ProvisioningAssumption DEF TxOf, Awaited
<1> QED
  BY <1>1, <1>2

\* What it does to the contract, whether it reverts or not.
LEMMA MinedContract ==
    ASSUME PInv, BaseInv, NEW a \in {Owner, CM}, NEW t \in Sent(a),
           NEW status \in {"successful", "failed"}, Mined(t, status)
    PROVE  /\ t.device \in Rcds /\ t.conn \in Conns /\ t.device = conn[t.conn].device
           /\ \A s \in Rcds \ {t.device} : RCDs'[s] = RCDs[s]
           /\ \A s \in Rcds : RCDs[s].currentIndex <= RCDs'[s].currentIndex
           /\ Grows
<1>1. t.device \in Rcds /\ t.conn \in Conns /\ t.device = conn[t.conn].device
  BY SentType DEF BaseInv, TxInv, TxOf
<1>2. /\ \A s \in Rcds \ {t.device} : RCDs'[s] = RCDs[s]
      /\ RCDs[t.device].isTaken => RCDs'[t.device].isTaken
      /\ RCDs[t.device].currentIndex <= RCDs'[t.device].currentIndex
      /\ RCDs[t.device].currentIndex \in Nat /\ RCDs'[t.device].currentIndex \in Nat
  <2>1. CASE status = "successful"
    BY <2>1, ExecuteEffect DEF Mined
  <2>2. CASE status = "failed"
    BY <1>1, <2>2, Numbers DEF Mined
  <2> QED
    BY <2>1, <2>2
<1>3. \A s \in Rcds : RCDs[s].currentIndex <= RCDs'[s].currentIndex
  BY <1>2, Numbers
<1>4. Grows
  BY <1>2, Numbers DEF Grows, Mined
<1> QED
  BY <1>1, <1>2, <1>3, <1>4

LEMMA MinedChainsFrom ==
    ASSUME PInv, BaseInv, NEW a \in {Owner, CM}, NEW t \in Sent(a),
           NEW status \in {"successful", "failed"}, Mined(t, status), NEW q \in Rcds
    PROVE  ChainsFrom(q)'
<1>1. ChainsFrom(q) /\ RCDs[q].currentIndex \in Nat /\ RCDs[q].currentIndex \in Index
  BY Numbers DEF BaseInv
<1>2. CASE RCDs'[q] = RCDs[q]
  BY <1>1, <1>2 DEF ChainsFrom, getKey
<1>3. CASE q = t.device /\ status = "successful"
  <2> DEFINE C == RCDs[q].currentIndex
  <2>1. Execute(t)
    BY <1>3 DEF Mined
  <2>2. TxOf(a, t) /\ t.call \in Calls /\ t.index \in Index
    BY SentType DEF BaseInv, TxInv
  <2>3. /\ RCDs'[q].isTaken /\ RCDs'[q].owner = Owner
        /\ \A i \in Index : RCDs[q].chains[i].isIndexExist
                                => RCDs'[q].chains[i].isIndexExist
        /\ t.call = "regOwner" => /\ C = 0 /\ RCDs'[q].currentIndex = 0
                                  /\ RCDs'[q].chains = RCDs[q].chains
        /\ t.call = "storeKey" =>
              /\ RCDs'[q].currentIndex = IF C = 0 THEN 1 ELSE C
              /\ RCDs'[q].chains[t.index] =
                    [key |-> t.conn, startTime |-> t.start,
                     endTime |-> EndTime(t.start), isIndexExist |-> TRUE]
        /\ t.call = "changeCurrentIndex" =>
              /\ RCDs'[q].currentIndex = C + 1
              /\ RCDs'[q].chains = RCDs[q].chains
              /\ C + 1 \in Index /\ RCDs[q].chains[C + 1].isIndexExist
    BY <1>3, <2>1, ExecuteEffect
  <2>4. CASE t.call = "regOwner"
    BY <1>1, <2>3, <2>4 DEF ChainsFrom
  <2>5. CASE t.call = "storeKey"
    <3>1. /\ RCDs'[q].currentIndex = IF C = 0 THEN 1 ELSE C
          /\ RCDs'[q].chains[t.index].isIndexExist
          /\ RCDs[q].chains[C].isIndexExist => RCDs'[q].chains[C].isIndexExist
      BY <1>1, <2>3, <2>5
    <3>2. t.index # 1 => C # 0
      BY <1>3, <2>2, <2>5 DEF TxOf
    <3> QED
      BY <1>1, <2>3, <3>1, <3>2 DEF ChainsFrom, getKey
  <2>6. CASE t.call = "changeCurrentIndex"
    BY <1>1, <2>3, <2>6 DEF ChainsFrom, getKey
  <2> QED
    BY <2>2, <2>4, <2>5, <2>6 DEF Calls
<1> QED
  BY <1>2, <1>3, MinedContract DEF Mined

LEMMA MinedOwner ==
    ASSUME PInv, PInv', BaseInv, NEW a \in {Owner, CM}, NEW t \in Sent(a),
           NEW status \in {"successful", "failed"}, Mined(t, status), NEW q \in Rcds
    PROVE  OwnerInv(q)'
<1>1. /\ OwnerInv(q) /\ Grows /\ DevInv(q)' /\ rcds'[q] = rcds[q] /\ faults'[q] = faults[q]
      /\ TxOf(a, t) /\ t.conn \in Conns
  BY MinedContract DEF BaseInv, TxInv, Mined, OwnerInv, DevInv
<1>2. \A d \in Conns : Reported(d, q) => Reported(d, q)'
  <2> SUFFICES ASSUME NEW d \in Conns, Reported(d, q) PROVE Reported(d, q)'
    OBVIOUS
  <2>1. d # t.conn
    BY <1>1 DEF TxOf, Reported
  <2> QED
    BY <2>1 DEF Mined, Reported
<1>3. CASE RCDs'[q].isTaken => RCDs[q].isTaken
  BY <1>1, <1>2, <1>3, OwnerStays
<1>4. CASE RCDs'[q].isTaken /\ ~RCDs[q].isTaken
  <2>1. q = t.device /\ status = "successful"
    BY <1>4, MinedContract DEF Mined
  <2>2. t.call = "regOwner"
    BY <1>1, <1>4, <2>1 DEF TxOf
  <2>3. "lost" \notin faults[q] => Reported(t.conn, q)'
    BY <1>1, <2>1, <2>2 DEF TxOf, Awaited, Reported, Mined
  <2> QED
    BY <1>1, <1>4, <2>3 DEF OwnerInv, Grows
<1> QED
  BY <1>3, <1>4

LEMMA MinedHandler ==
    ASSUME PInv, PInv', BaseInv, NEW a \in {Owner, CM}, NEW t \in Sent(a),
           NEW status \in {"successful", "failed"}, Mined(t, status), NEW d \in Conns
    PROVE  HandlerInv(d)'
<1>1. HandlerInv(d) /\ Grows
  BY MinedContract DEF BaseInv
<1>2. CASE conn'[d] = conn[d]
  BY <1>1, <1>2, HandlerStays
<1>3. CASE d = t.conn /\ conn[d].pc # "done"
  <2> DEFINE r == t.device
             C == RCDs[r].currentIndex
  <2>1. /\ TxOf(a, t) /\ ChainsFrom(r) /\ r \in Rcds /\ r = conn[d].device
        /\ Awaited(d, t.call) /\ t.call \in Calls
        /\ C \in Nat /\ RCDs'[r].currentIndex \in Nat /\ t.index \in Nat
    BY <1>3, MinedContract, SentType, Numbers, NumbersNext DEF BaseInv, TxInv, TxOf
  <2>2. conn'[d].receipt = status /\ conn'[d].device = r /\ conn'[d].pc = conn[d].pc
    BY <1>3, <2>1 DEF Mined
  <2>3. ASSUME Reported(d, r)' PROVE RCDs'[r].isTaken
    <3>1. status = "successful"
      BY <2>2, <2>3 DEF Reported
    <3> QED
      BY <3>1, ExecuteEffect DEF Mined
  <2>4. ASSUME conn[d].pc = "storing" PROVE RCDs'[r].currentIndex # 0
    <3>1. t.call = "storeKey" /\ t.index # 0
      BY <2>1, <2>4 DEF Awaited, TxOf
    <3>2. CASE status = "successful"
      <4>1. Execute(t)
        BY <3>2 DEF Mined
      <4>2. RCDs'[r].currentIndex = IF C = 0 THEN 1 ELSE C
        BY <3>1, <4>1, ExecuteEffect
      <4> QED
        BY <4>2
    <3>3. CASE status = "failed"
      <4>1. ~CanStoreKey(Owner, r, t.index, t.start)
        BY <3>1, <3>3 DEF Mined, Succeeds
      <4>2. RCDs[r].isTaken /\ RCDs[r].owner = Owner
        BY <2>1, <3>1 DEF TxOf, ChainsFrom
      <4>3. C # 0
        BY <2>1, <3>1, <4>1, <4>2 DEF CanStoreKey, FutureIndex, AfterPrevious
      <4> QED
        BY <2>1, <3>3, <4>3 DEF Mined
    <3> QED
      BY <3>2, <3>3
  <2>5. HandlerInv(d) /\ conn'[d].slot = conn[d].slot /\ conn'[d].index = conn[d].index
        /\ block' = block /\ rcds'[r].registered = rcds[r].registered
        /\ (C # 0 => RCDs'[r].currentIndex # 0)
    BY <1>1, <2>1 DEF Mined, Grows
  <2> HIDE DEF r
  <2> QED
    BY <2>1, <2>2, <2>3, <2>4, <2>5 DEF HandlerInv
<1> QED
  BY <1>2, <1>3 DEF Mined

LEMMA MinedTxInv ==
    ASSUME PInv, PInv', BaseInv, NEW a \in {Owner, CM}, Mine(a), NEW t, t = Head(pool[a]),
           NEW status \in {"successful", "failed"}, Mined(t, status)
    PROVE  TxInv'
<1>1. t \in Sent(a) /\ \A d \in Conns : conn'[d].pc = conn[d].pc
  BY MineSent DEF Mined
<1>2. Grows /\ TxInv
  BY <1>1, MinedContract DEF BaseInv
<1>3. ASSUME NEW b \in {Owner, CM}, NEW u \in Sent(b)' PROVE TxOf(b, u)'
  <2>1. u \in Sent(b) /\ u.conn \in Conns
    BY MineSent, SentType
  <2>2. u.conn # t.conn \/ conn[u.conn].pc = "done"
    BY <1>2, MineOthers
  <2>3. conn'[u.conn] = conn[u.conn]
    BY <2>1, <2>2 DEF Mined
  <2> QED
    BY <1>2, <2>1, <2>3, TxStays DEF TxInv
<1>4. ASSUME NEW b \in {Owner, CM} PROVE OneEach(b)'
  <2>1. \A i \in 1..Len(pool[b]) : pool[b][i].conn \in Conns
    BY SentType DEF Sent
  <2>2. CASE b = a
    <3> SUFFICES ASSUME NEW i \in 1..Len(pool'[a]), NEW j \in 1..Len(pool'[a]), i < j,
                        pool'[a][i].conn = pool'[a][j].conn
                 PROVE  conn'[pool'[a][i].conn].pc = "done"
      BY <2>2 DEF OneEach
    <3>1. /\ pool'[a][i] = pool[a][i + 1] /\ pool'[a][j] = pool[a][j + 1]
          /\ i + 1 \in 1..Len(pool[a]) /\ j + 1 \in 1..Len(pool[a]) /\ i + 1 < j + 1
      <4>1. /\ Len(pool[a]) \in Nat /\ Len(pool'[a]) = Len(pool[a]) - 1
            /\ \A k \in 1..Len(pool'[a]) : pool'[a][k] = pool[a][k + 1]
        BY MineSent
      <4> QED
        BY <4>1
    <3>2. conn[pool[a][i + 1].conn].pc = "done"
      BY <1>2, <3>1 DEF TxInv, OneEach
    <3> QED
      BY <1>1, <2>1, <2>2, <3>1, <3>2
  <2>3. CASE b # a
    <3>1. pool'[b] = pool[b]
      BY <2>3, MineSent
    <3>2. ASSUME NEW i \in 1..Len(pool[b]), NEW j \in 1..Len(pool[b]), i < j,
                 pool[b][i].conn = pool[b][j].conn
          PROVE  conn'[pool[b][i].conn].pc = "done"
      BY <1>1, <1>2, <2>1, <3>2 DEF TxInv, OneEach
    <3> QED
      BY <3>1, <3>2 DEF OneEach
  <2> QED
    BY <2>2, <2>3
<1> QED
  BY <1>3, <1>4 DEF TxInv

\* What the current index comes to.
LEMMA MinedIndex ==
    ASSUME PInv, BaseInv, NEW a \in {Owner, CM}, NEW t \in Sent(a),
           NEW status \in {"successful", "failed"}, Mined(t, status),
           NEW r \in Rcds, r = t.device, Serial(r), SerialInv(r)
    PROVE  /\ ChainsInv(r)'
           /\ t.call = "changeCurrentIndex" /\ conn[t.conn].pc # "done" =>
                  rcds[r].currentIndex < RCDs'[r].currentIndex
<1> DEFINE C == RCDs[r].currentIndex
           D == rcds[r].currentIndex
<1>1. /\ TypeOK /\ block' = block /\ block \in Nat /\ ChainsInv(r) /\ D <= C /\ SerialTx(r, t)
      /\ C \in Nat /\ D \in Nat
  BY Numbers DEF PInv, PTypeOK, SerialInv, Mined
<1>2. CASE status = "failed"
  <2>1. UNCHANGED RCDs /\ TypeOK' /\ block' >= block
    BY <1>1, <1>2 DEF Mined, TypeOK
  <2>2. ChainsInv(r)'
    BY <1>1, <2>1, SameKeepsChains
  <2>3. t.call = "changeCurrentIndex" => ~CanChange(r)
    BY <1>2 DEF Mined, Succeeds
  <2> QED
    BY <1>1, <2>1, <2>2, <2>3 DEF SerialTx
<1>3. CASE status = "successful"
  <2>1. Execute(t)
    BY <1>3 DEF Mined
  <2>2. t.conn \in Conns /\ t \in Txs /\ t.start \in GoodSlots
    BY SentType
  <2>3. TypeOK' /\ block' >= block
    BY <1>1, <2>1, <2>2, ExecuteTypeOK
  <2>4. CASE t.call = "regOwner"
    <3>1. /\ RCDs'[r].chains = RCDs[r].chains
          /\ C = 0 /\ RCDs'[r].currentIndex = 0
      BY <2>1, <2>4, ExecuteEffect
    <3> QED
      BY <1>1, <2>3, <2>4, <3>1, SameKeepsChains
  <2>5. CASE t.call = "storeKey"
    <3>1. storeKey(Owner, r, t.index, t.conn, t.start, EndTime(t.start))
      BY <2>1, <2>5 DEF Execute
    <3>2. /\ t.index \in Index /\ t.conn \in Keys /\ Owner \in Accounts
          /\ t.start \in Blocks /\ EndTime(t.start) \in Blocks /\ t.start <= EndTime(t.start)
      BY <2>2, ProvisioningAssumption, ContractAssumption DEF GoodSlots, Blocks, Txs
    <3>3. t.index <= C + 1 /\ t.start <= block
      BY <1>1, <2>5 DEF SerialTx, BaseInv, TxInv, TxOf
    <3>4. ChainsInv(r)'
      BY <1>1, <3>1, <3>2, <3>3, StoreKeepsChains
    <3> QED
      BY <2>5, <3>4
  <2>6. CASE t.call = "changeCurrentIndex"
    <3>1. changeCurrentIndex(r) /\ RCDs'[r].currentIndex = C + 1
      BY <2>1, <2>6, ExecuteEffect DEF Execute
    <3>2. ChainsInv(r)'
      BY <1>1, <3>1, ChangeKeepsChains
    <3> QED
      BY <1>1, <3>1, <3>2
  <2> QED
    BY <2>2, <2>4, <2>5, <2>6 DEF Txs, Calls
<1> QED
  BY <1>2, <1>3

\* A changeCurrentIndex on its way still goes through, unless the owner's index is
\* behind.
LEMMA MinedCanChange ==
    ASSUME PInv, PInv', BaseInv, NEW a \in {Owner, CM}, NEW t \in Sent(a),
           NEW status \in {"successful", "failed"}, Mined(t, status),
           NEW r \in Rcds, Serial(r), SerialInv(r), RCDs[r].currentIndex # 0,
           CanChange(r)
    PROVE  CanChange(r)' \/ rcds[r].currentIndex < RCDs'[r].currentIndex
<1> DEFINE C == RCDs[r].currentIndex
<1>1. C \in Nat /\ C \in Index /\ rcds[r].currentIndex \in Nat
      /\ rcds[r].currentIndex <= C /\ block' = block
  BY Numbers DEF SerialInv, Mined
<1>2. CASE RCDs'[r] = RCDs[r]
  BY <1>1, <1>2 DEF CanChange
<1>3. CASE r = t.device /\ status = "successful"
  <2>1. Execute(t)
    BY <1>3 DEF Mined
  <2>2. /\ t.call = "regOwner" => C = 0
        /\ \A i \in Index : RCDs[r].chains[i].isIndexExist
                                => RCDs'[r].chains[i].isIndexExist
        /\ t.call = "storeKey" =>
               /\ RCDs'[r].currentIndex = IF C = 0 THEN 1 ELSE C
               /\ C < t.index
               /\ \A i \in Index \ {t.index} : RCDs'[r].chains[i] = RCDs[r].chains[i]
        /\ t.call = "changeCurrentIndex" => RCDs'[r].currentIndex = C + 1
    <3>1. /\ t.call = "regOwner" => C = 0
          /\ t.call = "changeCurrentIndex" => RCDs'[r].currentIndex = C + 1
      BY <1>3, <2>1, ExecuteEffect
    <3>2. \A i \in Index : RCDs[r].chains[i].isIndexExist
                                => RCDs'[r].chains[i].isIndexExist
      BY <1>3, <2>1, ExecuteEffect
    <3>3. t.call = "storeKey" =>
               /\ RCDs'[r].currentIndex = IF C = 0 THEN 1 ELSE C
               /\ C < t.index
      BY <1>3, <2>1, ExecuteEffect
    <3>4. t.call = "storeKey" =>
               \A i \in Index \ {t.index} : RCDs'[r].chains[i] = RCDs[r].chains[i]
      <4> SUFFICES ASSUME t.call = "storeKey", NEW i \in Index \ {t.index}
                   PROVE  RCDs'[r].chains[i] = RCDs[r].chains[i]
        OBVIOUS
      <4>1. \A j \in Index \ {t.index} :
               RCDs'[t.device].chains[j] = RCDs[t.device].chains[j]
        BY <2>1, ExecuteEffect
      <4> QED
        BY <1>3, <4>1
    <3> QED
      BY <3>1, <3>2, <3>3, <3>4
  <2>3. CASE t.call = "storeKey"
    <3>1. RCDs'[r].currentIndex = C /\ RCDs'[r].chains[C] = RCDs[r].chains[C]
      BY <1>1, <2>2, <2>3, SentType
    <3>2. C + 1 \in Index
      BY <1>1, ContractAssumption DEF CanChange, Index
    <3>3. RCDs'[r].chains[C + 1].isIndexExist
      BY <2>2, <3>2 DEF CanChange
    <3> QED
      BY <1>1, <3>1, <3>3 DEF CanChange
  <2>4. CASE t.call = "changeCurrentIndex"
    BY <1>1, <2>2, <2>4
  <2> QED
    BY <2>2, <2>3, <2>4, SentType DEF Calls
<1> QED
  BY <1>2, <1>3, MinedContract DEF Mined

LEMMA MinedSerial ==
    ASSUME PInv, PInv', IndexInv, NEW a \in {Owner, CM}, Mine(a), NEW t, t = Head(pool[a]),
           NEW status \in {"successful", "failed"}, Mined(t, status),
           NEW q \in Rcds, Serial(q)
    PROVE  SerialInv(q)'
<1>0. t \in Sent(a)
  BY MineSent
<1>1. /\ SerialInv(q) /\ BaseInv /\ UNCHANGED <<rcds, dev, faults, block>>
      /\ \A d \in Conns : conn'[d].pc = conn[d].pc /\ conn'[d].device = conn[d].device
                          /\ conn'[d].index = conn[d].index
      /\ RCDs[q].currentIndex <= RCDs'[q].currentIndex
      /\ RCDs[q].currentIndex \in Nat /\ RCDs'[q].currentIndex \in Nat
      /\ rcds[q].currentIndex \in Nat
  BY <1>0, Numbers, NumbersNext, MinedContract DEF IndexInv, Mined
<1>2. OneLive(q)'
  BY <1>1 DEF SerialInv, OneLive, Live
<1>3. rcds'[q].currentIndex <= RCDs'[q].currentIndex
  BY <1>1 DEF SerialInv
<1>4. ASSUME NEW d \in Conns, conn'[d].device = q PROVE SerialHandler(q, d)'
  <2>1. SerialHandler(q, d)
    BY <1>1, <1>4 DEF SerialInv
  <2>2. ASSUME conn[d].pc = "changing", conn'[d].receipt # "none"
        PROVE  rcds[q].currentIndex < RCDs'[q].currentIndex
    <3>1. CASE conn'[d] = conn[d]
      BY <1>1, <2>1, <2>2, <3>1 DEF SerialHandler
    <3>2. CASE d = t.conn
      <4>1. TxOf(a, t)
        BY <1>0, <1>1 DEF BaseInv, TxInv
      <4>2. t.call = "changeCurrentIndex" /\ t.device = q
        BY <1>1, <1>4, <2>2, <3>2, <4>1 DEF TxOf, Awaited
      <4> QED
        BY <1>0, <1>1, <2>2, <3>2, <4>2, MinedIndex
    <3> QED
      BY <3>1, <3>2 DEF Mined
  <2>3. conn[d].pc \in Updating => rcds[q].currentIndex < RCDs'[q].currentIndex
    BY <1>1, <2>1 DEF SerialHandler
  <2> QED
    BY <1>1, <2>1, <2>2, <2>3 DEF SerialHandler
<1>5. ASSUME NEW b \in {Owner, CM}, NEW u \in Sent(b)', u.device = q PROVE SerialTx(q, u)'
  <2>1. u \in Sent(b) /\ u.conn \in Conns /\ u.index \in Nat
    BY MineSent, SentType
  <2>2. SerialTx(q, u) /\ TxOf(b, u) /\ HandlerInv(u.conn)
    BY <1>1, <1>5, <2>1 DEF SerialInv, BaseInv, TxInv
  <2>3. u.call = "storeKey" => u.index <= RCDs'[q].currentIndex + 1
    BY <1>1, <2>1, <2>2 DEF SerialTx
  <2>4. ASSUME u.call = "changeCurrentIndex", conn[u.conn].pc # "done"
        PROVE  CanChange(q)' \/ rcds[q].currentIndex < RCDs'[q].currentIndex
    <3>1. RCDs[q].currentIndex # 0
      BY <1>5, <2>2, <2>4 DEF TxOf, Awaited, HandlerInv, Changing
    <3>2. CanChange(q) \/ rcds[q].currentIndex < RCDs[q].currentIndex
      BY <2>2, <2>4 DEF SerialTx
    <3> QED
      BY <1>0, <1>1, <3>1, <3>2, MinedCanChange
  <2> QED
    BY <1>1, <2>1, <2>3, <2>4 DEF SerialTx
<1>6. ChainsInv(q)'
  <2>1. CASE q = t.device
    BY <1>0, <1>1, <2>1, MinedIndex
  <2>2. CASE q # t.device
    <3>1. RCDs'[q] = RCDs[q] /\ block' = block /\ ChainsInv(q)
      BY <1>0, <1>1, <2>2, MinedContract DEF SerialInv
    <3> QED
      BY <3>1 DEF ChainsInv, StoredPrefix, WindowsWellFormed, Disjoint
  <2> QED
    BY <2>1, <2>2
<1> QED
  BY <1>2, <1>3, <1>4, <1>5, <1>6 DEF SerialInv

LEMMA MinedAgree ==
    ASSUME PInv, PInv', IndexInv, NEW a \in {Owner, CM}, Mine(a), NEW t, t = Head(pool[a]),
           NEW status \in {"successful", "failed"}, Mined(t, status),
           NEW q \in Rcds, Faultless(q)
    PROVE  AgreeInv(q)'
<1>0. t \in Sent(a)
  BY MineSent
<1>1. /\ SerialInv(q) /\ AgreeInv(q) /\ Serial(q) /\ OneLive(q) /\ BaseInv
      /\ UNCHANGED <<rcds, dev, faults, block>>
      /\ \A d \in Conns : conn'[d].pc = conn[d].pc /\ conn'[d].device = conn[d].device
                          /\ conn'[d].slot = conn[d].slot /\ conn'[d].index = conn[d].index
      /\ t.conn \in Conns /\ t.device = conn[t.conn].device /\ TxOf(a, t)
      /\ dev[q].conn \in Conns \union {NoConn}
  BY <1>0, MinedContract, Numbers
     DEF IndexInv, SerialInv, Faultless, Serial, Mined, BaseInv, TxInv
<1>2. dev'[q].conn # NoConn =>
          conn'[dev'[q].conn].device = q /\ conn'[dev'[q].conn].pc # "unused"
  BY <1>1 DEF AgreeInv
<1>3. CASE q # t.device
  <2>1. RCDs'[q] = RCDs[q]
    BY <1>0, <1>1, <1>3, MinedContract
  <2>2. ASSUME NEW d \in Conns, conn'[d].device = q PROVE AgreeHandler(q, d)'
    <3>1. conn'[d] = conn[d] /\ AgreeHandler(q, d)
      BY <1>1, <1>3, <2>2 DEF Mined, AgreeInv
    <3> QED
      BY <1>1, <2>1, <3>1 DEF AgreeHandler, EntryOf
  <2>3. ASSUME NEW b \in {Owner, CM}, NEW u \in Sent(b)', u.device = q PROVE Succeeds(u)'
    <3>1. Succeeds(u)
      BY <1>1, <2>3, MineSent DEF AgreeInv
    <3> QED
      BY <1>1, <2>1, <2>3, <3>1
         DEF Succeeds, CanRegOwner, CanStoreKey, FutureIndex, AfterPrevious, CanChange
  <2>4. \/ rcds'[q].currentIndex = RCDs'[q].currentIndex
        \/ \E c \in Conns : conn'[c].device = q /\ Live(c)'
    BY <1>1, <2>1 DEF AgreeInv, Live
  <2> QED
    BY <1>2, <2>2, <2>3, <2>4 DEF AgreeInv
<1>4. CASE q = t.device
  <2> DEFINE c == t.conn
             C == RCDs[q].currentIndex
             D == rcds[q].currentIndex
  <2>1. /\ conn[c].pc # "done" /\ conn[c].device = q /\ Awaited(c, t.call)
        /\ conn[c].receipt = "none" /\ Live(c)
        /\ t.index = conn[c].index /\ t.start = conn[c].slot
    BY <1>1, <1>4 DEF TxOf, Faultless, Awaited, Live
  <2>2. Execute(t) /\ conn'[c].receipt = "successful"
    <3>1. Succeeds(t)
      BY <1>0, <1>1, <1>4 DEF AgreeInv
    <3>2. status = "successful"
      BY <3>1 DEF Mined
    <3> QED
      BY <2>1, <3>2 DEF Mined
  <2>3. ASSUME NEW b \in {Owner, CM}, NEW u \in Sent(b)', u.device = q PROVE FALSE
    <3>1. u \in Sent(b) /\ TxOf(b, u) /\ u.conn \in Conns
      BY <1>1, MineSent, SentType DEF BaseInv, TxInv
    <3>2. conn[u.conn].device = q /\ Live(u.conn)
      BY <2>3, <3>1 DEF TxOf, Faultless, Awaited, Live
    <3>3. u.conn = c
      BY <1>1, <2>1, <3>1, <3>2 DEF OneLive
    <3> QED
      BY <1>1, <2>1, <3>3, MineOthers DEF BaseInv
  <2>4. ASSUME NEW d \in Conns, d # c, conn'[d].device = q PROVE AgreeHandler(q, d)'
    <3>1. ~Live(d) /\ dev[q].conn # d
      <4>1. d # NoConn
        BY DEF Conns, NoConn
      <4> QED
        BY <1>1, <2>1, <2>4, <4>1 DEF OneLive
    <3>2. conn'[d].pc \in {"unused", "send", "done"} /\ dev'[q].conn # d
      BY <1>1, <3>1 DEF Live
    <3> QED
      BY <3>2 DEF AgreeHandler, Registering, Storing, Changing, Updating
  <2>5. AgreeHandler(q, c)'
    <3>1. /\ AgreeHandler(q, c) /\ SerialHandler(q, c)
          /\ C \in Nat /\ D \in Nat
      BY <1>1, <2>1, Numbers DEF AgreeInv, SerialInv
    <3>2. C = D
      BY <2>1, <3>1 DEF AgreeHandler, Awaited, Registering
    <3>3. dev'[q].conn = c => conn'[c].slot = dev'[q].slot
      BY <1>1, <2>1, <3>1 DEF AgreeHandler
    <3>4. CASE conn[c].pc = "registering"
      <4>1. t.call = "regOwner"
        BY <2>1, <3>4 DEF Awaited
      <4>2. C = 0 /\ RCDs'[q].currentIndex = 0
        BY <1>0, <1>1, <1>4, <2>2, <4>1, ExecuteEffect
      <4> QED
        BY <1>1, <2>2, <3>2, <3>3, <3>4, <4>2
           DEF AgreeHandler, Registering, Storing, Changing, Updating
    <3>5. CASE conn[c].pc = "storing"
      <4>1. t.call = "storeKey" /\ t.index = D + 1
        BY <2>1, <3>1, <3>5 DEF Awaited, SerialHandler, Storing
      <4>2. /\ RCDs'[q].currentIndex = IF C = 0 THEN 1 ELSE C
            /\ RCDs'[q].chains[D + 1] =
                   [key |-> c, startTime |-> conn[c].slot,
                    endTime |-> EndTime(conn[c].slot), isIndexExist |-> TRUE]
        <5>1. /\ RCDs'[q].currentIndex = IF C = 0 THEN 1 ELSE C
              /\ RCDs'[q].chains[t.index] =
                     [key |-> t.conn, startTime |-> t.start,
                      endTime |-> EndTime(t.start), isIndexExist |-> TRUE]
          BY <1>0, <1>1, <1>4, <2>2, <4>1, ExecuteEffect
        <5> QED
          BY <2>1, <4>1, <5>1
      <4>3. RCDs'[q].chains[D + 1] = EntryOf(c)'
        BY <1>1, <4>2 DEF EntryOf, EndTime
      <4> QED
        BY <1>1, <2>2, <3>2, <3>3, <3>5, <4>2, <4>3
           DEF AgreeHandler, Registering, Storing, Changing, Updating
    <3>6. CASE conn[c].pc = "changing"
      <4>1. t.call = "changeCurrentIndex" /\ RCDs[q].chains[D + 1] = EntryOf(c)
        BY <2>1, <3>1, <3>6 DEF Awaited, AgreeHandler, Changing
      <4>2. RCDs'[q].currentIndex = C + 1 /\ RCDs'[q].chains = RCDs[q].chains
        BY <1>0, <1>1, <1>4, <2>2, <4>1, ExecuteEffect
      <4>3. RCDs'[q].chains[D + 1] = EntryOf(c)'
        BY <1>1, <4>1, <4>2 DEF EntryOf, EndTime
      <4> QED
        BY <1>1, <2>2, <3>2, <3>3, <3>6, <4>2, <4>3
           DEF AgreeHandler, Registering, Storing, Changing, Updating
    <3> QED
      BY <2>1, <3>4, <3>5, <3>6 DEF Awaited
  <2>6. conn'[c].device = q /\ Live(c)'
    BY <1>1, <2>1 DEF Live
  <2> QED
    BY <1>1, <1>2, <2>3, <2>4, <2>5, <2>6 DEF AgreeInv
<1> QED
  BY <1>3, <1>4

LEMMA MineIndexInv ==
    ASSUME PInv, PInv', IndexInv, NEW a \in {Owner, CM}, Mine(a) PROVE IndexInv'
<1> DEFINE t == Head(pool[a])
<1>1. t \in Sent(a) /\ BaseInv
  BY MineSent DEF IndexInv
<1>2. PICK status \in {"successful", "failed"} : Mined(t, status)
  BY <1>1, MineEffect
<1>3. BaseInv'
  <2>1. \A q \in Rcds : ChainsFrom(q)'
    BY <1>1, <1>2, MinedChainsFrom
  <2>2. \A q \in Rcds : OwnerInv(q)'
    BY <1>1, <1>2, MinedOwner
  <2>3. \A d \in Conns : HandlerInv(d)'
    BY <1>1, <1>2, MinedHandler
  <2>4. TxInv'
    BY <1>1, <1>2, MinedTxInv
  <2> QED
    BY <2>1, <2>2, <2>3, <2>4 DEF BaseInv
<1>4. ASSUME NEW q \in Rcds PROVE SerialInv(q)' /\ AgreeInv(q)'
  <2>1. faults' = faults
    BY DEF Mine
  <2>2. CASE ~Serial(q)
    BY <2>1, <2>2 DEF SerialInv, AgreeInv, Serial, Faultless
  <2>3. CASE Serial(q)
    <3>1. SerialInv(q)'
      BY <1>2, <2>3, MinedSerial
    <3>2. Faultless(q) => AgreeInv(q)'
      BY <1>2, MinedAgree
    <3>3. ~Faultless(q) => AgreeInv(q)'
      BY <2>1 DEF AgreeInv, Faultless
    <3> QED
      BY <3>1, <3>2, <3>3
  <2> QED
    BY <2>2, <2>3
<1> QED
  BY <1>3, <1>4 DEF IndexInv

-----------------------------------------------------------------------------
(* The whole.                                                                *)

LEMMA InitIndexInv == PInit => IndexInv
<1> SUFFICES ASSUME PInit PROVE IndexInv
  OBVIOUS
<1>1. /\ \A r \in Rcds : /\ RCDs[r].currentIndex = 0 /\ ~RCDs[r].isTaken
                         /\ \A i \in Index : ~RCDs[r].chains[i].isIndexExist
                         /\ ~rcds[r].registered /\ rcds[r].currentIndex = 0
                         /\ dev[r].pc = "idle" /\ dev[r].conn = NoConn /\ dev[r].slot = 0
      /\ \A c \in Conns : conn[c].pc = "unused" /\ conn[c].slot = 0
      /\ \A a \in {Owner, CM} : pool[a] = <<>>
      /\ block = 1
  BY DEF PInit, Init, NoEntry
<1>2. \A a \in {Owner, CM} : Sent(a) = {} /\ OneEach(a)
  <2>1. \A a \in {Owner, CM} : Len(pool[a]) = 0
    BY <1>1
  <2> QED
    BY <2>1 DEF Sent, OneEach
<1>3. \A r \in Rcds : ChainsFrom(r) /\ OwnerInv(r)
  <2>1. \A r \in Rcds : ChainsFrom(r)
    BY <1>1 DEF ChainsFrom
  <2>2. \A r \in Rcds : DevInv(r)
    <3> SUFFICES ASSUME NEW r \in Rcds PROVE DevInv(r)
      OBVIOUS
    <3>1. dev[r].slot = 0 /\ dev[r].conn = NoConn /\ block = 1
      BY <1>1
    <3>2. 0 <= 1
      OBVIOUS
    <3> QED
      BY <3>1, <3>2 DEF DevInv
  <2> QED
    BY <1>1, <2>1, <2>2 DEF OwnerInv
<1>4. \A c \in Conns : HandlerInv(c)
  BY <1>1 DEF HandlerInv, Storing, Changing, Updating, Reported
<1>5. TxInv
  BY <1>2 DEF TxInv
<1>6. ASSUME NEW r \in Rcds PROVE SerialInv(r)
  <2>1. ChainsInv(r)
    BY <1>1 DEF ChainsInv, StoredPrefix, WindowsWellFormed, Disjoint
  <2>2. OneLive(r)
    BY <1>1 DEF OneLive, Live
  <2>3. \A c \in Conns : SerialHandler(r, c)
    BY <1>1 DEF SerialHandler, Registering, Storing, Changing, Updating
  <2> QED
    BY <1>1, <1>2, <2>1, <2>2, <2>3 DEF SerialInv
<1>7. ASSUME NEW r \in Rcds PROVE AgreeInv(r)
  <2>1. \A c \in Conns : AgreeHandler(r, c)
    BY <1>1 DEF AgreeHandler, Registering, Storing, Changing, Updating, Conns, NoConn
  <2> QED
    BY <1>1, <1>2, <2>1 DEF AgreeInv
<1> QED
  BY <1>3, <1>4, <1>5, <1>6, <1>7 DEF IndexInv, BaseInv

LEMMA StutterIndexInv == IndexInv /\ UNCHANGED pvars => IndexInv'
<1> SUFFICES ASSUME IndexInv, UNCHANGED pvars PROVE IndexInv'
  OBVIOUS
<1>1. UNCHANGED <<RCDs, block, rcds, conn, pool, dev, faults>>
  BY DEF pvars
<1>2. \A a \in {Owner, CM} : (Sent(a)' = Sent(a)) /\ (OneEach(a)' <=> OneEach(a))
  BY <1>1 DEF Sent, OneEach
<1>3. TxInv'
  <2>1. \A a \in {Owner, CM} : \A t \in Sent(a) : TxOf(a, t)'
    BY <1>1 DEF IndexInv, BaseInv, TxInv, TxOf, Awaited
  <2> QED
    BY <1>2, <2>1 DEF IndexInv, BaseInv, TxInv
<1>4. \A r \in Rcds : ChainsFrom(r)' /\ OwnerInv(r)'
  BY <1>1 DEF IndexInv, BaseInv, ChainsFrom, getKey, OwnerInv, DevInv, Reported
<1>5. \A c \in Conns : HandlerInv(c)'
  BY <1>1 DEF IndexInv, BaseInv, HandlerInv, Reported
<1>6. ASSUME NEW r \in Rcds PROVE SerialInv(r)'
  <2> SUFFICES ASSUME Serial(r)' PROVE SerialInv(r)'
    BY DEF SerialInv
  <2>1. SerialInv(r) /\ Serial(r)
    BY <1>1 DEF IndexInv, Serial
  <2>2. OneLive(r)' /\ ChainsInv(r)'
    BY <1>1, <2>1
       DEF SerialInv, OneLive, Live, ChainsInv, StoredPrefix, WindowsWellFormed, Disjoint
  <2>3. \A c \in Conns : conn'[c].device = r => SerialHandler(r, c)'
    BY <1>1, <2>1 DEF SerialInv, SerialHandler
  <2>4. \A a \in {Owner, CM} : \A t \in Sent(a)' : t.device = r => SerialTx(r, t)'
    BY <1>1, <1>2, <2>1 DEF SerialInv, SerialTx, CanChange
  <2> QED
    BY <1>1, <2>1, <2>2, <2>3, <2>4 DEF SerialInv
<1>7. ASSUME NEW r \in Rcds PROVE AgreeInv(r)'
  <2> SUFFICES ASSUME Faultless(r)' PROVE AgreeInv(r)'
    BY DEF AgreeInv
  <2>1. AgreeInv(r) /\ Faultless(r)
    BY <1>1 DEF IndexInv, Faultless
  <2>2. \A c \in Conns : conn'[c].device = r => AgreeHandler(r, c)'
    BY <1>1, <2>1 DEF AgreeInv, AgreeHandler, EntryOf
  <2>3. \A a \in {Owner, CM} : \A t \in Sent(a)' : t.device = r => Succeeds(t)'
    BY <1>1, <1>2, <2>1
       DEF AgreeInv, Succeeds, CanRegOwner, CanStoreKey, FutureIndex, AfterPrevious, CanChange
  <2> QED
    BY <1>1, <2>1, <2>2, <2>3 DEF AgreeInv, Live
<1> QED
  BY <1>3, <1>4, <1>5, <1>6, <1>7 DEF IndexInv, BaseInv

LEMMA StepIndexInv == PInv /\ IndexInv /\ [PNext]_pvars => (PInv /\ IndexInv)'
<1> SUFFICES ASSUME PInv, IndexInv, [PNext]_pvars PROVE PInv' /\ IndexInv'
  OBVIOUS
<1>1. PInv'
  BY NextPInv
<1>2. CASE NewBlock /\ UNCHANGED <<rcds, conn, pool, dev, faults>>
  BY <1>1, <1>2, NewBlockIndexInv
<1>3. ASSUME NEW r \in Rcds, RequestHashChain(r) \/ Dial(r) \/ AttemptFails(r) PROVE IndexInv'
  BY <1>1, <1>3, RequestIndexInv, DialIndexInv, AttemptFailsIndexInv
<1>4. ASSUME NEW a \in {Owner, CM}, Mine(a) PROVE IndexInv'
  BY <1>1, <1>4, MineIndexInv
<1>5. ASSUME NEW c \in Conns, HandleRCD(c) \/ RegisterLost(c) PROVE IndexInv'
  BY <1>1, <1>5, HandlerIndexInv
<1>6. ASSUME NEW r \in Rcds, ChangedByAnother(r) PROVE IndexInv'
  BY <1>1, <1>6, AnotherIndexInv
<1>7. CASE UNCHANGED pvars
  BY <1>1, <1>7, StutterIndexInv
<1> QED
  BY <1>1, <1>2, <1>3, <1>4, <1>5, <1>6, <1>7 DEF PNext

-----------------------------------------------------------------------------
\* Whatever overlaps, fails or gets lost, the owner believes a device registered only if
\* the contract has it for this owner; and without a fault, a device that the contract
\* has is one the owner knows or is just being told of.
THEOREM ProvisioningRegistrationAgrees == PSpec => []RegistrationAgrees
<1>1. PInv /\ IndexInv => RegistrationAgrees
  <2> SUFFICES ASSUME PInv, IndexInv, NEW r \in Rcds
               PROVE  /\ rcds[r].registered => RCDs[r].isTaken /\ RCDs[r].owner = Owner
                      /\ RCDs[r].isTaken /\ faults[r] = {} =>
                            rcds[r].registered
                            \/ \E c \in Conns : conn[c].device = r /\ Live(c)
    BY DEF RegistrationAgrees
  <2>1. ChainsFrom(r) /\ OwnerInv(r)
    BY DEF IndexInv, BaseInv
  <2>2. \A c \in Conns : Reported(c, r) => conn[c].device = r /\ Live(c)
    BY DEF Reported, Live
  <2> QED
    BY <2>1, <2>2 DEF ChainsFrom, OwnerInv
<1> QED
  BY <1>1, InitPInv, InitIndexInv, StepIndexInv, PTL DEF PSpec

\* Without overlapping handlers, transactions nobody waits for and somebody else's
\* changeCurrentIndex, the owner's index is the contract's between two requests, for any
\* number of devices, chains and retries.
THEOREM ProvisioningIndexAgrees == PSpec => []IndexAgrees
<1>1. IndexInv => IndexAgrees
  BY DEF IndexInv, AgreeInv, Faultless, IndexAgrees
<1> QED
  BY <1>1, InitPInv, InitIndexInv, StepIndexInv, PTL DEF PSpec

\* The owner's calls never leave a device with a current chain that is not stored, even
\* when overlapping handlers make it skip an index.
THEOREM ProvisioningActiveKeyStored == PSpec => []ActiveKeyStored
<1>1. IndexInv => ActiveKeyStored
  BY DEF IndexInv, BaseInv, ChainsFrom, ActiveKeyStored
<1> QED
  BY <1>1, InitPInv, InitIndexInv, StepIndexInv, PTL DEF PSpec

LEMMA SerialImplies ==
    ASSUME PInv, IndexInv, NEW r \in Rcds, "overlap" \notin faults[r]
    PROVE  Disjoint(r) /\ Activable(r)
<1>1. TypeOK /\ ChainsInv(r)
  BY DEF PInv, PTypeOK, IndexInv, SerialInv, Serial
<1> QED
  BY <1>1, ChainsInvImplies

\* The windows of the chains of a device follow one another, as long as its handlers ran
\* one after another, however many of its transactions got lost, failed or were mined late.
THEOREM ProvisioningSerialWindowsDisjoint == PSpec => []SerialWindowsDisjoint
<1>1. PInv /\ IndexInv => SerialWindowsDisjoint
  BY SerialImplies DEF SerialWindowsDisjoint
<1> QED
  BY <1>1, InitPInv, InitIndexInv, StepIndexInv, PTL DEF PSpec

\* ... and the changeCurrentIndex that follows its storeKey meets the require about the end
\* of the current chain.
THEOREM ProvisioningSerialNextIsActivable == PSpec => []SerialNextIsActivable
<1>1. PInv /\ IndexInv => SerialNextIsActivable
  BY SerialImplies DEF SerialNextIsActivable
<1> QED
  BY <1>1, InitPInv, InitIndexInv, StepIndexInv, PTL DEF PSpec

\* The chain of a device changes when its handler has sent it.
LEMMA DeliveredStep ==
    ASSUME PInv, IndexInv, [PNext]_pvars, NEW r \in Rcds,
           dev'[r].chain # dev[r].chain, faults[r] = {}
    PROVE  /\ getKey(r).key = dev'[r].chain
           /\ getKey(r).startTime = dev'[r].start
           /\ getKey(r).endTime = EndTime(dev'[r].start)
<1>0. dev \in [Rcds -> DevRecords]
  BY Parts DEF DevPart
<1>1. ASSUME NEW q \in Rcds, RequestHashChain(q) \/ Dial(q) \/ AttemptFails(q)
      PROVE  dev'[r].chain = dev[r].chain
  <2>1. CASE RequestHashChain(q)
    BY <1>0, <2>1 DEF RequestHashChain, DevRecords
  <2>2. CASE Dial(q)
    BY <1>0, <2>2 DEF Dial, DevRecords
  <2>3. CASE AttemptFails(q)
    BY <1>0, <2>3 DEF AttemptFails, DevRecords
  <2> QED
    BY <1>1, <2>1, <2>2, <2>3
<1>2. PICK c \in Conns : SendChain(c)
  <2>1. ~UNCHANGED dev
    OBVIOUS
  <2>2. ASSUME NEW c \in Conns, HandleRCD(c) \/ RegisterLost(c), ~SendChain(c)
        PROVE  UNCHANGED dev
    BY <2>2 DEF HandleRCD, RegisterLost, Load, RegisterSubmit, RegisterFails,
                RegisterReverted, Registered, NextIndex, StoreKeySubmit, StoreKeyFails,
                StoreKeyMined, ChangeSubmit, ChangeFails, ChangeMined, UpdateRead,
                UpdateWrite, SubmitFails
  <2>3. ASSUME NEW a \in {Owner, CM}, Mine(a) PROVE UNCHANGED dev
    BY <2>3 DEF Mine
  <2> QED
    BY <1>1, <2>1, <2>2, <2>3 DEF PNext, pvars, ChangedByAnother
<1>3. /\ conn[c].device = r /\ dev[r].conn = c /\ conn[c].pc = "send"
      /\ dev'[r].chain = c /\ dev'[r].start = dev[r].slot
  <2>1. conn[c].device \in Rcds /\ conn[c].pc = "send"
    BY <1>2, ConnFields DEF SendChain
  <2>2. dev' = IF dev[conn[c].device].conn # c THEN dev
               ELSE [dev EXCEPT ![conn[c].device] =
                        [pc |-> "idle", attempt |-> 0, slot |-> 0, conn |-> NoConn,
                         chain |-> c, start |-> dev[conn[c].device].slot]]
    BY <1>2 DEF SendChain
  <2> QED
    BY <1>0, <2>1, <2>2
<1>4. AgreeHandler(r, c)
  BY <1>3 DEF IndexInv, AgreeInv, Faultless
<1>5. getKey(r) = EntryOf(c) /\ conn[c].slot = dev[r].slot
  BY <1>3, <1>4 DEF AgreeHandler, getKey
<1> QED
  BY <1>3, <1>5 DEF EntryOf, EndTime

\* The chain that a device gets without overlapping handlers, transactions nobody waits for
\* and somebody else's changeCurrentIndex (faults[r] = {}) is the one that getKey returns,
\* with the window the device counts from.
THEOREM ProvisioningDeliveredIsCurrent == PSpec => DeliveredIsCurrent
<1> DEFINE Delivered == \A r \in Rcds :
             dev'[r].chain # dev[r].chain /\ faults[r] = {} =>
                 /\ getKey(r).key = dev'[r].chain
                 /\ getKey(r).startTime = dev'[r].start
                 /\ getKey(r).endTime = EndTime(dev'[r].start)
<1>1. PInv /\ IndexInv /\ [PNext]_pvars => [Delivered]_pvars
  BY DeliveredStep
<1> QED
  BY <1>1, InitPInv, InitIndexInv, StepIndexInv, PTL DEF PSpec, DeliveredIsCurrent
=============================================================================
