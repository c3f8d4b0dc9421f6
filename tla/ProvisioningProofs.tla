-------------------------- MODULE ProvisioningProofs --------------------------
(***************************************************************************)
(* Proofs about Provisioning, for any devices, accounts, numbers of        *)
(* connections and attempts, chain lengths and bounds.                     *)
(*                                                                         *)
(* The owner, the manager, the devices and a stranger together, through    *)
(* every overlap, retry, timeout and lost answer, make steps of the        *)
(* contract and no others: Provisioning implements InfTESLA.  What is      *)
(* proved there of any caller then holds here.  The calls must have        *)
(* arguments of the contract's types when they are mined, long after they  *)
(* were put together: PInv says so of the handlers, and of the pool.       *)
(***************************************************************************)
EXTENDS Provisioning, InfTESLAProofs

\* Slots a chain can begin at, within the bounds.
GoodSlots == {s \in 1..MaxBlock : EndTime(s) \in 1..MaxBlock /\ s <= EndTime(s)}

PoolOK == pool \in [{Owner, CM} -> Seq({t \in Txs : t.start \in GoodSlots})]

DevSlots == \A r \in Rcds : dev[r].pc # "idle" => dev[r].slot \in GoodSlots

ConnArgs ==
    \A c \in Conns :
        /\ conn[c].pc \notin {"unused", "done"} => conn[c].slot \in GoodSlots
        /\ conn[c].pc \notin {"write", "send"} => conn[c].index \in Index

PInv == PTypeOK /\ block > 0 /\ PoolOK /\ DevSlots /\ ConnArgs

LEMMA BlockNat == ASSUME PTypeOK PROVE block \in Nat /\ block <= MaxBlock /\ MaxBlock \in Nat
  BY ContractAssumption DEF PTypeOK, TypeOK, Blocks

LEMMA InitPInv == PInit => PInv
<1> SUFFICES ASSUME PInit PROVE PInv
  OBVIOUS
<1>1. TypeOK
  BY InitTypeOK DEF PInit
<1>2. (CHOOSE r \in Rcds : TRUE) \in Rcds
  BY ProvisioningAssumption
<1>3. 0 \in Blocks /\ 0 \in Index /\ 0 \in 0..MaxAttempts
  BY ContractAssumption, ProvisioningAssumption DEF Blocks, Index
<1>4. <<>> \in Seq(Txs) /\ <<>> \in Seq({t \in Txs : t.start \in GoodSlots})
  OBVIOUS
<1>5. PTypeOK
  BY <1>1, <1>2, <1>3, <1>4 DEF PInit, PTypeOK, ConnPcs
<1>6. PoolOK /\ DevSlots /\ ConnArgs
  BY <1>3, <1>4 DEF PInit, PoolOK, DevSlots, ConnArgs
<1> QED
  BY <1>5, <1>6 DEF PInv, PInit, Init

-----------------------------------------------------------------------------
(* A transaction of the pool is one the contract is specified for.           *)

LEMMA ExecuteIsNext ==
    ASSUME NEW t \in Txs, t.conn \in Conns, t.start \in GoodSlots, Execute(t)
    PROVE  Next
<1>1. CASE t.call = "regOwner" /\ regOwner(CM, Owner, t.device)
  BY <1>1, ProvisioningAssumption, ContractAssumption DEF Next, Txs
<1>2. CASE t.call = "storeKey" /\ storeKey(Owner, t.device, t.index, t.conn, t.start, EndTime(t.start))
  <2>1. t.conn \in Keys
    BY ProvisioningAssumption
  <2>2. /\ t.start \in Blocks /\ EndTime(t.start) \in Blocks
        /\ 0 < t.start /\ t.start <= EndTime(t.start)
    BY ContractAssumption DEF GoodSlots, Blocks
  <2>3. Owner \in Accounts /\ t.index \in Index /\ t.device \in Rcds
    BY ProvisioningAssumption DEF Txs
  <2>4. Store(t.device)
    BY <1>2, <2>1, <2>2, <2>3 DEF Store
  <2> QED
    BY <2>3, <2>4 DEF Next
<1>3. CASE t.call = "changeCurrentIndex" /\ changeCurrentIndex(t.device)
  BY <1>3 DEF Next, Txs
<1> QED
  BY <1>1, <1>2, <1>3 DEF Execute

LEMMA HeadOfPool ==
    ASSUME PInv, NEW a \in {Owner, CM}, pool[a] # <<>>
    PROVE  /\ Head(pool[a]) \in Txs /\ Head(pool[a]).start \in GoodSlots
           /\ Tail(pool[a]) \in Seq({t \in Txs : t.start \in GoodSlots})
           /\ Tail(pool[a]) \in Seq(Txs)
<1>1. pool[a] \in Seq({t \in Txs : t.start \in GoodSlots}) /\ pool[a] \in Seq(Txs)
  BY DEF PInv, PoolOK, PTypeOK
<1> QED
  BY <1>1

\* Every step of the whole is a step of the contract, or none.
LEMMA StepIsContractStep == PInv /\ [PNext]_pvars => [Next]_vars
<1> SUFFICES ASSUME PInv, [PNext]_pvars PROVE [Next]_vars
  OBVIOUS
<1>1. CASE NewBlock
  BY <1>1 DEF Next
<1>2. ASSUME NEW r \in Rcds, RequestHashChain(r) \/ Dial(r) \/ AttemptFails(r)
      PROVE  UNCHANGED vars
  BY <1>2 DEF RequestHashChain, Dial, AttemptFails, vars
<1>3. ASSUME NEW a \in {Owner, CM}, Mine(a) PROVE [Next]_vars
  <2>1. CASE Execute(Head(pool[a]))
    <3>1. Head(pool[a]) \in Txs /\ Head(pool[a]).start \in GoodSlots
      BY <1>3, HeadOfPool DEF Mine
    <3>2. Head(pool[a]).conn \in Conns
      BY <3>1 DEF Txs
    <3> QED
      BY <2>1, <3>1, <3>2, ExecuteIsNext
  <2>2. CASE UNCHANGED <<RCDs, block>>
    BY <2>2 DEF vars
  <2> QED
    BY <1>3, <2>1, <2>2 DEF Mine
<1>4. ASSUME NEW c \in Conns, HandleRCD(c) PROVE UNCHANGED vars
  BY <1>4 DEF HandleRCD, Load, RegisterSubmit, RegisterFails, RegisterReverted, Registered,
              NextIndex, StoreKeySubmit, StoreKeyFails, StoreKeyMined, ChangeSubmit,
              ChangeFails, ChangeMined, UpdateRead, UpdateWrite, SendChain, SubmitFails, vars
<1>5. ASSUME NEW c \in Conns, RegisterLost(c) PROVE UNCHANGED vars
  BY <1>5 DEF RegisterLost, vars
<1>6. ASSUME NEW r \in Rcds, ChangedByAnother(r) PROVE Next
  BY <1>6 DEF ChangedByAnother, Next
<1>7. CASE UNCHANGED pvars
  BY <1>7 DEF pvars, vars
<1> QED
  BY <1>1, <1>2, <1>3, <1>4, <1>5, <1>6, <1>7 DEF PNext
-----------------------------------------------------------------------------
(* PInv is inductive.  TypeOK first, then one lemma for each way a step      *)
(* changes the handlers or the pool, then one step per action.               *)

LEMMA ExecuteTypeOK ==
    ASSUME TypeOK, NEW t \in Txs, t.conn \in Conns, t.start \in GoodSlots, Execute(t)
    PROVE  TypeOK' /\ block' = block
<1>1. t.device \in Rcds /\ t.index \in Index /\ Owner \in Accounts /\ CM \in Accounts
  BY ProvisioningAssumption, ContractAssumption DEF Txs
<1>2. t.conn \in Keys /\ t.start \in Blocks /\ EndTime(t.start) \in Blocks
  BY ProvisioningAssumption, ContractAssumption DEF GoodSlots, Blocks
<1>3. CASE regOwner(CM, Owner, t.device)
  BY <1>1, <1>3, RegOwnerEffect DEF TypeOK
<1>4. CASE storeKey(Owner, t.device, t.index, t.conn, t.start, EndTime(t.start))
  BY <1>1, <1>2, <1>4, StoreKeyEffect DEF TypeOK
<1>5. CASE changeCurrentIndex(t.device)
  BY <1>1, <1>5, ChangeCurrentIndexEffect DEF TypeOK
<1> QED
  BY <1>3, <1>4, <1>5 DEF Execute

\* What the handlers' records hold.
ConnRecords == [pc : ConnPcs, device : Rcds, slot : Blocks, index : Nat,
                receipt : {"none", "successful", "failed"}]

LEMMA ConnFields ==
    ASSUME PInv, NEW c \in Conns
    PROVE  /\ conn \in [Conns -> ConnRecords] /\ conn[c] \in ConnRecords
           /\ conn[c].device \in Rcds /\ conn[c].pc \in ConnPcs
           /\ conn[c].slot \in Blocks /\ conn[c].index \in Nat
           /\ conn[c].pc \notin {"unused", "done"} => conn[c].slot \in GoodSlots
           /\ conn[c].pc \notin {"write", "send"} => conn[c].index \in Index
  BY DEF PInv, PTypeOK, ConnArgs, ConnRecords

LEMMA IndexIsNat == 0 \in Index /\ 0 \in Blocks /\ Index \subseteq Nat
  BY ContractAssumption DEF Index, Blocks

\* A handler's record is replaced by a good one.
LEMMA ConnUpdate ==
    ASSUME PInv, NEW c \in Conns, NEW new \in ConnRecords, conn' = [conn EXCEPT ![c] = new],
           new.pc \notin {"unused", "done"} => new.slot \in GoodSlots,
           new.pc \notin {"write", "send"} => new.index \in Index
    PROVE  conn' \in [Conns -> ConnRecords] /\ ConnArgs'
<1>1. conn \in [Conns -> ConnRecords]
  BY ConnFields
<1>2. conn' \in [Conns -> ConnRecords]
  BY <1>1
<1>3. ASSUME NEW d \in Conns
      PROVE  /\ conn'[d].pc \notin {"unused", "done"} => conn'[d].slot \in GoodSlots
             /\ conn'[d].pc \notin {"write", "send"} => conn'[d].index \in Index
  <2>1. CASE d = c
    BY <1>1, <2>1
  <2>2. CASE d # c
    BY <1>1, <2>2, ConnFields
  <2> QED
    BY <2>1, <2>2
<1>4. ConnArgs'
  BY <1>3 DEF ConnArgs, GoodSlots, Index
<1> QED
  BY <1>2, <1>4

LEMMA GotoConn ==
    ASSUME PInv, NEW c \in Conns, NEW pc \in ConnPcs, Goto(c, pc),
           conn[c].pc \notin {"unused", "done"},
           pc # "send" => conn[c].pc \notin {"write", "send"}
    PROVE  conn' \in [Conns -> ConnRecords] /\ ConnArgs'
<1> DEFINE new == [conn[c] EXCEPT !.pc = pc, !.receipt = "none"]
<1>1. conn' = [conn EXCEPT ![c] = new]
  BY DEF Goto
<1>2. new \in ConnRecords /\ new.pc = pc /\ new.slot = conn[c].slot /\ new.index = conn[c].index
  BY ConnFields DEF ConnRecords
<1>3. conn[c].slot \in GoodSlots
  BY ConnFields
<1>4. pc \notin {"write", "send"} => conn[c].index \in Index
  BY ConnFields
<1> HIDE DEF new
<1> QED
  BY <1>1, <1>2, <1>3, <1>4, ConnUpdate

LEMMA DoneConn ==
    ASSUME PInv, NEW c \in Conns, Done(c)
    PROVE  conn' \in [Conns -> ConnRecords] /\ ConnArgs'
<1> DEFINE new == [conn[c] EXCEPT !.pc = "done", !.receipt = "none", !.slot = 0, !.index = 0]
<1>1. conn' = [conn EXCEPT ![c] = new]
  BY DEF Done
<1>2. new \in ConnRecords /\ new.pc = "done" /\ new.index \in Index
  BY ConnFields, IndexIsNat DEF ConnRecords, ConnPcs
<1> HIDE DEF new
<1> QED
  BY <1>1, <1>2, ConnUpdate

\* The handler keeps its slot and gets an index.
LEMMA IndexConn ==
    ASSUME PInv, NEW c \in Conns, NEW pc \in ConnPcs, NEW index \in Nat,
           conn[c].pc \notin {"unused", "done"},
           pc \notin {"write", "send"} => index \in Index,
           conn' = [conn EXCEPT ![c].pc = pc, ![c].index = index]
    PROVE  conn' \in [Conns -> ConnRecords] /\ ConnArgs'
<1> DEFINE new == [conn[c] EXCEPT !.pc = pc, !.index = index]
<1>1. conn' = [conn EXCEPT ![c] = new]
  OBVIOUS
<1>2. new \in ConnRecords /\ new.pc = pc /\ new.slot = conn[c].slot /\ new.index = index
  BY ConnFields DEF ConnRecords
<1>3. conn[c].slot \in GoodSlots
  BY ConnFields
<1> HIDE DEF new
<1> QED
  BY <1>1, <1>2, <1>3, ConnUpdate

LEMMA SubmitPool ==
    ASSUME PInv, NEW a \in {Owner, CM}, NEW call \in Calls, NEW c \in Conns,
           Submit(a, call, c), conn[c].pc \notin {"unused", "done", "write", "send"}
    PROVE  pool' \in [{Owner, CM} -> Seq(Txs)] /\ PoolOK'
<1> DEFINE S == {t \in Txs : t.start \in GoodSlots}
<1>1. Tx(call, c) \in S
  BY ConnFields DEF Tx, Txs
<1>2. pool \in [{Owner, CM} -> Seq(S)] /\ pool \in [{Owner, CM} -> Seq(Txs)]
  BY DEF PInv, PoolOK, PTypeOK
<1>3. Append(pool[a], Tx(call, c)) \in Seq(S) /\ Append(pool[a], Tx(call, c)) \in Seq(Txs)
  BY <1>1, <1>2
<1>4. pool' = [pool EXCEPT ![a] = Append(pool[a], Tx(call, c))]
  BY DEF Submit
<1>5. pool' \in [{Owner, CM} -> Seq(S)] /\ pool' \in [{Owner, CM} -> Seq(Txs)]
  BY <1>2, <1>3, <1>4
<1> QED
  BY <1>5 DEF PoolOK, Txs, GoodSlots
DevRecords == [pc : {"idle", "dial", "wait"}, attempt : 0..MaxAttempts, slot : Blocks,
               conn : Conns \union {NoConn}, chain : Conns \union {NoConn}, start : Blocks]

\* The parts of PInv, one for each variable.
ContractPart == TypeOK /\ block > 0
OwnerPart == rcds \in [Rcds -> [registered : BOOLEAN, currentIndex : Nat]]
ConnPart == conn \in [Conns -> ConnRecords] /\ ConnArgs
PoolPart == pool \in [{Owner, CM} -> Seq(Txs)] /\ PoolOK
DevPart == dev \in [Rcds -> DevRecords] /\ DevSlots
FaultsPart == faults \in [Rcds -> SUBSET {"overlap", "lost", "moved"}]

LEMMA Parts ==
    PInv <=> /\ ContractPart /\ OwnerPart /\ ConnPart
             /\ PoolPart /\ DevPart /\ FaultsPart
  BY DEF PInv, PTypeOK, ContractPart, OwnerPart, ConnPart, PoolPart, DevPart, FaultsPart,
         ConnRecords, DevRecords

LEMMA PartsNext ==
    ContractPart' /\ OwnerPart' /\ ConnPart' /\ PoolPart' /\ DevPart' /\ FaultsPart' => PInv'
  BY DEF PInv, PTypeOK, ContractPart, OwnerPart, ConnPart, PoolPart, DevPart, FaultsPart,
         ConnRecords, DevRecords

LEMMA Unchanged ==
    ASSUME PInv
    PROVE  /\ UNCHANGED <<RCDs, block>> => ContractPart'
           /\ UNCHANGED rcds => OwnerPart'
           /\ UNCHANGED conn => ConnPart'
           /\ UNCHANGED pool => PoolPart'
           /\ UNCHANGED dev => DevPart'
           /\ UNCHANGED faults => FaultsPart'
<1>1. ContractPart /\ OwnerPart /\ ConnPart /\ PoolPart /\ DevPart /\ FaultsPart
  BY Parts
<1>2. UNCHANGED <<RCDs, block>> => ContractPart'
  BY <1>1 DEF ContractPart, TypeOK
<1>3. UNCHANGED rcds => OwnerPart'
  BY <1>1 DEF OwnerPart
<1>4. UNCHANGED conn => ConnPart'
  BY <1>1 DEF ConnPart, ConnArgs, ConnRecords
<1>5. UNCHANGED pool => PoolPart'
  BY <1>1 DEF PoolPart, PoolOK
<1>6. UNCHANGED dev => DevPart'
  BY <1>1 DEF DevPart, DevSlots, DevRecords
<1>7. UNCHANGED faults => FaultsPart'
  BY <1>1 DEF FaultsPart
<1> QED
  BY <1>2, <1>3, <1>4, <1>5, <1>6, <1>7

\* A step that moves a handler on, changes nothing else, or has the node take its
\* transaction, or loses it.
LEMMA GotoPInv ==
    ASSUME PInv, NEW c \in Conns, NEW pc \in ConnPcs, Goto(c, pc),
           conn[c].pc \notin {"unused", "done", "write", "send"},
           UNCHANGED <<RCDs, block, rcds, dev, faults>>,
           UNCHANGED pool \/ \E a \in {Owner, CM}, call \in Calls : Submit(a, call, c)
    PROVE  PInv'
<1>1. ConnPart'
  BY GotoConn DEF ConnPart
<1>2. PoolPart'
  BY Unchanged, SubmitPool DEF PoolPart
<1> QED
  BY <1>1, <1>2, Unchanged, PartsNext

LEMMA LosesFaults ==
    ASSUME PInv, NEW c \in Conns, Loses(c) PROVE FaultsPart'
  BY ConnFields, Parts DEF Loses, FaultsPart

LEMMA SubmitFailsPInv ==
    ASSUME PInv, NEW a \in {Owner, CM}, NEW call \in Calls, NEW c \in Conns,
           SubmitFails(a, call, c), conn[c].pc \notin {"unused", "done", "write", "send"}
    PROVE  PInv'
<1>1. ConnPart'
  BY DoneConn DEF SubmitFails, ConnPart
<1>2. PoolPart' /\ FaultsPart'
  BY Unchanged, SubmitPool, LosesFaults DEF SubmitFails, PoolPart
<1>3. UNCHANGED rcds
  BY DEF SubmitFails
<1> QED
  BY <1>1, <1>2, <1>3, Unchanged, PartsNext DEF SubmitFails

LEMMA DevUpdate ==
    ASSUME PInv, NEW r \in Rcds, NEW new \in DevRecords, dev' = [dev EXCEPT ![r] = new],
           new.pc # "idle" => new.slot \in GoodSlots
    PROVE  DevPart'
<1>1. dev \in [Rcds -> DevRecords] /\ DevSlots
  BY Parts DEF DevPart
<1>2. dev' \in [Rcds -> DevRecords]
  BY <1>1
<1>3. ASSUME NEW q \in Rcds PROVE dev'[q].pc # "idle" => dev'[q].slot \in GoodSlots
  <2>1. CASE q = r
    BY <1>1, <2>1
  <2>2. CASE q # r
    BY <1>1, <2>2 DEF DevSlots
  <2> QED
    BY <2>1, <2>2
<1>4. DevSlots'
  BY <1>3 DEF DevSlots, GoodSlots
<1>5. dev' \in [Rcds -> DevRecords'] 
  BY <1>2 DEF DevRecords
<1> QED
  BY <1>4, <1>5 DEF DevPart

LEMMA DevFields ==
    ASSUME PInv, NEW r \in Rcds
    PROVE  /\ dev[r] \in DevRecords /\ dev[r].attempt \in 0..MaxAttempts
           /\ dev[r].slot \in Blocks
           /\ dev[r].pc # "idle" => dev[r].slot \in GoodSlots
  BY Parts DEF DevPart, DevSlots, DevRecords

-----------------------------------------------------------------------------
LEMMA DevicePInv ==
    ASSUME PInv, NEW r \in Rcds, RequestHashChain(r) \/ Dial(r) \/ AttemptFails(r)
    PROVE  PInv'
<1>1. CASE RequestHashChain(r)
  <2> DEFINE new == [dev[r] EXCEPT !.pc = "dial", !.attempt = 1, !.slot = block]
  <2>1. dev' = [dev EXCEPT ![r] = new]
    BY <1>1 DEF RequestHashChain
  <2>2. block \in 1..MaxBlock /\ EndTime(block) <= MaxBlock /\ MaxBlock \in Nat
    BY <1>1, Parts, ContractAssumption DEF ContractPart, TypeOK, Blocks, RequestHashChain
  <2>3. new \in DevRecords /\ new.slot = block
    <3>1. block \in Blocks /\ 1 \in 0..MaxAttempts
      BY <2>2, ProvisioningAssumption DEF Blocks
    <3> QED
      BY <3>1, DevFields DEF DevRecords
  <2>4. block \in GoodSlots
    BY <2>2, ProvisioningAssumption DEF GoodSlots, EndTime
  <2> HIDE DEF new
  <2>5. DevPart'
    BY <2>1, <2>3, <2>4, DevUpdate
  <2> QED
    BY <1>1, <2>5, Unchanged, PartsNext DEF RequestHashChain
<1>2. CASE Dial(r)
  <2>1. PICK c \in Conns :
            /\ dev[r].pc = "dial"
            /\ dev' = [dev EXCEPT ![r].pc = "wait", ![r].conn = c]
            /\ conn' = [conn EXCEPT ![c].pc = "load", ![c].device = r, ![c].slot = dev[r].slot]
            /\ conn[c].pc = "unused"
            /\ faults' = [faults EXCEPT ![r] =
                   IF \E b \in Conns : conn[b].device = r /\ Live(b)
                   THEN @ \union {"overlap"} ELSE @]
            /\ UNCHANGED <<RCDs, block, rcds, pool>>
    BY <1>2 DEF Dial
  <2>2. dev[r].slot \in GoodSlots /\ dev[r].slot \in Blocks
    BY <2>1, DevFields
  <2>3. DevPart'
    <3> DEFINE new == [dev[r] EXCEPT !.pc = "wait", !.conn = c]
    <3>1. dev' = [dev EXCEPT ![r] = new]
      BY <2>1
    <3>2. new \in DevRecords /\ new.slot = dev[r].slot
      BY DevFields DEF DevRecords
    <3> HIDE DEF new
    <3> QED
      BY <3>1, <3>2, <2>2, DevUpdate
  <2>4. ConnPart'
    <3> DEFINE new == [conn[c] EXCEPT !.pc = "load", !.device = r, !.slot = dev[r].slot]
    <3>1. conn' = [conn EXCEPT ![c] = new]
      BY <2>1
    <3>2. new \in ConnRecords /\ new.slot = dev[r].slot /\ new.index = conn[c].index
      BY ConnFields, <2>2 DEF ConnRecords, ConnPcs
    <3>3. conn[c].index \in Index
      BY <2>1, ConnFields
    <3> HIDE DEF new
    <3> QED
      BY <3>1, <3>2, <3>3, <2>2, ConnUpdate DEF ConnPart
  <2>5. FaultsPart'
    BY <2>1, Parts DEF FaultsPart
  <2> QED
    BY <2>1, <2>3, <2>4, <2>5, Unchanged, PartsNext
<1>3. CASE AttemptFails(r)
  <2> DEFINE again == [dev[r] EXCEPT !.pc = "dial", !.conn = NoConn, !.attempt = @ + 1]
             idle == [dev[r] EXCEPT !.pc = "idle", !.conn = NoConn, !.attempt = 0, !.slot = 0]
  <2>1. CASE dev[r].attempt < MaxAttempts
    <3>1. dev' = [dev EXCEPT ![r] = again]
      BY <1>3, <2>1 DEF AttemptFails
    <3>2. again \in DevRecords /\ again.slot = dev[r].slot
      <4>1. dev[r].attempt + 1 \in 0..MaxAttempts
        BY <2>1, DevFields, ProvisioningAssumption
      <4> QED
        BY <4>1, DevFields DEF DevRecords
    <3>3. dev[r].slot \in GoodSlots
      BY <1>3, DevFields DEF AttemptFails
    <3> HIDE DEF again
    <3>4. DevPart'
      BY <3>1, <3>2, <3>3, DevUpdate
    <3> QED
      BY <1>3, <3>4, Unchanged, PartsNext DEF AttemptFails
  <2>2. CASE ~(dev[r].attempt < MaxAttempts)
    <3>1. dev' = [dev EXCEPT ![r] = idle]
      BY <1>3, <2>2 DEF AttemptFails
    <3>2. idle \in DevRecords /\ idle.pc = "idle"
      <4>1. 0 \in 0..MaxAttempts
        BY ProvisioningAssumption
      <4> QED
        BY <4>1, DevFields, IndexIsNat DEF DevRecords
    <3> HIDE DEF idle
    <3>3. DevPart'
      BY <3>1, <3>2, DevUpdate
    <3> QED
      BY <1>3, <3>3, Unchanged, PartsNext DEF AttemptFails
  <2> QED
    BY <2>1, <2>2
<1> QED
  BY <1>1, <1>2, <1>3

LEMMA MinePInv == ASSUME PInv, NEW a \in {Owner, CM}, Mine(a) PROVE PInv'
<1> DEFINE t == Head(pool[a])
<1>1. t \in Txs /\ t.start \in GoodSlots /\ t.conn \in Conns
  BY HeadOfPool DEF Mine, Txs
<1>2. PoolPart'
  <2>1. pool' = [pool EXCEPT ![a] = Tail(pool[a])]
    BY DEF Mine
  <2> DEFINE tail == Tail(pool[a])
             S == {u \in Txs : u.start \in GoodSlots}
  <2>2. tail \in Seq(Txs) /\ tail \in Seq(S)
    BY HeadOfPool DEF Mine
  <2>3. pool \in [{Owner, CM} -> Seq(Txs)] /\ pool \in [{Owner, CM} -> Seq(S)]
    BY DEF PInv, PTypeOK, PoolOK
  <2> HIDE DEF tail, S
  <2>4. pool' \in [{Owner, CM} -> Seq(Txs)] /\ pool' \in [{Owner, CM} -> Seq(S)]
    BY <2>1, <2>2, <2>3 DEF tail
  <2> QED
    BY <2>4 DEF PoolPart, PoolOK, Txs, GoodSlots, S
<1>3. ContractPart'
  <2>1. Execute(t) \/ UNCHANGED <<RCDs, block>>
    BY Zenon DEF Mine
  <2>2. CASE Execute(t)
    BY <1>1, <2>2, ExecuteTypeOK, Parts DEF ContractPart
  <2> QED
    BY <2>1, <2>2, Unchanged
<1>4. ConnPart'
  <2>1. CASE conn' = conn
    BY <2>1, Unchanged
  <2>2. ASSUME NEW status \in {"successful", "failed"}, conn[t.conn].pc # "done",
               conn' = [conn EXCEPT ![t.conn].receipt = status]
        PROVE  ConnPart'
    <3> DEFINE new == [conn[t.conn] EXCEPT !.receipt = status]
    <3>1. conn' = [conn EXCEPT ![t.conn] = new]
      BY <2>2
    <3>2. /\ new \in ConnRecords /\ new.pc = conn[t.conn].pc
          /\ new.slot = conn[t.conn].slot /\ new.index = conn[t.conn].index
      BY <1>1, ConnFields DEF ConnRecords
    <3> HIDE DEF new, t
    <3> QED
      BY <1>1, <3>1, <3>2, ConnFields, ConnUpdate DEF ConnPart
  <2>3. \/ conn' = conn
        \/ /\ conn[t.conn].pc # "done"
           /\ \E status \in {"successful", "failed"} :
                  conn' = [conn EXCEPT ![t.conn].receipt = status]
    BY Zenon DEF Mine
  <2> QED
    BY <2>1, <2>2, <2>3
<1>5. UNCHANGED <<rcds, dev, faults>>
  BY DEF Mine
<1> HIDE DEF t
<1> QED
  BY <1>2, <1>3, <1>4, <1>5, Unchanged, PartsNext

LEMMA HandlerPInv ==
    ASSUME PInv, NEW c \in Conns, HandleRCD(c) \/ RegisterLost(c) PROVE PInv'
<1> USE DEF ConnPcs, Calls
<1> DEFINE device == conn[c].device
<1>0. device \in Rcds /\ rcds[device].registered \in BOOLEAN /\ rcds[device].currentIndex \in Nat
  BY ConnFields, Parts DEF OwnerPart
<1>1. CASE Load(c)
  BY <1>1, GotoPInv DEF Load
<1>2. CASE RegisterSubmit(c)
  BY <1>2, GotoPInv DEF RegisterSubmit
<1>3. CASE RegisterFails(c)
  BY <1>3, SubmitFailsPInv DEF RegisterFails
<1>4. CASE RegisterReverted(c)
  <2>1. ConnPart'
    BY <1>4, DoneConn DEF RegisterReverted, ConnPart
  <2> QED
    BY <1>4, <2>1, Unchanged, PartsNext DEF RegisterReverted
<1>5. CASE Registered(c)
  <2>1. ConnPart'
    BY <1>5, GotoConn DEF Registered, ConnPart
  <2>2. OwnerPart'
    <3>1. OwnerPart
      BY Parts
    <3>2. rcds' = [rcds EXCEPT ![device].registered = TRUE, ![device].currentIndex = 0]
      BY <1>5 DEF Registered
    <3> QED
      BY <1>0, <3>1, <3>2 DEF OwnerPart
  <2> QED
    BY <1>5, <2>1, <2>2, Unchanged, PartsNext DEF Registered
<1>6. CASE NextIndex(c)
  <2>1. rcds[device].currentIndex + 1 \in Index
    BY <1>0, <1>6, ContractAssumption DEF NextIndex, Index
  <2>2. ConnPart'
    BY <1>6, <2>1, IndexIsNat, IndexConn DEF NextIndex, ConnPart
  <2> QED
    BY <1>6, <2>2, Unchanged, PartsNext DEF NextIndex
<1>7. CASE StoreKeySubmit(c)
  BY <1>7, GotoPInv DEF StoreKeySubmit
<1>8. CASE StoreKeyFails(c)
  BY <1>8, SubmitFailsPInv DEF StoreKeyFails
<1>9. CASE StoreKeyMined(c)
  BY <1>9, GotoPInv DEF StoreKeyMined
<1>10. CASE ChangeSubmit(c)
  BY <1>10, GotoPInv DEF ChangeSubmit
<1>11. CASE ChangeFails(c)
  BY <1>11, SubmitFailsPInv DEF ChangeFails
<1>12. CASE ChangeMined(c)
  BY <1>12, GotoPInv DEF ChangeMined
<1>13. CASE UpdateRead(c)
  <2>1. rcds[device].currentIndex + 1 \in Nat /\ conn[c].pc = "update"
    BY <1>0, <1>13 DEF UpdateRead
  <2>2. ConnPart'
    BY <1>13, <2>1, IndexConn DEF UpdateRead, ConnPart
  <2> QED
    BY <1>13, <2>2, Unchanged, PartsNext DEF UpdateRead
<1>14. CASE UpdateWrite(c)
  <2>1. ConnPart'
    BY <1>14, GotoConn DEF UpdateWrite, ConnPart
  <2>2. OwnerPart'
    BY <1>14, <1>0, ConnFields, Parts DEF UpdateWrite, OwnerPart
  <2> QED
    BY <1>14, <2>1, <2>2, Unchanged, PartsNext DEF UpdateWrite
<1>15. CASE SendChain(c)
  <2>1. ConnPart'
    BY <1>15, DoneConn DEF SendChain, ConnPart
  <2>2. DevPart'
    <3>1. CASE dev' = dev
      BY <3>1, Unchanged
    <3>2. CASE dev' # dev
      <4> DEFINE new == [pc |-> "idle", attempt |-> 0, slot |-> 0, conn |-> NoConn,
                         chain |-> c, start |-> dev[device].slot]
      <4>1. dev' = [dev EXCEPT ![device] = new]
        BY <1>15, <3>2 DEF SendChain
      <4>2. new \in DevRecords /\ new.pc = "idle"
        BY <1>0, DevFields, IndexIsNat, ProvisioningAssumption DEF DevRecords
      <4> HIDE DEF new, device
      <4> QED
        BY <1>0, <4>1, <4>2, DevUpdate
    <3> QED
      BY <3>1, <3>2
  <2> QED
    BY <1>15, <2>1, <2>2, Unchanged, PartsNext DEF SendChain
<1>16. CASE RegisterLost(c)
  <2>1. ConnPart' /\ FaultsPart'
    BY <1>16, DoneConn, LosesFaults DEF RegisterLost, ConnPart
  <2> QED
    BY <1>16, <2>1, Unchanged, PartsNext DEF RegisterLost
<1> QED
  BY <1>1, <1>2, <1>3, <1>4, <1>5, <1>6, <1>7, <1>8, <1>9, <1>10, <1>11, <1>12, <1>13,
     <1>14, <1>15, <1>16 DEF HandleRCD

LEMMA AnotherPInv == ASSUME PInv, NEW r \in Rcds, ChangedByAnother(r) PROVE PInv'
<1>1. ContractPart'
  BY ChangeCurrentIndexEffect, Parts DEF ChangedByAnother, ContractPart, TypeOK
<1>2. FaultsPart'
  BY Parts DEF ChangedByAnother, FaultsPart
<1> QED
  BY <1>1, <1>2, Unchanged, PartsNext DEF ChangedByAnother

LEMMA NextPInv == PInv /\ [PNext]_pvars => PInv'
<1> SUFFICES ASSUME PInv, [PNext]_pvars PROVE PInv'
  OBVIOUS
<1>1. CASE NewBlock /\ UNCHANGED <<rcds, conn, pool, dev, faults>>
  <2>1. ContractPart'
    BY <1>1, Parts, ContractAssumption DEF ContractPart, NewBlock, TypeOK, Blocks
  <2> QED
    BY <1>1, <2>1, Unchanged, PartsNext
<1>2. CASE UNCHANGED pvars
  BY <1>2, Unchanged, PartsNext DEF pvars
<1> QED
  BY <1>1, <1>2, DevicePInv, AnotherPInv, MinePInv, HandlerPInv DEF PNext

-----------------------------------------------------------------------------
\* The types of the whole hold in every reachable state: no step calls the contract with
\* an index or a window outside its bounds.
THEOREM ProvisioningTypeOK == PSpec => []PTypeOK
<1>1. PInv => PTypeOK
  BY DEF PInv
<1> QED
  BY <1>1, InitPInv, NextPInv, PTL DEF PSpec

\* The devices, the owner and the manager drive the contract through its functions
\* only: seen through the registry and the block number, Provisioning is InfTESLA.
THEOREM ProvisioningImplementsContract == PSpec => Spec
<1>1. PInit => Init
  BY DEF PInit
<1>2. PInv /\ [PNext]_pvars => [Next]_vars
  BY StepIsContractStep
<1> QED
  BY <1>1, <1>2, InitPInv, NextPInv, PTL DEF PSpec, Spec

\* A receiver may keep the first hash it read with getKey: through retries, overlapping
\* handlers and timeouts, no chain that is or was current changes.
THEOREM ProvisioningFreezesActiveChains == PSpec => ActiveChainsFrozen
  BY ProvisioningImplementsContract, ContractFreezesActiveChains
===============================================================================
