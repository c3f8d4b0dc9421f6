--------------------------- MODULE RcdSenderProofs ---------------------------
(***************************************************************************)
(* Theorems about RcdSender for every value of the constants: what holds   *)
(* in both modes.  The ones of deterministic mode are in                   *)
(* RcdSenderSourceProofs.                                                  *)
(*                                                                         *)
(* Types first.  KeyTracksSlot is not inductive by itself: KeyInv adds     *)
(* that whoever is inside CurrentSlotKey holds chainMutex (MutexHeld), so  *)
(* that its writes are not interleaved with another's, and what the steps  *)
(* inside rely on (ChainReady): keys are advanced only along a chain, and  *)
(* a chain is asked for with a slot that does not read as "none".  Steps   *)
(* are then of two kinds, those of CurrentSlotKey and those that leave the *)
(* chain and the lock alone (Outside).                                     *)
(*                                                                         *)
(* SlotInv relates the slots that goroutines have read to the slots of the *)
(* keys they use: a chain is asked for when the last one received is over  *)
(* (ChainsSpent), so chains do not overlap (ChainsInOrder) and the slot of *)
(* the cached key never goes back (CacheAdvances), and whoever uses the    *)
(* key through its alias has one for the slot it was given or a later one  *)
(* (ReadKeys).                                                             *)
(*                                                                         *)
(* MessageInv follows the messages: each is in one place (Custody), its    *)
(* data packet names a slot not after the one its key is looked up for     *)
(* (DataBefore), a batch's label is over before that (LabelsPast), and     *)
(* disclosures wait for the slot that their HMAC's label gives             *)
(* (QueueLabelled).  AllKept says where a message can be at all.           *)
(***************************************************************************)
EXTENDS RcdSender, TLAPS

-----------------------------------------------------------------------------
(* Type correctness.                                                         *)

LEMMA KeyTypes ==
    /\ ZeroKey \in Keys /\ TornKey \in Keys
    /\ \A l \in Linear(Nat) : NextHash(l) \in Keys /\ AfterNext(l) \in Linear(Nat)
    /\ \A c, n \in Nat : NewLinear(c, n) \in Linear(Nat)
  BY DEF ZeroKey, TornKey, KeyOf, Keys, Key, Linear, NextHash, AfterNext, NewLinear

\* The chain comes over the wire as the owner made it.
LEMMA ReceivedIsNew == \A c \in Nat : ReceivedChain(c) = NewLinear(c, ChainLen)
<1> SUFFICES ASSUME NEW c \in Nat PROVE ReceivedChain(c) = NewLinear(c, ChainLen)
  OBVIOUS
<1> DEFINE w == Written(NewLinear(c, ChainLen))
<1>1. \A i \in 0..ChainLen : w[i] = KeyOf(c, i)
  BY SenderAssumption DEF Written, NewLinear, First
<1> HIDE DEF w
<1>2. VerifyChain(w, ChainLen)
  <2> SUFFICES ASSUME NEW i \in 0..(ChainLen - 1) PROVE w[i] = Hash(w[i + 1])
    BY DEF VerifyChain
  <2>1. i \in 0..ChainLen /\ i + 1 \in 0..ChainLen
    BY SenderAssumption
  <2>2. w[i] = KeyOf(c, i) /\ w[i + 1] = KeyOf(c, i + 1)
    BY <1>1, <2>1
  <2> QED
    BY <2>2 DEF Hash, KeyOf
<1>3. w[0].chain = c
  <2>1. 0 \in 0..ChainLen
    BY SenderAssumption
  <2>2. w[0] = KeyOf(c, 0)
    BY <1>1, <2>1
  <2> QED
    BY <2>2 DEF KeyOf
<1> QED
  BY <1>2, <1>3 DEF ReceivedChain, NewLinearFromExisting, w

LEMMA SlotTypes ==
    /\ \A s \in Slots : s \in Nat /\ Pred(s) \in UintSlots /\ s \in UintSlots
    /\ 0 \in Slots /\ 1..MaxSlot \subseteq Slots
    /\ \A s \in Int : s % SlotModulus \in UintSlots
<1>1. \A s \in Int : s % SlotModulus \in UintSlots
  BY SenderAssumption DEF UintSlots
<1> QED
  BY <1>1, SenderAssumption DEF Slots, UintSlots, Pred

LEMMA UintExact == \A n \in UintSlots : n % SlotModulus = n
  BY SenderAssumption DEF UintSlots

LEMMA NoCallType == NoCall \in Calls
  BY KeyTypes, SlotTypes DEF NoCall, Calls

LEMMA InitTypeOK == Init => TypeOK
<1> SUFFICES ASSUME Init PROVE TypeOK
  OBVIOUS
<1>1. NoLinear \in Linear(Nat)
  BY DEF NoLinear, Linear
<1>2. call \in [Procs -> Calls]
  BY NoCallType DEF Init
<1>3. pc \in [Procs -> Pcs]
  BY DEF Init, Pcs, NextIdle
<1>4. ticks \in [Tickers -> TickerStates]
  BY SlotTypes DEF Init, TickerStates
<1>5. worker \in WorkerStates
  BY SlotTypes DEF Init, WorkerStates
<1>6. issued \in Seq(Slots) /\ disclosureQueue \in Seq(Disclosures) /\ pending \in Seq(Disclosures)
  BY DEF Init
<1>7. slot \in 1..MaxSlot /\ messageCounter \in 0..MaxMsgs
  BY SenderAssumption DEF Init
<1> QED
  BY <1>1, <1>2, <1>3, <1>4, <1>5, <1>6, <1>7, KeyTypes, SlotTypes DEF Init, TypeOK

LEMMA EnvironmentTypeOK == TypeOK /\ Environment => TypeOK'
<1> SUFFICES ASSUME TypeOK, Environment PROVE TypeOK'
  OBVIOUS
<1> USE DEF TypeOK, chainVars, workerVars, wireVars, envVars
<1>1. CASE NewBlock
  <2>1. ticks' \in [Tickers -> TickerStates]
    BY <1>1 DEF NewBlock, TickerStates
  <2>2. slot' \in 1..MaxSlot
    BY <1>1, SenderAssumption DEF NewBlock
  <2> QED
    BY <1>1, <2>1, <2>2 DEF NewBlock
<1>2. CASE Shutdown
  BY <1>2 DEF Shutdown
<1>3. ASSUME NEW t \in Tickers, Poll(t) PROVE TypeOK'
  <2>1. ticks' \in [Tickers -> TickerStates]
    BY <1>3, SlotTypes DEF Poll, TickerStates
  <2> QED
    BY <1>3, <2>1 DEF Poll
<1>4. ASSUME NEW t \in Tickers, TickerExit(t) PROVE TypeOK'
  <2>1. ticks' \in [Tickers -> TickerStates]
    BY <1>4, SlotTypes DEF TickerExit, TickerStates
  <2> QED
    BY <1>4, <2>1 DEF TickerExit
<1> QED
  BY <1>1, <1>2, <1>3, <1>4 DEF Environment

LEMMA ReceivedType ==
    ASSUME TypeOK, NEW t \in Tickers
    PROVE  Received(t) \in [Tickers -> TickerStates]
<1> DEFINE new == ticks[t].out # slot
<1>1. new \in BOOLEAN
  OBVIOUS
<1>2. Received(t) = [ticks EXCEPT ![t].out = 0, ![t].changed = new]
  BY DEF Received
<1> HIDE DEF new
<1>3. [ticks[t] EXCEPT !.out = 0, !.changed = new] \in TickerStates
  BY <1>1, SlotTypes DEF TypeOK, TickerStates
<1> QED
  BY <1>2, <1>3 DEF TypeOK

LEMMA LoopTypeOK == TypeOK /\ BroadcastLoop => TypeOK'
<1> SUFFICES ASSUME TypeOK, BroadcastLoop PROVE TypeOK'
  OBVIOUS
<1> USE DEF TypeOK, chainVars, workerVars, wireVars, envVars
<1>1. CASE LoopTraffic
  <2>1. {messageCounter} \in SUBSET Msgs /\ messageCounter' \in 0..MaxMsgs
    <3>1. /\ messageCounter \in 0..MaxMsgs /\ messageCounter < MaxMsgs
          /\ messageCounter' = messageCounter + 1
      BY <1>1 DEF LoopTraffic
    <3>2. MaxMsgs \in Nat
      BY SenderAssumption
    <3> HIDE DEF TypeOK
    <3> QED
      BY <3>1, <3>2 DEF Msgs
  <2>2. call' \in [Procs -> Calls]
    <3>1. /\ call \in [Procs -> Calls]
          /\ call' = [call EXCEPT ![Loop].data = {messageCounter}, ![Loop].after = "data"]
      BY <1>1 DEF LoopTraffic
    <3> HIDE DEF TypeOK
    <3> QED
      BY <2>1, <3>1 DEF Calls
  <2>3. pc' \in [Procs -> Pcs]
    BY <1>1 DEF LoopTraffic, Pcs
  <2> QED
    BY <1>1, <2>1, <2>2, <2>3 DEF LoopTraffic
<1>2. ASSUME NEW s \in Slots, SpawnFlush(s)
      PROVE  pc' \in [Procs -> Pcs] /\ call' \in [Procs -> Calls]
  <2>1. pc' \in [Procs -> Pcs]
    BY <1>2 DEF SpawnFlush, Pcs
  <2>2. PICK f \in Flushers : call' = [call EXCEPT ![f].slot = Pred(s)]
    BY <1>2 DEF SpawnFlush
  <2>3. [call[f] EXCEPT !.slot = Pred(s)] \in Calls
    BY SlotTypes DEF Calls, Procs
  <2>4. call' \in [Procs -> Calls]
    BY <2>2, <2>3
  <2> QED
    BY <2>1, <2>4
<1>4. CASE LoopTick
  <2>1. ticks["loop"].out \in Slots
    BY <1>4 DEF LoopTick, TickerStates
  <2> QED
    BY <1>2, <1>4, <2>1, ReceivedType DEF LoopTick
<1>5. CASE LoopClosedTick
  BY <1>2, <1>5, SlotTypes DEF LoopClosedTick
<1>6. CASE LoopExit
  <2>1. pc' \in [Procs -> Pcs]
    BY <1>6 DEF LoopExit, Pcs
  <2> QED
    BY <1>6, <2>1 DEF LoopExit
<1> QED
  BY <1>1, <1>4, <1>5, <1>6 DEF BroadcastLoop

LEMMA ReturnTypes ==
    ASSUME TypeOK, NEW p \in Procs, Return(p)
    PROVE  pc' \in [Procs -> Pcs] /\ call' \in [Procs -> Calls]
<1>1. NextIdle(p) \in Pcs
  BY DEF NextIdle, Pcs
<1> QED
  BY <1>1, NoCallType DEF TypeOK, Return

LEMMA GiveUpTypes ==
    ASSUME TypeOK, NEW p \in Procs, GiveUp(p)
    PROVE  /\ pc' \in [Procs -> Pcs] /\ call' \in [Procs -> Calls]
           /\ lost' \in SUBSET Msgs
<1>1. call[p] \in Calls
  BY DEF TypeOK
<1>2. call[p].data \in SUBSET Msgs
  BY <1>1 DEF Calls
<1> QED
  BY <1>2, ReturnTypes DEF GiveUp, TypeOK

LEMMA CskTypeOK == ASSUME TypeOK, NEW p \in Procs, CurrentSlotKey(p) PROVE TypeOK'
<1> USE DEF TypeOK, chainVars, workerVars, wireVars, envVars
<1>1. /\ slot \in Slots /\ call[p].seen \in Slots /\ call[p] \in Calls
      /\ Append(issued, call[p].seen) \in Seq(Slots)
      /\ p \in Procs \union {NoOne}
  <2>1. slot \in Slots /\ call[p] \in Calls
    BY SlotTypes
  <2>2. call[p].seen \in Slots
    BY <2>1 DEF Calls
  <2> QED
    BY <2>1, <2>2
<1>2. \A s \in Slots : [call EXCEPT ![p].seen = s] \in [Procs -> Calls]
  BY DEF Calls
<1>3. \A x \in Pcs : [pc EXCEPT ![p] = x] \in [Procs -> Pcs]
  OBVIOUS
<1>4. {"top", "refill", "slot", "advance", "data", "mac"} \subseteq Pcs
  BY DEF Pcs, InCsk
<1>5. CASE CskEnter(p)
  BY <1>1, <1>3, <1>4, <1>5 DEF CskEnter
<1>6. CASE CskGetSlot(p)
  BY <1>1, <1>2, <1>3, <1>4, <1>6 DEF CskGetSlot
<1>7. CASE CskGetSlotAgain(p)
  BY <1>1, <1>2, <1>3, <1>4, <1>7 DEF CskGetSlotAgain
<1>8. CASE CskRefill(p)
  <2>1. Len(issued') \in Nat /\ issued' \in Seq(Slots)
    BY <1>1, <1>8 DEF CskRefill
  <2>2. ReceivedChain(Len(issued')) \in Linear(Nat)
    BY <2>1, KeyTypes, ReceivedIsNew, SenderAssumption
  <2>3. cachedKey' \in Keys /\ hashChain' \in Linear(Nat)
    BY <1>8, <2>2, KeyTypes DEF CskRefill
  <2> QED
    BY <1>1, <1>3, <1>4, <1>8, <2>1, <2>3 DEF CskRefill
<1>9. ASSUME Abort(p) PROVE TypeOK'
  BY <1>9, GiveUpTypes DEF Abort, GiveUp
<1>10. CASE CskRefillRefused(p)
  BY <1>9, <1>10 DEF CskRefillRefused
<1>12. CASE CskGetSlotFails(p)
  BY <1>9, <1>12 DEF CskGetSlotFails
<1>13. CASE CskNext(p)
  <2>1. cachedKeySlot + 1 \in Slots
    BY <1>1, <1>13, SenderAssumption DEF CskNext, Behind, Slots
  <2> QED
    BY <1>13, <2>1, KeyTypes DEF CskNext
<1>14. CASE CskExhausted(p)
  BY <1>3, <1>4, <1>14, SlotTypes DEF CskExhausted
<1>15. CASE CskReturn(p)
  <2>1. call[p].after \in Pcs
    BY <1>1, <1>4 DEF Calls
  <2> QED
    BY <1>1, <1>2, <1>3, <1>15, <2>1 DEF CskReturn
<1> QED
  BY <1>5, <1>6, <1>7, <1>8, <1>10, <1>12, <1>13, <1>14, <1>15 DEF CurrentSlotKey

LEMMA BroadcastingTypeOK == ASSUME TypeOK, NEW p \in Procs, Broadcasting(p) PROVE TypeOK'
<1> USE DEF TypeOK, chainVars, workerVars, wireVars, envVars
<1>1. /\ call[p] \in Calls /\ call[p].seen \in Slots /\ call[p].data \in SUBSET Msgs
      /\ call[p].key \in Keys /\ call[p].slot \in UintSlots
  BY DEF Calls
<1>2. /\ Label(p) \in UintSlots /\ TargetSlot(p) \in UintSlots
  <2>1. Label(p) \in UintSlots
    BY <1>1, SlotTypes DEF Label
  <2>2. Label(p) + DisclosureDelay \in Int
    BY <2>1, SenderAssumption DEF UintSlots
  <2> QED
    BY <2>1, <2>2, SlotTypes DEF TargetSlot
<1>3. \A x \in Pcs : [pc EXCEPT ![p] = x] \in [Procs -> Pcs]
  OBVIOUS
<1>4. {"buffer", "csk", "hmac", "enqueue"} \subseteq Pcs
  BY DEF Pcs
<1>5. CASE SendData(p)
  <2>1. [slot |-> call[p].seen, data |-> call[p].data] \in DataPackets
    BY <1>1 DEF DataPackets
  <2>2. [call EXCEPT ![p].after = "mac"] \in [Procs -> Calls]
    BY DEF Calls
  <2> QED
    BY <1>3, <1>4, <1>5, <2>1, <2>2 DEF SendData
<1>6. CASE BufferForBatch(p)
  BY <1>1, <1>6, ReturnTypes DEF BufferForBatch
<1>7. CASE FlushTake(p)
  <2>1. [call EXCEPT ![p].data = messageBuffer] \in [Procs -> Calls]
    BY DEF Calls
  <2>2. CASE messageBuffer = {}
    BY <1>7, <2>2, ReturnTypes DEF FlushTake
  <2>3. CASE messageBuffer # {}
    BY <1>3, <1>4, <1>7, <2>1, <2>3 DEF FlushTake
  <2> QED
    BY <2>2, <2>3
<1>8. \A k \in KeyReads(p) : k \in Keys
  BY KeyTypes DEF KeyReads
<1>9. CASE ComputeHmac(p)
  <2>1. \A k \in Keys : [call EXCEPT ![p].key = k] \in [Procs -> Calls]
    BY DEF Calls
  <2> QED
    BY <1>3, <1>4, <1>8, <1>9, <2>1 DEF ComputeHmac
<1>10. CASE SendHmac(p)
  <2>1. [slot |-> Label(p), key |-> call[p].key, data |-> call[p].data] \in HmacPackets
    BY <1>1, <1>2 DEF HmacPackets
  <2> QED
    BY <1>3, <1>4, <1>10, <2>1 DEF SendHmac
<1>11. CASE Enqueue(p)
  <2>1. \A k \in KeyReads(p) :
          [key |-> k, data |-> call[p].data, target |-> TargetSlot(p)] \in Disclosures
    BY <1>1, <1>2, <1>8 DEF Disclosures
  <2>3. CASE Len(disclosureQueue) < QueueCap
    <3>1. \E k \in KeyReads(p) :
            disclosureQueue' = Append(disclosureQueue,
                [key |-> k, data |-> call[p].data, target |-> TargetSlot(p)])
      BY <1>11, <2>3 DEF Enqueue
    <3>2. disclosureQueue' \in Seq(Disclosures)
      BY <2>1, <3>1
    <3> QED
      BY <1>11, <2>3, <3>2, ReturnTypes DEF Enqueue
  <2>4. CASE ~(Len(disclosureQueue) < QueueCap)
    BY <1>11, <2>4, GiveUpTypes DEF Enqueue
  <2> QED
    BY <2>3, <2>4
<1>12. CASE BroadcastFails(p)
  BY <1>12, GiveUpTypes DEF BroadcastFails
<1> QED
  BY <1>5, <1>6, <1>7, <1>9, <1>10, <1>11, <1>12 DEF Broadcasting

LEMMA WorkerTypeOK == TypeOK /\ DisclosureWorker => TypeOK'
<1> SUFFICES ASSUME TypeOK, DisclosureWorker PROVE TypeOK'
  OBVIOUS
<1> USE DEF TypeOK, chainVars, workerVars, wireVars, envVars
<1>1. ASSUME NEW s \in Slots, Drain(s), ticks' \in [Tickers -> TickerStates] PROVE TypeOK'
  <2>1. [pc |-> "send", slot |-> s] \in WorkerStates
    BY DEF WorkerStates
  <2>2. pending \o disclosureQueue \in Seq(Disclosures)
    OBVIOUS
  <2> QED
    BY <1>1, <2>1, <2>2 DEF Drain
<1>2. CASE WorkerTick
  <2>1. "worker" \in Tickers
    BY DEF Tickers
  <2>2. ticks["worker"].out \in Slots
    BY <2>1 DEF TickerStates
  <2> QED
    BY <1>1, <1>2, <2>1, <2>2, ReceivedType DEF WorkerTick
<1>3. CASE WorkerClosedTick
  BY <1>1, <1>3, SlotTypes DEF WorkerClosedTick
<1>4. CASE WorkerSend
  <2>1. Head(pending) \in Disclosures /\ Tail(pending) \in Seq(Disclosures)
    BY <1>4 DEF WorkerSend, Ready
  <2>2. [slot |-> worker.slot, key |-> Head(pending).key, data |-> Head(pending).data]
          \in KeyPackets
    BY <2>1 DEF KeyPackets, Disclosures, WorkerStates
  <2>3. keyWire' \in SUBSET KeyPackets
    BY <1>4, <2>2 DEF WorkerSend
  <2>4. lost' \in SUBSET Msgs
    <3>1. Head(pending).data \in SUBSET Msgs
      BY <2>1 DEF Disclosures
    <3> QED
      BY <1>4, <3>1 DEF WorkerSend
  <2> QED
    BY <1>4, <2>1, <2>3, <2>4 DEF WorkerSend
<1>5. CASE WorkerScanned
  <2>1. [pc |-> "select", slot |-> 0] \in WorkerStates
    BY SlotTypes DEF WorkerStates
  <2> QED
    BY <1>5, <2>1 DEF WorkerScanned
<1>6. CASE WorkerExit
  <2>1. [worker EXCEPT !.pc = "done"] \in WorkerStates
    BY DEF WorkerStates
  <2> QED
    BY <1>6, <2>1 DEF WorkerExit
<1> QED
  BY <1>2, <1>3, <1>4, <1>5, <1>6 DEF DisclosureWorker

LEMMA NextTypeOK == TypeOK /\ [Next]_vars => TypeOK'
<1>1. TypeOK /\ UNCHANGED vars => TypeOK'
  BY DEF TypeOK, vars
<1>2. TypeOK /\ CleanupExit => TypeOK'
  BY DEF CleanupExit, TypeOK, chainVars, wireVars, envVars
<1> QED
  BY <1>1, <1>2, EnvironmentTypeOK, LoopTypeOK, CskTypeOK, BroadcastingTypeOK, WorkerTypeOK
     DEF Next, Terminated

\* Types are kept, in both modes, for any chain length, delay, queue and bounds.
THEOREM SenderTypeOK == Spec => []TypeOK
  BY InitTypeOK, NextTypeOK, PTL DEF Spec

-----------------------------------------------------------------------------
(* The cached key, under chainMutex.                                         *)

\* Whoever is inside CurrentSlotKey holds the lock.
MutexHeld == \A p \in Procs : pc[p] \in InCsk => chainMutex = p

\* Inside, the chain is asked for with a slot that is not 0 (which would read as "no
\* chain"), and keys are advanced only when there is one.
ChainReady ==
    /\ \A p \in Procs : pc[p] = "refill" => call[p].seen # 0
    /\ \A p \in Procs : pc[p] \in {"slot", "advance"} => ~NeedsChain

KeyInv == TypeOK /\ MutexHeld /\ ChainReady /\ KeyTracksSlot

\* Steps outside CurrentSlotKey: the chain is not touched and nobody enters or leaves
\* the critical section.
Outside ==
    /\ UNCHANGED <<chainVars, chainMutex>>
    /\ \A p \in Procs : pc'[p] # pc[p] \/ call'[p] # call[p] =>
           pc[p] \notin InCsk /\ pc'[p] \notin InCsk

LEMMA ReturnOutside ==
    ASSUME TypeOK, NEW p \in Procs, Return(p)
    PROVE  /\ pc'[p] \notin InCsk
           /\ \A q \in Procs \ {p} : pc'[q] = pc[q] /\ call'[q] = call[q]
  BY DEF Return, NextIdle, InCsk, TypeOK

LEMMA OutsideSteps ==
    ASSUME TypeOK,
           \/ Environment \/ BroadcastLoop \/ DisclosureWorker \/ CleanupExit
           \/ Terminated \/ UNCHANGED vars
           \/ \E p \in Procs : Broadcasting(p)
    PROVE  Outside
<1> USE DEF Outside, chainVars, wireVars, workerVars, envVars
<1>1. CASE Environment
  BY <1>1 DEF Environment, NewBlock, Shutdown, Poll, TickerExit
<1>2. CASE BroadcastLoop
  <2>1. ASSUME NEW s \in Slots, SpawnFlush(s)
        PROVE  \A p \in Procs : pc'[p] # pc[p] \/ call'[p] # call[p] =>
                  pc[p] \notin InCsk /\ pc'[p] \notin InCsk
    BY <2>1 DEF SpawnFlush, Procs, InCsk, TypeOK
  <2>2. CASE LoopTraffic
    BY <2>2 DEF LoopTraffic, InCsk, TypeOK
  <2>3. CASE LoopTick
    <3>1. ticks["loop"].out \in Slots
      BY <2>3 DEF LoopTick, TypeOK, TickerStates
    <3> QED
      BY <2>1, <2>3, <3>1 DEF LoopTick
  <2>4. CASE LoopClosedTick
    BY <2>1, <2>4, SlotTypes DEF LoopClosedTick
  <2>5. CASE LoopExit
    BY <2>5 DEF LoopExit, InCsk, TypeOK
  <2> QED
    BY <1>2, <2>2, <2>3, <2>4, <2>5 DEF BroadcastLoop
<1>3. CASE DisclosureWorker
  BY <1>3 DEF DisclosureWorker, WorkerTick, WorkerClosedTick, Drain, WorkerSend,
              WorkerScanned, WorkerExit
<1>4. CASE CleanupExit \/ Terminated \/ UNCHANGED vars
  BY <1>4 DEF CleanupExit, Terminated, vars
<1>5. ASSUME NEW p \in Procs, Broadcasting(p) PROVE Outside
  <2>1. CASE SendData(p)
    BY <2>1 DEF SendData, InCsk, TypeOK
  <2>2. CASE BufferForBatch(p)
    BY <2>2, ReturnOutside DEF BufferForBatch, InCsk
  <2>3. CASE FlushTake(p)
    <3>1. CASE messageBuffer = {}
      BY <2>3, <3>1, ReturnOutside DEF FlushTake, InCsk
    <3>2. CASE messageBuffer # {}
      BY <2>3, <3>2 DEF FlushTake, InCsk, TypeOK
    <3> QED
      BY <3>1, <3>2
  <2>4. CASE ComputeHmac(p)
    BY <2>4 DEF ComputeHmac, InCsk, TypeOK
  <2>5. CASE SendHmac(p)
    BY <2>5 DEF SendHmac, InCsk, TypeOK
  <2>6. CASE Enqueue(p) \/ BroadcastFails(p)
    <3>1. Return(p) /\ pc[p] \notin InCsk /\ UNCHANGED <<chainVars, chainMutex>>
      BY <2>6 DEF Enqueue, BroadcastFails, GiveUp, InCsk
    <3> QED
      BY <3>1, ReturnOutside
  <2> QED
    BY <1>5, <2>1, <2>2, <2>3, <2>4, <2>5, <2>6 DEF Broadcasting
<1> QED
  BY <1>1, <1>2, <1>3, <1>4, <1>5

LEMMA OutsideKeepsKey == ASSUME KeyInv, Outside PROVE (MutexHeld /\ ChainReady /\ KeyTracksSlot)'
<1> USE DEF Outside, chainVars
<1>1. MutexHeld'
  BY DEF KeyInv, MutexHeld
<1>2. ChainReady'
  BY DEF KeyInv, ChainReady, NeedsChain, InCsk
<1>3. KeyTracksSlot'
  BY DEF KeyInv, KeyTracksSlot, NeedsChain, Genuine, SlotOf
<1> QED
  BY <1>1, <1>2, <1>3

\* A chain received later leaves every genuine key as it was.
LEMMA RegistrationKeepsKeys ==
    ASSUME TypeOK, NEW s \in Slots, issued' = Append(issued, s), NEW k \in Keys, Genuine(k)
    PROVE  Genuine(k)' /\ SlotOf(k)' = SlotOf(k)
<1>1. Len(issued') = Len(issued) + 1 /\ \A i \in 1..Len(issued) : issued'[i] = issued[i]
  BY DEF TypeOK
<1> QED
  BY <1>1 DEF Genuine, SlotOf, TypeOK

LEMMA CskMoves ==
    ASSUME TypeOK, NEW p \in Procs, CurrentSlotKey(p)
    PROVE  \A q \in Procs \ {p} : pc'[q] = pc[q] /\ call'[q] = call[q]
  BY DEF CurrentSlotKey, CskEnter, CskGetSlot, CskGetSlotAgain, CskGetSlotFails, CskRefill,
         CskRefillRefused, CskNext, CskExhausted, CskReturn, Abort, GiveUp, Return, TypeOK

LEMMA CskKeepsMutex ==
    ASSUME KeyInv, NEW p \in Procs, CurrentSlotKey(p)
    PROVE  MutexHeld'
<1> SUFFICES ASSUME NEW q \in Procs, pc'[q] \in InCsk PROVE chainMutex' = q
  BY DEF MutexHeld
<1> USE DEF KeyInv, TypeOK
<1>0. NoOne \notin Procs
  BY SenderAssumption DEF NoOne, Procs
<1>1. CASE CskEnter(p)
  BY <1>0, <1>1, CskMoves DEF CskEnter, MutexHeld
<1>2. ASSUME Abort(p), pc[p] \in InCsk PROVE chainMutex' = q
  BY <1>2, CskMoves DEF Abort, GiveUp, Return, NextIdle, InCsk, MutexHeld
<1>3. CASE CskReturn(p)
  <2>1. call[p].after \notin InCsk
    BY DEF Calls, InCsk
  <2> QED
    BY <1>3, <2>1, CskMoves DEF CskReturn, InCsk, MutexHeld
<1>4. CASE \/ CskGetSlot(p) \/ CskGetSlotAgain(p) \/ CskRefill(p) \/ CskNext(p) \/ CskExhausted(p)
  <2>1. pc[p] \in InCsk /\ chainMutex' = chainMutex
    BY <1>4 DEF CskGetSlot, CskGetSlotAgain, CskRefill, CskNext, CskExhausted, InCsk
  <2> QED
    BY <2>1, CskMoves DEF MutexHeld
<1> QED
  BY <1>1, <1>2, <1>3, <1>4
     DEF CurrentSlotKey, CskGetSlotFails, CskRefillRefused, InCsk

LEMMA CskKeepsKey ==
    ASSUME KeyInv, NEW p \in Procs, CurrentSlotKey(p)
    PROVE  ChainReady' /\ KeyTracksSlot'
<1> USE DEF KeyInv
<1>1. \A q \in Procs \ {p} : pc[p] \in InCsk => pc[q] \notin InCsk
  BY DEF MutexHeld
<1>2. /\ \A q \in Procs \ {p} : pc'[q] = pc[q] /\ call'[q] = call[q]
      /\ call[p].seen \in Slots /\ call[p] \in Calls /\ slot # 0
  <2>1. call[p] \in Calls /\ slot # 0
    BY DEF TypeOK
  <2>2. call[p].seen \in Slots
    BY <2>1 DEF Calls
  <2> QED
    BY <2>1, <2>2, CskMoves
<1>3. CASE /\ UNCHANGED <<chainVars>> /\ pc'[p] \notin InCsk \union {"refill"}
  <2>1. ChainReady'
    BY <1>2, <1>3 DEF ChainReady, NeedsChain, chainVars, InCsk
  <2> QED
    BY <1>3, <2>1 DEF KeyTracksSlot, NeedsChain, Genuine, SlotOf, chainVars
<1>4. CASE CskEnter(p)
  <2>1. pc'[p] = "top" /\ UNCHANGED <<chainVars>>
    BY <1>4 DEF CskEnter, TypeOK
  <2> QED
    BY <1>2, <2>1 DEF ChainReady, NeedsChain, KeyTracksSlot, Genuine, SlotOf, chainVars
<1>5. CASE CskGetSlot(p)
  <2>1. /\ UNCHANGED <<chainVars>>
        /\ pc'[p] = IF NeedsChain THEN "refill" ELSE "advance"
        /\ call'[p].seen = slot
    BY <1>5 DEF CskGetSlot, TypeOK, Calls
  <2> QED
    BY <1>2, <2>1 DEF ChainReady, NeedsChain, KeyTracksSlot, Genuine, SlotOf, chainVars
<1>6. CASE CskGetSlotAgain(p)
  <2>1. UNCHANGED <<chainVars>> /\ pc[p] = "slot" /\ pc'[p] = "advance"
    BY <1>6 DEF CskGetSlotAgain, TypeOK
  <2> QED
    BY <1>2, <2>1 DEF ChainReady, NeedsChain, KeyTracksSlot, Genuine, SlotOf, chainVars
<1>7. CASE CskReturn(p)
  <2>1. UNCHANGED <<chainVars>> /\ pc'[p] \in {"data", "mac"}
    BY <1>2, <1>7 DEF CskReturn, TypeOK, Calls
  <2> QED
    BY <1>3, <2>1 DEF InCsk
<1>8. ASSUME Abort(p) PROVE ChainReady' /\ KeyTracksSlot'
  <2>1. UNCHANGED <<chainVars>> /\ pc'[p] \in {"select", "idle"}
    BY <1>8 DEF Abort, GiveUp, Return, NextIdle, TypeOK
  <2> QED
    BY <1>3, <2>1 DEF InCsk
<1>9. CASE CskRefill(p)
  <2> DEFINE n == Len(issued')
  <2>1. n = Len(issued) + 1 /\ n \in Nat \ {0} /\ issued'[n] = call[p].seen
    BY <1>2, <1>9 DEF CskRefill, TypeOK
  <2>2. /\ pc[p] = "refill" /\ pc'[p] = "slot" /\ cachedKeySlot' = call[p].seen
        /\ cachedKey' = KeyOf(n, 1)
        /\ hashChain' = [id |-> n, n |-> ChainLen, next |-> 2]
    <3>1. ReceivedChain(n) = NewLinear(n, ChainLen)
      BY <2>1, ReceivedIsNew
    <3> QED
      BY <1>9, <3>1 DEF CskRefill, TypeOK, NewLinear, NextHash, AfterNext
  <2> HIDE DEF n
  <2>3. hashChain' # NoLinear /\ cachedKeySlot' # 0
    BY <1>2, <2>1, <2>2 DEF NoLinear, ChainReady
  <2>4. ChainReady'
    BY <1>1, <1>2, <2>2, <2>3 DEF ChainReady, NeedsChain, InCsk
  <2>5. Genuine(cachedKey)'
    BY <2>1, <2>2 DEF Genuine, KeyOf, n
  <2>6. SlotOf(cachedKey)' = call[p].seen
    BY <1>2, <2>1, <2>2, SlotTypes DEF SlotOf, KeyOf, n
  <2> QED
    BY <2>2, <2>4, <2>5, <2>6 DEF KeyTracksSlot
<1>10. CASE CskNext(p)
  <2>1. /\ pc[p] = "advance" /\ pc' = pc /\ issued' = issued
        /\ cachedKey' = NextHash(hashChain) /\ hashChain' = AfterNext(hashChain)
        /\ cachedKeySlot' = cachedKeySlot + 1
    BY <1>10 DEF CskNext
  <2>2. ~NeedsChain /\ hashChain \in Linear(Nat) /\ cachedKeySlot \in Nat
    BY <2>1, SlotTypes DEF ChainReady, TypeOK
  <2>3. /\ cachedKey = KeyOf(hashChain.id, hashChain.next - 1) /\ Genuine(cachedKey)
        /\ cachedKeySlot = SlotOf(cachedKey)
    BY <2>2 DEF KeyTracksSlot
  <2>4. hashChain.id \in 1..Len(issued) /\ hashChain.next \in Nat
    BY <2>2, <2>3 DEF Genuine, KeyOf, Linear
  <2>5. cachedKey' = KeyOf(hashChain'.id, hashChain'.next - 1) /\ hashChain'.id = hashChain.id
    BY <2>1, <2>2, <2>4 DEF NextHash, AfterNext, KeyOf, Linear
  <2>6. Genuine(cachedKey)'
    BY <2>1, <2>4, <2>5 DEF Genuine, KeyOf
  <2>7. cachedKeySlot' = SlotOf(cachedKey)'
    <3>1. issued[hashChain.id] \in Int
      BY <2>4, SlotTypes DEF TypeOK
    <3> QED
      BY <2>1, <2>3, <2>4, <3>1 DEF SlotOf, KeyOf, NextHash
  <2>8. ~NeedsChain'
    <3>1. hashChain'.id # 0
      BY <2>4, <2>5
    <3> QED
      BY <2>1, <2>2, <3>1 DEF NeedsChain, NoLinear
  <2>9. ChainReady'
    BY <1>1, <1>2, <2>1, <2>8 DEF ChainReady, InCsk
  <2> QED
    BY <2>5, <2>6, <2>7, <2>9 DEF KeyTracksSlot
<1>11. CASE CskExhausted(p)
  <2>1. pc[p] = "advance" /\ pc'[p] = "top" /\ cachedKeySlot' = 0
    BY <1>11 DEF CskExhausted, TypeOK
  <2>2. ChainReady'
    BY <1>1, <1>2, <2>1 DEF ChainReady, InCsk
  <2> QED
    BY <2>1, <2>2 DEF KeyTracksSlot, NeedsChain
<1> QED
  BY <1>4, <1>5, <1>6, <1>7, <1>8, <1>9, <1>10, <1>11
     DEF CurrentSlotKey, CskGetSlotFails, CskRefillRefused

LEMMA InitKeyInv == Init => KeyInv
  BY InitTypeOK DEF Init, KeyInv, MutexHeld, ChainReady, KeyTracksSlot, NeedsChain, InCsk, NextIdle

LEMMA NextKeyInv == KeyInv /\ [Next]_vars => KeyInv'
<1> SUFFICES ASSUME KeyInv, [Next]_vars PROVE KeyInv'
  OBVIOUS
<1>1. TypeOK /\ TypeOK'
  BY NextTypeOK DEF KeyInv
<1>2. ASSUME NEW p \in Procs, CurrentSlotKey(p) PROVE KeyInv'
  BY <1>1, <1>2, CskKeepsMutex, CskKeepsKey DEF KeyInv
<1>3. CASE Outside
  BY <1>1, <1>3, OutsideKeepsKey DEF KeyInv
<1> QED
  BY <1>1, <1>2, <1>3, OutsideSteps DEF Next

\* The cached key, the cursor and the cached slot agree, for any number of flushers
\* racing the loop for the lock and any pattern of refills that fail.
THEOREM SenderKeyTracksSlot == Spec => []KeyTracksSlot
<1>1. KeyInv => KeyTracksSlot
  BY DEF KeyInv
<1> QED
  BY <1>1, InitKeyInv, NextKeyInv, PTL DEF Spec
-----------------------------------------------------------------------------
(* Steps, seen from outside CurrentSlotKey.                                  *)

\* Which step writes what.
LEMMA Writers ==
    ASSUME TypeOK, [Next]_vars
    PROVE  /\ issued' = issued \/ \E s \in Slots : issued' = Append(issued, s)
           /\ hmacWire' = hmacWire \/ \E p \in Procs : SendHmac(p)
           /\ keyWire' = keyWire \/ WorkerSend
           /\ \/ disclosureQueue' = disclosureQueue /\ pending' = pending
              \/ \E p \in Procs : Enqueue(p)
              \/ \E s \in Slots : Drain(s)
              \/ WorkerSend
           /\ slot' = slot \/ slot' = slot + 1
<1> USE DEF chainVars, workerVars, wireVars, envVars
<1>1. CASE Environment
  BY <1>1 DEF Environment, NewBlock, Shutdown, Poll, TickerExit
<1>2. CASE BroadcastLoop
  BY <1>2 DEF BroadcastLoop, LoopTraffic, LoopTick, LoopClosedTick, LoopExit
<1>3. ASSUME NEW p \in Procs, CurrentSlotKey(p) PROVE issued' = issued \/ \E s \in Slots : issued' = Append(issued, s)
  <2>1. call[p] \in Calls
    BY DEF TypeOK
  <2>2. call[p].seen \in Slots
    BY <2>1 DEF Calls
  <2> QED
    BY <1>3, <2>2 DEF CurrentSlotKey, CskEnter, CskGetSlot, CskGetSlotAgain, CskGetSlotFails,
       CskRefill, CskRefillRefused, CskNext, CskExhausted, CskReturn, Abort
<1>4. ASSUME NEW p \in Procs, CurrentSlotKey(p)
      PROVE  UNCHANGED <<slot, disclosureQueue, pending, hmacWire, keyWire>>
  BY <1>4 DEF CurrentSlotKey, CskEnter, CskGetSlot, CskGetSlotAgain, CskGetSlotFails,
     CskRefill, CskRefillRefused, CskNext, CskExhausted, CskReturn, Abort
<1>5. ASSUME NEW p \in Procs, Broadcasting(p)
      PROVE  /\ UNCHANGED <<slot, issued, pending, keyWire>>
             /\ hmacWire' = hmacWire \/ SendHmac(p)
             /\ disclosureQueue' = disclosureQueue \/ Enqueue(p)
  BY <1>5 DEF Broadcasting, SendData, BroadcastFails, BufferForBatch, FlushTake, ComputeHmac, SendHmac, Enqueue
<1>6. CASE DisclosureWorker
  <2>1. UNCHANGED <<slot, issued, hmacWire>>
    BY <1>6 DEF DisclosureWorker, WorkerTick, WorkerClosedTick, Drain, WorkerSend,
       WorkerScanned, WorkerExit
  <2>2. CASE WorkerTick
    <3>1. "worker" \in Tickers
      BY DEF Tickers
    <3>2. ticks["worker"].out \in Slots
      BY <3>1 DEF TypeOK, TickerStates
    <3> QED
      BY <2>1, <2>2, <3>2 DEF WorkerTick, Drain
  <2>3. CASE WorkerClosedTick
    BY <2>1, <2>3, SlotTypes DEF WorkerClosedTick, Drain
  <2> QED
    BY <1>6, <2>1, <2>2, <2>3 DEF DisclosureWorker, WorkerScanned, WorkerExit
<1>7. CASE CleanupExit \/ Terminated \/ UNCHANGED vars
  BY <1>7 DEF CleanupExit, Terminated, vars
<1> QED
  BY <1>1, <1>2, <1>3, <1>4, <1>5, <1>6, <1>7 DEF Next

\* A genuine key keeps its slot for ever.
LEMMA GenuineKeysKept ==
    ASSUME TypeOK, [Next]_vars, NEW k \in Keys, Genuine(k)
    PROVE  Genuine(k)' /\ SlotOf(k)' = SlotOf(k)
<1>1. CASE issued' = issued
  BY <1>1 DEF Genuine, SlotOf
<1>2. CASE \E s \in Slots : issued' = Append(issued, s)
  BY <1>2, RegistrationKeepsKeys
<1> QED
  BY <1>1, <1>2, Writers

\* A tick may be behind the latest slot, never ahead of it.
TicksPast == worker.slot <= slot /\ \A t \in Tickers : ticks[t].out <= slot

LEMMA NextTicksPast == TypeOK /\ TicksPast /\ [Next]_vars => TicksPast'
<1> SUFFICES ASSUME TypeOK, TicksPast, [Next]_vars PROVE TicksPast'
  OBVIOUS
<1> USE DEF TicksPast
<1>0. slot \in Nat /\ worker.slot \in Nat /\ \A t \in Tickers : ticks[t].out \in Nat
  <2>1. slot \in Nat
    BY DEF TypeOK
  <2>2. worker.slot \in Slots /\ \A t \in Tickers : ticks[t].out \in Slots
    BY DEF TypeOK, WorkerStates, TickerStates
  <2> QED
    BY <2>1, <2>2, SlotTypes
<1>1. CASE UNCHANGED <<worker, ticks>>
  BY <1>0, <1>1, Writers
<1>2. CASE NewBlock
  <2>1. \A t \in Tickers : ticks'[t].out = ticks[t].out
    BY <1>2 DEF NewBlock, TypeOK, TickerStates
  <2> QED
    BY <1>0, <1>2, <2>1 DEF NewBlock, workerVars
<1>3. ASSUME NEW t \in Tickers, Poll(t) \/ TickerExit(t) PROVE TicksPast'
  <2>1. \A u \in Tickers : ticks'[u].out \in {ticks[u].out, slot, 0}
    BY <1>3 DEF Poll, TickerExit, TypeOK, TickerStates
  <2> QED
    BY <1>0, <1>3, <2>1 DEF Poll, TickerExit, workerVars
<1>4. ASSUME NEW t \in Tickers, ticks' = Received(t)
      PROVE  \A u \in Tickers : ticks'[u].out \in {ticks[u].out, 0}
  BY <1>4 DEF Received, TypeOK, TickerStates
<1>5. CASE LoopTick
  BY <1>0, <1>4, <1>5 DEF LoopTick, workerVars
<1>6. CASE WorkerTick
  <2>1. "worker" \in Tickers
    BY DEF Tickers
  <2>2. worker'.slot = ticks["worker"].out /\ slot' = slot
    BY <1>6 DEF WorkerTick, Drain
  <2> QED
    BY <1>0, <1>4, <1>6, <2>1, <2>2 DEF WorkerTick
<1>7. CASE WorkerClosedTick \/ WorkerScanned \/ WorkerExit
  <2>1. worker'.slot \in {worker.slot, 0} /\ ticks' = ticks /\ slot' = slot
    BY <1>7 DEF WorkerClosedTick, Drain, WorkerScanned, WorkerExit, TypeOK, WorkerStates, envVars
  <2> QED
    BY <1>0, <2>1
<1>8. ASSUME NEW p \in Procs, CurrentSlotKey(p) \/ Broadcasting(p) PROVE UNCHANGED <<worker, ticks>>
  BY <1>8 DEF CurrentSlotKey, CskEnter, CskGetSlot, CskGetSlotAgain, CskGetSlotFails, CskRefill,
     CskRefillRefused, CskNext, CskExhausted, CskReturn, Abort, Broadcasting,
     SendData, BroadcastFails, BufferForBatch, FlushTake, ComputeHmac, SendHmac, Enqueue, envVars, workerVars
<1>9. CASE Shutdown \/ LoopTraffic \/ LoopClosedTick \/ LoopExit \/ WorkerSend \/ CleanupExit
           \/ Terminated \/ UNCHANGED vars
  BY <1>1, <1>9 DEF Shutdown, LoopTraffic, LoopClosedTick, LoopExit, WorkerSend, CleanupExit,
     Terminated, vars, envVars, workerVars
<1> QED
  BY <1>1, <1>2, <1>3, <1>5, <1>6, <1>7, <1>8, <1>9
     DEF Next, Environment, BroadcastLoop, DisclosureWorker

LEMMA SeqMonotonic == ASSUME NEW S, NEW T, S \subseteq T, NEW q \in Seq(S) PROVE q \in Seq(T)
  OBVIOUS

-----------------------------------------------------------------------------
(* Slots and keys, in both modes.                                            *)

\* The chains that the owner has sent are for slots that do not overlap, and the first
\* of each had begun when the chain was asked for.
ChainsInOrder ==
    /\ \A c \in DOMAIN issued : issued[c] <= slot
    /\ \A b, c \in DOMAIN issued : b < c => issued[b] + ChainLen <= issued[c]

\* The cursor stays on the chain, the cached key is one of the chain's ChainLen keys,
\* and its slot is not ahead of the latest.
CacheBounds ==
    /\ hashChain # NoLinear => hashChain.n = ChainLen /\ hashChain.next \in 2..(ChainLen + 1)
    /\ cachedKey = ZeroKey \/ (Genuine(cachedKey) /\ cachedKey.idx \in 1..ChainLen)
    /\ cachedKeySlot <= slot

\* The cursor is on the last chain received, and when a chain is needed the slots of
\* all that were received are over.
ChainsSpent ==
    /\ hashChain # NoLinear => hashChain.id = Len(issued)
    /\ Len(issued) > 0 =>
         /\ NeedsChain => issued[Len(issued)] + ChainLen <= slot
         /\ \A p \in Procs : pc[p] = "refill" => issued[Len(issued)] + ChainLen <= call[p].seen

\* A slot that was read is not ahead of the latest; while it is worked with it is at
\* most MaxLag behind.
ReadSlots ==
    /\ \A p \in Procs : call[p].seen <= slot
    /\ \A p \in Procs : pc[p] \in {"advance", "mac", "hmac"} => slot <= call[p].seen + MaxLag

\* The key that the alias returned by CurrentSlotKey leads to may have been advanced
\* since, by another caller, but not be gone back on.
ReadKeys ==
    \A p \in Procs :
        /\ pc[p] \in {"mac", "hmac", "enqueue"} =>
               Genuine(cachedKey) /\ call[p].seen <= SlotOf(cachedKey)
        /\ pc[p] = "hmac" /\ call[p].key # TornKey =>
               Genuine(call[p].key) /\ call[p].seen <= SlotOf(call[p].key)

SlotInv ==
    KeyInv /\ TicksPast /\ ChainsInOrder /\ CacheBounds /\ ChainsSpent /\ ReadSlots /\ ReadKeys

LEMMA InitSlotInv == Init => SlotInv
<1> SUFFICES ASSUME Init PROVE SlotInv
  OBVIOUS
<1>1. TicksPast /\ ChainsInOrder
  BY SenderAssumption DEF Init, TicksPast, ChainsInOrder
<1>2. CacheBounds
  BY DEF Init, CacheBounds
<1>4. ChainsSpent
  BY DEF Init, ChainsSpent
<1>3. ReadSlots /\ ReadKeys
  BY DEF Init, ReadSlots, ReadKeys, NoCall, NextIdle
<1> QED
  BY <1>1, <1>2, <1>3, <1>4, InitKeyInv DEF SlotInv

\* A chain is received for the slot that its goroutine read.
LEMMA Registrations ==
    ASSUME TypeOK, [Next]_vars, issued' # issued
    PROVE  \E p \in Procs : /\ pc[p] = "refill" /\ CurrentSlotKey(p)
                           /\ issued' = Append(issued, call[p].seen) /\ slot' = slot
<1> USE DEF chainVars, workerVars, wireVars, envVars
<1>1. ASSUME NEW p \in Procs, CurrentSlotKey(p)
      PROVE  /\ pc[p] = "refill"
             /\ issued' = Append(issued, call[p].seen) /\ slot' = slot
  BY <1>1 DEF CurrentSlotKey, CskEnter, CskGetSlot, CskGetSlotAgain, CskGetSlotFails,
     CskRefill, CskRefillRefused, CskNext, CskExhausted, CskReturn, Abort
<1>2. ASSUME NEW p \in Procs, Broadcasting(p) PROVE FALSE
  BY <1>2 DEF Broadcasting, SendData, BroadcastFails, BufferForBatch, FlushTake, ComputeHmac, SendHmac, Enqueue
<1>3. CASE Environment \/ BroadcastLoop \/ DisclosureWorker \/ CleanupExit \/ Terminated \/ UNCHANGED vars
  BY <1>3 DEF Environment, NewBlock, Shutdown, Poll, TickerExit, BroadcastLoop, LoopTraffic,
     LoopTick, LoopClosedTick, LoopExit, DisclosureWorker, WorkerTick, WorkerClosedTick, Drain,
     WorkerSend, WorkerScanned, WorkerExit, CleanupExit, Terminated, vars
<1> QED
  BY <1>1, <1>2, <1>3 DEF Next

LEMMA SlotNats ==
    ASSUME TypeOK
    PROVE  /\ slot \in Nat /\ slot > 0 /\ cachedKeySlot \in Nat
           /\ ChainLen \in Nat /\ ChainLen > 0 /\ DisclosureDelay \in Nat /\ MaxLag \in Nat
           /\ issued \in Seq(Nat) /\ Len(issued) \in Nat /\ DOMAIN issued = 1..Len(issued)
           /\ \A c \in DOMAIN issued : issued[c] \in Nat
           /\ \A p \in Procs : call[p] \in Calls /\ call[p].seen \in Nat /\ call[p].slot \in Nat
           /\ cachedKey \in Keys /\ \A p \in Procs : call[p].key \in Keys
           /\ \A k \in Keys : Genuine(k) => SlotOf(k) \in Int
<1>1. slot \in Nat /\ slot > 0 /\ cachedKeySlot \in Nat
  BY SlotTypes DEF TypeOK
<1>2. issued \in Seq(Nat)
  BY SlotTypes, SeqMonotonic DEF TypeOK
<1>3. \A p \in Procs : call[p] \in Calls /\ call[p].seen \in Nat /\ call[p].slot \in Nat
                       /\ call[p].key \in Keys
  BY SenderAssumption DEF TypeOK, Calls, Slots, UintSlots
<1>4. \A k \in Keys : Genuine(k) => SlotOf(k) \in Int
  BY <1>2 DEF Genuine, SlotOf, Keys, Key
<1> QED
  BY <1>1, <1>2, <1>3, <1>4, SenderAssumption DEF TypeOK

\* The window of a chain that is asked for is after those of all that were received.
LEMMA ChainFits ==
    ASSUME SlotInv, NEW p \in Procs, pc[p] = "refill"
    PROVE  \A c \in DOMAIN issued : issued[c] + ChainLen <= call[p].seen
<1> DEFINE n == Len(issued)
           begin == call[p].seen
<1> SUFFICES ASSUME NEW c \in 1..n PROVE issued[c] + ChainLen <= begin
  BY SlotNats DEF SlotInv, KeyInv
<1>1. /\ n \in Nat /\ n > 0 /\ ChainLen \in Nat /\ ChainLen > 0 /\ DOMAIN issued = 1..n
      /\ issued[c] \in Nat /\ issued[n] \in Nat /\ begin \in Nat
  BY SlotNats DEF SlotInv, KeyInv
<1>2. issued[n] + ChainLen <= begin
  BY <1>1 DEF SlotInv, ChainsSpent
<1> HIDE DEF n, begin
<1>3. CASE c = n
  BY <1>2, <1>3
<1>4. CASE c < n
  <2>1. issued[c] + ChainLen <= issued[n]
    BY <1>1, <1>4 DEF SlotInv, ChainsInOrder
  <2> QED
    BY <1>1, <1>2, <2>1
<1> QED
  BY <1>1, <1>3, <1>4

LEMMA NextChainsInOrder == SlotInv /\ [Next]_vars => ChainsInOrder'
<1> SUFFICES ASSUME SlotInv, [Next]_vars PROVE ChainsInOrder'
  OBVIOUS
<1>1. TypeOK /\ ChainsInOrder /\ slot' >= slot
  BY Writers DEF SlotInv, KeyInv, TypeOK
<1>2. CASE issued' = issued
  BY <1>1, <1>2, SlotNats, Writers DEF ChainsInOrder
<1>3. ASSUME NEW p \in Procs, pc[p] = "refill",
             issued' = Append(issued, call[p].seen), slot' = slot
      PROVE  ChainsInOrder'
  <2> DEFINE n == Len(issued)
             begin == call[p].seen
  <2>1. /\ n \in Nat /\ begin \in Nat /\ begin <= slot
        /\ DOMAIN issued = 1..n /\ DOMAIN issued' = 1..(n + 1)
        /\ issued'[n + 1] = begin /\ \A c \in 1..n : issued'[c] = issued[c]
    BY <1>1, <1>3, SlotNats DEF SlotInv, ReadSlots
  <2>2. \A c \in 1..n : issued[c] + ChainLen <= begin
    BY <1>3, <2>1, ChainFits
  <2> HIDE DEF n, begin
  <2>3. \A c \in 1..(n + 1) : c \in 1..n \/ c = n + 1
    BY <2>1
  <2>4. \A c \in DOMAIN issued' : issued'[c] <= slot'
    BY <1>1, <1>3, <2>1, <2>3 DEF ChainsInOrder
  <2>5. \A b, c \in DOMAIN issued' : b < c => issued'[b] + ChainLen <= issued'[c]
    BY <1>1, <2>1, <2>2, <2>3 DEF ChainsInOrder
  <2> QED
    BY <2>4, <2>5 DEF ChainsInOrder
<1> QED
  BY <1>1, <1>2, <1>3, Registrations

\* What a step does to the cached key.
LEMMA CacheSteps ==
    ASSUME SlotInv, [Next]_vars
    PROVE  \/ UNCHANGED <<hashChain, cachedKey>> /\ cachedKeySlot' \in {cachedKeySlot, 0}
           \/ \E p \in Procs :
                /\ pc[p] = "refill"
                /\ issued' = Append(issued, call[p].seen)
                /\ cachedKey' = KeyOf(Len(issued) + 1, 1)
                /\ hashChain' = [id |-> Len(issued) + 1, n |-> ChainLen, next |-> 2]
                /\ cachedKeySlot' = call[p].seen
           \/ \E p \in Procs :
                /\ pc[p] = "advance" /\ Behind(p) /\ ~NeedsChain
                /\ Remaining(hashChain) # 0
                /\ issued' = issued
                /\ cachedKey' = KeyOf(hashChain.id, hashChain.next)
                /\ hashChain' = [hashChain EXCEPT !.next = @ + 1]
                /\ cachedKeySlot' = cachedKeySlot + 1
<1>1. TypeOK /\ ChainReady
  BY DEF SlotInv, KeyInv
<1>2. CASE Outside
  BY <1>2 DEF Outside, chainVars
<1>3. ASSUME NEW p \in Procs, CskRefill(p)
      PROVE  /\ pc[p] = "refill"
             /\ issued' = Append(issued, call[p].seen)
             /\ cachedKey' = KeyOf(Len(issued) + 1, 1)
             /\ hashChain' = [id |-> Len(issued) + 1, n |-> ChainLen, next |-> 2]
             /\ cachedKeySlot' = call[p].seen
  <2>1. Len(issued') = Len(issued) + 1 /\ Len(issued') \in Nat
    BY <1>1, <1>3, SlotNats DEF CskRefill
  <2>2. ReceivedChain(Len(issued')) = NewLinear(Len(issued) + 1, ChainLen)
    BY <2>1, ReceivedIsNew
  <2> QED
    BY <1>3, <2>2 DEF CskRefill, NewLinear, NextHash, AfterNext
<1>4. ASSUME NEW p \in Procs, CskNext(p) PROVE ~NeedsChain
  BY <1>1, <1>4 DEF CskNext, ChainReady
<1>5. ASSUME NEW p \in Procs, CurrentSlotKey(p), ~CskRefill(p), ~CskNext(p)
      PROVE  UNCHANGED <<hashChain, cachedKey>> /\ cachedKeySlot' \in {cachedKeySlot, 0}
  BY <1>5 DEF CurrentSlotKey, CskEnter, CskGetSlot, CskGetSlotAgain, CskGetSlotFails,
     CskRefillRefused, CskExhausted, CskReturn, Abort, chainVars
<1>6. CASE \E p \in Procs : CurrentSlotKey(p)
  BY <1>3, <1>4, <1>5, <1>6 DEF CskNext, NextHash, AfterNext
<1> QED
  BY <1>1, <1>2, <1>6, OutsideSteps DEF Next

LEMMA NextCacheBounds == SlotInv /\ [Next]_vars => CacheBounds'
<1> SUFFICES ASSUME SlotInv, [Next]_vars PROVE CacheBounds'
  OBVIOUS
<1>1. /\ TypeOK /\ CacheBounds /\ KeyTracksSlot /\ ReadSlots
      /\ slot' \in Nat /\ slot' >= slot
      /\ slot \in Nat /\ cachedKeySlot \in Nat /\ ChainLen \in Nat /\ ChainLen > 0
  BY Writers, SlotNats DEF SlotInv, KeyInv
<1>2. Genuine(cachedKey) => Genuine(cachedKey) /\ 1..Len(issued) \subseteq 1..Len(issued')
  BY <1>1, SlotNats, Writers
<1>3. CASE UNCHANGED <<hashChain, cachedKey>> /\ cachedKeySlot' \in {cachedKeySlot, 0}
  BY <1>1, <1>2, <1>3 DEF CacheBounds, Genuine
<1>4. ASSUME NEW p \in Procs, issued' = Append(issued, call[p].seen),
             cachedKey' = KeyOf(Len(issued) + 1, 1),
             hashChain' = [id |-> Len(issued) + 1, n |-> ChainLen, next |-> 2],
             cachedKeySlot' = call[p].seen
      PROVE  CacheBounds'
  <2>1. call[p].seen \in Nat /\ call[p].seen <= slot /\ Len(issued') = Len(issued) + 1 /\ Len(issued) \in Nat
    BY <1>1, <1>4, SlotNats DEF ReadSlots
  <2> QED
    BY <1>1, <1>4, <2>1 DEF CacheBounds, Genuine, KeyOf
<1>5. ASSUME NEW p \in Procs, Behind(p), ~NeedsChain, Remaining(hashChain) # 0, issued' = issued,
             cachedKey' = KeyOf(hashChain.id, hashChain.next),
             hashChain' = [hashChain EXCEPT !.next = @ + 1],
             cachedKeySlot' = cachedKeySlot + 1
      PROVE  CacheBounds'
  <2>1. call[p].seen \in Nat /\ call[p].seen <= slot /\ cachedKeySlot < call[p].seen
    BY <1>1, <1>5, SlotNats DEF ReadSlots, Behind
  <2>2. /\ hashChain \in Linear(Nat) /\ hashChain.id \in 1..Len(issued)
        /\ hashChain.n = ChainLen /\ hashChain.next \in 2..(ChainLen + 1)
    <3>1. hashChain # NoLinear
      BY <1>5 DEF NeedsChain
    <3>2. hashChain \in Linear(Nat)
      BY <1>1, <3>1 DEF TypeOK
    <3>3. hashChain.n = ChainLen /\ hashChain.next \in 2..(ChainLen + 1)
      BY <1>1, <3>1 DEF CacheBounds
    <3>4. hashChain.id \in 1..Len(issued)
      BY <1>1, <1>5 DEF KeyTracksSlot, Genuine, KeyOf
    <3> QED
      BY <3>2, <3>3, <3>4
  <2>3. hashChain.next \in 2..ChainLen
    BY <1>1, <1>5, <2>2 DEF Remaining
  <2>4. hashChain'.n = ChainLen /\ hashChain'.next = hashChain.next + 1
    BY <1>5, <2>2 DEF Linear
  <2>5. (hashChain' # NoLinear)
            => (hashChain'.n = ChainLen /\ hashChain'.next \in 2..(ChainLen + 1))
    BY <2>3, <2>4, SenderAssumption
  <2>6. Genuine(cachedKey)' /\ cachedKey'.idx \in 1..ChainLen
    <3>1. cachedKey'.chain = hashChain.id /\ cachedKey'.idx = hashChain.next
      BY <1>5 DEF KeyOf
    <3> QED
      BY <1>5, <2>2, <2>3, <3>1 DEF Genuine
  <2>7. cachedKeySlot' <= slot'
    BY <1>1, <1>5, <2>1, SlotNats
  <2> QED
    BY <2>5, <2>6, <2>7 DEF CacheBounds
<1> QED
  BY <1>3, <1>4, <1>5, CacheSteps

\* The slot of the cached key never goes back, across advances and refills.
LEMMA CacheAdvances ==
    ASSUME SlotInv, [Next]_vars, Genuine(cachedKey)
    PROVE  Genuine(cachedKey)' /\ SlotOf(cachedKey) <= SlotOf(cachedKey)'
<1>1. /\ TypeOK /\ CacheBounds /\ KeyTracksSlot
      /\ cachedKey \in Keys /\ SlotOf(cachedKey) \in Int /\ cachedKey.idx \in 1..ChainLen
  BY SlotNats DEF SlotInv, KeyInv, CacheBounds, Genuine, ZeroKey, KeyOf
<1>2. CASE cachedKey' = cachedKey
  <2>1. Genuine(cachedKey)' /\ SlotOf(cachedKey)' = SlotOf(cachedKey)
    BY <1>1, <1>2, GenuineKeysKept DEF Genuine, SlotOf
  <2> QED
    BY <1>1, <2>1
<1>3. ASSUME NEW p \in Procs, pc[p] = "refill", issued' = Append(issued, call[p].seen),
             cachedKey' = KeyOf(Len(issued) + 1, 1)
      PROVE  Genuine(cachedKey)' /\ SlotOf(cachedKey) <= SlotOf(cachedKey)'
  <2> DEFINE n == Len(issued)
             c == cachedKey.chain
  <2>1. /\ n \in Nat /\ c \in 1..n /\ call[p].seen \in Nat /\ ChainLen \in Nat
        /\ Len(issued') = n + 1 /\ issued'[n + 1] = call[p].seen
        /\ issued[c] \in Nat /\ issued[n] \in Nat /\ DOMAIN issued = 1..n
    <3>1. /\ issued \in Seq(Nat)
          /\ c \in 1..n /\ call[p].seen \in Nat /\ ChainLen \in Nat
      BY <1>1, <1>3, SlotNats DEF Genuine
    <3>2. n \in Nat /\ DOMAIN issued = 1..n
      BY <3>1
    <3>3. Len(issued') = n + 1 /\ issued'[n + 1] = call[p].seen
      BY <1>3, <3>1
    <3>4. issued[c] \in Nat /\ issued[n] \in Nat
      <4>1. n \in 1..n
        BY <3>1, <3>2
      <4> QED
        BY <3>1, <3>2, <4>1
    <3> QED
      BY <3>1, <3>2, <3>3, <3>4
  <2>2. issued[c] + ChainLen <= call[p].seen
    BY <1>3, <2>1, ChainFits
  <2>4. SlotOf(cachedKey) = issued[c] + cachedKey.idx - 1
    BY DEF SlotOf
  <2>5. SlotOf(cachedKey)' = issued'[n + 1] + 1 - 1 /\ Genuine(cachedKey)'
    BY <1>3, <2>1 DEF SlotOf, Genuine, KeyOf
  <2> HIDE DEF n, c
  <2>6. cachedKey.idx <= ChainLen /\ cachedKey.idx \in Nat
    BY <1>1, <2>1
  <2>7. SlotOf(cachedKey)' = call[p].seen
    BY <2>1, <2>5
  <2>8. issued[c] + cachedKey.idx - 1 <= call[p].seen
    BY <2>1, <2>2, <2>6
  <2> QED
    BY <2>4, <2>5, <2>7, <2>8
<1>4. ASSUME ~NeedsChain, issued' = issued, cachedKey' = KeyOf(hashChain.id, hashChain.next)
      PROVE  Genuine(cachedKey)' /\ SlotOf(cachedKey) <= SlotOf(cachedKey)'
  <2>1. cachedKey = KeyOf(hashChain.id, hashChain.next - 1) /\ hashChain.next \in Nat
    BY <1>1, <1>4 DEF KeyTracksSlot, TypeOK, Linear
  <2>2. issued[hashChain.id] \in Nat
    BY <1>1, <2>1, SlotNats DEF Genuine, KeyOf
  <2> QED
    BY <1>4, <2>1, <2>2 DEF Genuine, SlotOf, KeyOf
<1> QED
  BY <1>2, <1>3, <1>4, CacheSteps

\* What a step may do to one goroutine: where it goes, and what becomes of its locals.
Moved(p) ==
    \/ pc'[p] = pc[p] /\ call'[p] = call[p]
    \/ slot' = slot /\ pc'[p] = NextIdle(p) /\ call'[p] = NoCall
    \/ /\ slot' = slot /\ pc[p] = "select" /\ pc'[p] = "csk" /\ p = Loop
       /\ call'[p] = [call[p] EXCEPT !.data = {messageCounter}, !.after = "data"]
    \/ /\ slot' = slot /\ pc[p] = "idle" /\ pc'[p] = "take"
       /\ \/ \E s \in UintSlots : call'[p] = [call[p] EXCEPT !.slot = s] /\ s < slot
          \/ /\ call'[p] = [call[p] EXCEPT !.slot = Pred(0)]
             /\ "loop" \in Tickers /\ ~ticks["loop"].open
    \/ /\ slot' = slot /\ pc[p] = "select" /\ pc'[p] = "done" /\ call'[p] = call[p]
    \/ /\ slot' = slot /\ pc[p] = "csk" /\ pc'[p] = "top" /\ call'[p] = call[p]
    \/ /\ slot' = slot /\ pc[p] \in {"top", "slot"} /\ pc'[p] \in {"refill", "advance"}
       /\ call'[p] = [call[p] EXCEPT !.seen = slot]
    \/ /\ slot' = slot /\ pc[p] = "refill" /\ pc'[p] = "slot" /\ call'[p] = call[p]
    \/ /\ slot' = slot /\ pc[p] = "advance" /\ pc'[p] = "top" /\ call'[p] = call[p]
    \/ /\ slot' = slot /\ pc[p] = "advance" /\ pc'[p] = call[p].after /\ ~Behind(p)
       /\ call'[p] = [call[p] EXCEPT !.seen = cachedKeySlot]
    \/ /\ slot' = slot /\ pc[p] = "data" /\ pc'[p] \in {"buffer", "csk"}
       /\ call'[p] = [call[p] EXCEPT !.after = "mac"]
    \/ /\ slot' = slot /\ pc[p] = "take" /\ pc'[p] = "csk" /\ messageBuffer # {}
       /\ call'[p] = [call[p] EXCEPT !.data = messageBuffer]
    \/ /\ slot' = slot /\ pc[p] = "mac" /\ pc'[p] = "hmac"
       /\ \E k \in KeyReads(p) : call'[p] = [call[p] EXCEPT !.key = k]
    \/ /\ slot' = slot /\ pc[p] = "hmac" /\ pc'[p] = "enqueue" /\ call'[p] = call[p]

LEMMA Moves == ASSUME TypeOK, TicksPast, [Next]_vars, NEW p \in Procs PROVE Moved(p)
<1> USE DEF TypeOK, Moved
<1>0. call[p] \in Calls /\ p \in Procs
  OBVIOUS
<1>1. CASE Environment \/ DisclosureWorker \/ CleanupExit \/ Terminated \/ UNCHANGED vars
  BY <1>1 DEF Environment, NewBlock, Shutdown, Poll, TickerExit, DisclosureWorker,
     WorkerTick, WorkerClosedTick, Drain, WorkerSend, WorkerScanned, WorkerExit, CleanupExit, Terminated, vars
<1>2. CASE LoopTraffic
  BY <1>2 DEF LoopTraffic, envVars
<1>3. ASSUME NEW s \in Slots, SpawnFlush(s), slot' = slot
      PROVE  \/ pc'[p] = pc[p] /\ call'[p] = call[p]
             \/ /\ slot' = slot /\ pc[p] = "idle" /\ pc'[p] = "take"
                /\ call'[p] = [call[p] EXCEPT !.slot = Pred(s)]
  BY <1>3 DEF SpawnFlush
<1>4. CASE LoopTick
  <2> DEFINE s == ticks["loop"].out
  <2>1. s \in Slots /\ s # 0 /\ s <= slot /\ SpawnFlush(s) /\ slot' = slot
    BY <1>4 DEF LoopTick, TickerStates, TicksPast
  <2> HIDE DEF s
  <2>2. Pred(s) \in UintSlots /\ Pred(s) < slot
    <3>1. s \in Nat /\ s - 1 \in 0..(SlotModulus - 1) /\ slot \in Nat /\ s - 1 < slot
      BY <2>1, SenderAssumption DEF Slots
    <3> QED
      BY <3>1, UintExact DEF Pred, UintSlots
  <2> QED
    BY <1>3, <2>1, <2>2
<1>5. CASE LoopClosedTick
  BY <1>3, <1>5, SlotTypes DEF LoopClosedTick, envVars
<1>6. CASE LoopExit
  BY <1>6 DEF LoopExit, envVars
<1>7. ASSUME NEW q \in Procs, CurrentSlotKey(q) \/ Broadcasting(q), p # q
      PROVE  pc'[p] = pc[p] /\ call'[p] = call[p]
  BY <1>7, CskMoves DEF Broadcasting, SendData, BroadcastFails, BufferForBatch, FlushTake, ComputeHmac, SendHmac,
     Enqueue, GiveUp, Return
<1>8. ASSUME Return(p) PROVE pc'[p] = NextIdle(p) /\ call'[p] = NoCall
  BY <1>8 DEF Return
<1>9. CASE CurrentSlotKey(p)
  <2>1. slot' = slot
    BY <1>9 DEF CurrentSlotKey, CskEnter, CskGetSlot, CskGetSlotAgain, CskGetSlotFails, CskRefill,
       CskRefillRefused, CskNext, CskExhausted, CskReturn, Abort, envVars
  <2>2. CASE CskEnter(p) \/ CskRefill(p) \/ CskNext(p) \/ CskExhausted(p)
    BY <2>1, <2>2 DEF CskEnter, CskRefill, CskNext, CskExhausted
  <2>3. CASE CskGetSlot(p) \/ CskGetSlotAgain(p)
    BY <2>1, <2>3 DEF CskGetSlot, CskGetSlotAgain
  <2>4. CASE CskGetSlotFails(p) \/ CskRefillRefused(p)
    BY <1>8, <2>1, <2>4 DEF CskGetSlotFails, CskRefillRefused, Abort, GiveUp
  <2>5. CASE CskReturn(p)
    BY <2>1, <2>5 DEF CskReturn
  <2> QED
    BY <1>9, <2>2, <2>3, <2>4, <2>5 DEF CurrentSlotKey
<1>10. CASE Broadcasting(p)
  <2>1. slot' = slot
    BY <1>10 DEF Broadcasting, SendData, BroadcastFails, BufferForBatch, FlushTake, ComputeHmac, SendHmac,
       Enqueue, envVars
  <2>2. CASE SendData(p)
    BY <2>1, <2>2 DEF SendData
  <2>3. CASE BufferForBatch(p) \/ Enqueue(p) \/ BroadcastFails(p)
    BY <1>8, <2>1, <2>3 DEF BufferForBatch, Enqueue, BroadcastFails, GiveUp
  <2>4. CASE FlushTake(p)
    BY <1>8, <2>1, <2>4 DEF FlushTake
  <2>5. CASE ComputeHmac(p)
    BY <2>1, <2>5 DEF ComputeHmac
  <2>6. CASE SendHmac(p)
    BY <2>1, <2>6 DEF SendHmac
  <2> QED
    BY <1>10, <2>2, <2>3, <2>4, <2>5, <2>6 DEF Broadcasting
<1> QED
  BY <1>1, <1>2, <1>4, <1>5, <1>6, <1>7, <1>9, <1>10 DEF Next, BroadcastLoop

\* The slot moves with a block.
LEMMA BlocksWait == [Next]_vars /\ slot' # slot => NewBlock
<1> USE DEF envVars
<1>1. ASSUME NEW p \in Procs, CurrentSlotKey(p) \/ Broadcasting(p) PROVE slot' = slot
  BY <1>1 DEF CurrentSlotKey, CskEnter, CskGetSlot, CskGetSlotAgain, CskGetSlotFails, CskRefill,
     CskRefillRefused, CskNext, CskExhausted, CskReturn, Abort, Broadcasting,
     SendData, BroadcastFails, BufferForBatch, FlushTake, ComputeHmac, SendHmac, Enqueue
<1>2. CASE BroadcastLoop \/ DisclosureWorker \/ CleanupExit \/ Terminated \/ UNCHANGED vars
  BY <1>2 DEF BroadcastLoop, LoopTraffic, LoopTick, LoopClosedTick, LoopExit, DisclosureWorker,
     WorkerTick, WorkerClosedTick, Drain, WorkerSend, WorkerScanned, WorkerExit, CleanupExit, Terminated, vars
<1>3. CASE Environment
  BY <1>3 DEF Environment, NewBlock, Shutdown, Poll, TickerExit
<1> QED
  BY <1>1, <1>2, <1>3 DEF Next

\* A chain that was there is gone when its keys are used up.
LEMMA Exhausts ==
    ASSUME SlotInv, [Next]_vars, ~NeedsChain, NeedsChain'
    PROVE  \E p \in Procs : CskExhausted(p)
<1>1. TypeOK /\ TypeOK' /\ KeyInv /\ ChainReady /\ KeyTracksSlot
  BY NextTypeOK DEF SlotInv, KeyInv
<1>2. CASE Outside
  BY <1>2 DEF Outside, chainVars, NeedsChain
<1>3. ASSUME NEW p \in Procs, CurrentSlotKey(p), ~CskExhausted(p) PROVE FALSE
  <2>1. CASE CskRefill(p)
    <3>1. Len(issued') = Len(issued) + 1 /\ Len(issued) \in Nat /\ cachedKeySlot' # 0
      BY <1>1, <2>1, SlotNats DEF CskRefill, ChainReady
    <3>2. hashChain' = [id |-> Len(issued) + 1, n |-> ChainLen, next |-> 2]
      BY <2>1, <3>1, ReceivedIsNew DEF CskRefill, NewLinear, AfterNext
    <3> QED
      BY <3>1, <3>2 DEF NeedsChain, NoLinear
  <2>2. CASE CskNext(p)
    <3>1. hashChain.id # 0 /\ hashChain \in Linear(Nat)
      BY <1>1 DEF KeyTracksSlot, Genuine, KeyOf, TypeOK
    <3> QED
      BY <1>1, <2>2, <3>1, SlotNats DEF CskNext, AfterNext, NeedsChain, NoLinear, Linear
  <2>3. CASE UNCHANGED <<hashChain, cachedKeySlot>>
    BY <2>3 DEF NeedsChain
  <2> QED
    BY <1>3, <2>1, <2>2, <2>3 DEF CurrentSlotKey, CskEnter, CskGetSlot, CskGetSlotAgain,
       CskGetSlotFails, CskRefillRefused, CskReturn, Abort, chainVars
<1> QED
  BY <1>1, <1>2, <1>3, OutsideSteps DEF Next

\* A chain is asked for when one is needed.
LEMMA Refills ==
    ASSUME TypeOK, [Next]_vars, NEW p \in Procs, pc[p] # "refill", pc'[p] = "refill"
    PROVE  NeedsChain
<1>1. ~Outside
  BY DEF Outside, InCsk
<1>2. ASSUME NEW q \in Procs, CurrentSlotKey(q) PROVE NeedsChain
  <2>1. p = q
    BY <1>2, CskMoves
  <2>2. call[p].after # "refill" /\ NextIdle(p) # "refill"
    BY DEF TypeOK, Calls, NextIdle
  <2> QED
    BY <1>2, <2>1, <2>2 DEF CurrentSlotKey, CskEnter, CskGetSlot, CskGetSlotAgain,
       CskGetSlotFails, CskRefill, CskRefillRefused, CskNext, CskExhausted, CskReturn, Abort,
       GiveUp, Return, TypeOK
<1> QED
  BY <1>1, <1>2, OutsideSteps DEF Next

LEMMA NextChainsSpent == SlotInv /\ [Next]_vars => ChainsSpent'
<1> SUFFICES ASSUME SlotInv, [Next]_vars PROVE ChainsSpent'
  OBVIOUS
<1> DEFINE n == Len(issued)
<1>1. /\ TypeOK /\ TicksPast /\ MutexHeld /\ ChainReady /\ KeyTracksSlot
      /\ ChainsSpent /\ CacheBounds /\ ReadSlots
      /\ slot \in Nat /\ slot' \in Nat /\ slot <= slot' /\ n \in Nat /\ ChainLen \in Nat
      /\ DOMAIN issued = 1..n /\ \A c \in 1..n : issued[c] \in Nat
      /\ cachedKeySlot \in Nat
  BY Writers, SlotNats DEF SlotInv, KeyInv
<1>2. ASSUME issued' = issued, n > 0, NeedsChain', ~NeedsChain
      PROVE  issued[n] + ChainLen <= slot
  <2>1. PICK p \in Procs : CskExhausted(p)
    BY <1>2, Exhausts
  <2>2. /\ cachedKeySlot < call[p].seen /\ hashChain.n - hashChain.next + 1 = 0
        /\ call[p].seen \in Nat /\ call[p].seen <= slot
    BY <1>1, <2>1, SlotNats DEF CskExhausted, Behind, Remaining, ReadSlots
  <2>3. /\ hashChain.n = ChainLen /\ hashChain.next \in Nat /\ hashChain.id = n
    BY <1>1, <1>2 DEF NeedsChain, CacheBounds, ChainsSpent, TypeOK, Linear
  <2>4. cachedKeySlot = issued[n] + (hashChain.next - 1) - 1
    BY <1>1, <1>2, <2>3 DEF KeyTracksSlot, SlotOf, KeyOf
  <2>5. n \in 1..n /\ issued[n] \in Nat
    BY <1>1, <1>2
  <2> HIDE DEF n
  <2>6. hashChain.next = ChainLen + 1
    BY <1>1, <2>2, <2>3
  <2> QED
    BY <1>1, <2>2, <2>4, <2>5, <2>6
<1>3. CASE issued' = issued
  <2>1. hashChain' # NoLinear => hashChain'.id = n
    <3>1. CASE hashChain' = hashChain
      BY <1>1, <3>1 DEF ChainsSpent
    <3>2. CASE ~NeedsChain /\ hashChain' = [hashChain EXCEPT !.next = @ + 1]
      BY <1>1, <3>2 DEF ChainsSpent, NeedsChain, TypeOK, Linear
    <3>3. \A p \in Procs : issued' # Append(issued, call[p].seen)
      <4> SUFFICES ASSUME NEW p \in Procs PROVE issued # Append(issued, call[p].seen)
        BY <1>3
      <4>1. issued \in Seq(Nat) /\ call[p].seen \in Nat
        BY <1>1, SlotNats
      <4>2. Len(Append(issued, call[p].seen)) = Len(issued) + 1 /\ Len(issued) \in Nat
        BY <4>1
      <4> QED
        BY <4>2
    <3> QED
      BY <3>1, <3>2, <3>3, CacheSteps
  <2>2. ASSUME n > 0, NeedsChain' PROVE issued[n] + ChainLen <= slot'
    <3>1. issued[n] \in Nat
      BY <1>1, <2>2
    <3>2. CASE NeedsChain
      BY <1>1, <2>2, <3>1, <3>2 DEF ChainsSpent
    <3> QED
      BY <1>1, <1>2, <1>3, <2>2, <3>1, <3>2
  <2>3. ASSUME n > 0, NEW p \in Procs, pc'[p] = "refill" PROVE issued[n] + ChainLen <= call'[p].seen
    <3>1. CASE pc'[p] = pc[p] /\ call'[p] = call[p]
      BY <1>1, <2>3, <3>1 DEF ChainsSpent
    <3>2. CASE pc[p] \in {"top", "slot"} /\ call'[p] = [call[p] EXCEPT !.seen = slot]
      <4>1. NeedsChain
        BY <1>1, <2>3, <3>2, Refills
      <4>2. call'[p].seen = slot
        BY <1>1, <3>2 DEF TypeOK, Calls
      <4> QED
        BY <1>1, <2>3, <4>1, <4>2 DEF ChainsSpent
    <3>3. /\ NextIdle(p) # "refill" /\ call[p].after # "refill" /\ Moved(p)
      BY <1>1, Moves DEF NextIdle, TypeOK, Calls
    <3> QED
      BY <2>3, <3>1, <3>2, <3>3 DEF Moved
  <2> QED
    BY <1>3, <2>1, <2>2, <2>3 DEF ChainsSpent
<1>4. ASSUME NEW p \in Procs, CskRefill(p) PROVE ChainsSpent'
  <2>1. /\ pc[p] = "refill" /\ pc'[p] = "slot" /\ issued' = Append(issued, call[p].seen)
        /\ \A q \in Procs \ {p} : pc'[q] = pc[q] /\ pc[q] # "refill"
    BY <1>1, <1>4 DEF CskRefill, MutexHeld, InCsk, TypeOK
  <2>2. hashChain' = [id |-> n + 1, n |-> ChainLen, next |-> 2] /\ cachedKeySlot' # 0
    <3>1. call[p].seen # 0
      BY <1>1, <2>1 DEF ChainReady
    <3>2. Len(issued') = n + 1 /\ n + 1 \in Nat
      BY <1>1, <2>1 DEF TypeOK
    <3> QED
      BY <1>4, <3>1, <3>2, ReceivedIsNew DEF CskRefill, NewLinear, AfterNext
  <2>3. Len(issued') = n + 1
    BY <1>1, <2>1 DEF TypeOK
  <2>4. ~NeedsChain'
    BY <2>2 DEF NeedsChain, NoLinear
  <2> QED
    BY <2>1, <2>2, <2>3, <2>4 DEF ChainsSpent
<1> QED
  <2>1. ASSUME NEW p \in Procs, pc[p] = "refill", CurrentSlotKey(p), ~CskRefill(p)
        PROVE  issued' = issued
    BY <2>1 DEF CurrentSlotKey, CskEnter, CskGetSlot, CskGetSlotAgain, CskGetSlotFails,
       CskRefillRefused, CskNext, CskExhausted, CskReturn, Abort, chainVars
  <2> QED
    BY <1>1, <1>3, <1>4, <2>1, Registrations

LEMMA NextReadSlots == SlotInv /\ [Next]_vars => ReadSlots'
<1> SUFFICES ASSUME SlotInv, [Next]_vars, NEW p \in Procs
             PROVE  /\ call'[p].seen <= slot'
                    /\ pc'[p] \in {"advance", "mac", "hmac"} => slot' <= call'[p].seen + MaxLag
  BY DEF ReadSlots
<1>1. /\ TypeOK /\ TicksPast /\ ReadSlots /\ CacheBounds
      /\ slot \in Nat /\ slot > 0 /\ cachedKeySlot \in Nat /\ MaxLag \in Nat
      /\ call[p] \in Calls /\ call[p].seen \in Nat /\ call[p].after \in {"data", "mac"}
  BY SlotNats DEF SlotInv, KeyInv, Calls
<1>4. Moved(p)
  BY <1>1, Moves
<1>2. CASE slot' = slot
  <2>1. CASE pc'[p] = pc[p] /\ call'[p] = call[p]
    BY <1>1, <1>2, <2>1 DEF ReadSlots
  <2>2. NoCall.seen = 0 /\ NextIdle(p) \in {"select", "idle"}
    BY DEF NoCall, NextIdle
  <2>3. CASE pc[p] = "advance" /\ pc'[p] = call[p].after /\ ~Behind(p)
             /\ call'[p] = [call[p] EXCEPT !.seen = cachedKeySlot]
    BY <1>1, <1>2, <2>3 DEF ReadSlots, CacheBounds, Behind, Calls
  <2>4. CASE call'[p] = NoCall /\ pc'[p] = NextIdle(p)
    BY <1>1, <1>2, <2>2, <2>4
  <2>5. CASE call'[p] = [call[p] EXCEPT !.seen = slot]
    BY <1>1, <1>2, <2>5 DEF Calls
  <2>6. CASE pc'[p] \notin {"advance", "mac", "hmac"} /\ call'[p].seen = call[p].seen
    BY <1>1, <1>2, <2>6 DEF ReadSlots
  <2>7. CASE pc[p] = "mac" /\ \E k \in KeyReads(p) : call'[p] = [call[p] EXCEPT !.key = k]
    BY <1>1, <1>2, <2>7 DEF ReadSlots, Calls
  <2> QED
    BY <1>1, <1>4, <2>1, <2>3, <2>4, <2>5, <2>6, <2>7 DEF Moved, Calls
<1>3. CASE slot' = slot + 1
  <2>1. pc'[p] = pc[p] /\ call'[p] = call[p]
    BY <1>1, <1>3, <1>4 DEF Moved
  <2>2. Prompt
    BY <1>1, <1>3, BlocksWait DEF NewBlock
  <2> QED
    BY <1>1, <1>3, <2>1, <2>2 DEF ReadSlots, Prompt
<1> QED
  BY <1>1, <1>2, <1>3, Writers

LEMMA NextReadKeys == SlotInv /\ [Next]_vars => ReadKeys'
<1> SUFFICES ASSUME SlotInv, [Next]_vars, NEW p \in Procs
             PROVE  /\ pc'[p] \in {"mac", "hmac", "enqueue"} =>
                           Genuine(cachedKey)' /\ call'[p].seen <= SlotOf(cachedKey)'
                    /\ pc'[p] = "hmac" /\ call'[p].key # TornKey =>
                           Genuine(call[p].key)' /\ call'[p].seen <= SlotOf(call[p].key)'
  BY DEF ReadKeys
<1>1. /\ TypeOK /\ TicksPast /\ ReadKeys /\ CacheBounds /\ KeyTracksSlot /\ ChainReady
      /\ call[p] \in Calls /\ call[p].seen \in Nat /\ call[p].after \in {"data", "mac"}
      /\ cachedKeySlot \in Nat /\ call[p].key \in Keys /\ cachedKey \in Keys
      /\ NextIdle(p) \in {"select", "idle"}
      /\ (Genuine(cachedKey) => SlotOf(cachedKey) \in Int)
  BY SlotNats DEF SlotInv, KeyInv, Calls, NextIdle
<1>2. Genuine(cachedKey) => Genuine(cachedKey)' /\ SlotOf(cachedKey) <= SlotOf(cachedKey)'
                            /\ SlotOf(cachedKey)' \in Int
  <2>1. TypeOK'
    BY <1>1, NextTypeOK
  <2>2. Genuine(cachedKey)' => SlotOf(cachedKey)' \in Int
    <3>1. cachedKey' \in Keys /\ \A c \in 1..Len(issued') : issued'[c] \in Int
      BY <2>1, SlotTypes DEF TypeOK
    <3> QED
      BY <3>1 DEF Genuine, SlotOf, Keys, Key
  <2> QED
    BY <2>2, CacheAdvances
<1>3. ASSUME NEW k \in Keys, Genuine(k)
      PROVE  k.chain \in 1..Len(issued') /\ issued'[k.chain] + k.idx - 1 = SlotOf(k)
  BY <1>1, <1>3, GenuineKeysKept DEF Genuine, SlotOf
<1>4. CASE pc'[p] = pc[p] /\ call'[p] = call[p]
  <2>1. pc[p] = "hmac" /\ call[p].key # TornKey => Genuine(call[p].key)' /\ call'[p].seen <= SlotOf(call[p].key)'
    BY <1>1, <1>3, <1>4 DEF ReadKeys, Genuine, SlotOf
  <2> QED
    BY <1>1, <1>2, <1>4, <2>1 DEF ReadKeys
<1>5. CASE pc'[p] \notin {"mac", "hmac", "enqueue"}
  BY <1>5
<1>6. CASE pc[p] = "advance" /\ pc'[p] = call[p].after /\ ~Behind(p)
           /\ call'[p] = [call[p] EXCEPT !.seen = cachedKeySlot]
  <2>1. Genuine(cachedKey) /\ cachedKeySlot = SlotOf(cachedKey)
    BY <1>1, <1>6 DEF KeyTracksSlot, ChainReady
  <2> QED
    BY <1>1, <1>2, <1>6, <2>1 DEF Calls
<1>7. ASSUME NEW k \in KeyReads(p), pc[p] = "mac", call'[p] = [call[p] EXCEPT !.key = k]
      PROVE  /\ Genuine(cachedKey)' /\ call'[p].seen <= SlotOf(cachedKey)'
             /\ call'[p].key # TornKey =>
                    Genuine(call[p].key)' /\ call'[p].seen <= SlotOf(call[p].key)'
  <2>1. Genuine(cachedKey) /\ call[p].seen <= SlotOf(cachedKey)
    BY <1>1, <1>7 DEF ReadKeys
  <2>2. call'[p].key = k /\ call'[p].seen = call[p].seen
    BY <1>1, <1>7 DEF Calls
  <2>3. k \in {cachedKey, TornKey}
    BY DEF KeyReads
  <2> QED
    BY <1>1, <1>2, <1>3, <2>1, <2>2, <2>3 DEF Genuine, SlotOf
<1>8. CASE pc[p] = "hmac" /\ pc'[p] = "enqueue" /\ call'[p] = call[p]
  BY <1>1, <1>2, <1>8 DEF ReadKeys
<1> QED
  BY <1>1, <1>4, <1>5, <1>6, <1>7, <1>8, Moves DEF Moved

LEMMA NextSlotInv == SlotInv /\ [Next]_vars => SlotInv'
  BY NextKeyInv, NextTicksPast, NextChainsInOrder, NextCacheBounds, NextChainsSpent,
     NextReadSlots, NextReadKeys
     DEF SlotInv, KeyInv

-----------------------------------------------------------------------------
(* Messages, in both modes.                                                  *)

\* A message has one owner: the goroutine that works on it, the buffer, or the HMAC
\* that is out (whose sender still holds it until the disclosure is queued).
Custody ==
    /\ \A p \in Procs :
         /\ (pc[p] \in {"select", "idle", "done", "take"} <=> call[p].data = {})
         /\ messageBuffer \intersect call[p].data = {}
         /\ \A q \in Procs : p # q => call[p].data \intersect call[q].data = {}
         /\ \A h \in hmacWire : pc[p] # "enqueue" => call[p].data \intersect h.data = {}
         /\ \A m \in call[p].data : m < messageCounter
    /\ \A m \in messageBuffer : m < messageCounter
    /\ \A h \in hmacWire :
         /\ messageBuffer \intersect h.data = {}
         /\ \A m \in h.data : m < messageCounter
         /\ \A g \in hmacWire : g.data # h.data => g.data \intersect h.data = {}

\* While the key for a message is looked up, the slot that the lookup goes by is not
\* before the one on the message's data packet.
DataBefore ==
    /\ \A d \in dataWire : d.data # {} /\ d.slot <= slot
    /\ \A p \in Procs :
         (pc[p] \in {"refill", "slot", "advance"} /\ call[p].after = "mac")
                 \/ pc[p] \in {"mac", "hmac"} =>
             \A d \in dataWire : d.data \subseteq call[p].data => d.slot <= call[p].seen

\* The slot a flush was given is over before the slot its key is looked up for, unless
\* the tick came from the closed channel.
LabelsPast ==
    ~ctxDone =>
        /\ \A t \in Tickers : ticks[t].open
        /\ \A p \in Procs : call[p].slot < slot
        /\ \A p \in Procs : pc[p] \in {"refill", "slot", "advance", "mac", "hmac"} =>
                               call[p].slot < call[p].seen

\* Disclosures whose HMAC is out, and that wait for the slot its label gives them.
Labelled == {d \in Disclosures :
                \E h \in hmacWire : h.data = d.data /\ h.slot + DisclosureDelay = d.target}

QueueLabelled ==
    /\ disclosureQueue \in Seq(Labelled)
    /\ pending \in Seq(Labelled)
    /\ \A p \in Procs : pc[p] = "enqueue" =>
         \E h \in hmacWire : h.data = call[p].data /\ h.slot = Label(p)

\* The slot on an HMAC is not ahead, and in probabilistic mode it is over, before the
\* slot of the key, which is a real one unless it was read halfway through a copy.
HmacLabels ==
    \A h \in hmacWire :
        /\ h.slot <= slot
        /\ h.key = TornKey \/ Genuine(h.key)
        /\ Probabilistic => h.slot < slot /\ (Genuine(h.key) => h.slot < SlotOf(h.key))

MessageInv ==
    SlotInv /\ Custody /\ DataBefore /\ DataNotAfterKey /\ LabelsPast /\ QueueLabelled
        /\ HmacLabels /\ DelayFromLabel

\* Who has nothing to send.
Idlers == {"select", "idle", "done", "take"}

\* Steps that move no message: a message changes hands in the others.
Quiet ==
    /\ UNCHANGED <<messageBuffer, messageCounter, hmacWire>>
    /\ \A p \in Procs : /\ call'[p].data = call[p].data
                       /\ (pc'[p] \in Idlers <=> pc[p] \in Idlers)
                       /\ (pc'[p] = "enqueue" <=> pc[p] = "enqueue")

Dropped(p) == UNCHANGED <<messageBuffer, messageCounter, hmacWire>> /\ Return(p)

LEMMA MessageSteps ==
    ASSUME TypeOK, TicksPast, [Next]_vars
    PROVE  \/ Quiet
           \/ \E p \in Procs : Dropped(p)
           \/ LoopTraffic
           \/ \E p \in Procs : BufferForBatch(p)
           \/ \E p \in Procs : FlushTake(p) /\ messageBuffer # {}
           \/ \E p \in Procs : SendHmac(p)
<1> USE DEF chainVars, workerVars, wireVars, envVars
<1>0. /\ \A p \in Procs : call[p] \in Calls /\ call[p].after \in {"data", "mac"}
      /\ pc \in [Procs -> Pcs] /\ call \in [Procs -> Calls]
  BY DEF TypeOK, Calls
<1>1. CASE UNCHANGED <<messageBuffer, messageCounter, hmacWire, pc, call>>
  BY <1>1 DEF Quiet
<1>2. CASE Environment \/ DisclosureWorker \/ CleanupExit \/ Terminated \/ UNCHANGED vars
  BY <1>1, <1>2 DEF Environment, NewBlock, Shutdown, Poll, TickerExit, DisclosureWorker,
     WorkerTick, WorkerClosedTick, Drain, WorkerSend, WorkerScanned, WorkerExit, CleanupExit, Terminated, vars
<1>3. CASE LoopTick \/ LoopClosedTick \/ LoopExit
  <2>1. UNCHANGED <<messageBuffer, messageCounter, hmacWire>>
    BY <1>3 DEF LoopTick, LoopClosedTick, LoopExit
  <2>2. ASSUME NEW s, SpawnFlush(s) PROVE Quiet
    BY <1>0, <2>1, <2>2 DEF SpawnFlush, Quiet, Idlers, Calls
  <2>3. CASE LoopExit
    BY <1>0, <2>1, <2>3 DEF LoopExit, Quiet, Idlers
  <2> QED
    BY <1>3, <2>2, <2>3 DEF LoopTick, LoopClosedTick
<1>4. ASSUME NEW p \in Procs, CurrentSlotKey(p) PROVE Quiet \/ Dropped(p)
  <2>1. UNCHANGED <<messageBuffer, messageCounter, hmacWire>>
    BY <1>4 DEF CurrentSlotKey, CskEnter, CskGetSlot, CskGetSlotAgain, CskGetSlotFails, CskRefill,
       CskRefillRefused, CskNext, CskExhausted, CskReturn, Abort
  <2>2. CASE Abort(p)
    BY <2>1, <2>2 DEF Abort, GiveUp, Dropped
  <2>3. CASE ~Abort(p)
    <3>1. /\ pc'[p] \notin Idlers \union {"enqueue"} /\ pc[p] \notin Idlers \union {"enqueue"}
          /\ call'[p].data = call[p].data
      BY <1>0, <1>4, <2>3 DEF CurrentSlotKey, CskEnter, CskGetSlot, CskGetSlotAgain,
         CskGetSlotFails, CskRefill, CskRefillRefused, CskNext, CskExhausted,
         CskReturn, Calls, Idlers
    <3> QED
      BY <1>4, <2>1, <3>1, CskMoves DEF Quiet
  <2> QED
    BY <2>2, <2>3
<1>5. ASSUME NEW p \in Procs, SendData(p) PROVE Quiet
  BY <1>0, <1>5 DEF SendData, Quiet, Calls, Idlers
<1>6. ASSUME NEW p \in Procs, FlushTake(p), messageBuffer = {} PROVE Dropped(p)
  BY <1>6 DEF FlushTake, Dropped
<1>7. ASSUME NEW p \in Procs, ComputeHmac(p) PROVE Quiet
  BY <1>0, <1>7 DEF ComputeHmac, Quiet, Calls, Idlers
<1>9. ASSUME NEW p \in Procs, Enqueue(p) \/ BroadcastFails(p) PROVE Dropped(p)
  BY <1>9 DEF Enqueue, BroadcastFails, GiveUp, Dropped
<1> QED
  BY <1>2, <1>3, <1>4, <1>5, <1>6, <1>7, <1>9 DEF Next, BroadcastLoop, Broadcasting

LEMMA NextCustody == SlotInv /\ Custody /\ [Next]_vars => Custody'
<1> SUFFICES ASSUME SlotInv, Custody, [Next]_vars PROVE Custody'
  OBVIOUS
<1>0. /\ TypeOK /\ TicksPast /\ pc \in [Procs -> Pcs] /\ call \in [Procs -> Calls]
      /\ messageCounter \in Nat /\ messageBuffer \in SUBSET Nat
      /\ \A p \in Procs : call[p] \in Calls /\ call[p].data \in SUBSET Nat
      /\ \A h \in hmacWire : h.data \in SUBSET Nat
      /\ \A p \in Procs : NextIdle(p) \in Idlers
      /\ NoCall.data = {} /\ Loop \in Procs
  <2>1. Msgs \subseteq Nat
    BY SenderAssumption DEF Msgs
  <2>2. TypeOK /\ TicksPast
    BY DEF SlotInv, KeyInv
  <2>3. \A p \in Procs : call[p] \in Calls /\ call[p].data \in SUBSET Nat
    BY <2>1, <2>2 DEF TypeOK, Calls
  <2>4. \A h \in hmacWire : h.data \in SUBSET Nat
    BY <2>1, <2>2 DEF TypeOK, HmacPackets
  <2>5. NoCall.data = {} /\ Loop \in Procs /\ \A p \in Procs : NextIdle(p) \in Idlers
    BY DEF NextIdle, Idlers, NoCall, Procs
  <2> QED
    BY <2>1, <2>2, <2>3, <2>4, <2>5 DEF TypeOK
<1> USE DEF Custody
<1>1. CASE Quiet
  BY <1>1 DEF Quiet, Idlers
<1>2. ASSUME NEW p \in Procs, Dropped(p) PROVE Custody'
  <2>1. /\ UNCHANGED <<messageBuffer, messageCounter, hmacWire>>
        /\ pc'[p] \in Idlers /\ call'[p].data = {}
        /\ \A q \in Procs \ {p} : pc'[q] = pc[q] /\ call'[q] = call[q]
    BY <1>0, <1>2 DEF Dropped, Return
  <2> QED
    BY <2>1 DEF Idlers
<1>3. CASE LoopTraffic
  <2>1. /\ UNCHANGED <<messageBuffer, hmacWire>> /\ messageCounter' = messageCounter + 1
        /\ pc'[Loop] = "csk" /\ call'[Loop].data = {messageCounter}
        /\ \A q \in Procs \ {Loop} : pc'[q] = pc[q] /\ call'[q] = call[q]
    BY <1>0, <1>3 DEF LoopTraffic, wireVars, Calls
  <2>2. \A m \in Nat : m < messageCounter => m < messageCounter + 1 /\ m # messageCounter
    BY <1>0
  <2>3. /\ messageCounter \notin messageBuffer /\ \A h \in hmacWire : messageCounter \notin h.data
        /\ \A q \in Procs : messageCounter \notin call[q].data
    BY <1>0
  <2>4. \A q \in Procs, m \in Nat : m \in call'[q].data => m < messageCounter'
    BY <1>0, <2>1, <2>2
  <2>5. /\ \A m \in messageBuffer' : m < messageCounter'
        /\ \A h \in hmacWire' : \A m \in h.data : m < messageCounter'
    BY <1>0, <2>1, <2>2
  <2>6. \A q \in Procs : call'[q].data \in SUBSET Nat
    BY <1>0, <2>1
  <2>7. \A q \in Procs : (pc'[q] \in Idlers <=> call'[q].data = {})
    BY <1>0, <2>1 DEF Idlers
  <2>8. /\ \A q \in Procs : messageBuffer' \intersect call'[q].data = {}
        /\ \A q \in Procs : \A h \in hmacWire' : pc'[q] # "enqueue" => call'[q].data \intersect h.data = {}
        /\ \A h \in hmacWire' : messageBuffer' \intersect h.data = {}
    BY <2>1, <2>3
  <2>9. \A q, r \in Procs : q # r => call'[q].data \intersect call'[r].data = {}
    BY <2>1, <2>3
  <2>10. \A g, h \in hmacWire' : g.data # h.data => g.data \intersect h.data = {}
    BY <2>1
  <2> QED
    BY <2>4, <2>5, <2>6, <2>7, <2>8, <2>9, <2>10 DEF Idlers
<1>4. ASSUME NEW p \in Procs, BufferForBatch(p) PROVE Custody'
  <2>1. /\ UNCHANGED <<messageCounter, hmacWire>> /\ pc[p] # "enqueue"
        /\ messageBuffer' = messageBuffer \union call[p].data
        /\ pc'[p] \in Idlers /\ call'[p].data = {}
        /\ \A q \in Procs \ {p} : pc'[q] = pc[q] /\ call'[q] = call[q]
    BY <1>0, <1>4 DEF BufferForBatch, Return, wireVars
  <2> QED
    BY <2>1 DEF Idlers
<1>5. ASSUME NEW p \in Procs, FlushTake(p), messageBuffer # {} PROVE Custody'
  <2>1. /\ UNCHANGED <<messageCounter, hmacWire>> /\ messageBuffer' = {}
        /\ pc'[p] = "csk" /\ call'[p].data = messageBuffer
        /\ \A q \in Procs \ {p} : pc'[q] = pc[q] /\ call'[q] = call[q]
    BY <1>0, <1>5 DEF FlushTake, wireVars, Calls
  <2> QED
    BY <1>5, <2>1 DEF Idlers
<1>6. ASSUME NEW p \in Procs, SendHmac(p) PROVE Custody'
  <2> DEFINE new == [slot |-> Label(p), key |-> call[p].key, data |-> call[p].data]
  <2>1. /\ UNCHANGED <<messageCounter, messageBuffer, call>>
        /\ pc[p] = "hmac" /\ pc'[p] = "enqueue"
        /\ hmacWire' = hmacWire \union {new} /\ new.data = call[p].data
        /\ \A q \in Procs \ {p} : pc'[q] = pc[q]
    BY <1>0, <1>6 DEF SendHmac
  <2> HIDE DEF new
  <2>2. \A h \in hmacWire : call[p].data \intersect h.data = {}
    BY <2>1
  <2>3. \A q \in Procs : \A h \in hmacWire' :
           pc'[q] # "enqueue" => call'[q].data \intersect h.data = {}
    BY <2>1, <2>2
  <2>4. \A g, h \in hmacWire' : g.data # h.data => g.data \intersect h.data = {}
    BY <2>1, <2>2
  <2>5. \A q \in Procs : (pc'[q] \in Idlers <=> call'[q].data = {})
    BY <2>1 DEF Idlers
  <2> QED
    BY <2>1, <2>3, <2>4, <2>5 DEF Idlers
<1> QED
  BY <1>0, <1>1, <1>2, <1>3, <1>4, <1>5, <1>6, MessageSteps

\* Who sends a data packet, and that the tickers stop with the simulation only.
LEMMA DataAndTickers ==
    ASSUME TypeOK, [Next]_vars
    PROVE  /\ dataWire' = dataWire \/ \E p \in Procs : SendData(p)
           /\ ctxDone => ctxDone'
           /\ \A t \in Tickers : ticks[t].open /\ ~ctxDone => ticks'[t].open
<1> USE DEF chainVars, workerVars, wireVars, envVars
<1>1. CASE Environment
  BY <1>1 DEF Environment, NewBlock, Shutdown, Poll, TickerExit, TypeOK, TickerStates
<1>2. CASE LoopTick \/ WorkerTick
  <2>1. ASSUME NEW t \in Tickers, ticks' = Received(t)
        PROVE  \A u \in Tickers : ticks'[u].open = ticks[u].open
    BY <2>1 DEF Received, TypeOK, TickerStates
  <2>2. "worker" \in Tickers
    BY DEF Tickers
  <2>3. UNCHANGED <<ctxDone, dataWire>> /\ \E t \in Tickers : ticks' = Received(t)
    BY <1>2, <2>2 DEF LoopTick, WorkerTick, Drain
  <2> QED
    BY <2>1, <2>3
<1>3. ASSUME NEW p \in Procs, CurrentSlotKey(p) PROVE UNCHANGED <<ctxDone, dataWire, ticks>>
  BY <1>3 DEF CurrentSlotKey, CskEnter, CskGetSlot, CskGetSlotAgain, CskGetSlotFails,
     CskRefill, CskRefillRefused, CskNext, CskExhausted, CskReturn, Abort
<1>4. ASSUME NEW p \in Procs, Broadcasting(p)
      PROVE  UNCHANGED <<ctxDone, ticks>> /\ (dataWire' = dataWire \/ (SendData(p)))
  BY <1>4 DEF Broadcasting, SendData, BroadcastFails, BufferForBatch, FlushTake, ComputeHmac, SendHmac, Enqueue
<1>5. CASE \/ LoopTraffic \/ LoopClosedTick \/ LoopExit \/ WorkerClosedTick \/ WorkerSend
           \/ WorkerScanned \/ WorkerExit \/ CleanupExit \/ Terminated \/ UNCHANGED vars
  BY <1>5 DEF LoopTraffic, LoopClosedTick, LoopExit, WorkerClosedTick, Drain, WorkerSend,
     WorkerScanned, WorkerExit, CleanupExit, Terminated, vars
<1> QED
  BY <1>1, <1>2, <1>3, <1>4, <1>5 DEF Next, BroadcastLoop, DisclosureWorker

\* What a data packet is made of, and who could hold its message next.
LEMMA SentData ==
    ASSUME SlotInv, Custody, NEW p \in Procs, SendData(p), [Next]_vars
    PROVE  /\ dataWire' = dataWire \union {[slot |-> call[p].seen, data |-> call[p].data]}
           /\ call[p].data # {} /\ UNCHANGED <<issued, hmacWire>>
           /\ pc'[p] \in {"buffer", "csk"} /\ call'[p].data = call[p].data
           /\ \A q \in Procs \ {p} : /\ pc'[q] = pc[q] /\ call'[q] = call[q]
                                    /\ call[p].data \intersect call[q].data = {}
           /\ \A h \in hmacWire : call[p].data \intersect h.data = {}
<1>1. /\ pc[p] = "data" /\ call[p] \in Calls
      /\ pc \in [Procs -> Pcs] /\ call \in [Procs -> Calls]
  BY DEF SendData, SlotInv, KeyInv, TypeOK
<1> QED
  BY <1>1 DEF SendData, Custody, Calls, chainVars

LEMMA NextDataBefore == SlotInv /\ Custody /\ DataBefore /\ [Next]_vars => DataBefore'
<1> SUFFICES ASSUME SlotInv, Custody, DataBefore, [Next]_vars PROVE DataBefore'
  OBVIOUS
<1>1. /\ TypeOK /\ TicksPast /\ ReadSlots /\ slot \in Nat /\ slot' \in Nat /\ slot <= slot'
      /\ \A d \in dataWire : d.slot \in Nat
  <2>1. TypeOK /\ TicksPast /\ ReadSlots
    BY DEF SlotInv, KeyInv
  <2>2. \A d \in dataWire : d.slot \in Nat
    BY <2>1, SlotTypes DEF TypeOK, DataPackets
  <2> QED
    BY <2>1, <2>2, SlotNats, Writers
<1>2. \A d \in dataWire' : d.data # {} /\ d.slot <= slot'
  <2>1. \A d \in dataWire : d.data # {} /\ d.slot <= slot'
    BY <1>1 DEF DataBefore
  <2>2. ASSUME NEW p \in Procs, SendData(p)
        PROVE  \A d \in dataWire' : d.data # {} /\ d.slot <= slot'
    <3>1. call[p].seen <= slot' /\ call[p].data # {}
      <4>1. call[p].data # {}
        BY <2>2, SentData
      <4>2. call[p].seen \in Nat
        BY <1>1, SlotNats
      <4>3. call[p].seen <= slot
        BY <1>1 DEF ReadSlots
      <4> QED
        BY <1>1, <4>1, <4>2, <4>3
    <3> QED
      BY <2>1, <2>2, <3>1, SentData
  <2> QED
    BY <1>1, <2>1, <2>2, DataAndTickers
<1> DEFINE Looks(q) == (pc[q] \in {"refill", "slot", "advance"} /\ call[q].after = "mac")
                          \/ pc[q] \in {"mac", "hmac"}
<1>3. ASSUME NEW p \in Procs, Looks(p)', NEW d \in dataWire, d.data \subseteq call'[p].data
      PROVE  d.slot <= call'[p].seen
  <2>1. /\ call[p] \in Calls /\ call[p].seen \in Nat /\ call[p].seen <= slot /\ cachedKeySlot \in Nat
        /\ Moved(p) /\ NextIdle(p) \in {"select", "idle"} /\ d.slot \in Nat /\ d.slot <= slot
    BY <1>1, SlotNats, Moves DEF ReadSlots, NextIdle, DataBefore
  <2>2. CASE pc'[p] = pc[p] /\ call'[p] = call[p]
    BY <1>3, <2>2 DEF DataBefore
  <2>3. CASE call'[p] = [call[p] EXCEPT !.seen = slot]
    BY <2>1, <2>3 DEF Calls
  <2>4. CASE pc[p] = "refill" /\ pc'[p] = "slot" /\ call'[p] = call[p]
    BY <1>3, <2>4 DEF DataBefore
  <2>5. CASE pc[p] = "advance" /\ pc'[p] = call[p].after /\ ~Behind(p)
             /\ call'[p] = [call[p] EXCEPT !.seen = cachedKeySlot]
    <3>1. call[p].after = "mac" /\ call'[p].data = call[p].data /\ call'[p].seen = cachedKeySlot
      BY <1>3, <2>1, <2>5 DEF Calls
    <3>2. d.slot <= call[p].seen /\ call[p].seen <= cachedKeySlot
      BY <1>3, <2>1, <2>5, <3>1 DEF DataBefore, Behind
    <3> QED
      BY <2>1, <3>1, <3>2
  <2>6. CASE pc[p] = "mac" /\ pc'[p] = "hmac" /\ \E k \in KeyReads(p) : call'[p] = [call[p] EXCEPT !.key = k]
    BY <1>3, <2>1, <2>6 DEF DataBefore, Calls
  <2>7. CASE pc'[p] \in {"select", "idle", "done", "take", "csk", "top", "buffer", "enqueue"}
    BY <1>3, <2>7
  <2> QED
    BY <1>3, <2>1, <2>2, <2>3, <2>4, <2>5, <2>6, <2>7 DEF Moved
<1>4. ASSUME NEW p \in Procs, Looks(p)', NEW d \in dataWire', d \notin dataWire,
             d.data \subseteq call'[p].data
      PROVE  FALSE
  <2>1. PICK q \in Procs : SendData(q)
    BY <1>1, <1>4, DataAndTickers
  <2>2. d.data = call[q].data
    BY <1>4, <2>1, SentData
  <2>3. p # q
    BY <1>4, <2>1, SentData
  <2> QED
    BY <1>4, <2>1, <2>2, <2>3, SentData
<1> QED
  BY <1>2, <1>3, <1>4 DEF DataBefore

\* What an HMAC packet is made of.
LEMMA SentHmac ==
    ASSUME SlotInv, Custody, NEW p \in Procs, SendHmac(p)
    PROVE  /\ pc[p] = "hmac" /\ pc'[p] = "enqueue" /\ call' = call
           /\ hmacWire' = hmacWire \union
                  {[slot |-> Label(p), key |-> call[p].key, data |-> call[p].data]}
           /\ UNCHANGED <<slot, issued, ctxDone, dataWire>>
           /\ Label(p) \in Nat /\ call[p].seen \in Nat /\ call[p].key \in Keys
           /\ call[p].key # TornKey =>
                  Genuine(call[p].key) /\ call[p].seen <= SlotOf(call[p].key)
  BY SlotNats DEF SendHmac, SlotInv, KeyInv, TypeOK, ReadKeys, Label, envVars, chainVars

LEMMA HmacSenders == ASSUME TypeOK, [Next]_vars
                     PROVE hmacWire' = hmacWire \/ \E p \in Procs : SendHmac(p)
  BY Writers DEF SendHmac

\* The keys of HMACs keep their slots.
LEMMA WireKeysKept ==
    ASSUME SlotInv, HmacLabels, [Next]_vars, NEW h \in hmacWire
    PROVE  /\ h.key \in Keys /\ (h.key = TornKey \/ Genuine(h.key))
           /\ (h.key = TornKey \/ Genuine(h.key)')
           /\ Genuine(h.key)' => Genuine(h.key) /\ SlotOf(h.key)' = SlotOf(h.key)
<1>1. TypeOK /\ h.key \in Keys
  BY DEF SlotInv, KeyInv, TypeOK, HmacPackets
<1>2. Genuine(h.key) => Genuine(h.key)' /\ SlotOf(h.key)' = SlotOf(h.key)
  BY <1>1, GenuineKeysKept DEF Genuine, SlotOf
<1>3. h.key = TornKey => ~Genuine(h.key)'
  BY DEF Genuine, TornKey, KeyOf
<1> QED
  BY <1>1, <1>2, <1>3 DEF HmacLabels

LEMMA NextHmacLabels ==
    SlotInv /\ Custody /\ LabelsPast /\ HmacLabels /\ [Next]_vars => HmacLabels'
<1> SUFFICES ASSUME SlotInv, Custody, LabelsPast, HmacLabels, [Next]_vars PROVE HmacLabels'
  OBVIOUS
<1>1. /\ TypeOK /\ ReadSlots /\ slot \in Nat /\ slot' \in Nat /\ slot <= slot'
      /\ \A h \in hmacWire : h.slot \in Nat
  <2>1. TypeOK /\ ReadSlots
    BY DEF SlotInv, KeyInv
  <2>2. \A h \in hmacWire : h.slot \in Nat
    BY <2>1, SenderAssumption DEF TypeOK, HmacPackets, UintSlots
  <2> QED
    BY <2>1, <2>2, SlotNats, Writers
<1>2. ASSUME NEW h \in hmacWire
      PROVE  /\ h.slot <= slot'
             /\ h.key = TornKey \/ Genuine(h.key)'
             /\ Probabilistic => h.slot < slot' /\ (Genuine(h.key)' => h.slot < SlotOf(h.key)')
  BY <1>1, WireKeysKept DEF HmacLabels
<1>3. CASE hmacWire' = hmacWire
  BY <1>2, <1>3 DEF HmacLabels, Genuine, SlotOf
<1>4. ASSUME NEW p \in Procs, SendHmac(p) PROVE HmacLabels'
  <2> DEFINE k == call[p].key
             l == Label(p)
  <2>1. /\ pc[p] = "hmac" /\ UNCHANGED <<slot, issued>> /\ l \in Nat /\ call[p].seen \in Nat
        /\ k \in Keys /\ (k # TornKey => Genuine(k) /\ call[p].seen <= SlotOf(k))
        /\ hmacWire' = hmacWire \union {[slot |-> l, key |-> k, data |-> call[p].data]}
        /\ (Genuine(k) => SlotOf(k) \in Int)
    BY <1>1, <1>4, SentHmac, SlotNats
  <2>2. call[p].seen <= slot /\ call[p].slot < slot /\ call[p].slot < call[p].seen
    BY <1>1, <1>4, <2>1 DEF ReadSlots, LabelsPast, SendHmac
  <2>3. l <= slot /\ (Probabilistic => l < slot /\ l < call[p].seen)
    BY <1>1, <2>1, <2>2 DEF Label
  <2> HIDE DEF k, l
  <2>4. Probabilistic => (Genuine(k) => l < SlotOf(k))
    <3>1. ~Genuine(TornKey)
      BY DEF Genuine, TornKey, KeyOf
    <3> QED
      BY <2>1, <2>3, <3>1
  <2> QED
    BY <1>2, <2>1, <2>3, <2>4 DEF HmacLabels, Genuine, SlotOf
<1> QED
  BY <1>1, <1>3, <1>4, HmacSenders

LEMMA NextDataNotAfterKey ==
    SlotInv /\ Custody /\ DataBefore /\ HmacLabels /\ DataNotAfterKey /\ [Next]_vars
        => DataNotAfterKey'
<1> SUFFICES ASSUME SlotInv, Custody, DataBefore, HmacLabels, DataNotAfterKey, [Next]_vars,
                    NEW d \in dataWire', NEW h \in hmacWire',
                    d.data \subseteq h.data, Genuine(h.key)'
             PROVE  d.slot <= SlotOf(h.key)'
  BY DEF DataNotAfterKey, Genuine, SlotOf
<1>1. TypeOK /\ \A e \in dataWire : e.slot \in Nat /\ e.data # {}
  BY SlotTypes DEF SlotInv, KeyInv, TypeOK, DataPackets, DataBefore
<1>2. CASE d \in dataWire /\ h \in hmacWire
  <2>1. Genuine(h.key) /\ SlotOf(h.key)' = SlotOf(h.key)
    BY <1>2, WireKeysKept
  <2> QED
    BY <1>2, <2>1 DEF DataNotAfterKey
<1>3. ASSUME NEW p \in Procs, SendData(p), d \notin dataWire PROVE FALSE
  <2>1. d.data = call[p].data /\ call[p].data # {} /\ h \in hmacWire
    BY <1>3, SentData
  <2> QED
    BY <1>3, <2>1, SentData
<1>4. ASSUME NEW p \in Procs, SendHmac(p), h \notin hmacWire
      PROVE  d.slot <= SlotOf(h.key)'
  <2>1. /\ d \in dataWire /\ pc[p] = "hmac" /\ h.key = call[p].key /\ h.data = call[p].data
        /\ issued' = issued /\ call[p].key \in Keys /\ call[p].seen \in Nat
        /\ call[p].key # TornKey =>
               Genuine(call[p].key) /\ call[p].seen <= SlotOf(call[p].key)
    BY <1>4, SentHmac
  <2>2. call[p].key # TornKey
    BY <2>1 DEF Genuine, TornKey, KeyOf
  <2>3. d.slot <= call[p].seen
    BY <2>1 DEF DataBefore
  <2>4. SlotOf(h.key)' = SlotOf(call[p].key) /\ SlotOf(call[p].key) \in Int
    BY <1>1, <2>1, <2>2, SlotNats DEF SlotOf
  <2> QED
    BY <1>1, <2>1, <2>2, <2>3, <2>4
<1> QED
  BY <1>1, <1>2, <1>3, <1>4, DataAndTickers, HmacSenders

LEMMA NextLabelsPast == SlotInv /\ LabelsPast /\ [Next]_vars => LabelsPast'
<1> SUFFICES ASSUME SlotInv, LabelsPast, [Next]_vars, ~ctxDone'
             PROVE  /\ \A t \in Tickers : ticks'[t].open
                    /\ \A p \in Procs : call'[p].slot < slot'
                    /\ \A p \in Procs : pc'[p] \in {"refill", "slot", "advance", "mac", "hmac"} =>
                                            call'[p].slot < call'[p].seen
  BY DEF LabelsPast
<1>1. TypeOK /\ TicksPast /\ slot \in Nat /\ slot > 0 /\ slot' \in Nat /\ slot <= slot'
  BY SlotNats, Writers DEF SlotInv, KeyInv
<1>2. \A t \in Tickers : ticks[t].open /\ ticks'[t].open
  BY <1>1, DataAndTickers DEF LabelsPast
<1>3. ASSUME NEW p \in Procs
      PROVE  /\ call'[p].slot < slot'
             /\ pc'[p] \in {"refill", "slot", "advance", "mac", "hmac"} =>
                    call'[p].slot < call'[p].seen
  <2>1. /\ call[p] \in Calls /\ call[p].seen \in Nat /\ call[p].slot \in Nat
        /\ cachedKeySlot \in Nat /\ call[p].after \in {"data", "mac"}
        /\ Moved(p) /\ NextIdle(p) \in {"select", "idle"} /\ NoCall.slot = 0
        /\ call[p].slot < slot
        /\ pc[p] \in {"refill", "slot", "advance", "mac", "hmac"} => call[p].slot < call[p].seen
    BY <1>1, SlotNats, Moves, DataAndTickers DEF Calls, NextIdle, NoCall, LabelsPast
  <2>2. CASE pc'[p] = pc[p] /\ call'[p] = call[p]
    BY <1>1, <2>1, <2>2
  <2>3. CASE pc'[p] = NextIdle(p) /\ call'[p] = NoCall
    BY <1>1, <2>1, <2>3
  <2>4. CASE pc[p] = "idle" /\ pc'[p] = "take" /\ slot' = slot
    <3>1. CASE \E s \in UintSlots : call'[p] = [call[p] EXCEPT !.slot = s] /\ s < slot
      BY <2>1, <2>4, <3>1 DEF Calls
    <3>2. "loop" \in Tickers => ticks["loop"].open
      BY <1>2
    <3> QED
      BY <2>1, <2>4, <3>1, <3>2 DEF Moved
  <2>5. CASE /\ pc'[p] \notin {"refill", "slot", "advance", "mac", "hmac"}
             /\ call'[p].slot = call[p].slot
    BY <1>1, <2>1, <2>5
  <2>6. CASE call'[p] = [call[p] EXCEPT !.seen = slot] /\ slot' = slot
    BY <2>1, <2>6 DEF Calls
  <2>7. CASE pc[p] = "refill" /\ call'[p] = call[p]
    BY <1>1, <2>1, <2>7
  <2>8. CASE pc[p] = "advance" /\ ~Behind(p) /\ call'[p] = [call[p] EXCEPT !.seen = cachedKeySlot]
    BY <1>1, <2>1, <2>8 DEF Behind, Calls
  <2>9. CASE pc[p] = "mac" /\ \E k \in KeyReads(p) : call'[p] = [call[p] EXCEPT !.key = k]
    BY <1>1, <2>1, <2>9 DEF Calls
  <2> QED
    BY <2>1, <2>2, <2>3, <2>4, <2>5, <2>6, <2>7, <2>8, <2>9 DEF Moved, Calls
<1> QED
  BY <1>2, <1>3

\* The way to "enqueue" is an HMAC that was sent.
LEMMA OnlySendHmac ==
    ASSUME TypeOK, [Next]_vars, NEW p \in Procs, pc[p] = "hmac", pc'[p] = "enqueue"
    PROVE  SendHmac(p)
<1> USE DEF TypeOK
<1>1. ASSUME NEW q \in Procs, CurrentSlotKey(q) PROVE FALSE
  <2>1. pc[q] # "hmac"
    BY <1>1 DEF CurrentSlotKey, CskEnter, CskGetSlot, CskGetSlotAgain, CskGetSlotFails, CskRefill,
       CskRefillRefused, CskNext, CskExhausted, CskReturn
  <2> QED
    BY <1>1, <2>1, CskMoves
<1>2. ASSUME NEW q \in Procs, Broadcasting(q) PROVE SendHmac(p)
  <2>1. CASE SendHmac(q)
    BY <2>1 DEF SendHmac
  <2>2. CASE \/ SendData(q) \/ BroadcastFails(q) \/ BufferForBatch(q) \/ FlushTake(q)
             \/ ComputeHmac(q) \/ Enqueue(q)
    BY <2>2 DEF SendData, BroadcastFails, BufferForBatch, FlushTake, ComputeHmac, Enqueue,
       GiveUp, Return, NextIdle
  <2> QED
    BY <1>2, <2>1, <2>2 DEF Broadcasting
<1>3. CASE BroadcastLoop
  BY <1>3 DEF BroadcastLoop, LoopTraffic, LoopTick, LoopClosedTick, LoopExit, SpawnFlush
<1>4. CASE Environment \/ DisclosureWorker \/ CleanupExit \/ Terminated \/ UNCHANGED vars
  BY <1>4 DEF Environment, NewBlock, Shutdown, Poll, TickerExit, DisclosureWorker, WorkerTick,
     WorkerClosedTick, Drain, WorkerSend, WorkerScanned, WorkerExit, CleanupExit, Terminated, vars
<1> QED
  BY <1>1, <1>2, <1>3, <1>4 DEF Next

LEMMA NextQueueLabelled ==
    SlotInv /\ Custody /\ HmacLabels /\ QueueLabelled /\ [Next]_vars => QueueLabelled'
<1> SUFFICES ASSUME SlotInv, Custody, HmacLabels, QueueLabelled, [Next]_vars PROVE QueueLabelled'
  OBVIOUS
<1>1. /\ TypeOK /\ TicksPast /\ hmacWire \subseteq hmacWire'
      /\ disclosureQueue \in Seq(Labelled) /\ pending \in Seq(Labelled)
  <2>1. TypeOK /\ TicksPast
    BY DEF SlotInv, KeyInv
  <2> QED
    BY <2>1, HmacSenders, SentHmac DEF QueueLabelled
<1>2. Labelled \subseteq Labelled'
  BY <1>1 DEF Labelled
<1>3. disclosureQueue' \in Seq(Labelled) /\ pending' \in Seq(Labelled)
  <2>1. CASE disclosureQueue' = disclosureQueue /\ pending' = pending
    BY <1>1, <2>1
  <2>2. ASSUME NEW p \in Procs, Enqueue(p)
        PROVE  disclosureQueue' \in Seq(Labelled) /\ pending' \in Seq(Labelled)
    <3>1. PICK h \in hmacWire : h.data = call[p].data /\ h.slot = Label(p)
      BY <2>2 DEF Enqueue, QueueLabelled
    <3>2. h.slot \in 0..MaxSlot
      <4>1. h.slot \in Nat /\ h.slot <= slot /\ slot \in 1..MaxSlot
        BY <1>1, SenderAssumption DEF HmacLabels, TypeOK, HmacPackets, UintSlots
      <4> QED
        BY <4>1, SenderAssumption
    <3>3. TargetSlot(p) = h.slot + DisclosureDelay /\ TargetSlot(p) \in UintSlots
      <4>1. h.slot + DisclosureDelay \in UintSlots
        BY <3>2, SenderAssumption DEF UintSlots
      <4> QED
        BY <3>1, <4>1, UintExact DEF TargetSlot
    <3>4. call[p].data \in SUBSET Msgs /\ \A k \in KeyReads(p) : k \in Keys
      <4>1. call[p] \in Calls /\ cachedKey \in Keys
        BY <1>1 DEF TypeOK
      <4> QED
        BY <4>1, KeyTypes DEF Calls, KeyReads
    <3>5. ASSUME NEW k \in KeyReads(p)
          PROVE  [key |-> k, data |-> call[p].data, target |-> TargetSlot(p)] \in Labelled
      BY <3>1, <3>3, <3>4 DEF Labelled, Disclosures
    <3>6. pending' = pending
      BY <2>2 DEF Enqueue, workerVars
    <3>7. CASE disclosureQueue' = disclosureQueue
      BY <1>1, <3>6, <3>7
    <3>8. ASSUME NEW k \in KeyReads(p),
                 disclosureQueue' = Append(disclosureQueue,
                     [key |-> k, data |-> call[p].data, target |-> TargetSlot(p)])
          PROVE  disclosureQueue' \in Seq(Labelled)
      BY <1>1, <3>5, <3>8
    <3> QED
      BY <1>1, <2>2, <3>6, <3>7, <3>8 DEF Enqueue
  <2>3. ASSUME NEW s \in Slots, Drain(s)
        PROVE  disclosureQueue' \in Seq(Labelled) /\ pending' \in Seq(Labelled)
    BY <1>1, <2>3 DEF Drain
  <2>4. CASE WorkerSend
    BY <1>1, <2>4 DEF WorkerSend, Ready
  <2> QED
    BY <1>1, <2>1, <2>2, <2>3, <2>4, Writers
<1>4. ASSUME NEW p \in Procs, pc'[p] = "enqueue"
      PROVE  \E h \in hmacWire' : h.data = call'[p].data /\ h.slot = Label(p)'
  <2>1. Moved(p) /\ call[p] \in Calls /\ NextIdle(p) \in {"select", "idle"}
    BY <1>1, Moves DEF TypeOK, NextIdle
  <2>2. CASE pc'[p] = pc[p] /\ call'[p] = call[p]
    BY <1>1, <1>4, <2>2 DEF QueueLabelled, Label
  <2>3. CASE pc[p] = "hmac"
    <3>1. SendHmac(p)
      BY <1>1, <1>4, <2>3, OnlySendHmac
    <3>2. [slot |-> Label(p), key |-> call[p].key, data |-> call[p].data] \in hmacWire' /\ call' = call
      BY <3>1, SentHmac
    <3> QED
      BY <3>2 DEF Label
  <2> QED
    BY <1>4, <2>1, <2>2, <2>3 DEF Moved, Calls
<1> QED
  BY <1>2, <1>3, <1>4, SeqMonotonic DEF QueueLabelled

LEMMA NextDelayFromLabel ==
    SlotInv /\ Custody /\ QueueLabelled /\ DelayFromLabel /\ [Next]_vars => DelayFromLabel'
<1> SUFFICES ASSUME SlotInv, Custody, QueueLabelled, DelayFromLabel, [Next]_vars,
                    NEW k \in keyWire'
             PROVE  \E h \in hmacWire' : h.data = k.data /\ h.slot + DisclosureDelay <= k.slot
  BY DEF DelayFromLabel
<1>1. TypeOK /\ hmacWire \subseteq hmacWire'
  <2>1. TypeOK
    BY DEF SlotInv, KeyInv
  <2> QED
    BY <2>1, HmacSenders, SentHmac
<1>2. CASE k \in keyWire
  BY <1>1, <1>2 DEF DelayFromLabel
<1>3. CASE k \notin keyWire
  <2>1. WorkerSend
    BY <1>1, <1>3, Writers
  <2>2. /\ k = [slot |-> worker.slot, key |-> Head(pending).key, data |-> Head(pending).data]
        /\ Head(pending).target <= worker.slot /\ Head(pending) \in Labelled
    BY <1>3, <2>1 DEF WorkerSend, Ready, QueueLabelled
  <2> QED
    BY <1>1, <2>2 DEF Labelled
<1> QED
  BY <1>2, <1>3

LEMMA InitMessageInv == Init => MessageInv
<1> SUFFICES ASSUME Init PROVE MessageInv
  OBVIOUS
<1>1. Custody
  BY DEF Init, Custody, NoCall, NextIdle
<1>2. LabelsPast
  BY DEF Init, LabelsPast, NoCall, NextIdle
<1>3. DataBefore /\ DataNotAfterKey /\ HmacLabels /\ DelayFromLabel
  BY DEF Init, DataBefore, DataNotAfterKey, HmacLabels, DelayFromLabel, NextIdle
<1>4. QueueLabelled
  BY DEF Init, QueueLabelled, NextIdle
<1> QED
  BY <1>1, <1>2, <1>3, <1>4, InitSlotInv DEF MessageInv

LEMMA NextMessageInv == MessageInv /\ [Next]_vars => MessageInv'
  BY NextSlotInv, NextCustody, NextDataBefore, NextDataNotAfterKey, NextLabelsPast,
     NextQueueLabelled, NextHmacLabels, NextDelayFromLabel DEF MessageInv

\* In either mode an HMAC is made with the key of the slot on the message's data packet
\* or of a later one: whatever blocks, refills and other goroutines' calls come between
\* the two calls of CurrentSlotKey.
THEOREM SenderDataNotAfterKey == Spec => []DataNotAfterKey
<1>1. MessageInv => DataNotAfterKey
  BY DEF MessageInv
<1> QED
  BY <1>1, InitMessageInv, NextMessageInv, PTL DEF Spec

\* The buffer, the batches in the hands of any number of flushers and those on the wire
\* never share a message.
THEOREM SenderNoMessageInTwoBatches == Spec => []NoMessageInTwoBatches
<1>1. MessageInv => NoMessageInTwoBatches
  <2> SUFFICES ASSUME MessageInv PROVE NoMessageInTwoBatches
    OBVIOUS
  <2>1. Custody /\ \A p \in Procs : Batches(p) \subseteq call[p].data
    BY DEF MessageInv, Batches
  <2> QED
    BY <2>1 DEF NoMessageInTwoBatches, Custody
<1> QED
  BY <1>1, InitMessageInv, NextMessageInv, PTL DEF Spec

\* In either mode what is disclosed is the payload of an HMAC that was sent, at least
\* the delay after the slot on it: stale ticks and flushes that overtake each other
\* make a disclosure late, never early.
THEOREM SenderDelayFromLabel == Spec => []DelayFromLabel
<1>1. MessageInv => DelayFromLabel
  BY DEF MessageInv
<1> QED
  BY <1>1, InitMessageInv, NextMessageInv, PTL DEF Spec

\* In probabilistic mode no batch is labelled with a slot that is not over, none with the
\* slot that wraps when the ticker's channel is closed, and the key of a batch, when it is
\* one of a chain, is of a later slot than the label.
THEOREM SenderBatchKeyIsLater == ASSUME Probabilistic PROVE Spec => []BatchKeyIsLater
<1>1. MessageInv => BatchKeyIsLater
  BY DEF MessageInv, HmacLabels, BatchKeyIsLater
<1> QED
  BY <1>1, InitMessageInv, NextMessageInv, PTL DEF Spec
-----------------------------------------------------------------------------
(* Where a message is.                                                       *)

\* It waits, was given up, is in somebody's hands or has been disclosed.
Kept(m) ==
    \/ m \in messageBuffer \union lost
    \/ \E p \in Procs : m \in call[p].data
    \/ \E i \in DOMAIN disclosureQueue : m \in disclosureQueue[i].data
    \/ \E i \in DOMAIN pending : m \in pending[i].data
    \/ \E k \in keyWire : m \in k.data

AllKept == \A m \in 0..(messageCounter - 1) : Kept(m)

\* What has been given up or disclosed stays so, and the buffer is emptied by a flush only.
LEMMA KeptGrows ==
    ASSUME [Next]_vars
    PROVE  /\ lost \subseteq lost' /\ keyWire \subseteq keyWire'
           /\ messageBuffer \subseteq messageBuffer' \/ \E p \in Procs : FlushTake(p)
<1> USE DEF chainVars, workerVars, wireVars, envVars
<1>1. CASE Environment
  BY <1>1 DEF Environment, NewBlock, Shutdown, Poll, TickerExit
<1>2. CASE BroadcastLoop
  BY <1>2 DEF BroadcastLoop, LoopTraffic, LoopTick, LoopClosedTick, LoopExit
<1>3. ASSUME NEW p \in Procs, CurrentSlotKey(p)
      PROVE  lost \subseteq lost' /\ UNCHANGED <<keyWire, messageBuffer>>
  BY <1>3 DEF CurrentSlotKey, CskEnter, CskGetSlot, CskGetSlotAgain, CskGetSlotFails,
     CskRefill, CskRefillRefused, CskNext, CskExhausted, CskReturn, Abort, GiveUp
<1>4. ASSUME NEW p \in Procs, Broadcasting(p), ~FlushTake(p)
      PROVE  lost \subseteq lost' /\ keyWire' = keyWire /\ messageBuffer \subseteq messageBuffer'
  BY <1>4 DEF Broadcasting, SendData, BroadcastFails, BufferForBatch, ComputeHmac, SendHmac,
     Enqueue, GiveUp
<1>5. ASSUME NEW p \in Procs, FlushTake(p) PROVE UNCHANGED <<lost, keyWire>>
  BY <1>5 DEF FlushTake
<1>6. CASE DisclosureWorker
  BY <1>6 DEF DisclosureWorker, WorkerTick, WorkerClosedTick, Drain, WorkerSend,
     WorkerScanned, WorkerExit
<1>7. CASE CleanupExit \/ Terminated \/ UNCHANGED vars
  BY <1>7 DEF CleanupExit, Terminated, vars
<1> QED
  BY <1>1, <1>2, <1>3, <1>4, <1>5, <1>6, <1>7 DEF Next

\* What waits for its disclosure keeps waiting, is disclosed, or is logged.
LEMMA KeptQueued ==
    ASSUME TypeOK, [Next]_vars, NEW m,
           \/ \E i \in DOMAIN disclosureQueue : m \in disclosureQueue[i].data
           \/ \E i \in DOMAIN pending : m \in pending[i].data
    PROVE  Kept(m)'
<1>0. disclosureQueue \in Seq(Disclosures) /\ pending \in Seq(Disclosures)
  BY DEF TypeOK
<1> USE DEF Kept
<1>1. CASE disclosureQueue' = disclosureQueue /\ pending' = pending
  BY <1>1
<1>2. ASSUME NEW p \in Procs, Enqueue(p) PROVE Kept(m)'
  <2>1. pending' = pending
    BY <1>2 DEF Enqueue, workerVars
  <2>2. ASSUME NEW d, disclosureQueue' = Append(disclosureQueue, d)
        PROVE  \A i \in DOMAIN disclosureQueue :
                  i \in DOMAIN disclosureQueue' /\ disclosureQueue'[i] = disclosureQueue[i]
    BY <1>0, <2>2
  <2>3. \/ disclosureQueue' = disclosureQueue
        \/ \E d : disclosureQueue' = Append(disclosureQueue, d)
    BY <1>2 DEF Enqueue
  <2> QED
    BY <1>1, <2>1, <2>2, <2>3
<1>3. ASSUME NEW s \in Slots, Drain(s) PROVE Kept(m)'
  <2>1. pending' = pending \o disclosureQueue
    BY <1>3 DEF Drain
  <2>2. /\ \A i \in DOMAIN pending : i \in DOMAIN pending' /\ pending'[i] = pending[i]
        /\ \A i \in DOMAIN disclosureQueue :
              /\ i + Len(pending) \in DOMAIN pending'
              /\ pending'[i + Len(pending)] = disclosureQueue[i]
    BY <1>0, <2>1
  <2> QED
    BY <2>2
<1>4. CASE WorkerSend
  <2>1. /\ pending # <<>> /\ pending' = Tail(pending) /\ disclosureQueue' = disclosureQueue
        /\ \A n \in Head(pending).data : n \in lost' \/ \E k \in keyWire' : n \in k.data
    BY <1>4 DEF WorkerSend, Ready
  <2>2. \A i \in DOMAIN pending :
           \/ pending[i] = Head(pending)
           \/ i - 1 \in DOMAIN pending' /\ pending'[i - 1] = pending[i]
    BY <1>0, <2>1
  <2> QED
    BY <2>1, <2>2
<1> QED
  BY <1>1, <1>2, <1>3, <1>4, Writers

\* Who lets go of a message has buffered it, queued it, or reported an error.
LEMMA KeptInHand ==
    ASSUME TypeOK, Custody, [Next]_vars, NEW p \in Procs, NEW m \in call[p].data
    PROVE  Kept(m)'
<1>0. /\ pc[p] \notin Idlers /\ call \in [Procs -> Calls] /\ call[p] \in Calls
      /\ disclosureQueue \in Seq(Disclosures)
  BY DEF Custody, TypeOK, Idlers
<1> USE DEF Kept
<1>1. CASE call'[p].data = call[p].data
  BY <1>1
<1>2. CASE Environment \/ DisclosureWorker \/ CleanupExit \/ Terminated \/ UNCHANGED vars
  BY <1>1, <1>2 DEF Environment, NewBlock, Shutdown, Poll, TickerExit, DisclosureWorker,
     WorkerTick, WorkerClosedTick, Drain, WorkerSend, WorkerScanned, WorkerExit, CleanupExit,
     Terminated, vars
<1>3. CASE BroadcastLoop
  <2>1. ASSUME NEW s, SpawnFlush(s) PROVE call'[p].data = call[p].data
    BY <1>0, <2>1 DEF SpawnFlush, Calls
  <2>2. CASE LoopTraffic
    <3>1. p # Loop
      BY <1>0, <2>2 DEF LoopTraffic, Idlers
    <3> QED
      BY <1>0, <1>1, <2>2, <3>1 DEF LoopTraffic
  <2>3. CASE LoopExit
    BY <1>1, <2>3 DEF LoopExit
  <2> QED
    BY <1>1, <1>3, <2>1, <2>2, <2>3 DEF BroadcastLoop, LoopTick, LoopClosedTick
<1>4. ASSUME NEW q \in Procs, Return(q), q # p PROVE Kept(m)'
  BY <1>0, <1>1, <1>4 DEF Return
<1>5. ASSUME GiveUp(p) PROVE Kept(m)'
  BY <1>5 DEF GiveUp
<1>6. ASSUME NEW q \in Procs, CurrentSlotKey(q) PROVE Kept(m)'
  <2>1. CASE q # p
    BY <1>1, <1>6, <2>1, CskMoves
  <2>2. CASE q = p /\ ~Abort(p)
    <3>1. call'[p].data = call[p].data
      BY <1>0, <1>6, <2>2 DEF CurrentSlotKey, CskEnter, CskGetSlot, CskGetSlotAgain,
         CskGetSlotFails, CskRefill, CskRefillRefused, CskNext, CskExhausted, CskReturn, Calls
    <3> QED
      BY <1>1, <3>1
  <2>3. CASE q = p /\ Abort(p)
    BY <1>5, <2>3 DEF Abort
  <2> QED
    BY <2>1, <2>2, <2>3
<1>7. ASSUME NEW q \in Procs, Broadcasting(q) PROVE Kept(m)'
  <2>1. CASE SendData(q) \/ ComputeHmac(q) \/ SendHmac(q)
    <3>1. call'[p].data = call[p].data
      BY <1>0, <2>1 DEF SendData, ComputeHmac, SendHmac, Calls
    <3> QED
      BY <1>1, <3>1
  <2>2. CASE FlushTake(q)
    <3>1. p # q
      BY <1>0, <2>2 DEF FlushTake, Idlers
    <3> QED
      BY <1>0, <1>1, <1>4, <2>2, <3>1 DEF FlushTake
  <2>3. CASE BufferForBatch(q)
    <3>1. p = q => m \in messageBuffer'
      BY <2>3 DEF BufferForBatch
    <3> QED
      BY <1>4, <2>3, <3>1 DEF BufferForBatch
  <2>4. CASE BroadcastFails(q)
    BY <1>4, <1>5, <2>4 DEF BroadcastFails, GiveUp
  <2>5. CASE Enqueue(q)
    <3>1. p # q => Kept(m)'
      BY <1>4, <2>5 DEF Enqueue, GiveUp
    <3>2. CASE p = q /\ GiveUp(p)
      BY <1>5, <3>2
    <3>3. ASSUME NEW d, d.data = call[p].data, disclosureQueue' = Append(disclosureQueue, d)
          PROVE  Kept(m)'
      <4>1. /\ Len(disclosureQueue) + 1 \in DOMAIN disclosureQueue'
            /\ disclosureQueue'[Len(disclosureQueue) + 1] = d
        BY <1>0, <3>3
      <4> QED
        BY <3>3, <4>1
    <3>4. p = q => GiveUp(p) \/ \E d : /\ d.data = call[p].data
                                     /\ disclosureQueue' = Append(disclosureQueue, d)
      BY <2>5 DEF Enqueue
    <3> QED
      BY <3>1, <3>2, <3>3, <3>4
  <2> QED
    BY <1>7, <2>1, <2>2, <2>3, <2>4, <2>5 DEF Broadcasting
<1> QED
  BY <1>2, <1>3, <1>6, <1>7 DEF Next

LEMMA NextAllKept == MessageInv /\ AllKept /\ [Next]_vars => AllKept'
<1> SUFFICES ASSUME MessageInv, AllKept, [Next]_vars, NEW m \in 0..(messageCounter' - 1)
             PROVE  Kept(m)'
  BY DEF AllKept
<1>1. TypeOK /\ TicksPast /\ Custody /\ messageCounter \in Nat /\ Loop \in Procs
  BY SenderAssumption DEF MessageInv, SlotInv, KeyInv, TypeOK, Procs
<1>2. CASE Kept(m)
  <2>1. CASE m \in messageBuffer /\ \E p \in Procs : FlushTake(p)
    <3>1. PICK p \in Procs : FlushTake(p)
      BY <2>1
    <3>2. call'[p].data = messageBuffer
      BY <1>1, <2>1, <3>1 DEF FlushTake, TypeOK, Calls
    <3> QED
      BY <2>1, <3>2 DEF Kept
  <2>2. CASE m \in messageBuffer \union lost \/ \E k \in keyWire : m \in k.data
    BY <2>1, <2>2, KeptGrows DEF Kept
  <2> QED
    BY <1>1, <1>2, <2>2, KeptQueued, KeptInHand DEF Kept
<1>3. CASE LoopTraffic
  <2>1. messageCounter' = messageCounter + 1 /\ call'[Loop].data = {messageCounter}
    BY <1>1, <1>3 DEF LoopTraffic, TypeOK, Calls
  <2>2. m \in 0..(messageCounter - 1) \/ m = messageCounter
    BY <1>1, <2>1
  <2> QED
    BY <1>1, <1>2, <2>1, <2>2 DEF AllKept, Kept
<1>4. CASE messageCounter' = messageCounter
  BY <1>2, <1>4 DEF AllKept
<1> QED
  BY <1>1, <1>3, <1>4, MessageSteps
     DEF Quiet, Dropped, BufferForBatch, FlushTake, SendHmac

\* In either mode no message that the application sent is lost without an error or a log:
\* not between the buffer and a batch, the batch and the queue, nor the queue and the wire.
THEOREM SenderNoneVanishes == Spec => []NoneVanishes
<1>1. MessageInv /\ AllKept => NoneVanishes
  <2> DEFINE held == UNION {Holding(p) : p \in Procs}
             due == UNION {d.data : d \in Queued \union keyWire}
  <2> SUFFICES ASSUME MessageInv, AllKept, NEW m \in 0..(messageCounter - 1)
               PROVE  m \in held \union messageBuffer \union lost \union due
    BY DEF NoneVanishes
  <2>1. \A p \in Procs : call[p].data \subseteq held
    <3>1. \A p \in Procs : call[p].data \subseteq Holding(p)
      BY DEF MessageInv, Custody, Holding
    <3> QED
      BY <3>1
  <2>2. /\ \A i \in DOMAIN disclosureQueue : disclosureQueue[i].data \subseteq due
        /\ \A i \in DOMAIN pending : pending[i].data \subseteq due
        /\ \A k \in keyWire : k.data \subseteq due
    BY DEF Queued
  <2> HIDE DEF held, due
  <2>3. Kept(m)
    BY DEF AllKept
  <2> QED
    BY <2>1, <2>2, <2>3 DEF Kept
<1>2. Init => AllKept
  BY DEF Init, AllKept
<1> QED
  BY <1>1, <1>2, InitMessageInv, NextMessageInv, NextAllKept, PTL DEF Spec
=============================================================================
