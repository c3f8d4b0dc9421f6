------------------------ MODULE RcdSenderSourceProofs ------------------------
(***************************************************************************)
(* Theorems about RcdSender in deterministic mode, for every value of the  *)
(* other constants; the last is that it implements TeslaSource.            *)
(*                                                                         *)
(* The disclosure delay follows a key from the cache to the wire: only the *)
(* loop uses it (LoopAlone), it stays the cached one until it is queued    *)
(* (HoldsKey), it waits with the target its slot gives (QueueSound), and   *)
(* no tick the worker acts on is ahead of the latest block (TicksPast).    *)
(* DetInv is their conjunction.                                            *)
(*                                                                         *)
(* SourceInv adds what the steps of the source ask for: each waiting       *)
(* disclosure is of an HMAC that was sent (QueueBacked), and the worker's  *)
(* list and the channel, one after the other, are in the order of their    *)
(* slots, between the keys already disclosed and the cached one            *)
(* (QueueOrdered).  A key that is still sent with is then not given away   *)
(* by one on the wire (NotGivenAway).                                      *)
(***************************************************************************)
EXTENDS RcdSenderProofs

-----------------------------------------------------------------------------
(* The disclosure delay, in deterministic mode.                              *)

\* Only the loop broadcasts: flushes find an empty buffer.
LoopAlone ==
    /\ \A f \in Flushers : pc[f] \in {"idle", "take"}
    /\ pc[Loop] # "buffer"
    /\ messageBuffer = {}

\* From CurrentSlotKey's return to the queue, the loop's slot and key are the cached ones.
HoldsKey ==
    /\ pc[Loop] \in {"mac", "hmac", "enqueue"} => ~NeedsChain /\ call[Loop].seen = cachedKeySlot
    /\ pc[Loop] = "hmac" => call[Loop].key = cachedKey

\* Disclosures that keep their key for the right slot: all those on their way.
Sound == {d \in Disclosures : Genuine(d.key) /\ d.target = SlotOf(d.key) + DisclosureDelay}

QueueSound == disclosureQueue \in Seq(Sound) /\ pending \in Seq(Sound)

RevealedPast == \A k \in keyWire : Genuine(k.key) /\ SlotOf(k.key) + DisclosureDelay <= slot

DetInv ==
    /\ KeyInv
    /\ LoopAlone
    /\ HoldsKey
    /\ HmacSlotMatchesKey
    /\ QueueSound
    /\ TicksPast
    /\ RevealedPast

LEMMA InitDet == Init => DetInv
<1> SUFFICES ASSUME Init PROVE DetInv
  OBVIOUS
<1>1. LoopAlone /\ HoldsKey
  BY SenderAssumption DEF Init, LoopAlone, HoldsKey, NextIdle, Procs
<1>2. QueueSound /\ HmacSlotMatchesKey /\ RevealedPast
  BY DEF Init, QueueSound, HmacSlotMatchesKey, RevealedPast
<1>3. TicksPast
  BY DEF Init, TicksPast
<1> QED
  BY <1>1, <1>2, <1>3, InitKeyInv DEF DetInv

\* In deterministic mode, the loop is who calls CurrentSlotKey and broadcasts; a flusher
\* that finds the buffer empty returns.
LEMMA LoopCalls ==
    ASSUME DetInv, NEW p \in Procs
    PROVE  /\ CurrentSlotKey(p) => p = Loop
           /\ Broadcasting(p) => p = Loop \/ FlushTake(p)
           /\ KeyReads(Loop) = {cachedKey}
<1>1. p # Loop => pc[p] \in {"idle", "take"}
  BY DEF DetInv, LoopAlone, Procs
<1>2. CurrentSlotKey(p) => p = Loop
  BY <1>1 DEF CurrentSlotKey, CskEnter, CskGetSlot, CskGetSlotAgain, CskGetSlotFails, CskRefill,
     CskRefillRefused, CskNext, CskExhausted, CskReturn
<1>3. Broadcasting(p) => p = Loop \/ FlushTake(p)
  BY <1>1 DEF Broadcasting, SendData, BroadcastFails, BufferForBatch, ComputeHmac, SendHmac,
     Enqueue
<1>4. ~Copying(Loop)
  BY DEF Copying, DetInv, LoopAlone, Procs
<1> QED
  BY <1>2, <1>3, <1>4 DEF KeyReads

LEMMA NextLoopState ==
    ASSUME ~Probabilistic, DetInv, [Next]_vars
    PROVE  LoopAlone' /\ HoldsKey'
<1> USE DEF DetInv, LoopAlone, HoldsKey
<1>0. TypeOK /\ Loop \in Procs /\ Loop \notin Flushers /\ Flushers \subseteq Procs /\ NextIdle(Loop) = "select"
  BY SenderAssumption DEF KeyInv, Procs, NextIdle
<1>1. CASE UNCHANGED <<pc, call, messageBuffer, hashChain, cachedKey, cachedKeySlot>>
  BY <1>1 DEF NeedsChain
<1>2. ASSUME NEW s \in Slots, SpawnFlush(s)
      PROVE  /\ pc'[Loop] = pc[Loop] /\ \A f \in Flushers : pc'[f] \in {pc[f], "take"}
  BY <1>0, <1>2 DEF SpawnFlush, TypeOK
<1>3. CASE BroadcastLoop
  <2>1. UNCHANGED <<messageBuffer, hashChain, cachedKey, cachedKeySlot>> /\ pc[Loop] = "select"
    BY <1>3 DEF BroadcastLoop, LoopTraffic, LoopTick, LoopClosedTick, LoopExit, chainVars
  <2>2. CASE LoopTick \/ LoopClosedTick
    <3>1. LoopTick => ticks["loop"].out \in Slots
      BY <1>0 DEF LoopTick, TypeOK, TickerStates
    <3> QED
      BY <1>2, <2>1, <2>2, <3>1, SlotTypes DEF LoopTick, LoopClosedTick
  <2>3. CASE LoopTraffic \/ LoopExit
    BY <1>0, <2>1, <2>3 DEF LoopTraffic, LoopExit, TypeOK
  <2> QED
    BY <1>3, <2>2, <2>3 DEF BroadcastLoop
<1>4. CASE CurrentSlotKey(Loop)
  <2>1. messageBuffer' = messageBuffer /\ \A f \in Flushers : pc'[f] = pc[f]
    <3>1. messageBuffer' = messageBuffer
      BY <1>4 DEF CurrentSlotKey, CskEnter, CskGetSlot, CskGetSlotAgain, CskGetSlotFails,
         CskRefill, CskRefillRefused, CskNext, CskExhausted, CskReturn, Abort
    <3> QED
      BY <1>0, <1>4, <3>1, CskMoves
  <2>2. CASE CskReturn(Loop)
    <3>1. call'[Loop].seen = cachedKeySlot /\ pc'[Loop] \in {"data", "mac"}
      BY <1>0, <2>2 DEF CskReturn, TypeOK, Calls
    <3>2. ~NeedsChain
      BY <1>0, <2>2 DEF CskReturn, KeyInv, ChainReady
    <3> QED
      BY <2>1, <2>2, <3>1, <3>2 DEF CskReturn, NeedsChain, chainVars
  <2>3. CASE ~CskReturn(Loop)
    <3>1. pc'[Loop] \in InCsk \union {"select"}
      BY <1>0, <1>4, <2>3 DEF CurrentSlotKey, CskEnter, CskGetSlot, CskGetSlotAgain,
         CskGetSlotFails, CskRefill, CskRefillRefused, CskNext, CskExhausted,
         Abort, GiveUp, Return, TypeOK, InCsk
    <3> QED
      BY <2>1, <3>1 DEF InCsk
  <2> QED
    BY <2>2, <2>3
<1>5. ASSUME NEW p \in Procs, Broadcasting(p) PROVE LoopAlone' /\ HoldsKey'
  <2>1. UNCHANGED <<hashChain, cachedKey, cachedKeySlot>>
    BY <1>5 DEF Broadcasting, SendData, BroadcastFails, BufferForBatch, FlushTake, ComputeHmac, SendHmac,
       Enqueue, chainVars
  <2>2. ASSUME NEW q \in Procs, Return(q), messageBuffer' = {} PROVE LoopAlone' /\ HoldsKey'
    <3>1. pc'[q] = NextIdle(q) /\ \A r \in Procs \ {q} : pc'[r] = pc[r] /\ call'[r] = call[r]
      BY <1>0, <2>2 DEF Return, TypeOK
    <3>2. q # Loop => NextIdle(q) = "idle"
      BY DEF NextIdle
    <3> QED
      BY <1>0, <2>1, <2>2, <3>1, <3>2 DEF NeedsChain
  <2>4. CASE FlushTake(p)
    BY <2>2, <2>4 DEF FlushTake
  <2>5. CASE p = Loop /\ SendData(p)
    <3>1. pc' = [pc EXCEPT ![Loop] = "csk"] /\ messageBuffer' = messageBuffer
      BY <2>5 DEF SendData
    <3> QED
      BY <1>0, <3>1 DEF TypeOK
  <2>6. CASE p = Loop /\ ComputeHmac(p)
    <3>1. PICK k \in KeyReads(Loop) : call' = [call EXCEPT ![Loop].key = k]
      BY <2>6 DEF ComputeHmac
    <3>2. k = cachedKey
      BY <1>0, LoopCalls
    <3>3. pc[Loop] = "mac" /\ pc' = [pc EXCEPT ![Loop] = "hmac"] /\ messageBuffer' = messageBuffer
      BY <2>6 DEF ComputeHmac
    <3>4. call'[Loop].key = cachedKey /\ call'[Loop].seen = call[Loop].seen
      BY <1>0, <3>1, <3>2 DEF TypeOK, Calls
    <3> QED
      BY <1>0, <2>1, <3>3, <3>4 DEF TypeOK, NeedsChain
  <2>7. CASE p = Loop /\ SendHmac(p)
    <3>1. /\ pc[Loop] = "hmac" /\ pc' = [pc EXCEPT ![Loop] = "enqueue"]
          /\ messageBuffer' = messageBuffer /\ call' = call
      BY <2>7 DEF SendHmac
    <3> QED
      BY <1>0, <2>1, <3>1 DEF TypeOK, NeedsChain
  <2>8. CASE p = Loop /\ (Enqueue(p) \/ BroadcastFails(p))
    BY <2>2, <2>8 DEF Enqueue, BroadcastFails, GiveUp
  <2>9. ~(p = Loop /\ BufferForBatch(p))
    BY DEF BufferForBatch
  <2> QED
    BY <1>5, <2>4, <2>5, <2>6, <2>7, <2>8, <2>9, LoopCalls DEF Broadcasting
<1>6. CASE Environment \/ DisclosureWorker \/ CleanupExit \/ Terminated \/ UNCHANGED vars
  BY <1>1, <1>6 DEF Environment, NewBlock, Shutdown, Poll, TickerExit, DisclosureWorker,
     WorkerTick, WorkerClosedTick, Drain, WorkerSend, WorkerScanned, WorkerExit, CleanupExit,
     Terminated, vars, chainVars
<1> QED
  BY <1>3, <1>4, <1>5, <1>6, LoopCalls DEF Next

\* The key the loop works with is of the slot that it puts on the HMAC.
LEMMA LoopKey ==
    ASSUME DetInv, pc[Loop] \in {"mac", "hmac", "enqueue"}
    PROVE  cachedKey \in Keys /\ Genuine(cachedKey) /\ call[Loop].seen = SlotOf(cachedKey)
  BY DEF DetInv, HoldsKey, KeyInv, KeyTracksSlot, TypeOK

LEMMA NextHmacSlot ==
    ASSUME ~Probabilistic, DetInv, [Next]_vars
    PROVE  HmacSlotMatchesKey'
<1>1. TypeOK
  BY DEF DetInv, KeyInv
<1>2. \A h \in hmacWire : Genuine(h.key)' /\ h.slot = SlotOf(h.key)'
  <2> SUFFICES ASSUME NEW h \in hmacWire PROVE Genuine(h.key)' /\ h.slot = SlotOf(h.key)'
    OBVIOUS
  <2>1. h.key \in Keys
    BY <1>1 DEF TypeOK, HmacPackets
  <2>2. Genuine(h.key) /\ h.slot = SlotOf(h.key)
    BY DEF DetInv, HmacSlotMatchesKey
  <2>3. Genuine(h.key)' /\ SlotOf(h.key)' = SlotOf(h.key)
    BY <1>1, <2>1, <2>2, GenuineKeysKept DEF Genuine, SlotOf
  <2> QED
    BY <2>2, <2>3
<1>3. CASE hmacWire' = hmacWire
  BY <1>2, <1>3 DEF HmacSlotMatchesKey, Genuine, SlotOf
<1>4. ASSUME NEW p \in Procs, SendHmac(p) PROVE HmacSlotMatchesKey'
  <2>1. p = Loop /\ pc[Loop] = "hmac"
    <3>1. pc[p] = "hmac" /\ Broadcasting(p)
      BY <1>4 DEF SendHmac, Broadcasting
    <3> QED
      BY <3>1, LoopCalls DEF FlushTake
  <2>2. issued' = issued /\ hmacWire' \subseteq hmacWire \union
            {[slot |-> call[Loop].seen, key |-> call[Loop].key, data |-> call[Loop].data]}
    BY <1>4, <2>1 DEF SendHmac, Label, chainVars
  <2>3. call[Loop].key = cachedKey
    BY <2>1 DEF DetInv, HoldsKey
  <2>4. Genuine(call[Loop].key) /\ call[Loop].seen = SlotOf(call[Loop].key)
    BY <2>1, <2>3, LoopKey
  <2> QED
    BY <2>2, <2>4 DEF DetInv, HmacSlotMatchesKey, Genuine, SlotOf
<1> QED
  BY <1>1, <1>3, <1>4, Writers

\* What the loop queues.
LoopDisclosure == [key |-> cachedKey, data |-> call[Loop].data,
                   target |-> SlotOf(cachedKey) + DisclosureDelay]

LEMMA LoopEnqueue ==
    ASSUME ~Probabilistic, DetInv, NEW p \in Procs, Enqueue(p)
    PROVE  /\ p = Loop /\ pc[Loop] = "enqueue" /\ LoopDisclosure \in Sound
           /\ UNCHANGED <<pending, issued, cachedKey, hmacWire, keyWire>>
           /\ \/ disclosureQueue' = disclosureQueue
              \/ disclosureQueue' = Append(disclosureQueue, LoopDisclosure)
<1>1. p = Loop /\ pc[Loop] = "enqueue"
  <2>1. pc[p] = "enqueue" /\ Broadcasting(p)
    BY DEF Enqueue, Broadcasting
  <2> QED
    BY <2>1, LoopCalls DEF FlushTake
<1>2. call[Loop].seen \in 0..MaxSlot /\ call[Loop].data \in SUBSET Msgs
  <2>1. call[Loop] \in Calls
    BY <1>1 DEF DetInv, KeyInv, TypeOK
  <2> QED
    BY <2>1 DEF Calls, Slots
<1>3. /\ cachedKey \in Keys /\ Genuine(cachedKey) /\ call[Loop].seen = SlotOf(cachedKey)
  BY <1>1, LoopKey
<1>4. TargetSlot(Loop) = SlotOf(cachedKey) + DisclosureDelay /\ TargetSlot(Loop) \in UintSlots
  <2>1. call[Loop].seen + DisclosureDelay \in UintSlots
    BY <1>2, SenderAssumption DEF UintSlots
  <2> QED
    BY <1>3, <2>1, UintExact DEF TargetSlot, Label
<1>5. LoopDisclosure \in Sound
  BY <1>2, <1>3, <1>4 DEF LoopDisclosure, Sound, Disclosures
<1>6. KeyReads(Loop) = {cachedKey}
  BY <1>1, LoopCalls
<1> QED
  BY <1>1, <1>4, <1>5, <1>6 DEF Enqueue, LoopDisclosure, workerVars, chainVars, wireVars

LEMMA NextQueueSound ==
    ASSUME ~Probabilistic, DetInv, [Next]_vars
    PROVE  QueueSound'
<1>1. disclosureQueue \in Seq(Sound) /\ pending \in Seq(Sound) /\ TypeOK
  BY DEF DetInv, QueueSound, KeyInv
<1>2. Sound \subseteq Sound'
  <2> SUFFICES ASSUME NEW d \in Disclosures, Genuine(d.key),
                      d.target = SlotOf(d.key) + DisclosureDelay
               PROVE  Genuine(d.key)' /\ d.target = SlotOf(d.key)' + DisclosureDelay
    BY DEF Sound
  <2>1. d.key \in Keys
    BY DEF Disclosures
  <2>2. Genuine(d.key)' /\ SlotOf(d.key)' = SlotOf(d.key)
    BY <1>1, <2>1, GenuineKeysKept DEF Genuine, SlotOf
  <2> QED
    BY <2>2 DEF Genuine, SlotOf
<1>3. SUFFICES disclosureQueue' \in Seq(Sound) /\ pending' \in Seq(Sound)
  BY <1>2, SeqMonotonic DEF QueueSound
<1>4. CASE disclosureQueue' = disclosureQueue /\ pending' = pending
  BY <1>1, <1>4
<1>5. ASSUME NEW p \in Procs, Enqueue(p)
      PROVE  disclosureQueue' \in Seq(Sound) /\ pending' \in Seq(Sound)
  BY <1>1, <1>5, LoopEnqueue
<1>6. ASSUME NEW s \in Slots, Drain(s)
      PROVE  disclosureQueue' \in Seq(Sound) /\ pending' \in Seq(Sound)
  BY <1>1, <1>6 DEF Drain
<1>7. CASE WorkerSend
  BY <1>1, <1>7 DEF WorkerSend, Ready
<1> QED
  BY <1>1, <1>4, <1>5, <1>6, <1>7, Writers

LEMMA NextRevealedPast ==
    ASSUME DetInv, [Next]_vars
    PROVE  RevealedPast'
<1>1. /\ TypeOK /\ slot \in Nat /\ slot' \in Nat /\ slot <= slot' /\ DisclosureDelay \in Nat
  <2>1. TypeOK /\ slot \in Nat
    BY DEF DetInv, KeyInv, TypeOK
  <2> QED
    BY <2>1, Writers, SenderAssumption
<1>2. \A k \in Keys : Genuine(k) => Genuine(k)' /\ SlotOf(k)' = SlotOf(k) /\ SlotOf(k) \in Int
  <2>1. \A k \in Keys : Genuine(k) => SlotOf(k) \in Int
    <3>1. \A i \in 1..Len(issued) : issued[i] \in Int
      BY <1>1, SlotTypes DEF TypeOK
    <3> QED
      BY <3>1 DEF Genuine, SlotOf, Keys, Key
  <2> QED
    BY <1>1, <2>1, GenuineKeysKept DEF Genuine, SlotOf
<1>3. \A k \in keyWire : Genuine(k.key)' /\ SlotOf(k.key)' + DisclosureDelay <= slot'
  <2> SUFFICES ASSUME NEW k \in keyWire
               PROVE  Genuine(k.key)' /\ SlotOf(k.key)' + DisclosureDelay <= slot'
    OBVIOUS
  <2>1. k.key \in Keys
    BY <1>1 DEF TypeOK, KeyPackets
  <2>2. Genuine(k.key) /\ SlotOf(k.key) + DisclosureDelay <= slot
    BY DEF DetInv, RevealedPast
  <2>3. Genuine(k.key)' /\ SlotOf(k.key)' = SlotOf(k.key) /\ SlotOf(k.key) \in Int
    BY <1>2, <2>1, <2>2 DEF Genuine, SlotOf
  <2> QED
    BY <1>1, <2>2, <2>3
<1>4. CASE keyWire' = keyWire
  BY <1>3, <1>4 DEF RevealedPast, Genuine, SlotOf
<1>5. CASE WorkerSend
  <2> DEFINE d == Head(pending)
             new == [slot |-> worker.slot, key |-> d.key, data |-> d.data]
  <2>1. d \in Sound
    BY <1>5 DEF WorkerSend, Ready, DetInv, QueueSound
  <2>2. d.target <= worker.slot /\ keyWire' \subseteq keyWire \union {new}
    BY <1>5 DEF WorkerSend, Ready
  <2>3. worker.slot <= slot /\ worker.slot \in Nat /\ issued' = issued /\ slot' = slot
    <3>1. worker.slot \in Slots
      BY <1>1 DEF TypeOK, WorkerStates
    <3> QED
      BY <1>5, <3>1, SlotTypes DEF WorkerSend, envVars, chainVars, DetInv, TicksPast
  <2> HIDE DEF d
  <2>4. Genuine(d.key) /\ SlotOf(d.key) + DisclosureDelay <= slot
    <3>1. d.key \in Keys /\ Genuine(d.key) /\ d.target = SlotOf(d.key) + DisclosureDelay
      BY <2>1 DEF Disclosures, Sound
    <3>2. SlotOf(d.key) \in Int
      BY <1>2, <3>1
    <3> QED
      BY <1>1, <2>2, <2>3, <3>1, <3>2
  <2>5. new.key = d.key
    OBVIOUS
  <2> QED
    BY <1>3, <2>2, <2>3, <2>4, <2>5 DEF RevealedPast, Genuine, SlotOf
<1> QED
  BY <1>1, <1>4, <1>5, Writers

LEMMA NextDet == ASSUME ~Probabilistic PROVE DetInv /\ [Next]_vars => DetInv'
<1> SUFFICES ASSUME DetInv, [Next]_vars PROVE DetInv'
  OBVIOUS
<1>1. KeyInv' /\ TicksPast'
  BY NextKeyInv, NextTicksPast DEF DetInv, KeyInv
<1> QED
  BY <1>1, NextLoopState, NextHmacSlot, NextQueueSound, NextRevealedPast DEF DetInv

\* In deterministic mode an HMAC packet names the slot of its key, whatever refills and
\* failures come between the message and the HMAC.
THEOREM SenderHmacSlotMatchesKey == ASSUME ~Probabilistic PROVE Spec => []HmacSlotMatchesKey
<1>1. DetInv => HmacSlotMatchesKey
  BY DEF DetInv
<1> QED
  BY <1>1, InitDet, NextDet, PTL DEF Spec

\* In deterministic mode no key is broadcast before disclosureDelay slots have passed
\* since its own, however far behind the worker's ticks are.
THEOREM SenderNoEarlyReveal == ASSUME ~Probabilistic PROVE Spec => []NoEarlyReveal
<1>1. DetInv => NoEarlyReveal
  BY DEF DetInv, RevealedPast, NoEarlyReveal
<1> QED
  BY <1>1, InitDet, NextDet, PTL DEF Spec

-----------------------------------------------------------------------------
(* The abstract source, in deterministic mode.                               *)

\* Disclosures of a key that an HMAC with the same payload was sent under.
Backed == {d \in Disclosures : \E h \in hmacWire : h.key = d.key /\ h.data = d.data}

QueueBacked ==
    /\ disclosureQueue \in Seq(Backed)
    /\ pending \in Seq(Backed)
    /\ pc[Loop] = "enqueue" => \E h \in hmacWire : h.key = cachedKey /\ h.data = call[Loop].data

\* What is on its way to the wire, in the order it goes there.
Waiting == pending \o disclosureQueue

\* Disclosures wait in the order of their slots, after those that were made and up to
\* the slot of the cached key.
QueueOrdered ==
    /\ \A i, j \in DOMAIN Waiting : i <= j => Waiting[i].target <= Waiting[j].target
    /\ \A i \in DOMAIN Waiting :
         /\ Genuine(cachedKey) /\ Waiting[i].target <= SlotOf(cachedKey) + DisclosureDelay
         /\ \A k \in keyWire : SlotOf(k.key) + DisclosureDelay <= Waiting[i].target
    /\ \A k \in keyWire : Genuine(cachedKey) /\ SlotOf(k.key) <= SlotOf(cachedKey)

SourceInv == DetInv /\ SlotInv /\ Custody /\ QueueBacked /\ QueueOrdered

LEMMA InitSource == Init => SourceInv
<1> SUFFICES ASSUME Init PROVE SourceInv
  OBVIOUS
<1>1. QueueBacked
  BY DEF Init, QueueBacked, NextIdle, Procs
<1>2. QueueOrdered
  BY DEF Init, QueueOrdered, Waiting
<1> QED
  BY <1>1, <1>2, InitDet, InitMessageInv DEF SourceInv, MessageInv

\* The HMAC is the loop's, with the cached key, in its slot or less than the delay after.
LEMMA LoopHmac ==
    ASSUME ~Probabilistic, SourceInv, NEW p \in Procs, SendHmac(p)
    PROVE  /\ p = Loop /\ pc[Loop] = "hmac" /\ pc'[Loop] = "enqueue" /\ call' = call
           /\ UNCHANGED <<slot, issued, cachedKey, keyWire>>
           /\ call[Loop].data \in SUBSET Msgs
           /\ Genuine(cachedKey) /\ cachedKey \in Keys /\ cachedKey.idx \in 1..ChainLen
           /\ SlotOf(cachedKey) \in Int
           /\ SlotOf(cachedKey) <= slot /\ slot < SlotOf(cachedKey) + DisclosureDelay
           /\ hmacWire' = hmacWire \union
                  {[slot |-> SlotOf(cachedKey), key |-> cachedKey, data |-> call[Loop].data]}
<1>1. p = Loop /\ pc[Loop] = "hmac"
  <2>1. pc[p] = "hmac" /\ Broadcasting(p) /\ DetInv
    BY DEF SendHmac, Broadcasting, SourceInv
  <2> QED
    BY <2>1, LoopCalls DEF FlushTake
<1>2. /\ cachedKey \in Keys /\ Genuine(cachedKey) /\ call[Loop].seen = SlotOf(cachedKey)
      /\ call[Loop].key = cachedKey
  BY <1>1, LoopKey DEF SourceInv, DetInv, HoldsKey
<1>3. /\ TypeOK /\ slot \in Nat /\ call[Loop].seen \in Nat /\ call[Loop] \in Calls
      /\ call[Loop].seen <= slot /\ slot <= call[Loop].seen + MaxLag
      /\ MaxLag \in Nat /\ DisclosureDelay \in Nat /\ MaxLag < DisclosureDelay
  BY <1>1, SlotNats, SenderAssumption DEF SourceInv, SlotInv, KeyInv, ReadSlots
<1>4. cachedKey.idx \in 1..ChainLen
  BY <1>2 DEF SourceInv, SlotInv, CacheBounds, Genuine, ZeroKey, KeyOf
<1>5. /\ hmacWire' = hmacWire \union
             {[slot |-> call[Loop].seen, key |-> call[Loop].key, data |-> call[Loop].data]}
      /\ pc' = [pc EXCEPT ![Loop] = "enqueue"] /\ call' = call
      /\ UNCHANGED <<slot, issued, cachedKey, keyWire>>
  BY <1>1 DEF SendHmac, Label, envVars, chainVars
<1> QED
  BY <1>1, <1>2, <1>3, <1>4, <1>5 DEF TypeOK, Calls

\* How the queue moves.
LEMMA WaitingSteps ==
    ASSUME ~Probabilistic, DetInv, [Next]_vars
    PROVE  \/ Waiting' = Waiting /\ keyWire' = keyWire
           \/ /\ WorkerSend /\ Waiting # <<>> /\ Waiting' = Tail(Waiting)
              /\ Head(pending) = Waiting[1] /\ Head(pending) \in Sound
           \/ /\ pc[Loop] = "enqueue" /\ Waiting' = Append(Waiting, LoopDisclosure)
              /\ LoopDisclosure \in Sound
              /\ UNCHANGED <<issued, cachedKey, hmacWire, keyWire>>
<1>1. disclosureQueue \in Seq(Sound) /\ pending \in Seq(Sound) /\ TypeOK
  BY DEF DetInv, QueueSound, KeyInv
<1>2. CASE disclosureQueue' = disclosureQueue /\ pending' = pending /\ keyWire' = keyWire
  BY <1>2 DEF Waiting
<1>3. ASSUME NEW p \in Procs, Enqueue(p)
      PROVE  \/ Waiting' = Waiting /\ keyWire' = keyWire
             \/ /\ pc[Loop] = "enqueue" /\ Waiting' = Append(Waiting, LoopDisclosure)
                /\ LoopDisclosure \in Sound
                /\ UNCHANGED <<issued, cachedKey, hmacWire, keyWire>>
  <2>1. pending \o Append(disclosureQueue, LoopDisclosure) =
          Append(pending \o disclosureQueue, LoopDisclosure)
    BY <1>1, <1>3, LoopEnqueue
  <2> QED
    BY <1>3, <2>1, LoopEnqueue DEF Waiting
<1>4. ASSUME NEW s \in Slots, Drain(s) PROVE Waiting' = Waiting /\ keyWire' = keyWire
  BY <1>1, <1>4 DEF Drain, Waiting, wireVars
<1>5. CASE WorkerSend
  <2>1. pending # <<>> /\ pending' = Tail(pending) /\ disclosureQueue' = disclosureQueue
    BY <1>5 DEF WorkerSend, Ready
  <2>2. /\ pending \o disclosureQueue # <<>> /\ Head(pending) = (pending \o disclosureQueue)[1]
        /\ Tail(pending) \o disclosureQueue = Tail(pending \o disclosureQueue)
        /\ Head(pending) \in Sound
    BY <1>1, <2>1
  <2> QED
    BY <1>5, <2>1, <2>2 DEF Waiting
<1> QED
  BY <1>1, <1>2, <1>3, <1>4, <1>5, Writers

LEMMA NextQueueOrdered ==
    ASSUME ~Probabilistic, SourceInv, [Next]_vars
    PROVE  QueueOrdered'
<1>1. /\ TypeOK /\ DetInv /\ QueueOrdered /\ DisclosureDelay \in Nat
      /\ Waiting \in Seq(Sound) /\ Len(Waiting) \in Nat /\ DOMAIN Waiting = 1..Len(Waiting)
      /\ \A i \in DOMAIN Waiting : Waiting[i] \in Sound
  BY SenderAssumption DEF SourceInv, DetInv, QueueSound, KeyInv, Waiting
<1>2. \A d \in Sound : /\ d.key \in Keys /\ Genuine(d.key) /\ SlotOf(d.key) \in Int
                       /\ d.target = SlotOf(d.key) + DisclosureDelay
  BY <1>1, SlotNats DEF Sound, Disclosures
<1>3. Genuine(cachedKey) => /\ Genuine(cachedKey)' /\ SlotOf(cachedKey) <= SlotOf(cachedKey)'
                            /\ SlotOf(cachedKey) \in Int /\ SlotOf(cachedKey)' \in Int
  <2>1. TypeOK' /\ SlotInv
    BY <1>1, NextTypeOK DEF SourceInv
  <2>2. cachedKey' \in Keys /\ \A c \in 1..Len(issued') : issued'[c] \in Int
    BY <2>1, SlotTypes DEF TypeOK
  <2>3. Genuine(cachedKey)' => SlotOf(cachedKey)' \in Int
    BY <2>2 DEF Genuine, SlotOf, Keys, Key
  <2> QED
    BY <1>1, <2>1, <2>3, CacheAdvances, SlotNats
<1>4. \A k \in keyWire : /\ k.key \in Keys /\ SlotOf(k.key)' = SlotOf(k.key)
                         /\ SlotOf(k.key) \in Int
  <2> SUFFICES ASSUME NEW k \in keyWire
               PROVE  k.key \in Keys /\ SlotOf(k.key)' = SlotOf(k.key) /\ SlotOf(k.key) \in Int
    OBVIOUS
  <2>1. k.key \in Keys /\ Genuine(k.key)
    BY <1>1 DEF DetInv, RevealedPast, TypeOK, KeyPackets
  <2> QED
    BY <1>1, <2>1, GenuineKeysKept, SlotNats DEF SlotOf
<1>5. \A k \in keyWire : Genuine(cachedKey)' /\ SlotOf(k.key)' <= SlotOf(cachedKey)'
  BY <1>3, <1>4 DEF QueueOrdered, SourceInv
<1>6. \A i \in DOMAIN Waiting :
         /\ Genuine(cachedKey)' /\ Waiting[i].target <= SlotOf(cachedKey)' + DisclosureDelay
         /\ \A k \in keyWire : SlotOf(k.key)' + DisclosureDelay <= Waiting[i].target
  BY <1>1, <1>2, <1>3, <1>4 DEF QueueOrdered
<1>7. CASE Waiting' = Waiting /\ keyWire' = keyWire
  BY <1>1, <1>5, <1>6, <1>7 DEF QueueOrdered
<1>8. CASE WorkerSend /\ Waiting # <<>> /\ Waiting' = Tail(Waiting)
           /\ Head(pending) = Waiting[1] /\ Head(pending) \in Sound
  <2> PICK d \in Sound : d = Head(pending)
    BY <1>8
  <2>1. /\ 1 \in DOMAIN Waiting /\ d = Waiting[1]
        /\ DOMAIN Waiting' = 1..(Len(Waiting) - 1)
        /\ \A i \in DOMAIN Waiting' : i + 1 \in DOMAIN Waiting /\ Waiting'[i] = Waiting[i + 1]
    BY <1>1, <1>8
  <2>2. /\ UNCHANGED <<issued, cachedKey>>
        /\ keyWire' \subseteq keyWire \union {[slot |-> worker.slot, key |-> d.key, data |-> d.data]}
    BY <1>8 DEF WorkerSend, chainVars
  <2>3. SlotOf(d.key) \in Int /\ SlotOf(d.key) + DisclosureDelay = d.target
    BY <1>2
  <2>4. \A k \in keyWire' : k \in keyWire \/ k.key = d.key
    BY <2>2
  <2>5. SlotOf(d.key)' = SlotOf(d.key) /\ SlotOf(cachedKey)' = SlotOf(cachedKey)
    BY <2>2 DEF SlotOf
  <2>6. Genuine(cachedKey)' /\ d.target <= SlotOf(cachedKey)' + DisclosureDelay
    BY <1>6, <2>1
  <2>7. \A i \in DOMAIN Waiting' : d.target <= Waiting'[i].target
    <3>1. \A j \in DOMAIN Waiting : 1 <= j => d.target <= Waiting[j].target
      BY <1>1, <2>1 DEF QueueOrdered
    <3> QED
      BY <2>1, <3>1
  <2>8. \A i, j \in DOMAIN Waiting' : i <= j => Waiting'[i].target <= Waiting'[j].target
    BY <1>1, <2>1 DEF QueueOrdered
  <2>9. \A k \in keyWire' : SlotOf(k.key)' <= SlotOf(cachedKey)'
    <3> SUFFICES ASSUME NEW k \in keyWire', k.key = d.key PROVE SlotOf(k.key)' <= SlotOf(cachedKey)'
      BY <1>5, <2>4
    <3>1. SlotOf(k.key)' = SlotOf(d.key)
      BY <2>5 DEF SlotOf
    <3>2. SlotOf(cachedKey)' \in Int
      BY <1>1, <1>3, <2>1 DEF QueueOrdered
    <3> QED
      BY <1>1, <2>3, <2>6, <3>1, <3>2
  <2>10. \A i \in DOMAIN Waiting' :
           /\ Waiting'[i].target <= SlotOf(cachedKey)' + DisclosureDelay
           /\ \A k \in keyWire' : SlotOf(k.key)' + DisclosureDelay <= Waiting'[i].target
    BY <1>6, <2>1, <2>3, <2>4, <2>5, <2>7 DEF SlotOf
  <2> QED
    BY <2>6, <2>8, <2>9, <2>10 DEF QueueOrdered, Genuine, SlotOf
<1>9. CASE /\ pc[Loop] = "enqueue" /\ Waiting' = Append(Waiting, LoopDisclosure)
           /\ LoopDisclosure \in Sound
           /\ UNCHANGED <<issued, cachedKey, hmacWire, keyWire>>
  <2> DEFINE n == Len(Waiting)
             last == SlotOf(cachedKey) + DisclosureDelay
  <2>1. /\ n \in Nat /\ DOMAIN Waiting' = 1..(n + 1) /\ Waiting'[n + 1].target = last
        /\ \A i \in 1..n : Waiting'[i] = Waiting[i]
        /\ \A i \in 1..(n + 1) : i \in 1..n \/ i = n + 1
    BY <1>1, <1>9 DEF LoopDisclosure
  <2>2. /\ Genuine(cachedKey)' /\ SlotOf(cachedKey)' = SlotOf(cachedKey)
        /\ SlotOf(cachedKey) \in Int
    <3>1. Genuine(cachedKey)
      BY <1>2, <1>9 DEF LoopDisclosure
    <3> QED
      BY <1>3, <1>9, <3>1 DEF SlotOf
  <2>3. \A i \in 1..n : Waiting[i].target <= last /\ Waiting[i].target \in Int
    <3> SUFFICES ASSUME NEW i \in 1..n PROVE Waiting[i].target <= last /\ Waiting[i].target \in Int
      OBVIOUS
    <3>1. Waiting[i] \in Sound /\ Waiting[i].target <= SlotOf(cachedKey)' + DisclosureDelay
      BY <1>1, <1>6
    <3> QED
      BY <1>1, <1>2, <2>2, <3>1
  <2>4. \A k \in keyWire : SlotOf(k.key)' + DisclosureDelay <= last
    BY <1>1, <1>4, <1>5, <2>2
  <2>5. \A i, j \in DOMAIN Waiting' : i <= j => Waiting'[i].target <= Waiting'[j].target
    <3> SUFFICES ASSUME NEW i \in 1..(n + 1), NEW j \in 1..(n + 1), i <= j
                 PROVE  Waiting'[i].target <= Waiting'[j].target
      BY <2>1
    <3>1. CASE j \in 1..n
      <4>1. i \in 1..n
        BY <2>1, <3>1
      <4> QED
        BY <1>1, <2>1, <3>1, <4>1 DEF QueueOrdered
    <3>2. CASE j = n + 1
      <4>1. last \in Int
        BY <1>1, <2>2
      <4> QED
        BY <2>1, <2>3, <3>2, <4>1
    <3> QED
      BY <2>1, <3>1, <3>2
  <2>6. \A i \in DOMAIN Waiting' :
           /\ Waiting'[i].target <= SlotOf(cachedKey)' + DisclosureDelay
           /\ \A k \in keyWire' : SlotOf(k.key)' + DisclosureDelay <= Waiting'[i].target
    <3> SUFFICES ASSUME NEW i \in 1..(n + 1)
                 PROVE  /\ Waiting'[i].target <= last
                        /\ \A k \in keyWire : SlotOf(k.key)' + DisclosureDelay <= Waiting'[i].target
      BY <1>9, <2>1, <2>2
    <3>1. CASE i \in 1..n
      BY <1>1, <1>6, <2>1, <2>3, <3>1
    <3>2. CASE i = n + 1
      BY <1>1, <2>1, <2>2, <2>4, <3>2
    <3> QED
      BY <2>1, <3>1, <3>2
  <2> QED
    BY <1>5, <1>9, <2>2, <2>5, <2>6 DEF QueueOrdered, Genuine, SlotOf
<1> QED
  BY <1>1, <1>7, <1>8, <1>9, WaitingSteps

LEMMA NextQueueBacked ==
    ASSUME ~Probabilistic, SourceInv, [Next]_vars
    PROVE  QueueBacked'
<1>1. /\ TypeOK /\ TicksPast /\ DetInv /\ HoldsKey' /\ hmacWire \subseteq hmacWire'
      /\ disclosureQueue \in Seq(Backed) /\ pending \in Seq(Backed)
  <2>1. TypeOK /\ TicksPast /\ DetInv /\ DetInv'
    BY NextDet DEF SourceInv, DetInv, KeyInv
  <2> QED
    BY <2>1, HmacSenders, LoopHmac DEF SourceInv, QueueBacked, DetInv
<1>2. Backed \subseteq Backed'
  BY <1>1 DEF Backed
<1>3. disclosureQueue' \in Seq(Backed) /\ pending' \in Seq(Backed)
  <2>1. CASE disclosureQueue' = disclosureQueue /\ pending' = pending
    BY <1>1, <2>1
  <2>2. ASSUME NEW p \in Procs, Enqueue(p)
        PROVE  disclosureQueue' \in Seq(Backed) /\ pending' \in Seq(Backed)
    <3>1. LoopDisclosure \in Backed
      BY <1>1, <2>2, LoopEnqueue DEF SourceInv, QueueBacked, Backed, Sound, LoopDisclosure
    <3> QED
      BY <1>1, <2>2, <3>1, LoopEnqueue
  <2>3. ASSUME NEW s \in Slots, Drain(s)
        PROVE  disclosureQueue' \in Seq(Backed) /\ pending' \in Seq(Backed)
    BY <1>1, <2>3 DEF Drain
  <2>4. CASE WorkerSend
    BY <1>1, <2>4 DEF WorkerSend, Ready
  <2> QED
    BY <1>1, <2>1, <2>2, <2>3, <2>4, Writers
<1>4. ASSUME pc'[Loop] = "enqueue"
      PROVE  \E h \in hmacWire' : h.key = cachedKey' /\ h.data = call'[Loop].data
  <2>1. Moved(Loop) /\ call[Loop] \in Calls /\ NextIdle(Loop) = "select" /\ Loop \in Procs
    BY <1>1, Moves DEF TypeOK, NextIdle, Procs
  <2>2. CASE pc'[Loop] = pc[Loop] /\ call'[Loop] = call[Loop]
    <3>1. cachedKey' = cachedKey
      <4>1. \A p \in Procs : pc[p] \notin {"refill", "advance"}
        BY <1>1, <1>4, <2>2 DEF DetInv, LoopAlone, Procs
      <4> QED
        BY <4>1, CacheSteps DEF SourceInv
    <3> QED
      BY <1>1, <1>4, <2>2, <3>1 DEF SourceInv, QueueBacked
  <2>3. CASE pc[Loop] = "hmac"
    <3>1. SendHmac(Loop)
      BY <1>1, <1>4, <2>1, <2>3, OnlySendHmac
    <3>2. /\ [slot |-> SlotOf(cachedKey), key |-> cachedKey, data |-> call[Loop].data] \in hmacWire'
          /\ call' = call /\ cachedKey' = cachedKey
      BY <2>1, <3>1, LoopHmac
    <3> QED
      BY <3>2
  <2> QED
    BY <1>4, <2>1, <2>2, <2>3 DEF Moved, Calls
<1> QED
  BY <1>2, <1>3, <1>4, SeqMonotonic DEF QueueBacked

LEMMA NextSource == ASSUME ~Probabilistic PROVE SourceInv /\ [Next]_vars => SourceInv'
  BY NextDet, NextSlotInv, NextCustody, NextQueueBacked, NextQueueOrdered DEF SourceInv

\* What has been disclosed is of slots before that of the key the loop still sends with.
LEMMA NotGivenAway ==
    ASSUME ~Probabilistic, SourceInv, NEW p \in Procs, SendHmac(p), NEW k \in keyWire
    PROVE  ~(k.key.chain = cachedKey.chain /\ cachedKey.idx <= k.key.idx)
<1>1. /\ Genuine(cachedKey) /\ cachedKey \in Keys /\ slot < SlotOf(cachedKey) + DisclosureDelay
      /\ SlotOf(cachedKey) \in Int /\ DisclosureDelay \in Nat /\ slot \in Nat
  BY LoopHmac, SlotNats DEF SourceInv, SlotInv, KeyInv
<1>2. /\ k.key \in Keys /\ Genuine(k.key) /\ SlotOf(k.key) + DisclosureDelay <= slot
      /\ SlotOf(k.key) \in Int
  BY SlotNats DEF SourceInv, DetInv, KeyInv, RevealedPast, TypeOK, KeyPackets
<1>3. SlotOf(k.key) < SlotOf(cachedKey)
  BY <1>1, <1>2
<1>4. k.key.chain = cachedKey.chain => issued[k.key.chain] \in Nat
  BY <1>1, SlotNats DEF SourceInv, SlotInv, KeyInv, Genuine
<1> QED
  BY <1>1, <1>2, <1>3, <1>4 DEF SlotOf, Keys, Key

\* In deterministic mode no HMAC leaves under a key that what was disclosed before gives
\* away: MaxLag is below the delay, and the loop sends with the cached key.
THEOREM SenderHmacPrecedesReveal == ASSUME ~Probabilistic PROVE Spec => HmacPrecedesReveal
<1>1. SourceInv /\ [Next]_vars
          => [\A h \in hmacWire' \ hmacWire : \A k \in keyWire : ~Discloses(k.key, h.key)]_vars
  <2> SUFFICES ASSUME SourceInv, [Next]_vars, NEW h \in hmacWire' \ hmacWire, NEW k \in keyWire
               PROVE  ~Discloses(k.key, h.key)
    OBVIOUS
  <2>1. PICK p \in Procs : SendHmac(p)
    BY HmacSenders DEF SourceInv, SlotInv, KeyInv
  <2>2. h.key = cachedKey
    BY <2>1, LoopHmac
  <2> QED
    BY <2>1, <2>2, NotGivenAway DEF Discloses
<1> QED
  BY <1>1, InitSource, NextSource, PTL DEF Spec, HmacPrecedesReveal

-----------------------------------------------------------------------------
(* Every step is a step of the source, or none.                              *)

LEMMA SourceInit == Init => Source!Init
  BY DEF Init, Source!Init

LEMMA NewBlockTicks == NewBlock => Source!Tick
  BY DEF NewBlock, Source!Tick, chainVars, wireVars

LEMMA RefillRegisters ==
    ASSUME SourceInv, NEW p \in Procs, pc[p] = "refill",
           issued' = Append(issued, call[p].seen), UNCHANGED <<slot, hmacWire, keyWire>>
    PROVE  Source!Register
<1>1. call[p].seen \in 1..slot
  <2>1. call[p].seen # 0 /\ call[p].seen <= slot /\ call[p].seen \in Nat /\ slot \in Nat
    BY SlotNats DEF SourceInv, SlotInv, KeyInv, ChainReady, ReadSlots
  <2> QED
    BY <2>1
<1>2. \A c \in DOMAIN issued : issued[c] + ChainLen <= call[p].seen
  BY ChainFits DEF SourceInv
<1> QED
  BY <1>1, <1>2 DEF Source!Register

LEMMA HmacAuthenticates ==
    ASSUME ~Probabilistic, SourceInv, NEW p \in Procs, SendHmac(p)
    PROVE  Source!Authenticate
<1>1. cachedKey \in Source!ChainKeys /\ Source!KeySlot(cachedKey) = SlotOf(cachedKey)
  <2>1. Genuine(cachedKey) /\ cachedKey.idx \in 1..ChainLen /\ cachedKey \in Keys
    BY LoopHmac
  <2>2. DOMAIN issued = 1..Len(issued)
    BY SlotNats DEF SourceInv, SlotInv, KeyInv
  <2> QED
    BY <2>1, <2>2 DEF Source!ChainKeys, Source!KeySlot, SlotOf, Genuine, Keys, Key
<1>2. ~Source!GivenAway(cachedKey)
  BY NotGivenAway DEF Source!GivenAway
<1> QED
  BY <1>1, <1>2, LoopHmac DEF Source!Authenticate

LEMMA SendDiscloses ==
    ASSUME SourceInv, WorkerSend, keyWire' # keyWire
    PROVE  Source!Disclose
<1> DEFINE d == Head(pending)
<1>1. /\ d \in Sound /\ d \in Backed /\ 1 \in DOMAIN Waiting /\ Waiting[1] = d
  <2>1. pending \in Seq(Sound) /\ pending \in Seq(Backed) /\ pending # <<>>
        /\ disclosureQueue \in Seq(Sound)
    BY DEF WorkerSend, Ready, SourceInv, DetInv, QueueSound, QueueBacked
  <2> QED
    BY <2>1 DEF Waiting
<1>2. d.target = SlotOf(d.key) + DisclosureDelay /\ SlotOf(d.key) \in Int /\ DisclosureDelay \in Nat
  BY <1>1, SlotNats DEF Sound, Disclosures, SourceInv, SlotInv, KeyInv
<1>3. /\ d.target <= worker.slot /\ worker.slot <= slot /\ worker.slot \in Nat /\ slot \in Nat
      /\ UNCHANGED <<slot, issued, hmacWire>>
      /\ keyWire' = keyWire \union {[slot |-> worker.slot, key |-> d.key, data |-> d.data]}
  <2>1. TypeOK /\ worker.slot <= slot
    BY DEF SourceInv, SlotInv, KeyInv, TicksPast
  <2>2. worker.slot \in Slots /\ slot \in Nat
    BY <2>1 DEF TypeOK, WorkerStates
  <2> QED
    BY <2>1, <2>2, SlotTypes DEF WorkerSend, Ready, envVars, chainVars
<1>4. PICK m \in hmacWire : m.key = d.key /\ m.data = d.data
  BY <1>1 DEF Backed
<1>5. Source!KeySlot(m.key) + DisclosureDelay <= slot
  BY <1>2, <1>3, <1>4 DEF Source!KeySlot, SlotOf
<1>6. \A k \in keyWire : SlotOf(k.key) <= SlotOf(m.key)
  <2> SUFFICES ASSUME NEW k \in keyWire PROVE SlotOf(k.key) <= SlotOf(m.key)
    OBVIOUS
  <2>1. SlotOf(k.key) \in Int
    BY SlotNats DEF SourceInv, DetInv, RevealedPast, KeyInv, TypeOK, KeyPackets
  <2>2. SlotOf(k.key) + DisclosureDelay <= d.target
    BY <1>1 DEF SourceInv, QueueOrdered
  <2> QED
    BY <1>2, <1>4, <2>1, <2>2
<1>7. {[key |-> k.key, data |-> k.data] : k \in keyWire'} =
         {[key |-> k.key, data |-> k.data] : k \in keyWire} \union
             {[key |-> m.key, data |-> m.data]}
  <2> DEFINE new == [slot |-> worker.slot, key |-> d.key, data |-> d.data]
             shown(k) == [key |-> k.key, data |-> k.data]
  <2>1. keyWire' = keyWire \union {new} /\ shown(new) = [key |-> m.key, data |-> m.data]
    BY <1>3, <1>4
  <2> HIDE DEF new, shown
  <2>2. {shown(k) : k \in keyWire'} = {shown(k) : k \in keyWire} \union {shown(new)}
    BY <2>1
  <2> QED
    BY <2>1, <2>2 DEF shown
<1>8. \A r \in {[key |-> k.key, data |-> k.data] : k \in keyWire} :
         Source!KeySlot(r.key) <= Source!KeySlot(m.key)
  BY <1>6 DEF Source!KeySlot, SlotOf
<1> QED
  BY <1>3, <1>4, <1>5, <1>7, <1>8 DEF Source!Disclose

LEMMA NextRefines ==
    ASSUME ~Probabilistic PROVE SourceInv /\ [Next]_vars => [Source!Next]_(Source!vars)
<1> SUFFICES ASSUME SourceInv, [Next]_vars,
                    ~UNCHANGED <<slot, issued, hmacWire, keyWire>>
             PROVE  Source!Next
  BY DEF Source!vars
<1>1. TypeOK /\ TicksPast
  BY DEF SourceInv, SlotInv, KeyInv
<1>2. CASE slot' # slot
  BY <1>2, BlocksWait, NewBlockTicks DEF Source!Next
<1>3. CASE hmacWire' # hmacWire
  BY <1>1, <1>3, HmacSenders, HmacAuthenticates DEF Source!Next
<1>4. CASE keyWire' # keyWire
  BY <1>1, <1>4, Writers, SendDiscloses DEF Source!Next
<1>5. CASE issued' # issued /\ UNCHANGED <<slot, hmacWire, keyWire>>
  BY <1>1, <1>5, Registrations, RefillRegisters DEF Source!Next
<1> QED
  BY <1>2, <1>3, <1>4, <1>5

\* In deterministic mode the sender implements the abstract source: the goroutines, the
\* queue and the shared cache add no behaviour that a receiver could see.
THEOREM SenderImplementsSource == ASSUME ~Probabilistic PROVE Spec => ImplementsSource
  BY InitSource, NextSource, SourceInit, NextRefines, PTL DEF Spec, ImplementsSource, Source!Spec
=============================================================================
