------------------------------ MODULE RcdSender ------------------------------
(***************************************************************************)
(* The sending half of an RCD (internal/rcd/rcd.go), in either mode: the   *)
(* goroutines broadcastLoop, one flushBatch per slot tick, and             *)
(* disclosureWorker, over the state they share (the hash chain and the     *)
(* cached key under chainMutex, the message buffer, the disclosure queue), *)
(* with the two slot tickers (internal/slot/beacon_chain.go) that drive    *)
(* them.                                                                   *)
(*                                                                         *)
(* The owner is the far side of RequestHashChain: it sends a chain for the *)
(* slot the device named, or the request fails.  Whether the contract has  *)
(* that chain the device does not ask; module Provisioning does.  What is  *)
(* sent is kept in three sets, one for each kind of packet; a write may    *)
(* fail at any time.                                                       *)
(*                                                                         *)
(* The definitions named M_... are the one that follows them with a bug in *)
(* it: they are there to see that each property below can fail.            *)
(***************************************************************************)
EXTENDS HashChain, Sequences, FiniteSets

CONSTANTS
    ChainLen,         \* hashchainLen, the same in the owner and in the RCD
    DisclosureDelay,  \* disclosureDelay, in slots
    Probabilistic,    \* mode = ModeProbabilistic
    Loop,             \* the broadcastLoop goroutine
    Flushers,         \* flushBatch goroutines alive at once (bound)
    MaxSlot,          \* last block of the run (bound)
    MaxMsgs,          \* messages the application sends (bound)
    QueueCap,         \* capacity of disclosureMessages; 1024 in the code
    MaxLag,           \* slots that may begin between GetSlot and the HMAC's send
    SlotModulus       \* slots are uint64; 2^64 in the code

ASSUME SenderAssumption ==
    /\ ChainLen \in Nat \ {0}
    /\ DisclosureDelay \in Nat \ {0}
    /\ Probabilistic \in BOOLEAN
    /\ Loop \notin Flushers
    /\ "none" \notin Flushers \union {Loop}
    /\ MaxSlot \in Nat \ {0}
    /\ MaxMsgs \in Nat
    /\ QueueCap \in Nat \ {0}
    /\ MaxLag \in Nat
    /\ MaxLag < DisclosureDelay
    /\ SlotModulus \in Nat
    /\ MaxSlot + DisclosureDelay < SlotModulus

VARIABLES
    slot,             \* number of the latest block
    ctxDone,          \* r.ctx is cancelled or has timed out
    issued,           \* first slots of the chains the owner has sent, in order
    hashChain,        \* r.hashChain; NoLinear for nil
    cachedKey,        \* r.cachedKey: callers of CurrentSlotKey get an alias of it
    cachedKeySlot,
    chainMutex,       \* the goroutine that holds it, or NoOne
    messageCounter,
    messageBuffer,    \* messages waiting for the next batch
    disclosureQueue,  \* the channel disclosureMessages
    pending,          \* pendingDisclosures of the worker
    worker,           \* [pc, slot]: where the worker is, and the tick it serves
    cleaner,          \* where cleanupWorker is
    ticks,            \* the slot ticker of "loop" and of "worker": the slot it is
                      \* blocked on sending (0 for none), whether the slot is other
                      \* than lastSlot, and whether its channel is open
    pc,               \* where each broadcasting goroutine is
    call,             \* its local variables, while it handles a message or a batch
    dataWire, hmacWire, keyWire,
    lost              \* history: messages that a step gave up, with an error or a log

chainVars  == <<issued, hashChain, cachedKey, cachedKeySlot>>
workerVars == <<pending, worker, cleaner>>
wireVars   == <<dataWire, hmacWire, keyWire, lost>>
envVars    == <<slot, ctxDone, ticks>>
vars == <<slot, ctxDone, issued, hashChain, cachedKey, cachedKeySlot, chainMutex,
          messageCounter, messageBuffer, disclosureQueue, pending, worker, cleaner, ticks,
          pc, call, dataWire, hmacWire, keyWire, lost>>

Procs == {Loop} \union Flushers
NoOne == "none"
\* With no flushers a slot tick has nothing to do in the loop (deterministic mode
\* buffers no messages, and flushing an empty buffer changes nothing).
Tickers == IF Flushers = {} THEN {"worker"} ELSE {"loop", "worker"}
NextIdle(p) == IF p = Loop THEN "select" ELSE "idle"

\* Locals: where CurrentSlotKey returns to; the slot it last read, then the slot it
\* returned; flushBatch's argument; the payload at hand; the key the HMAC is made with.
NoCall == [after |-> "mac", seen |-> 0, slot |-> 0, data |-> {}, key |-> ZeroKey]

\* The handler returns, with or without an error.
Return(p) ==
    /\ pc' = [pc EXCEPT ![p] = NextIdle(p)]
    /\ call' = [call EXCEPT ![p] = NoCall]

\* It returns an error, and what it held is dropped.
GiveUp(p) ==
    /\ Return(p)
    /\ lost' = lost \union call[p].data

Init ==
    /\ slot = 1
    /\ ctxDone = FALSE
    /\ issued = <<>>
    /\ hashChain = NoLinear
    /\ cachedKey = ZeroKey
    /\ cachedKeySlot = 0
    /\ chainMutex = NoOne
    /\ messageCounter = 0
    /\ messageBuffer = {}
    /\ disclosureQueue = <<>>
    /\ pending = <<>>
    /\ worker = [pc |-> "select", slot |-> 0]
    /\ cleaner = "select"
    /\ ticks = [t \in Tickers |-> [out |-> 0, changed |-> TRUE, open |-> TRUE]]
    /\ pc = [p \in Procs |-> NextIdle(p)]
    /\ call = [p \in Procs |-> NoCall]
    /\ dataWire = {}
    /\ hmacWire = {}
    /\ keyWire = {}
    /\ lost = {}

-----------------------------------------------------------------------------
(* The chain's clock, the tickers that poll it, and the simulation timeout.  *)

\* A goroutine between the GetSlot of CurrentSlotKey and its HMAC's send only
\* hashes and writes one datagram: at most MaxLag blocks are mined meanwhile.
Prompt == \A p \in Procs :
            pc[p] \in {"advance", "mac", "hmac"} => slot < call[p].seen + MaxLag

NewBlock ==
    /\ slot < MaxSlot
    /\ Prompt
    /\ slot' = slot + 1
    /\ ticks' = [t \in Tickers |-> [ticks[t] EXCEPT !.changed = TRUE]]
    /\ UNCHANGED <<ctxDone, chainVars, chainMutex, messageCounter, messageBuffer,
                   disclosureQueue, workerVars, pc, call, wireVars>>

\* The polling goroutine finds a slot it has not emitted and blocks sending it.
Poll(t) ==
    /\ ticks[t].open
    /\ ticks[t].out = 0
    /\ ticks[t].changed
    /\ ticks' = [ticks EXCEPT ![t].out = slot]
    /\ UNCHANGED <<slot, ctxDone, chainVars, chainMutex, messageCounter, messageBuffer,
                   disclosureQueue, workerVars, pc, call, wireVars>>

\* It gives up on the cancelled context, from either select, and closes the channel.
TickerExit(t) ==
    /\ ctxDone
    /\ ticks[t].open
    /\ ticks' = [ticks EXCEPT ![t].out = 0, ![t].open = FALSE]
    /\ UNCHANGED <<slot, ctxDone, chainVars, chainMutex, messageCounter, messageBuffer,
                   disclosureQueue, workerVars, pc, call, wireVars>>

\* The rendezvous on the unbuffered channel: lastSlot becomes the slot sent, which
\* may be behind the latest by now.
Received(t) == [ticks EXCEPT ![t].out = 0, ![t].changed = ticks[t].out # slot]

Shutdown ==
    /\ ~ctxDone
    /\ ctxDone' = TRUE
    /\ UNCHANGED <<slot, ticks, chainVars, chainMutex, messageCounter, messageBuffer,
                   disclosureQueue, workerVars, pc, call, wireVars>>

-----------------------------------------------------------------------------
(* broadcastLoop.                                                            *)

LoopTraffic ==
    /\ pc[Loop] = "select"
    /\ messageCounter < MaxMsgs
    /\ messageCounter' = messageCounter + 1
    /\ call' = [call EXCEPT ![Loop].data = {messageCounter}, ![Loop].after = "data"]
    /\ pc' = [pc EXCEPT ![Loop] = "csk"]
    /\ UNCHANGED <<envVars, chainVars, chainMutex, messageBuffer, disclosureQueue,
                   workerVars, wireVars>>

\* currentSlot - 1, in uint64.
M_PredUnsigned(s) == s - 1
Pred(s) == (s - 1) % SlotModulus

\* go flushBatch(s - 1).
SpawnFlush(s) == \E f \in Flushers :
    /\ pc[f] = "idle"
    /\ pc' = [pc EXCEPT ![f] = "take"]
    /\ call' = [call EXCEPT ![f].slot = Pred(s)]

LoopTick ==
    /\ pc[Loop] = "select"
    /\ "loop" \in Tickers /\ ticks["loop"].out # 0
    /\ SpawnFlush(ticks["loop"].out)
    /\ ticks' = Received("loop")
    /\ UNCHANGED <<slot, ctxDone, chainVars, chainMutex, messageCounter, messageBuffer,
                   disclosureQueue, workerVars, wireVars>>

\* Receiving from the closed channel yields the zero slot.
LoopClosedTick ==
    /\ pc[Loop] = "select"
    /\ "loop" \in Tickers /\ ~ticks["loop"].open
    /\ SpawnFlush(0)
    /\ UNCHANGED <<envVars, chainVars, chainMutex, messageCounter, messageBuffer,
                   disclosureQueue, workerVars, wireVars>>

LoopExit ==
    /\ pc[Loop] = "select"
    /\ ctxDone
    /\ pc' = [pc EXCEPT ![Loop] = "done"]
    /\ UNCHANGED <<envVars, chainVars, chainMutex, messageCounter, messageBuffer,
                   disclosureQueue, workerVars, call, wireVars>>

-----------------------------------------------------------------------------
(* CurrentSlotKey, called by broadcast (for the data packet's slot), by      *)
(* broadcastDeterministic and by flushBatch.                                 *)

\* The slot the key belongs to: h_1 of a chain is for the chain's first slot.
SlotOf(k) == issued[k.chain] + k.idx - 1

CskEnter(p) ==
    /\ pc[p] = "csk"
    /\ chainMutex = NoOne
    /\ chainMutex' = p
    /\ pc' = [pc EXCEPT ![p] = "top"]
    /\ UNCHANGED <<envVars, chainVars, messageCounter, messageBuffer, disclosureQueue,
                   workerVars, call, wireVars>>

NeedsChain == hashChain = NoLinear \/ cachedKeySlot = 0

\* GetSlot: hashchainBeginSlot when a chain is needed, else currentSlot.
CskGetSlot(p) ==
    /\ pc[p] = "top"
    /\ call' = [call EXCEPT ![p].seen = slot]
    /\ pc' = [pc EXCEPT ![p] = IF NeedsChain THEN "refill" ELSE "advance"]
    /\ UNCHANGED <<envVars, chainVars, chainMutex, messageCounter, messageBuffer,
                   disclosureQueue, workerVars, wireVars>>

\* The chain that requestHashChainOnce makes of the hashes the owner has written.
ReceivedChain(c) == NewLinearFromExisting(Written(NewLinear(c, ChainLen)), ChainLen)

\* h_0, which the contract publishes, is cached as the first slot's key.
M_CskRefillFirst(p) ==
    /\ pc[p] = "refill"
    /\ issued' = Append(issued, call[p].seen)
    /\ hashChain' = ReceivedChain(Len(issued'))
    /\ cachedKey' = First(hashChain')
    /\ cachedKeySlot' = call[p].seen
    /\ pc' = [pc EXCEPT ![p] = "slot"]
    /\ UNCHANGED <<envVars, chainMutex, messageCounter, messageBuffer, disclosureQueue,
                   workerVars, call, wireVars>>

\* The slot is read after the owner has answered, not before it is asked.
M_CskRefillLateSlot(p) ==
    /\ pc[p] = "refill"
    /\ issued' = Append(issued, call[p].seen)
    /\ LET fresh == ReceivedChain(Len(issued'))
       IN  /\ cachedKey' = NextHash(fresh)
           /\ hashChain' = AfterNext(fresh)
    /\ cachedKeySlot' = slot
    /\ pc' = [pc EXCEPT ![p] = "slot"]
    /\ UNCHANGED <<envVars, chainMutex, messageCounter, messageBuffer, disclosureQueue,
                   workerVars, call, wireVars>>

\* RequestHashChain brings a chain, and its first key is cached.
CskRefill(p) ==
    /\ pc[p] = "refill"
    /\ issued' = Append(issued, call[p].seen)
    /\ LET fresh == ReceivedChain(Len(issued'))
       IN  /\ cachedKey' = NextHash(fresh)
           /\ hashChain' = AfterNext(fresh)
    /\ cachedKeySlot' = call[p].seen
    /\ pc' = [pc EXCEPT ![p] = "slot"]
    /\ UNCHANGED <<envVars, chainMutex, messageCounter, messageBuffer, disclosureQueue,
                   workerVars, call, wireVars>>

\* The GetSlot that follows a refill, before the cached key is advanced.
CskGetSlotAgain(p) ==
    /\ pc[p] = "slot"
    /\ call' = [call EXCEPT ![p].seen = slot]
    /\ pc' = [pc EXCEPT ![p] = "advance"]
    /\ UNCHANGED <<envVars, chainVars, chainMutex, messageCounter, messageBuffer,
                   disclosureQueue, workerVars, wireVars>>

\* The lock is released only on the way out that returns a key.
M_AbortLocked(p) ==
    /\ GiveUp(p)
    /\ UNCHANGED <<envVars, chainMutex, chainVars, messageCounter, messageBuffer,
                   disclosureQueue, workerVars, dataWire, hmacWire, keyWire>>

\* An error returns from the caller too.
Abort(p) ==
    /\ chainMutex' = NoOne
    /\ GiveUp(p)
    /\ UNCHANGED <<envVars, chainVars, messageCounter, messageBuffer, disclosureQueue,
                   workerVars, dataWire, hmacWire, keyWire>>

\* RequestHashChain fails in all its attempts, whether or not the owner has registered
\* a chain for one of them meanwhile.
CskRefillRefused(p) ==
    /\ pc[p] = "refill"
    /\ Abort(p)

\* The node does not answer GetSlot.
CskGetSlotFails(p) ==
    /\ pc[p] \in {"top", "slot"}
    /\ Abort(p)

Behind(p) == cachedKeySlot < call[p].seen

CskNext(p) ==
    /\ pc[p] = "advance"
    /\ Behind(p)
    /\ Remaining(hashChain) # 0
    /\ cachedKey' = NextHash(hashChain)
    /\ hashChain' = AfterNext(hashChain)
    /\ cachedKeySlot' = cachedKeySlot + 1
    /\ UNCHANGED <<envVars, issued, chainMutex, messageCounter, messageBuffer,
                   disclosureQueue, workerVars, pc, call, wireVars>>

\* A chain is given up with its last key unused.
M_CskExhaustedEarly(p) ==
    /\ pc[p] = "advance"
    /\ Behind(p)
    /\ Remaining(hashChain) <= 1
    /\ cachedKeySlot' = 0
    /\ pc' = [pc EXCEPT ![p] = "top"]
    /\ UNCHANGED <<envVars, issued, hashChain, cachedKey, chainMutex, messageCounter,
                   messageBuffer, disclosureQueue, workerVars, call, wireVars>>

CskExhausted(p) ==
    /\ pc[p] = "advance"
    /\ Behind(p)
    /\ Remaining(hashChain) = 0
    /\ cachedKeySlot' = 0
    /\ pc' = [pc EXCEPT ![p] = "top"]
    /\ UNCHANGED <<envVars, issued, hashChain, cachedKey, chainMutex, messageCounter,
                   messageBuffer, disclosureQueue, workerVars, call, wireVars>>

\* Returns cachedKeySlot and an alias of cachedKey; the deferred Unlock runs.
CskReturn(p) ==
    /\ pc[p] = "advance"
    /\ ~Behind(p)
    /\ call' = [call EXCEPT ![p].seen = cachedKeySlot]
    /\ chainMutex' = NoOne
    /\ pc' = [pc EXCEPT ![p] = call[p].after]
    /\ UNCHANGED <<envVars, chainVars, messageCounter, messageBuffer, disclosureQueue,
                   workerVars, wireVars>>

CurrentSlotKey(p) ==
    \/ CskEnter(p) \/ CskGetSlot(p) \/ CskGetSlotAgain(p) \/ CskGetSlotFails(p)
    \/ CskRefill(p) \/ CskRefillRefused(p)
    \/ CskNext(p) \/ CskExhausted(p) \/ CskReturn(p)

-----------------------------------------------------------------------------
(* broadcast, broadcastDeterministic, bufferForBatch and flushBatch.         *)

\* The data packet; then the message is authenticated on its own, or buffered.
SendData(p) ==
    /\ pc[p] = "data"
    /\ ~ctxDone
    /\ dataWire' = dataWire \union {[slot |-> call[p].seen, data |-> call[p].data]}
    /\ call' = [call EXCEPT ![p].after = "mac"]
    /\ pc' = [pc EXCEPT ![p] = IF Probabilistic THEN "buffer" ELSE "csk"]
    /\ UNCHANGED <<envVars, chainVars, chainMutex, messageCounter, messageBuffer,
                   disclosureQueue, workerVars, hmacWire, keyWire, lost>>

\* Broadcast returns an error, of the cancelled context or of the write: what was to be
\* sent, or to be authenticated, is not, and nothing is queued.
BroadcastFails(p) ==
    /\ pc[p] \in {"data", "hmac"}
    /\ GiveUp(p)
    /\ UNCHANGED <<envVars, chainVars, chainMutex, messageCounter, messageBuffer,
                   disclosureQueue, workerVars, dataWire, hmacWire, keyWire>>

BufferForBatch(p) ==
    /\ pc[p] = "buffer"
    /\ messageBuffer' = messageBuffer \union call[p].data
    /\ Return(p)
    /\ UNCHANGED <<envVars, chainVars, chainMutex, messageCounter, disclosureQueue,
                   workerVars, wireVars>>

\* The buffer is not reset.
M_FlushTakeKeep(p) ==
    /\ pc[p] = "take"
    /\ IF messageBuffer = {}
       THEN Return(p)
       ELSE /\ call' = [call EXCEPT ![p].data = messageBuffer]
            /\ pc' = [pc EXCEPT ![p] = "csk"]
    /\ UNCHANGED <<envVars, chainVars, chainMutex, messageCounter, messageBuffer,
                   disclosureQueue, workerVars, wireVars>>

\* The batch is the first message only, and the whole buffer is reset.
M_FlushTakeFirst(p) ==
    /\ pc[p] = "take"
    /\ IF messageBuffer = {}
       THEN Return(p)
       ELSE /\ call' = [call EXCEPT ![p].data = {CHOOSE m \in messageBuffer : TRUE}]
            /\ pc' = [pc EXCEPT ![p] = "csk"]
    /\ messageBuffer' = {}
    /\ UNCHANGED <<envVars, chainVars, chainMutex, messageCounter, disclosureQueue,
                   workerVars, wireVars>>

\* One message alone is left for a later batch.
M_FlushTakeTwo(p) ==
    /\ pc[p] = "take"
    /\ IF Cardinality(messageBuffer) <= 1
       THEN /\ Return(p)
            /\ UNCHANGED messageBuffer
       ELSE /\ call' = [call EXCEPT ![p].data = messageBuffer]
            /\ pc' = [pc EXCEPT ![p] = "csk"]
            /\ messageBuffer' = {}
    /\ UNCHANGED <<envVars, chainVars, chainMutex, messageCounter, disclosureQueue,
                   workerVars, wireVars>>

\* flushBatch takes the whole buffer under bufferMutex, before it has a key.
FlushTake(p) ==
    /\ pc[p] = "take"
    /\ IF messageBuffer = {}
       THEN Return(p)
       ELSE /\ call' = [call EXCEPT ![p].data = messageBuffer]
            /\ pc' = [pc EXCEPT ![p] = "csk"]
    /\ messageBuffer' = {}
    /\ UNCHANGED <<envVars, chainVars, chainMutex, messageCounter, disclosureQueue,
                   workerVars, wireVars>>

\* Another goroutine is about to copy a key over cachedKey.
Copying(p) == \E q \in Procs \ {p} :
    \/ pc[q] = "refill"
    \/ pc[q] = "advance" /\ Behind(q) /\ Remaining(hashChain) # 0

\* What the 32 bytes behind the alias read as, outside the lock.
KeyReads(p) == {cachedKey} \union (IF Copying(p) THEN {TornKey} ELSE {})

\* calculateHMAC(key, ...).
ComputeHmac(p) ==
    /\ pc[p] = "mac"
    /\ \E k \in KeyReads(p) : call' = [call EXCEPT ![p].key = k]
    /\ pc' = [pc EXCEPT ![p] = "hmac"]
    /\ UNCHANGED <<envVars, chainVars, chainMutex, messageCounter, messageBuffer,
                   disclosureQueue, workerVars, wireVars>>

\* The slot an HMAC carries, which its disclosure counts from: that of the key in
\* deterministic mode, flushBatch's argument in the other.
Label(p) == IF Probabilistic THEN call[p].slot ELSE call[p].seen

\* Broadcast does not look at the context.
M_SendHmacAnyway(p) ==
    /\ pc[p] = "hmac"
    /\ hmacWire' = hmacWire \union
           {[slot |-> Label(p), key |-> call[p].key, data |-> call[p].data]}
    /\ pc' = [pc EXCEPT ![p] = "enqueue"]
    /\ UNCHANGED <<envVars, chainVars, chainMutex, messageCounter, messageBuffer,
                   disclosureQueue, workerVars, call, dataWire, keyWire, lost>>

SendHmac(p) ==
    /\ pc[p] = "hmac"
    /\ ~ctxDone
    /\ hmacWire' = hmacWire \union
           {[slot |-> Label(p), key |-> call[p].key, data |-> call[p].data]}
    /\ pc' = [pc EXCEPT ![p] = "enqueue"]
    /\ UNCHANGED <<envVars, chainVars, chainMutex, messageCounter, messageBuffer,
                   disclosureQueue, workerVars, call, dataWire, keyWire, lost>>

M_TargetSlotSoon(p) == (Label(p) + DisclosureDelay - 1) % SlotModulus
M_TargetSlotNow(p) == Label(p)
TargetSlot(p) == (Label(p) + DisclosureDelay) % SlotModulus

\* The key is read through the alias again; with the queue full it is dropped.
Enqueue(p) ==
    /\ pc[p] = "enqueue"
    /\ IF Len(disclosureQueue) < QueueCap
       THEN /\ \E k \in KeyReads(p) :
                 disclosureQueue' =
                     Append(disclosureQueue,
                            [key |-> k, data |-> call[p].data, target |-> TargetSlot(p)])
            /\ Return(p)
            /\ UNCHANGED lost
       ELSE /\ GiveUp(p)
            /\ UNCHANGED disclosureQueue
    /\ UNCHANGED <<envVars, chainVars, chainMutex, messageCounter, messageBuffer,
                   workerVars, dataWire, hmacWire, keyWire>>

-----------------------------------------------------------------------------
(* disclosureWorker.                                                         *)

Drain(s) ==
    /\ pending' = pending \o disclosureQueue
    /\ disclosureQueue' = <<>>
    /\ worker' = [pc |-> "send", slot |-> s]
    /\ UNCHANGED <<slot, ctxDone, chainVars, chainMutex, messageCounter, messageBuffer,
                   cleaner, pc, call, wireVars>>

WorkerTick ==
    /\ worker.pc = "select"
    /\ ticks["worker"].out # 0
    /\ ticks' = Received("worker")
    /\ Drain(ticks["worker"].out)

M_WorkerClosedTickPred ==
    /\ worker.pc = "select"
    /\ ~ticks["worker"].open
    /\ UNCHANGED ticks
    /\ Drain(Pred(0))

WorkerClosedTick ==
    /\ worker.pc = "select"
    /\ ~ticks["worker"].open
    /\ UNCHANGED ticks
    /\ Drain(0)

M_ReadyStrict == pending # <<>> /\ Head(pending).target < worker.slot
Ready == pending # <<>> /\ Head(pending).target <= worker.slot

\* A failed Broadcast is logged, and the disclosure is gone all the same.
WorkerSend ==
    /\ worker.pc = "send"
    /\ Ready
    /\ pending' = Tail(pending)
    /\ \/ /\ ~ctxDone
          /\ keyWire' = keyWire \union {[slot |-> worker.slot, key |-> Head(pending).key,
                                         data |-> Head(pending).data]}
          /\ UNCHANGED lost
       \/ /\ lost' = lost \union Head(pending).data
          /\ UNCHANGED keyWire
    /\ UNCHANGED <<envVars, chainVars, chainMutex, messageCounter, messageBuffer,
                   disclosureQueue, worker, cleaner, pc, call, dataWire, hmacWire>>

\* The first disclosure not yet due stops the scan.
WorkerScanned ==
    /\ worker.pc = "send"
    /\ ~Ready
    /\ worker' = [pc |-> "select", slot |-> 0]
    /\ UNCHANGED <<envVars, chainVars, chainMutex, messageCounter, messageBuffer,
                   disclosureQueue, pending, cleaner, pc, call, wireVars>>

WorkerExit ==
    /\ worker.pc = "select"
    /\ ctxDone
    /\ worker' = [worker EXCEPT !.pc = "done"]
    /\ UNCHANGED <<envVars, chainVars, chainMutex, messageCounter, messageBuffer,
                   disclosureQueue, pending, cleaner, pc, call, wireVars>>

\* cleanupWorker works on the receiver's maps only (see RcdReceiver).
CleanupExit ==
    /\ cleaner = "select"
    /\ ctxDone
    /\ cleaner' = "done"
    /\ UNCHANGED <<envVars, chainVars, chainMutex, messageCounter, messageBuffer,
                   disclosureQueue, pending, worker, pc, call, wireVars>>

\* What the wg.Wait of Stop waits for.
Stopped == pc[Loop] = "done" /\ worker.pc = "done" /\ cleaner = "done"

Terminated ==
    /\ Stopped
    /\ \A f \in Flushers : pc[f] = "idle"
    /\ UNCHANGED vars

-----------------------------------------------------------------------------
Broadcasting(p) ==
    \/ SendData(p) \/ BroadcastFails(p) \/ BufferForBatch(p) \/ FlushTake(p)
    \/ ComputeHmac(p) \/ SendHmac(p) \/ Enqueue(p)

BroadcastLoop == LoopTraffic \/ LoopTick \/ LoopClosedTick \/ LoopExit

DisclosureWorker == WorkerTick \/ WorkerClosedTick \/ WorkerSend \/ WorkerScanned \/ WorkerExit

Environment == NewBlock \/ Shutdown \/ \E t \in Tickers : Poll(t) \/ TickerExit(t)

Next ==
    \/ Environment
    \/ BroadcastLoop
    \/ \E p \in Procs : CurrentSlotKey(p) \/ Broadcasting(p)
    \/ DisclosureWorker
    \/ CleanupExit
    \/ Terminated

Spec == Init /\ [][Next]_vars

(***************************************************************************)
(* Blocks keep coming, a goroutine that can run does run, and a select     *)
(* that finds the context done again and again takes that case some time   *)
(* (Go chooses among ready cases at random; a closed ticker is always      *)
(* ready).  Nothing makes the application send, the owner or the node      *)
(* answer, a write succeed or the simulation stop.                         *)
(***************************************************************************)
Fairness ==
    /\ WF_vars(NewBlock)
    /\ \A t \in Tickers : WF_vars(Poll(t) \/ TickerExit(t))
    /\ WF_vars(LoopTick \/ CurrentSlotKey(Loop) \/ Broadcasting(Loop))
    /\ \A f \in Flushers : WF_vars(CurrentSlotKey(f) \/ Broadcasting(f))
    /\ WF_vars(WorkerTick \/ WorkerSend \/ WorkerScanned)
    /\ WF_vars(CleanupExit)
    /\ SF_vars(LoopExit) /\ SF_vars(WorkerExit)

FairSpec == Spec /\ Fairness

-----------------------------------------------------------------------------
(* Properties.                                                               *)

InCsk == {"top", "refill", "slot", "advance"}
Pcs == InCsk \union {"select", "idle", "done", "csk", "data", "buffer", "take",
                     "mac", "hmac", "enqueue"}
Msgs == 0..(MaxMsgs - 1)
Slots == 0..MaxSlot
Keys == Key(Nat)
UintSlots == 0..(SlotModulus - 1)
TickerStates == [out : Slots, changed : BOOLEAN, open : BOOLEAN]
WorkerStates == [pc : {"select", "send", "done"}, slot : Slots]
Calls == [after : {"data", "mac"}, seen : Slots, slot : UintSlots,
          data : SUBSET Msgs, key : Keys]
Disclosures == [key : Keys, data : SUBSET Msgs, target : UintSlots]
DataPackets == [slot : Slots, data : SUBSET Msgs]
HmacPackets == [slot : UintSlots, key : Keys, data : SUBSET Msgs]
KeyPackets == [slot : Slots, key : Keys, data : SUBSET Msgs]

\* What each variable may hold.
TypeOK ==
    /\ slot \in 1..MaxSlot
    /\ ctxDone \in BOOLEAN
    /\ issued \in Seq(Slots)
    /\ hashChain \in Linear(Nat)
    /\ cachedKey \in Keys
    /\ cachedKeySlot \in Slots
    /\ chainMutex \in Procs \union {NoOne}
    /\ messageCounter \in 0..MaxMsgs
    /\ messageBuffer \in SUBSET Msgs
    /\ disclosureQueue \in Seq(Disclosures)
    /\ pending \in Seq(Disclosures)
    /\ worker \in WorkerStates
    /\ cleaner \in {"select", "done"}
    /\ ticks \in [Tickers -> TickerStates]
    /\ pc \in [Procs -> Pcs]
    /\ call \in [Procs -> Calls]
    /\ dataWire \in SUBSET DataPackets
    /\ hmacWire \in SUBSET HmacPackets
    /\ keyWire \in SUBSET KeyPackets
    /\ lost \in SUBSET Msgs

\* A key of a chain the owner has sent, as opposed to the zero or a torn buffer.
Genuine(k) == k.chain \in 1..Len(issued)

\* The cached key is the chain's key for the cached slot, across advances, chain
\* exhaustion, refills and failed refills, whatever goroutines take turns in
\* CurrentSlotKey (the cursor, the key and the slot are three separate writes).
KeyTracksSlot ==
    NeedsChain \/ /\ cachedKey = KeyOf(hashChain.id, hashChain.next - 1)
                  /\ Genuine(cachedKey)
                  /\ cachedKeySlot = SlotOf(cachedKey)

\* In deterministic mode the slot in an HMAC packet is that of the key it was
\* computed with, although the key is read after chainMutex is released.
HmacSlotMatchesKey == \A h \in hmacWire : Genuine(h.key) /\ h.slot = SlotOf(h.key)

\* A message is authenticated with the key of the slot its data packet names, or of a
\* later one: a receiver that keeps what arrives within disclosureDelay of the slot on
\* the packet has it before the key is due.  Two calls of CurrentSlotKey, with blocks
\* and refills between them, give the two slots.
DataNotAfterKey ==
    \A d \in dataWire, h \in hmacWire :
        d.data \subseteq h.data /\ Genuine(h.key) => d.slot <= SlotOf(h.key)

\* The disclosure delay: no key is broadcast before disclosureDelay slots have
\* passed since the slot it authenticates.
NoEarlyReveal ==
    \A k \in keyWire : Genuine(k.key) => SlotOf(k.key) + DisclosureDelay <= slot

\* A disclosed key determines every earlier one of its chain.
Discloses(k, h) == k.chain = h.chain /\ h.idx <= k.idx

\* No HMAC leaves under a key that a disclosure already on the wire gives away.
HmacPrecedesReveal ==
    [][\A h \in hmacWire' \ hmacWire : \A k \in keyWire : ~Discloses(k.key, h.key)]_vars

Queued == {disclosureQueue[i] : i \in DOMAIN disclosureQueue}
              \union {pending[i] : i \in DOMAIN pending}

\* m waits for its disclosure, and all that may hold it up has its slot within the run.
WillBeDue(m) == (\E d \in Queued : m \in d.data) /\ (\A d \in Queued : d.target <= MaxSlot)

\* A disclosure that is queued is broadcast once its slot has come, however late the
\* worker's ticks are, and whatever stands before it, or its write has failed, unless the
\* simulation ends.
EachQueuedRevealed ==
    \A m \in Msgs :
        WillBeDue(m) /\ slot < MaxSlot
            ~> (\E k \in keyWire : m \in k.data) \/ m \in lost \/ ctxDone

\* Stop() returns: of the three goroutines its wg.Wait is for, the loop may be in
\* CurrentSlotKey, or waiting for its lock behind a flushBatch that nobody waits for, when
\* the context is cancelled.
StopReturns == ctxDone ~> Stopped

\* A message is in one batch at most: of the buffer, the batches that flushers hold
\* and those on the wire, no two share a message.
Batches(p) == IF p \in Flushers /\ pc[p] # "idle" THEN call[p].data ELSE {}
NoMessageInTwoBatches ==
    /\ \A g, h \in hmacWire : g.data # h.data => g.data \intersect h.data = {}
    /\ \A h \in hmacWire : messageBuffer \intersect h.data = {}
    /\ \A p, q \in Procs : p # q => Batches(p) \intersect Batches(q) = {}
    /\ \A p \in Procs : messageBuffer \intersect Batches(p) = {}

\* A message that the application has sent is in somebody's hands, waits in the buffer or
\* in a queue for its disclosure, or has been disclosed, unless a step that reports an error
\* gave it up: no take, drain or cut of a list loses one without a word.
Holding(p) == IF pc[p] \in {"idle", "select", "done", "take"} THEN {} ELSE call[p].data
NoneVanishes ==
    0..(messageCounter - 1) \subseteq
        (UNION {Holding(p) : p \in Procs}) \union messageBuffer \union lost
            \union (UNION {d.data : d \in Queued \union keyWire})

\* In probabilistic mode a batch is labelled with a slot that is over, never with the
\* wrapped slot that flushBatch is given when the ticker's channel is closed, and its key,
\* when it is one of a chain, is of a later slot than the label: the key is looked up after
\* the flush was spawned, with ticks, refills and other flushes in between.
BatchKeyIsLater ==
    \A h \in hmacWire : h.slot < slot /\ (Genuine(h.key) => h.slot < SlotOf(h.key))

\* What is disclosed in probabilistic mode is the payload of a batch HMAC that was
\* sent, and disclosureDelay slots after the slot the batch is labelled with; that
\* holds through stale ticks and flushes that overtake each other.
DelayFromLabel ==
    \A k \in keyWire : \E h \in hmacWire :
        h.data = k.data /\ h.slot + DisclosureDelay <= k.slot

\* A message that waits for its batch is authenticated when the slot changes, unless the
\* flush fails or the simulation ends.
EachBufferedFlushed ==
    \A m \in Msgs :
        m \in messageBuffer /\ slot < MaxSlot
            ~> (\E h \in hmacWire : m \in h.data) \/ m \in lost \/ ctxDone

-----------------------------------------------------------------------------
(* What the packets on the wire amount to.                                   *)

Source == INSTANCE TeslaSource WITH
    Payloads <- SUBSET Msgs,
    now <- slot,
    chains <- issued,
    macs <- hmacWire,
    reveals <- {[key |-> k.key, data |-> k.data] : k \in keyWire}

\* In deterministic mode the goroutines, their queue and their shared cache together are
\* a source that authenticates in the key's slot, or less than the delay after it, and
\* discloses in order after the delay.
ImplementsSource == Source!Spec
=============================================================================
