-------------------------------- MODULE Chat --------------------------------
(***************************************************************************)
(* The transmitter and the receiver of cmd/chat (internal/tx/tx.go,        *)
(* internal/rx/rx.go; both deprecated) with the slot source they use       *)
(* (internal/slot/unix_epoch.go).  The transmitter has one goroutine that  *)
(* broadcasts and one that discloses; the receiver handles every datagram  *)
(* in a goroutine of its own.                                              *)
(*                                                                         *)
(* A key is taken off the chain for one message only, so it stands for the *)
(* message and for its HMAC as well.                                       *)
(*                                                                         *)
(* Slots are those of the wall clock, which may be set back.  A write to   *)
(* the socket may fail; the network loses, reorders, delays and may        *)
(* duplicate datagrams.                                                    *)
(*                                                                         *)
(* The definitions named M_... are the one that follows them with a bug in *)
(* it: they are there to see that each property below can fail.            *)
(***************************************************************************)
EXTENDS HashChain, Sequences, Bags, FiniteSets

CONSTANTS
    ChainLen,         \* length of the hash chain, and messages at most; 100 in the code
    DisclosureDelay,  \* 3 in the code
    QueueCap,         \* capacity of disclosureMessages; 1024 in the code
    Handlers,         \* receiver's goroutines alive at once (bound)
    Copies,           \* deliveries of one datagram (bound)
    MaxSlot,          \* last slot of the run (bound)
    MaxFailures,      \* writes that fail (bound)
    MaxBack           \* times the clock is set back (bound)

ASSUME ChatAssumption ==
    /\ {ChainLen, DisclosureDelay, QueueCap, Copies} \subseteq Nat \ {0}
    /\ {MaxSlot, MaxFailures, MaxBack} \subseteq Nat

VARIABLES
    slot,         \* GetSlot() of the slot source
    setBack,      \* times the clock has been set back
    fired,        \* a tick waits in the channel of the time.Ticker
    tick,         \* slots that the ticker's goroutine is blocked on sending: one or none
    stopped,      \* t.ctx is cancelled
    hashchain,
    main,         \* where Broadcast is, and its locals
    disclosureMessages,
    pending,      \* pendingDisclosures
    worker,       \* where the scan is: the tick's slot, the index, readyIdx
    failures,     \* writes that have failed
    air,          \* bag of datagrams on their way
    receivedHMACs,
    handler,      \* of each goroutine, the HMACs it is about to delete: one or none
    sentHmacs,    \* history: HMAC packets broadcast
    sentKeys,     \* history: bag of the key packets broadcast, and when
    unsent,       \* history: keys whose packets could not be broadcast
    heard,        \* history: bag of the HMACs stored
    verified      \* history: bag of the HMACs that verified a key packet

clockVars == <<slot, setBack, fired, tick>>
mainVars == <<hashchain, main>>
rxVars == <<receivedHMACs, handler, heard, verified>>
workerVars == <<pending, worker>>
sentVars == <<sentHmacs, sentKeys, unsent>>
txVars == <<stopped, mainVars, disclosureMessages, workerVars, failures, sentVars>>
vars == <<clockVars, txVars, air, rxVars>>

NoCall == [pc |-> "idle", slot |-> 0, key |-> ZeroKey]
Waiting == [pc |-> "select", slot |-> 0, i |-> 0, readyIdx |-> 0]

Init ==
    /\ slot = 0
    /\ setBack = 0
    /\ fired = FALSE
    /\ tick = {}
    /\ stopped = FALSE
    /\ hashchain = NewLinear(1, ChainLen)
    /\ main = NoCall
    /\ disclosureMessages = <<>>
    /\ pending = <<>>
    /\ worker = Waiting
    /\ failures = 0
    /\ air = EmptyBag
    /\ receivedHMACs = {}
    /\ handler = [h \in Handlers |-> {}]
    /\ sentHmacs = {}
    /\ sentKeys = EmptyBag
    /\ unsent = {}
    /\ heard = EmptyBag
    /\ verified = EmptyBag

-----------------------------------------------------------------------------
(* The clock, and the slot source's ticker.                                  *)

\* The time.Ticker fires once a slot; a tick that finds one waiting is dropped.
NewSlot ==
    /\ slot < MaxSlot
    /\ slot' = slot + 1
    /\ fired' = TRUE
    /\ UNCHANGED <<setBack, tick, txVars, air, rxVars>>

SetBack ==
    /\ setBack < MaxBack
    /\ slot > 0
    /\ slot' = slot - 1
    /\ setBack' = setBack + 1
    /\ UNCHANGED <<fired, tick, txVars, air, rxVars>>

\* The slot is read, and offered until it is taken.
Ticker ==
    /\ fired
    /\ tick = {}
    /\ fired' = FALSE
    /\ tick' = {slot}
    /\ UNCHANGED <<slot, setBack, txVars, air, rxVars>>

-----------------------------------------------------------------------------
(* The transmitter: Broadcast and Stop.                                      *)

\* A datagram with this content, in every copy of it.
OnAir(pkt) == air (+) [x \in {pkt} |-> Copies]

\* The next key is used up whatever comes of the message.  With none left Broadcast
\* returns an error and changes nothing.
BroadcastKey ==
    /\ main.pc = "idle"
    /\ Remaining(hashchain) # 0
    /\ main' = [pc |-> "send", slot |-> slot, key |-> NextHash(hashchain)]
    /\ hashchain' = AfterNext(hashchain)
    /\ UNCHANGED <<clockVars, stopped, disclosureMessages, workerVars, failures, air, rxVars,
                   sentVars>>

\* This context is never cancelled.
BroadcastHmac ==
    /\ main.pc = "send"
    /\ main' = [main EXCEPT !.pc = "queue"]
    /\ air' = OnAir([kind |-> "hmac", slot |-> main.slot, key |-> main.key])
    /\ sentHmacs' = sentHmacs \union {[slot |-> main.slot, key |-> main.key]}
    /\ UNCHANGED <<clockVars, stopped, hashchain, disclosureMessages, workerVars, failures, rxVars,
                   sentKeys, unsent>>

BroadcastFails ==
    /\ main.pc = "send"
    /\ failures < MaxFailures
    /\ failures' = failures + 1
    /\ main' = NoCall
    /\ UNCHANGED <<clockVars, stopped, hashchain, disclosureMessages, workerVars, air, rxVars,
                   sentVars>>

M_TargetSlotSoon == main.slot + DisclosureDelay - 1
TargetSlot == main.slot + DisclosureDelay

\* The queue has no limit.
M_HasRoomAlways == TRUE
HasRoom == Len(disclosureMessages) < QueueCap

\* With the queue full the HMAC is out and its key is never disclosed.
QueueDisclosure ==
    /\ main.pc = "queue"
    /\ disclosureMessages' =
           IF HasRoom
           THEN Append(disclosureMessages, [key |-> main.key, target |-> TargetSlot])
           ELSE disclosureMessages
    /\ main' = NoCall
    /\ UNCHANGED <<clockVars, stopped, hashchain, workerVars, failures, air, rxVars, sentVars>>

Stop ==
    /\ ~stopped
    /\ stopped' = TRUE
    /\ UNCHANGED <<clockVars, mainVars, disclosureMessages, workerVars, failures, air, rxVars,
                   sentVars>>

-----------------------------------------------------------------------------
(* The transmitter: DisclosureBroadcastWorker.                               *)

WorkerTick ==
    /\ worker.pc = "select"
    /\ \E s \in tick :
         worker' = [pc |-> "scan", slot |-> s, i |-> 1, readyIdx |-> 0]
    /\ tick' = {}
    /\ pending' = pending \o disclosureMessages
    /\ disclosureMessages' = <<>>
    /\ UNCHANGED <<slot, setBack, fired, stopped, mainVars, failures, air, rxVars, sentVars>>

AtEnd == worker.i > Len(pending)
Due == ~AtEnd /\ pending[worker.i].target <= worker.slot

\* readyIdx at the first disclosure that is not due; or that one is cut off too.
M_IdxNotDueOneMore == worker.i
IdxNotDue == worker.i - 1

\* The disclosures that are done with are cut off.
WorkerStops ==
    /\ worker.pc = "scan"
    /\ ~Due
    /\ LET readyIdx == IF AtEnd THEN worker.readyIdx ELSE IdxNotDue
       IN  pending' = SubSeq(pending, readyIdx + 1, Len(pending))
    /\ worker' = Waiting
    /\ UNCHANGED <<clockVars, stopped, mainVars, disclosureMessages, failures, air, rxVars,
                   sentVars>>

\* readyIdx after a success, which may not move it.
M_IdxSentKept == worker.readyIdx
IdxSent == worker.i

\* The slot that the clock would show had it never been set back.
SlotsBegun == slot + setBack

Disclose ==
    /\ worker.pc = "scan"
    /\ Due /\ ~stopped
    /\ LET key == pending[worker.i].key
       IN  /\ air' = OnAir([kind |-> "key", slot |-> worker.slot, key |-> key])
           /\ sentKeys' = sentKeys (+)
                  SetToBag({[slot |-> worker.slot, key |-> key, begun |-> SlotsBegun]})
    /\ worker' = [worker EXCEPT !.i = @ + 1, !.readyIdx = IdxSent]
    /\ UNCHANGED <<clockVars, stopped, mainVars, disclosureMessages, pending, failures, rxVars,
                   sentHmacs, unsent>>

\* The scan goes on.  The disclosure is tried again at the next tick if nothing that comes
\* after it in this scan is broadcast or not due, and is dropped otherwise.
DiscloseFails ==
    /\ worker.pc = "scan"
    /\ Due
    /\ stopped \/ failures < MaxFailures
    /\ failures' = IF stopped THEN failures ELSE failures + 1
    /\ unsent' = unsent \union {pending[worker.i].key}
    /\ worker' = [worker EXCEPT !.i = @ + 1]
    /\ UNCHANGED <<clockVars, stopped, mainVars, disclosureMessages, pending, air, rxVars,
                   sentHmacs, sentKeys>>

WorkerExits ==
    /\ worker.pc = "select"
    /\ stopped
    /\ worker' = [worker EXCEPT !.pc = "done"]
    /\ UNCHANGED <<clockVars, stopped, mainVars, disclosureMessages, pending, failures, air, rxVars,
                   sentVars>>

-----------------------------------------------------------------------------
(* The receiver's handlers.                                                  *)

Takes(h, pkt, kind) ==
    /\ handler[h] = {}
    /\ pkt.kind = kind
    /\ air' = air (-) SetToBag({pkt})

StoreHmac(h, pkt) ==
    /\ Takes(h, pkt, "hmac")
    /\ receivedHMACs' = receivedHMACs \union {pkt.key}
    /\ heard' = heard (+) SetToBag({pkt.key})
    /\ UNCHANGED <<clockVars, txVars, handler, verified>>

\* VerifyKeyMessage looks the HMAC up, and
VerifyKeyMessage(h, pkt) ==
    /\ Takes(h, pkt, "key")
    /\ handler' = [handler EXCEPT ![h] = {pkt.key} \intersect receivedHMACs]
    /\ UNCHANGED <<clockVars, txVars, receivedHMACs, heard, verified>>

M_RemainingHmacsAll(h) == receivedHMACs
RemainingHmacs(h) == receivedHMACs \ handler[h]

\* deletes it.  Another copy of the key packet may find it in between.
DeleteHmac(h) ==
    /\ handler[h] # {}
    /\ receivedHMACs' = RemainingHmacs(h)
    /\ verified' = verified (+) SetToBag(handler[h])
    /\ handler' = [handler EXCEPT ![h] = {}]
    /\ UNCHANGED <<clockVars, txVars, air, heard>>

-----------------------------------------------------------------------------
Broadcast == BroadcastKey \/ BroadcastHmac \/ BroadcastFails \/ QueueDisclosure

DisclosureBroadcastWorker == WorkerTick \/ WorkerStops \/ Disclose \/ DiscloseFails \/ WorkerExits

Receiver ==
    \E h \in Handlers :
        \/ \E pkt \in BagToSet(air) : StoreHmac(h, pkt) \/ VerifyKeyMessage(h, pkt)
        \/ DeleteHmac(h)

Next == NewSlot \/ SetBack \/ Ticker \/ Broadcast \/ Stop \/ DisclosureBroadcastWorker \/ Receiver

Spec == Init /\ [][Next]_vars

\* Time passes and the transmitter's goroutines run; nothing makes anybody broadcast, a
\* write fail, or a datagram arrive.
Fairness ==
    /\ WF_vars(NewSlot) /\ WF_vars(Ticker)
    /\ WF_vars(BroadcastHmac) /\ WF_vars(QueueDisclosure)
    /\ WF_vars(DisclosureBroadcastWorker)

FairSpec == Spec /\ Fairness

-----------------------------------------------------------------------------
(* Properties.                                                               *)

Keys == [chain : {1}, idx : 1..ChainLen]
Slots == 0..MaxSlot
Disclosures == [key : Keys, target : Nat]

\* What each variable may hold; a scan is never past the end by more than one.
ChatTypeOK ==
    /\ slot \in Slots /\ setBack \in 0..MaxBack
    /\ fired \in BOOLEAN /\ stopped \in BOOLEAN
    /\ tick \subseteq Slots /\ Cardinality(tick) <= 1
    /\ hashchain \in Linear({1}) /\ hashchain.next \in 1..(ChainLen + 1)
    /\ main.pc \in {"idle", "send", "queue"}
    /\ main.pc # "idle" => main.key \in Keys
    /\ disclosureMessages \in Seq(Disclosures) /\ Len(disclosureMessages) <= QueueCap
    /\ pending \in Seq(Disclosures)
    /\ worker.pc \in {"select", "scan", "done"}
    /\ worker.pc = "scan" =>
         worker.i \in 1..(Len(pending) + 1) /\ worker.readyIdx \in 0..(worker.i - 1)
    /\ failures \in 0..MaxFailures
    /\ receivedHMACs \subseteq Keys
    /\ \A h \in Handlers : handler[h] \subseteq Keys

\* A disclosure that was broadcast is not broadcast again, although those that failed
\* around it are tried again at later ticks.
DisclosedOnce == \A k \in BagToSet(sentKeys) :
    /\ sentKeys[k] = 1
    /\ \A j \in BagToSet(sentKeys) : j.key = k.key => j = k

\* A key packet's slot is disclosureDelay or more after that of the HMAC it opens, and the
\* packet goes out when that slot has begun by a clock that was never set back.  Stale ticks
\* and failed writes never make a key early; set-backs make it early by as many slots as
\* there were of them, at most.
DisclosedAfterDelay == \A k \in BagToSet(sentKeys) :
    /\ \E h \in sentHmacs : h.key = k.key /\ h.slot + DisclosureDelay <= k.slot
    /\ k.slot <= k.begun

\* An HMAC that was heard once is gone when a key packet has been verified with it, so
\* that no later one is.
ForgottenOnceVerified ==
    \A x \in BagToSet(verified) : heard[x] = 1 => x \notin receivedHMACs

Queued == {disclosureMessages[i] : i \in DOMAIN disclosureMessages}
Before == {pending[i] : i \in DOMAIN pending} \union Queued

\* A disclosure that is queued is broadcast once its slot has come and those before it
\* are due, unless writing it fails or the transmitter is stopped.
EachQueuedDisclosed == \A m \in Keys :
    /\ \E d \in Queued : d.key = m
    /\ slot < MaxSlot /\ \A d \in Before : d.target <= MaxSlot
    ~>  \/ \E k \in BagToSet(sentKeys) : k.key = m
        \/ m \in unsent \/ stopped
=============================================================================
