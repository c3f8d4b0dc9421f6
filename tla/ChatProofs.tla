----------------------------- MODULE ChatProofs -----------------------------
(***************************************************************************)
(* The transmitter and the receiver of cmd/chat keep their types, disclose *)
(* every key at most once and early by no more than the clock was set back,*)
(* and forget an HMAC that has verified, for any chain, delay, queue,      *)
(* handlers, failures and clock.                                           *)
(*                                                                         *)
(* That a disclosure is not repeated is not inductive: a failed write      *)
(* leaves pending as it is, with disclosures before and after it that were *)
(* broadcast in the same scan.  OrderInv says where those are: keys are    *)
(* queued in the order of the chain, and what is broadcast is never after  *)
(* readyIdx, so that the end of the scan cuts it off.                      *)
(***************************************************************************)
EXTENDS Chat, SequenceTheorems, FiniteSetTheorems, TLAPS

LEMMA BagAdd ==
    ASSUME NEW B, NEW C
    PROVE  BagToSet(B (+) C) = BagToSet(B) \union BagToSet(C)
  BY DEF BagToSet, (+)

LEMMA BagRemove ==
    ASSUME NEW B, NEW C
    PROVE  BagToSet(B (-) C) \subseteq BagToSet(B)
  BY DEF BagToSet, (-)

Counts(B) == \A x \in BagToSet(B) : B[x] \in Nat \ {0}

\* What adding one element to a bag does to its elements and the copies of each.
LEMMA BagAddOne ==
    ASSUME NEW B, Counts(B), NEW y
    PROVE  /\ BagToSet(B (+) SetToBag({y})) = BagToSet(B) \union {y}
           /\ Counts(B (+) SetToBag({y}))
           /\ \A x \in BagToSet(B) \ {y} : (B (+) SetToBag({y}))[x] = B[x]
           /\ y \in BagToSet(B) => (B (+) SetToBag({y}))[y] = B[y] + 1
           /\ y \notin BagToSet(B) => (B (+) SetToBag({y}))[y] = 1
<1> DEFINE one == SetToBag({y})
           sum == B (+) one
<1>1. BagToSet(one) = {y} /\ one[y] = 1
  BY DEF BagToSet, SetToBag
<1>2. BagToSet(sum) = BagToSet(B) \union {y}
  BY <1>1, BagAdd
<1> HIDE DEF one
<1>3. sum = [e \in BagToSet(B) \union {y} |->
                (IF e \in BagToSet(B) THEN B[e] ELSE 0) + (IF e \in {y} THEN one[e] ELSE 0)]
  BY <1>1 DEF (+), BagToSet
<1>4. ASSUME NEW x \in BagToSet(B) \union {y}
      PROVE  sum[x] = (IF x \in BagToSet(B) THEN B[x] ELSE 0) + (IF x = y THEN 1 ELSE 0)
  BY <1>1, <1>3
<1> HIDE DEF sum
<1>5. Counts(sum)
  BY <1>2, <1>4 DEF Counts
<1>6. \A x \in BagToSet(B) \ {y} : sum[x] = B[x]
  BY <1>4 DEF Counts
<1>7. y \in BagToSet(B) => sum[y] = B[y] + 1
  BY <1>4
<1>8. y \notin BagToSet(B) => sum[y] = 1
  BY <1>4
<1> QED
  BY <1>2, <1>5, <1>6, <1>7, <1>8 DEF sum, one

-----------------------------------------------------------------------------
(* Types.                                                                    *)

AirKeys == \A p \in BagToSet(air) : p.key \in Keys

WorkerStates == [pc : {"select", "scan", "done"}, slot : Slots, i : Nat, readyIdx : Nat]

TypeInv ==
    /\ ChatTypeOK
    /\ hashchain.n = ChainLen
    /\ main \in [pc : {"idle", "send", "queue"}, slot : Slots, key : Keys \union {ZeroKey}]
    /\ worker \in WorkerStates
    /\ handler \in [Handlers -> SUBSET Keys]
    /\ AirKeys

LEMMA Constants ==
    /\ ChainLen \in Nat \ {0} /\ DisclosureDelay \in Nat \ {0}
    /\ QueueCap \in Nat \ {0} /\ Copies \in Nat \ {0}
    /\ MaxSlot \in Nat /\ MaxFailures \in Nat /\ MaxBack \in Nat
  BY ChatAssumption

LEMMA InitTypeInv == Init => TypeInv
<1> SUFFICES ASSUME Init PROVE TypeInv
  OBVIOUS
<1> USE Constants
<1>1. Cardinality({}) <= 1
  BY FS_EmptySet
<1>2. BagToSet(air) = {}
  BY DEF Init, EmptyBag, SetToBag, BagToSet
<1>3. hashchain \in Linear({1}) /\ hashchain.next = 1 /\ hashchain.n = ChainLen
  BY DEF Init, NewLinear, Linear
<1>4. tick \subseteq Slots /\ Cardinality(tick) <= 1
  BY <1>1 DEF Init
<1>5. /\ disclosureMessages \in Seq(Disclosures) /\ Len(disclosureMessages) <= QueueCap
      /\ pending \in Seq(Disclosures)
  BY DEF Init
<1>6. /\ main.pc = "idle" /\ worker.pc = "select" /\ receivedHMACs = {}
      /\ \A h \in Handlers : handler[h] = {}
  BY DEF Init, NoCall, Waiting
<1>7. fired \in BOOLEAN /\ stopped \in BOOLEAN
  BY DEF Init
<1>8. slot \in Slots /\ setBack \in 0..MaxBack /\ failures \in 0..MaxFailures
  BY DEF Init, Slots
<1>9. hashchain.next \in 1..(ChainLen + 1)
  BY <1>3
<1>10. ChatTypeOK
  BY <1>3, <1>4, <1>5, <1>6, <1>7, <1>8, <1>9 DEF ChatTypeOK
<1> QED
  BY <1>2, <1>3, <1>10 DEF Init, TypeInv, WorkerStates, AirKeys, NoCall, Waiting, Slots, Keys

LEMMA OnAirKeys ==
    ASSUME AirKeys, NEW pkt, pkt.key \in Keys, air' = OnAir(pkt)
    PROVE  AirKeys'
<1>1. BagToSet([x \in {pkt} |-> Copies]) = {pkt}
  BY DEF BagToSet
<1> QED
  BY <1>1, BagAdd DEF OnAir, AirKeys

LEMMA TakenKeys ==
    ASSUME AirKeys, NEW h, NEW pkt, NEW kind, Takes(h, pkt, kind)
    PROVE  AirKeys'
  BY BagRemove DEF Takes, AirKeys

\* What the scan has before it.
LEMMA DueDisclosure ==
    ASSUME TypeInv, worker.pc = "scan"
    PROVE  /\ worker.i \in Nat \ {0} /\ worker.readyIdx \in Nat
           /\ worker.i <= Len(pending) + 1 /\ worker.readyIdx < worker.i
           /\ AtEnd = (worker.i > Len(pending))
           /\ Due => /\ worker.i \in 1..Len(pending)
                     /\ pending[worker.i].key \in Keys /\ pending[worker.i].target \in Nat
                     /\ pending[worker.i].target <= worker.slot
<1>1. /\ worker.i \in 1..(Len(pending) + 1) /\ worker.readyIdx \in 0..(worker.i - 1)
      /\ pending \in Seq(Disclosures) /\ Len(pending) \in Nat
  BY DEF TypeInv, ChatTypeOK
<1>2. ASSUME Due PROVE worker.i \in 1..Len(pending) /\ pending[worker.i] \in Disclosures
  BY <1>1, <1>2 DEF Due, AtEnd
<1> QED
  BY <1>1, <1>2 DEF Due, AtEnd, Disclosures

LEMMA NextTypeInv == TypeInv /\ [Next]_vars => TypeInv'
<1> SUFFICES ASSUME TypeInv, [Next]_vars PROVE TypeInv'
  OBVIOUS
<1> USE Constants DEF TypeInv, ChatTypeOK
<1>0. worker \in WorkerStates /\ slot \in 0..MaxSlot /\ failures \in 0..MaxFailures
  BY DEF Slots
<1>1. CASE NewSlot
  BY <1>1 DEF Slots, NewSlot, txVars, mainVars, workerVars, sentVars, rxVars, AirKeys
<1>2. CASE SetBack
  BY <1>2 DEF Slots, SetBack, txVars, mainVars, workerVars, sentVars, rxVars, AirKeys
<1>3. CASE Ticker
  <2>1. Cardinality({slot}) = 1
    BY FS_Singleton
  <2>2. Cardinality(tick') <= 1
    BY <1>3, <2>1 DEF Ticker
  <2> QED
    BY <1>3, <2>2 DEF Ticker, txVars, mainVars, workerVars, sentVars, rxVars, AirKeys
<1>4. CASE BroadcastKey
  <2>1. NextHash(hashchain) \in Keys
    BY <1>4 DEF BroadcastKey, NextHash, KeyOf, Keys, Linear, Remaining
  <2>2. /\ hashchain' \in Linear({1}) /\ hashchain'.n = ChainLen
        /\ hashchain'.next \in 1..(ChainLen + 1)
    <3>1. hashchain.next <= ChainLen
      BY <1>4 DEF BroadcastKey, Linear, Remaining
    <3>2. hashchain' = [hashchain EXCEPT !.next = @ + 1]
      BY <1>4 DEF BroadcastKey, AfterNext
    <3>3. /\ hashchain \in Linear({1}) /\ hashchain.n = ChainLen
          /\ hashchain.next \in 1..(ChainLen + 1)
      OBVIOUS
    <3> HIDE DEF TypeInv
    <3> QED
      BY <3>1, <3>2, <3>3 DEF Linear
  <2> QED
    BY <1>4, <2>1, <2>2 DEF BroadcastKey, clockVars, workerVars, rxVars, sentVars, AirKeys
<1>5. CASE BroadcastHmac
  <2>1. AirKeys'
    BY <1>5, OnAirKeys DEF BroadcastHmac
  <2> QED
    BY <1>5, <2>1 DEF BroadcastHmac, clockVars, workerVars, rxVars
<1>6. CASE BroadcastFails
  <2>1. failures' \in 0..MaxFailures
    <3>1. failures' = failures + 1 /\ failures < MaxFailures
      BY <1>6 DEF BroadcastFails
    <3> HIDE DEF TypeInv
    <3> QED
      BY <1>0, <3>1
  <2>2. /\ main' = NoCall
        /\ NoCall \in [pc : {"idle", "send", "queue"}, slot : Slots, key : Keys \union {ZeroKey}]
    BY <1>6 DEF BroadcastFails, NoCall, Slots
  <2> QED
    BY <1>6, <2>1, <2>2 DEF BroadcastFails, NoCall, clockVars, workerVars, rxVars, sentVars, AirKeys
<1>7. CASE QueueDisclosure
  <2>1. [key |-> main.key, target |-> TargetSlot] \in Disclosures
    BY <1>7 DEF QueueDisclosure, TargetSlot, Disclosures, Slots
  <2>2. /\ disclosureMessages' \in Seq(Disclosures)
        /\ Len(disclosureMessages') <= QueueCap
    BY <1>7, <2>1 DEF QueueDisclosure, HasRoom
  <2> QED
    BY <1>7, <2>2 DEF QueueDisclosure, Slots, NoCall, clockVars, workerVars, rxVars, sentVars, AirKeys
<1>8. CASE Stop
  BY <1>8 DEF Stop, clockVars, mainVars, workerVars, rxVars, sentVars, AirKeys
<1>9. CASE WorkerTick
  <2>1. pending' \in Seq(Disclosures) /\ Len(pending') \in Nat
    BY <1>9 DEF WorkerTick
  <2>2. Cardinality(tick') <= 1
    BY <1>9, FS_EmptySet DEF WorkerTick
  <2>3. worker' \in WorkerStates /\ worker'.i = 1 /\ worker'.readyIdx = 0
    BY <1>9 DEF WorkerTick, WorkerStates
  <2> QED
    BY <1>9, <2>1, <2>2, <2>3 DEF WorkerTick, mainVars, rxVars, sentVars, AirKeys
<1>10. CASE WorkerStops
  <2>1. worker.pc = "scan" /\ worker' = Waiting
    BY <1>10 DEF WorkerStops
  <2>2. PICK r \in Nat : pending' = SubSeq(pending, r + 1, Len(pending))
    <3>1. worker.readyIdx \in Nat /\ worker.i - 1 \in Nat
      BY <2>1, DueDisclosure
    <3> QED
      BY <1>10, <3>1 DEF WorkerStops, IdxNotDue
  <2>3. pending' \in Seq(Disclosures)
    BY <2>2, SubSeqProperties
  <2>4. worker' \in WorkerStates /\ worker'.pc = "select"
    BY <2>1 DEF Waiting, WorkerStates, Slots
  <2> QED
    BY <1>10, <2>3, <2>4 DEF WorkerStops, clockVars, mainVars, rxVars, sentVars, AirKeys
<1>11. CASE Disclose
  <2>1. worker.pc = "scan" /\ Due
    BY <1>11 DEF Disclose
  <2>2. pending[worker.i].key \in Keys
    BY <2>1, DueDisclosure
  <2>3. AirKeys'
    BY <1>11, <2>2, OnAirKeys DEF Disclose
  <2>4. worker.i \in 1..Len(pending) /\ Len(pending) \in Nat
    BY <2>1, DueDisclosure
  <2>5. /\ worker' \in WorkerStates /\ worker'.pc = "scan"
        /\ worker'.i = worker.i + 1 /\ worker'.readyIdx = worker.i
    <3>1. worker' = [worker EXCEPT !.i = worker.i + 1, !.readyIdx = worker.i]
      BY <1>11 DEF Disclose, IdxSent
    <3>2. worker' = [pc |-> "scan", slot |-> worker.slot, i |-> worker.i + 1,
                     readyIdx |-> worker.i]
      BY <1>0, <2>1, <3>1 DEF WorkerStates
    <3> QED
      BY <1>0, <2>4, <3>2 DEF WorkerStates
  <2>6. worker'.i \in 1..(Len(pending) + 1) /\ worker'.readyIdx \in 0..(worker'.i - 1)
    BY <2>4, <2>5
  <2> QED
    BY <1>11, <2>3, <2>5, <2>6 DEF Disclose, clockVars, mainVars, rxVars
<1>12. CASE DiscloseFails
  <2>1. worker.pc = "scan" /\ Due
    BY <1>12 DEF DiscloseFails
  <2>2. /\ worker.i \in 1..Len(pending) /\ Len(pending) \in Nat
        /\ worker.readyIdx \in Nat /\ worker.readyIdx < worker.i
    BY <2>1, DueDisclosure
  <2>3. /\ worker' \in WorkerStates /\ worker'.pc = "scan"
        /\ worker'.i = worker.i + 1 /\ worker'.readyIdx = worker.readyIdx
    <3> HIDE DEF TypeInv
    <3>1. worker' = [worker EXCEPT !.i = worker.i + 1]
      BY <1>12 DEF DiscloseFails
    <3>2. worker' = [pc |-> "scan", slot |-> worker.slot, i |-> worker.i + 1,
                     readyIdx |-> worker.readyIdx]
      BY <1>0, <2>1, <3>1 DEF WorkerStates
    <3>3. worker.slot \in Slots
      BY <1>0 DEF WorkerStates
    <3> QED
      BY <2>2, <3>2, <3>3 DEF WorkerStates
  <2>4. worker'.i \in 1..(Len(pending) + 1) /\ worker'.readyIdx \in 0..(worker'.i - 1)
    BY <2>2, <2>3
  <2>5. failures' \in 0..MaxFailures
    <3> HIDE DEF TypeInv
    <3> QED
      BY <1>0, <1>12 DEF DiscloseFails
  <2> QED
    BY <1>12, <2>3, <2>4, <2>5 DEF DiscloseFails, clockVars, mainVars, rxVars, AirKeys
<1>13. CASE WorkerExits
  <2>1. worker' \in WorkerStates /\ worker'.pc = "done"
    <3> HIDE DEF TypeInv
    <3> QED
      BY <1>0, <1>13 DEF WorkerExits, WorkerStates
  <2> QED
    BY <1>13, <2>1 DEF WorkerExits, clockVars, mainVars, rxVars, sentVars, AirKeys
<1>14. ASSUME NEW h \in Handlers, NEW pkt \in BagToSet(air), StoreHmac(h, pkt)
       PROVE  TypeInv'
  <2>1. AirKeys'
    BY <1>14, TakenKeys DEF StoreHmac
  <2> QED
    BY <1>14, <2>1 DEF StoreHmac, AirKeys, clockVars, txVars, mainVars, workerVars, sentVars
<1>15. ASSUME NEW h \in Handlers, NEW pkt \in BagToSet(air), VerifyKeyMessage(h, pkt)
       PROVE  TypeInv'
  <2>1. AirKeys'
    BY <1>15, TakenKeys DEF VerifyKeyMessage
  <2> QED
    BY <1>15, <2>1
    DEF VerifyKeyMessage, AirKeys, clockVars, txVars, mainVars, workerVars, sentVars
<1>16. ASSUME NEW h \in Handlers, DeleteHmac(h)
       PROVE  TypeInv'
  BY <1>16 DEF DeleteHmac, RemainingHmacs, AirKeys, clockVars, txVars, mainVars, workerVars,
               sentVars
<1>17. CASE UNCHANGED vars
  BY <1>17 DEF vars, clockVars, txVars, mainVars, workerVars, sentVars, rxVars, AirKeys
<1> QED
  BY <1>1, <1>2, <1>3, <1>4, <1>5, <1>6, <1>7, <1>8, <1>9, <1>10, <1>11, <1>12, <1>13, <1>14,
     <1>15, <1>16, <1>17
  DEF Next, Broadcast, DisclosureBroadcastWorker, Receiver

\* The queues, the scan and the HMACs keep their types, and no scan runs past the end.
THEOREM ChatTypes == Spec => []ChatTypeOK
<1>1. TypeInv => ChatTypeOK
  BY DEF TypeInv
<1> QED
  BY <1>1, InitTypeInv, NextTypeInv, PTL DEF Spec

-----------------------------------------------------------------------------
(* Disclosure after the delay.                                               *)

\* The HMAC that the disclosure d opens is out, and d is due a delay after it.
Opens(h, d) == h.key = d.key /\ h.slot + DisclosureDelay = d.target
Announced(d) == \E h \in sentHmacs : Opens(h, d)

\* A slot that the worker goes by has begun.
ClockInv ==
    /\ \A s \in tick : s <= SlotsBegun
    /\ worker.pc = "scan" => worker.slot <= SlotsBegun

LEMMA InitClockInv == Init => ClockInv
  BY DEF Init, ClockInv, Waiting

LEMMA NextClockInv == TypeInv /\ ClockInv /\ [Next]_vars => ClockInv'
<1> SUFFICES ASSUME TypeInv, ClockInv, [Next]_vars PROVE ClockInv'
  OBVIOUS
<1>0. /\ slot \in Nat /\ setBack \in Nat /\ tick \subseteq Nat
      /\ worker.pc = "scan" => worker.slot \in Nat
  BY DEF TypeInv, ChatTypeOK, Slots, WorkerStates
<1>2. CASE NewSlot \/ SetBack
  <2>1. /\ UNCHANGED <<tick, worker>>
        /\ slot' + setBack' \in {slot + setBack, slot + setBack + 1}
    BY <1>0, <1>2 DEF NewSlot, SetBack, txVars, workerVars
  <2> QED
    BY <1>0, <2>1 DEF ClockInv, SlotsBegun
<1>3. CASE Ticker
  <2>1. tick' = {slot} /\ UNCHANGED <<slot, setBack, worker>>
    BY <1>3 DEF Ticker, txVars, workerVars
  <2> QED
    BY <1>0, <2>1 DEF ClockInv, SlotsBegun
<1>4. CASE WorkerTick
  <2>1. PICK s \in tick : worker' = [pc |-> "scan", slot |-> s, i |-> 1, readyIdx |-> 0]
    BY <1>4 DEF WorkerTick
  <2>2. tick' = {} /\ UNCHANGED <<slot, setBack>>
    BY <1>4 DEF WorkerTick
  <2> QED
    BY <2>1, <2>2 DEF ClockInv, SlotsBegun
<1>5. CASE Disclose \/ DiscloseFails
  <2>1. /\ worker.pc = "scan" /\ worker'.slot = worker.slot
        /\ UNCHANGED <<slot, setBack, tick>>
    BY <1>5 DEF Disclose, DiscloseFails, TypeInv, WorkerStates, clockVars
  <2> QED
    BY <2>1 DEF ClockInv, SlotsBegun
<1>6. CASE WorkerStops \/ WorkerExits
  <2>1. worker'.pc # "scan" /\ UNCHANGED <<slot, setBack, tick>>
    BY <1>6 DEF WorkerStops, WorkerExits, Waiting, TypeInv, WorkerStates, clockVars
  <2> QED
    BY <2>1 DEF ClockInv, SlotsBegun
<1>7. CASE Broadcast \/ Stop \/ Receiver \/ UNCHANGED vars
  <2>1. UNCHANGED <<slot, setBack, tick, worker>>
    BY <1>7 DEF Broadcast, BroadcastKey, BroadcastHmac, BroadcastFails, QueueDisclosure, Stop,
                Receiver, StoreHmac, VerifyKeyMessage, DeleteHmac, vars, clockVars, txVars,
                workerVars
  <2> QED
    BY <2>1 DEF ClockInv, SlotsBegun
<1> QED
  BY <1>2, <1>3, <1>4, <1>5, <1>6, <1>7 DEF Next, DisclosureBroadcastWorker

DelayInv ==
    /\ main.pc = "queue" => [slot |-> main.slot, key |-> main.key] \in sentHmacs
    /\ \A i \in DOMAIN disclosureMessages : Announced(disclosureMessages[i])
    /\ \A i \in DOMAIN pending : Announced(pending[i])
    /\ DisclosedAfterDelay

LEMMA InitDelayInv == Init => DelayInv
  BY DEF Init, DelayInv, DisclosedAfterDelay, EmptyBag, SetToBag, BagToSet, NoCall

\* HMACs that are out stay out.
LEMMA AnnouncedKept ==
    ASSUME sentHmacs \subseteq sentHmacs', NEW d, Announced(d)
    PROVE  Announced(d)'
  BY DEF Announced, Opens

LEMMA StutterDelayInv ==
    ASSUME DelayInv, main' = main \/ main'.pc # "queue", sentHmacs \subseteq sentHmacs',
           UNCHANGED <<disclosureMessages, pending, sentKeys>>
    PROVE  DelayInv'
<1>1. \A i \in DOMAIN disclosureMessages' : Announced(disclosureMessages[i])'
  BY DEF DelayInv, Announced, Opens
<1>2. \A i \in DOMAIN pending' : Announced(pending[i])'
  BY DEF DelayInv, Announced, Opens
<1>3. DisclosedAfterDelay'
  BY DEF DelayInv, DisclosedAfterDelay
<1> QED
  BY <1>1, <1>2, <1>3 DEF DelayInv

LEMMA NextDelayInv == TypeInv /\ ClockInv /\ DelayInv /\ [Next]_vars => DelayInv'
<1> SUFFICES ASSUME TypeInv, ClockInv, DelayInv, [Next]_vars PROVE DelayInv'
  OBVIOUS
<1>1. CASE BroadcastHmac
  <2>1. /\ main' = [main EXCEPT !.pc = "queue"]
        /\ sentHmacs' = sentHmacs \union {[slot |-> main.slot, key |-> main.key]}
        /\ UNCHANGED <<disclosureMessages, pending, sentKeys>>
    BY <1>1 DEF BroadcastHmac, workerVars
  <2>2. main'.slot = main.slot /\ main'.key = main.key
    BY <2>1 DEF TypeInv
  <2>3. \A i \in DOMAIN disclosureMessages' : Announced(disclosureMessages[i])'
    BY <2>1 DEF DelayInv, Announced, Opens
  <2>4. \A i \in DOMAIN pending' : Announced(pending[i])'
    BY <2>1 DEF DelayInv, Announced, Opens
  <2>5. DisclosedAfterDelay'
    BY <2>1 DEF DelayInv, DisclosedAfterDelay
  <2> QED
    BY <2>1, <2>2, <2>3, <2>4, <2>5 DEF DelayInv
<1>2. CASE QueueDisclosure
  <2> DEFINE d == [key |-> main.key, target |-> TargetSlot]
             h == [slot |-> main.slot, key |-> main.key]
  <2>1. /\ disclosureMessages' = disclosureMessages
           \/ disclosureMessages' = Append(disclosureMessages, d)
        /\ main'.pc # "queue"
        /\ UNCHANGED <<pending, sentHmacs, sentKeys>>
    BY <1>2 DEF QueueDisclosure, NoCall, workerVars, sentVars
  <2>2. Announced(d)
    <3>1. h \in sentHmacs
      BY <1>2 DEF QueueDisclosure, DelayInv
    <3> QED
      BY <3>1 DEF Announced, Opens, TargetSlot
  <2>3. \A i \in DOMAIN disclosureMessages' : Announced(disclosureMessages'[i])
    <3> SUFFICES ASSUME NEW i \in DOMAIN disclosureMessages'
                 PROVE  Announced(disclosureMessages'[i])
      OBVIOUS
    <3>1. disclosureMessages \in Seq(Disclosures)
      BY DEF TypeInv, ChatTypeOK
    <3>2. \/ /\ i \in DOMAIN disclosureMessages
             /\ disclosureMessages'[i] = disclosureMessages[i]
          \/ disclosureMessages'[i] = d
      <4> HIDE DEF d
      <4> QED
        BY <2>1, <3>1
    <3> QED
      BY <2>2, <3>2 DEF DelayInv
  <2>4. \A i \in DOMAIN disclosureMessages' : Announced(disclosureMessages[i])'
    BY <2>1, <2>3 DEF Announced
  <2>5. \A i \in DOMAIN pending' : Announced(pending[i])'
    BY <2>1 DEF DelayInv, Announced
  <2>6. DisclosedAfterDelay'
    BY <2>1 DEF DelayInv, DisclosedAfterDelay
  <2> QED
    BY <2>1, <2>4, <2>5, <2>6 DEF DelayInv
<1>3. CASE WorkerTick
  <2>1. /\ pending' = pending \o disclosureMessages
        /\ disclosureMessages' = <<>>
        /\ UNCHANGED <<main, sentHmacs, sentKeys>>
    BY <1>3 DEF WorkerTick, mainVars, sentVars
  <2>2. \A i \in DOMAIN pending' : Announced(pending'[i])
    <3> SUFFICES ASSUME NEW i \in DOMAIN pending' PROVE Announced(pending'[i])
      OBVIOUS
    <3>1. pending \in Seq(Disclosures) /\ disclosureMessages \in Seq(Disclosures)
      BY DEF TypeInv, ChatTypeOK
    <3>2. \/ i \in DOMAIN pending /\ pending'[i] = pending[i]
          \/ /\ i - Len(pending) \in DOMAIN disclosureMessages
             /\ pending'[i] = disclosureMessages[i - Len(pending)]
      BY <2>1, <3>1, ConcatProperties
    <3> QED
      BY <3>2 DEF DelayInv
  <2>3. \A i \in DOMAIN pending' : Announced(pending[i])'
    BY <2>1, <2>2 DEF Announced
  <2>4. DisclosedAfterDelay'
    BY <2>1 DEF DelayInv, DisclosedAfterDelay
  <2> QED
    BY <2>1, <2>3, <2>4 DEF DelayInv
<1>4. CASE WorkerStops
  <2>1. worker.pc = "scan"
    BY <1>4 DEF WorkerStops
  <2>2. PICK r \in Nat : pending' = SubSeq(pending, r + 1, Len(pending))
    <3>1. worker.readyIdx \in Nat /\ worker.i - 1 \in Nat
      BY <2>1, DueDisclosure
    <3> QED
      BY <1>4, <3>1 DEF WorkerStops, IdxNotDue
  <2>3. UNCHANGED <<main, disclosureMessages, sentHmacs, sentKeys>>
    BY <1>4 DEF WorkerStops, mainVars, sentVars
  <2>4. \A i \in DOMAIN pending' : i + r \in DOMAIN pending /\ pending'[i] = pending[i + r]
    <3>1. pending \in Seq(Disclosures)
      BY DEF TypeInv, ChatTypeOK
    <3> QED
      BY <2>2, <3>1, SubSeqProperties
  <2>5. \A i \in DOMAIN pending' : Announced(pending'[i])
    BY <2>4 DEF DelayInv
  <2>6. \A i \in DOMAIN pending' : Announced(pending[i])'
    BY <2>3, <2>5 DEF Announced
  <2>7. \A i \in DOMAIN disclosureMessages' : Announced(disclosureMessages[i])'
    BY <2>3 DEF DelayInv, Announced
  <2>8. DisclosedAfterDelay'
    BY <2>3 DEF DelayInv, DisclosedAfterDelay
  <2> QED
    BY <2>3, <2>6, <2>7, <2>8 DEF DelayInv
<1>5. CASE Disclose
  <2> DEFINE d == pending[worker.i]
             k == [slot |-> worker.slot, key |-> d.key, begun |-> SlotsBegun]
  <2>1. /\ sentKeys' = sentKeys (+) SetToBag({k})
        /\ UNCHANGED <<main, disclosureMessages, pending, sentHmacs>>
    BY <1>5 DEF Disclose, mainVars
  <2>2. BagToSet(sentKeys') = BagToSet(sentKeys) \union {k}
    <3>1. BagToSet(SetToBag({k})) = {k}
      BY DEF BagToSet, SetToBag
    <3> QED
      BY <2>1, <3>1, BagAdd
  <2>3. \E h \in sentHmacs : h.key = k.key /\ h.slot + DisclosureDelay <= k.slot
    <3>1. worker.i \in 1..Len(pending) /\ d.target <= worker.slot
      BY <1>5, DueDisclosure DEF Disclose
    <3>2. Announced(d)
      <4>1. worker.i \in DOMAIN pending
        BY <3>1 DEF TypeInv, ChatTypeOK
      <4> QED
        BY <4>1 DEF DelayInv
    <3> QED
      BY <3>1, <3>2 DEF Announced, Opens
  <2>6. k.slot <= k.begun
    BY <1>5 DEF Disclose, ClockInv
  <2>4. DisclosedAfterDelay'
    <3> HIDE DEF k
    <3> QED
      BY <2>1, <2>2, <2>3, <2>6 DEF DelayInv, DisclosedAfterDelay
  <2>5. /\ \A i \in DOMAIN disclosureMessages' : Announced(disclosureMessages[i])'
        /\ \A i \in DOMAIN pending' : Announced(pending[i])'
    BY <2>1 DEF DelayInv, Announced
  <2> QED
    BY <2>1, <2>4, <2>5 DEF DelayInv
<1>6. CASE BroadcastKey \/ BroadcastFails
  <2>1. /\ main'.pc # "queue" /\ sentHmacs' = sentHmacs
        /\ UNCHANGED <<disclosureMessages, pending, sentKeys>>
    BY <1>6 DEF BroadcastKey, BroadcastFails, NoCall, workerVars, sentVars
  <2> QED
    BY <2>1, StutterDelayInv
<1>7. CASE NewSlot \/ SetBack \/ Ticker \/ Stop \/ DiscloseFails \/ WorkerExits \/ Receiver
           \/ UNCHANGED vars
  <2>1. UNCHANGED <<main, sentHmacs, disclosureMessages, pending, sentKeys>>
    BY <1>7 DEF NewSlot, SetBack, Ticker, Stop, DiscloseFails, WorkerExits, Receiver, StoreHmac,
                VerifyKeyMessage, DeleteHmac, vars, txVars, mainVars, workerVars, sentVars
  <2> QED
    BY <2>1, StutterDelayInv
<1> QED
  BY <1>1, <1>2, <1>3, <1>4, <1>5, <1>6, <1>7 DEF Next, Broadcast, DisclosureBroadcastWorker

\* A key packet has a slot that is disclosureDelay or more after its HMAC's, and the packet
\* goes out when that slot has begun, or earlier by no more slots than the clock was set
\* back, whatever the ticker holds back, whichever writes fail.
THEOREM ChatDisclosedAfterDelay == Spec => []DisclosedAfterDelay
<1>1. DelayInv => DisclosedAfterDelay
  BY DEF DelayInv
<1> QED
  BY <1>1, InitTypeInv, NextTypeInv, InitClockInv, NextClockInv, InitDelayInv, NextDelayInv, PTL
  DEF Spec

-----------------------------------------------------------------------------
(* HMACs that have verified.                                                 *)

\* The receiver holds, looks up and deletes only what it has heard.
HeardInv ==
    /\ Counts(heard)
    /\ receivedHMACs \subseteq BagToSet(heard)
    /\ \A h \in Handlers : handler[h] \subseteq BagToSet(heard)
    /\ BagToSet(verified) \subseteq BagToSet(heard)
    /\ \A x \in BagToSet(verified) : heard[x] = 1 => x \notin receivedHMACs

LEMMA InitHeardInv == Init => HeardInv
  BY DEF Init, HeardInv, Counts, EmptyBag, SetToBag, BagToSet

LEMMA NextHeardInv == TypeInv /\ HeardInv /\ [Next]_vars => HeardInv'
<1> SUFFICES ASSUME TypeInv, HeardInv, [Next]_vars PROVE HeardInv'
  OBVIOUS
<1>1. CASE UNCHANGED rxVars
  BY <1>1 DEF HeardInv, Counts, rxVars
<1>2. ASSUME NEW h \in Handlers, NEW pkt \in BagToSet(air), StoreHmac(h, pkt)
      PROVE  HeardInv'
  <2> DEFINE y == pkt.key
  <2>1. /\ receivedHMACs' = receivedHMACs \union {y}
        /\ heard' = heard (+) SetToBag({y})
        /\ UNCHANGED <<handler, verified>>
    BY <1>2 DEF StoreHmac
  <2> HIDE DEF y
  <2>2. /\ BagToSet(heard') = BagToSet(heard) \union {y}
        /\ Counts(heard')
        /\ \A x \in BagToSet(heard) \ {y} : heard'[x] = heard[x]
        /\ y \in BagToSet(heard) => heard'[y] = heard[y] + 1
    BY <2>1, BagAddOne DEF HeardInv
  <2>3. ASSUME NEW x \in BagToSet(verified), heard'[x] = 1
        PROVE  x \notin receivedHMACs'
    <3>1. x \in BagToSet(heard) /\ heard[x] \in Nat \ {0}
      BY DEF HeardInv, Counts
    <3>2. x # y
      BY <2>2, <2>3, <3>1
    <3> QED
      BY <2>1, <2>2, <2>3, <3>1, <3>2 DEF HeardInv
  <2> QED
    BY <2>1, <2>2, <2>3 DEF HeardInv, Counts
<1>3. ASSUME NEW h \in Handlers, NEW pkt \in BagToSet(air), VerifyKeyMessage(h, pkt)
      PROVE  HeardInv'
  <2>1. /\ handler' = [handler EXCEPT ![h] = {pkt.key} \intersect receivedHMACs]
        /\ UNCHANGED <<receivedHMACs, heard, verified>>
    BY <1>3 DEF VerifyKeyMessage
  <2>2. \A g \in Handlers : handler'[g] = handler[g] \/ handler'[g] \subseteq receivedHMACs
    BY <2>1 DEF TypeInv
  <2> QED
    BY <2>1, <2>2 DEF HeardInv, Counts
<1>4. ASSUME NEW h \in Handlers, DeleteHmac(h)
      PROVE  HeardInv'
  <2>1. /\ receivedHMACs' = receivedHMACs \ handler[h]
        /\ verified' = verified (+) SetToBag(handler[h])
        /\ handler' = [handler EXCEPT ![h] = {}]
        /\ heard' = heard
    BY <1>4 DEF DeleteHmac, RemainingHmacs
  <2>2. \A g \in Handlers : handler'[g] \subseteq handler[g]
    BY <2>1 DEF TypeInv
  <2>3. BagToSet(verified') = BagToSet(verified) \union handler[h]
    <3>1. BagToSet(SetToBag(handler[h])) = handler[h]
      BY DEF BagToSet, SetToBag
    <3> QED
      BY <2>1, <3>1, BagAdd
  <2> QED
    BY <2>1, <2>2, <2>3 DEF HeardInv, Counts
<1>5. CASE NewSlot \/ SetBack \/ Ticker \/ Stop \/ Broadcast \/ DisclosureBroadcastWorker
           \/ UNCHANGED vars
  BY <1>1, <1>5
  DEF NewSlot, SetBack, Ticker, Stop, Broadcast, BroadcastKey, BroadcastHmac, BroadcastFails,
      QueueDisclosure, DisclosureBroadcastWorker, WorkerTick, WorkerStops, Disclose,
      DiscloseFails, WorkerExits, vars, rxVars
<1> QED
  BY <1>2, <1>3, <1>4, <1>5 DEF Next, Receiver

\* An HMAC heard once is gone once it has verified, however copies of the key packet and
\* the goroutines that handle them interleave.
THEOREM ChatForgottenOnceVerified == Spec => []ForgottenOnceVerified
<1>1. HeardInv => ForgottenOnceVerified
  BY DEF HeardInv, ForgottenOnceVerified
<1> QED
  BY <1>1, InitTypeInv, NextTypeInv, InitHeardInv, NextHeardInv, PTL DEF Spec

-----------------------------------------------------------------------------
(* Disclosures in order.                                                     *)

\* Key number n is not that of a message whose disclosure is still to be queued.
Passed(n) == n < hashchain.next /\ (main.pc # "idle" => n < main.key.idx)

\* The disclosures that are to come are in the order of their keys.
Ordered ==
    /\ \A i, j \in DOMAIN pending : i < j => pending[i].key.idx < pending[j].key.idx
    /\ \A i, j \in DOMAIN disclosureMessages :
         i < j => disclosureMessages[i].key.idx < disclosureMessages[j].key.idx
    /\ \A i \in DOMAIN pending, j \in DOMAIN disclosureMessages :
         pending[i].key.idx < disclosureMessages[j].key.idx
    /\ \A i \in DOMAIN pending : Passed(pending[i].key.idx)
    /\ \A i \in DOMAIN disclosureMessages : Passed(disclosureMessages[i].key.idx)
    /\ main.pc # "idle" => main.key.idx < hashchain.next

\* A key that was broadcast comes before those in the queue, and if its disclosure is still
\* pending the scan is on and will cut it off.
SentBehind ==
    \A k \in BagToSet(sentKeys) :
        /\ k.key \in Keys
        /\ Passed(k.key.idx)
        /\ \A j \in DOMAIN disclosureMessages : k.key.idx < disclosureMessages[j].key.idx
        /\ \A i \in DOMAIN pending :
             pending[i].key = k.key => worker.pc = "scan" /\ i <= worker.readyIdx

OrderInv ==
    /\ Ordered
    /\ Counts(sentKeys)
    /\ SentBehind
    /\ DisclosedOnce

LEMMA InitOrderInv == Init => OrderInv
<1> SUFFICES ASSUME Init PROVE OrderInv
  OBVIOUS
<1>1. BagToSet(sentKeys) = {} /\ pending = <<>> /\ disclosureMessages = <<>> /\ main.pc = "idle"
  BY DEF Init, EmptyBag, SetToBag, BagToSet, NoCall
<1> QED
  BY <1>1 DEF OrderInv, Ordered, Counts, SentBehind, DisclosedOnce

\* The positions in the two queues, and the numbers of the keys there.
LEMMA QueueTypes ==
    ASSUME TypeInv
    PROVE  /\ pending \in Seq(Disclosures) /\ disclosureMessages \in Seq(Disclosures)
           /\ Len(pending) \in Nat /\ Len(disclosureMessages) \in Nat
           /\ DOMAIN pending = 1..Len(pending)
           /\ DOMAIN disclosureMessages = 1..Len(disclosureMessages)
           /\ \A i \in DOMAIN pending : /\ pending[i].key \in Keys
                                        /\ pending[i].key.idx \in Int
           /\ \A i \in DOMAIN disclosureMessages : /\ disclosureMessages[i].key \in Keys
                                                   /\ disclosureMessages[i].key.idx \in Int
           /\ hashchain.next \in Int
<1>1. pending \in Seq(Disclosures) /\ disclosureMessages \in Seq(Disclosures)
  BY DEF TypeInv, ChatTypeOK
<1>2. /\ \A i \in DOMAIN pending : pending[i] \in Disclosures
      /\ \A i \in DOMAIN disclosureMessages : disclosureMessages[i] \in Disclosures
  BY <1>1
<1>3. \A d \in Disclosures : d.key \in Keys /\ d.key.idx \in Int
  BY Constants DEF Disclosures, Keys
<1>4. hashchain.next \in Int
  BY Constants DEF TypeInv, ChatTypeOK
<1> QED
  BY <1>1, <1>2, <1>3, <1>4

\* Nothing that is queued or pending moves, and no scan ends.
LEMMA StutterOrderInv ==
    ASSUME OrderInv, UNCHANGED <<disclosureMessages, pending, sentKeys>>,
           hashchain'.next = hashchain.next,
           main'.pc # "idle" => main.pc # "idle" /\ main'.key = main.key,
           worker.pc = "scan" => worker'.pc = "scan" /\ worker'.readyIdx = worker.readyIdx
    PROVE  OrderInv'
<1>1. \A n : Passed(n) => n < hashchain'.next /\ (main'.pc # "idle" => n < main'.key.idx)
  BY DEF Passed
<1>2. Ordered'
  BY <1>1 DEF OrderInv, Ordered, Passed
<1>3. SentBehind'
  BY <1>1 DEF OrderInv, SentBehind, Passed
<1> QED
  BY <1>2, <1>3 DEF OrderInv, Counts, DisclosedOnce

\* The next key is beyond all that are queued.
LEMMA BroadcastKeyOrderInv ==
    ASSUME TypeInv, OrderInv, BroadcastKey
    PROVE  OrderInv'
<1>1. /\ main.pc = "idle"
      /\ main'.key.idx = hashchain.next
      /\ UNCHANGED <<disclosureMessages, pending, sentKeys, worker>>
  BY DEF BroadcastKey, NextHash, KeyOf, workerVars, sentVars
<1>2. hashchain'.next = hashchain.next + 1
  BY DEF BroadcastKey, AfterNext, TypeInv, ChatTypeOK, Linear
<1>3. hashchain.next \in Int
  BY QueueTypes
<1>4. \A n \in Int : Passed(n) => n < hashchain'.next /\ n < main'.key.idx
  BY <1>1, <1>2, <1>3 DEF Passed
<1>5. Ordered'
  BY <1>1, <1>2, <1>3, <1>4, QueueTypes DEF OrderInv, Ordered, Passed
<1>6. \A k \in BagToSet(sentKeys) : k.key.idx \in Int
  BY Constants DEF OrderInv, SentBehind, Keys
<1>7. SentBehind'
  BY <1>1, <1>4, <1>6 DEF OrderInv, SentBehind, Passed
<1> QED
  BY <1>1, <1>5, <1>7 DEF OrderInv, Counts, DisclosedOnce

\* What is queued comes after all that is queued, pending or broadcast.
LEMMA QueueOrderInv ==
    ASSUME TypeInv, OrderInv, QueueDisclosure, HasRoom
    PROVE  OrderInv'
<1> DEFINE d == [key |-> main.key, target |-> TargetSlot]
           n == Len(disclosureMessages)
<1>1. /\ main.pc # "idle" /\ main'.pc = "idle"
      /\ UNCHANGED <<hashchain, pending, sentKeys, worker>>
      /\ disclosureMessages' = Append(disclosureMessages, d)
  BY DEF QueueDisclosure, NoCall, workerVars, sentVars
<1>2. d.key.idx = main.key.idx
  OBVIOUS
<1> HIDE DEF d
<1>3. /\ n \in Nat /\ DOMAIN disclosureMessages = 1..n
      /\ DOMAIN disclosureMessages' = 1..(n + 1)
      /\ \A i \in 1..n : disclosureMessages'[i] = disclosureMessages[i]
      /\ disclosureMessages'[n + 1] = d
  BY <1>1, QueueTypes
<1>4. \A m : Passed(m) => m < hashchain'.next /\ m < d.key.idx
  BY <1>1, <1>2 DEF Passed
<1>5. d.key.idx < hashchain'.next
  BY <1>1, <1>2 DEF OrderInv, Ordered
<1>6. \A j \in DOMAIN disclosureMessages' : j \in DOMAIN disclosureMessages \/ j = n + 1
  BY <1>3
<1> HIDE DEF n
<1>7. Ordered'
  <2>1. ASSUME NEW i \in DOMAIN disclosureMessages', NEW j \in DOMAIN disclosureMessages', i < j
        PROVE  disclosureMessages'[i].key.idx < disclosureMessages'[j].key.idx
    <3>1. i \in DOMAIN disclosureMessages
      BY <1>3, <2>1
    <3>2. CASE j \in DOMAIN disclosureMessages
      BY <1>3, <2>1, <3>1, <3>2 DEF OrderInv, Ordered
    <3>3. CASE j = n + 1
      BY <1>3, <1>4, <3>1, <3>3 DEF OrderInv, Ordered
    <3> QED
      BY <1>6, <3>2, <3>3
  <2>2. ASSUME NEW i \in DOMAIN pending', NEW j \in DOMAIN disclosureMessages'
        PROVE  pending'[i].key.idx < disclosureMessages'[j].key.idx
    <3>1. CASE j \in DOMAIN disclosureMessages
      BY <1>1, <1>3, <3>1 DEF OrderInv, Ordered
    <3>2. CASE j = n + 1
      BY <1>1, <1>3, <1>4, <3>2 DEF OrderInv, Ordered
    <3> QED
      BY <1>6, <3>1, <3>2
  <2>3. ASSUME NEW i \in DOMAIN disclosureMessages'
        PROVE  disclosureMessages'[i].key.idx < hashchain'.next
    BY <1>3, <1>4, <1>5, <1>6 DEF OrderInv, Ordered
  <2> QED
    BY <1>1, <1>4, <2>1, <2>2, <2>3 DEF OrderInv, Ordered, Passed
<1>8. SentBehind'
  <2> SUFFICES ASSUME NEW k \in BagToSet(sentKeys)
               PROVE  /\ k.key \in Keys /\ k.key.idx < hashchain'.next
                      /\ \A j \in DOMAIN disclosureMessages' :
                           k.key.idx < disclosureMessages'[j].key.idx
                      /\ \A i \in DOMAIN pending :
                           pending[i].key = k.key => worker.pc = "scan" /\ i <= worker.readyIdx
    BY <1>1 DEF SentBehind, Passed
  <2>1. k.key.idx < d.key.idx /\ k.key.idx < hashchain'.next
    BY <1>4 DEF OrderInv, SentBehind
  <2> QED
    BY <1>3, <1>6, <2>1 DEF OrderInv, SentBehind
<1> QED
  BY <1>1, <1>7, <1>8 DEF OrderInv, Counts, DisclosedOnce

\* The queue moves behind what is pending, and none of it has been broadcast.
LEMMA TickOrderInv ==
    ASSUME TypeInv, OrderInv, WorkerTick
    PROVE  OrderInv'
<1> DEFINE n == Len(pending)
           q == disclosureMessages
<1>1. /\ worker.pc = "select"
      /\ pending' = pending \o disclosureMessages
      /\ disclosureMessages' = <<>>
      /\ UNCHANGED <<hashchain, main, sentKeys>>
  BY DEF WorkerTick, mainVars, sentVars
<1>2. n \in Nat /\ DOMAIN pending = 1..n /\ DOMAIN disclosureMessages' = {}
  BY <1>1, QueueTypes
<1>3. \A i \in DOMAIN pending' :
        \/ i \in DOMAIN pending /\ pending'[i] = pending[i]
        \/ i > n /\ i - n \in DOMAIN q /\ pending'[i] = q[i - n]
  BY <1>1, QueueTypes, ConcatProperties
<1>4. \A i \in DOMAIN pending' : i \in Nat
  BY <1>1, QueueTypes, ConcatProperties
<1>5. ASSUME NEW i \in DOMAIN pending', NEW j \in DOMAIN pending', i < j
      PROVE  pending'[i].key.idx < pending'[j].key.idx
  <2>1. CASE j \in DOMAIN pending /\ pending'[j] = pending[j]
    <3>1. i \in DOMAIN pending /\ pending'[i] = pending[i]
      BY <1>2, <1>3, <1>4, <1>5, <2>1
    <3> QED
      BY <1>5, <2>1, <3>1 DEF OrderInv, Ordered
  <2>2. CASE j > n /\ j - n \in DOMAIN q /\ pending'[j] = q[j - n]
    <3>1. CASE i \in DOMAIN pending /\ pending'[i] = pending[i]
      BY <2>2, <3>1 DEF OrderInv, Ordered
    <3>2. CASE i > n /\ i - n \in DOMAIN q /\ pending'[i] = q[i - n]
      <4>1. i - n < j - n
        BY <1>2, <1>4, <1>5
      <4> QED
        BY <2>2, <3>2, <4>1 DEF OrderInv, Ordered
    <3> QED
      BY <1>3, <3>1, <3>2
  <2> QED
    BY <1>3, <2>1, <2>2
<1> HIDE DEF n, q
<1>6. \A i \in DOMAIN pending' : Passed(pending'[i].key.idx)
  BY <1>3 DEF OrderInv, Ordered, q
<1>7. Ordered'
  BY <1>1, <1>2, <1>5, <1>6 DEF OrderInv, Ordered, Passed
<1>8. ASSUME NEW k \in BagToSet(sentKeys), NEW i \in DOMAIN pending'
      PROVE  pending'[i].key # k.key
  <2>1. CASE i \in DOMAIN pending /\ pending'[i] = pending[i]
    BY <1>1, <2>1 DEF OrderInv, SentBehind
  <2>2. CASE i - n \in DOMAIN q /\ pending'[i] = q[i - n]
    <3>1. k.key.idx < pending'[i].key.idx
      BY <2>2 DEF OrderInv, SentBehind, q
    <3>2. k.key.idx \in Int
      BY Constants DEF OrderInv, SentBehind, Keys
    <3> QED
      BY <3>1, <3>2
  <2> QED
    BY <1>3, <2>1, <2>2
<1>9. SentBehind'
  BY <1>1, <1>2, <1>8 DEF OrderInv, SentBehind, Passed
<1> QED
  BY <1>1, <1>7, <1>9 DEF OrderInv, Counts, DisclosedOnce

\* The end of a scan cuts off all that was broadcast.
LEMMA StopsOrderInv ==
    ASSUME TypeInv, OrderInv, WorkerStops
    PROVE  OrderInv'
<1>1. worker.pc = "scan" /\ UNCHANGED <<hashchain, main, disclosureMessages, sentKeys>>
  BY DEF WorkerStops, mainVars, sentVars
<1>2. PICK r \in Nat : /\ worker.readyIdx <= r
                       /\ pending' = SubSeq(pending, r + 1, Len(pending))
  <2>1. /\ worker.readyIdx \in Nat /\ worker.i \in Nat \ {0}
        /\ worker.readyIdx <= worker.i - 1
    BY <1>1, DueDisclosure
  <2>2. CASE AtEnd
    <3>1. pending' = SubSeq(pending, worker.readyIdx + 1, Len(pending))
      BY <2>2 DEF WorkerStops
    <3>2. worker.readyIdx <= worker.readyIdx
      BY <2>1
    <3> QED
      BY <2>1, <3>1, <3>2
  <2>3. CASE ~AtEnd
    <3>1. pending' = SubSeq(pending, (worker.i - 1) + 1, Len(pending))
      BY <2>3 DEF WorkerStops, IdxNotDue
    <3>2. worker.i - 1 \in Nat
      BY <2>1
    <3> QED
      BY <2>1, <3>1, <3>2
  <2> QED
    BY <2>2, <2>3
<1>3. \A i \in DOMAIN pending' :
        i \in Nat \ {0} /\ i + r \in DOMAIN pending /\ pending'[i] = pending[i + r]
  BY <1>2, QueueTypes, SubSeqProperties
<1>4. ASSUME NEW i \in DOMAIN pending', NEW j \in DOMAIN pending', i < j
      PROVE  pending'[i].key.idx < pending'[j].key.idx
  <2>1. i + r < j + r
    BY <1>3, <1>4
  <2> QED
    BY <1>3, <2>1 DEF OrderInv, Ordered
<1>5. /\ \A i \in DOMAIN pending' : Passed(pending'[i].key.idx)
      /\ \A i \in DOMAIN pending', j \in DOMAIN disclosureMessages :
           pending'[i].key.idx < disclosureMessages[j].key.idx
  BY <1>3 DEF OrderInv, Ordered
<1>6. Ordered'
  BY <1>1, <1>4, <1>5 DEF OrderInv, Ordered, Passed
<1>7. ASSUME NEW k \in BagToSet(sentKeys), NEW i \in DOMAIN pending'
      PROVE  pending'[i].key # k.key
  <2>1. ~(i + r <= worker.readyIdx)
    <3>1. worker.readyIdx \in Nat
      BY <1>1, DueDisclosure
    <3> QED
      BY <1>2, <1>3, <3>1
  <2> QED
    BY <1>3, <2>1 DEF OrderInv, SentBehind
<1>8. SentBehind'
  BY <1>1, <1>7 DEF OrderInv, SentBehind, Passed
<1> QED
  BY <1>1, <1>6, <1>8 DEF OrderInv, Counts, DisclosedOnce

\* What is broadcast was not broadcast before, and readyIdx moves past it.
LEMMA DiscloseOrderInv ==
    ASSUME TypeInv, OrderInv, Disclose
    PROVE  OrderInv'
<1> DEFINE m == worker.i
           k == [slot |-> worker.slot, key |-> pending[m].key, begun |-> SlotsBegun]
<1>1. /\ worker.pc = "scan" /\ Due
      /\ sentKeys' = sentKeys (+) SetToBag({k})
      /\ UNCHANGED <<hashchain, main, disclosureMessages, pending>>
  BY DEF Disclose, mainVars
<1>2. worker'.pc = "scan" /\ worker'.readyIdx = m
  <2>1. worker' = [worker EXCEPT !.i = worker.i + 1, !.readyIdx = worker.i]
    BY DEF Disclose, IdxSent
  <2> QED
    BY <1>1, <2>1 DEF TypeInv, WorkerStates
<1>3. m \in DOMAIN pending /\ worker.readyIdx \in Nat /\ worker.readyIdx < m
  BY <1>1, DueDisclosure, QueueTypes
<1>4. k.key = pending[m].key
  OBVIOUS
<1> HIDE DEF k, m
<1>5. \A j \in BagToSet(sentKeys) : j.key # k.key
  <2>1. ~(m <= worker.readyIdx)
    BY <1>3, QueueTypes
  <2> QED
    BY <1>3, <1>4, <2>1 DEF OrderInv, SentBehind
<1>6. /\ BagToSet(sentKeys') = BagToSet(sentKeys) \union {k}
      /\ Counts(sentKeys')
      /\ \A x \in BagToSet(sentKeys) : sentKeys'[x] = sentKeys[x]
      /\ sentKeys'[k] = 1
  <2>1. k \notin BagToSet(sentKeys)
    BY <1>5
  <2>2. Counts(sentKeys)
    BY DEF OrderInv
  <2>3. \A x \in BagToSet(sentKeys) : x \in BagToSet(sentKeys) \ {k}
    BY <2>1
  <2> QED
    BY <1>1, <2>1, <2>2, <2>3, BagAddOne
<1>7. DisclosedOnce'
  BY <1>5, <1>6 DEF OrderInv, DisclosedOnce
<1>8. Ordered'
  BY <1>1 DEF OrderInv, Ordered, Passed
<1>9. \A i \in DOMAIN pending : pending[i].key = k.key => i = m
  <2> SUFFICES ASSUME NEW i \in DOMAIN pending, pending[i].key = pending[m].key, i # m
               PROVE  FALSE
    BY <1>4
  <2>1. i < m \/ m < i
    BY <1>3, QueueTypes
  <2>2. pending[i].key.idx < pending[m].key.idx \/ pending[m].key.idx < pending[i].key.idx
    BY <1>3, <2>1 DEF OrderInv, Ordered
  <2> QED
    BY <1>3, <2>2, QueueTypes
<1>10. ASSUME NEW j \in BagToSet(sentKeys')
       PROVE  /\ j.key \in Keys /\ Passed(j.key.idx)
              /\ \A i \in DOMAIN disclosureMessages : j.key.idx < disclosureMessages[i].key.idx
              /\ \A i \in DOMAIN pending : pending[i].key = j.key => i <= m
  <2>1. CASE j = k
    <3>1. m <= m
      BY <1>3, QueueTypes
    <3> QED
      BY <1>3, <1>4, <1>9, <2>1, <3>1, QueueTypes DEF OrderInv, Ordered
  <2>2. CASE j \in BagToSet(sentKeys)
    <3>1. ASSUME NEW i \in DOMAIN pending, pending[i].key = j.key PROVE i <= m
      <4>1. i <= worker.readyIdx
        BY <2>2, <3>1 DEF OrderInv, SentBehind
      <4> QED
        BY <1>3, <4>1, QueueTypes
    <3> QED
      BY <2>2, <3>1 DEF OrderInv, SentBehind
  <2> QED
    BY <1>6, <2>1, <2>2
<1>11. SentBehind'
  BY <1>1, <1>2, <1>10 DEF SentBehind, Passed
<1> QED
  BY <1>6, <1>7, <1>8, <1>11 DEF OrderInv

LEMMA NextOrderInv == TypeInv /\ OrderInv /\ [Next]_vars => OrderInv'
<1> SUFFICES ASSUME TypeInv, OrderInv, [Next]_vars PROVE OrderInv'
  OBVIOUS
<1>1. CASE BroadcastKey
  BY <1>1, BroadcastKeyOrderInv
<1>2. CASE QueueDisclosure /\ HasRoom
  BY <1>2, QueueOrderInv
<1>3. CASE (QueueDisclosure /\ ~HasRoom) \/ BroadcastFails
  <2>1. /\ main'.pc = "idle"
        /\ UNCHANGED <<disclosureMessages, pending, sentKeys, hashchain, worker>>
    BY <1>3 DEF QueueDisclosure, BroadcastFails, NoCall, workerVars, sentVars
  <2> QED
    BY <2>1, StutterOrderInv
<1>4. CASE BroadcastHmac
  <2>1. /\ main.pc = "send"
        /\ main' = [main EXCEPT !.pc = "queue"]
        /\ UNCHANGED <<disclosureMessages, pending, sentKeys, hashchain, worker>>
    BY <1>4 DEF BroadcastHmac, workerVars
  <2>2. main.pc # "idle" /\ main'.key = main.key
    BY <2>1 DEF TypeInv
  <2> QED
    BY <2>1, <2>2, StutterOrderInv
<1>5. CASE WorkerTick
  BY <1>5, TickOrderInv
<1>6. CASE WorkerStops
  BY <1>6, StopsOrderInv
<1>7. CASE Disclose
  BY <1>7, DiscloseOrderInv
<1>8. CASE DiscloseFails \/ WorkerExits
  <2>1. /\ UNCHANGED <<disclosureMessages, pending, sentKeys, hashchain, main>>
        /\ \/ worker' = [worker EXCEPT !.i = @ + 1]
           \/ worker.pc = "select"
    BY <1>8 DEF DiscloseFails, WorkerExits, mainVars, sentVars
  <2>2. worker.pc = "scan" => worker'.pc = "scan" /\ worker'.readyIdx = worker.readyIdx
    BY <2>1 DEF TypeInv, WorkerStates
  <2> QED
    BY <2>1, <2>2, StutterOrderInv
<1>9. CASE NewSlot \/ SetBack \/ Ticker \/ Stop \/ Receiver \/ UNCHANGED vars
  <2>1. UNCHANGED <<disclosureMessages, pending, sentKeys, hashchain, main, worker>>
    BY <1>9 DEF NewSlot, SetBack, Ticker, Stop, Receiver, StoreHmac, VerifyKeyMessage,
                DeleteHmac, vars, txVars, mainVars, workerVars, sentVars
  <2> QED
    BY <2>1, StutterOrderInv
<1> QED
  BY <1>1, <1>2, <1>3, <1>4, <1>5, <1>6, <1>7, <1>8, <1>9
  DEF Next, Broadcast, DisclosureBroadcastWorker

\* A key is broadcast at most once, however writes fail in the scans around it.
THEOREM ChatDisclosedOnce == Spec => []DisclosedOnce
<1>1. OrderInv => DisclosedOnce
  BY DEF OrderInv
<1> QED
  BY <1>1, InitTypeInv, NextTypeInv, InitOrderInv, NextOrderInv, PTL DEF Spec

=============================================================================
