-------------------------- MODULE RcdReceiverProofs --------------------------
(***************************************************************************)
(* The receiver, in both modes, for any number of devices, goroutines,     *)
(* messages, slots and copies of a datagram.  Four inductive invariants    *)
(* carry the theorems:                                                     *)
(*                                                                         *)
(*   TypeInv     the types, that a device registers at most one chain for  *)
(*               each slot, and that every HMAC packet and key packet has  *)
(*               a key of a chain its sender had registered;               *)
(*   HeldInv     a commitment that is cached, or that a goroutine holds,   *)
(*               is on a chain that getKey returned a hash of, and is that *)
(*               hash or a key that has authenticated;                     *)
(*   KeptInv     a goroutine on its way from load to store has loaded what *)
(*               is kept for its slot, and knows of every other one there; *)
(*   HmacInv     of every HMAC, the keys it has authenticated, the         *)
(*               goroutines that have taken it out of the map and may yet  *)
(*               authenticate it, and its entry in the map together are    *)
(*               no more than the times it was heard.                      *)
(*                                                                         *)
(* The last one counts goroutines with the finite-set theorems; that only  *)
(* finitely many hold an HMAC at a time is part of it, and no bound on the *)
(* goroutines is assumed.                                                  *)
(***************************************************************************)
EXTENDS RcdReceiver, FiniteSetTheorems, TLAPS

-----------------------------------------------------------------------------
(* Types.                                                                    *)

Locals == [pc : Pcs, pkt : Packets, msgs : SUBSET Msgs,
           commitment : ChainKeys \union {NoKey}]
Batches == (SUBSET Msgs) \ {{}}

\* A key that a device registered a chain for.
Genuine(p, key) ==
    /\ p \in Senders
    /\ starts[p] # <<>>
    /\ key \in ChainKeys
    /\ key.idx \in 1..ChainLen

\* A device has registered at most one chain for each slot so far.
StartsBounded ==
    \A p \in Senders :
        (starts[p] # <<>>) => (Len(starts[p]) <= CurrentStart(p) /\ CurrentStart(p) <= slot)

DueGenuine ==
    \A d \in due : /\ Genuine(d.sender, d.key)
                   /\ d.target \in Nat
                   /\ d.target >= DisclosureDelay
                   /\ d.data \in Batches

OnWire(pkt) ==
    /\ pkt \in Packets
    /\ pkt.data \in Batches
    /\ (pkt.kind # "data") => Genuine(pkt.sender, pkt.key)
    /\ (pkt.kind = "key") => (pkt.slot >= DisclosureDelay)

AirGenuine == \A x \in BagToSet(air) : OnWire(x)

Claiming == {"load", "getKey", "cache", "verify"}
Opening == {"check", "delete"}

\* From "load" on, a goroutine is at work for a key packet.
Works(l) ==
    /\ (l.pc \in Claiming \union Opening) => (OnWire(l.pkt) /\ l.pkt.kind = "key")
    /\ (l.pc \in Opening) => Probabilistic
    /\ (l.pc \in {"cache", "verify"}) => (l.commitment # NoKey)
    /\ (l.pc = "getKey") => (l.commitment = NoKey)

HandlersGenuine == \A h \in Handlers : Works(handler[h])

TypeInv ==
    /\ TypeOK
    /\ handler \in [Handlers -> Locals]
    /\ StartsBounded
    /\ DueGenuine
    /\ AirGenuine
    /\ HandlersGenuine

\* Copies of x in bag B.
Times(B, x) == IF x \in BagToSet(B) THEN B[x] ELSE 0

LEMMA BagAdd ==
    ASSUME NEW B, NEW C
    PROVE  BagToSet(B (+) C) = BagToSet(B) \union BagToSet(C)
  BY DEF BagToSet, (+)

LEMMA BagRemove ==
    ASSUME NEW B, NEW C
    PROVE  BagToSet(B (-) C) \subseteq BagToSet(B)
  BY DEF BagToSet, (-)

LEMMA OnAirSet ==
    ASSUME NEW packets
    PROVE  BagToSet(OnAir(packets)) = BagToSet(air) \union packets
<1>1. BagToSet([x \in packets |-> Copies[mode]]) = packets
  BY DEF BagToSet
<1> QED
  BY <1>1, BagAdd DEF OnAir

\* The bounds of the run are those of its mode, which stays as it is; what is genuine
\* stays so.
LEMMA ModeKept ==
    ASSUME TypeInv, [Next]_vars
    PROVE  /\ mode' = mode
           /\ slot' \in 1..MaxSlot[mode]
           /\ slot <= slot'
<1>1. mode \in Modes /\ slot \in 1..MaxSlot[mode] /\ MaxSlot[mode] \in Nat
  BY ReceiverAssumption DEF TypeInv, TypeOK
<1>2. CASE NewBlock
  BY <1>1, <1>2 DEF NewBlock
<1>3. CASE OtherDevices
  <2>1. mode' = mode /\ slot' = slot
    BY <1>3 DEF OtherDevices, Register, SendMessage, FlushBatch, Disclose
  <2> QED
    BY <1>1, <2>1
<1>5. CASE (\E s \in Slots : Cleanup(s)) \/ UNCHANGED vars
  BY <1>1, <1>5 DEF Cleanup, vars
<1>4. ASSUME NEW h \in Handlers, HandleMessage(h)
      PROVE  mode' = mode /\ slot' = slot
  BY <1>4 DEF HandleMessage, HandleData, HandleHmac, HandleKey, LoadOrStoreMessages, AppendMessage,
      StoreMessages, LoadCommitment, GetKey, GetKeyFails, CacheCommitment, Reject, Accept,
      CheckBatch, DeleteMessages
<1> QED
  BY <1>1, <1>2, <1>3, <1>4, <1>5 DEF Next

LEMMA TypesKept ==
    ASSUME mode' = mode
    PROVE  /\ Slots' = Slots
           /\ ChainKeys' = ChainKeys
           /\ Hmacs' = Hmacs
           /\ Packets' = Packets
           /\ Locals' = Locals
           /\ Probabilistic' <=> Probabilistic
<1>1. Slots' = Slots /\ Chains' = Chains
  BY DEF Slots, Chains
<1>2. ChainKeys' = ChainKeys
  BY <1>1 DEF ChainKeys, Key
<1>3. /\ Hmacs' = Hmacs
      /\ Packets' = Packets
  BY <1>1, <1>2 DEF Hmacs, Packets
<1> QED
  BY <1>1, <1>2, <1>3 DEF Locals, Probabilistic

\* The chains change when a device registers one.
LEMMA StartsSteps ==
    ASSUME [Next]_vars
    PROVE  \/ starts' = starts
           \/ \E p \in Senders : Register(p)
  BY DEF Next, vars, NewBlock, OtherDevices, SendMessage, FlushBatch, Disclose,
      Cleanup, HandleMessage, HandleData, HandleHmac, HandleKey, LoadOrStoreMessages, AppendMessage,
      StoreMessages, LoadCommitment, GetKey, GetKeyFails, CacheCommitment, Reject, Accept,
      CheckBatch, DeleteMessages,
      senderVars

LEMMA NextStarts ==
    ASSUME TypeInv, [Next]_vars
    PROVE  /\ starts' \in [Senders -> Seq(Slots)]
           /\ StartsBounded'
           /\ \A p \in Senders : (starts[p] # <<>>) => (starts'[p] # <<>>)
<1> USE ReceiverAssumption
<1>0. /\ mode' = mode /\ slot \in 1..MaxSlot[mode] /\ slot' \in Nat /\ slot <= slot'
      /\ starts \in [Senders -> Seq(Slots)]
      /\ MaxSlot[mode] \in Nat
  BY ModeKept DEF TypeInv, TypeOK
<1>1. CASE starts' = starts
  BY <1>0, <1>1 DEF TypeInv, StartsBounded, CurrentStart, Slots
<1>2. ASSUME NEW q \in Senders, Register(q)
      PROVE  /\ starts' \in [Senders -> Seq(Slots)]
             /\ StartsBounded'
             /\ \A p \in Senders : (starts[p] # <<>>) => (starts'[p] # <<>>)
  <2> DEFINE new == Append(starts[q], slot)
  <2>1. /\ starts' = [starts EXCEPT ![q] = new]
        /\ ~ChainCovers(q, slot)
        /\ slot' = slot
    BY <1>2 DEF Register
  <2>2. starts[q] \in Seq(Slots) /\ slot \in Slots
    BY <1>0 DEF Slots
  <2>3. /\ new \in Seq(Slots)
        /\ new # <<>>
        /\ Len(new) = Len(starts[q]) + 1
        /\ new[Len(new)] = slot
    BY <2>2
  <2>4. Len(new) <= slot
    <3>1. CASE starts[q] = <<>>
      BY <3>1, <2>3, <1>0
    <3>2. CASE starts[q] # <<>>
      <4>1. Len(starts[q]) <= CurrentStart(q) /\ CurrentStart(q) + ChainLen <= slot
        <5>1. CurrentStart(q) \in Slots
          BY <2>2, <3>2 DEF CurrentStart
        <5> QED
          BY <2>1, <3>2, <5>1, <1>0 DEF ChainCovers, TypeInv, StartsBounded, Slots
      <4>2. CurrentStart(q) \in Slots
        BY <2>2, <3>2 DEF CurrentStart
      <4>3. CurrentStart(q) \in Nat /\ Len(starts[q]) \in Nat
        BY <2>2, <4>2, <1>0 DEF Slots
      <4> QED
        BY <4>1, <4>3, <2>3, <1>0
    <3> QED
      BY <3>1, <3>2
  <2> HIDE DEF new
  <2>5. starts' \in [Senders -> Seq(Slots)]
    BY <2>1, <2>3, <1>0
  <2>6. ASSUME NEW p \in Senders, starts'[p] # <<>>
        PROVE  Len(starts'[p]) <= starts'[p][Len(starts'[p])] /\ starts'[p][Len(starts'[p])] <= slot'
    <3>1. CASE p = q
      <4>1. starts'[p] = new
        BY <3>1, <2>1, <1>0
      <4> QED
        BY <4>1, <2>3, <2>4, <2>1, <1>0
    <3>2. CASE p # q
      <4>1. starts'[p] = starts[p]
        BY <3>2, <2>1, <1>0
      <4> QED
        BY <4>1, <2>6, <2>1 DEF TypeInv, StartsBounded, CurrentStart
    <3> QED
      BY <3>1, <3>2
  <2>7. StartsBounded'
    BY <2>6 DEF StartsBounded, CurrentStart
  <2>8. \A p \in Senders : (starts[p] # <<>>) => (starts'[p] # <<>>)
    BY <2>1, <2>3, <1>0
  <2> QED
    BY <2>5, <2>7, <2>8
<1> QED
  BY <1>1, <1>2, StartsSteps

LEMMA GenuineKept ==
    ASSUME TypeInv, [Next]_vars
    PROVE  /\ \A p, k : Genuine(p, k) => Genuine(p, k)'
           /\ \A pkt : OnWire(pkt) => OnWire(pkt)'
<1>1. mode' = mode
  BY ModeKept
<1>2. ChainKeys' = ChainKeys /\ Packets' = Packets
  BY <1>1, TypesKept
<1>3. \A p \in Senders : (starts[p] # <<>>) => (starts'[p] # <<>>)
  BY NextStarts
<1>4. \A p, k : Genuine(p, k) => Genuine(p, k)'
  BY <1>2, <1>3 DEF Genuine
<1> QED
  BY <1>2, <1>4 DEF OnWire

\* What a sender signs with.
LEMMA SignsGenuine ==
    ASSUME TypeInv, NEW p \in Senders, ChainCovers(p, slot)
    PROVE  Genuine(p, KeyAt(p, slot))
<1> USE ReceiverAssumption
<1>1. /\ starts[p] # <<>>
      /\ slot < CurrentStart(p) + ChainLen
      /\ Len(starts[p]) <= CurrentStart(p)
      /\ CurrentStart(p) <= slot
      /\ starts[p] \in Seq(Slots)
      /\ slot \in 1..MaxSlot[mode]
      /\ MaxSlot[mode] \in Nat
  BY DEF ChainCovers, TypeInv, TypeOK, StartsBounded
<1>2. CurrentStart(p) \in Nat /\ Len(starts[p]) \in 1..MaxSlot[mode]
  BY <1>1 DEF CurrentStart, Slots
<1>3. CurrentChain(p) \in Chains
  BY <1>2 DEF CurrentChain, Chains
<1>4. slot - CurrentStart(p) + 1 \in 1..ChainLen
  BY <1>1, <1>2
<1> QED
  BY <1>1, <1>3, <1>4 DEF Genuine, KeyAt, KeyOf, ChainKeys, Key

\* What getKey returns for a device that has sent something.
LEMMA FetchedChain ==
    ASSUME TypeInv, NEW p \in Senders, starts[p] # <<>>
    PROVE  KeyOf(CurrentChain(p), 0) \in ChainKeys
<1> USE ReceiverAssumption
<1>1. /\ starts[p] \in Seq(Slots)
      /\ Len(starts[p]) <= CurrentStart(p)
      /\ CurrentStart(p) <= slot
      /\ slot \in 1..MaxSlot[mode]
      /\ MaxSlot[mode] \in Nat
  BY DEF TypeInv, TypeOK, StartsBounded
<1>2. CurrentStart(p) \in Slots
  BY <1>1 DEF CurrentStart
<1>3. Len(starts[p]) \in 1..MaxSlot[mode]
  BY <1>1, <1>2 DEF Slots
<1> QED
  BY <1>3 DEF KeyOf, CurrentChain, ChainKeys, Key, Chains

LEMMA KeysAreNotNoKey == NoKey \notin ChainKeys
  BY ReceiverAssumption DEF ChainKeys, Key, Chains

\* Of the disclosures that are due one is made, or one is added.
LEMMA DueSteps ==
    ASSUME TypeInv, [Next]_vars
    PROVE  \/ due' \subseteq due
           \/ \E p \in Senders, label \in 0..slot : \E data :
                 /\ ChainCovers(p, slot)
                 /\ \/ data = {messageCounter} /\ messageCounter < MaxMsgs
                    \/ data = buffer[p] /\ data # {}
                 /\ due' = due \union {Disclosure(p, label, data)}
<1>0. slot \in Nat
  BY ReceiverAssumption DEF TypeInv, TypeOK
<1>1. ASSUME NEW p \in Senders, SendMessage(p)
      PROVE  \/ due' \subseteq due
             \/ /\ ChainCovers(p, slot)
                /\ messageCounter < MaxMsgs
                /\ due' = due \union {Disclosure(p, slot, {messageCounter})}
  BY <1>1 DEF SendMessage
<1>2. ASSUME NEW p \in Senders, FlushBatch(p)
      PROVE  \E label \in 0..slot : /\ ChainCovers(p, slot)
                                    /\ buffer[p] # {}
                                    /\ due' = due \union {Disclosure(p, label, buffer[p])}
  <2>1. PICK label \in 0..(slot - 1) :
            due' = due \union {Disclosure(p, label, buffer[p])}
    BY <1>2 DEF FlushBatch
  <2>2. label \in 0..slot
    BY <1>0
  <2> QED
    BY <1>2, <2>1, <2>2 DEF FlushBatch
<1>3. ASSUME ~ \E p \in Senders : SendMessage(p) \/ FlushBatch(p)
      PROVE  due' \subseteq due
  BY <1>3 DEF Next, vars, NewBlock, OtherDevices, Register, Disclose,
      Cleanup, HandleMessage, HandleData, HandleHmac, HandleKey, LoadOrStoreMessages, AppendMessage,
      StoreMessages, LoadCommitment, GetKey, GetKeyFails, CacheCommitment, Reject, Accept,
      CheckBatch, DeleteMessages,
      senderVars
<1> QED
  <2>1. slot \in 0..slot
    BY <1>0
  <2>2. CASE \E p \in Senders : SendMessage(p)
    BY <1>1, <2>1, <2>2
  <2>3. CASE \E p \in Senders : FlushBatch(p)
    BY <1>2, <2>3
  <2> QED
    BY <1>3, <2>2, <2>3

LEMMA NextDue ==
    ASSUME TypeInv, [Next]_vars
    PROVE  DueGenuine'
<1>0. /\ slot \in Nat
      /\ messageCounter \in Nat
      /\ buffer \in [Senders -> SUBSET Msgs]
      /\ DisclosureDelay \in Nat /\ MaxMsgs \in Nat
  BY ReceiverAssumption DEF TypeInv, TypeOK
<1>1. CASE due' \subseteq due
  BY <1>1, GenuineKept DEF TypeInv, DueGenuine
<1>2. ASSUME NEW p \in Senders, NEW label \in 0..slot, NEW data,
             ChainCovers(p, slot),
             \/ data = {messageCounter} /\ messageCounter < MaxMsgs
             \/ data = buffer[p] /\ data # {},
             due' = due \union {Disclosure(p, label, data)}
      PROVE  DueGenuine'
  <2>1. Genuine(p, KeyAt(p, slot))
    BY <1>2, SignsGenuine
  <2>2. data \in Batches
    BY <1>0, <1>2 DEF Batches, Msgs
  <2> DEFINE new == Disclosure(p, label, data)
  <2>3. /\ Genuine(new.sender, new.key)
        /\ new.target \in Nat
        /\ new.target >= DisclosureDelay
        /\ new.data \in Batches
    BY <1>0, <2>1, <2>2 DEF Disclosure
  <2> HIDE DEF new
  <2>4. \A d \in due \union {new} : /\ Genuine(d.sender, d.key)
                                    /\ d.target \in Nat
                                    /\ d.target >= DisclosureDelay
                                    /\ d.data \in Batches
    BY <2>3 DEF TypeInv, DueGenuine
  <2>5. due' = due \union {new}
    BY <1>2 DEF new
  <2> QED
    BY <2>4, <2>5, GenuineKept DEF DueGenuine, Batches, Msgs
<1> QED
  BY <1>1, <1>2, DueSteps

\* A step puts at most one packet on the air, which a sender made.
LEMMA AirSteps ==
    ASSUME TypeInv, [Next]_vars
    PROVE  \/ BagToSet(air') \subseteq BagToSet(air)
           \/ \E x : OnWire(x) /\ BagToSet(air') = BagToSet(air) \union {x}
<1>0. /\ slot \in 1..MaxSlot[mode]
      /\ MaxSlot[mode] \in Nat
      /\ messageCounter \in Nat
      /\ buffer \in [Senders -> SUBSET Msgs]
      /\ DisclosureDelay \in Nat /\ MaxMsgs \in Nat
  BY ReceiverAssumption DEF TypeInv, TypeOK
<1>1. ASSUME NEW p \in Senders, NEW label \in 0..slot, NEW data \in Batches, ChainCovers(p, slot)
      PROVE  OnWire(Packet("hmac", p, label, KeyAt(p, slot), data))
  <2>1. Genuine(p, KeyAt(p, slot))
    BY <1>1, SignsGenuine
  <2>2. label \in Slots
    BY <1>0 DEF Slots
  <2> QED
    BY <2>1, <2>2 DEF OnWire, Packet, Packets, Genuine, Batches
<1>2. ASSUME NEW p \in Senders, SendMessage(p)
      PROVE  \E x : OnWire(x) /\ BagToSet(air') = BagToSet(air) \union {x}
  <2>1. {messageCounter} \in Batches /\ slot \in Slots /\ slot \in 0..slot
    BY <1>0, <1>2 DEF SendMessage, Batches, Msgs, Slots
  <2>2. CASE Probabilistic
    <3> DEFINE x == Packet("data", p, slot, NoKey, {messageCounter})
    <3>1. OnWire(x)
      BY <2>1 DEF OnWire, Packet, Packets, Batches
    <3>2. air' = OnAir({x})
      BY <1>2, <2>2 DEF SendMessage
    <3> HIDE DEF x
    <3>3. BagToSet(air') = BagToSet(air) \union {x}
      BY <3>2, OnAirSet
    <3> QED
      BY <3>1, <3>3
  <2>3. CASE ~Probabilistic
    <3> DEFINE x == Packet("hmac", p, slot, KeyAt(p, slot), {messageCounter})
    <3>1. OnWire(x)
      BY <1>1, <2>1, <1>2 DEF SendMessage
    <3>2. air' = OnAir({x})
      BY <1>2, <2>3 DEF SendMessage
    <3> HIDE DEF x
    <3>3. BagToSet(air') = BagToSet(air) \union {x}
      BY <3>2, OnAirSet
    <3> QED
      BY <3>1, <3>3
  <2> QED
    BY <2>2, <2>3
<1>3. ASSUME NEW p \in Senders, FlushBatch(p)
      PROVE  \E x : OnWire(x) /\ BagToSet(air') = BagToSet(air) \union {x}
  <2>1. PICK label \in 0..(slot - 1) :
            air' = OnAir({Packet("hmac", p, label, KeyAt(p, slot), buffer[p])})
    BY <1>3 DEF FlushBatch
  <2>2. label \in 0..slot /\ buffer[p] \in Batches /\ ChainCovers(p, slot)
    BY <1>0, <1>3 DEF FlushBatch, Batches
  <2> DEFINE x == Packet("hmac", p, label, KeyAt(p, slot), buffer[p])
  <2>3. OnWire(x)
    BY <1>1, <2>2
  <2>4. air' = OnAir({x})
    BY <2>1
  <2> HIDE DEF x
  <2>5. BagToSet(air') = BagToSet(air) \union {x}
    BY <2>4, OnAirSet
  <2> QED
    BY <2>3, <2>5
<1>4. ASSUME NEW d \in due, Disclose(d)
      PROVE  \E x : OnWire(x) /\ BagToSet(air') = BagToSet(air) \union {x}
  <2>1. PICK tick \in d.target..slot :
            air' = OnAir({Packet("key", d.sender, tick, d.key, d.data)})
    BY <1>4 DEF Disclose
  <2>2. /\ Genuine(d.sender, d.key)
        /\ d.target \in Nat
        /\ d.target >= DisclosureDelay
        /\ d.data \in Batches
    BY DEF TypeInv, DueGenuine
  <2>3. tick \in Slots /\ tick >= DisclosureDelay
    BY <1>0, <2>2 DEF Slots
  <2> DEFINE x == Packet("key", d.sender, tick, d.key, d.data)
  <2>4. OnWire(x)
    BY <2>2, <2>3 DEF OnWire, Packet, Packets, Genuine, Batches
  <2>5. air' = OnAir({x})
    BY <2>1
  <2> HIDE DEF x
  <2>6. BagToSet(air') = BagToSet(air) \union {x}
    BY <2>5, OnAirSet
  <2> QED
    BY <2>4, <2>6
<1>5. ASSUME NEW h \in Handlers, HandleMessage(h)
      PROVE  BagToSet(air') \subseteq BagToSet(air)
  <2>1. ASSUME NEW pkt, NEW kind, Takes(h, pkt, kind)
        PROVE  BagToSet(air') \subseteq BagToSet(air)
    BY <2>1, BagRemove DEF Takes
  <2>2. ASSUME NEW pkt, HandleData(h, pkt) \/ HandleHmac(h, pkt) \/ HandleKey(h, pkt)
        PROVE  BagToSet(air') \subseteq BagToSet(air)
    BY <2>1, <2>2 DEF HandleData, HandleHmac, HandleKey
  <2>3. ASSUME ~ \E pkt \in BagToSet(air) : HandleData(h, pkt) \/ HandleHmac(h, pkt) \/ HandleKey(h, pkt)
        PROVE  air' = air
    BY <1>5, <2>3 DEF HandleMessage, LoadOrStoreMessages, AppendMessage, StoreMessages, LoadCommitment, GetKey,
        GetKeyFails, CacheCommitment, Reject, Accept, CheckBatch, DeleteMessages
  <2> QED
    BY <2>2, <2>3
<1>6. ASSUME \/ UNCHANGED vars \/ NewBlock
             \/ \E s \in Slots : Cleanup(s)
             \/ \E p \in Senders : Register(p)
      PROVE  air' = air
  BY <1>6 DEF vars, NewBlock, Cleanup, Register
<1> QED
  BY <1>2, <1>3, <1>4, <1>5, <1>6 DEF Next, OtherDevices

LEMMA NextAir ==
    ASSUME TypeInv, [Next]_vars
    PROVE  AirGenuine'
<1>1. CASE BagToSet(air') \subseteq BagToSet(air)
  BY <1>1, GenuineKept DEF TypeInv, AirGenuine, BagToSet
<1>2. ASSUME NEW x, OnWire(x), BagToSet(air') = BagToSet(air) \union {x}
      PROVE  AirGenuine'
  BY <1>2, GenuineKept DEF TypeInv, AirGenuine, BagToSet
<1> QED
  BY <1>1, <1>2, AirSteps

LEMMA Moves ==
    ASSUME handler \in [Handlers -> Locals], NEW h \in Handlers, NEW l, Become(h, l)
    PROVE  /\ handler'[h] = l
           /\ \A g \in Handlers \ {h} : handler'[g] = handler[g]
           /\ (l \in Locals) => (handler' \in [Handlers -> Locals])
  BY DEF Become

LEMMA IdleLocals == TypeInv => Idle \in Locals /\ Works(Idle)
<1> SUFFICES ASSUME TypeInv PROVE Idle \in Locals /\ Works(Idle)
  OBVIOUS
<1>1. 0 \in Slots
  BY ReceiverAssumption DEF TypeInv, TypeOK, Slots
<1>2. NoPacket \in Packets
  BY <1>1 DEF NoPacket, Packet, Packets
<1> QED
  BY <1>1, <1>2 DEF Idle, Locals, Pcs, Works, Claiming, Opening

\* What another list holds once h has put its message behind what it loaded: that message
\* may be in it, and what h loaded is not gone from it.
Rewritten(h, list, msgs) ==
    /\ msgs \subseteq list \union Arrived(h)
    /\ list \intersect handler[h].msgs \subseteq msgs

\* The lists that an append reaches, besides its own.
LEMMA AppendSteps ==
    ASSUME handler \in [Handlers -> Locals], unverifiedMsgs \in [Slots -> SUBSET Msgs],
           NEW h \in Handlers, AppendMessage(h)
    PROVE  /\ handler[h].pc = "append"
           /\ handler' \in [Handlers -> Locals]
           /\ handler'[h] = [handler[h] EXCEPT !.pc = "store", !.msgs = @ \union Arrived(h)]
           /\ \A g \in Handlers \ {h} :
                 \/ handler'[g] = handler[g]
                 \/ /\ g \in Others(h)
                    /\ \E msgs : /\ handler'[g] = [handler[g] EXCEPT !.msgs = msgs]
                                 /\ Rewritten(h, handler[g].msgs, msgs)
           /\ handler[h].pkt.slot \in Slots
           /\ \E msgs \in SUBSET Msgs :
                 /\ unverifiedMsgs' = [unverifiedMsgs EXCEPT ![handler[h].pkt.slot] = msgs]
                 /\ Rewritten(h, unverifiedMsgs[handler[h].pkt.slot], msgs)
<1> DEFINE s == handler[h].pkt.slot
           loaded == handler[h].msgs
           lists == {unverifiedMsgs[s]} \union {handler[g].msgs : g \in Others(h)}
           behind == (UNION lists) \ loaded
           Overwritten(list, old) ==
               IF old \in list /\ loaded \subseteq list THEN (list \ {old}) \union Arrived(h) ELSE list
<1>1. /\ handler[h] \in Locals /\ s \in Slots
      /\ \A g \in Handlers : handler[g] \in Locals
      /\ unverifiedMsgs[s] \in SUBSET Msgs
  BY DEF Locals, Packets
<1>2. Arrived(h) \subseteq Msgs
  BY <1>1 DEF Arrived, Locals, Packets
<1>3. PICK old \in behind \union Arrived(h), sharing \in SUBSET Others(h) :
         /\ handler' = [g \in Handlers |->
                IF g = h THEN [handler[h] EXCEPT !.pc = "store", !.msgs = @ \union Arrived(h)]
                ELSE IF g \in sharing
                     THEN [handler[g] EXCEPT !.msgs = Overwritten(@, old)] ELSE handler[g]]
         /\ unverifiedMsgs' \in {unverifiedMsgs, [unverifiedMsgs EXCEPT ![s] = Overwritten(@, old)]}
  BY DEF AppendMessage
<1>4. \A list : Rewritten(h, list, Overwritten(list, old))
  <2> SUFFICES ASSUME NEW list PROVE Rewritten(h, list, Overwritten(list, old))
    OBVIOUS
  <2>1. old \notin loaded \/ old \in Arrived(h)
    OBVIOUS
  <2> QED
    BY <2>1 DEF Rewritten
<1>5. \A list \in SUBSET Msgs : Overwritten(list, old) \in SUBSET Msgs /\ Rewritten(h, list, list)
  BY <1>2 DEF Rewritten
<1> HIDE DEF Overwritten, behind
<1>6. handler'[h] = [handler[h] EXCEPT !.pc = "store", !.msgs = @ \union Arrived(h)]
  BY <1>3
<1>7. ASSUME NEW g \in Handlers \ {h}
      PROVE  \/ handler'[g] = handler[g]
             \/ /\ g \in Others(h)
                /\ handler'[g] = [handler[g] EXCEPT !.msgs = Overwritten(@, old)]
  BY <1>3
<1>8. handler'[h] \in Locals
  BY <1>1, <1>2, <1>6 DEF Locals, Pcs
<1>9. ASSUME NEW g \in Handlers \ {h}
      PROVE  handler'[g] \in Locals
  <2>1. handler[g].msgs \in SUBSET Msgs
    BY <1>1 DEF Locals
  <2>2. Overwritten(handler[g].msgs, old) \in SUBSET Msgs
    BY <1>5, <2>1
  <2> QED
    BY <1>1, <1>7, <2>2 DEF Locals
<1>10. handler' \in [Handlers -> Locals]
  <2>1. \A g \in Handlers : handler'[g] \in Locals
    BY <1>8, <1>9
  <2>2. DOMAIN handler' = Handlers /\ handler' = [g \in Handlers |-> handler'[g]]
    BY <1>3
  <2> QED
    BY <2>1, <2>2
<1>11. \E msgs \in SUBSET Msgs :
          /\ unverifiedMsgs' = [unverifiedMsgs EXCEPT ![s] = msgs]
          /\ Rewritten(h, unverifiedMsgs[s], msgs)
  <2>1. CASE unverifiedMsgs' = unverifiedMsgs
    <3>1. unverifiedMsgs' = [unverifiedMsgs EXCEPT ![s] = unverifiedMsgs[s]]
      BY <1>1, <2>1
    <3> QED
      BY <1>1, <1>5, <3>1
  <2>2. CASE unverifiedMsgs' = [unverifiedMsgs EXCEPT ![s] = Overwritten(@, old)]
    BY <1>1, <1>4, <1>5, <2>2
  <2> QED
    BY <1>3, <2>1, <2>2
<1>12. handler[h].pc = "append"
  BY DEF AppendMessage
<1> QED
  BY <1>1, <1>4, <1>6, <1>7, <1>10, <1>11, <1>12

\* It leaves a goroutine that is not storing a message alone, and the others at their work.
LEMMA AppendFrame ==
    ASSUME handler \in [Handlers -> Locals], unverifiedMsgs \in [Slots -> SUBSET Msgs],
           NEW h \in Handlers, AppendMessage(h), NEW g \in Handlers
    PROVE  /\ handler'[g].pkt = handler[g].pkt
           /\ handler'[g].pc = (IF g = h THEN "store" ELSE handler[g].pc)
           /\ (handler'[g] = handler[g]) \/ (handler[g].pc \in Appending /\ handler'[g].pc \in Appending)
<1>1. handler[g] \in Locals /\ handler[h] \in Locals
  OBVIOUS
<1>0. /\ handler[h].pc = "append"
      /\ handler'[h] = [handler[h] EXCEPT !.pc = "store", !.msgs = @ \union Arrived(h)]
      /\ \A f \in Handlers \ {h} :
            \/ handler'[f] = handler[f]
            \/ f \in Others(h) /\ \E msgs : handler'[f] = [handler[f] EXCEPT !.msgs = msgs]
  <2>1. \A f \in Handlers \ {h} :
           \/ handler'[f] = handler[f]
           \/ /\ f \in Others(h)
              /\ \E msgs : /\ handler'[f] = [handler[f] EXCEPT !.msgs = msgs]
                           /\ Rewritten(h, handler[f].msgs, msgs)
    BY AppendSteps
  <2> QED
    BY <2>1, AppendSteps
<1>2. CASE g = h
  BY <1>0, <1>1, <1>2 DEF Locals, Appending
<1>3. CASE g # h
  <2>1. CASE handler'[g] = handler[g]
    BY <1>3, <2>1
  <2>2. CASE handler'[g] # handler[g]
    <3>1. /\ g \in Others(h)
          /\ \E msgs : handler'[g] = [handler[g] EXCEPT !.msgs = msgs]
      BY <1>0, <1>3, <2>2
    <3> QED
      BY <1>1, <1>3, <3>1 DEF Locals, Others
  <2> QED
    BY <2>1, <2>2
<1> QED
  BY <1>2, <1>3

\* What a goroutine's locals become in every other step of it.
LEMMA HandlerSteps ==
    ASSUME TypeInv, NEW h \in Handlers, HandleMessage(h), ~AppendMessage(h)
    PROVE  \/ handler' = handler
           \/ \E l \in Locals : Works(l) /\ Become(h, l)
<1> USE IdleLocals
<1>0. /\ slot \in Slots
      /\ handler[h] \in Locals
      /\ Works(handler[h])
      /\ unverifiedMsgs \in [Slots -> SUBSET Msgs]
      /\ commitmentKeys \in [Senders -> ChainKeys \union {NoKey}]
  BY ReceiverAssumption DEF TypeInv, TypeOK, HandlersGenuine, Slots
<1>1. ASSUME NEW pkt \in BagToSet(air), HandleData(h, pkt)
      PROVE  \/ handler' = handler
             \/ \E l \in Locals : Works(l) /\ Become(h, l)
  <2>1. CASE TooLate(pkt.slot)
    BY <1>1, <2>1 DEF HandleData
  <2>2. CASE ~TooLate(pkt.slot)
    <3> DEFINE l == [Idle EXCEPT !.pc = "loadOrStore", !.pkt = pkt]
    <3>1. pkt \in Packets
      BY DEF TypeInv, AirGenuine, OnWire
    <3>2. l \in Locals
      BY <1>0, <3>1 DEF Locals, Pcs
    <3>3. Works(l)
      BY DEF Works, Claiming, Opening, Idle
    <3>4. Become(h, l)
      BY <1>1, <2>2 DEF HandleData
    <3> QED
      BY <3>2, <3>3, <3>4
  <2> QED
    BY <2>1, <2>2
<1>2. ASSUME NEW pkt \in BagToSet(air), HandleHmac(h, pkt)
      PROVE  handler' = handler
  BY <1>2 DEF HandleHmac
<1>3. ASSUME NEW pkt \in BagToSet(air), HandleKey(h, pkt)
      PROVE  \/ handler' = handler
             \/ \E l \in Locals : Works(l) /\ Become(h, l)
  <2>1. CASE Hmac(pkt) \notin receivedHMACs
    BY <1>3, <2>1 DEF HandleKey
  <2>2. CASE Hmac(pkt) \in receivedHMACs
    <3> DEFINE l == [Idle EXCEPT !.pc = "load", !.pkt = pkt]
    <3>1. OnWire(pkt) /\ pkt.kind = "key" /\ pkt \in Packets
      BY <1>3 DEF TypeInv, AirGenuine, OnWire, HandleKey, Takes
    <3>2. l \in Locals
      BY <1>0, <3>1 DEF Locals, Pcs
    <3>3. Works(l)
      BY <3>1 DEF Works, Claiming, Opening, Idle
    <3>4. Become(h, l)
      BY <1>3, <2>2 DEF HandleKey
    <3> QED
      BY <3>2, <3>3, <3>4
  <2> QED
    BY <2>1, <2>2
<1>4. ASSUME LoadOrStoreMessages(h)
      PROVE  \E l \in Locals : Works(l) /\ Become(h, l)
  <2> DEFINE l == [handler[h] EXCEPT !.pc = "append", !.msgs = unverifiedMsgs[handler[h].pkt.slot]]
  <2>1. handler[h].pkt.slot \in Slots
    BY <1>0 DEF Locals, Packets
  <2>2. unverifiedMsgs[handler[h].pkt.slot] \in SUBSET Msgs
    BY <1>0, <2>1
  <2>3. l \in Locals
    BY <1>0, <2>2 DEF Locals, Pcs
  <2>4. Works(l)
    BY <1>0 DEF Works, Claiming, Opening, Locals
  <2>5. Become(h, l)
    BY <1>4 DEF LoadOrStoreMessages
  <2> QED
    BY <2>3, <2>4, <2>5
<1>5. ASSUME StoreMessages(h) \/ GetKeyFails(h) \/ Reject(h) \/ DeleteMessages(h)
      PROVE  Become(h, Idle)
  BY <1>5 DEF StoreMessages, GetKeyFails, Reject, DeleteMessages
<1>6. ASSUME NEW pc \in Pcs, NEW key \in ChainKeys \union {NoKey},
             Become(h, [handler[h] EXCEPT !.commitment = key, !.pc = pc]),
             Works(handler[h]), handler[h].pc \in Claiming, pc \in Claiming,
             (pc \in {"cache", "verify"}) => (key # NoKey),
             (pc = "getKey") => (key = NoKey)
      PROVE  \E l \in Locals : Works(l) /\ Become(h, l)
  <2> DEFINE l == [handler[h] EXCEPT !.commitment = key, !.pc = pc]
  <2>1. l \in Locals
    BY <1>0 DEF Locals
  <2>2. Works(l)
    BY <1>0, <1>6 DEF Works, Claiming, Opening, Locals
  <2> QED
    BY <1>6, <2>1, <2>2
<1>7. ASSUME LoadCommitment(h)
      PROVE  \E l \in Locals : Works(l) /\ Become(h, l)
  <2> DEFINE cached == commitmentKeys[handler[h].pkt.sender]
             pc == IF cached = NoKey THEN "getKey" ELSE "verify"
  <2>1. handler[h].pc \in Claiming /\ handler[h].pkt.sender \in Senders
    BY <1>0, <1>7 DEF LoadCommitment, Claiming, Works, OnWire, Genuine
  <2>2. cached \in ChainKeys \union {NoKey}
    BY <1>0, <2>1
  <2>3. Become(h, [handler[h] EXCEPT !.commitment = cached, !.pc = pc])
    BY <1>7 DEF LoadCommitment
  <2>4. /\ pc \in Pcs /\ pc \in Claiming
        /\ (pc \in {"cache", "verify"}) => (cached # NoKey)
        /\ (pc = "getKey") => (cached = NoKey)
    BY DEF Pcs, Claiming
  <2> HIDE DEF cached, pc
  <2> QED
    BY <1>0, <1>6, <2>1, <2>2, <2>3, <2>4
<1>8. ASSUME GetKey(h)
      PROVE  \E l \in Locals : Works(l) /\ Become(h, l)
  <2> DEFINE key == KeyOf(CurrentChain(handler[h].pkt.sender), 0)
  <2>1. handler[h].pc \in Claiming /\ Genuine(handler[h].pkt.sender, handler[h].pkt.key)
    BY <1>0, <1>8 DEF GetKey, Claiming, Works, OnWire
  <2>2. key \in ChainKeys
    BY <2>1, FetchedChain DEF Genuine
  <2>3. key # NoKey
    BY <2>2, KeysAreNotNoKey
  <2>4. Become(h, [handler[h] EXCEPT !.commitment = key, !.pc = "cache"])
    BY <1>8 DEF GetKey
  <2>5. "cache" \in Pcs /\ "cache" \in Claiming
    BY DEF Pcs, Claiming
  <2> HIDE DEF key
  <2> QED
    BY <1>0, <1>6, <2>1, <2>2, <2>3, <2>4, <2>5
<1>9. ASSUME CacheCommitment(h)
      PROVE  \E l \in Locals : Works(l) /\ Become(h, l)
  <2> DEFINE l == [handler[h] EXCEPT !.pc = "verify"]
  <2>1. l \in Locals /\ Works(l)
    BY <1>0, <1>9 DEF CacheCommitment, Locals, Pcs, Works, Claiming, Opening
  <2> QED
    BY <1>9, <2>1 DEF CacheCommitment
<1>10. ASSUME Accept(h)
       PROVE  \E l \in Locals : Works(l) /\ Become(h, l)
  <2>1. CASE Probabilistic
    <3> DEFINE l == [handler[h] EXCEPT !.pc = "check"]
    <3>1. l \in Locals /\ Works(l)
      BY <1>0, <1>10, <2>1 DEF Accept, Locals, Pcs, Works, Claiming, Opening
    <3> QED
      BY <1>10, <2>1, <3>1 DEF Accept
  <2>2. CASE ~Probabilistic
    BY <1>10, <2>2 DEF Accept
  <2> QED
    BY <2>1, <2>2
<1>11. ASSUME CheckBatch(h)
       PROVE  \E l \in Locals : Works(l) /\ Become(h, l)
  <2> DEFINE l == [handler[h] EXCEPT !.pc = "delete"]
  <2>1. l \in Locals /\ Works(l)
    BY <1>0, <1>11 DEF CheckBatch, Locals, Pcs, Works, Claiming, Opening
  <2> QED
    BY <1>11, <2>1 DEF CheckBatch
<1> QED
  BY <1>1, <1>2, <1>3, <1>4, <1>5, <1>7, <1>8, <1>9, <1>10, <1>11 DEF HandleMessage

\* Only handleMessage moves a goroutine.
LEMMA HandlerFrame ==
    ASSUME [Next]_vars
    PROVE  \/ handler' = handler
           \/ \E h \in Handlers : HandleMessage(h)
  BY DEF Next, vars, NewBlock, OtherDevices, Register, SendMessage, FlushBatch, Disclose, Cleanup

LEMMA NextHandlers ==
    ASSUME TypeInv, [Next]_vars
    PROVE  handler' \in [Handlers -> Locals]' /\ HandlersGenuine'
<1>1. mode' = mode
  BY ModeKept
<1>2. Locals' = Locals /\ (Probabilistic' <=> Probabilistic)
  BY <1>1, TypesKept
<1>3. \A l : Works(l) => Works(l)'
  <2>1. \A pkt : OnWire(pkt) => OnWire(pkt)'
    BY GenuineKept
  <2> QED
    BY <2>1, <1>2 DEF Works
<1>4. CASE handler' = handler
  BY <1>2, <1>3, <1>4 DEF TypeInv, HandlersGenuine
<1>5. ASSUME NEW h \in Handlers, NEW l \in Locals, Works(l), Become(h, l)
      PROVE  handler' \in [Handlers -> Locals]' /\ HandlersGenuine'
  <2>1. /\ handler' \in [Handlers -> Locals]
        /\ handler'[h] = l
        /\ \A g \in Handlers \ {h} : handler'[g] = handler[g]
    BY <1>5, Moves DEF TypeInv
  <2>2. \A g \in Handlers : Works(handler'[g])
    BY <2>1, <1>5 DEF TypeInv, HandlersGenuine
  <2> QED
    BY <2>1, <2>2, <1>2, <1>3 DEF HandlersGenuine
<1>6. ASSUME NEW h \in Handlers, AppendMessage(h)
      PROVE  handler' \in [Handlers -> Locals]' /\ HandlersGenuine'
  <2>0. handler \in [Handlers -> Locals] /\ unverifiedMsgs \in [Slots -> SUBSET Msgs]
    BY DEF TypeInv, TypeOK
  <2>1. ASSUME NEW g \in Handlers
        PROVE  Works(handler'[g])
    <3>1. CASE handler'[g] = handler[g]
      BY <3>1 DEF TypeInv, HandlersGenuine
    <3>2. CASE handler'[g].pc \in Appending
      BY <3>2 DEF Works, Appending, Claiming, Opening
    <3> QED
      BY <1>6, <2>0, <3>1, <3>2, AppendFrame
  <2> QED
    BY <1>2, <1>3, <1>6, <2>0, <2>1, AppendSteps DEF HandlersGenuine
<1> QED
  BY <1>4, <1>5, <1>6, HandlerFrame, HandlerSteps

\* The variables a step of handleMessage writes besides.
LEMMA NextMaps ==
    ASSUME TypeInv, [Next]_vars
    PROVE  /\ receivedHMACs' \subseteq Hmacs
           /\ commitmentKeys' \in [Senders -> ChainKeys \union {NoKey}]
           /\ unverifiedMsgs' \in [Slots -> SUBSET Msgs]
           /\ BagToSet(authenticated') \subseteq Hmacs
<1> DEFINE Goal == /\ receivedHMACs' \subseteq Hmacs
                   /\ commitmentKeys' \in [Senders -> ChainKeys \union {NoKey}]
                   /\ unverifiedMsgs' \in [Slots -> SUBSET Msgs]
                   /\ BagToSet(authenticated') \subseteq Hmacs
<1>0. /\ receivedHMACs \subseteq Hmacs
      /\ commitmentKeys \in [Senders -> ChainKeys \union {NoKey}]
      /\ unverifiedMsgs \in [Slots -> SUBSET Msgs]
      /\ BagToSet(authenticated) \subseteq Hmacs
      /\ handler \in [Handlers -> Locals]
      /\ \A h \in Handlers : Works(handler[h])
  BY DEF TypeInv, TypeOK, HandlersGenuine
<1>1. ASSUME NEW pkt, OnWire(pkt), pkt.kind # "data"
      PROVE  Hmac(pkt) \in Hmacs /\ pkt.sender \in Senders /\ pkt.key \in ChainKeys
  BY <1>1 DEF OnWire, Genuine, Hmac, Hmacs, Batches
<1>2. CASE UNCHANGED <<receivedHMACs, commitmentKeys, unverifiedMsgs, authenticated>>
  BY <1>0, <1>2 DEF BagToSet
<1>3. ASSUME NEW s \in Slots, Cleanup(s)
      PROVE  Goal
  BY <1>0, <1>3 DEF Cleanup, historyVars, BagToSet
<1>4. ASSUME NEW h \in Handlers, HandleMessage(h)
      PROVE  Goal
  <2>1. ASSUME NEW pkt \in BagToSet(air), HandleHmac(h, pkt)
        PROVE  Goal
    <3>1. OnWire(pkt) /\ pkt.kind # "data"
      BY <2>1 DEF TypeInv, AirGenuine, HandleHmac, Takes
    <3> QED
      BY <1>0, <1>1, <2>1, <3>1 DEF HandleHmac, BagToSet, storeVars
  <2>2. ASSUME NEW pkt \in BagToSet(air), HandleKey(h, pkt)
        PROVE  Goal
    BY <1>0, <2>2 DEF HandleKey, BagToSet, storeVars, historyVars
  <2>3. CASE StoreMessages(h)
    <3>1. handler[h].msgs \subseteq Msgs
      BY <1>0 DEF Locals
    <3>2. /\ unverifiedMsgs' = [unverifiedMsgs EXCEPT ![handler[h].pkt.slot] = handler[h].msgs]
          /\ UNCHANGED <<receivedHMACs, commitmentKeys, authenticated>>
      BY <2>3 DEF StoreMessages, historyVars
    <3> QED
      BY <1>0, <3>1, <3>2 DEF BagToSet
  <2>4. CASE CacheCommitment(h)
    <3>1. handler[h].commitment \in ChainKeys \union {NoKey}
      BY <1>0 DEF Locals
    <3> QED
      BY <1>0, <2>4, <3>1 DEF CacheCommitment, BagToSet, storeVars, historyVars
  <2>5. CASE Accept(h)
    <3>1. OnWire(handler[h].pkt) /\ handler[h].pkt.kind # "data"
      BY <1>0, <2>5 DEF Accept, Works, Claiming
    <3>2. /\ Hmac(handler[h].pkt) \in Hmacs
          /\ handler[h].pkt.key \in ChainKeys
      BY <1>1, <3>1
    <3>3. BagToSet(authenticated') = BagToSet(authenticated) \union {Hmac(handler[h].pkt)}
      <4>1. authenticated' = authenticated (+) SetToBag({Hmac(handler[h].pkt)})
        BY <2>5 DEF Accept
      <4>2. BagToSet(SetToBag({Hmac(handler[h].pkt)})) = {Hmac(handler[h].pkt)}
        BY DEF BagToSet, SetToBag
      <4> QED
        BY <4>1, <4>2, BagAdd
    <3> QED
      BY <1>0, <2>5, <3>2, <3>3 DEF Accept, BagToSet, storeVars
  <2>6. CASE DeleteMessages(h)
    BY <1>0, <2>6 DEF DeleteMessages, BagToSet, historyVars
  <2>7. CASE \/ \E pkt \in BagToSet(air) : HandleData(h, pkt)
             \/ LoadOrStoreMessages(h) \/ LoadCommitment(h) \/ GetKey(h) \/ GetKeyFails(h)
             \/ Reject(h) \/ CheckBatch(h)
    BY <1>2, <2>7 DEF HandleData, LoadOrStoreMessages, LoadCommitment, GetKey, GetKeyFails, Reject,
        CheckBatch, storeVars, historyVars
  <2>8. CASE AppendMessage(h)
    <3>1. \E msgs \in SUBSET Msgs : unverifiedMsgs' = [unverifiedMsgs EXCEPT ![handler[h].pkt.slot] = msgs]
      BY <1>0, <2>8, AppendSteps
    <3>2. UNCHANGED <<receivedHMACs, commitmentKeys, authenticated>>
      BY <2>8 DEF AppendMessage, historyVars
    <3> QED
      BY <1>0, <3>1, <3>2 DEF BagToSet
  <2> QED
    BY <1>4, <2>1, <2>2, <2>3, <2>4, <2>5, <2>6, <2>7, <2>8 DEF HandleMessage
<1>5. CASE UNCHANGED vars \/ NewBlock \/ OtherDevices
  BY <1>2, <1>5 DEF vars, NewBlock, OtherDevices, Register, SendMessage, FlushBatch, Disclose,
      storeVars, historyVars
<1> QED
  BY <1>3, <1>4, <1>5 DEF Next

\* What is logged as verified, in either mode.
LEMMA NextVerified ==
    ASSUME TypeInv, [Next]_vars
    PROVE  verified' \subseteq [msg : Msgs, key : ChainKeys]
<1>0. verified \subseteq [msg : Msgs, key : ChainKeys]
  BY DEF TypeInv, TypeOK
<1>1. ASSUME NEW msgs \in SUBSET Msgs, NEW key \in ChainKeys
      PROVE  Logged(msgs, key) \subseteq [msg : Msgs, key : ChainKeys]
  BY DEF Logged
<1>2. ASSUME NEW h \in Handlers, handler[h].pc \in Claiming \union Opening
      PROVE  /\ handler[h].pkt.key \in ChainKeys
             /\ handler[h].pkt.data \in SUBSET Msgs
             /\ handler[h].pkt.slot \in Slots
             /\ handler[h].pkt.slot >= DisclosureDelay
  BY <1>2 DEF TypeInv, HandlersGenuine, Works, OnWire, Genuine, Packets
<1>3. ASSUME NEW h \in Handlers, Accept(h)
      PROVE  verified' \subseteq [msg : Msgs, key : ChainKeys]
  <2>1. \/ verified' = verified
        \/ verified' = verified \union Logged(handler[h].pkt.data, handler[h].pkt.key)
    BY <1>3 DEF Accept
  <2>2. handler[h].pc \in Claiming
    BY <1>3 DEF Accept, Claiming
  <2>3. Logged(handler[h].pkt.data, handler[h].pkt.key) \subseteq [msg : Msgs, key : ChainKeys]
    BY <1>1, <1>2, <2>2
  <2> QED
    BY <1>0, <2>1, <2>3
<1>4. ASSUME NEW h \in Handlers, CheckBatch(h)
      PROVE  verified' \subseteq [msg : Msgs, key : ChainKeys]
  <2> DEFINE pkt == handler[h].pkt
             checked == {m \in unverifiedMsgs[TargetOf(pkt)] : Check(Received(pkt), m)}
  <2>1. handler[h].pc \in Opening
    BY <1>4 DEF CheckBatch, Opening
  <2>2. TargetOf(pkt) \in Slots
    <3>1. MaxSlot[mode] \in Nat /\ DisclosureDelay \in Nat
      BY ReceiverAssumption DEF TypeInv, TypeOK
    <3> QED
      BY <1>2, <2>1, <3>1 DEF TargetOf, Slots
  <2>3. checked \in SUBSET Msgs
    BY <2>2 DEF TypeInv, TypeOK
  <2>4. verified' = verified \union Logged(checked, pkt.key)
    BY <1>4 DEF CheckBatch
  <2>5. pkt.key \in ChainKeys
    BY <1>2, <2>1
  <2> HIDE DEF checked, pkt
  <2> QED
    BY <1>0, <1>1, <2>3, <2>4, <2>5
<1>5. ASSUME ~ \E h \in Handlers : Accept(h) \/ CheckBatch(h)
      PROVE  verified' = verified
  BY <1>5 DEF Next, vars, NewBlock, OtherDevices, Register, SendMessage, FlushBatch, Disclose,
      Cleanup, HandleMessage, HandleData, HandleHmac, HandleKey, LoadOrStoreMessages, AppendMessage,
      StoreMessages, LoadCommitment, GetKey, GetKeyFails, CacheCommitment, Reject,
      DeleteMessages, historyVars
<1> QED
  BY <1>0, <1>3, <1>4, <1>5

LEMMA NextBuffers ==
    ASSUME TypeInv, [Next]_vars
    PROVE  /\ buffer' \in [Senders -> SUBSET Msgs]
           /\ messageCounter' \in 0..MaxMsgs
<1>0. /\ buffer \in [Senders -> SUBSET Msgs]
      /\ messageCounter \in 0..MaxMsgs
      /\ MaxMsgs \in Nat
  BY ReceiverAssumption DEF TypeInv, TypeOK
<1>1. CASE UNCHANGED <<buffer, messageCounter>>
  BY <1>0, <1>1
<1>2. ASSUME NEW p \in Senders, SendMessage(p)
      PROVE  /\ buffer' \in [Senders -> SUBSET Msgs]
             /\ messageCounter' \in 0..MaxMsgs
  <2>1. /\ messageCounter' \in 0..MaxMsgs
        /\ {messageCounter} \subseteq Msgs
    BY <1>0, <1>2 DEF SendMessage, Msgs
  <2>2. \/ buffer' = buffer
        \/ buffer' = [buffer EXCEPT ![p] = @ \union {messageCounter}]
    BY <1>2 DEF SendMessage
  <2> QED
    BY <1>0, <2>1, <2>2
<1>3. ASSUME NEW p \in Senders, FlushBatch(p)
      PROVE  /\ buffer' \in [Senders -> SUBSET Msgs]
             /\ messageCounter' \in 0..MaxMsgs
  BY <1>0, <1>3 DEF FlushBatch
<1>4. ASSUME ~ \E p \in Senders : SendMessage(p) \/ FlushBatch(p)
      PROVE  UNCHANGED <<buffer, messageCounter>>
  BY <1>4 DEF Next, vars, NewBlock, OtherDevices, Register, Disclose,
      Cleanup, HandleMessage, HandleData, HandleHmac, HandleKey, LoadOrStoreMessages, AppendMessage,
      StoreMessages, LoadCommitment, GetKey, GetKeyFails, CacheCommitment, Reject, Accept,
      CheckBatch, DeleteMessages,
      senderVars
<1> QED
  BY <1>1, <1>2, <1>3, <1>4

\* What was stored without a race, and which stores raced.
LEMMA NextKeptTypes ==
    ASSUME TypeInv, [Next]_vars
    PROVE  kept' \in [Slots -> SUBSET Msgs] /\ raced' \subseteq Handlers
<1> DEFINE Goal == kept' \in [Slots -> SUBSET Msgs] /\ raced' \subseteq Handlers
<1>0. /\ kept \in [Slots -> SUBSET Msgs]
      /\ raced \subseteq Handlers
      /\ handler \in [Handlers -> Locals]
  BY DEF TypeInv, TypeOK
<1>1. CASE UNCHANGED <<kept, raced>>
  BY <1>0, <1>1
<1>2. ASSUME NEW h \in Handlers, HandleMessage(h)
      PROVE  Goal
  <2>1. CASE LoadOrStoreMessages(h)
    <3>1. Others(h) \subseteq Handlers
      BY DEF Others
    <3> QED
      BY <1>0, <2>1, <3>1 DEF LoadOrStoreMessages
  <2>2. CASE StoreMessages(h)
    <3>1. Arrived(h) \subseteq Msgs
      BY <1>0 DEF Arrived, Locals, Packets
    <3>2. kept' \in {kept, [kept EXCEPT ![handler[h].pkt.slot] = @ \union Arrived(h)]}
      BY <2>2 DEF StoreMessages
    <3>3. raced' = raced \ {h}
      BY <2>2 DEF StoreMessages
    <3> QED
      BY <1>0, <3>1, <3>2, <3>3
  <2>3. CASE DeleteMessages(h)
    BY <1>0, <2>3 DEF DeleteMessages
  <2>4. ASSUME ~LoadOrStoreMessages(h), ~StoreMessages(h), ~DeleteMessages(h)
        PROVE  UNCHANGED <<kept, raced>>
    BY <1>2, <2>4 DEF HandleMessage, HandleData, HandleHmac, HandleKey, AppendMessage,
        LoadCommitment, GetKey, GetKeyFails, CacheCommitment, Reject, Accept, CheckBatch, storeVars
  <2> QED
    BY <1>1, <2>1, <2>2, <2>3, <2>4
<1>3. ASSUME ~ \E h \in Handlers : HandleMessage(h)
      PROVE  UNCHANGED <<kept, raced>>
  BY <1>3 DEF Next, vars, NewBlock, OtherDevices, Register, SendMessage, FlushBatch, Disclose,
      Cleanup, storeVars
<1> QED
  BY <1>1, <1>2, <1>3

LEMMA NextTypeInv == TypeInv /\ [Next]_vars => TypeInv'
<1> SUFFICES ASSUME TypeInv, [Next]_vars PROVE TypeInv'
  OBVIOUS
<1>1. /\ mode' = mode
      /\ mode' \in Modes
      /\ slot' \in (1..MaxSlot[mode])'
  BY ModeKept DEF TypeInv, TypeOK
<1>2. /\ Slots' = Slots
      /\ ChainKeys' = ChainKeys
      /\ Hmacs' = Hmacs
      /\ Packets' = Packets
      /\ Locals' = Locals
  BY <1>1, TypesKept
<1>3. DueGenuine' /\ AirGenuine' /\ handler' \in [Handlers -> Locals]' /\ HandlersGenuine'
  BY NextDue, NextAir, NextHandlers
<1>4. BagToSet(air)' \subseteq Packets'
  BY <1>3 DEF AirGenuine, OnWire
<1>5. \A d \in due' : /\ d.sender \in Senders
                      /\ d.key \in ChainKeys'
                      /\ d.target \in Nat
  BY <1>3 DEF DueGenuine, Genuine
<1>6. \A h \in Handlers :
        /\ handler'[h].pc \in Pcs
        /\ handler'[h].pkt \in Packets'
        /\ handler'[h].msgs \subseteq Msgs
        /\ handler'[h].commitment \in (ChainKeys' \union {NoKey})
        /\ (handler'[h].pc \in {"cache", "verify"}) => (handler'[h].commitment # NoKey)
  BY <1>2, <1>3 DEF Locals, HandlersGenuine, Works
<1>7. starts' \in [Senders -> Seq(Slots)]' /\ StartsBounded'
  BY <1>2, NextStarts
<1>8. /\ (receivedHMACs \subseteq Hmacs)'
      /\ (commitmentKeys \in [Senders -> ChainKeys \union {NoKey}])'
      /\ (unverifiedMsgs \in [Slots -> SUBSET Msgs])'
      /\ (BagToSet(authenticated) \subseteq Hmacs)'
      /\ (verified \subseteq [msg : Msgs, key : ChainKeys])'
      /\ (kept \in [Slots -> SUBSET Msgs])'
      /\ raced' \subseteq Handlers
  BY <1>2, NextMaps, NextVerified, NextKeptTypes DEF BagToSet, Msgs
<1>9. /\ (buffer \in [Senders -> SUBSET Msgs])'
      /\ (messageCounter \in 0..MaxMsgs)'
  BY NextBuffers DEF Msgs
<1>10. TypeOK'
  BY <1>1, <1>4, <1>5, <1>6, <1>7, <1>8, <1>9 DEF TypeOK
<1> QED
  BY <1>3, <1>7, <1>10 DEF TypeInv

LEMMA InitTypeInv == Init => TypeInv
<1> SUFFICES ASSUME Init PROVE TypeInv
  OBVIOUS
<1>1. /\ mode \in Modes
      /\ slot \in 1..MaxSlot[mode]
      /\ 0 \in Slots
      /\ MaxMsgs \in Nat
  BY ReceiverAssumption DEF Init, Slots
<1>2. BagToSet(air) = {} /\ BagToSet(authenticated) = {}
  BY DEF Init, EmptyBag, SetToBag, BagToSet
<1>3. Idle \in Locals /\ Works(Idle)
  <2>1. NoPacket \in Packets
    BY <1>1 DEF NoPacket, Packet, Packets
  <2> QED
    BY <1>1, <2>1 DEF Idle, Locals, Pcs, Works, Claiming, Opening
<1>4. handler \in [Handlers -> Locals] /\ HandlersGenuine
  BY <1>3 DEF Init, HandlersGenuine
<1>5. \A h \in Handlers :
        /\ handler[h].pc \in Pcs
        /\ handler[h].pkt \in Packets
        /\ handler[h].msgs \subseteq Msgs
        /\ handler[h].commitment \in ChainKeys \union {NoKey}
        /\ (handler[h].pc \in {"cache", "verify"}) => (handler[h].commitment # NoKey)
  BY <1>4 DEF Locals, HandlersGenuine, Works
<1>6. /\ starts \in [Senders -> Seq(Slots)]
      /\ StartsBounded
      /\ buffer \in [Senders -> SUBSET Msgs]
      /\ due = {}
      /\ messageCounter \in 0..MaxMsgs
      /\ receivedHMACs = {}
      /\ commitmentKeys \in [Senders -> ChainKeys \union {NoKey}]
      /\ unverifiedMsgs \in [Slots -> SUBSET Msgs]
      /\ kept \in [Slots -> SUBSET Msgs]
      /\ raced = {}
      /\ verified = {}
  BY <1>1 DEF Init, StartsBounded
<1>7. TypeOK
  BY <1>1, <1>2, <1>5, <1>6 DEF TypeOK
<1> QED
  BY <1>2, <1>4, <1>6, <1>7 DEF TypeInv, DueGenuine, AirGenuine

\* Every variable of the receiver, and of what the model has of the devices around it,
\* holds what its declaration says; above all no key packet is ever verified against the
\* empty commitment, whatever goroutines store over each other.
THEOREM ReceiverTypeOK == Spec => []TypeOK
<1>1. TypeInv => TypeOK
  BY DEF TypeInv
<1> QED
  BY <1>1, InitTypeInv, NextTypeInv, PTL DEF Spec

-----------------------------------------------------------------------------
(* Commitments.                                                              *)

\* The HMACs whose key has verified.
Authentic == BagToSet(authenticated)

\* What a key packet may be verified against: the first hash of a chain that the contract
\* named, or a key of such a chain that has authenticated.
Held(key, keys, hmacs) ==
    /\ key.idx \in 0..ChainLen
    /\ \E k \in keys : k.chain = key.chain
    /\ key.idx = 0 \/ \E a \in hmacs : a.key = key

HeldBy(l, keys, hmacs) == (l.pc \in {"cache", "verify"}) => Held(l.commitment, keys, hmacs)

HeldInv ==
    /\ \A p \in Senders :
          (commitmentKeys[p] # NoKey) => Held(commitmentKeys[p], fetched, Authentic)
    /\ \A h \in Handlers : HeldBy(handler[h], fetched, Authentic)

\* The key of the HMAC is what authenticates.
LEMMA Accepted ==
    ASSUME NEW h \in Handlers, Accept(h)
    PROVE  Authentic' = Authentic \union {Hmac(handler[h].pkt)}
<1> DEFINE new == Hmac(handler[h].pkt)
<1>1. authenticated' = authenticated (+) SetToBag({new})
  BY DEF Accept
<1>2. BagToSet(SetToBag({new})) = {new}
  BY DEF BagToSet, SetToBag
<1> HIDE DEF new
<1>3. BagToSet(authenticated') = BagToSet(authenticated) \union {new}
  BY <1>1, <1>2, BagAdd
<1> QED
  BY <1>3 DEF Authentic, BagToSet, new

\* And it is what authenticates, only: the bag grows.
LEMMA AuthenticSteps ==
    ASSUME [Next]_vars
    PROVE  \/ Authentic' = Authentic
           \/ \E h \in Handlers : Accept(h)
<1>1. ASSUME ~ \E h \in Handlers : Accept(h)
      PROVE  authenticated' = authenticated
  BY <1>1 DEF Next, vars, NewBlock, OtherDevices, Register, SendMessage, FlushBatch, Disclose,
      Cleanup, HandleMessage, HandleData, HandleHmac, HandleKey, LoadOrStoreMessages, AppendMessage,
      StoreMessages, LoadCommitment, GetKey, GetKeyFails, CacheCommitment, Reject, CheckBatch,
      DeleteMessages, historyVars
<1> QED
  BY <1>1 DEF Authentic, BagToSet

LEMMA HeldKept ==
    ASSUME [Next]_vars
    PROVE  /\ fetched \subseteq fetched'
           /\ Authentic \subseteq Authentic'
           /\ \A k : Held(k, fetched, Authentic) => Held(k, fetched', Authentic')
           /\ \A l : HeldBy(l, fetched, Authentic) => HeldBy(l, fetched', Authentic')
<1>1. fetched \subseteq fetched'
  BY DEF Next, vars, NewBlock, OtherDevices, Register, SendMessage, FlushBatch, Disclose,
      Cleanup, HandleMessage, HandleData, HandleHmac, HandleKey, LoadOrStoreMessages, AppendMessage,
      StoreMessages, LoadCommitment, GetKey, GetKeyFails, CacheCommitment, Reject, Accept,
      CheckBatch, DeleteMessages,
      historyVars
<1>2. Authentic \subseteq Authentic'
  BY AuthenticSteps, Accepted
<1>3. \A k : Held(k, fetched, Authentic) => Held(k, fetched', Authentic')
  BY <1>1, <1>2 DEF Held
<1> QED
  BY <1>1, <1>2, <1>3 DEF HeldBy

\* A key that verifies is on the chain of what it was verified against.
LEMMA ReachesSameChain ==
    ASSUME NEW key, NEW commitment, Reaches(key, commitment)
    PROVE  commitment.chain = key.chain
  BY DEF Reaches, HashTimes, KeyOf

\* A key at or above the commitment, on its chain, reaches it.
LEMMA ReachesBelow ==
    ASSUME NEW key \in ChainKeys, key.idx \in 1..ChainLen,
           NEW commitment \in ChainKeys, commitment.idx \in 0..ChainLen,
           commitment.chain = key.chain, commitment.idx <= key.idx
    PROVE  Reaches(key, commitment)
<1> DEFINE m == key.idx - commitment.idx
<1>1. m \in 0..(ChainLen + 1)
  BY ReceiverAssumption
<1>2. commitment = [chain |-> commitment.chain, idx |-> commitment.idx]
  BY DEF ChainKeys, Key
<1>3. key.idx - m = commitment.idx
  BY ReceiverAssumption
<1>4. HashTimes(key, m) = commitment
  BY <1>2, <1>3 DEF HashTimes, KeyOf
<1> QED
  BY <1>1, <1>4 DEF Reaches

LEMMA VerifyingKey ==
    ASSUME TypeInv, NEW h \in Handlers, handler[h].pc \in Claiming
    PROVE  /\ handler[h].pkt.key \in ChainKeys
           /\ handler[h].pkt.key.idx \in 1..ChainLen
           /\ handler[h].pkt.sender \in Senders
  BY DEF TypeInv, HandlersGenuine, Works, OnWire, Genuine

\* The entries of commitmentKeys.
LEMMA NextHeldKeys ==
    ASSUME TypeInv, HeldInv, [Next]_vars
    PROVE  \A p \in Senders :
              (commitmentKeys'[p] # NoKey) => Held(commitmentKeys'[p], fetched', Authentic')
<1> DEFINE Goal == \A p \in Senders :
                      (commitmentKeys'[p] # NoKey) => Held(commitmentKeys'[p], fetched', Authentic')
<1>0. commitmentKeys \in [Senders -> ChainKeys \union {NoKey}] /\ ChainLen \in Nat
  BY ReceiverAssumption DEF TypeInv, TypeOK
<1>1. CASE commitmentKeys' = commitmentKeys
  BY <1>1, HeldKept DEF HeldInv
<1>2. ASSUME NEW p \in Senders, NEW key, Held(key, fetched', Authentic'),
             commitmentKeys' = [commitmentKeys EXCEPT ![p] = key]
      PROVE  Goal
  <2>1. \A q \in Senders :
           (commitmentKeys[q] # NoKey) => Held(commitmentKeys[q], fetched', Authentic')
    BY HeldKept DEF HeldInv
  <2> QED
    BY <1>0, <1>2, <2>1
<1>3. ASSUME NEW h \in Handlers, CacheCommitment(h)
      PROVE  Goal
  <2>1. Held(handler[h].commitment, fetched, Authentic) /\ handler[h].pkt.sender \in Senders
    BY <1>3, VerifyingKey DEF HeldInv, HeldBy, CacheCommitment, Claiming
  <2>2. Held(handler[h].commitment, fetched', Authentic')
    BY <2>1, HeldKept
  <2> QED
    BY <1>2, <1>3, <2>1, <2>2 DEF CacheCommitment
<1>4. ASSUME NEW h \in Handlers, Accept(h)
      PROVE  Goal
  <2>1. /\ handler[h].pc \in Claiming
        /\ Held(handler[h].commitment, fetched, Authentic)
        /\ handler[h].commitment.chain = handler[h].pkt.key.chain
    BY <1>4, ReachesSameChain DEF HeldInv, HeldBy, Accept, Claiming
  <2>2. Held(handler[h].pkt.key, fetched', Authentic') /\ handler[h].pkt.sender \in Senders
    <3>1. \E a \in Authentic' : a.key = handler[h].pkt.key
      <4> DEFINE new == Hmac(handler[h].pkt)
      <4>1. new \in Authentic'
        BY <1>4, Accepted
      <4>2. new.key = handler[h].pkt.key
        BY DEF Hmac
      <4> QED
        BY <4>1, <4>2
    <3>2. handler[h].pkt.key.idx \in 0..ChainLen /\ handler[h].pkt.sender \in Senders
      BY <1>0, <2>1, VerifyingKey
    <3>3. \E k \in fetched' : k.chain = handler[h].pkt.key.chain
      BY <2>1, HeldKept DEF Held
    <3> QED
      BY <3>1, <3>2, <3>3 DEF Held
  <2> QED
    BY <1>2, <1>4, <2>2 DEF Accept
<1>5. ASSUME ~ \E h \in Handlers : CacheCommitment(h) \/ Accept(h)
      PROVE  commitmentKeys' = commitmentKeys
  BY <1>5 DEF Next, vars, NewBlock, OtherDevices, Register, SendMessage, FlushBatch, Disclose,
      Cleanup, HandleMessage, HandleData, HandleHmac, HandleKey, LoadOrStoreMessages, AppendMessage,
      StoreMessages, LoadCommitment, GetKey, GetKeyFails, Reject, CheckBatch, DeleteMessages,
      historyVars
<1> QED
  BY <1>1, <1>3, <1>4, <1>5

\* The commitments that goroutines hold.
LEMMA NextHeldBy ==
    ASSUME TypeInv, HeldInv, [Next]_vars
    PROVE  \A h \in Handlers : HeldBy(handler'[h], fetched', Authentic')
<1> DEFINE Goal == \A g \in Handlers : HeldBy(handler'[g], fetched', Authentic')
<1>0. handler \in [Handlers -> Locals] /\ \A l : HeldBy(l, fetched, Authentic) => HeldBy(l, fetched', Authentic')
  BY HeldKept DEF TypeInv
<1>1. CASE handler' = handler
  BY <1>0, <1>1 DEF HeldInv
<1>2. ASSUME NEW h \in Handlers, NEW l, HeldBy(l, fetched', Authentic'), Become(h, l)
      PROVE  Goal
  BY <1>0, <1>2, Moves DEF HeldInv
<1>3. ASSUME NEW l, l.pc \notin {"cache", "verify"}
      PROVE  HeldBy(l, fetched', Authentic')
  BY <1>3 DEF HeldBy
<1>4. ASSUME NEW h \in Handlers, HandleMessage(h)
      PROVE  Goal
  <2>0. handler[h] \in Locals
    BY <1>0
  <2>1. ASSUME NEW pkt, HandleData(h, pkt) \/ HandleHmac(h, pkt) \/ HandleKey(h, pkt)
        PROVE  Goal
    <3>1. CASE handler' = handler
      BY <1>1, <3>1
    <3>2. CASE Become(h, [Idle EXCEPT !.pc = "loadOrStore", !.pkt = pkt])
      <4>1. [Idle EXCEPT !.pc = "loadOrStore", !.pkt = pkt].pc \notin {"cache", "verify"}
        BY DEF Idle
      <4> QED
        BY <1>2, <1>3, <3>2, <4>1
    <3>3. CASE Become(h, [Idle EXCEPT !.pc = "load", !.pkt = pkt])
      <4>1. [Idle EXCEPT !.pc = "load", !.pkt = pkt].pc \notin {"cache", "verify"}
        BY DEF Idle
      <4> QED
        BY <1>2, <1>3, <3>3, <4>1
    <3> QED
      BY <2>1, <3>1, <3>2, <3>3 DEF HandleData, HandleHmac, HandleKey
  <2>2. ASSUME LoadOrStoreMessages(h)
        PROVE  Goal
    <3> DEFINE l == [handler[h] EXCEPT !.pc = "append", !.msgs = unverifiedMsgs[handler[h].pkt.slot]]
    <3>1. l.pc \notin {"cache", "verify"}
      BY <2>0 DEF Locals
    <3>2. Become(h, l)
      BY <2>2 DEF LoadOrStoreMessages
    <3> QED
      BY <1>2, <1>3, <3>1, <3>2
  <2>3. ASSUME Become(h, Idle)
        PROVE  Goal
    BY <1>2, <1>3, <2>3 DEF Idle
  <2>4. ASSUME LoadCommitment(h)
        PROVE  Goal
    <3> DEFINE cached == commitmentKeys[handler[h].pkt.sender]
               l == [handler[h] EXCEPT !.commitment = cached,
                                       !.pc = IF cached = NoKey THEN "getKey" ELSE "verify"]
    <3>1. handler[h].pkt.sender \in Senders
      BY <2>4, VerifyingKey DEF LoadCommitment, Claiming
    <3>2. (cached # NoKey) => Held(cached, fetched, Authentic)
      BY <3>1 DEF HeldInv
    <3>3. l.commitment = cached /\ ((l.pc \in {"cache", "verify"}) => (cached # NoKey))
      BY <2>0 DEF Locals
    <3>4. Become(h, l)
      BY <2>4 DEF LoadCommitment
    <3> HIDE DEF l, cached
    <3>5. HeldBy(l, fetched', Authentic')
      <4>1. HeldBy(l, fetched, Authentic)
        BY <3>2, <3>3 DEF HeldBy
      <4> QED
        BY <1>0, <4>1
    <3> QED
      BY <1>2, <3>4, <3>5
  <2>5. ASSUME GetKey(h)
        PROVE  Goal
    <3> DEFINE key == KeyOf(CurrentChain(handler[h].pkt.sender), 0)
               l == [handler[h] EXCEPT !.commitment = key, !.pc = "cache"]
    <3>1. key \in fetched' /\ Become(h, l)
      BY <2>5 DEF GetKey
    <3>2. key.idx = 0 /\ key.idx \in 0..ChainLen
      BY ReceiverAssumption DEF KeyOf
    <3>3. l.commitment = key
      BY <2>0 DEF Locals
    <3> HIDE DEF l, key
    <3>4. HeldBy(l, fetched', Authentic')
      BY <3>1, <3>2, <3>3 DEF HeldBy, Held
    <3> QED
      BY <1>2, <3>1, <3>4
  <2>6. ASSUME CacheCommitment(h)
        PROVE  Goal
    <3> DEFINE l == [handler[h] EXCEPT !.pc = "verify"]
    <3>1. Held(handler[h].commitment, fetched, Authentic) /\ l.commitment = handler[h].commitment
      BY <2>0, <2>6 DEF CacheCommitment, HeldInv, HeldBy, Locals
    <3>2. Become(h, l)
      BY <2>6 DEF CacheCommitment
    <3> HIDE DEF l
    <3>3. HeldBy(l, fetched', Authentic')
      <4>1. HeldBy(l, fetched, Authentic)
        BY <3>1 DEF HeldBy
      <4> QED
        BY <1>0, <4>1
    <3> QED
      BY <1>2, <3>2, <3>3
  <2>7. ASSUME Accept(h) \/ CheckBatch(h)
        PROVE  Goal
    <3>1. CASE Become(h, [handler[h] EXCEPT !.pc = "check"])
      BY <1>2, <1>3, <2>0, <3>1 DEF Locals
    <3>2. CASE Become(h, [handler[h] EXCEPT !.pc = "delete"])
      BY <1>2, <1>3, <2>0, <3>2 DEF Locals
    <3> QED
      BY <2>3, <2>7, <3>1, <3>2 DEF Accept, CheckBatch
  <2>8. ASSUME StoreMessages(h) \/ GetKeyFails(h) \/ Reject(h) \/ DeleteMessages(h)
        PROVE  Goal
    BY <2>3, <2>8 DEF StoreMessages, GetKeyFails, Reject, DeleteMessages
  <2>9. ASSUME AppendMessage(h)
        PROVE  Goal
    <3>1. unverifiedMsgs \in [Slots -> SUBSET Msgs]
      BY DEF TypeInv, TypeOK
    <3>2. ASSUME NEW g \in Handlers
          PROVE  handler'[g] = handler[g] \/ handler'[g].pc \in Appending
      BY <1>0, <2>9, <3>1, AppendFrame
    <3>3. \A g \in Handlers : HeldBy(handler[g], fetched', Authentic')
      BY <1>0 DEF HeldInv
    <3> QED
      BY <1>3, <3>2, <3>3 DEF Appending
  <2> QED
    BY <1>4, <2>1, <2>2, <2>4, <2>5, <2>6, <2>7, <2>8, <2>9 DEF HandleMessage
<1> QED
  BY <1>1, <1>4, HandlerFrame

LEMMA NextHeldInv == TypeInv /\ HeldInv /\ [Next]_vars => HeldInv'
  BY NextHeldKeys, NextHeldBy DEF HeldInv

LEMMA InitHeldInv == Init => HeldInv
  BY DEF Init, HeldInv, HeldBy, Idle

LEMMA NextAnchored ==
    ASSUME TypeInv, HeldInv, AnchoredInContract, [Next]_vars
    PROVE  AnchoredInContract'
<1>0. fetched \subseteq fetched'
  BY HeldKept
<1>1. CASE Authentic' = Authentic
  BY <1>0, <1>1 DEF AnchoredInContract, Authentic, BagToSet
<1>2. ASSUME NEW h \in Handlers, Accept(h)
      PROVE  AnchoredInContract'
  <2> DEFINE new == Hmac(handler[h].pkt)
  <2>1. \E k \in fetched : k.chain = new.key.chain
    BY <1>2, ReachesSameChain DEF HeldInv, HeldBy, Held, Accept, Hmac
  <2>2. Authentic' = Authentic \union {new}
    BY <1>2, Accepted
  <2> HIDE DEF new
  <2>3. BagToSet(authenticated)' = BagToSet(authenticated) \union {new}
    BY <2>2 DEF BagToSet, Authentic
  <2> QED
    BY <1>0, <2>1, <2>3 DEF AnchoredInContract
<1> QED
  BY <1>1, <1>2, AuthenticSteps

\* Why a key was turned down.
Overtaken(r, hmacs) ==
    (r.commitment # NoKey /\ r.commitment.chain = r.key.chain) =>
        /\ r.key.idx < r.commitment.idx
        /\ \E a \in hmacs : a.key = r.commitment

LEMMA NextRejected ==
    ASSUME TypeInv, HeldInv, RejectedOnlyOvertaken, [Next]_vars
    PROVE  RejectedOnlyOvertaken'
<1> DEFINE Goal == \A r \in rejected' : Overtaken(r, Authentic')
<1>0. \A r \in rejected : Overtaken(r, Authentic')
  <2>1. \A r \in rejected : Overtaken(r, Authentic)
    BY DEF RejectedOnlyOvertaken, Overtaken, Authentic
  <2>2. Authentic \subseteq Authentic'
    BY HeldKept
  <2> QED
    BY <2>1, <2>2 DEF Overtaken
<1>1. ASSUME rejected' = rejected
      PROVE  Goal
  BY <1>0, <1>1
<1>2. ASSUME NEW h \in Handlers, Reject(h)
      PROVE  Goal
  <2> DEFINE key == handler[h].pkt.key
             commitment == handler[h].commitment
  <2>1. /\ key \in ChainKeys /\ key.idx \in 1..ChainLen
        /\ commitment \in ChainKeys /\ Held(commitment, fetched, Authentic)
    BY <1>2, VerifyingKey DEF Reject, Claiming, HeldInv, HeldBy, TypeInv, TypeOK
  <2>2. ~Reaches(key, commitment)
    BY <1>2 DEF Reject
  <2>3. commitment.idx \in 0..ChainLen
    BY <2>1 DEF Held
  <2>4. (commitment.chain = key.chain) => ~(commitment.idx <= key.idx)
    BY <2>1, <2>2, <2>3, ReachesBelow
  <2>5. (commitment.chain = key.chain) => (key.idx < commitment.idx /\ commitment.idx # 0)
    BY <2>1, <2>3, <2>4, ReceiverAssumption
  <2>6. (commitment.idx # 0) => \E a \in Authentic' : a.key = commitment
    BY <2>1, HeldKept DEF Held
  <2>7. rejected' = rejected \union {[key |-> key, commitment |-> commitment]}
    BY <1>2 DEF Reject, Rejection
  <2> HIDE DEF key, commitment
  <2>8. Overtaken([key |-> key, commitment |-> commitment], Authentic')
    BY <2>5, <2>6 DEF Overtaken
  <2> QED
    BY <1>0, <2>7, <2>8
<1>3. ASSUME NEW h \in Handlers, GetKeyFails(h)
      PROVE  Goal
  <2>1. handler[h].commitment = NoKey
    BY <1>3 DEF GetKeyFails, TypeInv, HandlersGenuine, Works
  <2>2. rejected' = rejected \union {[key |-> handler[h].pkt.key, commitment |-> NoKey]}
    BY <1>3, <2>1 DEF GetKeyFails, Rejection
  <2>3. Overtaken([key |-> handler[h].pkt.key, commitment |-> NoKey], Authentic')
    BY DEF Overtaken
  <2> QED
    BY <1>0, <2>2, <2>3
<1>4. ASSUME ~ \E h \in Handlers : Reject(h) \/ GetKeyFails(h)
      PROVE  rejected' = rejected
  BY <1>4 DEF Next, vars, NewBlock, OtherDevices, Register, SendMessage, FlushBatch, Disclose,
      Cleanup, HandleMessage, HandleData, HandleHmac, HandleKey, LoadOrStoreMessages, AppendMessage,
      StoreMessages, LoadCommitment, GetKey, CacheCommitment, Accept, CheckBatch,
      DeleteMessages, historyVars
<1>5. Goal
  BY <1>1, <1>2, <1>3, <1>4
<1> QED
  BY <1>5 DEF RejectedOnlyOvertaken, Overtaken, Authentic, BagToSet

\* Every key that authenticates is on a chain the contract gave this receiver, for any
\* number of devices, chains and goroutines that store over each other's commitments.
THEOREM ReceiverAnchoredInContract == Spec => []AnchoredInContract
<1>1. Init => AnchoredInContract
  BY DEF Init, AnchoredInContract, EmptyBag, SetToBag, BagToSet
<1>2. TypeInv /\ HeldInv /\ AnchoredInContract /\ [Next]_vars => AnchoredInContract'
  BY NextAnchored
<1> QED
  BY <1>1, <1>2, InitTypeInv, NextTypeInv, InitHeldInv, NextHeldInv, PTL DEF Spec

\* A genuine key that is turned down with a commitment of its own chain at hand is behind
\* that commitment, which is then a key that authenticated: the hashes that are tried are
\* enough for any number of lost keys, whatever goroutines store over each other's
\* commitments.
THEOREM ReceiverRejectedOnlyOvertaken == Spec => []RejectedOnlyOvertaken
<1>1. Init => RejectedOnlyOvertaken
  BY DEF Init, RejectedOnlyOvertaken
<1>2. TypeInv /\ HeldInv /\ RejectedOnlyOvertaken /\ [Next]_vars => RejectedOnlyOvertaken'
  BY NextRejected
<1> QED
  BY <1>1, <1>2, InitTypeInv, NextTypeInv, InitHeldInv, NextHeldInv, PTL DEF Spec

-----------------------------------------------------------------------------
(* What is stored.                                                           *)

\* A goroutine on its way from load to store has loaded what is kept, and knows of every
\* other one that has; what it appended without a race is still in its list.
Holds(h) ==
    (handler[h].pc \in Appending) =>
        /\ ~Expired(handler[h].pkt.slot) => kept[handler[h].pkt.slot] \subseteq handler[h].msgs
        /\ (Others(h) # {}) => h \in raced
        /\ (handler[h].pc = "store" /\ h \notin raced) => Arrived(h) \subseteq handler[h].msgs

KeptInv ==
    /\ KeptUntilOpened
    /\ \A h \in Handlers : Holds(h)

LEMMA StaysExpired ==
    ASSUME TypeInv, [Next]_vars, NEW s \in Slots, Expired(s)
    PROVE  Expired(s)'
<1>1. mode' = mode /\ slot <= slot' /\ slot' \in Nat
  BY ModeKept, ReceiverAssumption DEF TypeInv, TypeOK
<1>2. /\ s \in Nat /\ slot \in Nat /\ DisclosureDelay \in Nat /\ Retention[mode] \in Nat
  BY ReceiverAssumption DEF TypeInv, TypeOK, Slots
<1> QED
  BY <1>1, <1>2 DEF Expired

\* A step that takes no goroutine into a store, out of one or further in one, and drops
\* from a list nothing but what is dropped from kept, or is expired.
LEMMA KeptElsewhere ==
    ASSUME TypeInv, KeptInv, [Next]_vars,
           UNCHANGED raced,
           \A s \in Slots : /\ kept'[s] \subseteq kept[s]
                            /\ Expired(s) \/ kept'[s] = {} \/ unverifiedMsgs'[s] = unverifiedMsgs[s],
           \A g \in Handlers : \/ handler'[g] = handler[g]
                               \/ handler[g].pc \notin Appending /\ handler'[g].pc \notin Appending
    PROVE  KeptInv'
<1>1. Slots' = Slots
  BY ModeKept, TypesKept
<1>2. \A s \in Slots : ~Expired(s)' => ~Expired(s)
  BY StaysExpired
<1>3. KeptUntilOpened'
  BY <1>1, <1>2 DEF KeptInv, KeptUntilOpened
<1>4. ASSUME NEW h \in Handlers, handler'[h].pc \in Appending
      PROVE  Holds(h)'
  <2>1. handler'[h] = handler[h] /\ handler[h].pc \in Appending /\ Holds(h)
    BY <1>4 DEF KeptInv
  <2>2. Others(h)' = Others(h) /\ Arrived(h)' = Arrived(h)
    <3>1. Others(h)' = {g \in Handlers \ {h} : handler'[g].pc \in Appending
                                               /\ handler'[g].pkt.slot = handler'[h].pkt.slot}
      BY DEF Others
    <3>2. Arrived(h)' = Arrived(h)
      BY <2>1 DEF Arrived
    <3> QED
      BY <2>1, <3>1, <3>2 DEF Others
  <2>3. handler[h].pkt.slot \in Slots
    BY DEF TypeInv, Locals, Packets
  <2>4. ~Expired(handler[h].pkt.slot)' => ~Expired(handler[h].pkt.slot)
    BY <1>2, <2>1, <2>3 DEF Expired
  <2> QED
    BY <2>1, <2>2, <2>3, <2>4 DEF Holds
<1>5. \A h \in Handlers : Holds(h)'
  BY <1>4 DEF Holds
<1> QED
  BY <1>3, <1>5 DEF KeptInv

\* The goroutines at work on a slot's list are those that were, but for h.
LEMMA OthersMove ==
    ASSUME handler \in [Handlers -> Locals], NEW h \in Handlers, NEW l, Become(h, l)
    PROVE  /\ handler'[h] = l
           /\ \A g \in Handlers \ {h} : /\ handler'[g] = handler[g]
                                        /\ Arrived(g)' = Arrived(g)
                                        /\ Others(g)' \subseteq Others(g) \union {h}
           /\ (l.pkt = handler[h].pkt) => Others(h)' = Others(h)
<1>1. handler'[h] = l /\ \A g \in Handlers \ {h} : handler'[g] = handler[g]
  BY Moves
<1>2. \A g \in Handlers : Others(g)' = {f \in Handlers \ {g} : handler'[f].pc \in Appending
                                                  /\ handler'[f].pkt.slot = handler'[g].pkt.slot}
  BY DEF Others
<1>3. \A g \in Handlers \ {h} : Arrived(g)' = Arrived(g)
  BY <1>1 DEF Arrived
<1> QED
  BY <1>1, <1>2, <1>3 DEF Others

LEMMA LoadKeeps ==
    ASSUME TypeInv, KeptInv, NEW h \in Handlers, LoadOrStoreMessages(h)
    PROVE  KeptInv'
<1> DEFINE s == handler[h].pkt.slot
           l == [handler[h] EXCEPT !.pc = "append", !.msgs = unverifiedMsgs[s]]
<1>0. handler \in [Handlers -> Locals] /\ handler[h] \in Locals /\ s \in Slots
  BY DEF TypeInv, Locals, Packets
<1>1. /\ UNCHANGED <<mode, slot, unverifiedMsgs, kept>>
      /\ raced' = IF Others(h) = {} THEN raced ELSE raced \union Others(h) \union {h}
      /\ Become(h, l)
  BY DEF LoadOrStoreMessages
<1>2. /\ l.pc = "append" /\ l.pkt = handler[h].pkt /\ l.msgs = unverifiedMsgs[s]
  BY <1>0 DEF Locals
<1> HIDE DEF l
<1>3. \A r : Expired(r)' <=> Expired(r)
  BY <1>1 DEF Expired
<1>4. KeptUntilOpened'
  BY <1>1, <1>3 DEF KeptInv, KeptUntilOpened, Slots
<1>5. Holds(h)'
  <2>1. handler'[h] = l /\ Others(h)' = Others(h)
    BY <1>0, <1>1, <1>2, OthersMove
  <2>2. ~Expired(s) => kept[s] \subseteq unverifiedMsgs[s]
    BY <1>0 DEF KeptInv, KeptUntilOpened
  <2> QED
    BY <1>1, <1>2, <1>3, <2>1, <2>2 DEF Holds
<1>6. ASSUME NEW g \in Handlers \ {h}, handler'[g].pc \in Appending
      PROVE  Holds(g)'
  <2>1. /\ handler'[g] = handler[g]
        /\ Arrived(g)' = Arrived(g)
        /\ Others(g)' \subseteq Others(g) \union {h}
    BY <1>0, <1>1, OthersMove
  <2>2. Holds(g) /\ handler[g].pc \in Appending
    BY <1>6, <2>1 DEF KeptInv
  <2>3. (Others(g)' # {}) => g \in raced'
    <3>1. CASE Others(g) # {}
      BY <1>1, <2>2, <3>1 DEF Holds
    <3>2. CASE h \in Others(g)'
      <4>1. handler'[h].pkt.slot = handler'[g].pkt.slot
        BY <3>2 DEF Others
      <4>2. handler[g].pkt.slot = s
        <5>1. handler'[h] = l
          BY <1>0, <1>1, OthersMove
        <5> QED
          BY <1>2, <2>1, <4>1, <5>1
      <4>3. g \in Others(h)
        BY <2>2, <4>2 DEF Others
      <4> QED
        BY <1>1, <4>3
    <3> QED
      BY <2>1, <3>1, <3>2
  <2>4. raced \subseteq raced'
    BY <1>1
  <2> QED
    BY <1>1, <1>3, <2>1, <2>2, <2>3, <2>4 DEF Holds
<1> QED
  <2>1. \A g \in Handlers : Holds(g)'
    BY <1>5, <1>6 DEF Holds
  <2> QED
    BY <1>4, <2>1 DEF KeptInv

LEMMA AppendKeeps ==
    ASSUME TypeInv, KeptInv, NEW h \in Handlers, AppendMessage(h)
    PROVE  KeptInv'
<1> DEFINE s == handler[h].pkt.slot
<1>0. /\ handler \in [Handlers -> Locals]
      /\ unverifiedMsgs \in [Slots -> SUBSET Msgs]
      /\ \A g \in Handlers : handler[g] \in Locals
  BY DEF TypeInv, TypeOK
<1>1. UNCHANGED <<mode, slot, raced, kept>>
  BY DEF AppendMessage
<1>2. handler[h].pc = "append" /\ s \in Slots
  BY <1>0, AppendSteps
<1>3. (\A r : Expired(r)' <=> Expired(r)) /\ Slots' = Slots
  BY <1>1 DEF Expired, Slots
<1>4. ~Expired(s) => kept[s] \subseteq handler[h].msgs
  BY <1>2 DEF KeptInv, Holds, Appending
<1>5. ASSUME NEW r \in Slots, ~Expired(r)
      PROVE  kept[r] \subseteq unverifiedMsgs'[r]
  <2>1. PICK msgs \in SUBSET Msgs : /\ unverifiedMsgs' = [unverifiedMsgs EXCEPT ![s] = msgs]
                                      /\ Rewritten(h, unverifiedMsgs[s], msgs)
    BY <1>0, AppendSteps
  <2>2. kept[r] \subseteq unverifiedMsgs[r]
    BY <1>5 DEF KeptInv, KeptUntilOpened
  <2>3. CASE r = s
    BY <1>0, <1>2, <1>4, <1>5, <2>1, <2>2, <2>3 DEF Rewritten
  <2>4. CASE r # s
    BY <1>0, <1>2, <2>1, <2>2, <2>4
  <2> QED
    BY <2>3, <2>4
<1>6. KeptUntilOpened'
  BY <1>1, <1>3, <1>5 DEF KeptUntilOpened
<1>7. ASSUME NEW g \in Handlers
      PROVE  Others(g)' = Others(g) /\ Arrived(g)' = Arrived(g)
  <2>1. \A f \in Handlers : /\ handler'[f].pkt = handler[f].pkt
                            /\ handler'[f].pc \in Appending <=> handler[f].pc \in Appending
    BY <1>0, <1>2, AppendFrame DEF Appending
  <2>2. Others(g)' = {f \in Handlers \ {g} : handler'[f].pc \in Appending
                                             /\ handler'[f].pkt.slot = handler'[g].pkt.slot}
    BY DEF Others
  <2> QED
    BY <2>1, <2>2 DEF Others, Arrived
<1>8. Holds(h)'
  <2>1. /\ handler'[h] = [handler[h] EXCEPT !.pc = "store", !.msgs = @ \union Arrived(h)]
        /\ Holds(h)
    BY <1>0, AppendSteps DEF KeptInv
  <2>2. handler'[h].msgs = handler[h].msgs \union Arrived(h) /\ handler'[h].pkt = handler[h].pkt
    BY <1>0, <2>1 DEF Locals
  <2> QED
    BY <1>1, <1>2, <1>3, <1>4, <1>7, <2>1, <2>2 DEF Holds, Appending
<1>9. ASSUME NEW g \in Handlers \ {h}
      PROVE  Holds(g)'
  <2>1. Holds(g)
    BY DEF KeptInv
  <2>2. CASE handler'[g] = handler[g]
    BY <1>1, <1>3, <1>7, <2>1, <2>2 DEF Holds
  <2>3. CASE handler'[g] # handler[g]
    <3>1. PICK msgs : /\ g \in Others(h)
                      /\ handler'[g] = [handler[g] EXCEPT !.msgs = msgs]
                      /\ Rewritten(h, handler[g].msgs, msgs)
      BY <1>0, <2>3, AppendSteps
    <3>2. handler'[g].msgs = msgs /\ handler'[g].pkt = handler[g].pkt /\ handler'[g].pc = handler[g].pc
      BY <1>0, <3>1 DEF Locals
    <3>3. handler[g].pc \in Appending /\ handler[g].pkt.slot = s
      BY <3>1 DEF Others
    <3>4. g \in raced
      <4>1. h \in Others(g)
        BY <1>2, <3>3 DEF Others, Appending
      <4> QED
        BY <2>1, <3>3, <4>1 DEF Holds
    <3>5. ~Expired(s) => kept[s] \subseteq msgs
      BY <1>4, <2>1, <3>1, <3>3 DEF Holds, Rewritten
    <3> QED
      BY <1>1, <1>3, <3>2, <3>3, <3>4, <3>5 DEF Holds
  <2> QED
    BY <2>2, <2>3
<1> QED
  <2>1. \A g \in Handlers : Holds(g)'
    BY <1>8, <1>9
  <2> QED
    BY <1>6, <2>1 DEF KeptInv

LEMMA StoreKeeps ==
    ASSUME TypeInv, KeptInv, NEW h \in Handlers, StoreMessages(h)
    PROVE  KeptInv'
<1> DEFINE s == handler[h].pkt.slot
<1>0. /\ handler \in [Handlers -> Locals]
      /\ unverifiedMsgs \in [Slots -> SUBSET Msgs] /\ kept \in [Slots -> SUBSET Msgs]
      /\ s \in Slots
  BY DEF TypeInv, TypeOK, Locals, Packets
<1>1. /\ UNCHANGED <<mode, slot>>
      /\ handler[h].pc = "store"
      /\ unverifiedMsgs' = [unverifiedMsgs EXCEPT ![s] = handler[h].msgs]
      /\ kept' = IF h \in raced THEN kept ELSE [kept EXCEPT ![s] = @ \union Arrived(h)]
      /\ raced' = raced \ {h}
      /\ Become(h, Idle)
  BY DEF StoreMessages
<1>2. (\A r : Expired(r)' <=> Expired(r)) /\ Slots' = Slots
  BY <1>1 DEF Expired, Slots
<1>3. Holds(h)
  BY DEF KeptInv
<1>4. ASSUME NEW r \in Slots, ~Expired(r)
      PROVE  kept'[r] \subseteq unverifiedMsgs'[r]
  <2>1. kept[r] \subseteq unverifiedMsgs[r]
    BY <1>4 DEF KeptInv, KeptUntilOpened
  <2>2. CASE r # s
    BY <1>0, <1>1, <2>1, <2>2
  <2>3. CASE r = s
    <3>1. unverifiedMsgs'[s] = handler[h].msgs
      BY <1>0, <1>1
    <3>2. kept[s] \subseteq handler[h].msgs
      BY <1>1, <1>3, <1>4, <2>3 DEF Holds, Appending
    <3>3. CASE h \in raced
      BY <1>1, <2>3, <3>1, <3>2, <3>3
    <3>4. CASE h \notin raced
      <4>1. Arrived(h) \subseteq handler[h].msgs
        BY <1>1, <1>3, <3>4 DEF Holds, Appending
      <4>2. kept'[s] = kept[s] \union Arrived(h)
        BY <1>0, <1>1, <3>4
      <4> QED
        BY <2>3, <3>1, <3>2, <4>1, <4>2
    <3> QED
      BY <3>3, <3>4
  <2> QED
    BY <2>2, <2>3
<1>5. KeptUntilOpened'
  BY <1>2, <1>4 DEF KeptUntilOpened
<1>6. handler'[h] = Idle /\ Idle.pc \notin Appending
  BY <1>0, <1>1, Moves DEF Idle, Appending
<1>7. ASSUME NEW g \in Handlers \ {h}, handler'[g].pc \in Appending
      PROVE  Holds(g)'
  <2>1. /\ handler'[g] = handler[g]
        /\ Arrived(g)' = Arrived(g)
        /\ Others(g)' \subseteq Others(g) \union {h}
    BY <1>0, <1>1, OthersMove
  <2>2. Holds(g) /\ handler[g].pc \in Appending
    BY <1>7, <2>1 DEF KeptInv
  <2>3. h \notin Others(g)'
    <3>1. h \in Others(g)' => handler'[h].pc \in Appending
      BY DEF Others
    <3> QED
      BY <1>6, <3>1
  <2>4. kept'[handler[g].pkt.slot] = kept[handler[g].pkt.slot]
    <3>1. CASE handler[g].pkt.slot = s
      <4>1. g \in Others(h)
        BY <2>2, <3>1 DEF Others
      <4>2. h \in raced
        BY <1>1, <1>3, <4>1 DEF Holds, Appending
      <4> QED
        BY <1>1, <4>2
    <3>2. CASE handler[g].pkt.slot # s
      BY <1>0, <1>1, <3>2
    <3> QED
      BY <3>1, <3>2
  <2> QED
    BY <1>1, <1>2, <2>1, <2>2, <2>3, <2>4 DEF Holds
<1> QED
  <2>1. \A g \in Handlers : Holds(g)'
    BY <1>6, <1>7 DEF Holds
  <2> QED
    BY <1>5, <2>1 DEF KeptInv

\* Of a goroutine, the other steps neither begin a store nor end one.
LEMMA StoresNothing ==
    ASSUME TypeInv, NEW h \in Handlers,
           \/ \E pkt \in BagToSet(air) : \/ HandleData(h, pkt) \/ HandleHmac(h, pkt)
                                         \/ HandleKey(h, pkt)
           \/ LoadCommitment(h) \/ GetKey(h) \/ GetKeyFails(h) \/ CacheCommitment(h)
           \/ Reject(h) \/ Accept(h) \/ CheckBatch(h)
    PROVE  /\ UNCHANGED storeVars
           /\ \A g \in Handlers : \/ handler'[g] = handler[g]
                                  \/ handler[g].pc \notin Appending /\ handler'[g].pc \notin Appending
<1>0. handler \in [Handlers -> Locals] /\ handler[h] \in Locals
  BY DEF TypeInv
<1>1. ASSUME NEW l, Become(h, l), handler[h].pc \notin Appending, l.pc \notin Appending
      PROVE  \A g \in Handlers : \/ handler'[g] = handler[g]
                                 \/ handler[g].pc \notin Appending /\ handler'[g].pc \notin Appending
  BY <1>0, <1>1, Moves
<1>2. UNCHANGED storeVars
  BY DEF HandleData, HandleHmac, HandleKey, LoadCommitment, GetKey, GetKeyFails, CacheCommitment,
      Reject, Accept, CheckBatch
<1> SUFFICES \A g \in Handlers :
                 \/ handler'[g] = handler[g]
                 \/ handler[g].pc \notin Appending /\ handler'[g].pc \notin Appending
  BY <1>2
<1>3. CASE \E pkt \in BagToSet(air) : HandleData(h, pkt)
  <2>1. PICK pkt \in BagToSet(air) : HandleData(h, pkt)
    BY <1>3
  <2> DEFINE l == [Idle EXCEPT !.pc = "loadOrStore", !.pkt = pkt]
  <2>2. l.pc \notin Appending /\ handler[h].pc \notin Appending
    BY <2>1 DEF Idle, Appending, HandleData, Takes
  <2>3. handler' = handler \/ Become(h, l)
    BY <2>1 DEF HandleData
  <2> HIDE DEF l
  <2> QED
    BY <1>1, <2>2, <2>3
<1>4. CASE \E pkt \in BagToSet(air) : HandleHmac(h, pkt)
  BY <1>4 DEF HandleHmac
<1>5. CASE \E pkt \in BagToSet(air) : HandleKey(h, pkt)
  <2>1. PICK pkt \in BagToSet(air) : HandleKey(h, pkt)
    BY <1>5
  <2> DEFINE l == [Idle EXCEPT !.pc = "load", !.pkt = pkt]
  <2>2. l.pc \notin Appending /\ handler[h].pc \notin Appending
    BY <2>1 DEF Idle, Appending, HandleKey, Takes
  <2>3. handler' = handler \/ Become(h, l)
    BY <2>1 DEF HandleKey
  <2> HIDE DEF l
  <2> QED
    BY <1>1, <2>2, <2>3
<1>6. CASE GetKeyFails(h) \/ Reject(h)
  BY <1>1, <1>6 DEF GetKeyFails, Reject, Idle, Appending
<1>7. CASE LoadCommitment(h)
  <2> DEFINE cached == commitmentKeys[handler[h].pkt.sender]
             l == [handler[h] EXCEPT !.commitment = cached,
                                     !.pc = IF cached = NoKey THEN "getKey" ELSE "verify"]
  <2>1. Become(h, l) /\ l.pc \notin Appending /\ handler[h].pc \notin Appending
    BY <1>0, <1>7 DEF LoadCommitment, Locals, Appending
  <2> HIDE DEF l
  <2> QED
    BY <1>1, <2>1
<1>8. CASE GetKey(h)
  <2> DEFINE l == [handler[h] EXCEPT !.commitment = KeyOf(CurrentChain(handler[h].pkt.sender), 0),
                                     !.pc = "cache"]
  <2>1. Become(h, l) /\ l.pc \notin Appending /\ handler[h].pc \notin Appending
    BY <1>0, <1>8 DEF GetKey, Locals, Appending
  <2> HIDE DEF l
  <2> QED
    BY <1>1, <2>1
<1>9. CASE CacheCommitment(h)
  <2> DEFINE l == [handler[h] EXCEPT !.pc = "verify"]
  <2>1. Become(h, l) /\ l.pc \notin Appending /\ handler[h].pc \notin Appending
    BY <1>0, <1>9 DEF CacheCommitment, Locals, Appending
  <2> HIDE DEF l
  <2> QED
    BY <1>1, <2>1
<1>10. CASE Accept(h)
  <2> DEFINE l == IF Probabilistic THEN [handler[h] EXCEPT !.pc = "check"] ELSE Idle
  <2>1. Become(h, l) /\ handler[h].pc \notin Appending
    BY <1>10 DEF Accept, Appending
  <2>2. l.pc \notin Appending
    BY <1>0 DEF Idle, Locals, Appending
  <2> HIDE DEF l
  <2> QED
    BY <1>1, <2>1, <2>2
<1>11. CASE CheckBatch(h)
  <2> DEFINE l == [handler[h] EXCEPT !.pc = "delete"]
  <2>1. Become(h, l) /\ l.pc \notin Appending /\ handler[h].pc \notin Appending
    BY <1>0, <1>11 DEF CheckBatch, Locals, Appending
  <2> HIDE DEF l
  <2> QED
    BY <1>1, <2>1
<1> QED
  BY <1>3, <1>4, <1>5, <1>6, <1>7, <1>8, <1>9, <1>10, <1>11

LEMMA DeleteKeeps ==
    ASSUME TypeInv, KeptInv, [Next]_vars, NEW h \in Handlers, DeleteMessages(h)
    PROVE  KeptInv'
<1> DEFINE s == TargetOf(handler[h].pkt)
<1>1. /\ handler \in [Handlers -> Locals]
      /\ unverifiedMsgs \in [Slots -> SUBSET Msgs] /\ kept \in [Slots -> SUBSET Msgs]
  BY DEF TypeInv, TypeOK
<1>2. /\ unverifiedMsgs' = [unverifiedMsgs EXCEPT ![s] = {}]
      /\ kept' = [kept EXCEPT ![s] = {}]
      /\ raced' = raced
      /\ Become(h, Idle)
      /\ handler[h].pc \notin Appending
      /\ Idle.pc \notin Appending
  BY DEF DeleteMessages, Idle, Appending
<1> HIDE DEF s
<1>3. ASSUME NEW r \in Slots
      PROVE  /\ kept'[r] \subseteq kept[r]
             /\ kept'[r] = {} \/ unverifiedMsgs'[r] = unverifiedMsgs[r]
  BY <1>1, <1>2
<1>4. \A g \in Handlers : \/ handler'[g] = handler[g]
                          \/ handler[g].pc \notin Appending /\ handler'[g].pc \notin Appending
  BY <1>1, <1>2, Moves
<1> QED
  BY <1>2, <1>3, <1>4, KeptElsewhere

LEMMA NextKeptInv == TypeInv /\ KeptInv /\ [Next]_vars => KeptInv'
<1> SUFFICES ASSUME TypeInv, KeptInv, [Next]_vars PROVE KeptInv'
  OBVIOUS
<1>1. ASSUME NEW h \in Handlers, HandleMessage(h)
      PROVE  KeptInv'
  <2>1. CASE LoadOrStoreMessages(h)
    BY <2>1, LoadKeeps
  <2>2. CASE AppendMessage(h)
    BY <2>2, AppendKeeps
  <2>3. CASE StoreMessages(h)
    BY <2>3, StoreKeeps
  <2>4. CASE DeleteMessages(h)
    BY <2>4, DeleteKeeps
  <2>5. CASE \/ \E pkt \in BagToSet(air) : HandleData(h, pkt) \/ HandleHmac(h, pkt) \/ HandleKey(h, pkt)
             \/ LoadCommitment(h) \/ GetKey(h) \/ GetKeyFails(h) \/ CacheCommitment(h)
             \/ Reject(h) \/ Accept(h) \/ CheckBatch(h)
    <3>1. UNCHANGED <<unverifiedMsgs, raced, kept>>
      BY <2>5, StoresNothing DEF storeVars
    <3>2. \A g \in Handlers : \/ handler'[g] = handler[g]
                              \/ handler[g].pc \notin Appending /\ handler'[g].pc \notin Appending
      BY <2>5, StoresNothing
    <3> QED
      BY <3>1, <3>2, KeptElsewhere
  <2> QED
    BY <1>1, <2>1, <2>2, <2>3, <2>4, <2>5 DEF HandleMessage
<1>2. ASSUME NEW s \in Slots, Cleanup(s)
      PROVE  KeptInv'
  <2>1. unverifiedMsgs \in [Slots -> SUBSET Msgs]
    BY DEF TypeInv, TypeOK
  <2>2. \A r \in Slots : /\ kept'[r] \subseteq kept[r]
                         /\ Expired(r) \/ unverifiedMsgs'[r] = unverifiedMsgs[r]
    BY <1>2, <2>1 DEF Cleanup
  <2>3. UNCHANGED <<raced, handler>>
    BY <1>2 DEF Cleanup
  <2> QED
    BY <2>2, <2>3, KeptElsewhere
<1>3. ASSUME UNCHANGED vars \/ NewBlock \/ OtherDevices
      PROVE  KeptInv'
  <2>1. UNCHANGED <<unverifiedMsgs, raced, kept, handler>>
    BY <1>3 DEF vars, storeVars, NewBlock, OtherDevices, Register, SendMessage, FlushBatch, Disclose
  <2> QED
    BY <2>1, KeptElsewhere
<1> QED
  BY <1>1, <1>2, <1>3 DEF Next

LEMMA InitKeptInv == Init => KeptInv
<1> SUFFICES ASSUME Init PROVE KeptInv
  OBVIOUS
<1>1. KeptUntilOpened
  BY DEF Init, KeptUntilOpened, Slots
<1>2. \A h \in Handlers : Holds(h)
  BY DEF Init, Holds, Idle, Appending
<1> QED
  BY <1>1, <1>2 DEF KeptInv

\* What one goroutine stored for a slot, with no other on its way from load to store there,
\* stays until a batch of the slot is opened or the list expires: the goroutines that come
\* after it may race each other and lose messages of theirs, but not that one.
THEOREM ReceiverKeptUntilOpened == Spec => []KeptUntilOpened
<1>1. KeptInv => KeptUntilOpened
  BY DEF KeptInv
<1> QED
  BY <1>1, InitTypeInv, NextTypeInv, InitKeptInv, NextKeptInv, PTL DEF Spec

-----------------------------------------------------------------------------
(* HMACs.                                                                    *)

Counts(B) == \A x \in BagToSet(B) : B[x] \in Nat \ {0}

LEMMA TimesAdd ==
    ASSUME NEW B, Counts(B), NEW y
    PROVE  /\ Counts(B (+) SetToBag({y}))
           /\ \A x : Times(B (+) SetToBag({y}), x) = Times(B, x) + (IF x = y THEN 1 ELSE 0)
<1> DEFINE one == SetToBag({y})
           sum == B (+) one
<1>1. BagToSet(one) = {y} /\ one[y] = 1
  BY DEF BagToSet, SetToBag
<1>2. BagToSet(sum) = BagToSet(B) \union {y}
  BY <1>1, BagAdd
<1> HIDE DEF one
<1>3. sum = [e \in BagToSet(B) \union {y} |->
                (IF e \in BagToSet(B) THEN B[e] ELSE 0) + (IF e \in {y} THEN one[e] ELSE 0)]
  BY <1>1 DEF (+), BagToSet
<1>4. ASSUME NEW x \in BagToSet(B) \union {y}
      PROVE  sum[x] = (IF x \in BagToSet(B) THEN B[x] ELSE 0) + (IF x = y THEN 1 ELSE 0)
  BY <1>1, <1>3
<1> HIDE DEF sum
<1>5. ASSUME NEW x
      PROVE  Times(sum, x) = Times(B, x) + (IF x = y THEN 1 ELSE 0)
  BY <1>2, <1>4 DEF Times, Counts
<1>6. Counts(sum)
  BY <1>2, <1>4 DEF Counts
<1> QED
  BY <1>5, <1>6 DEF one, sum

LEMMA TimesNat ==
    ASSUME NEW B, Counts(B), NEW x
    PROVE  Times(B, x) \in Nat
  BY DEF Times, Counts

\* The goroutines that have taken an HMAC out and may authenticate it yet.
Claims(l, x) == l.pc \in Claiming /\ Hmac(l.pkt) = x
Claimants(x) == {h \in Handlers : Claims(handler[h], x)}
Waits(x) == IF x \in receivedHMACs THEN 1 ELSE 0

\* Each time an HMAC was heard is good for one goroutine.
Budget(x) ==
    /\ IsFiniteSet(Claimants(x))
    /\ Times(authenticated, x) + Cardinality(Claimants(x)) + Waits(x) <= Times(heard, x)

HmacInv ==
    /\ Counts(heard)
    /\ Counts(authenticated)
    /\ \A x : Budget(x)

LEMMA ClaimantsMove ==
    ASSUME handler \in [Handlers -> Locals], NEW h \in Handlers, NEW l, Become(h, l), NEW x
    PROVE  Claimants(x)' = IF Claims(l, x) THEN Claimants(x) \union {h} ELSE Claimants(x) \ {h}
<1>1. /\ handler'[h] = l
      /\ \A g \in Handlers \ {h} : handler'[g] = handler[g]
  BY Moves
<1>2. Claimants(x)' = {g \in Handlers : Claims(handler'[g], x)}
  BY DEF Claimants, Claims, Hmac
<1> QED
  BY <1>1, <1>2 DEF Claimants

\* A goroutine claims once more, or gives up its claim.
LEMMA ClaimantsCount ==
    ASSUME NEW S, IsFiniteSet(S), NEW h
    PROVE  /\ IsFiniteSet(S \union {h}) /\ IsFiniteSet(S \ {h})
           /\ Cardinality(S) \in Nat
           /\ Cardinality(S \union {h}) <= Cardinality(S) + 1
           /\ Cardinality(S \ {h}) <= Cardinality(S)
           /\ (h \in S) => (Cardinality(S \ {h}) = Cardinality(S) - 1)
           /\ (h \in S) => (S \union {h} = S)
           /\ (h \notin S) => (S \ {h} = S)
<1>1. Cardinality(S) \in Nat
  BY FS_CardinalityType
<1> DEFINE more == S \union {h}
           less == S \ {h}
<1>2. CASE h \in S
  <2>1. more = S
    BY <1>2
  <2>2. IsFiniteSet(less) /\ Cardinality(less) = Cardinality(S) - 1
    BY <1>2, FS_RemoveElement
  <2> HIDE DEF more, less
  <2>3. /\ IsFiniteSet(more) /\ IsFiniteSet(less)
        /\ Cardinality(more) <= Cardinality(S) + 1
        /\ Cardinality(less) <= Cardinality(S)
    BY <1>1, <2>1, <2>2
  <2> QED
    BY <1>1, <1>2, <2>1, <2>2, <2>3 DEF more, less
<1>3. CASE h \notin S
  <2>1. less = S
    BY <1>3
  <2>2. IsFiniteSet(more) /\ Cardinality(more) = Cardinality(S) + 1
    BY <1>3, FS_AddElement
  <2> HIDE DEF more, less
  <2>3. /\ IsFiniteSet(more) /\ IsFiniteSet(less)
        /\ Cardinality(more) <= Cardinality(S) + 1
        /\ Cardinality(less) <= Cardinality(S)
    BY <1>1, <2>1, <2>2
  <2> QED
    BY <1>1, <1>3, <2>1, <2>2, <2>3 DEF more, less
<1> QED
  BY <1>2, <1>3

\* Steps that leave the accounts of every HMAC alone.
LEMMA BudgetKept ==
    ASSUME HmacInv, UNCHANGED <<heard, authenticated, receivedHMACs>>,
           \A x : Claimants(x)' \subseteq Claimants(x)
    PROVE  HmacInv'
<1>1. Counts(heard)' /\ Counts(authenticated)'
  BY DEF HmacInv, Counts, BagToSet
<1>2. ASSUME NEW x PROVE Budget(x)'
  <2>1. /\ IsFiniteSet(Claimants(x))
        /\ Times(authenticated, x) + Cardinality(Claimants(x)) + Waits(x) <= Times(heard, x)
        /\ Times(authenticated, x) \in Nat /\ Times(heard, x) \in Nat
    BY TimesNat DEF HmacInv, Budget
  <2>2. /\ IsFiniteSet(Claimants(x)')
        /\ Cardinality(Claimants(x)') <= Cardinality(Claimants(x))
        /\ Cardinality(Claimants(x)) \in Nat
        /\ Cardinality(Claimants(x)') \in Nat
    BY <2>1, FS_Subset, FS_CardinalityType
  <2>3. Times(authenticated, x)' = Times(authenticated, x) /\ Times(heard, x)' = Times(heard, x)
    BY DEF Times, BagToSet
  <2>4. Waits(x)' = Waits(x) /\ Waits(x) \in Nat
    BY DEF Waits
  <2>5. Times(authenticated, x)' + Cardinality(Claimants(x)') + Waits(x)' <= Times(heard, x)'
    BY <2>1, <2>2, <2>3, <2>4
  <2> QED
    BY <2>2, <2>5 DEF Budget
<1> QED
  BY <1>1, <1>2 DEF HmacInv

\* The bound in numbers, of one HMAC.
LEMMA BudgetFacts ==
    ASSUME HmacInv, NEW x
    PROVE  /\ IsFiniteSet(Claimants(x))
           /\ Times(authenticated, x) + Cardinality(Claimants(x)) + Waits(x) <= Times(heard, x)
           /\ Times(authenticated, x) \in Nat
           /\ Times(heard, x) \in Nat
           /\ Cardinality(Claimants(x)) \in Nat
           /\ Waits(x) \in 0..1
  BY TimesNat, FS_CardinalityType DEF HmacInv, Budget, Waits

LEMMA HearsHmac ==
    ASSUME TypeInv, HmacInv, NEW h \in Handlers, NEW pkt, HandleHmac(h, pkt)
    PROVE  HmacInv'
<1> DEFINE y == Hmac(pkt)
<1>1. /\ heard' = heard (+) SetToBag({y})
      /\ authenticated' = authenticated
      /\ receivedHMACs' = receivedHMACs \union {y}
      /\ handler' = handler
  BY DEF HandleHmac
<1> HIDE DEF y
<1>2. Counts(heard') /\ Counts(authenticated')
  <2>1. Counts(heard) /\ Counts(authenticated)
    BY DEF HmacInv
  <2> QED
    BY <1>1, <2>1, TimesAdd
<1>3. ASSUME NEW x PROVE Budget(x)'
  <2>1. Claimants(x)' = Claimants(x)
    BY <1>1 DEF Claimants, Claims, Hmac
  <2>2. Times(authenticated', x) = Times(authenticated, x)
    BY <1>1
  <2>3. Times(heard', x) = Times(heard, x) + (IF x = y THEN 1 ELSE 0)
    <3>1. Counts(heard)
      BY DEF HmacInv
    <3> DEFINE sum == heard (+) SetToBag({y})
    <3>2. \A z : Times(sum, z) = Times(heard, z) + (IF z = y THEN 1 ELSE 0)
      BY <3>1, TimesAdd
    <3>3. heard' = sum
      BY <1>1
    <3> HIDE DEF sum
    <3> QED
      BY <3>2, <3>3
  <2>4. Waits(x)' <= Waits(x) + (IF x = y THEN 1 ELSE 0) /\ Waits(x)' \in 0..1
    BY <1>1 DEF Waits
  <2>5. Times(authenticated', x) + Cardinality(Claimants(x)') + Waits(x)' <= Times(heard', x)
    BY <2>1, <2>2, <2>3, <2>4, BudgetFacts
  <2> QED
    BY <2>1, <2>5, BudgetFacts DEF Budget, Times, BagToSet
<1> QED
  BY <1>2, <1>3 DEF HmacInv, Counts, BagToSet

LEMMA TakesHmacOut ==
    ASSUME TypeInv, HmacInv, NEW h \in Handlers, NEW pkt, HandleKey(h, pkt)
    PROVE  HmacInv'
<1> DEFINE y == Hmac(pkt)
<1>1. /\ UNCHANGED <<heard, authenticated>>
      /\ receivedHMACs' = receivedHMACs \ {y}
  BY DEF HandleKey, historyVars
<1>2. CASE y \notin receivedHMACs
  <2>1. handler' = handler /\ receivedHMACs' = receivedHMACs
    BY <1>1, <1>2 DEF HandleKey
  <2>2. \A x : Claimants(x)' = Claimants(x)
    BY <2>1 DEF Claimants, Claims, Hmac
  <2> QED
    BY <1>1, <2>1, <2>2, BudgetKept
<1>3. CASE y \in receivedHMACs
  <2> DEFINE l == [Idle EXCEPT !.pc = "load", !.pkt = pkt]
  <2>1. Become(h, l)
    BY <1>3 DEF HandleKey
  <2>2. \A x : Claims(l, x) => (x = y)
    BY DEF Claims, Idle
  <2> HIDE DEF l, y
  <2>3. Counts(heard)' /\ Counts(authenticated)'
    BY <1>1 DEF HmacInv, Counts, BagToSet
  <2>4. ASSUME NEW x PROVE Budget(x)'
    <3>1. Claimants(x)' = IF Claims(l, x) THEN Claimants(x) \union {h} ELSE Claimants(x) \ {h}
      BY <2>1, ClaimantsMove DEF TypeInv
    <3>2. /\ IsFiniteSet(Claimants(x)')
          /\ Cardinality(Claimants(x)') <= Cardinality(Claimants(x)) + (IF x = y THEN 1 ELSE 0)
          /\ Cardinality(Claimants(x)') \in Nat
      <4> DEFINE S == Claimants(x)
      <4>1. IsFiniteSet(S)
        BY BudgetFacts
      <4> HIDE DEF S
      <4>2. /\ IsFiniteSet(S \union {h}) /\ IsFiniteSet(S \ {h})
            /\ Cardinality(S) \in Nat
            /\ Cardinality(S \union {h}) <= Cardinality(S) + 1
            /\ Cardinality(S \ {h}) <= Cardinality(S)
        BY <4>1, ClaimantsCount
      <4>3. Cardinality(S \union {h}) \in Nat /\ Cardinality(S \ {h}) \in Nat
        BY <4>2, FS_CardinalityType
      <4>4. CASE Claims(l, x)
        BY <2>2, <3>1, <4>2, <4>3, <4>4 DEF S
      <4>5. CASE ~Claims(l, x)
        BY <3>1, <4>2, <4>3, <4>5 DEF S
      <4> QED
        BY <4>4, <4>5
    <3>3. Waits(x)' + (IF x = y THEN 1 ELSE 0) <= Waits(x) /\ Waits(x)' \in 0..1
      BY <1>1, <1>3 DEF Waits
    <3>4. Times(authenticated, x)' = Times(authenticated, x) /\ Times(heard, x)' = Times(heard, x)
      BY <1>1 DEF Times, BagToSet
    <3>5. Times(authenticated, x)' + Cardinality(Claimants(x)') + Waits(x)' <= Times(heard, x)'
      BY <3>2, <3>3, <3>4, BudgetFacts
    <3> QED
      BY <3>2, <3>5 DEF Budget
  <2> QED
    BY <2>3, <2>4 DEF HmacInv
<1> QED
  BY <1>2, <1>3

LEMMA UsesClaim ==
    ASSUME TypeInv, HmacInv, NEW h \in Handlers, Accept(h)
    PROVE  HmacInv'
<1> DEFINE y == Hmac(handler[h].pkt)
<1>1. /\ authenticated' = authenticated (+) SetToBag({y})
      /\ UNCHANGED <<heard, receivedHMACs>>
      /\ h \in Claimants(y)
  BY DEF Accept, Claimants, Claims, Claiming
<1>2. PICK l : Become(h, l) /\ l.pc \notin Claiming
  <2>1. CASE Probabilistic
    <3>1. [handler[h] EXCEPT !.pc = "check"].pc \notin Claiming
      BY DEF TypeInv, Locals, Claiming
    <3> QED
      BY <2>1, <3>1 DEF Accept
  <2>2. CASE ~Probabilistic
    BY <2>2 DEF Accept, Idle, Claiming
  <2> QED
    BY <2>1, <2>2
<1> HIDE DEF y
<1>3. Counts(heard') /\ Counts(authenticated')
  <2>1. Counts(heard) /\ Counts(authenticated)
    BY DEF HmacInv
  <2> QED
    BY <1>1, <2>1, TimesAdd
<1>4. ASSUME NEW x PROVE Budget(x)'
  <2>1. Claimants(x)' = Claimants(x) \ {h}
    <3>1. ~Claims(l, x)
      BY <1>2 DEF Claims
    <3> QED
      BY <1>2, <3>1, ClaimantsMove DEF TypeInv
  <2>2. /\ IsFiniteSet(Claimants(x)')
        /\ Cardinality(Claimants(x)') + (IF x = y THEN 1 ELSE 0) <= Cardinality(Claimants(x))
        /\ Cardinality(Claimants(x)') \in Nat
    <3> DEFINE S == Claimants(x)
    <3>1. IsFiniteSet(S) /\ ((x = y) => (h \in S))
      BY <1>1, BudgetFacts
    <3> HIDE DEF S
    <3>2. /\ IsFiniteSet(S \ {h})
          /\ Cardinality(S) \in Nat
          /\ Cardinality(S \ {h}) <= Cardinality(S)
          /\ (h \in S) => (Cardinality(S \ {h}) = Cardinality(S) - 1)
      BY <3>1, ClaimantsCount
    <3>3. Cardinality(S \ {h}) \in Nat
      BY <3>2, FS_CardinalityType
    <3>4. Cardinality(S \ {h}) + (IF x = y THEN 1 ELSE 0) <= Cardinality(S)
      BY <3>1, <3>2, <3>3
    <3> QED
      BY <2>1, <3>2, <3>3, <3>4 DEF S
  <2>3. Times(authenticated', x) = Times(authenticated, x) + (IF x = y THEN 1 ELSE 0)
    <3>1. Counts(authenticated)
      BY DEF HmacInv
    <3> DEFINE sum == authenticated (+) SetToBag({y})
    <3>2. \A z : Times(sum, z) = Times(authenticated, z) + (IF z = y THEN 1 ELSE 0)
      BY <3>1, TimesAdd
    <3>3. authenticated' = sum
      BY <1>1
    <3> HIDE DEF sum
    <3> QED
      BY <3>2, <3>3
  <2>4. Times(heard', x) = Times(heard, x) /\ Waits(x)' = Waits(x)
    BY <1>1 DEF Waits
  <2>5. Times(authenticated', x) + Cardinality(Claimants(x)') + Waits(x)' <= Times(heard', x)
    BY <2>2, <2>3, <2>4, BudgetFacts
  <2> QED
    BY <2>2, <2>5 DEF Budget, Times, BagToSet
<1> QED
  BY <1>3, <1>4 DEF HmacInv, Counts, BagToSet

\* A goroutine that goes on claims what it claimed before, or nothing.
LEMMA ClaimantsShrink ==
    ASSUME handler \in [Handlers -> Locals], NEW h \in Handlers, NEW l, Become(h, l),
           \A x : Claims(l, x) => Claims(handler[h], x)
    PROVE  \A x : Claimants(x)' \subseteq Claimants(x)
<1> TAKE x
<1>1. Claimants(x)' = IF Claims(l, x) THEN Claimants(x) \union {h} ELSE Claimants(x) \ {h}
  BY ClaimantsMove
<1>2. Claims(l, x) => (h \in Claimants(x))
  BY DEF Claimants
<1> QED
  BY <1>1, <1>2

LEMMA ClaimsNothingNew ==
    ASSUME TypeInv, NEW h \in Handlers,
           \/ \E pkt \in BagToSet(air) : HandleData(h, pkt)
           \/ LoadOrStoreMessages(h) \/ AppendMessage(h) \/ StoreMessages(h) \/ LoadCommitment(h)
           \/ GetKey(h) \/ GetKeyFails(h) \/ CacheCommitment(h) \/ Reject(h) \/ CheckBatch(h) \/ DeleteMessages(h)
    PROVE  /\ UNCHANGED <<heard, authenticated, receivedHMACs>>
           /\ \A x : Claimants(x)' \subseteq Claimants(x)
<1>0. handler \in [Handlers -> Locals] /\ handler[h] \in Locals
  BY DEF TypeInv
<1>1. ASSUME NEW l, Become(h, l), l.pc \notin Claiming
      PROVE  \A x : Claimants(x)' \subseteq Claimants(x)
  BY <1>0, <1>1, ClaimantsShrink DEF Claims
<1>2. ASSUME NEW l, Become(h, l), l.pkt = handler[h].pkt, handler[h].pc \in Claiming
      PROVE  \A x : Claimants(x)' \subseteq Claimants(x)
  BY <1>0, <1>2, ClaimantsShrink DEF Claims
<1>3. UNCHANGED <<heard, authenticated, receivedHMACs>>
  BY DEF HandleData, LoadOrStoreMessages, AppendMessage, StoreMessages, LoadCommitment, GetKey,
      GetKeyFails, CacheCommitment, Reject, CheckBatch, DeleteMessages, historyVars
<1> SUFFICES \A x : Claimants(x)' \subseteq Claimants(x)
  BY <1>3
<1>4. CASE \E pkt \in BagToSet(air) : HandleData(h, pkt)
  <2>1. PICK pkt \in BagToSet(air) : HandleData(h, pkt)
    BY <1>4
  <2>2. CASE TooLate(pkt.slot)
    <3>1. handler' = handler
      BY <2>1, <2>2 DEF HandleData
    <3> QED
      BY <3>1 DEF Claimants, Claims, Hmac
  <2>3. CASE ~TooLate(pkt.slot)
    <3> DEFINE l == [Idle EXCEPT !.pc = "loadOrStore", !.pkt = pkt]
    <3>1. Become(h, l) /\ l.pc \notin Claiming
      BY <2>1, <2>3 DEF HandleData, Idle, Claiming
    <3> HIDE DEF l
    <3> QED
      BY <1>1, <3>1
  <2> QED
    BY <2>2, <2>3
<1>5. CASE LoadOrStoreMessages(h)
  <2> DEFINE l == [handler[h] EXCEPT !.pc = "append", !.msgs = unverifiedMsgs[handler[h].pkt.slot]]
  <2>1. Become(h, l) /\ l.pc \notin Claiming
    BY <1>0, <1>5 DEF LoadOrStoreMessages, Locals, Claiming
  <2> HIDE DEF l
  <2> QED
    BY <1>1, <2>1
<1>6. CASE StoreMessages(h) \/ GetKeyFails(h) \/ Reject(h) \/ DeleteMessages(h)
  BY <1>1, <1>6 DEF StoreMessages, GetKeyFails, Reject, DeleteMessages, Idle, Claiming
<1>7. CASE LoadCommitment(h)
  <2> DEFINE cached == commitmentKeys[handler[h].pkt.sender]
             l == [handler[h] EXCEPT !.commitment = cached,
                                     !.pc = IF cached = NoKey THEN "getKey" ELSE "verify"]
  <2>1. Become(h, l) /\ l.pkt = handler[h].pkt /\ handler[h].pc \in Claiming
    BY <1>0, <1>7 DEF LoadCommitment, Locals, Claiming
  <2> HIDE DEF l
  <2> QED
    BY <1>2, <2>1
<1>8. CASE GetKey(h)
  <2> DEFINE l == [handler[h] EXCEPT !.commitment = KeyOf(CurrentChain(handler[h].pkt.sender), 0),
                                     !.pc = "cache"]
  <2>1. Become(h, l) /\ l.pkt = handler[h].pkt /\ handler[h].pc \in Claiming
    BY <1>0, <1>8 DEF GetKey, Locals, Claiming
  <2> HIDE DEF l
  <2> QED
    BY <1>2, <2>1
<1>9. CASE CacheCommitment(h)
  <2> DEFINE l == [handler[h] EXCEPT !.pc = "verify"]
  <2>1. Become(h, l) /\ l.pkt = handler[h].pkt /\ handler[h].pc \in Claiming
    BY <1>0, <1>9 DEF CacheCommitment, Locals, Claiming
  <2> HIDE DEF l
  <2> QED
    BY <1>2, <2>1
<1>10. CASE CheckBatch(h)
  <2> DEFINE l == [handler[h] EXCEPT !.pc = "delete"]
  <2>1. Become(h, l) /\ l.pc \notin Claiming
    BY <1>0, <1>10 DEF CheckBatch, Locals, Claiming
  <2> HIDE DEF l
  <2> QED
    BY <1>1, <2>1
<1>11. CASE AppendMessage(h)
  <2>1. unverifiedMsgs \in [Slots -> SUBSET Msgs]
    BY DEF TypeInv, TypeOK
  <2>2. ASSUME NEW g \in Handlers, NEW x, Claims(handler'[g], x)
        PROVE  Claims(handler[g], x)
    <3>1. handler'[g] = handler[g] \/ handler'[g].pc \in Appending
      BY <1>0, <1>11, <2>1, AppendFrame
    <3> QED
      BY <2>2, <3>1 DEF Claims, Claiming, Appending
  <2>3. \A x : Claimants(x)' = {g \in Handlers : Claims(handler'[g], x)}
    BY DEF Claimants, Claims, Hmac
  <2> QED
    BY <2>2, <2>3 DEF Claimants
<1> QED
  BY <1>4, <1>5, <1>6, <1>7, <1>8, <1>9, <1>10, <1>11

LEMMA NextHmacInv == TypeInv /\ HmacInv /\ [Next]_vars => HmacInv'
<1> SUFFICES ASSUME TypeInv, HmacInv, [Next]_vars PROVE HmacInv'
  OBVIOUS
<1>1. ASSUME NEW h \in Handlers, HandleMessage(h)
      PROVE  HmacInv'
  <2>1. CASE \E pkt \in BagToSet(air) : HandleHmac(h, pkt)
    BY <2>1, HearsHmac
  <2>2. CASE \E pkt \in BagToSet(air) : HandleKey(h, pkt)
    BY <2>2, TakesHmacOut
  <2>3. CASE Accept(h)
    BY <2>3, UsesClaim
  <2>4. CASE \/ \E pkt \in BagToSet(air) : HandleData(h, pkt)
             \/ LoadOrStoreMessages(h) \/ AppendMessage(h) \/ StoreMessages(h) \/ LoadCommitment(h)
             \/ GetKey(h) \/ GetKeyFails(h) \/ CacheCommitment(h) \/ Reject(h) \/ CheckBatch(h) \/ DeleteMessages(h)
    BY <2>4, ClaimsNothingNew, BudgetKept
  <2> QED
    BY <1>1, <2>1, <2>2, <2>3, <2>4 DEF HandleMessage
<1>2. ASSUME UNCHANGED vars \/ NewBlock \/ OtherDevices \/ \E s \in Slots : Cleanup(s)
      PROVE  HmacInv'
  <2>1. UNCHANGED <<heard, authenticated, receivedHMACs, handler>>
    BY <1>2 DEF vars, NewBlock, OtherDevices, Register, SendMessage, FlushBatch, Disclose, Cleanup,
        historyVars
  <2>2. \A x : Claimants(x)' \subseteq Claimants(x)
    BY <2>1 DEF Claimants, Claims, Hmac
  <2> QED
    BY <2>1, <2>2, BudgetKept
<1> QED
  BY <1>1, <1>2 DEF Next

LEMMA InitHmacInv == Init => HmacInv
<1> SUFFICES ASSUME Init PROVE HmacInv
  OBVIOUS
<1>1. BagToSet(heard) = {} /\ BagToSet(authenticated) = {} /\ receivedHMACs = {}
  BY DEF Init, EmptyBag, SetToBag, BagToSet
<1>2. \A x : Claimants(x) = {}
  BY DEF Init, Claimants, Claims, Claiming, Idle
<1> QED
  BY <1>1, <1>2, FS_EmptySet DEF HmacInv, Counts, Budget, Times, Waits

\* An HMAC that is heard authenticates at most once for each time it was heard, whatever
\* copies of the key packet race for it and however many goroutines run at once.
THEOREM ReceiverOneAcceptPerHmac == Spec => []OneAcceptPerHmac
<1>1. HmacInv => OneAcceptPerHmac
  <2> SUFFICES ASSUME HmacInv PROVE OneAcceptPerHmac
    OBVIOUS
  <2>1. ASSUME NEW x \in DOMAIN authenticated
        PROVE  x \in DOMAIN heard /\ authenticated[x] <= heard[x]
    <3>1. authenticated[x] \in Nat \ {0} /\ Times(authenticated, x) = authenticated[x]
      BY DEF HmacInv, Counts, BagToSet, Times
    <3>2. authenticated[x] <= Times(heard, x) /\ Times(heard, x) \in Nat
      BY <3>1, BudgetFacts
    <3>3. Times(heard, x) # 0
      BY <3>1, <3>2
    <3> QED
      BY <3>2, <3>3 DEF Times, BagToSet
  <2> QED
    BY <2>1 DEF OneAcceptPerHmac, \sqsubseteq
<1> QED
  BY <1>1, InitTypeInv, NextTypeInv, InitHmacInv, NextHmacInv, PTL DEF Spec

-----------------------------------------------------------------------------
(* The Bloom filter: no false negatives, for every choice of hashes, word    *)
(* sizes and batch, whatever positions collide or wrap around, as long as    *)
(* the sizes of the filter fit in its header.  They do for every batch of    *)
(* less than a tenth of HeaderWord messages (SizesFit).                      *)

Fits(f) == f.m \in 0..(HeaderWord - 1) /\ f.k \in 0..(HeaderWord - 1)

\* Bits are set, and nothing else changes.
LEMMA AddedKeepsSizes ==
    ASSUME NEW n, NEW batch
    PROVE  /\ Added(New(n), batch) = [bitset |-> Added(New(n), batch).bitset,
                                      k |-> Hashes(n), m |-> Bits(n)]
           /\ \A d \in batch : Positions(New(n), d) \subseteq Added(New(n), batch).bitset
<1> DEFINE set == UNION {Positions(New(n), d) : d \in batch}
<1>1. Added(New(n), batch) = [New(n) EXCEPT !.bitset = @ \union set]
  BY DEF Added
<1> HIDE DEF set
<1>2. Added(New(n), batch) = [bitset |-> set, k |-> Hashes(n), m |-> Bits(n)]
  BY <1>1 DEF New
<1>3. \A d \in batch : Positions(New(n), d) \subseteq set
  BY DEF set
<1> QED
  BY <1>2, <1>3

\* The positions of a message depend on the sizes of the filter alone.
LEMMA PositionsFromSizes ==
    ASSUME NEW f, NEW g, f.m = g.m, f.k = g.k, NEW d
    PROVE  Positions(f, d) = Positions(g, d)
  BY DEF Positions, BitOf

\* The header and the bits come back as they went.
LEMMA BytesRoundTrip ==
    ASSUME NEW bits, NEW k, NEW m, Fits([bitset |-> bits, k |-> k, m |-> m])
    PROVE  FromBytes(Bytes([bitset |-> bits, k |-> k, m |-> m])) = [bitset |-> bits, k |-> k, m |-> m]
<1>1. m % HeaderWord = m /\ k % HeaderWord = k
  BY BloomAssumption DEF Fits
<1> QED
  BY <1>1 DEF FromBytes, Bytes

\* Every message of a batch passes the check of the filter that flushBatch makes of the
\* batch and the receiver gets back from its bytes.
THEOREM NoFalseNegatives ==
    ASSUME NEW batch, Fits(New(Cardinality(batch)))
    PROVE  \A d \in batch : Check(FromBytes(Bytes(FilterOf(batch))), d)
<1> DEFINE n == Cardinality(batch)
           f == Added(New(n), batch)
<1>1. /\ f = [bitset |-> f.bitset, k |-> Hashes(n), m |-> Bits(n)]
      /\ \A d \in batch : Positions(New(n), d) \subseteq f.bitset
  BY AddedKeepsSizes
<1>2. New(n).m = Bits(n) /\ New(n).k = Hashes(n)
  BY DEF New
<1> HIDE DEF f
<1>3. f.m = New(n).m /\ f.k = New(n).k
  BY <1>1, <1>2
<1>4. Fits([bitset |-> f.bitset, k |-> Hashes(n), m |-> Bits(n)])
  BY <1>2 DEF Fits
<1>5. FromBytes(Bytes(f)) = f
  BY <1>1, <1>4, BytesRoundTrip
<1>6. \A d \in batch : Positions(f, d) = Positions(New(n), d)
  BY <1>3, PositionsFromSizes
<1>7. \A d \in batch : Check(f, d)
  BY <1>1, <1>6 DEF Check
<1> QED
  BY <1>5, <1>7 DEF FilterOf, f, n

\* A quotient below a bound.
LEMMA DivBelow ==
    ASSUME NEW x \in Nat, NEW d \in Nat \ {0}, NEW b \in Nat, x < b * d
    PROVE  x \div d \in Nat /\ x \div d < b
<1> DEFINE q == x \div d
           r == x % d
<1>1. q \in Int /\ r \in 0..(d - 1) /\ x = d * q + r
  OBVIOUS
<1> HIDE DEF q, r
<1>2. q >= 0
  BY <1>1
<1>3. q < b
  <2>1. SUFFICES ASSUME q >= b PROVE FALSE
    BY <1>1
  <2>2. d * q >= d * b
    BY <1>1, <1>2, <2>1
  <2> QED
    BY <1>1, <2>2
<1> QED
  BY <1>1, <1>2, <1>3 DEF q

\* A filter for n entries has at most ten bits for each and at most seven hashes.
LEMMA SizesFit ==
    ASSUME NEW n \in Nat \ {0}, 10 * n < HeaderWord
    PROVE  Fits(New(n))
<1> USE BloomAssumption
<1>1. Bits(n) \in Nat /\ Bits(n) <= 10 * n
  <2> DEFINE x == 958506 * n + 100000 - 1
  <2>1. x \in Nat /\ x < (10 * n + 1) * 100000 /\ 10 * n + 1 \in Nat
    OBVIOUS
  <2> HIDE DEF x
  <2>2. x \div 100000 \in Nat /\ x \div 100000 < 10 * n + 1
    BY <2>1, DivBelow
  <2> QED
    BY <2>2 DEF Bits, CeilDiv, x
<1>2. Hashes(n) \in Nat /\ Hashes(n) < 8
  <2> DEFINE d == 1000000 * n
             x == 693147 * Bits(n) + d - 1
  <2>1. d \in Nat \ {0} /\ x \in Nat /\ x < 8 * d
    BY <1>1
  <2> HIDE DEF d, x
  <2>2. x \div d \in Nat /\ x \div d < 8
    BY <2>1, DivBelow
  <2> QED
    BY <2>2 DEF Hashes, CeilDiv, x, d
<1>3. New(n).m = Bits(n) /\ New(n).k = Hashes(n)
  BY DEF New
<1> QED
  BY <1>1, <1>2, <1>3 DEF Fits

-----------------------------------------------------------------------------
(* Batches.                                                                  *)

\* A goroutine passes from "check" to "delete" by CheckBatch.
LEMMA OnlyCheckBatch ==
    ASSUME TypeInv, Next, NEW h \in Handlers, handler[h].pc = "check", handler'[h].pc = "delete"
    PROVE  CheckBatch(h)
<1>1. PICK g \in Handlers : HandleMessage(g)
  BY HandlerFrame
<1>2. handler' # handler
  OBVIOUS
<1>4. ~AppendMessage(g)
  <2>1. handler \in [Handlers -> Locals] /\ unverifiedMsgs \in [Slots -> SUBSET Msgs]
    BY DEF TypeInv, TypeOK
  <2> QED
    BY <2>1, AppendFrame DEF Appending
<1>3. g = h
  BY <1>1, <1>2, <1>4, HandlerSteps, Moves DEF TypeInv
<1> QED
  BY <1>1, <1>3, <1>4 DEF HandleMessage, HandleData, HandleHmac, HandleKey, Takes, LoadOrStoreMessages,
      StoreMessages, LoadCommitment, GetKey, GetKeyFails, CacheCommitment, Reject, Accept,
      DeleteMessages

\* The filter of a batch is never empty, and its sizes fit in the header.
LEMMA BatchFits ==
    ASSUME 10 * MaxMsgs < HeaderWord, NEW batch \in Batches
    PROVE  Fits(New(Cardinality(batch)))
<1>1. MaxMsgs \in Nat /\ batch \subseteq 0..(MaxMsgs - 1) /\ batch # {}
  BY ReceiverAssumption DEF Batches, Msgs
<1>2. PICK d \in batch : d \in 0..(MaxMsgs - 1)
  BY <1>1
<1>3. IsFiniteSet(batch) /\ Cardinality(batch) <= MaxMsgs
  <2> DEFINE top == MaxMsgs - 1
  <2>1. 0 \in Int /\ top \in Int /\ ~(0 > top) /\ top - 0 + 1 = MaxMsgs
    BY <1>1, <1>2
  <2> HIDE DEF top
  <2>2. IsFiniteSet(0..top) /\ Cardinality(0..top) = MaxMsgs
    BY <2>1, FS_Interval
  <2> DEFINE all == 0..top
  <2>3. batch \subseteq all
    BY <1>1 DEF top
  <2>4. IsFiniteSet(all) /\ Cardinality(all) = MaxMsgs
    BY <2>2
  <2> HIDE DEF all
  <2> QED
    BY <2>3, <2>4, FS_Subset
<1>4. Cardinality(batch) \in Nat \ {0}
  BY <1>1, <1>3, FS_CardinalityType, FS_EmptySet
<1>5. 10 * Cardinality(batch) < HeaderWord
  BY <1>1, <1>3, <1>4, BloomAssumption
<1> QED
  BY <1>4, <1>5, SizesFit

\* A message of a batch that is stored for the batch's slot when its key has been
\* verified passes the filter and is verified, for every choice of hashes, as long as
\* no batch has more than a tenth of 2^32 messages (the header's words are 32 bits wide).
THEOREM ReceiverBatchMembersVerified ==
    ASSUME 10 * MaxMsgs < HeaderWord
    PROVE  Spec => BatchMembersVerified
<1> DEFINE Opened(h) ==
        LET pkt == handler[h].pkt
        IN  \A m \in unverifiedMsgs[TargetOf(pkt)] \intersect pkt.data :
                [msg |-> m, key |-> pkt.key] \in verified'
<1>1. ASSUME TypeInv, Next, NEW h \in Handlers, handler[h].pc = "check", handler'[h].pc = "delete"
      PROVE  Opened(h)
  <2> DEFINE pkt == handler[h].pkt
  <2>1. CheckBatch(h)
    BY <1>1, OnlyCheckBatch
  <2>2. pkt.data \in Batches
    BY <1>1 DEF TypeInv, HandlersGenuine, Works, Opening, OnWire
  <2>3. \A d \in pkt.data : Check(Received(pkt), d)
    BY <2>2, BatchFits, NoFalseNegatives DEF Received
  <2>4. ASSUME NEW m \in unverifiedMsgs[TargetOf(pkt)] \intersect pkt.data
        PROVE  [msg |-> m, key |-> pkt.key] \in verified'
    <3>1. m \in {w \in unverifiedMsgs[TargetOf(pkt)] : Check(Received(pkt), w)}
      BY <2>3, <2>4
    <3> QED
      BY <2>1, <3>1 DEF CheckBatch, Logged
  <2> QED
    BY <2>4
<1>2. TypeInv /\ [Next]_vars =>
          [\A h \in Handlers : handler[h].pc = "check" /\ handler'[h].pc = "delete" => Opened(h)]_vars
  BY <1>1
<1> QED
  BY <1>2, InitTypeInv, NextTypeInv, PTL DEF Spec, BatchMembersVerified
==============================================================================
