----------------------------- MODULE RcdReceiver -----------------------------
(***************************************************************************)
(* The receiving half of an RCD (internal/rcd/rcd.go): handleMessage, which *)
(* the UDP receiver runs in a goroutine of its own for every datagram, and *)
(* cleanupWorker, over the three sync.Maps they share.  Each Load, Store,  *)
(* LoadOrStore, LoadAndDelete and Delete is a step; what comes between two *)
(* of them is done with the values of the handler that may be stale by     *)
(* then.                                                                   *)
(*                                                                         *)
(* The other devices are reduced to what module RcdSender shows of them: a *)
(* message goes out in its slot, is authenticated with a key of that slot  *)
(* (deterministic mode) or, in a batch labelled with a slot that is over,  *)
(* of the present one (probabilistic mode), and the key follows at least   *)
(* disclosureDelay slots after the label.  The network loses datagrams,    *)
(* reorders them, delays them without bound and may deliver a second copy. *)
(*                                                                         *)
(* The definitions named M_... are the one that follows them with a bug in *)
(* it: they are there to see that each property below can fail.            *)
(***************************************************************************)
EXTENDS HashChain, Bloom, Sequences, Bags

CONSTANTS
    Senders,          \* the devices that are heard
    Handlers,         \* handleMessage goroutines alive at once (bound)
    ChainLen,         \* hashchainLen, the same in every device
    DisclosureDelay,  \* disclosureDelay, the same in every device
    Modes,            \* the modes to look at, one of which all devices are in
    Retention,        \* of each mode, the 20 slots of cleanupWorker
    Copies,           \* of each mode, deliveries of one datagram (bound)
    MaxSlot,          \* of each mode, last block of the run (bound)
    MaxMsgs,          \* messages the senders send in all (bound)
    NoKey             \* where there is no key

ASSUME ReceiverAssumption ==
    /\ ChainLen \in Nat \ {0}
    /\ DisclosureDelay \in Nat \ {0}
    /\ Modes \subseteq {"ModeDeterministic", "ModeProbabilistic"}
    /\ Retention \in [Modes -> Nat]
    /\ Copies \in [Modes -> Nat \ {0}]
    /\ MaxSlot \in [Modes -> Nat \ {0}]
    /\ MaxMsgs \in Nat
    /\ Data = 0..(MaxMsgs - 1)
    /\ NoKey \notin Key([sender : Senders, n : Nat])

VARIABLES
    mode,            \* the mode of all devices
    slot,            \* number of the latest block
    starts,          \* of each sender, the first slots of the chains it registered
    buffer,          \* of each sender, the messages waiting for their batch
    due,             \* disclosures the senders have yet to make
    messageCounter,  \* messages sent
    air,             \* bag of the datagrams on their way
    receivedHMACs,
    commitmentKeys,  \* NoKey where the map has no entry
    unverifiedMsgs,  \* of each slot, the set stored for it ({} also for no entry)
    handler,         \* local variables of each handleMessage goroutine
    raced,           \* history: goroutines whose store overlapped another's for the slot
    kept,            \* history: of each slot, what was stored without a race and not opened yet
    heard,           \* history: bag of the HMACs stored
    authenticated,   \* history: bag of the HMACs whose key verified
    verified,        \* history: messages logged as verified, and by which key
    fetched,         \* history: keys that GetKey returned
    rejected         \* history: keys that did not verify, and against what (NoKey: nothing)

senderVars  == <<starts, buffer, due, messageCounter>>
storeVars   == <<unverifiedMsgs, raced, kept>>
historyVars == <<heard, authenticated, verified, fetched, rejected>>
vars == <<mode, slot, starts, buffer, due, messageCounter, air, receivedHMACs, commitmentKeys,
          unverifiedMsgs, handler, raced, kept, heard, authenticated, verified, fetched, rejected>>

Slots == 0..MaxSlot[mode]
Probabilistic == mode = "ModeProbabilistic"
Msgs == 0..(MaxMsgs - 1)

Packet(kind, sender, s, key, data) ==
    [kind |-> kind, sender |-> sender, slot |-> s, key |-> key, data |-> data]

NoPacket == Packet("none", "none", 0, NoKey, {})
Idle == [pc |-> "idle", pkt |-> NoPacket, msgs |-> {}, commitment |-> NoKey]

Init ==
    /\ mode \in Modes
    /\ slot = 1
    /\ starts = [p \in Senders |-> <<>>]
    /\ buffer = [p \in Senders |-> {}]
    /\ due = {}
    /\ messageCounter = 0
    /\ air = EmptyBag
    /\ receivedHMACs = {}
    /\ commitmentKeys = [p \in Senders |-> NoKey]
    /\ unverifiedMsgs = [s \in Slots |-> {}]
    /\ handler = [h \in Handlers |-> Idle]
    /\ raced = {}
    /\ kept = [s \in Slots |-> {}]
    /\ heard = EmptyBag
    /\ authenticated = EmptyBag
    /\ verified = {}
    /\ fetched = {}
    /\ rejected = {}

-----------------------------------------------------------------------------
(* The clock, the contract and the other devices.                            *)

NewBlock ==
    /\ slot < MaxSlot[mode]
    /\ slot' = slot + 1
    /\ UNCHANGED <<mode, senderVars, air, receivedHMACs, commitmentKeys, storeVars, handler,
                   historyVars>>

CurrentChain(p) == [sender |-> p, n |-> Len(starts[p])]
CurrentStart(p) == starts[p][Len(starts[p])]
ChainCovers(p, s) == starts[p] # <<>> /\ s < CurrentStart(p) + ChainLen
KeyAt(p, s) == KeyOf(CurrentChain(p), s - CurrentStart(p) + 1)

\* A sender without a chain for the present slot has one registered from it.
Register(p) ==
    /\ ~ChainCovers(p, slot)
    /\ starts' = [starts EXCEPT ![p] = Append(@, slot)]
    /\ UNCHANGED <<mode, slot, buffer, due, messageCounter, air, receivedHMACs, commitmentKeys,
                   storeVars, handler, historyVars>>

OnAir(packets) == air (+) [x \in packets |-> Copies[mode]]

Disclosure(p, label, data) ==
    [sender |-> p, key |-> KeyAt(p, slot), data |-> data, target |-> label + DisclosureDelay]

\* broadcast, and broadcastDeterministic or bufferForBatch.  In deterministic mode the
\* data packet is left out: the payload comes again with the key, and what receivers
\* store of the data packet is read by nobody.
SendMessage(p) ==
    LET data == {messageCounter}
    IN  /\ messageCounter < MaxMsgs
        /\ ChainCovers(p, slot)
        /\ messageCounter' = messageCounter + 1
        /\ IF Probabilistic
           THEN /\ air' = OnAir({Packet("data", p, slot, NoKey, data)})
                /\ buffer' = [buffer EXCEPT ![p] = @ \union data]
                /\ UNCHANGED due
           ELSE /\ air' = OnAir({Packet("hmac", p, slot, KeyAt(p, slot), data)})
                /\ due' = due \union {Disclosure(p, slot, data)}
                /\ UNCHANGED buffer
        /\ UNCHANGED <<mode, slot, starts, receivedHMACs, commitmentKeys, storeVars, handler,
                       historyVars>>

\* flushBatch, for a tick that may be stale: the label is any slot that is over.
FlushBatch(p) ==
    /\ buffer[p] # {}
    /\ ChainCovers(p, slot)
    /\ \E label \in 0..(slot - 1) :
         /\ air' = OnAir({Packet("hmac", p, label, KeyAt(p, slot), buffer[p])})
         /\ due' = due \union {Disclosure(p, label, buffer[p])}
    /\ buffer' = [buffer EXCEPT ![p] = {}]
    /\ UNCHANGED <<mode, slot, starts, messageCounter, receivedHMACs, commitmentKeys, storeVars,
                   handler, historyVars>>

\* disclosureWorker, for a tick that may be stale too.
Disclose(d) ==
    /\ \E tick \in d.target..slot :
         air' = OnAir({Packet("key", d.sender, tick, d.key, d.data)})
    /\ due' = due \ {d}
    /\ UNCHANGED <<mode, slot, starts, buffer, messageCounter, receivedHMACs, commitmentKeys,
                   storeVars, handler, historyVars>>

-----------------------------------------------------------------------------
(* handleMessage, data packets.                                              *)

Become(h, locals) == handler' = [handler EXCEPT ![h] = locals]

\* A goroutine starts on a datagram of this kind.
Takes(h, pkt, kind) ==
    /\ handler[h].pc = "idle"
    /\ pkt \in BagToSet(air)
    /\ pkt.kind = kind
    /\ air' = air (-) SetToBag({pkt})

TooLate(s) == slot >= s + DisclosureDelay

\* The slot is read and compared with the packet's.
HandleData(h, pkt) ==
    /\ Takes(h, pkt, "data")
    /\ IF TooLate(pkt.slot)
       THEN UNCHANGED handler
       ELSE Become(h, [Idle EXCEPT !.pc = "loadOrStore", !.pkt = pkt])
    /\ UNCHANGED <<mode, slot, senderVars, receivedHMACs, commitmentKeys, storeVars, historyVars>>

\* storeUnverifiedMessage is three steps: the list is loaded, or an empty one stored,
Appending == {"append", "store"}
Others(h) == {g \in Handlers \ {h} : handler[g].pc \in Appending
                                        /\ handler[g].pkt.slot = handler[h].pkt.slot}
Arrived(h) == handler[h].pkt.data

\* An empty list is stored whatever is there.
M_LoadOrStoreMessagesBlind(h) ==
    /\ handler[h].pc = "loadOrStore"
    /\ Become(h, [handler[h] EXCEPT !.pc = "append"])
    /\ raced' = IF Others(h) = {} THEN raced ELSE raced \union Others(h) \union {h}
    /\ UNCHANGED <<mode, slot, senderVars, air, receivedHMACs, commitmentKeys, unverifiedMsgs, kept,
                   historyVars>>

LoadOrStoreMessages(h) ==
    /\ handler[h].pc = "loadOrStore"
    /\ Become(h, [handler[h] EXCEPT !.pc = "append",
                                    !.msgs = unverifiedMsgs[handler[h].pkt.slot]])
    /\ raced' = IF Others(h) = {} THEN raced ELSE raced \union Others(h) \union {h}
    /\ UNCHANGED <<mode, slot, senderVars, air, receivedHMACs, commitmentKeys, unverifiedMsgs, kept,
                   historyVars>>

\* the message is put behind what was loaded.  Where the array has room (from the third
\* message on; here at any length) it is the array of other lists too, the map's or those of
\* other goroutines: the message that some of them have in that place, old, is gone from them.
AppendMessage(h) ==
    LET s == handler[h].pkt.slot
        loaded == handler[h].msgs
        lists == {unverifiedMsgs[s]} \union {handler[g].msgs : g \in Others(h)}
        behind == (UNION lists) \ loaded
        Overwritten(list, old) ==
            IF old \in list /\ loaded \subseteq list THEN (list \ {old}) \union Arrived(h) ELSE list
    IN  /\ handler[h].pc = "append"
        /\ \E old \in behind \union Arrived(h), sharing \in SUBSET Others(h) :
              /\ handler' = [g \in Handlers |->
                     IF g = h THEN [handler[h] EXCEPT !.pc = "store", !.msgs = @ \union Arrived(h)]
                     ELSE IF g \in sharing
                          THEN [handler[g] EXCEPT !.msgs = Overwritten(@, old)] ELSE handler[g]]
              /\ unverifiedMsgs' \in {unverifiedMsgs,
                                      [unverifiedMsgs EXCEPT ![s] = Overwritten(@, old)]}
        /\ UNCHANGED <<mode, slot, senderVars, air, receivedHMACs, commitmentKeys, raced, kept,
                       historyVars>>

\* and the list is stored, over what others stored meanwhile.
StoreMessages(h) ==
    LET s == handler[h].pkt.slot
    IN  /\ handler[h].pc = "store"
        /\ unverifiedMsgs' = [unverifiedMsgs EXCEPT ![s] = handler[h].msgs]
        /\ kept' = IF h \in raced THEN kept ELSE [kept EXCEPT ![s] = @ \union Arrived(h)]
        /\ raced' = raced \ {h}
        /\ Become(h, Idle)
        /\ UNCHANGED <<mode, slot, senderVars, air, receivedHMACs, commitmentKeys, historyVars>>

-----------------------------------------------------------------------------
(* handleMessage, HMAC packets and key packets.                              *)

\* Two packets that carry the same key and payload have the same HMAC.
Hmac(pkt) == [key |-> pkt.key, data |-> pkt.data]

HandleHmac(h, pkt) ==
    /\ Takes(h, pkt, "hmac")
    /\ receivedHMACs' = receivedHMACs \union {Hmac(pkt)}
    /\ heard' = heard (+) SetToBag({Hmac(pkt)})
    /\ UNCHANGED <<mode, slot, senderVars, commitmentKeys, storeVars, handler, authenticated,
                   verified, fetched, rejected>>

\* The HMAC is looked up, and stays.
M_HandleKeyLoad(h, pkt) ==
    /\ Takes(h, pkt, "key")
    /\ IF Hmac(pkt) \in receivedHMACs
       THEN Become(h, [Idle EXCEPT !.pc = "load", !.pkt = pkt])
       ELSE UNCHANGED handler
    /\ UNCHANGED <<mode, slot, senderVars, receivedHMACs, commitmentKeys, storeVars, historyVars>>

\* LoadAndDelete of the HMAC that the key and the payload have.
HandleKey(h, pkt) ==
    /\ Takes(h, pkt, "key")
    /\ IF Hmac(pkt) \in receivedHMACs
       THEN Become(h, [Idle EXCEPT !.pc = "load", !.pkt = pkt])
       ELSE UNCHANGED handler
    /\ receivedHMACs' = receivedHMACs \ {Hmac(pkt)}
    /\ UNCHANGED <<mode, slot, senderVars, commitmentKeys, storeVars, historyVars>>

\* The contract is not asked.
M_LoadCommitmentBlind(h) ==
    /\ handler[h].pc = "load"
    /\ Become(h, [handler[h] EXCEPT !.commitment = commitmentKeys[handler[h].pkt.sender],
                      !.pc = "verify"])
    /\ UNCHANGED <<mode, slot, senderVars, air, receivedHMACs, commitmentKeys, storeVars,
                   historyVars>>

\* verifyKey begins with the cached commitment, or asks the contract.
LoadCommitment(h) ==
    LET cached == commitmentKeys[handler[h].pkt.sender]
    IN  /\ handler[h].pc = "load"
        /\ Become(h, [handler[h] EXCEPT !.commitment = cached,
                          !.pc = IF cached = NoKey THEN "getKey" ELSE "verify"])
        /\ UNCHANGED <<mode, slot, senderVars, air, receivedHMACs, commitmentKeys, storeVars,
                       historyVars>>

\* getKey returns the first hash of the sender's current chain.
GetKey(h) ==
    LET contractKey == KeyOf(CurrentChain(handler[h].pkt.sender), 0)
    IN  /\ handler[h].pc = "getKey"
        /\ Become(h, [handler[h] EXCEPT !.commitment = contractKey, !.pc = "cache"])
        /\ fetched' = fetched \union {contractKey}
        /\ UNCHANGED <<mode, slot, senderVars, air, receivedHMACs, commitmentKeys, storeVars,
                       heard, authenticated, verified, rejected>>

Rejection(h) ==
    [key |-> handler[h].pkt.key, commitment |-> handler[h].commitment]

\* The node does not answer, or has no key for the sender: the key is turned down, and its
\* HMAC is gone.
GetKeyFails(h) ==
    /\ handler[h].pc = "getKey"
    /\ rejected' = rejected \union {Rejection(h)}
    /\ Become(h, Idle)
    /\ UNCHANGED <<mode, slot, senderVars, air, receivedHMACs, commitmentKeys, storeVars,
                   heard, authenticated, verified, fetched>>

CacheCommitment(h) ==
    /\ handler[h].pc = "cache"
    /\ commitmentKeys' = [commitmentKeys EXCEPT ![handler[h].pkt.sender] = handler[h].commitment]
    /\ Become(h, [handler[h] EXCEPT !.pc = "verify"])
    /\ UNCHANGED <<mode, slot, senderVars, air, receivedHMACs, storeVars, historyVars>>

\* A receiver that has to have seen every key of the chain.
M_ReachesOneHash(key, commitment) == \E m \in 0..1 : HashTimes(key, m) = commitment

\* The key is the commitment, or becomes it in at most hashchainLen + 1 hashes.
Reaches(key, commitment) == \E m \in 0..(ChainLen + 1) : HashTimes(key, m) = commitment

\* A key that does not verify is cached all the same.
M_RejectCached(h) ==
    /\ handler[h].pc = "verify"
    /\ ~Reaches(handler[h].pkt.key, handler[h].commitment)
    /\ rejected' = rejected \union {Rejection(h)}
    /\ commitmentKeys' = [commitmentKeys EXCEPT ![handler[h].pkt.sender] = handler[h].pkt.key]
    /\ Become(h, Idle)
    /\ UNCHANGED <<mode, slot, senderVars, air, receivedHMACs, storeVars, heard, authenticated,
                   verified, fetched>>

Reject(h) ==
    /\ handler[h].pc = "verify"
    /\ ~Reaches(handler[h].pkt.key, handler[h].commitment)
    /\ rejected' = rejected \union {Rejection(h)}
    /\ Become(h, Idle)
    /\ UNCHANGED <<mode, slot, senderVars, air, receivedHMACs, commitmentKeys, storeVars,
                   heard, authenticated, verified, fetched>>

\* What is logged as verified.
Logged(msgs, key) == {[msg |-> m, key |-> key] : m \in msgs}

\* The key becomes the commitment, over whatever other handlers stored meanwhile.  In
\* deterministic mode the payload is the message.
Accept(h) ==
    LET pkt == handler[h].pkt
    IN  /\ handler[h].pc = "verify"
        /\ Reaches(pkt.key, handler[h].commitment)
        /\ commitmentKeys' = [commitmentKeys EXCEPT ![pkt.sender] = pkt.key]
        /\ authenticated' = authenticated (+) SetToBag({Hmac(pkt)})
        /\ IF Probabilistic
           THEN Become(h, [handler[h] EXCEPT !.pc = "check"]) /\ UNCHANGED verified
           ELSE Become(h, Idle) /\ verified' = verified \union Logged(pkt.data, pkt.key)
        /\ UNCHANGED <<mode, slot, senderVars, air, receivedHMACs, storeVars, heard, fetched,
                       rejected>>

-----------------------------------------------------------------------------
(* Probabilistic mode: the batch that the key opens.                         *)

TargetOf(pkt) == pkt.slot - DisclosureDelay

\* The filter that came as the key packet's payload.
Received(pkt) == FromBytes(Bytes(FilterOf(pkt.data)))

\* getUnverifiedMessages, and the Bloom filter's check of each.
CheckBatch(h) ==
    LET pkt == handler[h].pkt
    IN  /\ handler[h].pc = "check"
        /\ verified' = verified \union
               Logged({m \in unverifiedMsgs[TargetOf(pkt)] : Check(Received(pkt), m)}, pkt.key)
        /\ Become(h, [handler[h] EXCEPT !.pc = "delete"])
        /\ UNCHANGED <<mode, slot, senderVars, air, receivedHMACs, commitmentKeys, storeVars,
                       heard, authenticated, fetched, rejected>>

\* What is left of the slot's messages, of other senders too, is dropped.
DeleteMessages(h) ==
    LET s == TargetOf(handler[h].pkt)
    IN  /\ handler[h].pc = "delete"
        /\ unverifiedMsgs' = [unverifiedMsgs EXCEPT ![s] = {}]
        /\ kept' = [kept EXCEPT ![s] = {}]
        /\ Become(h, Idle)
        /\ UNCHANGED <<mode, slot, senderVars, air, receivedHMACs, commitmentKeys, raced,
                       historyVars>>

Expired(s) == s + DisclosureDelay + Retention[mode] < slot

\* cleanupWorker at the list of one slot: it asks for the present slot before it ranges over
\* the map, and what had expired then is expired now.
Cleanup(s) ==
    /\ Expired(s)
    /\ unverifiedMsgs[s] # {}
    /\ unverifiedMsgs' = [unverifiedMsgs EXCEPT ![s] = {}]
    /\ UNCHANGED <<mode, slot, senderVars, air, receivedHMACs, commitmentKeys, handler, raced, kept,
                   historyVars>>

-----------------------------------------------------------------------------
HandleMessage(h) ==
    \/ \E pkt \in BagToSet(air) : HandleData(h, pkt) \/ HandleHmac(h, pkt) \/ HandleKey(h, pkt)
    \/ LoadOrStoreMessages(h) \/ AppendMessage(h) \/ StoreMessages(h)
    \/ LoadCommitment(h) \/ GetKey(h) \/ GetKeyFails(h) \/ CacheCommitment(h)
    \/ Reject(h) \/ Accept(h) \/ CheckBatch(h) \/ DeleteMessages(h)

OtherDevices ==
    \/ \E p \in Senders : Register(p) \/ SendMessage(p) \/ FlushBatch(p)
    \/ \E d \in due : Disclose(d)

Next ==
    \/ NewBlock
    \/ OtherDevices
    \/ \E s \in Slots : Cleanup(s)
    \/ \E h \in Handlers : HandleMessage(h)

Spec == Init /\ [][Next]_vars

-----------------------------------------------------------------------------
(* Properties.                                                               *)

Chains == [sender : Senders, n : 1..MaxSlot[mode]]
ChainKeys == Key(Chains)
Hmacs == [key : ChainKeys, data : SUBSET Msgs]
Packets == [kind : {"none", "data", "hmac", "key"}, sender : Senders \union {"none"},
            slot : Slots, key : ChainKeys \union {NoKey}, data : SUBSET Msgs]
Pcs == {"idle", "loadOrStore", "append", "store", "load", "getKey", "cache", "verify", "check",
        "delete"}

\* What each variable may hold; a key is never verified against nothing.
TypeOK ==
    /\ mode \in Modes
    /\ slot \in 1..MaxSlot[mode]
    /\ starts \in [Senders -> Seq(Slots)]
    /\ buffer \in [Senders -> SUBSET Msgs]
    /\ \A d \in due : d.sender \in Senders /\ d.key \in ChainKeys /\ d.target \in Nat
    /\ messageCounter \in 0..MaxMsgs
    /\ BagToSet(air) \subseteq Packets
    /\ receivedHMACs \subseteq Hmacs
    /\ commitmentKeys \in [Senders -> ChainKeys \union {NoKey}]
    /\ unverifiedMsgs \in [Slots -> SUBSET Msgs]
    /\ kept \in [Slots -> SUBSET Msgs]
    /\ raced \subseteq Handlers
    /\ \A h \in Handlers :
         /\ handler[h].pc \in Pcs
         /\ handler[h].pkt \in Packets
         /\ handler[h].msgs \subseteq Msgs
         /\ handler[h].commitment \in ChainKeys \union {NoKey}
         /\ handler[h].pc \in {"cache", "verify"} => handler[h].commitment # NoKey
    /\ BagToSet(authenticated) \subseteq Hmacs
    /\ verified \subseteq [msg : Msgs, key : ChainKeys]

\* An HMAC that is heard authenticates at most once, however many copies of the key
\* packet race each other for it.
OneAcceptPerHmac == authenticated \sqsubseteq heard

\* A genuine key is turned down for one of three reasons: the contract does not give a
\* commitment (NoKey), the commitment is on another chain, or a later key has overtaken
\* this one, which means that the later key verified.  Key packets that are lost, and
\* handlers that store older commitments over newer ones, never make a key fail.
RejectedOnlyOvertaken ==
    \A r \in rejected :
        r.commitment # NoKey /\ r.commitment.chain = r.key.chain =>
            /\ r.key.idx < r.commitment.idx
            /\ \E a \in BagToSet(authenticated) : a.key = r.commitment

\* Every key that authenticates hashes down to one the contract gave this receiver,
\* whatever handlers store over each other's commitments.
AnchoredInContract ==
    \A a \in BagToSet(authenticated) : \E k \in fetched : k.chain = a.key.chain

\* A message that one goroutine stores while no other stores for its slot is not lost: it
\* is in the slot's list until a batch of the slot is opened or the list expires, whatever
\* goroutines that do race load, append in place and store over each other after it.
KeptUntilOpened == \A s \in Slots : ~Expired(s) => kept[s] \subseteq unverifiedMsgs[s]

\* A message of a batch that is in the slot's list when the batch is opened passes the
\* filter, after the filter's way through New, Add, Bytes, the wire and FromBytes.
BatchMembersVerified ==
    [][\A h \in Handlers :
         handler[h].pc = "check" /\ handler'[h].pc = "delete" =>
             LET pkt == handler[h].pkt
             IN  \A m \in unverifiedMsgs[TargetOf(pkt)] \intersect pkt.data :
                     [msg |-> m, key |-> pkt.key] \in verified']_vars

\* The chain a device has registered and made current is the one its receivers follow:
\* a key of it is not turned down once the contract has answered for its device.
CurrentChainVerifies ==
    \A r \in rejected : \/ r.commitment = NoKey
                        \/ r.key.chain # CurrentChain(r.key.chain.sender)
                        \/ r.commitment.chain = r.key.chain
=============================================================================
