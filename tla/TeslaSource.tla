----------------------------- MODULE TeslaSource -----------------------------
(***************************************************************************)
(* What a sender promises those who hear it: the broadcast source that     *)
(* delayed disclosure of hash chain keys relies on.  It has no goroutines, *)
(* queues or caches; a message is authenticated at once with a key of its  *)
(* slot, and the key is disclosed at once some slots later.  RcdSender in  *)
(* deterministic mode implements it (Source, there).                       *)
(***************************************************************************)
EXTENDS HashChain, Sequences

CONSTANTS
    ChainLen,         \* keys in a chain, one for each of so many slots
    DisclosureDelay,  \* slots from a key's own to the first it may be known in
    Payloads          \* what is authenticated

VARIABLES
    now,      \* the present slot
    chains,   \* first slots of the chains the source has had, in order
    macs,     \* HMACs sent, each with the slot it names
    reveals   \* keys disclosed, each with the payload it came with

vars == <<now, chains, macs, reveals>>

ChainKeys == [chain : DOMAIN chains, idx : 1..ChainLen]

\* The one slot that a key authenticates.
KeySlot(k) == chains[k.chain] + k.idx - 1

\* Whoever has a key has every earlier one of its chain.
GivenAway(k) == \E r \in reveals : r.key.chain = k.chain /\ k.idx <= r.key.idx

Init ==
    /\ now = 1
    /\ chains = <<>>
    /\ macs = {}
    /\ reveals = {}

Tick ==
    /\ now' = now + 1
    /\ UNCHANGED <<chains, macs, reveals>>

\* A chain for slots that no earlier one is for, the first of which has begun.
Register ==
    /\ \E begin \in 1..now :
         /\ \A c \in DOMAIN chains : chains[c] + ChainLen <= begin
         /\ chains' = Append(chains, begin)
    /\ UNCHANGED <<now, macs, reveals>>

\* With a key whose slot has come, and which neither the clock nor a disclosure gives
\* away yet.
Authenticate ==
    /\ \E k \in ChainKeys, d \in Payloads :
         /\ KeySlot(k) <= now
         /\ now < KeySlot(k) + DisclosureDelay
         /\ ~GivenAway(k)
         /\ macs' = macs \union {[slot |-> KeySlot(k), key |-> k, data |-> d]}
    /\ UNCHANGED <<now, chains, reveals>>

\* A key that authenticated something, when its delay has passed and those before it
\* that are ever disclosed have been.
Disclose ==
    /\ \E m \in macs :
         /\ KeySlot(m.key) + DisclosureDelay <= now
         /\ \A r \in reveals : KeySlot(r.key) <= KeySlot(m.key)
         /\ reveals' = reveals \union {[key |-> m.key, data |-> m.data]}
    /\ UNCHANGED <<now, chains, macs>>

Next == Tick \/ Register \/ Authenticate \/ Disclose

Spec == Init /\ [][Next]_vars
==============================================================================
