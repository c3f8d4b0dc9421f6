# Broadcast authentication, in TLA+

This directory holds the TLA+ specification of the programs in this repository:
devices (RCDs) that broadcast messages and authenticate them in the TESLA way, with
one-way key chains whose keys are disclosed some slots after they were used, and the
contract, owners and consortium manager that publish where each chain begins.  The
modules are checked with TLC on small instances; what matters most is proved with
TLAPS for every instance.

## The system

| part | source | state it keeps | operations |
|---|---|---|---|
| hash chain | `pkg/hashchain` | the hashes, a cursor | `NewLinear`, `First`, `Next`, `Remaining`, `NewLinearFromExisting` |
| RCD, sender | `internal/rcd/rcd.go` | chain and cached key with its slot (under `chainMutex`), message buffer (`bufferMutex`), disclosure queue, the worker's pending disclosures | `broadcastLoop`, `CurrentSlotKey`, `RequestHashChain`, `broadcast`, `broadcastDeterministic`, `bufferForBatch`, `flushBatch`, `disclosureWorker`, `Stop` |
| RCD, receiver | `internal/rcd/rcd.go` | `receivedHMACs`, `commitmentKeys`, `unverifiedMsgs` (three `sync.Map`s) | `handleMessage`, `storeUnverifiedMessage`, `verifyKey`, `cleanupWorker` |
| slot source | `internal/slot` | the last slot emitted | `GetSlot`, `Ticker` |
| transport | `internal/broadcast` | socket, handler, `done`, `mu` | `Broadcast`, `SetMessageHandler`, `Start`, `receiveLoop`, `Close`; `ChannelReceiver` |
| contract | `contracts/src/InfTESLAPlusPlus.sol` | per device: owner, current index, and per index a key, a window of blocks and a delay | `regOwner`, `storeKey`, `getKey`, `changeCurrentIndex` |
| owner | `internal/owner` | per device: registered or not, the index of its chain (an `rcdState` without a lock) | `NewRCD`, `registerRCD`, `handleRCD` |
| consortium manager | `cmd/cm` | - | `handleConnection` |
| Bloom filter | `pkg/bloom` | a bit set | `New`, `Add`, `Check`, `Bytes`, `FromBytes` |
| chat transmitter, receiver | `internal/tx`, `internal/rx` | chain, disclosure queue, pending disclosures; `receivedHMACs` | `Broadcast`, `Stop`, `DisclosureBroadcastWorker`; `VerifyKeyMessage` |

How they interact.  A slot is a block number, which every program polls from the node.
A device without a usable chain asks its owner for one over TCP, naming the present
slot; the owner makes a chain, stores its first hash on the contract for the window of
`hashchainLen` slots that begins there, makes it the current one, and writes the chain
to the device.  The device sends every message in a data packet.  In *deterministic*
mode it sends an HMAC of the message with the key of the slot; in *probabilistic* mode
it buffers the message, and a goroutine started by every slot change sends one HMAC of
a Bloom filter of the buffer.  A worker discloses the key, with the payload, when the
slot has come.  Every packet is handled by a receiver in a goroutine of its own: HMACs
are kept, data packets that come in time are kept, and a key packet is matched with an
HMAC, its key is hashed down to the last verified key of the device (or the contract's),
and the payload is then authentic.

What is hard about it:

* *Concurrency.*  The loop, the flushes and the worker share the chain, the cached key,
  the buffer and the queue; the key is handed out as a slice of the cached array and read
  after the lock is released.  Handlers run concurrently over maps without a lock
  around their sequences of loads and stores.
* *Time.*  Slots advance between any two steps.  The ticker blocks on an unbuffered
  channel with a slot that grows stale, and skips slots.  Different steps of one
  operation read the slot again.
* *Failure.*  The node does not answer, the owner refuses or its answer is lost after the
  chain is on the contract, a transaction reverts or is mined after everybody gave it up,
  datagrams are lost, delayed, reordered and duplicated, a write fails, a queue or a channel
  is full, the clock is set back, the simulation ends at any step.
* *Rollover.*  Chains end and are replaced, on the device, on the contract and (not) at
  the receivers.

What makes each part correct: no key is out before its delay, none that an HMAC still in
preparation depends on, and what is out opens an HMAC that was sent; no message vanishes without
an error (sender); the key, the cursor and the cached slot stay in step (`CurrentSlotKey`); an
HMAC authenticates once, what authenticates hashes down to the contract, and a genuine key fails
only for one of three reasons (receiver); a published chain is never changed and windows do not
overlap (contract); datagrams reach handlers intact and the receiver shuts down (transport); a
registered device ends up with the owner, contract and device agreeing on the index
(provisioning).

## Modules

| module | models |
|---|---|
| `HashChain` | chains over symbolic hashes; no state |
| `TeslaSource` | abstract: what a sender in deterministic mode promises |
| `RcdSender` | the sending half of a device with its two tickers; implements `TeslaSource` |
| `Bloom` | the Bloom filter; no state |
| `RcdReceiver` | the receiving half, with the other devices and the network around it; EXTENDS `Bloom` |
| `InfTESLA` | the contract |
| `Provisioning` | a device's request, the owner's handlers, the manager and their transactions; EXTENDS `InfTESLA` |
| `UdpReceiver` | `UDPReceiver` |
| `ChannelReceiver` | `ChannelReceiver` and the application that ranges over it; EXTENDS `UdpReceiver` |
| `Chat` | transmitter and receiver of `cmd/chat`, with the wall clock slot source |
| `MC...` | symmetry, hashes and bounds for TLC |
| `RcdSenderProofs` | theorems on `RcdSender` in both modes |
| `RcdSenderSourceProofs` | in deterministic mode, with the refinement of `TeslaSource`; EXTENDS `RcdSenderProofs` |
| `RcdReceiverProofs` | on `RcdReceiver` and `Bloom` |
| `InfTESLAProofs` | on the contract |
| `ProvisioningProofs` | types, and what holds because only the contract's steps are made; EXTENDS `InfTESLAProofs` |
| `ProvisioningIndexProofs` | the two indices of a device; EXTENDS `ProvisioningProofs` |
| `ChannelProofs` | on `UdpReceiver` and `ChannelReceiver` |
| `ChatProofs` | on `Chat` |

Definitions named `M_...` are the definition that follows them with a plausible bug in
it.  Nothing uses them in the specifications; put in the place of the original, each
makes the property it is meant for fail, which shows that the property has teeth.

### HashChain

`KeyOf(c, i)` is `h_i` of chain `c`; hashing takes `i` to `i - 1`, below 0 too, where the
values are no longer published.  The zero array and a half-copied buffer are two values
that belong to no chain.  `Written` and `NewLinearFromExisting` are the two ends of the
owner's connection, with the verification of every link.

### RcdSender

One process per goroutine: `Loop`, the `Flushers`, and the worker (`worker.pc`).  `pc[p]`
is the step a broadcasting goroutine has reached: `csk` waits for `chainMutex`; `top`,
`refill`, `slot`, `advance` are inside `CurrentSlotKey`; `data`, `buffer`, `take`, `mac`,
`hmac`, `enqueue` are the steps of `broadcast`, `broadcastDeterministic` and `flushBatch`
(the last two share theirs; `Label` is where they differ).  Every access to something
another goroutine can change is a step: each `GetSlot`, the lock, each advance of the
chain, the read of the key for the HMAC and the read for the queue, each send.
`KeyReads` is the data race on the array behind the slice: another goroutine at its copy
makes the read nondeterministic between the array and a torn value.  A call that returns
an error drops what the caller held (`GiveUp`, and `Abort` where the lock is held), as the
callers do.  Every write can fail at any time, with a live context too: an HMAC whose write
fails is not queued (`BroadcastFails`), and a disclosure whose write fails is off the list
all the same (`WorkerSend`).  The history `lost` has the messages that such a step, one of
`CurrentSlotKey` that fails, or a full queue gave up, which are the steps that return an error
or log one.

`RequestHashChain` brings a chain that begins at the slot the device named (`CskRefill`) or
fails (`CskRefillRefused`).  `issued` is what the owner has sent to this device.  The device
has no way to see whether the contract has that chain too, and nothing here assumes that it
does: an owner whose `storeKey` reverted sends its chain like any other (see `Provisioning`).
`dataWire`, `hmacWire` and `keyWire` keep all that was sent.  `cleanupWorker` is one of the
three goroutines that `Stop` waits for, and has its end here (`CleanupExit`); its work is in
`RcdReceiver`.

Abstractions: a message is a number, a batch the set of its messages; `hashchainLen` of the
owner and of the device agree (their flags must); `MaxLag` bounds the blocks mined while a
goroutine is between reading the slot and having sent the HMAC (`Prompt`); without such a
bound a stalled device authenticates with a key that is public.  With no flushers the
loop's slot ticker is left out: in deterministic mode it flushes an empty buffer.

### TeslaSource

A clock, chains, HMACs and disclosed keys, with three actions besides the clock: the source gets
a chain for slots no earlier one is for, a payload is authenticated with a key of its slot that
nothing gives away yet, and a key that authenticated something is disclosed after its delay, in
order.  `RcdSender!Source` maps the chains it was sent (`issued`) and the two wires to it: every
step of a goroutine is one of these or changes nothing that is seen.  So what is disclosed is a
key that was used, with the payload it was used for; disclosures come in the order of their
slots, which `verifyKey` needs; windows do not overlap.

### RcdReceiver

A handler's locals are `handler[h]`; each `sync.Map` operation is a step.  Receiving and
the first check share a step, since the network already delays without bound (the HMAC
case is one `Store`, so one step).  Copies of a datagram are copies in the bag `air`, a
lost one is never taken.  The senders here are what `RcdSender` shows of them: message,
HMAC with a key of the present slot, a label that is the same slot or, for a batch, any
slot that is over, and a disclosure not before its target with the tick that made it,
possibly stale.  In deterministic mode the data packets are left out: nothing reads what
they leave in `unverifiedMsgs`.  `mode` is chosen at the start and never changes.

`storeUnverifiedMessage` is three steps.  `LoadOrStoreMessages` loads the slot's list,
`AppendMessage` appends, and `StoreMessages` stores the list, over what others stored meanwhile.
A list is a Go slice, and `append` writes into the array behind it when that has room.  Two
goroutines that loaded the same list then write to the same place, so that the message of
one turns up in the other's list, and in the map's, in place of its own.  `AppendMessage`
lets this happen to any of the lists that go on from what was loaded, at any length: in
which of them the array is shared depends on the capacities, which are not modelled.
`Cleanup` drops the lists one by one, with stores in between.  Two histories tell what a race
may lose from what it may not: `raced` has the goroutines whose store overlapped another's
for the slot, `kept` the messages of those that did not race.

`rejected` has every genuine key that was turned down, with what it was compared with: the
key that had been loaded, or `NoKey` when `getKey` failed.  `verified` has every message that
is logged as verified (`Logged`), in either mode.  Nothing is said of messages that came
late: the cutoff compares the label of a data packet with a slot read before the message is
stored, an HMAC packet has no cutoff, and in the probabilistic mode of the sender a key may
be out under an earlier batch of its slot.

### Bloom

A filter is its size, its number of hashes and the set of the bits that are set; the bytes
of the bitset stand for that set.  The two hashes of a message are constants: the choice in
`MCRcdReceiver` gives one message a bit that the other sets too, so that false positives
occur.  `Bits` and `Hashes` are the rounded-up formulas for `p = 0.01`, in integers.

### InfTESLA

A transaction is one step, and one that fails a require is no step; `CanRegOwner`,
`CanStoreKey` and `CanChange` are the requires.  Anybody may call anything with any
arguments; `Provisioning` has the calls that the programs make.

### Provisioning

`conn[c].pc` is where `handleRCD` is for connection `c`: every load, read and write of the
shared `rcdState`, every submission and every wait is a step.  `dev[r]` is the device inside
`RequestHashChain`; an attempt may end at any time (`AttemptFails` covers the 60 seconds), after
which the handler lives on and the next attempt opens another connection with the same slot.  A
submission is checked on the mined state, as gas estimation does, then waits in the account's
`pool`; `Mine` executes it or lets it revert, and hands out a receipt, at whose status only the
manager looks.  `Succeeds` is the contract's requires, for both.  `SubmitFails` covers an error
with and without the transaction on its way; `RegisterLost` the manager's two minutes.
`changeCurrentIndex` is for anybody to call (`ChangedByAnother`), between any two steps of a
handler.  `faults` records which of three things happened to a device: an attempt overlapped a
live handler (`overlap`), a transaction was left that nobody waits for (`lost`), or somebody
else moved the index (`moved`).

Abstractions: `c` also stands for the chain the handler makes; the manager is the step
between the owner's request and its transaction, since it keeps no state; one *lost*
transaction a device.

### UdpReceiver

`receiveLoop`, its current reader and the caller of `Close`.  The buffer is shared, the
socket may fail a read, the reader left behind by a loop that ends stays blocked for good
(as in the code).

### ChannelReceiver

The steps of `UdpReceiver`, each dispatch of which starts a handler goroutine (`sending`), the
buffered channel, and the application's `range`.  A handler that is late for `Close` panics,
with a `select` that has a default too: `panicked`, after which nothing runs.

### Chat

`Broadcast` in its steps, the worker's scan with its `readyIdx` that is reset by a failed
write and cut at the first disclosure not due, and the receiver's load and delete.  A key is
used for one message only, so it stands for message and HMAC as well.  The history
`sentKeys` has, with each key packet, how many slots had begun when it went out
(`SlotsBegun`: the slot the clock would show had it never been set back).  The ticker is the
`time.Ticker` (`fired`) and the goroutine blocked on its send (`tick`).

## Runs

| run | instance | shows |
|---|---|---|
| `sender_det` | deterministic, chains of 2 keys, delay 2, slots 1-5, 2 messages, queue of 1 | `ImplementsSource`, `HmacSlotMatchesKey`, `DataNotAfterKey`, `NoEarlyReveal`, `HmacPrecedesReveal` |
| `sender_prob` | probabilistic, 2 flushers, slots 1-3, 2 messages, no shutdown | `KeyTracksSlot`, `NoMessageInTwoBatches`, `NoneVanishes`, `DelayFromLabel` |
| `sender_prob_live` | probabilistic, 1 flusher, chains of 1 key, slots 1-2, 2 messages, shutdown, fair | `TypeOK`, `BatchKeyIsLater`, `EachBufferedFlushed`, `StopReturns` |
| `sender_prob_queue` | probabilistic, 2 flushers, slots 1-3, 2 messages, queue of 2, no shutdown, only the worker's writes fail, fair | `EachQueuedRevealed` |
| `sender_prob_delay` | probabilistic | **violates** `NoEarlyReveal` |
| `provisioning` | 1 device, 3 connections, 2 attempts a request, chains of 2, 4 blocks, fair | `ActiveKeyStored`, `ActiveChainsFrozen` of the contract, `SerialWindowsDisjoint`, `SerialNextIsActivable`, `DeliveredIsCurrent`, `IndexAgrees`, `RegistrationAgrees`, `HandlersEnd`, `PTypeOK` |
| `provisioning_overlap` | 1 device, 3 connections, chains of 1, 2 blocks | **violates** `WindowsDisjoint` |
| `receiver` | 2 handlers; deterministic: 2 copies, slots 1-4, a change of chain; probabilistic: slots 1-3, cleanup as soon as keys are due | `OneAcceptPerHmac`, `RejectedOnlyOvertaken`, `AnchoredInContract`, `KeptUntilOpened`, `BatchMembersVerified`, `TypeOK` |
| `receiver_rollover` | chains of 1 key | **violates** `CurrentChainVerifies` |
| `channel` | 3 datagrams, 1 failing read, a channel for 2, fair | `EachDatagramOnce`, `NoCallAfterClose`, `SocketDrained`, `DropsOnlyBeyondBuffer`, `ClosedChannelDrained`, `ChannelTypeOK` |
| `udp_close` | 1 datagram, fair | **violates** `CloseReturns` |
| `chat` | a chain of 2, delay 1, queue of 1, 2 handlers, 2 copies, slots 0-2, a failing write, a clock set back once, fair | `DisclosedOnce`, `DisclosedAfterDelay`, `ForgottenOnceVerified`, `EachQueuedDisclosed`, `ChatTypeOK` |

Why these bounds.  Chains of two keys have a first, a last and a rollover; a delay of two is the
least for which "early" and "in its own slot" differ; five slots let a chain run out, be
refused, be replaced and have its keys disclosed; two messages are the least that can be
reordered, share a key or share a batch; a queue of one overflows.  The slot modulus only has to
be larger than every slot with its delay for the wrapped value to be recognisable.  Two flushers
are the least that can overtake each other; that instance is too large together with shutdown,
so `Running` cuts it there and `sender_prob_live` goes on from it with one, which holds
`chainMutex` with one message while the loop waits for it with the other. A worker's list is out
of order when a flush with a later label queues its disclosure first; that takes two flushers
and two messages, and to follow it to its end `sender_prob_queue` leaves out what fails before a
disclosure is queued, which decides only whether there is one.  A receiver needs two handlers
for a race, and two copies for an HMAC and its key to come again; its two messages race for one
list, and a third that is kept before they do is left to the proof.  Three connections are a
request, its retry and a later request, or two requests with a retry behind the first; four
blocks are two chains of two.  The properties named `Serial...` are about devices whose handlers
never overlapped: with an overlap three connections make `WindowsDisjoint` fail
(`provisioning_overlap`) and four `NextIsActivable`.  That they hold for any number of
connections is proved.  A channel for two and three datagrams overflow once.  Two slots and one
step back of the clock give `Chat` ticks that are stale in either direction.

Deadlock is checked for the sender, whose `Terminated` is the intended end, but in
`sender_prob_queue`, which has no shutdown and comes to rest after the last slot.  It is not for
`Provisioning`, the receiver and `Chat`, where the bounded world simply comes to
its end, nor for the transport, where the loop may have ended (and where `udp_close` finds the
real one).

Fairness.  Blocks are mined; a goroutine that can run does; a `select` that finds the context
done again and again takes that case at some time, because Go chooses among ready cases at
random (strong fairness of the two exits on `ctx.Done`: a ticker whose channel is closed is
ready as well, for ever).  Nothing makes the lock fair: who waits for `chainMutex` gets it only
because those before it come to an end.  Nothing makes the application send, the owner or the
node answer, a write succeed, the simulation end or `Close` be called.  In `Provisioning` the
fairness is that of the whole: while a transaction can be mined or a handler can run, one of
them does; all their paths are finite, and nobody's failure is counted on.  In `ChannelReceiver`
the application keeps receiving.

## What the runs found

* `sender_prob_delay`.  `flushBatch(s)` takes the key of the present slot, at least `s + 1`,
  but discloses it at `s + disclosureDelay`.  The key of slot `k` is out at most
  `disclosureDelay - 1` slots later, and in slot `k` itself after a stale tick.  Measured
  from the label the delay does hold (`DelayFromLabel`, `BatchKeyIsLater`).
* `provisioning_overlap`.  Two retries whose handlers overlap both store the chain of index 1;
  the second `storeKey` reverts, but only the manager looks at the status of a receipt, and
  both handlers count the owner's index up.  The next handler stores index 3.  `storeKey`
  looks only at the window of the index before the one it is given, and that entry is empty,
  so the new chain gets the window of the one that is current.  As index 2 is never stored,
  `changeCurrentIndex` reverts from then on.
* `receiver_rollover`.  A receiver keeps the commitment of a device's first chain, so it
  rejects every key of the second.
* `udp_close`.  `Close` waits for the loop holding the lock that the loop waits for.

`ImplementsSource`, `HmacSlotMatchesKey` and `HmacPrecedesReveal` are properties of the
deterministic mode: in the
other, the key behind the slice may change between the HMAC and the queue.

What the properties step around is in the models and worth a reader's knowing, though no text of
the repository speaks against it: a request retried while its first handler is alive can leave
owner, device and contract with different chains, and so can a `changeCurrentIndex` that
somebody else sends between the owner's two transactions; a device whose registration was mined
too late for the manager never gets registered with the owner; a handler that is late for
`ChannelReceiver.Close` panics; a failed disclosure of `internal/tx` is tried again or dropped
depending on what stands behind it in the scan, and one of `internal/rcd` is dropped with a log;
a batch whose flush gets no key is dropped; copies of a key packet that `internal/rx` handles at
once may both verify; a key of `cmd/chat` is early by as many slots as the clock was set back.

## Proofs

Every theorem below is checked by TLAPS to the last leaf, from the assumptions that the
modules name (`SenderAssumption`, that `MaxLag` is below the delay and no slot is near
`SlotModulus`; `ReceiverAssumption`, `ContractAssumption`, `ProvisioningAssumption`,
`BloomAssumption`, `UdpAssumption`, `ChannelAssumption`, `ChatAssumption`) and no others, except
where one is said.  All but `NoFalseNegatives` and the three refinements are of the form
`Spec => []Inv` or `Spec => [][A]_vars`; few of the properties are inductive, and what is added
to each is named here.

`RcdSenderProofs`, for any chain length, delay, number of flushers, queue and bounds, in both
modes:

* `SenderTypeOK`.
* `SenderKeyTracksSlot`.  `KeyTracksSlot` relates four variables written in separate steps.
  `KeyInv` adds `MutexHeld` (who is inside `CurrentSlotKey` holds the lock, hence is alone) and
  `ChainReady` (keys are advanced along a chain that exists; a chain is asked for with a slot
  that is not 0, which would read as "none").
* `SenderDataNotAfterKey`, `SenderBatchKeyIsLater`, from `SlotInv`: a chain is asked for when
  the slots of the last one are over (`ChainsSpent`), so that chains do not overlap
  (`ChainsInOrder`) whatever the contract says of them, and the slot of the cached key never
  goes back, and who reads the key through its alias has one for the slot it was given or a
  later one (`ReadKeys`), whoever refilled or advanced the chain in between.
* `SenderNoneVanishes`.  Inductive with `Custody`: each step that takes messages out of a
  goroutine's hands, the buffer or a list puts them into another, on the wire, or into `lost`.
* `SenderNoMessageInTwoBatches`, `SenderDelayFromLabel`, from `MessageInv`: every message is in
  one place, the loop, the buffer, one flusher or one HMAC (`Custody`), a label is over before
  the batch's key is looked up (`LabelsPast`), and disclosures wait for the slot that the
  label of their HMAC gives (`QueueLabelled`).

`RcdSenderSourceProofs`, in deterministic mode (`ASSUME ~Probabilistic`; in the other mode all
four are false):

* `SenderHmacSlotMatchesKey`, `SenderNoEarlyReveal`.  `DetInv` adds to `KeyInv`: flushers find
  an empty buffer, so that only the loop calls `CurrentSlotKey` (`LoopAlone`) and the key
  that it reads through the alias is still the one it was given (`HoldsKey`); what is queued
  or pending has the target its key's slot gives (`QueueSound`); ticks are never ahead of
  the latest block (`TicksPast`); hence what is broadcast is due (`RevealedPast`).
* `SenderHmacPrecedesReveal`, `SenderImplementsSource`.  `SourceInv` adds that each waiting
  disclosure is of an HMAC that was sent (`QueueBacked`), and that the worker's list and the
  channel behind it are in the order of their slots, after the keys on the wire and not
  after the cached one (`QueueOrdered`).  An HMAC step is then one of the source, because no
  key on the wire gives the cached key away (`NotGivenAway`), a disclosure is one because
  its HMAC is on the wire and all disclosed slots are earlier, and every other step
  stutters.

`RcdReceiverProofs`, for any devices, goroutines, messages, slots and copies, in both modes:

* `ReceiverTypeOK`, from `TypeInv`: a device registers at most one chain for each slot, which
  bounds the chains there can be, and every packet carries a genuine key.
* `ReceiverAnchoredInContract`, `ReceiverRejectedOnlyOvertaken`, from `HeldInv`: a commitment
  that is cached, or that a goroutine still holds after another stored over it, is on a chain
  that `getKey` returned a hash of, and is that hash or a key that authenticated.
* `ReceiverKeptUntilOpened`, from `KeptInv`: a goroutine between load and store has in its list
  whatever is kept for its slot, and has been marked as racing if another one is there with
  it.  So an append in place only ever takes the place of a message that was not kept, the
  store that comes last puts back all that was, and who ends without a race finds its own
  message still in its list.  Three messages, two of which race behind a third, are more
  than the run can go through; the proof covers them.
* `ReceiverOneAcceptPerHmac`, from `HmacInv`: the keys an HMAC has authenticated, the goroutines
  that took it out of the map and may yet do so, and its entry in the map are together no
  more than the times it was heard.  Goroutines are counted with the finite-set theorems;
  that finitely many hold an HMAC is part of the invariant, not assumed.
* `NoFalseNegatives`: for any hashes, words and batch whose filter fits in its header, what is
  added passes `Check` after `Bytes` and `FromBytes`.  It does fit for less than a tenth of
  `HeaderWord` messages (`SizesFit`), so `ReceiverBatchMembersVerified` assumes
  `10 * MaxMsgs < HeaderWord`, which in the code is 2^32.

`InfTESLAProofs`, for any devices, accounts, keys and bounds:

* `ContractTypeOK`, `ContractFreezesActiveChains`: for any calls.  The second needs that a
  registration resets an index that is still 0 (`UntakenFresh`).
* What holds only when the callers keep to a discipline is left to the programs that make
  the calls.  `ChainsInv` says what the discipline gives, device by device: nothing is
  stored more than one index ahead of the current one, every index up to it is stored with
  a window that is not empty, begins after the one before it, and begins at a block already
  mined.  The lemmas about it are here, and `ProvisioningIndexProofs` has for which devices
  it is kept.

`ProvisioningProofs`, for any devices, connections, attempts, chain length and bounds:

* `ProvisioningTypeOK`.
* `ProvisioningImplementsContract`: a step of the device, a handler or a transaction is a step
  of `InfTESLA` or leaves it alone (`Mine` is the one that may be a call).  It rests on the
  types, for a transaction carries a connection as its key.
* `ProvisioningFreezesActiveChains`: so what holds of the contract under any calls holds here,
  whatever handlers do to one another.

`ProvisioningIndexProofs`, for the same.  A transaction is put together long before it is
mined, so that what the handlers keep has to be said of the owner's index, the contract's,
the handlers and the pool together.  `IndexInv` has three layers:

* `BaseInv` holds whatever happens: what every transaction on its way may still do, and that
  the current index is not 0 once a chain is stored.  `ProvisioningRegistrationAgrees` and
  `ProvisioningActiveKeyStored` follow, skipped indices included.
* `SerialInv` is about a device whose handlers never overlapped: the owner's index is at most
  the contract's, because the handler that counts it up has seen its transaction mined, and
  one that passed gas estimation and reverts does so because the contract's went up
  meanwhile.  Hence what is stored is at the index after the current one, `ChainsInv` of
  `InfTESLAProofs` is kept, and `ProvisioningSerialWindowsDisjoint` and
  `ProvisioningSerialNextIsActivable` follow, lost transactions and somebody else's calls
  included.
* `AgreeInv` is about a device with none of the three faults: the two indices are equal but for
  the time between a transaction and the handler's update, transactions that are sent succeed,
  and the next entry is the handler's chain.  `ProvisioningIndexAgrees` and
  `ProvisioningDeliveredIsCurrent` follow.

`ChannelProofs`, for any datagrams, failed reads and capacity:

* `ChannelRunsUdp`: `ChannelReceiver` implements `UdpReceiver`, so what follows is proved of the
  UDP receiver alone.
* `ChannelEachDatagramOnce`.  An equality of bags; `OnceInv` counts every datagram (`Accounted`)
  and adds that no reader runs while the loop copies the shared buffer (`ReaderAlone`) and
  that a loop has a handler to call (`HandledInv`).
* `ChannelNoCallAfterClose`; a call is the loop's `go`, and the goroutine may still run after
  it.  `ClosedInv`: when `Close` has returned the connection is shut and
  the loop has nothing in hand; a loop started afterwards gets errors only.
* `ChannelDropsOnlyBeyondBuffer`, from `SizeInv`: what is in handlers' hands and in the channel
  is together no more than what was handled, so that a handler that finds the channel full
  proves that more than its capacity was.  `BagCardinality` is a recursion over the domain of
  the bag; `BagCardinalityCopies` shows that it counts the numbered copies (`Copies`), by a
  smallest counterexample, which exists because numbers are well-founded.
* `ChannelTypes`.

`ChatProofs`, for any chain, delay, queue, handlers, failures and clock:

* `ChatTypes`.
* `ChatDisclosedAfterDelay`, from `DelayInv`: everything queued or pending has its HMAC out;
  and from `ClockInv`: a tick, held back or not, is of a slot that has begun by a clock that
  was never set back.
* `ChatDisclosedOnce`.  A failed write leaves disclosures pending that stand among others that
  were broadcast.  `OrderInv`: keys are queued in the order of the chain, and what was
  broadcast and is still pending is not behind `readyIdx`, so the end of the scan cuts it off.
* `ChatForgottenOnceVerified`, from `HeardInv`.

Only model-checked: all liveness (`EachQueuedRevealed`, `StopReturns`, `EachBufferedFlushed`,
`SocketDrained`, `ClosedChannelDrained`, `HandlersEnd`, `EachQueuedDisclosed`), which needs
fairness and `ENABLED`.

## Not modelled

* JSON encoding, truncation of datagrams over 1024 bytes.
* `UDPBroadcaster` beyond one write.
* The bits' places in the filter's bytes, and the hash functions: FNV-1a is two given numbers.
* Benchmark counters and plots, command-line parsing, the test client of the manager,
  generated bindings, the sample contract.
* Real hash chains and HMACs: chains never meet, HMACs are equal only for equal key and payload.
* The memory a receiver keeps for HMACs whose keys never come, and what it loses of messages
  whose disclosure comes more than 20 slots late: the steps are in `RcdReceiver`, no property
  is.
* A device that stalls for the whole delay between its slot and its HMAC (`MaxLag`): the code
  does nothing against it, and the HMAC then goes out under a public key.
* An append in place while `CheckBatch` goes through the list: a list is read in one step.

## Plan

1. `HashChain`, `RcdSender`, `InfTESLA` with their proofs, `RcdReceiver`, `UdpReceiver`: done.
2. `TeslaSource` and the refinement, checked: done. 3. `Provisioning` on top of `InfTESLA`, with
proofs: done. 4. `ChannelReceiver` on top of `UdpReceiver`; `Bloom` inside `RcdReceiver`,
proved; `Chat`: done. 5. Proofs of every safety and action property the runs check, and of the
refinements: done. 6. What `storeUnverifiedMessage` may lose and what it may not
(`KeptUntilOpened`): done, proved.
