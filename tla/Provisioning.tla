----------------------------- MODULE Provisioning -----------------------------
(***************************************************************************)
(* How a device gets a key chain: RequestHashChain of the RCD              *)
(* (internal/rcd/rcd.go) with its retries and deadline, the handler that   *)
(* the owner runs for each connection (internal/owner/owner.go), the       *)
(* consortium manager it registers the device with (cmd/cm/main.go), and   *)
(* the transactions both send to the contract InfTESLA.                    *)
(*                                                                         *)
(* A transaction is sent in one step and mined in a later one.  The client *)
(* library estimates its gas first, so that one that reverts on the state  *)
(* mined so far is not sent; one that was sent may still revert.  Those of *)
(* an account are mined in the order of their nonces.                      *)
(*                                                                         *)
(* A device has one request at a time, but the handler of an attempt it    *)
(* gave up on lives on: handlers of a device overlap, and share its        *)
(* *rcdState without a lock.                                               *)
(*                                                                         *)
(* The definitions named M_... are the one that follows them with a bug in *)
(* it: they are there to see that each property below can fail.            *)
(***************************************************************************)
EXTENDS InfTESLA, Sequences

CONSTANTS
    Owner,        \* the owner's account
    MaxConns,     \* connections the owner accepts (bound); one is one attempt
    MaxAttempts,  \* maxRetries
    ChainLen      \* hashchainLen, the same in the owner and in the RCD

\* Connections, and the first hash of the chain that the handler of each makes.
Conns == 1..MaxConns
NoConn == 0

ASSUME ProvisioningAssumption ==
    /\ Rcds # {}
    /\ Owner \in Accounts \ {CM}
    /\ MaxConns \in Nat \ {0}
    /\ Conns \subseteq Keys
    /\ MaxAttempts \in Nat \ {0}
    /\ ChainLen \in Nat \ {0}

VARIABLES
    rcds,    \* o.rcds: the *rcdState of each device
    conn,    \* the handler of each connection: where it is and its locals
    pool,    \* transactions of the two accounts that are sent and not mined
    dev,     \* the device: its request, and the chain it has
    faults   \* history: what went wrong in the requests of a device

pvars == <<RCDs, block, rcds, conn, pool, dev, faults>>

Calls == {"regOwner", "storeKey", "changeCurrentIndex"}

\* Last slot of a chain that begins at a slot.
EndTime(start) == start + ChainLen - 1

PInit ==
    /\ Init
    /\ rcds = [r \in Rcds |-> [registered |-> FALSE, currentIndex |-> 0]]
    /\ conn = [c \in Conns |-> [pc |-> "unused", device |-> CHOOSE r \in Rcds : TRUE,
                                slot |-> 0, index |-> 0, receipt |-> "none"]]
    /\ pool = [a \in {Owner, CM} |-> <<>>]
    /\ dev = [r \in Rcds |-> [pc |-> "idle", attempt |-> 0, slot |-> 0,
                              conn |-> NoConn, chain |-> NoConn, start |-> 0]]
    /\ faults = [r \in Rcds |-> {}]

-----------------------------------------------------------------------------
(* The device.                                                               *)

\* A handler that may still touch the contract or the shared *rcdState.
Live(c) == conn[c].pc \notin {"unused", "send", "done"}

Exhausted(r) == dev[r].chain = NoConn \/ EndTime(dev[r].start) < block

\* CurrentSlotKey has no chain, or has used it up: it reads the slot and asks for a
\* chain that begins there.
RequestHashChain(r) ==
    /\ dev[r].pc = "idle"
    /\ Exhausted(r)
    /\ EndTime(block) <= MaxBlock
    /\ \E c \in Conns : conn[c].pc = "unused"
    /\ dev' = [dev EXCEPT ![r].pc = "dial", ![r].attempt = 1, ![r].slot = block]
    /\ UNCHANGED <<RCDs, block, rcds, conn, pool, faults>>

\* The owner accepts the connection and reads the id and the slot.
Dial(r) == \E c \in Conns :
    /\ dev[r].pc = "dial"
    /\ conn[c].pc = "unused" /\ \A b \in 1..(c - 1) : conn[b].pc # "unused"
    /\ dev' = [dev EXCEPT ![r].pc = "wait", ![r].conn = c]
    /\ conn' = [conn EXCEPT ![c].pc = "load", ![c].device = r, ![c].slot = dev[r].slot]
    /\ faults' = [faults EXCEPT ![r] =
           IF \E b \in Conns : conn[b].device = r /\ Live(b) THEN @ \union {"overlap"} ELSE @]
    /\ UNCHANGED <<RCDs, block, rcds, pool>>

\* There is no limit to the attempts.
M_AttemptFailsAgain(r) ==
    /\ dev[r].pc \in {"dial", "wait"}
    /\ dev' = [dev EXCEPT ![r].pc = "dial", ![r].conn = NoConn, ![r].attempt = @ + 1]
    /\ UNCHANGED <<RCDs, block, rcds, conn, pool, faults>>

\* The owner does not answer, hangs up, or the 60 seconds are over.  The next attempt
\* is for the same slot; the last one's error is the caller's.
AttemptFails(r) ==
    /\ dev[r].pc \in {"dial", "wait"}
    /\ dev' = IF dev[r].attempt < MaxAttempts
              THEN [dev EXCEPT ![r].pc = "dial", ![r].conn = NoConn, ![r].attempt = @ + 1]
              ELSE [dev EXCEPT ![r].pc = "idle", ![r].conn = NoConn, ![r].attempt = 0,
                               ![r].slot = 0]
    /\ UNCHANGED <<RCDs, block, rcds, conn, pool, faults>>

-----------------------------------------------------------------------------
(* Transactions.                                                             *)

\* A transaction that the handler of c causes, with what the call is given.
Tx(call, c) == [call |-> call, conn |-> c, device |-> conn[c].device,
                index |-> conn[c].index, start |-> conn[c].slot]

\* What the contract does with it.
Execute(t) ==
    \/ t.call = "regOwner" /\ regOwner(CM, Owner, t.device)
    \/ t.call = "storeKey" /\ storeKey(Owner, t.device, t.index, t.conn, t.start, EndTime(t.start))
    \/ t.call = "changeCurrentIndex" /\ changeCurrentIndex(t.device)

\* It does not revert.
Succeeds(t) ==
    \/ t.call = "regOwner" /\ CanRegOwner(CM, t.device)
    \/ t.call = "storeKey" /\ CanStoreKey(Owner, t.device, t.index, t.start)
    \/ t.call = "changeCurrentIndex" /\ CanChange(t.device)

\* The node takes the transaction.
Submit(a, call, c) ==
    /\ Succeeds(Tx(call, c))
    /\ pool' = [pool EXCEPT ![a] = Append(@, Tx(call, c))]

Goto(c, pc) == conn' = [conn EXCEPT ![c].pc = pc, ![c].receipt = "none"]

Done(c) == conn' = [conn EXCEPT ![c].pc = "done", ![c].receipt = "none",
                                ![c].slot = 0, ![c].index = 0]

\* A transaction is sent and nobody waits for it.  It happens once to a device (bound).
Loses(c) ==
    /\ "lost" \notin faults[conn[c].device]
    /\ faults' = [faults EXCEPT ![conn[c].device] = @ \union {"lost"}]

\* The call returns an error: nothing was sent, or the node has the transaction and
\* its answer was lost.
SubmitFails(a, call, c) ==
    /\ Done(c)
    /\ \/ UNCHANGED <<pool, faults>>
       \/ Submit(a, call, c) /\ Loses(c)
    /\ UNCHANGED <<RCDs, block, rcds, dev>>

\* A reverted transaction has a receipt too.
Mine(a) ==
    /\ pool[a] # <<>>
    /\ pool' = [pool EXCEPT ![a] = Tail(@)]
    /\ LET t == Head(pool[a])
           Receipt(status) ==
               conn' = IF conn[t.conn].pc = "done" THEN conn
                       ELSE [conn EXCEPT ![t.conn].receipt = status]
       IN  \/ Execute(t) /\ Receipt("successful")
           \/ ~Succeeds(t) /\ Receipt("failed") /\ UNCHANGED <<RCDs, block>>
    /\ UNCHANGED <<rcds, dev, faults>>

-----------------------------------------------------------------------------
(* The owner: handleRCD, one step for each access to the shared *rcdState    *)
(* and for each call that leaves the process.                                *)

Load(c) ==
    /\ conn[c].pc = "load"
    /\ Goto(c, IF rcds[conn[c].device].registered THEN "index" ELSE "register")
    /\ UNCHANGED <<RCDs, block, rcds, pool, dev, faults>>

\* The device counts as registered as soon as the manager is asked.
M_RegisterSubmitEager(c) ==
    /\ conn[c].pc = "register"
    /\ Submit(CM, "regOwner", c)
    /\ Goto(c, "registering")
    /\ rcds' = [rcds EXCEPT ![conn[c].device].registered = TRUE]
    /\ UNCHANGED <<RCDs, block, dev, faults>>

\* registerRCD has the manager call regOwner.
RegisterSubmit(c) ==
    /\ conn[c].pc = "register"
    /\ Submit(CM, "regOwner", c)
    /\ Goto(c, "registering")
    /\ UNCHANGED <<RCDs, block, rcds, dev, faults>>

\* The manager cannot be reached, or does not get the transaction sent.
RegisterFails(c) == conn[c].pc = "register" /\ SubmitFails(CM, "regOwner", c)

\* The manager's two minutes are over, or its answer does not arrive.
RegisterLost(c) ==
    /\ conn[c].pc = "registering"
    /\ Done(c)
    /\ Loses(c)
    /\ UNCHANGED <<RCDs, block, rcds, pool, dev>>

RegisterReverted(c) ==
    /\ conn[c].pc = "registering"
    /\ conn[c].receipt = "failed"
    /\ Done(c)
    /\ UNCHANGED <<RCDs, block, rcds, pool, dev, faults>>

\* The manager reports success, and a fresh rcdState replaces the one NewRCD made.
Registered(c) ==
    /\ conn[c].pc = "registering"
    /\ conn[c].receipt = "successful"
    /\ rcds' = [rcds EXCEPT ![conn[c].device].registered = TRUE,
                            ![conn[c].device].currentIndex = 0]
    /\ Goto(c, "index")
    /\ UNCHANGED <<RCDs, block, pool, dev, faults>>

\* nextIndex; the contract's indices are bounded.
NextIndex(c) ==
    /\ conn[c].pc = "index"
    /\ rcds[conn[c].device].currentIndex < MaxIndex
    /\ conn' = [conn EXCEPT ![c].pc = "submit",
                            ![c].index = rcds[conn[c].device].currentIndex + 1]
    /\ UNCHANGED <<RCDs, block, rcds, pool, dev, faults>>

StoreKeySubmit(c) ==
    /\ conn[c].pc = "submit"
    /\ Submit(Owner, "storeKey", c)
    /\ Goto(c, "storing")
    /\ UNCHANGED <<RCDs, block, rcds, dev, faults>>

StoreKeyFails(c) == conn[c].pc = "submit" /\ SubmitFails(Owner, "storeKey", c)

\* The handler waits for a receipt that says the transaction went through.
M_StoreKeyMinedChecked(c) ==
    /\ conn[c].pc = "storing"
    /\ conn[c].receipt = "successful"
    /\ Goto(c, IF rcds[conn[c].device].currentIndex = 0 THEN "update" ELSE "change")
    /\ UNCHANGED <<RCDs, block, rcds, pool, dev, faults>>

\* The new chain is never made current.
M_StoreKeyMinedOnly(c) ==
    /\ conn[c].pc = "storing"
    /\ conn[c].receipt # "none"
    /\ Goto(c, "update")
    /\ UNCHANGED <<RCDs, block, rcds, pool, dev, faults>>

\* WaitMined returns the receipt, and its status is not looked at.  The index is read
\* again to see whether there is a chain before this one.
StoreKeyMined(c) ==
    /\ conn[c].pc = "storing"
    /\ conn[c].receipt # "none"
    /\ Goto(c, IF rcds[conn[c].device].currentIndex = 0 THEN "update" ELSE "change")
    /\ UNCHANGED <<RCDs, block, rcds, pool, dev, faults>>

ChangeSubmit(c) ==
    /\ conn[c].pc = "change"
    /\ Submit(Owner, "changeCurrentIndex", c)
    /\ Goto(c, "changing")
    /\ UNCHANGED <<RCDs, block, rcds, dev, faults>>

\* The handler goes on after the error.
M_ChangeFailsGoesOn(c) ==
    /\ conn[c].pc = "change"
    /\ Goto(c, "update")
    /\ UNCHANGED <<RCDs, block, rcds, pool, dev, faults>>

ChangeFails(c) == conn[c].pc = "change" /\ SubmitFails(Owner, "changeCurrentIndex", c)

ChangeMined(c) ==
    /\ conn[c].pc = "changing"
    /\ conn[c].receipt # "none"
    /\ Goto(c, "update")
    /\ UNCHANGED <<RCDs, block, rcds, pool, dev, faults>>

\* currentIndex++ reads, then writes.
UpdateRead(c) ==
    /\ conn[c].pc = "update"
    /\ conn' = [conn EXCEPT ![c].pc = "write",
                            ![c].index = rcds[conn[c].device].currentIndex + 1]
    /\ UNCHANGED <<RCDs, block, rcds, pool, dev, faults>>

UpdateWrite(c) ==
    /\ conn[c].pc = "write"
    /\ rcds' = [rcds EXCEPT ![conn[c].device].currentIndex = conn[c].index]
    /\ Goto(c, "send")
    /\ UNCHANGED <<RCDs, block, pool, dev, faults>>

\* The hashes are written; they reach the device if it still reads from c.
SendChain(c) ==
    /\ conn[c].pc = "send"
    /\ Done(c)
    /\ LET r == conn[c].device
       IN  dev' = IF dev[r].conn # c THEN dev
                  ELSE [dev EXCEPT ![r] = [pc |-> "idle", attempt |-> 0, slot |-> 0,
                                           conn |-> NoConn, chain |-> c, start |-> @.slot]]
    /\ UNCHANGED <<RCDs, block, rcds, pool, faults>>

HandleRCD(c) ==
    \/ Load(c)
    \/ RegisterSubmit(c) \/ RegisterFails(c) \/ RegisterReverted(c) \/ Registered(c)
    \/ NextIndex(c)
    \/ StoreKeySubmit(c) \/ StoreKeyFails(c) \/ StoreKeyMined(c)
    \/ ChangeSubmit(c) \/ ChangeFails(c) \/ ChangeMined(c)
    \/ UpdateRead(c) \/ UpdateWrite(c) \/ SendChain(c)

\* changeCurrentIndex is for anybody to call.
ChangedByAnother(r) ==
    /\ changeCurrentIndex(r)
    /\ faults' = [faults EXCEPT ![r] = @ \union {"moved"}]
    /\ UNCHANGED <<rcds, conn, pool, dev>>

PNext ==
    \/ NewBlock /\ UNCHANGED <<rcds, conn, pool, dev, faults>>
    \/ \E r \in Rcds : RequestHashChain(r) \/ Dial(r) \/ AttemptFails(r) \/ ChangedByAnother(r)
    \/ \E a \in {Owner, CM} : Mine(a)
    \/ \E c \in Conns : HandleRCD(c) \/ RegisterLost(c)

PSpec == PInit /\ [][PNext]_pvars

(***************************************************************************)
(* As long as a transaction can be mined or a handler can run, one of them *)
(* does.  Nothing makes a device ask, an attempt fail, an answer of the    *)
(* manager get lost, or somebody else call the contract.                   *)
(***************************************************************************)
PFairness == WF_pvars(\/ \E a \in {Owner, CM} : Mine(a)
                      \/ \E c \in Conns : HandleRCD(c))

PFairSpec == PSpec /\ PFairness

-----------------------------------------------------------------------------
Txs == [call : Calls, conn : Conns, device : Rcds, index : Index, start : Blocks]
ConnPcs == {"unused", "load", "register", "registering", "index", "submit", "storing",
            "change", "changing", "update", "write", "send", "done"}

\* What each variable may hold, those of the contract included.
PTypeOK ==
    /\ TypeOK
    /\ rcds \in [Rcds -> [registered : BOOLEAN, currentIndex : Nat]]
    /\ conn \in [Conns -> [pc : ConnPcs, device : Rcds, slot : Blocks, index : Nat,
                           receipt : {"none", "successful", "failed"}]]
    /\ pool \in [{Owner, CM} -> Seq(Txs)]
    /\ dev \in [Rcds -> [pc : {"idle", "dial", "wait"}, attempt : 0..MaxAttempts,
                         slot : Blocks, conn : Conns \union {NoConn},
                         chain : Conns \union {NoConn}, start : Blocks]]
    /\ faults \in [Rcds -> SUBSET {"overlap", "lost", "moved"}]

\* A chain that reaches the device is the one receivers read with getKey, with the
\* window the device counts its slots from, if no attempt overlapped a handler of the
\* device, no transaction was sent that nobody waits for, and nobody else moved the
\* index: the owner sends the chain without a look at the receipts, so that after one of
\* the three the device may get a chain the contract does not have.
DeliveredIsCurrent ==
    [][\A r \in Rcds :
         dev'[r].chain # dev[r].chain /\ faults[r] = {} =>
             /\ getKey(r).key = dev'[r].chain
             /\ getKey(r).startTime = dev'[r].start
             /\ getKey(r).endTime = EndTime(dev'[r].start)]_pvars

\* A device whose handlers ran one after another, whatever got lost, failed or was mined
\* late, has chains with windows that follow one another.  Handlers that overlap make
\* the owner skip an index, and storeKey checks the window against index - 1 only.
SerialWindowsDisjoint == \A r \in Rcds : "overlap" \notin faults[r] => Disjoint(r)

\* ... and the changeCurrentIndex that follows its storeKey is not reverted because the
\* current chain is not over.
SerialNextIsActivable == \A r \in Rcds : "overlap" \notin faults[r] => Activable(r)

\* Between requests the owner's index is the contract's, through refused chains,
\* failed transactions and lost deliveries.  Three things can part them: overlapping
\* handlers, a transaction that nobody waits for, and a changeCurrentIndex that somebody
\* else sends between the owner's storeKey and its own.
IndexAgrees ==
    \A r \in Rcds :
        faults[r] = {} /\ (\A c \in Conns : conn[c].device = r => ~Live(c))
            => rcds[r].currentIndex = RCDs[r].currentIndex

\* The owner believes a device registered only if the contract has it, for this
\* owner; and the contract has no device the owner believes unregistered unless a
\* handler is at it or the manager's answer was lost.
RegistrationAgrees ==
    \A r \in Rcds :
        /\ rcds[r].registered => RCDs[r].isTaken /\ RCDs[r].owner = Owner
        /\ RCDs[r].isTaken /\ faults[r] = {} =>
               rcds[r].registered \/ \E c \in Conns : conn[c].device = r /\ Live(c)

\* A handler does not wait for ever, although WaitMined has no deadline: whatever was
\* mined meanwhile, by other handlers too, the transaction it waits for is mined.
HandlersEnd == <>[](\A c \in Conns : conn[c].pc \in {"unused", "done"})
===============================================================================
