------------------------------- MODULE InfTESLA -------------------------------
(***************************************************************************)
(* The contract InfTESLAplusplus (contracts/src/InfTESLAPlusPlus.sol): the *)
(* registry of the devices (RCDs), their owners and the first hash of each *)
(* of their key chains with the blocks the chain is for.                   *)
(*                                                                         *)
(* A transaction is atomic; one that fails a require changes nothing, so   *)
(* the requires are guards.  The calldata is arbitrary: anybody may send   *)
(* any transaction, with any window that is not empty.  A key stands for   *)
(* the string and the disclosure delay stored beside it.                   *)
(*                                                                         *)
(* The definitions named M_... are the one that follows them with a bug in *)
(* it: they are there to see that each property below can fail.            *)
(***************************************************************************)
EXTENDS Integers

CONSTANTS
    Rcds,        \* device ids
    Accounts,    \* addresses
    CM,          \* the account that deployed the contract
    Keys,        \* (key, disclosure delay) pairs
    NoKey,       \* the default value of the mapping key
    NoAccount,   \* the zero address
    MaxIndex,    \* highest chain index used (bound)
    MaxBlock     \* last block of the run (bound)

ASSUME ContractAssumption ==
    /\ CM \in Accounts
    /\ NoKey \notin Keys
    /\ MaxIndex \in Nat \ {0}
    /\ MaxBlock \in Nat \ {0}

VARIABLES
    RCDs,    \* the mapping of the same name
    block    \* block.number

vars == <<RCDs, block>>

Index  == 0..MaxIndex
Blocks == 0..MaxBlock

Entry == [key : Keys \union {NoKey}, startTime : Blocks, endTime : Blocks,
          isIndexExist : BOOLEAN]

rcd == [isTaken : BOOLEAN, owner : Accounts \union {NoAccount},
        chains : [Index -> Entry], currentIndex : Index]

\* What a mapping holds where nothing was written.
NoEntry == [key |-> NoKey, startTime |-> 0, endTime |-> 0, isIndexExist |-> FALSE]

Init ==
    /\ RCDs = [r \in Rcds |-> [isTaken |-> FALSE, owner |-> NoAccount,
                               chains |-> [i \in Index |-> NoEntry],
                               currentIndex |-> 0]]
    /\ block = 1

NewBlock ==
    /\ block < MaxBlock
    /\ block' = block + 1
    /\ UNCHANGED RCDs

\* The requires of each transaction are an operator of their own: a client estimates a
\* transaction by them before it sends it.

\* A device id can be registered again.
M_CanRegOwnerAgain(sender, r) == sender = CM
CanRegOwner(sender, r) == sender = CM /\ ~RCDs[r].isTaken

regOwner(sender, owner, r) ==
    /\ CanRegOwner(sender, r)
    /\ RCDs' = [RCDs EXCEPT ![r].owner = owner, ![r].isTaken = TRUE,
                            ![r].currentIndex = 0]
    /\ UNCHANGED block

\* "Only future keys can be stored".
FutureIndex(r, index) == index > RCDs[r].currentIndex

\* "New keychain can only be started after the old keychain ends".
M_AfterPreviousTouching(r, index, start) ==
    RCDs[r].currentIndex = 0 \/ RCDs[r].chains[index - 1].endTime <= start
AfterPrevious(r, index, start) ==
    RCDs[r].currentIndex = 0 \/ RCDs[r].chains[index - 1].endTime < start

\* The first chain stored activates index 1, whatever its index is.
Activated(r) == IF RCDs[r].currentIndex = 0 THEN 1 ELSE RCDs[r].currentIndex

CanStoreKey(sender, r, index, start) ==
    /\ RCDs[r].isTaken
    /\ RCDs[r].owner = sender
    /\ FutureIndex(r, index)
    /\ AfterPrevious(r, index, start)

storeKey(sender, r, index, key, start, end) ==
    /\ CanStoreKey(sender, r, index, start)
    /\ RCDs' = [RCDs EXCEPT
                  ![r].chains[index] = [key |-> key, startTime |-> start,
                                        endTime |-> end, isIndexExist |-> TRUE],
                  ![r].currentIndex = Activated(r)]
    /\ UNCHANGED block

getKey(r) == RCDs[r].chains[RCDs[r].currentIndex]

\* The next index is not looked up.
M_CanChangeBlind(r) ==
    LET currentIndex == RCDs[r].currentIndex
    IN  currentIndex < MaxIndex /\ RCDs[r].chains[currentIndex].endTime < block

CanChange(r) ==
    LET currentIndex == RCDs[r].currentIndex
    IN  /\ currentIndex < MaxIndex
        /\ RCDs[r].chains[currentIndex].endTime < block
        /\ RCDs[r].chains[currentIndex + 1].isIndexExist

changeCurrentIndex(r) ==
    /\ CanChange(r)
    /\ RCDs' = [RCDs EXCEPT ![r].currentIndex = @ + 1]
    /\ UNCHANGED block

Store(r) == \E sender \in Accounts, index \in Index, key \in Keys, start, end \in Blocks :
    /\ 0 < start /\ start <= end
    /\ storeKey(sender, r, index, key, start, end)

Next ==
    \/ NewBlock
    \/ \E r \in Rcds :
         \/ \E sender, owner \in Accounts : regOwner(sender, owner, r)
         \/ Store(r)
         \/ changeCurrentIndex(r)

Spec == Init /\ [][Next]_vars

-----------------------------------------------------------------------------
\* What each variable may hold.
TypeOK == RCDs \in [Rcds -> rcd] /\ block \in Blocks

\* A receiver that has read the current chain's first hash may keep it: what is
\* stored at the current index and below never changes again, and no transaction
\* (a second registration, a late storeKey) moves the index back.
ActiveChainsFrozen ==
    [][\A r \in Rcds :
         /\ RCDs[r].currentIndex <= RCDs'[r].currentIndex
         /\ \A i \in 1..RCDs[r].currentIndex : RCDs'[r].chains[i] = RCDs[r].chains[i]]_vars

\* The windows of a device's chains, stored or current, follow one another: a block
\* belongs to one chain of a device at most.
Disjoint(r) ==
    \A i, j \in Index :
        i < j /\ RCDs[r].chains[i].isIndexExist /\ RCDs[r].chains[j].isIndexExist
            => RCDs[r].chains[i].endTime < RCDs[r].chains[j].startTime

\* storeKey's message: "New keychain can only be started after the old keychain ends".
WindowsDisjoint == \A r \in Rcds : Disjoint(r)

\* Once a device has a current chain, getKey returns a stored key.
ActiveKeyStored ==
    \A r \in Rcds : RCDs[r].currentIndex # 0 => getKey(r).isIndexExist

\* When the chain after the current one is stored, the current one is over.
Activable(r) ==
    LET i == RCDs[r].currentIndex
    IN  i \in 1..(MaxIndex - 1) /\ RCDs[r].chains[i + 1].isIndexExist
            => RCDs[r].chains[i].endTime < block
===============================================================================
