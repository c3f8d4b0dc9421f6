---------------------------- MODULE InfTESLAProofs ----------------------------
(***************************************************************************)
(* Proofs about the contract, for any devices, accounts, keys and bounds.  *)
(*                                                                         *)
(* What holds whoever calls it: type correctness and ActiveChainsFrozen,   *)
(* which rests on UntakenFresh (a registration resets an index that is     *)
(* still 0).  What the contract needs of its callers is in ChainsInv,      *)
(* device by device: as long as each storeKey is for the index after the   *)
(* current one and for a window that begins at a block already mined,      *)
(* windows are disjoint, the current key is stored and the next chain can  *)
(* be made current.  ProvisioningIndexProofs shows for which devices the   *)
(* owner's calls are of that kind; here are the lemmas it needs.           *)
(***************************************************************************)
EXTENDS InfTESLA, TLAPS

\* An id that was never registered has no chain, current or stored.
UntakenFresh ==
    \A r \in Rcds : ~RCDs[r].isTaken =>
        /\ RCDs[r].currentIndex = 0
        /\ \A i \in Index : ~RCDs[r].chains[i].isIndexExist

\* Chains are stored without gaps, up to one beyond the current index.
StoredPrefix(r) ==
    \A i \in Index :
        /\ i \in 1..RCDs[r].currentIndex => RCDs[r].chains[i].isIndexExist
        /\ RCDs[r].chains[i].isIndexExist =>
               i # 0 /\ RCDs[r].currentIndex # 0 /\ i <= RCDs[r].currentIndex + 1

\* A stored chain has a window, and it begins at a block already mined.
WindowsWellFormed(r) ==
    \A i \in Index :
        RCDs[r].chains[i].isIndexExist =>
            /\ RCDs[r].chains[i].startTime <= RCDs[r].chains[i].endTime
            /\ RCDs[r].chains[i].startTime <= block

ChainsInv(r) == StoredPrefix(r) /\ WindowsWellFormed(r) /\ Disjoint(r)

-----------------------------------------------------------------------------
(* What each transaction does to the record of its device, field by field.   *)

LEMMA FieldTypes ==
    ASSUME TypeOK, NEW r \in Rcds
    PROVE  /\ RCDs[r] \in rcd
           /\ RCDs[r].isTaken \in BOOLEAN
           /\ RCDs[r].currentIndex \in Index
           /\ RCDs[r].chains \in [Index -> Entry]
           /\ \A i \in Index : /\ RCDs[r].chains[i].startTime \in Blocks
                               /\ RCDs[r].chains[i].endTime \in Blocks
                               /\ RCDs[r].chains[i].isIndexExist \in BOOLEAN
  BY DEF TypeOK, rcd, Entry

LEMMA RegOwnerEffect ==
    ASSUME TypeOK, NEW r \in Rcds, NEW sender \in Accounts, NEW owner \in Accounts,
           regOwner(sender, owner, r)
    PROVE  /\ ~RCDs[r].isTaken
           /\ RCDs' \in [Rcds -> rcd]
           /\ \A s \in Rcds \ {r} : RCDs'[s] = RCDs[s]
           /\ RCDs'[r].isTaken
           /\ RCDs'[r].owner = owner
           /\ RCDs'[r].currentIndex = 0
           /\ RCDs'[r].chains = RCDs[r].chains
           /\ block' = block
<1> DEFINE new == [RCDs[r] EXCEPT !.owner = owner, !.isTaken = TRUE, !.currentIndex = 0]
<1>1. RCDs' = [RCDs EXCEPT ![r] = new]
  BY DEF regOwner, TypeOK, rcd
<1>2. new \in rcd
  <2>1. 0 \in Index
    BY ContractAssumption DEF Index
  <2> QED
    BY <2>1, FieldTypes DEF rcd
<1>3. new.isTaken /\ new.owner = owner /\ new.currentIndex = 0 /\ new.chains = RCDs[r].chains
  BY DEF TypeOK, rcd
<1>4. ~RCDs[r].isTaken /\ block' = block
  BY DEF regOwner, CanRegOwner
<1> HIDE DEF new
<1> QED
  BY <1>1, <1>2, <1>3, <1>4 DEF TypeOK

LEMMA StoreKeyEffect ==
    ASSUME TypeOK, NEW r \in Rcds, NEW sender \in Accounts, NEW index \in Index,
           NEW key \in Keys, NEW start \in Blocks, NEW end \in Blocks,
           storeKey(sender, r, index, key, start, end)
    PROVE  /\ RCDs[r].isTaken
           /\ index > RCDs[r].currentIndex
           /\ RCDs[r].currentIndex # 0 => RCDs[r].chains[index - 1].endTime < start
           /\ RCDs' \in [Rcds -> rcd]
           /\ \A s \in Rcds \ {r} : RCDs'[s] = RCDs[s]
           /\ RCDs'[r].isTaken
           /\ RCDs'[r].owner = RCDs[r].owner
           /\ RCDs'[r].currentIndex =
                  IF RCDs[r].currentIndex = 0 THEN 1 ELSE RCDs[r].currentIndex
           /\ \A i \in Index \ {index} : RCDs'[r].chains[i] = RCDs[r].chains[i]
           /\ RCDs'[r].chains[index].startTime = start
           /\ RCDs'[r].chains[index].endTime = end
           /\ RCDs'[r].chains[index].isIndexExist
           /\ block' = block
<1> DEFINE entry == [key |-> key, startTime |-> start, endTime |-> end, isIndexExist |-> TRUE]
           chains == [RCDs[r].chains EXCEPT ![index] = entry]
           new == [RCDs[r] EXCEPT !.chains = chains, !.currentIndex = Activated(r)]
<1>1. RCDs' = [RCDs EXCEPT ![r] = new]
  BY DEF storeKey, TypeOK, rcd
<1>2. entry \in Entry
  BY DEF Entry
<1>3. chains \in [Index -> Entry]
  BY <1>2, FieldTypes
<1>4. Activated(r) \in Index
  BY FieldTypes, ContractAssumption DEF Activated, Index
<1>5. new \in rcd
  BY <1>3, <1>4, FieldTypes DEF rcd
<1>6. /\ new.isTaken = RCDs[r].isTaken /\ new.owner = RCDs[r].owner
      /\ new.currentIndex = Activated(r) /\ new.chains = chains
  BY FieldTypes DEF rcd
<1>7. \A i \in Index \ {index} : chains[i] = RCDs[r].chains[i]
  BY FieldTypes
<1>8. chains[index] = entry
  BY FieldTypes
<1>9. /\ RCDs[r].isTaken
      /\ index > RCDs[r].currentIndex
      /\ RCDs[r].currentIndex # 0 => RCDs[r].chains[index - 1].endTime < start
      /\ block' = block
  BY DEF storeKey, CanStoreKey, FutureIndex, AfterPrevious
<1>10. /\ RCDs' \in [Rcds -> rcd]
       /\ \A s \in Rcds \ {r} : RCDs'[s] = RCDs[s]
       /\ RCDs'[r] = new
  <2> HIDE DEF new
  <2> QED
    BY <1>1, <1>5 DEF TypeOK
<1>11. entry.startTime = start /\ entry.endTime = end /\ entry.isIndexExist
  OBVIOUS
<1> HIDE DEF new, chains, entry
<1> QED
  BY <1>6, <1>7, <1>8, <1>9, <1>10, <1>11 DEF Activated

LEMMA StoreKeyEntry ==
    ASSUME TypeOK, NEW r \in Rcds, NEW sender \in Accounts, NEW index \in Index,
           NEW key \in Keys, NEW start \in Blocks, NEW end \in Blocks,
           storeKey(sender, r, index, key, start, end)
    PROVE  RCDs'[r].chains[index] = [key |-> key, startTime |-> start, endTime |-> end,
                                     isIndexExist |-> TRUE]
  BY FieldTypes DEF storeKey, TypeOK, rcd

LEMMA ChangeCurrentIndexEffect ==
    ASSUME TypeOK, NEW r \in Rcds, changeCurrentIndex(r)
    PROVE  /\ RCDs[r].currentIndex + 1 \in Index
           /\ RCDs[r].chains[RCDs[r].currentIndex].endTime < block
           /\ RCDs[r].chains[RCDs[r].currentIndex + 1].isIndexExist
           /\ RCDs' \in [Rcds -> rcd]
           /\ \A s \in Rcds \ {r} : RCDs'[s] = RCDs[s]
           /\ RCDs'[r].isTaken = RCDs[r].isTaken
           /\ RCDs'[r].owner = RCDs[r].owner
           /\ RCDs'[r].currentIndex = RCDs[r].currentIndex + 1
           /\ RCDs'[r].chains = RCDs[r].chains
           /\ block' = block
<1> DEFINE new == [RCDs[r] EXCEPT !.currentIndex = RCDs[r].currentIndex + 1]
<1>1. RCDs' = [RCDs EXCEPT ![r] = new]
  BY DEF changeCurrentIndex, TypeOK, rcd
<1>2. RCDs[r].currentIndex + 1 \in Index
  BY FieldTypes, ContractAssumption DEF changeCurrentIndex, CanChange, Index
<1>3. new \in rcd
  BY <1>2, FieldTypes DEF rcd
<1>4. /\ new.isTaken = RCDs[r].isTaken
      /\ new.owner = RCDs[r].owner
      /\ new.currentIndex = RCDs[r].currentIndex + 1
      /\ new.chains = RCDs[r].chains
  BY FieldTypes DEF rcd
<1> HIDE DEF new
<1> QED
  BY <1>1, <1>2, <1>3, <1>4 DEF changeCurrentIndex, CanChange, TypeOK

-----------------------------------------------------------------------------
(* Type correctness.                                                         *)

LEMMA InitTypeOK == Init => TypeOK
  BY ContractAssumption DEF Init, TypeOK, rcd, Entry, NoEntry, Index, Blocks

LEMMA NextTypeOK == TypeOK /\ [Next]_vars => TypeOK'
<1> SUFFICES ASSUME TypeOK, [Next]_vars PROVE TypeOK'
  OBVIOUS
<1>1. CASE NewBlock
  BY <1>1, ContractAssumption DEF NewBlock, TypeOK, Blocks
<1>2. ASSUME NEW r \in Rcds, NEW sender \in Accounts, NEW owner \in Accounts,
             regOwner(sender, owner, r)
      PROVE  TypeOK'
  BY <1>2, RegOwnerEffect DEF TypeOK
<1>3. ASSUME NEW r \in Rcds, Store(r) PROVE TypeOK'
  <2>1. PICK sender \in Accounts, index \in Index, key \in Keys, start \in Blocks, end \in Blocks :
            storeKey(sender, r, index, key, start, end)
    BY <1>3 DEF Store
  <2> QED
    BY <2>1, StoreKeyEffect DEF TypeOK
<1>4. ASSUME NEW r \in Rcds, changeCurrentIndex(r) PROVE TypeOK'
  BY <1>4, ChangeCurrentIndexEffect DEF TypeOK
<1>5. CASE UNCHANGED vars
  BY <1>5 DEF vars, TypeOK
<1> QED
  BY <1>1, <1>2, <1>3, <1>4, <1>5 DEF Next

\* Every transaction keeps the types, whoever sends it.
THEOREM ContractTypeOK == Spec => []TypeOK
  BY InitTypeOK, NextTypeOK, PTL DEF Spec

-----------------------------------------------------------------------------
(* Whoever calls: the current chain and those before it do not change.       *)

LEMMA InitUntakenFresh == Init => UntakenFresh
  BY DEF Init, UntakenFresh, NoEntry

LEMMA NextUntakenFresh == TypeOK /\ UntakenFresh /\ [Next]_vars => UntakenFresh'
<1> SUFFICES ASSUME TypeOK, UntakenFresh, [Next]_vars PROVE UntakenFresh'
  OBVIOUS
<1>1. CASE UNCHANGED RCDs
  BY <1>1 DEF UntakenFresh
<1>2. ASSUME NEW r \in Rcds, NEW sender \in Accounts, NEW owner \in Accounts,
             regOwner(sender, owner, r)
      PROVE  UntakenFresh'
  BY <1>2, RegOwnerEffect DEF UntakenFresh
<1>3. ASSUME NEW r \in Rcds, Store(r) PROVE UntakenFresh'
  <2>1. PICK sender \in Accounts, index \in Index, key \in Keys, start \in Blocks, end \in Blocks :
            storeKey(sender, r, index, key, start, end)
    BY <1>3 DEF Store
  <2> QED
    BY <2>1, StoreKeyEffect DEF UntakenFresh
<1>4. ASSUME NEW r \in Rcds, changeCurrentIndex(r) PROVE UntakenFresh'
  <2>1. RCDs[r].isTaken
    BY <1>4, ChangeCurrentIndexEffect DEF UntakenFresh
  <2> QED
    BY <1>4, <2>1, ChangeCurrentIndexEffect DEF UntakenFresh
<1> QED
  BY <1>1, <1>2, <1>3, <1>4 DEF Next, NewBlock, vars

LEMMA FrozenStep ==
    ASSUME TypeOK, UntakenFresh, [Next]_vars, NEW r \in Rcds
    PROVE  /\ RCDs[r].currentIndex <= RCDs'[r].currentIndex
           /\ \A i \in 1..RCDs[r].currentIndex : RCDs'[r].chains[i] = RCDs[r].chains[i]
<1> DEFINE Frozen == /\ RCDs[r].currentIndex <= RCDs'[r].currentIndex
                     /\ \A i \in 1..RCDs[r].currentIndex :
                           RCDs'[r].chains[i] = RCDs[r].chains[i]
<1>1. RCDs[r].currentIndex \in Nat /\ 1..RCDs[r].currentIndex \subseteq Index
  BY FieldTypes, ContractAssumption DEF Index
<1>2. CASE RCDs'[r] = RCDs[r]
  BY <1>1, <1>2
<1>3. ASSUME NEW s \in Rcds, NEW sender \in Accounts, NEW owner \in Accounts,
             regOwner(sender, owner, s)
      PROVE  Frozen
  <2>1. CASE s = r
    BY <1>3, <2>1, RegOwnerEffect DEF UntakenFresh
  <2>2. CASE s # r
    BY <1>2, <1>3, <2>2, RegOwnerEffect
  <2> QED
    BY <2>1, <2>2
<1>4. ASSUME NEW s \in Rcds, Store(s) PROVE Frozen
  <2>1. PICK sender \in Accounts, index \in Index, key \in Keys, start \in Blocks, end \in Blocks :
            storeKey(sender, s, index, key, start, end)
    BY <1>4 DEF Store
  <2>2. CASE s = r
    <3>1. \A i \in 1..RCDs[r].currentIndex : i # index
      BY <1>1, <2>1, <2>2, StoreKeyEffect DEF Index
    <3>2. \A i \in 1..RCDs[r].currentIndex : RCDs'[r].chains[i] = RCDs[r].chains[i]
      BY <1>1, <2>1, <2>2, <3>1, StoreKeyEffect
    <3> QED
      BY <1>1, <2>1, <2>2, <3>2, StoreKeyEffect
  <2>3. CASE s # r
    BY <1>2, <2>1, <2>3, StoreKeyEffect
  <2> QED
    BY <2>2, <2>3
<1>5. ASSUME NEW s \in Rcds, changeCurrentIndex(s) PROVE Frozen
  <2>1. CASE s = r
    BY <1>1, <1>5, <2>1, ChangeCurrentIndexEffect
  <2>2. CASE s # r
    BY <1>2, <1>5, <2>2, ChangeCurrentIndexEffect
  <2> QED
    BY <2>1, <2>2
<1> QED
  BY <1>2, <1>3, <1>4, <1>5 DEF Next, NewBlock, vars

\* Whatever transactions are sent, what a receiver has read with getKey stays true
\* of that chain, and the current index never goes back.
THEOREM ContractFreezesActiveChains == Spec => ActiveChainsFrozen
<1>1. Init => TypeOK /\ UntakenFresh
  BY InitTypeOK, InitUntakenFresh
<1>2. TypeOK /\ UntakenFresh /\ [Next]_vars => (TypeOK /\ UntakenFresh)'
  BY NextTypeOK, NextUntakenFresh
<1> DEFINE Frozen == \A r \in Rcds :
             /\ RCDs[r].currentIndex <= RCDs'[r].currentIndex
             /\ \A i \in 1..RCDs[r].currentIndex : RCDs'[r].chains[i] = RCDs[r].chains[i]
<1>3. TypeOK /\ UntakenFresh /\ [Next]_vars => [Frozen]_vars
  BY FrozenStep
<1> QED
  BY <1>1, <1>2, <1>3, PTL DEF Spec, ActiveChainsFrozen

-----------------------------------------------------------------------------
(* A device whose owner stores the index after the current one, for a window *)
(* that begins at a block already mined.                                     *)

\* A chain that is stored next begins after every stored chain ends.
LEMMA StoreKeepsChains ==
    ASSUME TypeOK, NEW r \in Rcds, ChainsInv(r), NEW sender \in Accounts,
           NEW index \in Index, NEW key \in Keys, NEW start \in Blocks, NEW end \in Blocks,
           storeKey(sender, r, index, key, start, end),
           index <= RCDs[r].currentIndex + 1, start <= block, start <= end
    PROVE  ChainsInv(r)'
<1> DEFINE old == RCDs[r].chains
           new == RCDs'[r].chains
           cur == RCDs[r].currentIndex
<1>1. /\ \A i \in Index \ {index} : new[i] = old[i]
      /\ new[index].startTime = start /\ new[index].endTime = end /\ new[index].isIndexExist
      /\ RCDs'[r].currentIndex = IF cur = 0 THEN 1 ELSE cur
      /\ cur # 0 => old[index - 1].endTime < start
      /\ index > cur
      /\ block' = block
  BY StoreKeyEffect
<1>2. cur \in Nat /\ index = cur + 1 /\ index \in Nat /\ start <= end /\ start <= block
  BY <1>1, FieldTypes DEF Index
<1>3. \A i \in Index : i \in Nat
  BY DEF Index
<1>4. \A i \in Index : old[i].isIndexExist /\ i # index => i \in 1..cur
  <2> SUFFICES ASSUME NEW i \in Index, old[i].isIndexExist, i # index PROVE i \in 1..cur
    OBVIOUS
  <2>1. i # 0 /\ i <= cur + 1
    BY DEF ChainsInv, StoredPrefix
  <2>2. i \in Nat /\ i # cur + 1
    BY <1>2, <1>3
  <2> HIDE DEF cur
  <2> QED
    BY <1>2, <2>1, <2>2
<1>5. StoredPrefix(r)'
  <2> SUFFICES ASSUME NEW i \in Index
               PROVE  /\ i \in 1..RCDs'[r].currentIndex => new[i].isIndexExist
                      /\ new[i].isIndexExist =>
                            /\ i # 0 /\ RCDs'[r].currentIndex # 0
                            /\ i <= RCDs'[r].currentIndex + 1
    BY DEF StoredPrefix
  <2>1. CASE i = index
    BY <1>1, <1>2, <2>1
  <2>2. CASE i # index
    <3>1. new[i] = old[i]
      BY <1>1, <2>2
    <3>2. i \in 1..cur => old[i].isIndexExist
      BY <2>2 DEF ChainsInv, StoredPrefix
    <3>3. cur = 0 => ~old[i].isIndexExist
      BY <2>2 DEF ChainsInv, StoredPrefix
    <3> QED
      BY <1>1, <1>2, <1>3, <1>4, <2>2, <3>1, <3>2, <3>3
  <2> QED
    BY <2>1, <2>2
<1>6. WindowsWellFormed(r)'
  <2> SUFFICES ASSUME NEW i \in Index, new[i].isIndexExist
               PROVE  new[i].startTime <= new[i].endTime /\ new[i].startTime <= block'
    BY DEF WindowsWellFormed
  <2>1. CASE i = index
    BY <1>1, <1>2, <2>1
  <2>2. CASE i # index
    BY <1>1, <2>2 DEF ChainsInv, WindowsWellFormed
  <2> QED
    BY <2>1, <2>2
<1>7. \A i \in Index : old[i].isIndexExist /\ i # index => old[i].endTime < start
  <2> SUFFICES ASSUME NEW i \in Index, old[i].isIndexExist, i # index
               PROVE  old[i].endTime < start
    OBVIOUS
  <2>1. i \in 1..cur /\ cur \in Index /\ index - 1 = cur /\ cur # 0
    BY <1>2, <1>4, FieldTypes
  <2>2. old[cur].endTime < start
    BY <1>1, <2>1
  <2>3. CASE i = cur
    BY <2>2, <2>3
  <2>4. CASE i < cur
    <3>1. old[cur].isIndexExist
      BY <1>2, <2>1 DEF ChainsInv, StoredPrefix
    <3>2. old[i].endTime < old[cur].startTime
      BY <2>1, <2>4, <3>1 DEF ChainsInv, Disjoint
    <3>3. old[cur].startTime <= old[cur].endTime
      BY <2>1, <3>1 DEF ChainsInv, WindowsWellFormed
    <3>4. /\ old[i].endTime \in Nat /\ old[cur].startTime \in Nat
          /\ old[cur].endTime \in Nat /\ start \in Nat
      BY <2>1, FieldTypes DEF Blocks
    <3> QED
      BY <2>2, <3>2, <3>3, <3>4
  <2> QED
    BY <1>2, <2>1, <2>3, <2>4
<1>8. Disjoint(r)'
  <2> SUFFICES ASSUME NEW i \in Index, NEW j \in Index, i < j,
                      new[i].isIndexExist, new[j].isIndexExist
               PROVE  new[i].endTime < new[j].startTime
    BY DEF Disjoint
  <2>1. CASE i # index /\ j # index
    BY <1>1, <2>1 DEF ChainsInv, Disjoint
  <2>2. CASE j = index
    BY <1>1, <1>3, <1>7, <2>2
  <2>3. CASE i = index /\ j # index
    BY <1>1, <1>2, <1>3, <1>4, <2>3
  <2> QED
    BY <2>1, <2>2, <2>3
<1> QED
  BY <1>5, <1>6, <1>8 DEF ChainsInv

LEMMA ChangeKeepsChains ==
    ASSUME TypeOK, NEW r \in Rcds, ChainsInv(r), changeCurrentIndex(r)
    PROVE  ChainsInv(r)'
<1>1. /\ RCDs'[r].chains = RCDs[r].chains
      /\ RCDs'[r].currentIndex = RCDs[r].currentIndex + 1
      /\ RCDs[r].chains[RCDs[r].currentIndex + 1].isIndexExist
      /\ block' = block
  BY ChangeCurrentIndexEffect
<1>2. RCDs[r].currentIndex \in Nat /\ \A i \in Index : i \in Nat
  BY FieldTypes DEF Index
<1>3. StoredPrefix(r)'
  <2> SUFFICES ASSUME NEW i \in Index
               PROVE  /\ i \in 1..(RCDs[r].currentIndex + 1) => RCDs[r].chains[i].isIndexExist
                      /\ RCDs[r].chains[i].isIndexExist =>
                            /\ i # 0 /\ RCDs[r].currentIndex + 1 # 0
                            /\ i <= RCDs[r].currentIndex + 2
    BY <1>1, <1>2 DEF StoredPrefix
  <2>1. /\ i \in 1..RCDs[r].currentIndex => RCDs[r].chains[i].isIndexExist
        /\ RCDs[r].chains[i].isIndexExist => i # 0 /\ i <= RCDs[r].currentIndex + 1
    BY DEF ChainsInv, StoredPrefix
  <2> QED
    BY <1>1, <1>2, <2>1
<1> QED
  BY <1>1, <1>3 DEF ChainsInv, WindowsWellFormed, Disjoint

\* A step that does not touch a device's chains, and may mine a block.
LEMMA SameKeepsChains ==
    ASSUME TypeOK, TypeOK', NEW r \in Rcds, ChainsInv(r),
           RCDs'[r].chains = RCDs[r].chains, RCDs'[r].currentIndex = RCDs[r].currentIndex,
           block' >= block
    PROVE  ChainsInv(r)'
<1>1. ASSUME NEW i \in Index, RCDs[r].chains[i].isIndexExist
      PROVE  /\ RCDs[r].chains[i].startTime <= RCDs[r].chains[i].endTime
             /\ RCDs[r].chains[i].startTime <= block'
  <2>1. RCDs[r].chains[i].startTime \in Nat /\ block \in Nat /\ block' \in Nat
    BY FieldTypes DEF TypeOK, Blocks
  <2> QED
    BY <1>1, <2>1 DEF ChainsInv, WindowsWellFormed
<1>2. WindowsWellFormed(r)'
  BY <1>1 DEF WindowsWellFormed
<1> QED
  BY <1>2 DEF ChainsInv, StoredPrefix, Disjoint

LEMMA ChainsInvImplies ==
    ASSUME TypeOK, NEW r \in Rcds, ChainsInv(r)
    PROVE  /\ Disjoint(r)
           /\ RCDs[r].currentIndex # 0 => getKey(r).isIndexExist
           /\ Activable(r)
<1>1. RCDs[r].currentIndex \in Index /\ RCDs[r].currentIndex \in Nat
  BY FieldTypes, ContractAssumption DEF Index
<1>2. RCDs[r].currentIndex # 0 => getKey(r).isIndexExist
  BY <1>1 DEF ChainsInv, StoredPrefix, getKey
<1>3. ASSUME RCDs[r].currentIndex \in 1..(MaxIndex - 1),
             RCDs[r].chains[RCDs[r].currentIndex + 1].isIndexExist
      PROVE  RCDs[r].chains[RCDs[r].currentIndex].endTime < block
  <2> DEFINE i == RCDs[r].currentIndex
  <2>1. i \in Index /\ i + 1 \in Index /\ i < i + 1 /\ i \in 1..i
    BY <1>1, <1>3, ContractAssumption DEF Index
  <2>2. RCDs[r].chains[i].isIndexExist
    BY <2>1 DEF ChainsInv, StoredPrefix
  <2>3. RCDs[r].chains[i].endTime < RCDs[r].chains[i + 1].startTime
    BY <1>3, <2>1, <2>2 DEF ChainsInv, Disjoint
  <2>4. RCDs[r].chains[i + 1].startTime <= block
    BY <1>3, <2>1 DEF ChainsInv, WindowsWellFormed
  <2>5. /\ RCDs[r].chains[i].endTime \in Nat /\ block \in Nat
        /\ RCDs[r].chains[i + 1].startTime \in Nat
    BY <2>1, FieldTypes DEF TypeOK, Blocks
  <2> QED
    BY <2>3, <2>4, <2>5
<1> QED
  BY <1>2, <1>3 DEF ChainsInv, Activable
===============================================================================
