------------------------------ MODULE HashChain ------------------------------
(***************************************************************************)
(* Linear hash chains (pkg/hashchain/hashchain.go).                        *)
(*                                                                         *)
(* SHA-256 is ideal here: a hash value is the pair of the chain it belongs *)
(* to and its position, KeyOf(c, i) being h_i of chain c, and hashing h_i  *)
(* gives h_(i-1).  Hashing goes on below h_0, where the values belong to   *)
(* no chain anybody published (the positions below 0).  Two chains never   *)
(* meet: their seeds are 32 fresh random bytes.                            *)
(*                                                                         *)
(* A Linear is given by its seed (id), its length n and the cursor next:   *)
(* the bytes h_0 .. h_n follow from the first two.  A chain on the wire,   *)
(* read before it is known to be one, is the function 0..n -> hash value.  *)
(***************************************************************************)
EXTENDS Integers

\* h_i of the chain with seed c.
KeyOf(c, i) == [chain |-> c, idx |-> i]

Key(Ids) == [chain : Ids, idx : Int]

Hash(k) == KeyOf(k.chain, k.idx - 1)

\* Hash applied m times.
HashTimes(k, m) == KeyOf(k.chain, k.idx - m)

\* Values of a 32-byte buffer that are hashes of no chain: the zero array, and
\* what an unsynchronised reader finds halfway through a copy.
ZeroKey == KeyOf(0, 0)
TornKey == KeyOf(0, 1)

-----------------------------------------------------------------------------
Linear(Ids) == [id : Ids, n : Nat, next : Nat]

NewLinear(c, n) == [id |-> c, n |-> n, next |-> 1]

First(l) == KeyOf(l.id, 0)

Remaining(l) == l.n - l.next + 1

\* Next() returns h_next and moves the cursor; called with none remaining it
\* returns the empty slice (callers check Remaining first, or stop on it).
NextHash(l) == KeyOf(l.id, l.next)
AfterNext(l) == [l EXCEPT !.next = @ + 1]

-----------------------------------------------------------------------------
\* What the owner writes of a new chain: First(), then Next() until it returns nothing.
Written(l) == [i \in 0..l.n |-> IF i = 0 THEN First(l) ELSE KeyOf(l.id, i)]

\* verifyChain: every hash is the hash of its successor.
VerifyChain(chain, n) == \A i \in 0..(n - 1) : chain[i] = Hash(chain[i + 1])

\* NewLinearFromExisting on the n + 1 hashes read off the wire; NoLinear is the
\* error it returns for a chain that does not link.
NoLinear == [id |-> 0, n |-> 0, next |-> 0]

NewLinearFromExisting(chain, n) ==
    IF VerifyChain(chain, n) THEN NewLinear(chain[0].chain, n) ELSE NoLinear
=============================================================================
