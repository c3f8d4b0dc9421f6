-------------------------------- MODULE Bloom --------------------------------
(***************************************************************************)
(* The Bloom filter of a batch (pkg/bloom/bloom.go).  The bytes of the     *)
(* bitset stand for the set of the bits that are set in them.  A message's *)
(* two hashes are given, for false positives depend on them: the words     *)
(* they are taken from are 64 bits wide in the code.                       *)
(***************************************************************************)
EXTENDS Integers, FiniteSets

CONSTANTS
    Data,        \* what is put into filters
    Hash1,       \* of each, FNV-1a
    Hash2,       \* of each, FNV-1a of it and one byte more
    Word,        \* 2^64 in the code
    HeaderWord   \* 2^32 in the code

ASSUME BloomAssumption ==
    /\ Word \in Nat \ {0}
    /\ HeaderWord \in Nat \ {0}
    /\ Hash1 \in [Data -> 0..(Word - 1)]
    /\ Hash2 \in [Data -> 0..(Word - 1)]

CeilDiv(a, b) == (a + b - 1) \div b

\* ceil(-n * ln(0.01) / ln(2)^2) bits for n entries, and ceil(bits / n * ln(2)) hashes.
Bits(n) == CeilDiv(958506 * n, 100000)
Hashes(n) == CeilDiv(693147 * Bits(n), 1000000 * n)

\* The bit that hash i of d selects in a filter; the sum wraps.
BitOf(f, d, i) == ((Hash1[d] + i * Hash2[d]) % Word) % f.m

\* One hash too many is looked at.
M_PositionsOneMore(f, d) == {BitOf(f, d, i) : i \in 0..f.k}
Positions(f, d) == {BitOf(f, d, i) : i \in 0..(f.k - 1)}

\* The empty filter for n entries.
New(n) == [bitset |-> {}, k |-> Hashes(n), m |-> Bits(n)]

Add(f, d) == [f EXCEPT !.bitset = @ \union Positions(f, d)]

\* One Add for each of a batch, in any order.
Added(f, batch) == [f EXCEPT !.bitset = @ \union UNION {Positions(f, d) : d \in batch}]

M_CheckOneMore(f, d) == M_PositionsOneMore(f, d) \subseteq f.bitset
Check(f, d) == Positions(f, d) \subseteq f.bitset

\* m and k go as 32-bit words before the bitset.
Bytes(f) == <<f.m % HeaderWord, f.k % HeaderWord, f.bitset>>
FromBytes(b) == [bitset |-> b[3], k |-> b[2], m |-> b[1]]

FilterOf(batch) == Added(New(Cardinality(batch)), batch)
==============================================================================
