-------------------------- MODULE BloomFilterBuild --------------------------
(***************************************************************************)
(* What the Bloom-filter builder of programs/genesis_util/                 *)
(* create_bloom_filter.py promises, stated as one atomic step: a build     *)
(* either stops without emitting anything, or emits exactly the buffer in  *)
(* which bit  digest("i:k") mod size  is set for every key k of the        *)
(* genesis and every probe index i < num, and no other bit; and it emits   *)
(* only when num >= 1, size >= 1 and the digest algorithm exists.          *)
(*                                                                         *)
(* The buffer is written here as a set of addresses packed into bytes by   *)
(* arithmetic (bit j of byte b is address 8*b + j), not by the loop of the *)
(* code, so that BloomFilter can be checked against it.                    *)
(***************************************************************************)
EXTENDS Integers, FiniteSets, FiniteSetsExt

CONSTANTS
    Keys,           \* the public keys that may occur in a genesis file
    Categories,     \* the record fields the keys are collected from
    Nums,           \* values tried for --num (hashes per key)
    Sizes,          \* values tried for --size (bits in the filter)
    Algorithms,     \* values tried for --algorithm
    Hashlib,        \* the algorithm names hashlib provides
    Outputs,        \* values tried for --output
    DigestVals,     \* the digests (as integers) a probe string may hash to
    NoArtifact      \* no output file has been written

MaxNum == Max(Nums \cup {1})

\* A probe "<i>:<k>" is injective in (i, k): i has no ':' in it.
ProbeSpace == (0 .. MaxNum - 1) \X Keys

Options == [num : Nums, size : Sizes, algorithm : Algorithms, output : Outputs]

VARIABLES opts, genesis, digest, artifact, finished

avars == <<opts, genesis, digest, artifact, finished>>

KeySet(g) == UNION {g[c] : c \in Categories}

Addresses(ks, n, size, d) == {d[<<i, k>>] % size : k \in ks, i \in 0 .. n - 1}

Filter(ks, n, size, d) ==
    LET A == Addresses(ks, n, size, d)
    IN  [b \in 1 .. (size + 7) \div 8 |->
            SumSet({2^j : j \in {j \in 0 .. 7 : 8 * (b - 1) + j \in A}})]

ValidConfig(o) == o.num >= 1 /\ o.size >= 1 /\ o.algorithm \in Hashlib

AInit ==
    /\ opts \in Options
    /\ genesis \in [Categories -> SUBSET Keys]
    /\ digest \in [ProbeSpace -> DigestVals]
    /\ artifact = NoArtifact
    /\ finished = FALSE

Build ==
    /\ ~finished
    /\ finished' = TRUE
    /\ \/ artifact' = NoArtifact
       \/ /\ ValidConfig(opts)
          /\ artifact' = Filter(KeySet(genesis), opts.num, opts.size, digest)
    /\ UNCHANGED <<opts, genesis, digest>>

ASpec == AInit /\ [][Build]_avars
=============================================================================
