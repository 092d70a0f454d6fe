----------------------------- MODULE BloomFilter -----------------------------
(***************************************************************************)
(* main() of programs/genesis_util/create_bloom_filter.py, statement by    *)
(* statement: collect the distinct keys of the genesis, expand them into   *)
(* the probe list "<i>:<k>", allocate the byte buffer, look the digest up  *)
(* in hashlib, OR one bit per probe into the buffer, compute the Hamming   *)
(* weight and the occupancy / false-positive figures, write the buffer.   *)
(* Every Python exception the statements can raise is an action that ends *)
(* the run in pc = "failed" with the exception's name in exc.             *)
(*                                                                         *)
(* Data abstraction: a key is a natural number (sorted() needs an order); *)
(* the digest of a probe string is an integer from DigestVals, chosen per *)
(* probe in Init, so every hash function over those values is explored.   *)
(***************************************************************************)
EXTENDS Integers, Sequences, SequencesExt, FiniteSets, Bitwise

CONSTANTS Keys, Categories, Nums, Sizes, Algorithms, Hashlib, Outputs,
          DigestVals, NoArtifact,
          Stdout        \* the --output value "-" (the default)

ASSUME Keys \subseteq Nat /\ Stdout \in Outputs

VARIABLES
    opts,       \* the parsed command line
    genesis,    \* the key fields of the loaded genesis: category -> keys
    digest,     \* int(h(probe).hexdigest(), 16) for every probe
    pc,         \* the statement main() is at
    keys,       \* the local  keys  before line 44: the set of distinct keys
    probes,     \* the local  keys  after line 44: the list of probe strings
    idx,        \* how many probes the loop of line 49 has consumed
    data,       \* the bytearray, data[b + 1] is byte b
    w,          \* the Hamming weight computed at line 54
    exc,        \* the exception that ended the run, or "none"
    artifact    \* what is in the output file, or NoArtifact

vars == <<opts, genesis, digest, pc, keys, probes, idx, data, w, exc, artifact>>

\* The refinement mapping: finished is "the process has exited"; the other
\* variables of BloomFilterBuild map to the variables of the same name.
Abs == INSTANCE BloomFilterBuild WITH finished <- pc \in {"done", "failed"}

PC == {"collect", "alloc", "hash", "loop", "report", "write", "done", "failed"}

Byte == 0 .. 255

\* popcount = [bin(i).count("1") for i in range(256)]  (line 53)
RECURSIVE PopCount(_)
PopCount(x) == IF x = 0 THEN 0 ELSE (x % 2) + PopCount(x \div 2)

\* w = sum(popcount[x] for x in data)  (line 54)
HammingWeight(d) == FoldLeft(LAMBDA acc, x : acc + PopCount(x), 0, d)

\* Mutant: range(num - 1), one probe index too few per key.
ProbeListShort(ks, num) ==
    LET s == SetToSortSeq(ks, <)
        n == IF num > 1 THEN num - 1 ELSE 0
    IN  [j \in 1 .. Len(s) * n |-> <<(j - 1) % n, s[(j - 1) \div n + 1]>>]

\* [(str(i) + ":" + k) for k in sorted(keys) for i in range(num)]  (line 44)
ProbeList(ks, num) ==
    LET s == SetToSortSeq(ks, <)
        n == IF num > 0 THEN num ELSE 0
    IN  [j \in 1 .. Len(s) * n |-> <<(j - 1) % n, s[(j - 1) \div n + 1]>>]

\* int(h(k).hexdigest(), 16) % opts.size  (line 50), for size > 0
Address(p) == digest[p] % opts.size

\* The set of bit addresses that are 1 in a buffer.
SetBits(d) == {a \in 0 .. 8 * Len(d) - 1 : (d[a \div 8 + 1] & 2^(a % 8)) # 0}

Init ==
    /\ opts \in Abs!Options
    /\ genesis \in [Categories -> SUBSET Keys]
    /\ digest \in [Abs!ProbeSpace -> DigestVals]
    /\ pc = "collect"
    /\ keys = {}
    /\ probes = <<>>
    /\ idx = 0
    /\ data = <<>>
    /\ w = 0
    /\ exc = "none"
    /\ artifact = NoArtifact

Fail(e) == pc' = "failed" /\ exc' = e

\* Lines 23-42: add every owner, active, collateral, balance, vesting and
\* block-signing key to a set.
CollectKeys ==
    /\ pc = "collect"
    /\ keys' = UNION {genesis[c] : c \in Categories}
    /\ pc' = "alloc"
    /\ UNCHANGED <<opts, genesis, digest, probes, idx, data, w, exc, artifact>>

\* Lines 44-46: build the probe list, then bytearray((size + 7) >> 3), which
\* raises ValueError on a negative count.
Allocate ==
    /\ pc = "alloc"
    /\ probes' = ProbeList(keys, opts.num)
    /\ \/ /\ opts.size + 7 >= 0
          /\ data' = [b \in 1 .. (opts.size + 7) \div 8 |-> 0]
          /\ pc' = "hash"
          /\ UNCHANGED exc
       \/ /\ opts.size + 7 < 0
          /\ Fail("ValueError")
          /\ UNCHANGED data
    /\ UNCHANGED <<opts, genesis, digest, keys, idx, w, artifact>>

\* Line 48: getattr(hashlib, opts.algorithm) raises AttributeError for a
\* name hashlib does not have.
ResolveHash ==
    /\ pc = "hash"
    /\ \/ opts.algorithm \in Hashlib /\ pc' = "loop" /\ UNCHANGED exc
       \/ opts.algorithm \notin Hashlib /\ Fail("AttributeError")
    /\ UNCHANGED <<opts, genesis, digest, keys, probes, idx, data, w, artifact>>

\* Mutant: data[address >> 3] = 1 << (address & 7), the OR is lost.
SetBitOverwrite ==
    /\ pc = "loop"
    /\ idx < Len(probes)
    /\ opts.size > 0
    /\ LET address == Address(probes[idx + 1])
       IN  data' = [data EXCEPT ![shiftR(address, 3) + 1] = 2^(address & 7)]
    /\ idx' = idx + 1
    /\ UNCHANGED <<opts, genesis, digest, pc, keys, probes, w, exc, artifact>>

\* Mutant: 1 << address, the bit index is not reduced with & 7.
SetBitUnmasked ==
    /\ pc = "loop"
    /\ idx < Len(probes)
    /\ opts.size > 0
    /\ LET address == Address(probes[idx + 1])
       IN  data' = [data EXCEPT ![shiftR(address, 3) + 1] = @ | 2^address]
    /\ idx' = idx + 1
    /\ UNCHANGED <<opts, genesis, digest, pc, keys, probes, w, exc, artifact>>

\* Lines 50-51, one iteration: data[address >> 3] |= 1 << (address & 7).
SetBit ==
    /\ pc = "loop"
    /\ idx < Len(probes)
    /\ opts.size > 0
    /\ LET address == Address(probes[idx + 1])
           b == shiftR(address, 3) + 1
       IN  data' = [data EXCEPT ![b] = @ | 2^(address & 7)]
    /\ idx' = idx + 1
    /\ UNCHANGED <<opts, genesis, digest, pc, keys, probes, w, exc, artifact>>

\* Line 50 with size 0: x % 0 raises ZeroDivisionError.  With a negative
\* size the buffer has no bytes (size >= -7) and data[address >> 3] raises
\* IndexError.
SetBitFails ==
    /\ pc = "loop"
    /\ idx < Len(probes)
    /\ opts.size <= 0
    /\ Fail(IF opts.size = 0 THEN "ZeroDivisionError" ELSE "IndexError")
    /\ UNCHANGED <<opts, genesis, digest, keys, probes, idx, data, w, artifact>>

\* Mutant: the loop is left one probe early.
EndLoopEarly ==
    /\ pc = "loop"
    /\ idx >= Len(probes) - 1
    /\ pc' = "report"
    /\ UNCHANGED <<opts, genesis, digest, keys, probes, idx, data, w, exc, artifact>>

\* The for loop of line 49 runs out of probes.
EndLoop ==
    /\ pc = "loop"
    /\ idx = Len(probes)
    /\ pc' = "report"
    /\ UNCHANGED <<opts, genesis, digest, keys, probes, idx, data, w, exc, artifact>>

\* Lines 53-61: w is the popcount of the buffer; o = w / size raises
\* ZeroDivisionError for size 0, and p = o ** num raises it for o = 0 and a
\* negative num.
Report ==
    /\ pc = "report"
    /\ w' = HammingWeight(data)
    /\ \/ /\ opts.size # 0
          /\ ~(w' = 0 /\ opts.num < 0)
          /\ pc' = "write"
          /\ UNCHANGED exc
       \/ /\ opts.size = 0 \/ (w' = 0 /\ opts.num < 0)
          /\ Fail("ZeroDivisionError")
    /\ UNCHANGED <<opts, genesis, digest, keys, probes, idx, data, artifact>>

\* Lines 63-68: sys.stdout.write(data) raises TypeError under Python 3 (a
\* bytearray is not a str); a named file receives the whole buffer.
Write ==
    /\ pc = "write"
    /\ \/ /\ opts.output = Stdout
          /\ Fail("TypeError")
          /\ UNCHANGED artifact
       \/ /\ opts.output # Stdout
          /\ artifact' = data
          /\ pc' = "done"
          /\ UNCHANGED exc
    /\ UNCHANGED <<opts, genesis, digest, keys, probes, idx, data, w>>

\* The process has exited.
Terminated ==
    /\ pc \in {"done", "failed"}
    /\ UNCHANGED vars

Next ==
    \/ CollectKeys
    \/ Allocate
    \/ ResolveHash
    \/ SetBit
    \/ SetBitFails
    \/ EndLoop
    \/ Report
    \/ Write
    \/ Terminated

Spec == Init /\ [][Next]_vars /\ WF_vars(Next)

-----------------------------------------------------------------------------
TypeOK ==
    /\ opts \in Abs!Options
    /\ pc \in PC
    /\ keys \subseteq Keys
    /\ idx \in 0 .. Len(probes)
    /\ data \in Seq(Byte)
    /\ w \in Nat
    /\ artifact \in Seq(Byte) \cup {NoArtifact}

\* The buffer holds exactly the addresses of the probes the loop of lines
\* 49-51 has consumed: each one is set (no false negative, however later
\* ORs into the same byte go) and no other bit is, padding bits past size
\* in the last byte included.
BitsAreProbeAddresses ==
    pc \in {"loop", "report", "write", "done"} =>
        SetBits(data) = {Address(probes[j]) : j \in 1 .. idx}

\* An output file exists only after a run that completed: every probe was
\* consumed, and the file holds the final buffer.
NoPartialArtifact ==
    artifact # NoArtifact =>
        /\ pc = "done"
        /\ idx = Len(probes)
        /\ artifact = data

\* The statement-level run implements the one-step contract: whatever order
\* the probes are ORed in, the file written is the packed address set of
\* all keys and probe indexes, it is written once, and never on failure.
AbsSpec == Abs!ASpec

\* spec.md sections 4 and 8: hash_count = 0 or bit_size <= 0 must fail with
\* InvalidParameterError and produce no artifact.  main() validates neither
\* --num nor --size before writing the file.
ArtifactOnlyForValidConfig ==
    artifact # NoArtifact => Abs!ValidConfig(opts)

\* spec.md section 7: a build fails only on a bad configuration (unknown
\* digest, non-positive sizes); with a valid one the artifact is produced,
\* including on the default output "-".
OnlyBadConfigFails ==
    pc = "failed" => ~Abs!ValidConfig(opts)
=============================================================================
