---------------------------- MODULE MCBloomFilter ----------------------------
(* Model-checking instance of BloomFilter: two keys in two record fields,  *)
(* sizes and hash counts chosen per .cfg.                                  *)
EXTENDS BloomFilter

\* Three digests whose residues collide (8 and 17 mod 9), cross the byte
\* boundary and land on the single bit of the last byte of a 9-bit filter.
MCDigestVals == {5, 8, 17}

\* --size values the refinement covers: -9 makes bytearray raise, 0 divides
\* by zero; 9 and 16 are valid.
MCMainSizes == {-9, 0, 9, 16}

\* For the degenerate configurations: two bits of the same byte of a
\* 3-bit filter.
MCEdgeDigestVals == {4, 5}
\* Degenerate --size values: -9 makes bytearray raise, -3 gives an empty
\* buffer, 0 divides by zero, 3 leaves five padding bits.
MCEdgeSizes == {-9, -3, 0, 3}

\* Degenerate --num values: range() of them is empty.
MCEdgeNums == {-1, 0, 1}
=============================================================================
