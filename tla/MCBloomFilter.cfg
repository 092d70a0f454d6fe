\* A filter of 9 bits (two bytes, seven padding bits) and one of 16 bits,
\* one or two probes per key; the sizes -9 and 0 and an algorithm hashlib
\* does not have, which end the build with an exception.
CONSTANTS
    Keys = {1, 2}
    Categories = {"owner_key", "block_signing_key"}
    Nums = {1, 2}
    Sizes <- MCMainSizes
    Algorithms = {"sha256", "sha257"}
    Hashlib = {"sha256"}
    Outputs = {"-", "genesis.bloom"}
    Stdout = "-"
    DigestVals <- MCDigestVals
    NoArtifact = NoArtifact
SPECIFICATION Spec
INVARIANTS TypeOK BitsAreProbeAddresses NoPartialArtifact
PROPERTIES AbsSpec
