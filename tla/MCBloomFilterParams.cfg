\* spec.md asks that --num 0 and a non-positive --size be rejected; the
\* code writes a filter for them.
CONSTANTS
    Keys = {1, 2}
    Categories = {"owner_key", "block_signing_key"}
    Nums <- MCEdgeNums
    Sizes <- MCEdgeSizes
    Algorithms = {"sha256", "sha257"}
    Hashlib = {"sha256"}
    Outputs = {"-", "genesis.bloom"}
    Stdout = "-"
    DigestVals <- MCEdgeDigestVals
    NoArtifact = NoArtifact
SPECIFICATION Spec
INVARIANT ArtifactOnlyForValidConfig
