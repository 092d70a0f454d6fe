\* Valid configurations; with the default output "-" the write fails.
CONSTANTS
    Keys = {1, 2}
    Categories = {"owner_key", "block_signing_key"}
    Nums = {1, 2}
    Sizes = {9, 16}
    Algorithms = {"sha256"}
    Hashlib = {"sha256"}
    Outputs = {"-", "genesis.bloom"}
    Stdout = "-"
    DigestVals <- MCDigestVals
    NoArtifact = NoArtifact
SPECIFICATION Spec
INVARIANT OnlyBadConfigFails
