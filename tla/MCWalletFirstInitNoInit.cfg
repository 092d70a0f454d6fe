\* Three invocations, two keys: the wallet started before any "init".
CONSTANTS
    Keys = {K1, K2}
    K1 = K1
    K2 = K2
    MaxRuns = 3
SPECIFICATION Spec
INVARIANT SessionInWalletDir
