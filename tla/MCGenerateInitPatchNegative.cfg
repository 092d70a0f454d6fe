\* --num -1, which argparse accepts as an int, next to 0 to 2.
CONSTANTS
    Secrets = {S1}
    NoSecret = NoSecret
    S1 = S1
    Nums <- MCNums
    NoOutput = NoOutput
SPECIFICATION Spec
INVARIANT ActiveCountMatches
