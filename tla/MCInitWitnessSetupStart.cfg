\* --witness 2: the node runs the witnesses from 1.6.2 on.
CONSTANTS
    Secrets = {NoSecret, S1}
    NoSecret = NoSecret
    S1 = S1
    Nums = {0, 1, 2, 3}
    Starts = {2}
    MNames = {NoMName}
    NoMName = NoMName
    NoOutput = NoOutput
SPECIFICATION Spec
INVARIANT ConfigKeysMatchGenesis
