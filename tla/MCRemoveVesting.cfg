\* Two symbols, amounts 1 and 2, up to two entries, -a with up to two names
\* (repeats included).
CONSTANTS
    Symbols = {"A", "B"}
    Amounts = {1, 2}
    MaxEntries = 2
    MaxVesting = 1
    MaxRemoved = 2
    NoOutput = NoOutput
SPECIFICATION Spec
INVARIANT NoDanglingAssetReference
