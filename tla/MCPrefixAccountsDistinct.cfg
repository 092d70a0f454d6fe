\* The accounts written out should carry distinct names.
CONSTANTS
    Names <- MCNames
    Begins <- MCBegins
    RefOrder <- MCRefOrder
    Committee = "initial_committee_candidates"
    MaxAccounts = 3
    MaxCommittee = 0
    NoOutput = NoOutput
SPECIFICATION Spec

INVARIANT FinalNamesDistinct
