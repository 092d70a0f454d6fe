\* A genesis with a committee candidate.
CONSTANTS
    Names <- MCNames
    Begins <- MCBegins
    RefOrder <- MCRefOrder
    Committee = "initial_committee_candidates"
    MaxAccounts = 1
    MaxCommittee = 1
    NoOutput = NoOutput
SPECIFICATION Spec

INVARIANT NoCrash
