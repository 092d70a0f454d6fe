\* Up to three accounts over four names, one reference per field (a
\* committee candidate makes the run fail), prefix "" or "p".
CONSTANTS
    Names <- MCNames
    Begins <- MCBegins
    RefOrder <- MCRefOrder
    Committee = "initial_committee_candidates"
    MaxAccounts = 3
    MaxCommittee = 1
    NoOutput = NoOutput
SPECIFICATION Spec

INVARIANTS NoCollisionWithUnprefixed RefsFollowAccounts
PROPERTIES Terminates
