\* apply_patch.py: two delta files at most over two fields, one missing
\* file name.  change_key_prefix.py: up to three key fields.  remove.py: two
\* symbols, amounts 1 and 2, up to two entries, -a with up to two names.
\* unprefix_names.py: genesis from a file or standard input, names from a
\* file, standard input or missing, up to two lines and two accounts.
\* change_bitasset_owners.py: up to three assets.  Witness generators:
\* --num -1 to 3, default --witness and --mname.  generate_account_patch.py: up to two
\* entries of two names with up to two balances.  wallet_first_init.py:
\* three invocations, two keys.
CONSTANTS
    Idle = Idle
    NoOutput = NoOutput
    Fields = {"initial_accounts", "initial_active_witnesses"}
    Genesis0s <- MCGenesis0s
    Deltas <- MCDeltas
    MaxDeltas = 2
    Eleven = Eleven
    Scalars = {Eleven}
    I0 = I0
    I1 = I1
    I2 = I2
    I3 = I3
    Items = {I0, I1, I2, I3}
    Missing = Missing
    KeyStrings <- MCKeyStrings
    FromPrefixes <- MCFromPrefixes
    ToPrefixes <- MCToPrefixes
    MaxFields = 3
    Symbols = {"A", "B"}
    Amounts = {1, 2}
    MaxEntries = 2
    MaxVesting = 1
    MaxRemoved = 2
    Lines <- MCLines
    MaxLines = 2
    AccountNames <- MCAccountNames
    MaxAccounts = 2
    InputSources = {GenesisFile, Stdin}
    NameSources = {Stdin, NamesFile, NoNames}
    Stdin = Stdin
    NoNames = NoNames
    GenesisFile = GenesisFile
    NamesFile = NamesFile
    Issuers = {WitnessAccount, CommitteeAccount, Other}
    WitnessAccount = WitnessAccount
    CommitteeAccount = CommitteeAccount
    Other = Other
    MaxAssets = 3
    Secrets = {NoSecret, S1}
    NoSecret = NoSecret
    S1 = S1
    Nums <- MCNums
    Starts = {1}
    MNames = {NoMName}
    NoMName = NoMName
    Names = {N1, N2}
    N1 = N1
    N2 = N2
    Balances = {B1, B2}
    B1 = B1
    B2 = B2
    MaxBalances = 2
    Keys = {K1, K2}
    K1 = K1
    K2 = K2
    MaxRuns = 3
SPECIFICATION Spec
INVARIANTS
    ApplyPatchTypeOK PatchedAsDeclared
    KeyPrefixTypeOK ConversionReversible AllOrNothing
    RemoveTypeOK ReportCountsInput BalancesPartitioned
    UnprefixTypeOK ListedNamesUnprefixed
    CandidatesOwnAccounts 
    ConfigKeysMatchGenesis ConfiguredWitnessesExist
    BalancesFollowAccounts
    FreshWalletAfterInit
