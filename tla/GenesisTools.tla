---------------------------- MODULE GenesisTools ----------------------------
(***************************************************************************)
(* One invocation of a program of the genesis tool set: the programs of    *)
(* programs/genesis_util/ that rewrite or generate genesis data, and the   *)
(* first-run script of the mainnet package (over its repeated             *)
(* invocations).  The programs are separate processes with their own      *)
(* inputs; Init chooses the one that runs, and the variables the others   *)
(* use hold Idle.  The programs are modelled by the modules instantiated  *)
(* below; this module puts them side by side so that one run checks them. *)
(***************************************************************************)
EXTENDS Integers, Sequences

CONSTANTS
    Idle,                                                   \* not in use
    Fields, Genesis0s, Deltas, MaxDeltas, Scalars, Items, Missing,  \* ApplyPatch
    KeyStrings, FromPrefixes, ToPrefixes, MaxFields,        \* ChangeKeyPrefix
    Symbols, Amounts, MaxEntries, MaxVesting, MaxRemoved,   \* Remove
    Lines, MaxLines, AccountNames, MaxAccounts,             \* UnprefixNames
    InputSources, NameSources, Stdin, NoNames,
    Issuers, WitnessAccount, CommitteeAccount, MaxAssets,   \* ChangeBitassetOwners
    Secrets, NoSecret, Nums, Starts, MNames, NoMName,       \* InitWitnessSetup
    Names, Balances, MaxBalances,                           \* GenerateAccountPatch
    Keys, MaxRuns,                                          \* WalletFirstInit
    NoOutput

VARIABLES
    tool,   \* the program that runs
    genesis0, deltas, genesis, i, pc, output, fields0, frum, to, fields, pos,
    assets0, balances0, vesting, rm, assets, balances, ai, bi, removedA,
    removedB, report, accounts0, nameLines, inSrc, nmSrc, stdinRead, names,
    accounts, secret, pnum, ppc, pi, paccounts, pwits, pcommittee, poutput,
    cnum, witness, mname, cpc, ci, ids, keys, coutput, entries, pkgBin, dir,
    bin, wfile, arg, loc, runs

vars == <<tool, genesis0, deltas, genesis, i, pc, output, fields0, frum, to,
          fields, pos, assets0, balances0, vesting, rm, assets, balances, ai,
          bi, removedA, removedB, report, accounts0, nameLines, inSrc, nmSrc,
          stdinRead, names, accounts, secret, pnum, ppc, pi, paccounts, pwits,
          pcommittee, poutput, cnum, witness, mname, cpc, ci, ids, keys,
          coutput, entries, pkgBin, dir, bin, wfile, arg, loc, runs>>

AP == INSTANCE ApplyPatch   \* apply_patch.py
KP == INSTANCE ChangeKeyPrefix   \* change_key_prefix.py
RM == INSTANCE Remove   \* remove.py
UN == INSTANCE UnprefixNames   \* unprefix_names.py
BO == INSTANCE ChangeBitassetOwners   \* change_bitasset_owners.py
WS == INSTANCE InitWitnessSetup   \* generate_init_patch.py with generate_init_config.py
GA == INSTANCE GenerateAccountPatch   \* generate_account_patch.py
WF == INSTANCE WalletFirstInit   \* wallet_first_init.py

\* Per program, the variables it leaves Idle, and their initial values.
UnusedAP == <<fields0, frum, to, fields, pos, assets0, balances0, vesting, rm,
    assets, balances, ai, bi, removedA, removedB, report, accounts0,
    nameLines, inSrc, nmSrc, stdinRead, names, accounts, secret, pnum, ppc,
    pi, paccounts, pwits, pcommittee, poutput, cnum, witness, mname, cpc, ci,
    ids, keys, coutput, entries, pkgBin, dir, bin, wfile, arg, loc, runs>>
IdleAP == fields0 = Idle /\ frum = Idle /\ to = Idle /\ fields = Idle /\
    pos = Idle /\ assets0 = Idle /\ balances0 = Idle /\ vesting = Idle /\
    rm = Idle /\ assets = Idle /\ balances = Idle /\ ai = Idle /\ bi = Idle /\
    removedA = Idle /\ removedB = Idle /\ report = Idle /\ accounts0 = Idle /\
    nameLines = Idle /\ inSrc = Idle /\ nmSrc = Idle /\ stdinRead = Idle /\
    names = Idle /\ accounts = Idle /\ secret = Idle /\ pnum = Idle /\
    ppc = Idle /\ pi = Idle /\ paccounts = Idle /\ pwits = Idle /\
    pcommittee = Idle /\ poutput = Idle /\ cnum = Idle /\ witness = Idle /\
    mname = Idle /\ cpc = Idle /\ ci = Idle /\ ids = Idle /\ keys = Idle /\
    coutput = Idle /\ entries = Idle /\ pkgBin = Idle /\ dir = Idle /\
    bin = Idle /\ wfile = Idle /\ arg = Idle /\ loc = Idle /\ runs = Idle
UnusedKP == <<genesis0, deltas, genesis, i, assets0, balances0, vesting, rm,
    assets, balances, ai, bi, removedA, removedB, report, accounts0,
    nameLines, inSrc, nmSrc, stdinRead, names, accounts, secret, pnum, ppc,
    pi, paccounts, pwits, pcommittee, poutput, cnum, witness, mname, cpc, ci,
    ids, keys, coutput, entries, pkgBin, dir, bin, wfile, arg, loc, runs>>
IdleKP == genesis0 = Idle /\ deltas = Idle /\ genesis = Idle /\ i = Idle /\
    assets0 = Idle /\ balances0 = Idle /\ vesting = Idle /\ rm = Idle /\
    assets = Idle /\ balances = Idle /\ ai = Idle /\ bi = Idle /\
    removedA = Idle /\ removedB = Idle /\ report = Idle /\ accounts0 = Idle /\
    nameLines = Idle /\ inSrc = Idle /\ nmSrc = Idle /\ stdinRead = Idle /\
    names = Idle /\ accounts = Idle /\ secret = Idle /\ pnum = Idle /\
    ppc = Idle /\ pi = Idle /\ paccounts = Idle /\ pwits = Idle /\
    pcommittee = Idle /\ poutput = Idle /\ cnum = Idle /\ witness = Idle /\
    mname = Idle /\ cpc = Idle /\ ci = Idle /\ ids = Idle /\ keys = Idle /\
    coutput = Idle /\ entries = Idle /\ pkgBin = Idle /\ dir = Idle /\
    bin = Idle /\ wfile = Idle /\ arg = Idle /\ loc = Idle /\ runs = Idle
UnusedRM == <<genesis0, deltas, genesis, i, fields0, frum, to, fields, pos,
    accounts0, nameLines, inSrc, nmSrc, stdinRead, names, accounts, secret,
    pnum, ppc, pi, paccounts, pwits, pcommittee, poutput, cnum, witness,
    mname, cpc, ci, ids, keys, coutput, entries, pkgBin, dir, bin, wfile, arg,
    loc, runs>>
IdleRM == genesis0 = Idle /\ deltas = Idle /\ genesis = Idle /\ i = Idle /\
    fields0 = Idle /\ frum = Idle /\ to = Idle /\ fields = Idle /\ pos = Idle /\
    accounts0 = Idle /\ nameLines = Idle /\ inSrc = Idle /\ nmSrc = Idle /\
    stdinRead = Idle /\ names = Idle /\ accounts = Idle /\ secret = Idle /\
    pnum = Idle /\ ppc = Idle /\ pi = Idle /\ paccounts = Idle /\ pwits = Idle /\
    pcommittee = Idle /\ poutput = Idle /\ cnum = Idle /\ witness = Idle /\
    mname = Idle /\ cpc = Idle /\ ci = Idle /\ ids = Idle /\ keys = Idle /\
    coutput = Idle /\ entries = Idle /\ pkgBin = Idle /\ dir = Idle /\
    bin = Idle /\ wfile = Idle /\ arg = Idle /\ loc = Idle /\ runs = Idle
UnusedUN == <<genesis0, deltas, genesis, i, fields0, frum, to, fields,
    assets0, balances0, vesting, rm, assets, balances, ai, bi, removedA,
    removedB, report, secret, pnum, ppc, pi, paccounts, pwits, pcommittee,
    poutput, cnum, witness, mname, cpc, ci, ids, keys, coutput, entries,
    pkgBin, dir, bin, wfile, arg, loc, runs>>
IdleUN == genesis0 = Idle /\ deltas = Idle /\ genesis = Idle /\ i = Idle /\
    fields0 = Idle /\ frum = Idle /\ to = Idle /\ fields = Idle /\
    assets0 = Idle /\ balances0 = Idle /\ vesting = Idle /\ rm = Idle /\
    assets = Idle /\ balances = Idle /\ ai = Idle /\ bi = Idle /\
    removedA = Idle /\ removedB = Idle /\ report = Idle /\ secret = Idle /\
    pnum = Idle /\ ppc = Idle /\ pi = Idle /\ paccounts = Idle /\ pwits = Idle /\
    pcommittee = Idle /\ poutput = Idle /\ cnum = Idle /\ witness = Idle /\
    mname = Idle /\ cpc = Idle /\ ci = Idle /\ ids = Idle /\ keys = Idle /\
    coutput = Idle /\ entries = Idle /\ pkgBin = Idle /\ dir = Idle /\
    bin = Idle /\ wfile = Idle /\ arg = Idle /\ loc = Idle /\ runs = Idle
UnusedBO == <<genesis0, deltas, genesis, i, fields0, frum, to, fields,
    balances0, vesting, rm, balances, ai, bi, removedA, removedB, report,
    accounts0, nameLines, inSrc, nmSrc, stdinRead, names, accounts, secret,
    pnum, ppc, pi, paccounts, pwits, pcommittee, poutput, cnum, witness,
    mname, cpc, ci, ids, keys, coutput, entries, pkgBin, dir, bin, wfile, arg,
    loc, runs>>
IdleBO == genesis0 = Idle /\ deltas = Idle /\ genesis = Idle /\ i = Idle /\
    fields0 = Idle /\ frum = Idle /\ to = Idle /\ fields = Idle /\
    balances0 = Idle /\ vesting = Idle /\ rm = Idle /\ balances = Idle /\
    ai = Idle /\ bi = Idle /\ removedA = Idle /\ removedB = Idle /\
    report = Idle /\ accounts0 = Idle /\ nameLines = Idle /\ inSrc = Idle /\
    nmSrc = Idle /\ stdinRead = Idle /\ names = Idle /\ accounts = Idle /\
    secret = Idle /\ pnum = Idle /\ ppc = Idle /\ pi = Idle /\
    paccounts = Idle /\ pwits = Idle /\ pcommittee = Idle /\ poutput = Idle /\
    cnum = Idle /\ witness = Idle /\ mname = Idle /\ cpc = Idle /\ ci = Idle /\
    ids = Idle /\ keys = Idle /\ coutput = Idle /\ entries = Idle /\
    pkgBin = Idle /\ dir = Idle /\ bin = Idle /\ wfile = Idle /\ arg = Idle /\
    loc = Idle /\ runs = Idle
UnusedWS == <<genesis0, deltas, genesis, i, pc, output, fields0, frum, to,
    fields, pos, assets0, balances0, vesting, rm, assets, balances, ai, bi,
    removedA, removedB, report, accounts0, nameLines, inSrc, nmSrc, stdinRead,
    names, accounts, entries, pkgBin, dir, bin, wfile, arg, loc, runs>>
IdleWS == genesis0 = Idle /\ deltas = Idle /\ genesis = Idle /\ i = Idle /\
    pc = Idle /\ output = Idle /\ fields0 = Idle /\ frum = Idle /\ to = Idle /\
    fields = Idle /\ pos = Idle /\ assets0 = Idle /\ balances0 = Idle /\
    vesting = Idle /\ rm = Idle /\ assets = Idle /\ balances = Idle /\
    ai = Idle /\ bi = Idle /\ removedA = Idle /\ removedB = Idle /\
    report = Idle /\ accounts0 = Idle /\ nameLines = Idle /\ inSrc = Idle /\
    nmSrc = Idle /\ stdinRead = Idle /\ names = Idle /\ accounts = Idle /\
    entries = Idle /\ pkgBin = Idle /\ dir = Idle /\ bin = Idle /\
    wfile = Idle /\ arg = Idle /\ loc = Idle /\ runs = Idle
UnusedGA == <<genesis0, deltas, genesis, i, fields0, frum, to, fields,
    assets0, balances0, vesting, rm, assets, ai, bi, removedA, removedB,
    report, accounts0, nameLines, inSrc, nmSrc, stdinRead, names, pnum, ppc,
    pi, paccounts, pwits, pcommittee, poutput, cnum, witness, mname, cpc, ci,
    ids, keys, coutput, pkgBin, dir, bin, wfile, arg, loc, runs>>
IdleGA == genesis0 = Idle /\ deltas = Idle /\ genesis = Idle /\ i = Idle /\
    fields0 = Idle /\ frum = Idle /\ to = Idle /\ fields = Idle /\
    assets0 = Idle /\ balances0 = Idle /\ vesting = Idle /\ rm = Idle /\
    assets = Idle /\ ai = Idle /\ bi = Idle /\ removedA = Idle /\
    removedB = Idle /\ report = Idle /\ accounts0 = Idle /\ nameLines = Idle /\
    inSrc = Idle /\ nmSrc = Idle /\ stdinRead = Idle /\ names = Idle /\
    pnum = Idle /\ ppc = Idle /\ pi = Idle /\ paccounts = Idle /\ pwits = Idle /\
    pcommittee = Idle /\ poutput = Idle /\ cnum = Idle /\ witness = Idle /\
    mname = Idle /\ cpc = Idle /\ ci = Idle /\ ids = Idle /\ keys = Idle /\
    coutput = Idle /\ pkgBin = Idle /\ dir = Idle /\ bin = Idle /\
    wfile = Idle /\ arg = Idle /\ loc = Idle /\ runs = Idle
UnusedWF == <<genesis0, deltas, genesis, i, output, fields0, frum, to, fields,
    pos, assets0, balances0, vesting, rm, assets, balances, ai, bi, removedA,
    removedB, report, accounts0, nameLines, inSrc, nmSrc, stdinRead, names,
    accounts, secret, pnum, ppc, pi, paccounts, pwits, pcommittee, poutput,
    cnum, witness, mname, cpc, ci, ids, keys, coutput, entries>>
IdleWF == genesis0 = Idle /\ deltas = Idle /\ genesis = Idle /\ i = Idle /\
    output = Idle /\ fields0 = Idle /\ frum = Idle /\ to = Idle /\
    fields = Idle /\ pos = Idle /\ assets0 = Idle /\ balances0 = Idle /\
    vesting = Idle /\ rm = Idle /\ assets = Idle /\ balances = Idle /\
    ai = Idle /\ bi = Idle /\ removedA = Idle /\ removedB = Idle /\
    report = Idle /\ accounts0 = Idle /\ nameLines = Idle /\ inSrc = Idle /\
    nmSrc = Idle /\ stdinRead = Idle /\ names = Idle /\ accounts = Idle /\
    secret = Idle /\ pnum = Idle /\ ppc = Idle /\ pi = Idle /\
    paccounts = Idle /\ pwits = Idle /\ pcommittee = Idle /\ poutput = Idle /\
    cnum = Idle /\ witness = Idle /\ mname = Idle /\ cpc = Idle /\ ci = Idle /\
    ids = Idle /\ keys = Idle /\ coutput = Idle /\ entries = Idle

Init ==
    \E t \in {"apply_patch", "change_key_prefix", "remove", "unprefix_names",
              "change_bitasset_owners", "init_witnesses", "generate_account_patch", "wallet_first_init"} :
        /\ tool = t
        /\ t = "apply_patch" => AP!Init /\ IdleAP
        /\ t = "change_key_prefix" => KP!Init /\ IdleKP
        /\ t = "remove" => RM!Init /\ IdleRM
        /\ t = "unprefix_names" => UN!Init /\ IdleUN
        /\ t = "change_bitasset_owners" => BO!Init /\ IdleBO
        /\ t = "init_witnesses" => WS!Init /\ IdleWS
        /\ t = "generate_account_patch" => GA!Init /\ IdleGA
        /\ t = "wallet_first_init" => WF!Init /\ IdleWF

\* A step of the program that runs.
RunAP == tool = "apply_patch" /\ AP!Next /\ UNCHANGED <<tool, UnusedAP>>
RunKP == tool = "change_key_prefix" /\ KP!Next /\ UNCHANGED <<tool, UnusedKP>>
RunRM == tool = "remove" /\ RM!Next /\ UNCHANGED <<tool, UnusedRM>>
RunUN == tool = "unprefix_names" /\ UN!Next /\ UNCHANGED <<tool, UnusedUN>>
RunBO == tool = "change_bitasset_owners" /\ BO!Next /\ UNCHANGED <<tool, UnusedBO>>
RunWS == tool = "init_witnesses" /\ WS!Next /\ UNCHANGED <<tool, UnusedWS>>
RunGA == tool = "generate_account_patch" /\ GA!Next /\ UNCHANGED <<tool, UnusedGA>>
RunWF == tool = "wallet_first_init" /\ WF!Next /\ UNCHANGED <<tool, UnusedWF>>

Next ==
    RunAP \/ RunKP \/ RunRM \/ RunUN
    \/ RunBO \/ RunWS \/ RunGA \/ RunWF

Spec == Init /\ [][Next]_vars

-----------------------------------------------------------------------------
\* apply_patch.py: the genesis, the delta index and the program counter keep their types.
ApplyPatchTypeOK == tool = "apply_patch" => AP!TypeOK

\* apply_patch.py: each field ends as the last replace followed by the appends of later deltas (see ApplyPatch).
PatchedAsDeclared == tool = "apply_patch" => AP!PatchedAsDeclared

\* change_key_prefix.py: the key list keeps its length and the index stays within it.
KeyPrefixTypeOK == tool = "change_key_prefix" => KP!TypeOK

\* change_key_prefix.py: swapping the prefixes back turns every written key into its input key (see ChangeKeyPrefix).
ConversionReversible == tool = "change_key_prefix" => KP!ConversionReversible

\* change_key_prefix.py: one key without the --from prefix means nothing is written.
AllOrNothing == tool = "change_key_prefix" => KP!AllOrNothing

\* remove.py: the filtered lists and the removal counters keep their types and bounds.
RemoveTypeOK == tool = "remove" => RM!TypeOK

\* remove.py: each stderr line counts exactly the input entries of its asset (see Remove).
ReportCountsInput == tool = "remove" => RM!ReportCountsInput

\* remove.py: every balance read is kept or filed as removed, never both, never lost.
BalancesPartitioned == tool = "remove" => RM!BalancesPartitioned

\* unprefix_names.py: the accounts keep their record type and count.
UnprefixTypeOK == tool = "unprefix_names" => UN!TypeOK

\* unprefix_names.py: exactly the listed accounts are unprefixed (see UnprefixNames).
ListedNamesUnprefixed == tool = "unprefix_names" => UN!ListedNamesUnprefixed

\* generate_init_patch.py: every candidate of the patch is owned by a distinct account it appends.
CandidatesOwnAccounts == tool = "init_witnesses" => WS!Patch!CandidatesOwnAccounts

ConfigKeysMatchGenesis == tool = "init_witnesses" => WS!ConfigKeysMatchGenesis

\* generate_init_config.py with generate_init_patch.py: a configured witness id is a genesis candidate.
ConfiguredWitnessesExist == tool = "init_witnesses" => WS!ConfiguredWitnessesExist

\* generate_account_patch.py: every balance reaches the patch owned by its own account's active address.
BalancesFollowAccounts == tool = "generate_account_patch" => GA!BalancesFollowAccounts

\* wallet_first_init.py: init always starts the wallet on a fresh wallet/ directory.
FreshWalletAfterInit == tool = "wallet_first_init" => WF!FreshWalletAfterInit
=============================================================================
