------------------------------- MODULE Remove -------------------------------
(***************************************************************************)
(* main() of programs/genesis_util/remove.py: the assets named by -a are   *)
(* dropped from initial_assets (lines 32-40) and initial_balances (lines   *)
(* 42-50), one entry per loop iteration, counting what was dropped; a line *)
(* per -a name is reported on stderr (lines 53-60) and the genesis is      *)
(* written (lines 62-67).  initial_vesting_balances is left as it is       *)
(* (the TODO of line 51).                                                  *)
(*                                                                         *)
(* An asset entry is its symbol, a balance its asset_symbol and amount, a  *)
(* vesting balance its asset_symbol; -a is a list and may repeat a name.   *)
(***************************************************************************)
EXTENDS Integers, Sequences, SequencesExt, FiniteSets

CONSTANTS
    Symbols,        \* asset symbols
    Amounts,        \* balance amounts
    MaxEntries,     \* the longest initial_assets / initial_balances list
    MaxVesting,     \* the longest initial_vesting_balances list
    MaxRemoved,     \* the longest -a list
    NoOutput        \* nothing has been written

Balance == [asset_symbol : Symbols, amount : Amounts]

VARIABLES
    assets0, balances0, vesting,   \* the genesis as read
    rm,         \* opts.asset, [] when -a is absent (lines 28-29)
    assets,     \* new_initial_assets
    balances,   \* new_initial_balances
    ai,         \* iterations of the loop of line 34 done
    bi,         \* iterations of the loop of line 44 done
    removedA,   \* removed_asset_entries: symbol -> count
    removedB,   \* removed_balance_entries: symbol -> list of balances
    pc,         \* "assets", "balances", "report", "done"
    report,     \* the lines written to stderr
    output      \* the genesis written, or NoOutput

vars == <<assets0, balances0, vesting, rm, assets, balances, ai, bi,
          removedA, removedB, pc, report, output>>

RmSet == ToSet(rm)

\* Mutant: removed_asset_entries starts every count at 1.
InitCountFromOne ==
    /\ assets0 \in BoundedSeq(Symbols, MaxEntries)
    /\ balances0 \in BoundedSeq(Balance, MaxEntries)
    /\ vesting \in BoundedSeq(Symbols, MaxVesting)
    /\ rm \in BoundedSeq(Symbols, MaxRemoved)
    /\ assets = <<>> /\ balances = <<>> /\ ai = 0 /\ bi = 0
    /\ removedA = [a \in ToSet(rm) |-> 1]
    /\ removedB = [a \in ToSet(rm) |-> <<>>]
    /\ pc = "assets" /\ report = <<>> /\ output = NoOutput

Init ==
    /\ assets0 \in BoundedSeq(Symbols, MaxEntries)
    /\ balances0 \in BoundedSeq(Balance, MaxEntries)
    /\ vesting \in BoundedSeq(Symbols, MaxVesting)
    /\ rm \in BoundedSeq(Symbols, MaxRemoved)
    /\ assets = <<>>
    /\ balances = <<>>
    /\ ai = 0
    /\ bi = 0
    /\ removedA = [a \in ToSet(rm) |-> 0]
    /\ removedB = [a \in ToSet(rm) |-> <<>>]
    /\ pc = "assets"
    /\ report = <<>>
    /\ output = NoOutput

\* Mutant: removed_asset_entries[symbol] = 1, the count is not accumulated.
FilterAssetCountOnce ==
    /\ pc = "assets"
    /\ ai < Len(assets0)
    /\ LET symbol == assets0[ai + 1]
       IN  IF symbol \notin RmSet
              THEN assets' = Append(assets, symbol) /\ UNCHANGED removedA
              ELSE removedA' = [removedA EXCEPT ![symbol] = 1] /\ UNCHANGED assets
    /\ ai' = ai + 1
    /\ UNCHANGED <<assets0, balances0, vesting, rm, balances, bi, removedB,
                   pc, report, output>>

\* Lines 35-39, one iteration: keep the asset or count it as removed.
FilterAsset ==
    /\ pc = "assets"
    /\ ai < Len(assets0)
    /\ LET symbol == assets0[ai + 1]
       IN  IF symbol \notin RmSet
              THEN assets' = Append(assets, symbol) /\ UNCHANGED removedA
              ELSE removedA' = [removedA EXCEPT ![symbol] = @ + 1] /\ UNCHANGED assets
    /\ ai' = ai + 1
    /\ UNCHANGED <<assets0, balances0, vesting, rm, balances, bi, removedB,
                   pc, report, output>>

\* Line 40: the loop of line 34 is done.
EndAssets ==
    /\ pc = "assets"
    /\ ai = Len(assets0)
    /\ pc' = "balances"
    /\ UNCHANGED <<assets0, balances0, vesting, rm, assets, balances, ai, bi,
                   removedA, removedB, report, output>>

\* Mutant: removed_balance_entries[symbol] = [balance], earlier ones are lost.
FilterBalanceOverwrite ==
    /\ pc = "balances"
    /\ bi < Len(balances0)
    /\ LET b == balances0[bi + 1]
       IN  IF b.asset_symbol \notin RmSet
              THEN balances' = Append(balances, b) /\ UNCHANGED removedB
              ELSE removedB' = [removedB EXCEPT ![b.asset_symbol] = <<b>>]
                   /\ UNCHANGED balances
    /\ bi' = bi + 1
    /\ UNCHANGED <<assets0, balances0, vesting, rm, assets, ai, removedA,
                   pc, report, output>>

\* Lines 45-49, one iteration: keep the balance or file it as removed.
FilterBalance ==
    /\ pc = "balances"
    /\ bi < Len(balances0)
    /\ LET b == balances0[bi + 1]
       IN  IF b.asset_symbol \notin RmSet
              THEN balances' = Append(balances, b) /\ UNCHANGED removedB
              ELSE removedB' = [removedB EXCEPT ![b.asset_symbol] = Append(@, b)]
                   /\ UNCHANGED balances
    /\ bi' = bi + 1
    /\ UNCHANGED <<assets0, balances0, vesting, rm, assets, ai, removedA,
                   pc, report, output>>

\* Line 50: the loop of line 44 is done.
EndBalances ==
    /\ pc = "balances"
    /\ bi = Len(balances0)
    /\ pc' = "report"
    /\ UNCHANGED <<assets0, balances0, vesting, rm, assets, balances, ai, bi,
                   removedA, removedB, report, output>>

AmountSum(bs) == FoldLeft(LAMBDA acc, b : acc + b.amount, 0, bs)

\* Lines 53-67: one stderr line per -a name, in -a order, then the dump.
ReportAndWrite ==
    /\ pc = "report"
    /\ report' = [j \in DOMAIN rm |->
                    [sym |-> rm[j], acount |-> removedA[rm[j]],
                     bcount |-> Len(removedB[rm[j]]),
                     btotal |-> AmountSum(removedB[rm[j]])]]
    /\ output' = [initial_assets |-> assets, initial_balances |-> balances,
                  initial_vesting_balances |-> vesting]
    /\ pc' = "done"
    /\ UNCHANGED <<assets0, balances0, vesting, rm, assets, balances, ai, bi,
                   removedA, removedB>>

\* The process has exited.
Terminated ==
    /\ pc = "done"
    /\ UNCHANGED vars

Next ==
    \/ FilterAsset \/ EndAssets
    \/ FilterBalance \/ EndBalances
    \/ ReportAndWrite \/ Terminated

Spec == Init /\ [][Next]_vars

-----------------------------------------------------------------------------
TypeOK ==
    /\ pc \in {"assets", "balances", "report", "done"}
    /\ ai \in 0 .. Len(assets0) /\ bi \in 0 .. Len(balances0)
    /\ assets \in Seq(Symbols) /\ balances \in Seq(Balance)
    /\ removedA \in [RmSet -> 0 .. Len(assets0)]
    /\ removedB \in [RmSet -> Seq(Balance)]

\* The entries of symbol s among the first n of a list.
Of(s, bs, n) == SelectSeq(SubSeq(bs, 1, n), LAMBDA b : b.asset_symbol = s)

\* Each stderr line counts exactly the input entries of its asset: as many
\* initial_assets as the input holds with that symbol, and all its
\* balances with their total, also when -a names the asset twice.
ReportCountsInput ==
    pc = "done" =>
        \A j \in DOMAIN report :
            LET s == report[j].sym
            IN  /\ report[j].acount =
                       Len(SelectSeq(assets0, LAMBDA a : a = s))
                /\ report[j].bcount = Len(Of(s, balances0, Len(balances0)))
                /\ report[j].btotal = AmountSum(Of(s, balances0, Len(balances0)))

\* While the balances are filtered, every balance read so far is either
\* kept or filed as removed, never both and never lost: per symbol, kept
\* plus removed amounts equal the amounts read, and a removed symbol keeps
\* nothing.
BalancesPartitioned ==
    pc # "assets" =>
        \A s \in Symbols :
            LET kept == AmountSum(Of(s, balances, Len(balances)))
                gone == IF s \in RmSet THEN AmountSum(removedB[s]) ELSE 0
            IN  /\ kept + gone = AmountSum(Of(s, balances0, bi))
                /\ s \in RmSet => kept = 0

\* The TODO of line 51: once an asset is removed, nothing in the written
\* genesis refers to it, its vesting balances included.
NoDanglingAssetReference ==
    output # NoOutput => \A j \in DOMAIN vesting : vesting[j] \notin RmSet
=============================================================================
