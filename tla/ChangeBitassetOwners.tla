------------------------- MODULE ChangeBitassetOwners -------------------------
(***************************************************************************)
(* main() of programs/genesis_util/change_bitasset_owners.py: every asset  *)
(* of initial_assets issued by "witness-account" is given the issuer       *)
(* "committee-account", one asset per loop iteration (lines 27-29), and    *)
(* the genesis is written (lines 31-36).  An asset is its issuer_name.     *)
(***************************************************************************)
EXTENDS Integers, Sequences, SequencesExt

CONSTANTS
    Issuers,        \* issuer names, WitnessAccount and CommitteeAccount among them
    WitnessAccount, \* "witness-account"
    CommitteeAccount, \* "committee-account"
    MaxAssets,      \* the most initial_assets
    NoOutput        \* nothing has been written

ASSUME {WitnessAccount, CommitteeAccount} \subseteq Issuers

VARIABLES
    assets0,    \* the issuer_name of every asset as read
    assets,     \* the same list, updated in place
    pos,        \* iterations of the loop of line 27 done
    pc,         \* "loop" or "done"
    output      \* the assets written, or NoOutput

vars == <<assets0, assets, pos, pc, output>>

Init ==
    /\ assets0 \in BoundedSeq(Issuers, MaxAssets)
    /\ assets = assets0
    /\ pos = 0
    /\ pc = "loop"
    /\ output = NoOutput

\* Lines 28-29, one asset.
MoveIssuer ==
    /\ pc = "loop"
    /\ pos < Len(assets)
    /\ assets' = IF assets[pos + 1] = WitnessAccount
                    THEN [assets EXCEPT ![pos + 1] = CommitteeAccount]
                    ELSE assets
    /\ pos' = pos + 1
    /\ UNCHANGED <<assets0, pc, output>>

\* Lines 31-36: the loop is done, dump the genesis.
Write ==
    /\ pc = "loop"
    /\ pos = Len(assets)
    /\ output' = assets
    /\ pc' = "done"
    /\ UNCHANGED <<assets0, assets, pos>>

\* The process has exited.
Terminated ==
    /\ pc = "done"
    /\ UNCHANGED vars

Next == MoveIssuer \/ Write \/ Terminated

Spec == Init /\ [][Next]_vars

=============================================================================
