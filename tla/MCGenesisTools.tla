---------------------------- MODULE MCGenesisTools ----------------------------
(* Model-checking instance of GenesisTools.                                *)
(* ApplyPatch: a list field and a scalar field, deltas that append one     *)
(* entry and replace with a scalar, an empty list or a one-entry list.     *)
(* ChangeKeyPrefix: keys with and without the "G" prefix, target prefixes  *)
(* shorter, equal and longer than the source.                              *)
(* UnprefixNames: lines of up to three of the characters a, space and '#', *)
(* so that comments, padding and blank lines occur in every order.         *)
EXTENDS GenesisTools, SequencesExt

CONSTANTS Eleven,  \* the scalar 11
          I0, I1, I2, I3 \* list entries: the input one, two appended, one replaced

Accounts == "initial_accounts"
Witnesses == "initial_active_witnesses"

MCGenesis0s == {<<>>, Accounts :> <<I0>>, (Accounts :> <<I0>>) @@ (Witnesses :> Eleven)}

PartialFns(S, V) == UNION {[D -> V] : D \in SUBSET S}

MCDeltas == [append : PartialFns({Accounts, Witnesses}, {<<I1>>, <<I2>>}),
             replace : PartialFns({Accounts, Witnesses}, {Eleven, <<>>, <<I3>>})]

MCKeyStrings == {<<"G", "x">>, <<"x">>, <<"G">>}
MCFromPrefixes == {<<>>, <<"G">>}
MCToPrefixes == {<<>>, <<"C">>, <<"C", "C">>}

\* --num -1 (argparse takes any int), 0 and up to three witnesses.
MCNums == {-1, 0, 1, 2, 3}

MCLines == BoundedSeq({"a", " ", "#"}, 3)
MCAccountNames == {<<"a">>, <<"a", "a">>}
=============================================================================
