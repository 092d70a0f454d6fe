-------------------------- MODULE GenerateInitPatch --------------------------
(***************************************************************************)
(* main() of programs/genesis_util/generate_init_patch.py: without        *)
(* --secret the program exits with status 1 (lines 23-26); otherwise, for  *)
(* i in range(num), it derives the owner, active and block-signing keys of *)
(* witness i with get_dev_key and appends account "init<i>", witness       *)
(* candidate and committee candidate "init<i>" (lines 32-49); any          *)
(* get_dev_key call may fail (CalledProcessError) and end the run; at the  *)
(* end the patch is written (lines 50-67): append initial_accounts,        *)
(* replace initial_active_witnesses by num and the three candidate lists.  *)
(*                                                                         *)
(* "init" + str(i) is <<"init", i>>.                                       *)
(***************************************************************************)
EXTENDS Integers, Sequences, FiniteSets, DevKeys

CONSTANTS
    Secrets,    \* values tried for --secret, NoSecret among them
    NoSecret,   \* --secret not given
    Nums,       \* values tried for --num
    NoOutput    \* nothing has been written

VARIABLES
    secret,     \* opts.secret
    num,        \* opts.num
    pc,         \* "check", "loop", "done", "failed"
    i,          \* the loop index of line 32
    accounts,   \* wit_accounts
    wits,       \* wit_wits
    committee,  \* committee
    output      \* the patch written, or NoOutput

vars == <<secret, num, pc, i, accounts, wits, committee, output>>

InitName(n) == <<"init", n>>

Init ==
    /\ secret \in Secrets
    /\ num \in Nums
    /\ pc = "check"
    /\ i = 0
    /\ accounts = <<>> /\ wits = <<>> /\ committee = <<>>
    /\ output = NoOutput

\* Lines 23-26: sys.exit(1) without --secret.
CheckSecret ==
    /\ pc = "check"
    /\ pc' = IF secret = NoSecret THEN "failed" ELSE "loop"
    /\ UNCHANGED <<secret, num, i, accounts, wits, committee, output>>

\* Mutant: the witness candidate is named "init" + str(i + 1).
AddWitnessShifted ==
    /\ pc = "loop"
    /\ i < num
    /\ accounts' = Append(accounts,
                     [name |-> InitName(i),
                      owner_key |-> PublicKey(secret, <<"wit-owner", i>>),
                      active_key |-> PublicKey(secret, <<"wit-active", i>>)])
    /\ wits' = Append(wits,
                 [owner_name |-> InitName(i + 1),
                  block_signing_key |-> PublicKey(secret, <<"wit-block-signing", i>>)])
    /\ committee' = Append(committee, [owner_name |-> InitName(i)])
    /\ i' = i + 1
    /\ UNCHANGED <<secret, num, pc, output>>

\* Lines 33-49, one witness whose three get_dev_key calls succeed.
AddWitness ==
    /\ pc = "loop"
    /\ i < num
    /\ accounts' = Append(accounts,
                     [name |-> InitName(i),
                      owner_key |-> PublicKey(secret, <<"wit-owner", i>>),
                      active_key |-> PublicKey(secret, <<"wit-active", i>>)])
    /\ wits' = Append(wits,
                 [owner_name |-> InitName(i),
                  block_signing_key |-> PublicKey(secret, <<"wit-block-signing", i>>)])
    /\ committee' = Append(committee, [owner_name |-> InitName(i)])
    /\ i' = i + 1
    /\ UNCHANGED <<secret, num, pc, output>>

DevKeyFails ==
    /\ pc = "loop"
    /\ i < num
    /\ pc' = "failed"
    /\ UNCHANGED <<secret, num, i, accounts, wits, committee, output>>

\* Lines 50-67: range(num) is exhausted; write the patch.
Write ==
    /\ pc = "loop"
    /\ ~(i < num)
    /\ output' = [append |-> [initial_accounts |-> accounts],
                  replace |-> [initial_active_witnesses |-> num,
                               initial_worker_candidates |-> <<>>,
                               initial_witness_candidates |-> wits,
                               initial_committee_candidates |-> committee]]
    /\ pc' = "done"
    /\ UNCHANGED <<secret, num, i, accounts, wits, committee>>

\* The process has exited.
Terminated ==
    /\ pc \in {"done", "failed"}
    /\ UNCHANGED vars

Next == CheckSecret \/ AddWitness \/ DevKeyFails \/ Write \/ Terminated

Spec == Init /\ [][Next]_vars

-----------------------------------------------------------------------------
Owners(cands) == {cands[j].owner_name : j \in DOMAIN cands}

\* Every witness and committee candidate the patch installs is owned by an
\* account the same patch appends, and no two of those accounts share a
\* name: applied to a genesis, the patch leaves no candidate without its
\* account.
CandidatesOwnAccounts ==
    output # NoOutput =>
        LET accts == output.append.initial_accounts
            names == {accts[j].name : j \in DOMAIN accts}
        IN  /\ Owners(output.replace.initial_witness_candidates) \subseteq names
            /\ Owners(output.replace.initial_committee_candidates) \subseteq names
            /\ Len(accts) = Cardinality(names)

ActiveCountMatches ==
    output # NoOutput =>
        output.replace.initial_active_witnesses =
            Len(output.replace.initial_witness_candidates)
=============================================================================
