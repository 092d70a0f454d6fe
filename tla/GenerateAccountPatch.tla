------------------------- MODULE GenerateAccountPatch -------------------------
(***************************************************************************)
(* main() of programs/genesis_util/generate_account_patch.py: without     *)
(* --secret the program exits with status 1 (lines 23-26); otherwise, for  *)
(* every entry of the accounts file, the owner and active keys of the      *)
(* name are derived with get_dev_key, the account is appended, and each of *)
(* the entry's balances is copied with its owner set to the active         *)
(* address (lines 33-48); any get_dev_key call may fail and end the run;   *)
(* the patch appends the accounts, and the balances when there are any     *)
(* (lines 49-61).                                                          *)
(*                                                                         *)
(* An entry is its name and its list of balances (e.get("balances", [])   *)
(* gives <<>> for an entry without one); a balance is a model value, and   *)
(* its copy with the owner set is the record [balance, owner].             *)
(***************************************************************************)
EXTENDS Integers, Sequences, SequencesExt, DevKeys

CONSTANTS
    Secrets,        \* values tried for --secret, NoSecret among them
    NoSecret,       \* --secret not given
    Names,          \* account names
    Balances,       \* the balances an entry may list
    MaxEntries,     \* the most entries of the accounts file
    MaxBalances,    \* the most balances of an entry
    NoOutput        \* nothing has been written

Entry == [name : Names, balances : BoundedSeq(Balances, MaxBalances)]

VARIABLES
    secret,     \* opts.secret
    entries,    \* the accounts file
    pc,         \* "check", "loop", "done", "failed"
    pos,        \* entries the loop of line 33 has handled
    accounts,   \* initial_accounts
    balances,   \* initial_balances
    output      \* the patch written, or NoOutput

vars == <<secret, entries, pc, pos, accounts, balances, output>>

Init ==
    /\ secret \in Secrets
    /\ entries \in BoundedSeq(Entry, MaxEntries)
    /\ pc = "check"
    /\ pos = 0
    /\ accounts = <<>> /\ balances = <<>>
    /\ output = NoOutput

\* Lines 23-26: sys.exit(1) without --secret.
CheckSecret ==
    /\ pc = "check"
    /\ pc' = IF secret = NoSecret THEN "failed" ELSE "loop"
    /\ UNCHANGED <<secret, entries, pos, accounts, balances, output>>

\* Mutant: bal["owner"] = owner[0]["address"].
OwnedOwnerAddress(e) ==
    [j \in DOMAIN e.balances |->
        [balance |-> e.balances[j],
         owner |-> Address(secret, <<"owner", e.name>>)]]

\* Lines 45-48: the entry's balances, each with the active address as owner.
Owned(e) ==
    [j \in DOMAIN e.balances |->
        [balance |-> e.balances[j],
         owner |-> Address(secret, <<"active", e.name>>)]]

\* Lines 34-48, one entry whose two get_dev_key calls succeed.
AddAccount ==
    /\ pc = "loop"
    /\ pos < Len(entries)
    /\ LET e == entries[pos + 1]
       IN  /\ accounts' = Append(accounts,
                  [name |-> e.name,
                   owner_key |-> PublicKey(secret, <<"owner", e.name>>),
                   active_key |-> PublicKey(secret, <<"active", e.name>>)])
           /\ balances' = balances \o Owned(e)
    /\ pos' = pos + 1
    /\ UNCHANGED <<secret, entries, pc, output>>

\* Lines 35-36: get_dev_key exits non-zero; CalledProcessError, nothing
\* written.
DevKeyFails ==
    /\ pc = "loop"
    /\ pos < Len(entries)
    /\ pc' = "failed"
    /\ UNCHANGED <<secret, entries, pos, accounts, balances, output>>

\* Lines 49-61: write the patch; initial_balances only when non-empty.
Write ==
    /\ pc = "loop"
    /\ pos = Len(entries)
    /\ output' = [append |->
                    IF balances = <<>>
                       THEN [initial_accounts |-> accounts]
                       ELSE [initial_accounts |-> accounts, initial_balances |-> balances]]
    /\ pc' = "done"
    /\ UNCHANGED <<secret, entries, pos, accounts, balances>>

\* The process has exited.
Terminated ==
    /\ pc \in {"done", "failed"}
    /\ UNCHANGED vars

Next == CheckSecret \/ AddAccount \/ DevKeyFails \/ Write \/ Terminated

Spec == Init /\ [][Next]_vars

-----------------------------------------------------------------------------
\* Every balance of the accounts file reaches the patch, in file order, and
\* belongs to the account of its entry: its owner is the address of the key
\* that account is given as active key.  The patch lists balances exactly
\* when the file has some.
BalancesFollowAccounts ==
    output # NoOutput =>
        LET accts == output.append.initial_accounts
            bals == IF "initial_balances" \in DOMAIN output.append
                       THEN output.append.initial_balances ELSE <<>>
            owners == FlattenSeq([j \in DOMAIN entries |->
                          [x \in DOMAIN entries[j].balances |-> j]])
        IN  /\ Len(accts) = Len(entries)
            /\ [k \in DOMAIN bals |-> bals[k].balance] =
                   FlattenSeq([j \in DOMAIN entries |-> entries[j].balances])
            /\ \A k \in DOMAIN bals :
                   /\ accts[owners[k]].name = entries[owners[k]].name
                   /\ accts[owners[k]].active_key = PublicKey(secret, <<"active", accts[owners[k]].name>>)
                   /\ bals[k].owner = Address(secret, <<"active", accts[owners[k]].name>>)
            /\ ("initial_balances" \in DOMAIN output.append) = (bals # <<>>)
=============================================================================
