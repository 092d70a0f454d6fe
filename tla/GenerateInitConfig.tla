-------------------------- MODULE GenerateInitConfig --------------------------
(***************************************************************************)
(* main() of programs/genesis_util/generate_init_config.py: without       *)
(* --secret the program exits with status 1 (lines 25-28); otherwise, for  *)
(* i in range(num), it derives the block-signing key of label              *)
(* "wit-block-signing-<mname>-<i>" (or "wit-block-signing-<i>" when        *)
(* --mname is empty) and adds the line  witness-id = "1.6.<witness + i>"   *)
(* and the line  private-key = [public, private]  (lines 33-41); any       *)
(* get_dev_key call may fail and end the run; the witness-id lines, a      *)
(* blank line and the key lines are written (lines 43-51).                 *)
(*                                                                         *)
(* The id "1.6.<n>" is the number n; the file is the two lists of lines.   *)
(***************************************************************************)
EXTENDS Integers, Sequences, DevKeys

CONSTANTS
    Secrets,    \* values tried for --secret, NoSecret among them
    NoSecret,   \* --secret not given
    Nums,       \* values tried for --num
    Starts,     \* values tried for --witness
    MNames,     \* values tried for --mname, NoMName among them
    NoMName,    \* the default --mname ""
    NoOutput    \* nothing has been written

VARIABLES
    secret,     \* opts.secret
    num,        \* opts.num
    witness,    \* opts.witness
    mname,      \* opts.mname
    pc,         \* "check", "loop", "done", "failed"
    i,          \* the loop index of line 33
    ids,        \* out_wits, each as its witness number
    keys,       \* out_keys, each as its [public, private] pair
    output      \* the file written, or NoOutput

vars == <<secret, num, witness, mname, pc, i, ids, keys, output>>

Init ==
    /\ secret \in Secrets
    /\ num \in Nums
    /\ witness \in Starts
    /\ mname \in MNames
    /\ pc = "check"
    /\ i = 0
    /\ ids = <<>> /\ keys = <<>>
    /\ output = NoOutput

\* Lines 25-28: sys.exit(1) without --secret.
CheckSecret ==
    /\ pc = "check"
    /\ pc' = IF secret = NoSecret THEN "failed" ELSE "loop"
    /\ UNCHANGED <<secret, num, witness, mname, i, ids, keys, output>>

\* Mutant: the label numbers the key by its witness id, opts.witness + i.
SigningLabelById(n) ==
    IF mname # NoMName THEN <<"wit-block-signing", mname, witness + n>>
    ELSE <<"wit-block-signing", witness + n>>

\* Lines 34-37: the label of the block-signing key of witness n.
SigningLabel(n) ==
    IF mname # NoMName THEN <<"wit-block-signing", mname, n>>
    ELSE <<"wit-block-signing", n>>

\* Mutant: the id is opts.witness + i + 1.
AddWitnessIdShifted ==
    /\ pc = "loop"
    /\ i < num
    /\ ids' = Append(ids, witness + i + 1)
    /\ keys' = Append(keys, [public |-> PublicKey(secret, SigningLabel(i)),
                             private |-> PrivateKey(secret, SigningLabel(i))])
    /\ i' = i + 1
    /\ UNCHANGED <<secret, num, witness, mname, pc, output>>

\* Lines 34-41, one witness whose get_dev_key call succeeds.
AddWitness ==
    /\ pc = "loop"
    /\ i < num
    /\ ids' = Append(ids, witness + i)
    /\ keys' = Append(keys, [public |-> PublicKey(secret, SigningLabel(i)),
                             private |-> PrivateKey(secret, SigningLabel(i))])
    /\ i' = i + 1
    /\ UNCHANGED <<secret, num, witness, mname, pc, output>>

\* Line 38: get_dev_key exits non-zero; CalledProcessError, nothing written.
DevKeyFails ==
    /\ pc = "loop"
    /\ i < num
    /\ pc' = "failed"
    /\ UNCHANGED <<secret, num, witness, mname, i, ids, keys, output>>

\* Lines 43-51: write the id lines, a blank line and the key lines.
Write ==
    /\ pc = "loop"
    /\ ~(i < num)
    /\ output' = [witness_ids |-> ids, private_keys |-> keys]
    /\ pc' = "done"
    /\ UNCHANGED <<secret, num, witness, mname, i, ids, keys>>

\* The process has exited.
Terminated ==
    /\ pc \in {"done", "failed"}
    /\ UNCHANGED vars

Next == CheckSecret \/ AddWitness \/ DevKeyFails \/ Write \/ Terminated

Spec == Init /\ [][Next]_vars
=============================================================================
