---------------------------- MODULE PrefixAccounts ----------------------------
(***************************************************************************)
(* main() of programs/genesis_util/prefix_accounts.py: the accounts marked *)
(* is_prefixed get  prefix  put in front of their name, again and again    *)
(* until the new name is not taken; then every account, asset issuer,      *)
(* witness, committee and worker owner name is rewritten through name_map  *)
(* and the genesis is written out.                                         *)
(*                                                                         *)
(* Data abstraction: a name is a sequence of letters and the prefix a      *)
(* sequence too, so "prefix + name" is \o and equal strings are equal      *)
(* sequences.  Account names in the input are distinct, as they are in a   *)
(* genesis.  The logging of lines 46-48 and 58 is left out; pass_num and   *)
(* num_resolved only feed it.                                              *)
(***************************************************************************)
EXTENDS Integers, Sequences, SequencesExt, FiniteSets

CONSTANTS
    Names,          \* the account names an input genesis may use
    Begins,       \* values tried for --begin
    RefOrder,       \* the name fields that refer to accounts, in the order
                    \* lines 65-76 rewrite them
    Committee,      \* the field of initial_committee_candidates
    MaxAccounts,    \* the most accounts an input genesis has
    MaxCommittee,   \* the most committee candidates it has
    NoOutput        \* nothing has been written

RefKinds == ToSet(RefOrder)

ASSUME Committee \in RefKinds

VARIABLES
    accounts,   \* initial_accounts as read: a list of [name, is_prefixed]
    inRefs,     \* the referring name fields as read: kind -> list of names
    prefix,     \* opts.begin
    pc,         \* the statement main() is at
    taken,      \* taken_names
    unsettled,  \* unsettled_names
    newUnsettled, \* new_unsettled_names
    pos,        \* how many of unsettled the current pass has looked at
    nameMap,    \* name_map, a function on the names it has keys for
    names,      \* the "name" fields of initial_accounts, rewritten in place
    refs,       \* the referring name fields, rewritten in place
    output      \* what was written, or NoOutput

vars == <<accounts, inRefs, prefix, pc, taken, unsettled, newUnsettled, pos,
          nameMap, names, refs, output>>

Account == [name : Names, is_prefixed : BOOLEAN]

\* The genesis files considered: distinct account names.
AccountLists ==
    {s \in BoundedSeq(Account, MaxAccounts) :
        \A i, j \in DOMAIN s : i # j => s[i].name # s[j].name}

RefLists == {<<>>} \cup {<<n>> : n \in Names}

\* name_map.get(n, n)
Get(n) == IF n \in DOMAIN nameMap THEN nameMap[n] ELSE n

\* The fields the loops of lines 65-76 reach before the committee loop.
BeforeCommittee == {RefOrder[i] : i \in 1 .. CHOOSE j \in DOMAIN RefOrder : RefOrder[j] = Committee}

RenamedRefs(kinds) ==
    [k \in RefKinds |-> IF k \in kinds
                           THEN [i \in DOMAIN refs[k] |-> Get(refs[k][i])]
                           ELSE refs[k]]

Init ==
    /\ accounts \in AccountLists
    /\ inRefs \in {r \in [RefKinds -> RefLists] : Len(r[Committee]) <= MaxCommittee}
    /\ prefix \in Begins
    /\ pc = "scan"
    /\ taken = {}
    /\ unsettled = <<>>
    /\ newUnsettled = <<>>
    /\ pos = 0
    /\ nameMap = <<>>
    /\ names = [i \in DOMAIN accounts |-> accounts[i].name]
    /\ refs = inRefs
    /\ output = NoOutput

\* Lines 28-40: prefixed names become unsettled and map to themselves, the
\* other names are taken.
Scan ==
    /\ pc = "scan"
    /\ LET pre == SelectSeq(accounts, LAMBDA a : a.is_prefixed)
       IN  /\ unsettled' = [i \in DOMAIN pre |-> pre[i].name]
           /\ nameMap' = [n \in {pre[i].name : i \in DOMAIN pre} |-> n]
    /\ taken' = {accounts[i].name : i \in {i \in DOMAIN accounts : ~accounts[i].is_prefixed}}
    /\ pc' = "pass"
    /\ UNCHANGED <<accounts, inRefs, prefix, newUnsettled, pos, names, refs, output>>

\* Lines 43-49: while unsettled_names is not empty, start a pass.
StartPass ==
    /\ pc = "pass"
    /\ Len(unsettled) > 0
    /\ newUnsettled' = <<>>
    /\ pos' = 0
    /\ pc' = "iter"
    /\ UNCHANGED <<accounts, inRefs, prefix, taken, unsettled, nameMap, names, refs, output>>

\* Mutant: the candidate is built from the original name every pass.
IterateFromOriginal ==
    /\ pc = "iter"
    /\ pos < Len(unsettled)
    /\ LET name == unsettled[pos + 1]
           newName == prefix \o name
       IN  /\ nameMap' = [nameMap EXCEPT ![name] = newName]
           /\ IF newName \in taken
                 THEN /\ newUnsettled' = Append(newUnsettled, name)
                      /\ UNCHANGED taken
                 ELSE /\ taken' = taken \cup {name}
                      /\ UNCHANGED newUnsettled
    /\ pos' = pos + 1
    /\ UNCHANGED <<accounts, inRefs, prefix, pc, unsettled, names, refs, output>>

\* Mutant: the candidate is never checked against taken_names.
IterateUnchecked ==
    /\ pc = "iter"
    /\ pos < Len(unsettled)
    /\ LET name == unsettled[pos + 1]
           newName == prefix \o nameMap[name]
       IN  /\ nameMap' = [nameMap EXCEPT ![name] = newName]
           /\ IF FALSE
                 THEN /\ newUnsettled' = Append(newUnsettled, name)
                      /\ UNCHANGED taken
                 ELSE /\ taken' = taken \cup {name}
                      /\ UNCHANGED newUnsettled
    /\ pos' = pos + 1
    /\ UNCHANGED <<accounts, inRefs, prefix, pc, unsettled, names, refs, output>>

\* Lines 50-57, one name: put the prefix in front of its current candidate;
\* if the candidate is taken, keep it for the next pass, else mark the
\* name settled by adding the ORIGINAL name to taken_names (line 56).
Iterate ==
    /\ pc = "iter"
    /\ pos < Len(unsettled)
    /\ LET name == unsettled[pos + 1]
           newName == prefix \o nameMap[name]
       IN  /\ nameMap' = [nameMap EXCEPT ![name] = newName]
           /\ IF newName \in taken
                 THEN /\ newUnsettled' = Append(newUnsettled, name)
                      /\ UNCHANGED taken
                 ELSE /\ taken' = taken \cup {name}
                      /\ UNCHANGED newUnsettled
    /\ pos' = pos + 1
    /\ UNCHANGED <<accounts, inRefs, prefix, pc, unsettled, names, refs, output>>

\* Line 59: the pass is over; what is still taken goes round again.
EndPass ==
    /\ pc = "iter"
    /\ pos = Len(unsettled)
    /\ unsettled' = newUnsettled
    /\ pc' = "pass"
    /\ UNCHANGED <<accounts, inRefs, prefix, taken, newUnsettled, pos, nameMap, names, refs, output>>

\* Lines 61-64: the loop has ended; every account takes its mapped name.
RenameAccounts ==
    /\ pc = "pass"
    /\ Len(unsettled) = 0
    /\ names' = [i \in DOMAIN names |-> Get(names[i])]
    /\ pc' = "refs"
    /\ UNCHANGED <<accounts, inRefs, prefix, taken, unsettled, newUnsettled, pos, nameMap, refs, output>>

\* Mutant: the last loop (workers) is left out.
RenameRefsSkipLast ==
    /\ pc = "refs"
    /\ \/ /\ refs[Committee] = <<>>
          /\ refs' = RenamedRefs(RefKinds \ {RefOrder[Len(RefOrder)]})
          /\ pc' = "write"
       \/ /\ refs[Committee] # <<>>
          /\ refs' = RenamedRefs(BeforeCommittee \ {Committee})
          /\ pc' = "failed"
    /\ UNCHANGED <<accounts, inRefs, prefix, taken, unsettled, newUnsettled, pos, nameMap, names, output>>

\* Lines 65-76: the issuer and owner names of assets, witnesses and workers
\* take their mapped name.  The committee loop of lines 71-73 reads the
\* undefined variable  member  and raises NameError as soon as there is a
\* committee candidate.
RenameRefs ==
    /\ pc = "refs"
    /\ \/ /\ refs[Committee] = <<>>
          /\ refs' = RenamedRefs(RefKinds)
          /\ pc' = "write"
       \/ /\ refs[Committee] # <<>>
          /\ refs' = RenamedRefs(BeforeCommittee \ {Committee})
          /\ pc' = "failed"
    /\ UNCHANGED <<accounts, inRefs, prefix, taken, unsettled, newUnsettled, pos, nameMap, names, output>>

\* Lines 78-83: dump the genesis.
Write ==
    /\ pc = "write"
    /\ output' = [names |-> names, refs |-> refs]
    /\ pc' = "done"
    /\ UNCHANGED <<accounts, inRefs, prefix, taken, unsettled, newUnsettled, pos, nameMap, names, refs>>

\* The process has exited.
Terminated ==
    /\ pc \in {"done", "failed"}
    /\ UNCHANGED vars

Next ==
    \/ Scan
    \/ StartPass
    \/ Iterate
    \/ EndPass
    \/ RenameAccounts
    \/ RenameRefs
    \/ Write
    \/ Terminated

\* A single-threaded process keeps executing its next statement.
Spec == Init /\ [][Next]_vars /\ WF_vars(Next)

-----------------------------------------------------------------------------
\* Accounts i and j of the input, i prefixed and j not.
PrefixedOverUnprefixed == {<<i, j>> \in (DOMAIN accounts) \X (DOMAIN accounts) :
                             accounts[i].is_prefixed /\ ~accounts[j].is_prefixed}

\* However many passes the loop of lines 43-59 takes, no prefixed account
\* ends up with the name of an account that was not to be prefixed.
NoCollisionWithUnprefixed ==
    output # NoOutput =>
        \A p \in PrefixedOverUnprefixed : output.names[p[1]] # accounts[p[2]].name

\* Every issuer and owner field written out names the same account as it
\* did in the input (under that account's new name), and a field naming no
\* account is written unchanged.
RefsFollowAccounts ==
    output # NoOutput =>
        \A k \in RefKinds : \A r \in DOMAIN inRefs[k] :
            output.refs[k][r] =
                IF \E i \in DOMAIN accounts : accounts[i].name = inRefs[k][r]
                   THEN output.names[CHOOSE i \in DOMAIN accounts : accounts[i].name = inRefs[k][r]]
                   ELSE inRefs[k][r]

\* The resolution loop of lines 43-59 ends and the program exits.
Terminates == <>(pc \in {"done", "failed"})

\* The loop of lines 43-59 exists to settle every prefixed name on a name
\* no other account has: the accounts written out have distinct names.
FinalNamesDistinct ==
    output # NoOutput =>
        \A i, j \in DOMAIN output.names : i # j => output.names[i] # output.names[j]

\* Lines 71-73 are meant to rewrite the committee owner names like the
\* loops around them; a genesis with committee candidates is processed.
NoCrash == pc # "failed"
=============================================================================
