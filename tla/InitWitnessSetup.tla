--------------------------- MODULE InitWitnessSetup ---------------------------
(***************************************************************************)
(* The two witness generators run with the same --secret: the genesis      *)
(* patch of generate_init_patch.py and the node configuration of           *)
(* generate_init_config.py.  The chain numbers the witness candidates of   *)
(* the genesis 1.6.1, 1.6.2, ... in list order (1.6.0 is the null witness; *)
(* this is the node's rule, not code of this repository), so the node may  *)
(* produce blocks for witness 1.6.n only with the block-signing key of the *)
(* n-th candidate.  The two programs are independent processes; a step of  *)
(* either may come first.                                                  *)
(***************************************************************************)
EXTENDS Integers, Sequences

CONSTANTS Secrets, NoSecret, Nums, Starts, MNames, NoMName, NoOutput

VARIABLES secret,
          pnum, ppc, pi, paccounts, pwits, pcommittee, poutput,
          cnum, witness, mname, cpc, ci, ids, keys, coutput

pvars == <<pnum, ppc, pi, paccounts, pwits, pcommittee, poutput>>
cvars == <<cnum, witness, mname, cpc, ci, ids, keys, coutput>>
vars == <<secret, pvars, cvars>>

Patch == INSTANCE GenerateInitPatch
    WITH num <- pnum, pc <- ppc, i <- pi, accounts <- paccounts,
         wits <- pwits, committee <- pcommittee, output <- poutput

Config == INSTANCE GenerateInitConfig
    WITH num <- cnum, pc <- cpc, i <- ci, output <- coutput

\* Both programs are given the same secret.
Init == Patch!Init /\ Config!Init

PatchStep == Patch!Next /\ UNCHANGED cvars

ConfigStep == Config!Next /\ UNCHANGED pvars

Next == PatchStep \/ ConfigStep

Spec == Init /\ [][Next]_vars

-----------------------------------------------------------------------------
\* Once both files are written, every witness id the node is configured
\* for, when the genesis has that many candidates, names a genesis witness
\* candidate whose block-signing key is the public half of the key pair
\* configured for it.
ConfigKeysMatchGenesis ==
    poutput # NoOutput /\ coutput # NoOutput =>
        LET cands == poutput.replace.initial_witness_candidates
        IN  \A k \in DOMAIN coutput.witness_ids :
                LET n == coutput.witness_ids[k]
                IN  n \in DOMAIN cands =>
                        cands[n].block_signing_key = coutput.private_keys[k].public

\* Every witness id the node is configured for is a witness candidate of
\* the genesis, when it asks for no more witnesses than the genesis has.
ConfiguredWitnessesExist ==
    poutput # NoOutput /\ coutput # NoOutput /\ cnum <= pnum =>
        \A k \in DOMAIN coutput.witness_ids :
            coutput.witness_ids[k] \in DOMAIN poutput.replace.initial_witness_candidates
=============================================================================
