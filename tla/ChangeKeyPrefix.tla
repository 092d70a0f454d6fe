--------------------------- MODULE ChangeKeyPrefix ---------------------------
(***************************************************************************)
(* main() of programs/genesis_util/change_key_prefix.py: every public key  *)
(* field of the genesis (account owner and active keys, collateral owners, *)
(* balance and vesting owners, witness signing keys, in that order) is     *)
(* rewritten by convert(), which swaps the --from prefix for the --to      *)
(* prefix and raises RuntimeError on a key without the --from prefix; the  *)
(* genesis is written only after the last field.                           *)
(*                                                                         *)
(* The key fields are one list in the order the loops of lines 37-52 visit *)
(* them; a key and a prefix are sequences of letters.                      *)
(***************************************************************************)
EXTENDS Integers, Sequences, SequencesExt

CONSTANTS
    KeyStrings,     \* the key strings a field may hold
    FromPrefixes,   \* values tried for --from
    ToPrefixes,     \* values tried for --to
    MaxFields,      \* the most key fields a genesis has
    NoOutput        \* nothing has been written

VARIABLES
    fields0,    \* the key fields as read
    frum,       \* opts.from
    to,         \* opts.to
    fields,     \* the key fields, rewritten in place
    pos,        \* how many fields have been converted
    pc,         \* "convert", "done" or "failed"
    output      \* what was written, or NoOutput

vars == <<fields0, frum, to, fields, pos, pc, output>>

Init ==
    /\ fields0 \in BoundedSeq(KeyStrings, MaxFields)
    /\ frum \in FromPrefixes
    /\ to \in ToPrefixes
    /\ fields = fields0
    /\ pos = 0
    /\ pc = "convert"
    /\ output = NoOutput

\* Mutant: the remainder is cut at len(to) instead of len(frum).
ConvertCutAtTo(k) == to \o SubSeq(k, Len(to) + 1, Len(k))

\* convert(k), lines 31-35, for a key that starts with frum.
Convert(k) == to \o SubSeq(k, Len(frum) + 1, Len(k))

\* Mutant: a key without the prefix is passed through instead of raising.
ConvertFieldLenient ==
    /\ pc = "convert"
    /\ pos < Len(fields)
    /\ fields' = [fields EXCEPT ![pos + 1] =
                     IF IsPrefix(frum, @) THEN Convert(@) ELSE @]
    /\ pos' = pos + 1
    /\ UNCHANGED <<fields0, frum, to, pc, output>>

\* Mutant: the converted key is appended to the list instead of replacing
\* the field.
ConvertFieldAppend ==
    /\ pc = "convert"
    /\ pos < Len(fields)
    /\ IsPrefix(frum, fields[pos + 1])
    /\ fields' = Append(fields, Convert(fields[pos + 1]))
    /\ pos' = pos + 1
    /\ UNCHANGED <<fields0, frum, to, pc, output>>

\* Lines 37-52, one field: field = convert(field); the RuntimeError of line
\* 34 ends the run with nothing written.
ConvertField ==
    /\ pc = "convert"
    /\ pos < Len(fields)
    /\ LET k == fields[pos + 1]
       IN  IF IsPrefix(frum, k)
              THEN /\ fields' = [fields EXCEPT ![pos + 1] = Convert(k)]
                   /\ pos' = pos + 1
                   /\ UNCHANGED pc
              ELSE /\ pc' = "failed"
                   /\ UNCHANGED <<fields, pos>>
    /\ UNCHANGED <<fields0, frum, to, output>>

\* Lines 54-60: dump the genesis.
Write ==
    /\ pc = "convert"
    /\ pos = Len(fields)
    /\ output' = fields
    /\ pc' = "done"
    /\ UNCHANGED <<fields0, frum, to, fields, pos>>

\* The process has exited.
Terminated ==
    /\ pc \in {"done", "failed"}
    /\ UNCHANGED vars

Next == ConvertField \/ Write \/ Terminated

Spec == Init /\ [][Next]_vars

-----------------------------------------------------------------------------
Letters == UNION {ToSet(k) : k \in KeyStrings \cup FromPrefixes \cup ToPrefixes}

TypeOK ==
    /\ pc \in {"convert", "done", "failed"}
    /\ pos \in 0 .. Len(fields0)
    /\ fields \in [1 .. Len(fields0) -> Seq(Letters)]

\* Every key written out turns back into its input key when the --to prefix
\* is swapped for the --from prefix again: convert() keeps the whole rest
\* of the key, whatever the two prefix lengths are.
ConversionReversible ==
    output # NoOutput =>
        \A j \in DOMAIN fields0 :
            /\ IsPrefix(to, output[j])
            /\ frum \o SubSeq(output[j], Len(to) + 1, Len(output[j])) = fields0[j]

\* If any key of the input lacks the --from prefix, no genesis is written,
\* however many fields were converted before the bad one.
AllOrNothing ==
    (\E j \in DOMAIN fields0 : ~IsPrefix(frum, fields0[j])) => output = NoOutput
=============================================================================
