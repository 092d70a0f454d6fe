------------------------------ MODULE ApplyPatch ------------------------------
(***************************************************************************)
(* main() of programs/genesis_util/apply_patch.py: load a genesis, then    *)
(* for each delta file given with -d, in order, extend the lists named in  *)
(* its "append" part (creating a missing one empty) and then overwrite the *)
(* fields named in its "replace" part; write the result.                   *)
(*                                                                         *)
(* A genesis is a function from the fields it has to their values: a list *)
(* of items (a sequence) or a scalar such as initial_active_witnesses.     *)
(* A delta is a record of two partial functions, or Missing for a file     *)
(* that cannot be opened.  Logging to stderr is left out.                  *)
(***************************************************************************)
EXTENDS Integers, Sequences, SequencesExt, FiniteSets, Functions

CONSTANTS
    Fields,         \* the top-level keys of a genesis that patches touch
    Genesis0s,      \* the genesis files considered
    Deltas,         \* the delta files considered
    MaxDeltas,      \* the most -d arguments
    Scalars,        \* the non-list values a field may have
    Items,          \* the list entries
    Missing,        \* a delta file name that does not exist
    NoOutput        \* nothing has been written

VARIABLES
    genesis0,   \* the genesis as loaded
    deltas,     \* opts.delta (None is the empty list, lines 28-29)
    genesis,    \* the genesis being patched in place
    i,          \* how many delta files have been applied
    pc,         \* "patch", "done" or "failed"
    output      \* what was written, or NoOutput

vars == <<genesis0, deltas, genesis, i, pc, output>>

IsList(v) == v \notin Scalars

Init ==
    /\ genesis0 \in Genesis0s
    /\ deltas \in BoundedSeq(Deltas \cup {Missing}, MaxDeltas)
    /\ genesis = genesis0
    /\ i = 0
    /\ pc = "patch"
    /\ output = NoOutput

\* Lines 33-37, one key of "append": create the list if missing, then
\* genesis[k].extend(v).
Extend(g, k, v) ==
    IF k \in DOMAIN g THEN [g EXCEPT ![k] = @ \o v] ELSE g @@ (k :> v)

\* Lines 39-40: the replaces of one delta, genesis[k] = v.
Replace(g, r) == r @@ g

\* Mutant: the replace loop runs before the append loop.
ApplyDeltaReplaceFirst ==
    /\ pc = "patch"
    /\ i < Len(deltas)
    /\ LET d == deltas[i + 1]
           g == Replace(genesis, d.replace)
       IN  IF d = Missing \/ \E k \in DOMAIN d.append : k \in DOMAIN g /\ ~IsList(g[k])
              THEN pc' = "failed" /\ UNCHANGED <<genesis, i>>
              ELSE /\ genesis' = FoldSet(LAMBDA k, h : Extend(h, k, d.append[k]), g, DOMAIN d.append)
                   /\ i' = i + 1
                   /\ UNCHANGED pc
    /\ UNCHANGED <<genesis0, deltas, output>>

\* Mutant: genesis[k].append(v), the list is added as one entry.
ApplyDeltaNested ==
    /\ pc = "patch"
    /\ i < Len(deltas)
    /\ LET d == deltas[i + 1]
       IN  IF d = Missing \/ \E k \in DOMAIN d.append : k \in DOMAIN genesis /\ ~IsList(genesis[k])
              THEN pc' = "failed" /\ UNCHANGED <<genesis, i>>
              ELSE /\ genesis' = Replace(FoldSet(LAMBDA k, g : Extend(g, k, <<d.append[k]>>),
                                                 genesis, DOMAIN d.append),
                                         d.replace)
                   /\ i' = i + 1
                   /\ UNCHANGED pc
    /\ UNCHANGED <<genesis0, deltas, output>>

\* Lines 31-41 for one delta file.  Opening a missing file raises
\* FileNotFoundError; extending a field that holds a scalar raises
\* AttributeError.
ApplyDelta ==
    /\ pc = "patch"
    /\ i < Len(deltas)
    /\ LET d == deltas[i + 1]
       IN  IF d = Missing \/ \E k \in DOMAIN d.append : k \in DOMAIN genesis /\ ~IsList(genesis[k])
              THEN pc' = "failed" /\ UNCHANGED <<genesis, i>>
              ELSE /\ genesis' = Replace(FoldSet(LAMBDA k, g : Extend(g, k, d.append[k]),
                                                 genesis, DOMAIN d.append),
                                         d.replace)
                   /\ i' = i + 1
                   /\ UNCHANGED pc
    /\ UNCHANGED <<genesis0, deltas, output>>

\* Lines 43-48: every delta applied, dump the genesis.
Write ==
    /\ pc = "patch"
    /\ i = Len(deltas)
    /\ output' = genesis
    /\ pc' = "done"
    /\ UNCHANGED <<genesis0, deltas, genesis, i>>

\* The process has exited.
Terminated ==
    /\ pc \in {"done", "failed"}
    /\ UNCHANGED vars

Next == ApplyDelta \/ Write \/ Terminated

Spec == Init /\ [][Next]_vars

-----------------------------------------------------------------------------
Value == Scalars \cup Seq(Items)

TypeOK ==
    /\ pc \in {"patch", "done", "failed"}
    /\ i \in 0 .. Len(deltas)
    /\ DOMAIN genesis \subseteq Fields
    /\ \A k \in DOMAIN genesis : genesis[k] \in Value

\* The deltas, 1 .. Len(ds), that replace field k.
ReplacedIn(ds, k) == {j \in DOMAIN ds : ds[j] # Missing /\ k \in DOMAIN ds[j].replace}

\* The entries deltas j .. Len(ds) append to field k, in delta order.
RECURSIVE AppendedFrom(_, _, _)
AppendedFrom(ds, k, j) ==
    IF j > Len(ds) THEN <<>>
    ELSE (IF k \in DOMAIN ds[j].append THEN ds[j].append[k] ELSE <<>>)
         \o AppendedFrom(ds, k, j + 1)

\* The value of field k after all deltas, stated without replaying them:
\* the last replace of k wins over everything before it, the appends of
\* its own delta included, and the appends of the later deltas follow it.
Patched(g0, ds, k) ==
    LET R == ReplacedIn(ds, k)
        last == IF R = {} THEN 0 ELSE Max(R)
        base == IF R # {} THEN ds[last].replace[k]
                ELSE IF k \in DOMAIN g0 THEN g0[k] ELSE <<>>
        tail == AppendedFrom(ds, k, last + 1)
    IN  IF tail = <<>> THEN base ELSE base \o tail

\* The fields of the result: those of the input and every field a delta
\* appends to or replaces.
PatchedFields(g0, ds) ==
    DOMAIN g0 \cup UNION {DOMAIN ds[j].append \cup DOMAIN ds[j].replace : j \in DOMAIN ds}

\* Whatever the order of appends and replaces across the delta files, the
\* genesis written is the declarative result above.
PatchedAsDeclared ==
    pc = "done" =>
        output = [k \in PatchedFields(genesis0, deltas) |-> Patched(genesis0, deltas, k)]
=============================================================================
