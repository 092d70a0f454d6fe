---------------------------- MODULE UnprefixNames ----------------------------
(***************************************************************************)
(* main() of programs/genesis_util/unprefix_names.py: the genesis is read  *)
(* from --input, the names from --names through load_names() (a '#' starts *)
(* a comment, the rest of the line is stripped, blank lines are skipped),  *)
(* every account whose name is listed gets is_prefixed = False, and the    *)
(* genesis is written.  "-" for --input or --names means standard input;   *)
(* json.load reads standard input to its end: names piped after the       *)
(* genesis make it fail, and load_names then reads an exhausted stream.    *)
(* --names has no default: open(None) raises TypeError.                    *)
(*                                                                         *)
(* A line is a sequence of characters without its newline (strip() removes *)
(* it in every case); an account is its name and its is_prefixed flag.    *)
(***************************************************************************)
EXTENDS Integers, Sequences, SequencesExt

CONSTANTS
    Lines,          \* the text lines a names list may hold
    MaxLines,       \* the longest names list
    AccountNames,   \* the names accounts may have
    MaxAccounts,    \* the most initial_accounts
    InputSources,   \* values tried for --input: Stdin or a file
    NameSources,    \* values tried for --names: Stdin, a file or NoNames
    Stdin,          \* the argument "-"
    NoNames,        \* --names not given (None)
    NoOutput        \* nothing has been written

Account == [name : AccountNames, is_prefixed : BOOLEAN]

VARIABLES
    accounts0,      \* initial_accounts as read
    nameLines,      \* the lines the user supplies as the names list
    inSrc,          \* opts.input
    nmSrc,          \* opts.names
    stdinRead,      \* standard input has been read to its end
    names,          \* the set load_names returned
    accounts,       \* initial_accounts, updated in place
    pos,            \* accounts visited by the loop of line 45
    pc,             \* "genesis", "names", "loop", "done", "failed"
    output          \* the genesis written, or NoOutput

vars == <<accounts0, nameLines, inSrc, nmSrc, stdinRead, names, accounts,
          pos, pc, output>>

\* line[:line.index('#')] when the line holds a '#' (lines 17-18).
CutComment(l) ==
    LET i == SelectInSeq(l, LAMBDA c : c = "#")
    IN  IF i = 0 THEN l ELSE SubSeq(l, 1, i - 1)

\* line.strip() (line 19).
Strip(l) ==
    LET i == SelectInSeq(l, LAMBDA c : c # " ")
        j == SelectLastInSeq(l, LAMBDA c : c # " ")
    IN  IF i = 0 THEN <<>> ELSE SubSeq(l, i, j)

\* Mutant: the line is stripped before the comment is cut off.
LoadNamesStripFirst(ls) ==
    FoldLeft(LAMBDA ns, l :
                LET n == CutComment(Strip(l)) IN IF n = <<>> THEN ns ELSE ns \cup {n},
             {}, ls)

\* load_names(infile), lines 14-23.
LoadNames(ls) ==
    FoldLeft(LAMBDA ns, l :
                LET n == Strip(CutComment(l)) IN IF n = <<>> THEN ns ELSE ns \cup {n},
             {}, ls)

Init ==
    /\ accounts0 \in BoundedSeq(Account, MaxAccounts)
    /\ nameLines \in BoundedSeq(Lines, MaxLines)
    /\ inSrc \in InputSources
    /\ nmSrc \in NameSources
    /\ stdinRead = FALSE
    /\ names = {}
    /\ accounts = accounts0
    /\ pos = 0
    /\ pc = "genesis"
    /\ output = NoOutput

\* A line with nothing but blanks; json.load skips such trailing text.
Blank(l) == \A x \in DOMAIN l : l[x] = " "

\* Lines 33-37: json.load of the genesis.  From "-" it reads standard input
\* to its end; when the names list is piped there too, any name after the
\* genesis document makes json.load raise "Extra data".
LoadGenesis ==
    /\ pc = "genesis"
    /\ \/ /\ inSrc = Stdin /\ nmSrc = Stdin
          /\ \E j \in DOMAIN nameLines : ~Blank(nameLines[j])
          /\ pc' = "failed"
          /\ UNCHANGED stdinRead
       \/ /\ ~(inSrc = Stdin /\ nmSrc = Stdin /\ \E j \in DOMAIN nameLines : ~Blank(nameLines[j]))
          /\ stdinRead' = (inSrc = Stdin)
          /\ pc' = "names"
    /\ UNCHANGED <<accounts0, nameLines, inSrc, nmSrc, names, accounts, pos, output>>

\* Lines 39-43: load_names from standard input (empty once drained) or from
\* the named file; open(None) raises TypeError when --names is missing.
ReadNames ==
    /\ pc = "names"
    /\ \/ /\ nmSrc = NoNames
          /\ pc' = "failed"
          /\ UNCHANGED names
       \/ /\ nmSrc # NoNames
          /\ names' = LoadNames(IF nmSrc = Stdin /\ stdinRead THEN <<>> ELSE nameLines)
          /\ pc' = "loop"
    /\ UNCHANGED <<accounts0, nameLines, inSrc, nmSrc, stdinRead, accounts, pos, output>>

\* Mutant: del account["is_prefixed"] instead of setting it to False.
UnprefixDelete ==
    /\ pc = "loop"
    /\ pos < Len(accounts)
    /\ accounts' = IF accounts[pos + 1].name \in names
                      THEN [accounts EXCEPT ![pos + 1] = [name |-> @.name]]
                      ELSE accounts
    /\ pos' = pos + 1
    /\ UNCHANGED <<accounts0, nameLines, inSrc, nmSrc, stdinRead, names, pc, output>>

\* Lines 46-47, one account.
Unprefix ==
    /\ pc = "loop"
    /\ pos < Len(accounts)
    /\ accounts' = IF accounts[pos + 1].name \in names
                      THEN [accounts EXCEPT ![pos + 1].is_prefixed = FALSE]
                      ELSE accounts
    /\ pos' = pos + 1
    /\ UNCHANGED <<accounts0, nameLines, inSrc, nmSrc, stdinRead, names, pc, output>>

\* Lines 49-55: the loop is done, dump the genesis.
Write ==
    /\ pc = "loop"
    /\ pos = Len(accounts)
    /\ output' = accounts
    /\ pc' = "done"
    /\ UNCHANGED <<accounts0, nameLines, inSrc, nmSrc, stdinRead, names, accounts, pos>>

\* The process has exited.
Terminated ==
    /\ pc \in {"done", "failed"}
    /\ UNCHANGED vars

Next == LoadGenesis \/ ReadNames \/ Unprefix \/ Write \/ Terminated

Spec == Init /\ [][Next]_vars

-----------------------------------------------------------------------------
TypeOK ==
    /\ pc \in {"genesis", "names", "loop", "done", "failed"}
    /\ pos \in 0 .. Len(accounts0)
    /\ accounts \in [1 .. Len(accounts0) -> Account]
    /\ names \subseteq Seq(UNION {ToSet(l) : l \in Lines})

\* A name is listed when some line reads: blanks, the name, blanks, and then
\* the end of the line or a comment; the name itself is not blank-edged and
\* holds no '#'.  Written independently of the loop of load_names.
Listed(ls) ==
    {n \in UNION {SubSeqs(ls[j]) : j \in DOMAIN ls} :
        /\ n # <<>> /\ n[1] # " " /\ n[Len(n)] # " "
        /\ "#" \notin ToSet(n)
        /\ \E j \in DOMAIN ls : \E a, b \in 0 .. Len(ls[j]) :
              LET l == ls[j]
              IN  /\ a + Len(n) + b <= Len(l)
                  /\ \A x \in 1 .. a : l[x] = " "
                  /\ SubSeq(l, a + 1, a + Len(n)) = n
                  /\ \A x \in a + Len(n) + 1 .. a + Len(n) + b : l[x] = " "
                  /\ (a + Len(n) + b = Len(l) \/ l[a + Len(n) + b + 1] = "#")}

\* Every account whose name the user listed, and only those, is written with
\* is_prefixed = False; the other accounts keep their flag.
ListedNamesUnprefixed ==
    output # NoOutput =>
        \A j \in DOMAIN accounts0 :
            output[j].is_prefixed =
                IF accounts0[j].name \in Listed(nameLines) THEN FALSE
                ELSE accounts0[j].is_prefixed
=============================================================================
