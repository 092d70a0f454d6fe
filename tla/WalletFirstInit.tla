--------------------------- MODULE WalletFirstInit ---------------------------
(***************************************************************************)
(* mainnet-v1.0.1-package/wallet_first_init.py over several invocations.   *)
(* "init" runs  rm -rf wallet; mkdir wallet; cp cli_wallet wallet/  (lines *)
(* 35-38), prints the import steps and starts the wallet (lines 16-32);    *)
(* any other invocation only starts it (lines 42-49).  Starting runs       *)
(* cd wallet; ./cli_wallet ...  (lines 11-14): the commands are joined by  *)
(* ';', so each runs whatever the previous one did, and os.system ignores  *)
(* every exit status.                                                      *)
(*                                                                         *)
(* The file system is: whether wallet/ exists, whether the binary is in    *)
(* it, whether the package ships cli_wallet, and the keys held by the      *)
(* wallet file of each directory cli_wallet may run in ("pkg", the package *)
(* directory, or "wallet").  The session of the started cli_wallet, in     *)
(* which the user imports keys (the steps of lines 22-27) and exits, is    *)
(* the environment and not code of this repository.                       *)
(***************************************************************************)
EXTENDS Integers

CONSTANTS
    Keys,       \* private keys the user may import
    MaxRuns     \* invocations of the script

Dirs == {"pkg", "wallet"}

VARIABLES
    pkgBin,     \* cli_wallet is present in the package directory
    dir,        \* wallet/ exists
    bin,        \* wallet/cli_wallet exists
    wfile,      \* directory -> keys held by the wallet file there
    pc,         \* "idle", "rm", "mkdir", "cp", "start", "session"
    arg,        \* sys.argv[1] of the running invocation
    loc,        \* the directory the running cli_wallet works in
    runs        \* invocations so far

vars == <<pkgBin, dir, bin, wfile, pc, arg, loc, runs>>

Init ==
    /\ pkgBin \in BOOLEAN
    /\ dir = FALSE /\ bin = FALSE
    /\ wfile = [d \in Dirs |-> {}]
    /\ pc = "idle" /\ arg = "none" /\ loc = "pkg"
    /\ runs = 0

\* Lines 42-49: the script is run with "init", another argument or none.
Invoke ==
    /\ pc = "idle"
    /\ runs < MaxRuns
    /\ \E a \in {"init", "none"} :
          /\ arg' = a
          /\ pc' = IF a = "init" THEN "rm" ELSE "start"
    /\ runs' = runs + 1
    /\ UNCHANGED <<pkgBin, dir, bin, wfile, loc>>

\* Mutant: the rm -rf of line 36 is left out.
RemoveWalletSkipped ==
    /\ pc = "rm"
    /\ pc' = "mkdir"
    /\ UNCHANGED <<pkgBin, dir, bin, wfile, arg, loc, runs>>

\* Line 36, rm -rf wallet: the directory, the binary and the wallet file.
RemoveWallet ==
    /\ pc = "rm"
    /\ dir' = FALSE /\ bin' = FALSE
    /\ wfile' = [wfile EXCEPT !["wallet"] = {}]
    /\ pc' = "mkdir"
    /\ UNCHANGED <<pkgBin, arg, loc, runs>>

\* Line 36, mkdir wallet.
MakeDir ==
    /\ pc = "mkdir"
    /\ dir' = TRUE
    /\ pc' = "cp"
    /\ UNCHANGED <<pkgBin, bin, wfile, arg, loc, runs>>

\* Line 36, cp cli_wallet wallet/: fails, unnoticed, without the binary.
CopyBinary ==
    /\ pc = "cp"
    /\ bin' = (dir /\ pkgBin)
    /\ pc' = "start"
    /\ UNCHANGED <<pkgBin, dir, wfile, arg, loc, runs>>

\* Lines 12-14: cd wallet, which fails without wallet/ and leaves the shell
\* in the package directory, then ./cli_wallet there; if the binary is not
\* in that directory the command fails and the script ends.
StartWallet ==
    /\ pc = "start"
    /\ LET d == IF dir THEN "wallet" ELSE "pkg"
           present == IF dir THEN bin ELSE pkgBin
       IN  /\ pc' = IF present THEN "session" ELSE "idle"
           /\ loc' = d
    /\ UNCHANGED <<pkgBin, dir, bin, wfile, arg, runs>>

\* The user imports a key in the cli_wallet session (environment).
ImportKey ==
    /\ pc = "session"
    /\ \E k \in Keys :
          wfile' = [wfile EXCEPT ![loc] = @ \cup {k}]
    /\ UNCHANGED <<pkgBin, dir, bin, pc, arg, loc, runs>>

\* The user leaves cli_wallet; the script returns (environment).
ExitWallet ==
    /\ pc = "session"
    /\ pc' = "idle"
    /\ UNCHANGED <<pkgBin, dir, bin, wfile, arg, loc, runs>>

\* No more invocations.
Done ==
    /\ pc = "idle" /\ runs = MaxRuns
    /\ UNCHANGED vars

Next ==
    \/ Invoke \/ RemoveWallet \/ MakeDir \/ CopyBinary \/ StartWallet
    \/ ImportKey \/ ExitWallet \/ Done

Spec == Init /\ [][Next]_vars

-----------------------------------------------------------------------------
\* When "init" reaches the wallet start, wallet/ exists and holds a fresh
\* state whatever an earlier run left there: no wallet file, and the
\* binary exactly when the package ships one; each of the three commands
\* of line 36 ran although none of their statuses is looked at.
FreshWalletAfterInit ==
    pc = "start" /\ arg = "init" =>
        /\ dir
        /\ wfile["wallet"] = {}
        /\ bin = pkgBin

\* cli_wallet only ever runs in wallet/, where "init" prepared it.
SessionInWalletDir ==
    pc = "session" => loc = "wallet"
=============================================================================
