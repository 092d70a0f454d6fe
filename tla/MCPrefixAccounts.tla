--------------------------- MODULE MCPrefixAccounts ---------------------------
(* Model-checking instance of PrefixAccounts: names built from "a", "b" and *)
(* the prefix "p", so that prefixing one name can give another.            *)
EXTENDS PrefixAccounts

MCNames == {<<"a">>, <<"p", "a">>, <<"p", "p", "a">>, <<"b">>}

MCBegins == {<<>>, <<"p">>}

MCRefOrder == <<"initial_assets", "initial_witness_candidates",
                "initial_committee_candidates", "initial_worker_candidates">>
=============================================================================
