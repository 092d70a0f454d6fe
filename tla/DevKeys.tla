------------------------------- MODULE DevKeys -------------------------------
(***************************************************************************)
(* The key derivation the generators of programs/genesis_util/ call        *)
(* through subprocess.check_output(["programs/genesis_util/get_dev_key",   *)
(* secret, label]): a deterministic function of the secret and the label, *)
(* different for different labels.  A label is the tuple of the parts the *)
(* code joins into the label string ("wit-block-signing-" + str(i) is     *)
(* <<"wit-block-signing", i>>); the parts are separated by "-" and a       *)
(* number has no "-" in it, so the join is injective on the labels used.   *)
(***************************************************************************)

\* owner[0]["public_key"] of the JSON get_dev_key prints.
PublicKey(secret, label) == <<"pub", secret, label>>

\* owner[0]["private_key"].
PrivateKey(secret, label) == <<"priv", secret, label>>

\* owner[0]["address"].
Address(secret, label) == <<"addr", secret, label>>
=============================================================================
