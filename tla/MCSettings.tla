------------------------------ MODULE MCSettings ------------------------------
(* One admin, one member, one tab; a secret, a text and the two switches.     *)
EXTENDS Settings, TLC

CONSTANTS key, model, enabled, provider, rootKey, annKey, envKey, gpt, envModel, root, ann

MCDefault == key :> Blank @@ model :> gpt @@ enabled :> Off @@ provider :> On
MCTyped == root :> {rootKey} @@ ann :> {annKey}
MCEnvs == {NoRows, key :> envKey, model :> envModel @@ enabled :> On}
=============================================================================
