----------------------------- MODULE MCAccounts -----------------------------
(* Small instances of Accounts for TLC. *)
EXTENDS Accounts, TLC

CONSTANTS pat, maiden, married

\* One person, who has one address, or has had two.
OneAddress == maiden :> pat
TwoAddresses == maiden :> pat @@ married :> pat
=============================================================================
