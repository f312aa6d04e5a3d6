---------------------------- MODULE MCUserAccounts ----------------------------
(***************************************************************************)
(* Two identities, of one person or of two, who share a browser, and two   *)
(* addresses, for TLC.  A webhook tells of users and the links between     *)
(* identities decide on sessions, which do not meet: two of the four       *)
(* combinations are enough.                                                *)
(***************************************************************************)
EXTENDS UserAccounts

Unlinked == \A p \in Person : linked[p] = {p}

MCInit == AccountsInit /\ (webhook <=> Unlinked)

MCSpec == MCInit /\ [][AccountsNext]_accountVars
=============================================================================
