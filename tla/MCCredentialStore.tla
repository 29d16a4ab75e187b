------------------------- MODULE MCCredentialStore -------------------------
(* Two commands: one reads between the two deletions, or logs in, of the other. *)
EXTENDS CredentialStore
=============================================================================
