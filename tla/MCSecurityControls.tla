-------------------------- MODULE MCSecurityControls --------------------------
(* One client's logins, and a user with one access token at a time.          *)
EXTENDS SecurityControls
=============================================================================
