---------------------------- MODULE MCOAuthSetup ----------------------------
(* Two setups, one after the other.                                      *)
EXTENDS OAuthSetup, TLC
=============================================================================
