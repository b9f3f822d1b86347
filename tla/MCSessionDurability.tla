------------------------- MODULE MCSessionDurability -------------------------
(* SessionDurability for TLC: pages of two tokens.                          *)
EXTENDS SessionDurability
================================================================================
