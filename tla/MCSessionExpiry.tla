--------------------------- MODULE MCSessionExpiry ---------------------------
(* Instances of SessionExpiry for TLC.                                      *)
EXTENDS SessionExpiry

MCExtensions == {1, 2}
MCSettings == {0, 1}
=============================================================================
