--------------------------- MODULE MCPortalEditor ---------------------------
(* Small instances of PortalEditor for TLC. *)
EXTENDS PortalEditor

CONSTANTS t1, t2

OneTab == {t1}
TwoTabs == {t1, t2}
=============================================================================
