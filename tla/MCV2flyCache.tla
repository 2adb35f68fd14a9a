---------------------------- MODULE MCV2flyCache -----------------------------
(* Small instances of V2flyCache for TLC. *)
EXTENDS V2flyCache, TLC

CONSTANTS l1, l2, b1

OneList == <<l1>>
TwoLists == <<l1, l2>>
NoReloader == {}
OneReloader == {b1}
=============================================================================
