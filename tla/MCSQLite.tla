------------------------------ MODULE MCSQLite ------------------------------
(***************************************************************************)
(* Small instances of SQLiteDurability for TLC.                            *)
(***************************************************************************)
EXTENDS SQLiteDurability

CONSTANTS m1, m2, ack, scan
=============================================================================
