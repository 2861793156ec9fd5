---------------------------- MODULE MCAuditWriter ----------------------------
(***************************************************************************)
(* Small instances of AuditWriter: four events, of which the table refuses *)
(* at most one, in batches of two.                                         *)
(***************************************************************************)
EXTENDS AuditWriter, TLC

CONSTANTS e1, e2, e3, e4

=============================================================================
