----------------------------- MODULE MCAuditPages -----------------------------
(***************************************************************************)
(* Small instances of AuditPages: four events, of which the table refuses  *)
(* at most one, in batches of two; rows that share their created_at, on    *)
(* pages of one row.                                                       *)
(***************************************************************************)
EXTENDS AuditPages, TLC

CONSTANTS e1, e2, e3, e4

MCCreatedAt == <<1, 2, 2, 3>>
MCRank == e1 :> 2 @@ e2 :> 4 @@ e3 :> 1 @@ e4 :> 3
MCFilters == {[events |-> Events \ {e3}, from |-> 0, to |-> 1]}
=============================================================================
