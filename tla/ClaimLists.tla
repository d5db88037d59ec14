----------------------------- MODULE ClaimLists -----------------------------
(***************************************************************************)
(* The export and the pages next to the same claims.  They only read, and  *)
(* so each behaviour has one of them.                                      *)
(***************************************************************************)
EXTENDS ClaimPages, ClaimExport

Init == TableInit /\ PagesInit /\ ExportInit

Next ==
    \/ view = "export" /\ ExportNext /\ UNCHANGED browse
    \/ view # "export" /\ PagesNext /\ UNCHANGED export

vars == <<table, browse, export>>

Spec == Init /\ [][Next]_vars

-----------------------------------------------------------------------------

ListsTypeOK == PagesTypeOK /\ ExportTypeOK
=============================================================================
