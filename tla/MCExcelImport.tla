---------------------------- MODULE MCExcelImport ----------------------------
(* Two files that share a task: f1 names it by its id and has a row of an    *)
(* unknown store and one without a store, f2 reaches it through the hash of  *)
(* a row without an id, in another store, and holds an oversized id; f3    *)
(* has no .xlsx name and f4 cannot be read.                                *)
EXTENDS ExcelImport, TLC

CONSTANTS c1, c2, c3, f1, f2, f3, f4, t1, t2, big, x, s1, s2, stranger, d1, d2

MCDoor == c1 :> "api" @@ c2 :> "form" @@ c3 :> "button"
MCHashOf == x :> t1
Cell(t, s, d) == [task |-> t, rest |-> x, store |-> s, sla |-> d]
MCRowsOf ==
    f1 :> <<Cell(t1, s1, d1), Cell(t2, stranger, NoSla), Cell(t2, NoStore, d1)>>
    @@ f2 :> <<Cell(big, s1, d1), Cell(NoTask, s2, d2)>>
    @@ f3 :> <<Cell(t2, s1, NoSla), Cell(NoTask, NoStore, d1)>> @@ f4 :> <<>>
=============================================================================
