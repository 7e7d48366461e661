------------------------------- MODULE MCCatalog -------------------------------
(* Small instances of Catalog for TLC.                                     *)
EXTENDS Catalog

CONSTANTS k, l, m, n, x

Row(key, ref, text, tr) ==
    [key |-> key, ref |-> ref, scoped |-> ref # None, excel |-> FALSE, text |-> text, tr |-> tr]
Scoped(q) == [q EXCEPT !.scoped = TRUE]
Excel(q) == [q EXCEPT !.excel = TRUE]

Table(rows, mods) == [rows |-> rows, mods |-> mods]
Live(key, mod) == Promoted(Draft([key |-> key, mod |-> mod, text |-> x, tr |-> Blank]))

\* Two published strings of one key, in a module and outside; or one, and room.
TwoPlaces ==
    {Table(<<Live(k, 1), Live(k, None)>>, <<m, None>>),
     Table(<<Live(k, 1), NoRow>>, <<m, None>>)}

\* Flat files, modular files, Excel sheets.
AllFiles ==
    {<<Row(k, None, x, None)>>, <<Row(k, None, None, x)>>,
     <<Row(k, m, x, None)>>, <<Scoped(Row(k, None, x, x))>>,
     <<Row(k, m, x, None), Row(k, n, x, None)>>,
     <<Row(k, m, x, None), Scoped(Row(k, None, k, None))>>,
     <<Excel(Row(k, None, x, x))>>, <<Excel(Row(k, m, None, x))>>}
=============================================================================
