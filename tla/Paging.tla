-------------------------------- MODULE Paging --------------------------------
(***************************************************************************)
(* A client that follows the cursors of a list to its end: the read        *)
(* operations of the command line (src/internal/operations/operations.go)  *)
(* and the symbol and diagnostic queries of the repository                 *)
(* (src/internal/repository/query.go).  The rows are 1..n in their order.  *)
(***************************************************************************)
EXTENDS Naturals, Sequences

CONSTANTS
  DefaultLimit, \* 100 in the code
  MaxRows,      \* bounds rows, limit and budget
  NoCursor

ASSUME PagingAssumption ==
  DefaultLimit \in Nat \ {0} /\ MaxRows \in Nat /\ NoCursor \notin Nat

VARIABLES
  list,     \* which list: "operations", "symbols", "diagnostics" or "references"
  rows,     \* how many rows it has
  limit,    \* the page size asked for, 0 if none
  budget,   \* the most rows a query may visit, 0 if none
  cursor,   \* where the next page starts, NoCursor when there is none
  received, \* the rows of the pages received, in their order
  pages     \* how many pages that were

pvars == <<list, rows, limit, budget, cursor, received, pages>>

Smaller(a, b) == IF a <= b THEN a ELSE b

\* A missing or unreadable cursor starts from the first row.
Offset(c) == IF c = NoCursor THEN 0 ELSE c

Window(from, size) ==
  [i \in 1..Smaller(size, rows - Smaller(from, rows)) |-> from + i]

\* The page size after defaults: a diagnostics page is no larger than its budget.
Limit == IF limit = 0 THEN DefaultLimit ELSE limit
Budget == IF budget = 0 THEN Limit * 10 ELSE budget
DiagnosticLimit == Smaller(Limit, Budget)

\* Mutant: the cursor skips the row after the page.
OperationsPageSkips(c) ==
  LET end == Smaller(Smaller(Offset(c), rows) + Limit, rows)
  IN [items |-> Window(Offset(c), Limit), next |-> IF end < rows THEN end + 1 ELSE NoCursor]

OperationsPage(c) ==
  LET end == Smaller(Smaller(Offset(c), rows) + Limit, rows)
  IN [items |-> Window(Offset(c), Limit), next |-> IF end < rows THEN end ELSE NoCursor]

\* Mutant: the cursor counts the symbols of this page alone.
SymbolsPageRelative(c) ==
  LET items == Window(Offset(c), Smaller(Limit, Budget))
  IN [items |-> items, next |-> IF Len(items) = Limit THEN Len(items) ELSE NoCursor]

\* The cursor counts the rows visited, which the page may have left out.
SymbolsPage(c) ==
  LET visited == Len(Window(Offset(c), Budget))
      items == Window(Offset(c), Smaller(Limit, Budget))
  IN [items |-> items,
      next |-> IF visited = Budget /\ Len(items) = Limit THEN Offset(c) + visited ELSE NoCursor]

\* The cursor counts the items of this page alone.
DiagnosticsPage(c) ==
  LET visited == Len(Window(Offset(c), Budget))
      items == Window(Offset(c), DiagnosticLimit)
  IN [items |-> items, next |-> IF visited > Len(items) THEN Len(items) ELSE NoCursor]

\* References, edges and text hits: one page, whatever the cursor.
FirstPage(c) == [items |-> Window(0, Limit), next |-> NoCursor]

Page(c) ==
  CASE list = "operations" -> OperationsPage(c)
    [] list = "symbols" -> SymbolsPage(c)
    [] list = "diagnostics" -> DiagnosticsPage(c)
    [] list = "references" -> FirstPage(c)

PagingInit ==
  /\ list \in {"operations", "symbols", "diagnostics", "references"}
  /\ rows \in 0..MaxRows
  /\ limit \in 0..MaxRows
  /\ budget \in 0..MaxRows
  /\ cursor = NoCursor
  /\ received = <<>>
  /\ pages = 0

Done == pages > 0 /\ cursor = NoCursor

\* A client that has received as many pages as there are rows, and one more, gives up.
NextPage ==
  /\ ~Done
  /\ pages <= MaxRows
  /\ received' = received \o Page(cursor).items
  /\ pages' = pages + 1
  /\ cursor' = Page(cursor).next
  /\ UNCHANGED <<list, rows, limit, budget>>

PagingSpec == PagingInit /\ [][NextPage]_pvars
-------------------------------------------------------------------------------
(* Properties *)

\* A client that follows the cursors gets every row once and in order, and the last
\* page has no cursor: always for the command line's lists; for symbols when a page
\* holds what it visits; for diagnostics while two pages hold all rows.
EveryRowOnce ==
  LET paged == \/ list = "operations"
               \/ list = "symbols" /\ Limit = Budget
               \/ list = "diagnostics" /\ DiagnosticLimit < Budget /\ rows <= 2 * DiagnosticLimit
  IN paged => /\ received = [i \in 1..Len(received) |-> i]
              /\ Done => Len(received) = rows
              /\ pages > MaxRows => Done

\* Whatever the limits, the symbol cursor goes on: rows may be passed over, none is
\* sent twice.
PagesMoveForward ==
  list = "symbols" => \A i, j \in 1..Len(received) : i < j => received[i] < received[j]

\* "Large results paginate without omissions or duplicates": of the diagnostics query
\* under the budget it takes by default.
DiagnosticsOnce ==
  list = "diagnostics" /\ budget = 0 =>
    /\ \A i, j \in 1..Len(received) : received[i] = received[j] => i = j
    /\ Done => Len(received) = rows
===============================================================================
