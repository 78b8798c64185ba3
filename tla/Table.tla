-------------------------------- MODULE Table --------------------------------
(***************************************************************************)
(* A table of a page (static/table.js): its headers sort and its filter    *)
(* row filters, while the stream replaces it.  Every event swaps in a new  *)
(* table as the server rendered it, and 50 ms later a timer makes whatever *)
(* table is there then interactive.                                        *)
(*                                                                         *)
(* A cell is its text; parseValue gives a text its place in the order.     *)
(* Columns are taken to hold values of one kind: what the comparison makes *)
(* of numbers among names is left out.                                     *)
(***************************************************************************)
EXTENDS Naturals, Sequences, Functions

CONSTANTS
  Rows,       \* rows a table may have
  Columns,    \* columns of the table
  Texts,      \* texts of cells
  Cell,       \* Cell[r][c]: the text of row r in column c
  Place,      \* Place[x]: the place of text x in the order, or Null
  Null,       \* parseValue's null; also no column
  Queries,    \* what may be typed into a filter
  NoQuery,    \* the empty filter
  Contained,  \* Contained[q]: the texts that contain q
  Renders,    \* the rows the server may send, in any order
  MaxTimers   \* bound on the timers that run together

ASSUME TableAssumption ==
  /\ Cell \in [Rows -> [Columns -> Texts]]
  /\ Place \in [Texts -> Nat \cup {Null}]
  /\ NoQuery \in Queries
  /\ Contained \in [Queries -> SUBSET Texts]
  /\ Contained[NoQuery] = Texts
  /\ Renders \subseteq {s \in Seq(Rows) : IsInjective(s)}
  /\ Null \notin Columns
  /\ MaxTimers \in Nat

VARIABLES
  sent,        \* the rows the server sent last
  tbody,       \* the rows of the table in the page, in their order
  noMatch,     \* rows that are hidden
  tableInit,   \* the table's mark that it has been initialised
  filterRows,  \* filter rows in the table's head
  sortCol,     \* column sorted by
  sortDir,     \* 0 none, 1 ascending, 2 descending
  filters,     \* filters[c]: what is typed in column c
  timers       \* calls of initAll to come

control == <<tableInit, filterRows>>
vars == <<sent, tbody, noMatch, control, sortCol, sortDir, filters, timers>>

NoFilters == [c \in Columns |-> NoQuery]

TypeOK ==
  /\ sent \in Renders
  /\ tbody \in Seq(Rows)
  /\ noMatch \subseteq Rows
  /\ tableInit \in BOOLEAN
  /\ filterRows \in Nat
  /\ sortCol \in Columns \cup {Null}
  /\ sortDir \in 0..2
  /\ filters \in [Columns -> Queries]
  /\ timers \in 0..MaxTimers

(* The deferred script has run, before htmx connects the page's stream.      *)
Init ==
  /\ sent \in Renders
  /\ tbody = sent
  /\ noMatch = {}
  /\ tableInit = TRUE
  /\ filterRows = 1
  /\ sortCol = Null
  /\ sortDir = 0
  /\ filters = NoFilters
  /\ timers = 0

-----------------------------------------------------------------------------
(* Sorting: null comes last in both directions, and equals stay in order.    *)
Less(x, y, dir) ==
  /\ Place[x] # Null
  /\ \/ Place[y] = Null
     \/ dir = 1 /\ Place[x] < Place[y]
     \/ dir = 2 /\ Place[x] > Place[y]

(* Whether the row at position i comes to stand above the one at k: the rows  *)
(* that are hidden stay on top, those that are shown are moved behind them.   *)
Above(i, k, c, dir, hidden) ==
  LET x == Cell[tbody[i]][c]
      y == Cell[tbody[k]][c]
  IN  \/ tbody[i] \in hidden /\ (tbody[k] \in hidden => i < k)
      \/ /\ tbody[i] \notin hidden /\ tbody[k] \notin hidden
         /\ Less(x, y, dir) \/ (i < k /\ ~Less(y, x, dir))

(* order[p]: where the row that comes to position p was.                      *)
SortedOrders(c, dir, hidden) ==
  {order \in Bijection(DOMAIN tbody, DOMAIN tbody) :
     \A p, q \in DOMAIN tbody :
       p < q => Above(order[p], order[q], c, dir, hidden)}

(* Mutant: the table is filled with the sorted rows. *)
SortAway(c, dir, hidden) ==
  \E order \in SortedOrders(c, dir, hidden) :
    tbody' = SelectSeq([p \in DOMAIN tbody |-> tbody[order[p]]],
                       LAMBDA r : r \notin hidden)

(* applySort: a stable sort of the rows that are shown.                       *)
Sort(c, dir, hidden) ==
  \E order \in SortedOrders(c, dir, hidden) :
    tbody' = [p \in DOMAIN tbody |-> tbody[order[p]]]

Matching(r, typed) == \A c \in Columns : Cell[r][c] \in Contained[typed[c]]

(* applyFilter: every row of the table is tried against every filter.        *)
NoMatch(typed) == {r \in Range(tbody) : ~Matching(r, typed)}

(* Mutant: rows that come back are not sorted in. *)
FilterOnly(typed, c, dir) ==
  /\ noMatch' = NoMatch(typed)
  /\ UNCHANGED tbody

applyFilter(typed, c, dir) ==
  /\ noMatch' = NoMatch(typed)
  /\ IF dir > 0 THEN Sort(c, dir, NoMatch(typed)) ELSE UNCHANGED tbody

-----------------------------------------------------------------------------
(* A click on a header: ascending, descending, none.                         *)
Click(c) ==
  /\ filterRows > 0
  /\ sortCol' = c
  /\ sortDir' = IF sortCol = c THEN (sortDir + 1) % 3 ELSE 1
  /\ IF sortDir' = 0 THEN applyFilter(filters, c, 0)
     ELSE Sort(c, sortDir', noMatch) /\ UNCHANGED noMatch
  /\ UNCHANGED <<sent, control, filters, timers>>

Type(c, q) ==
  /\ filterRows > 0
  /\ filters' = [filters EXCEPT ![c] = q]
  /\ applyFilter(filters', sortCol, sortDir)
  /\ UNCHANGED <<sent, control, sortCol, sortDir, timers>>

NewTable(s) ==
  /\ sent' = s
  /\ tbody' = s
  /\ noMatch' = {}
  /\ filterRows' = 0
  /\ sortCol' = Null
  /\ sortDir' = 0
  /\ filters' = NoFilters

(* Mutant: the mark is on an element that the swap keeps. *)
SwapAndKeepMark ==
  /\ timers < MaxTimers
  /\ \E s \in Renders : NewTable(s)
  /\ timers' = timers + 1
  /\ UNCHANGED tableInit

(* An event of the stream: the old table goes, with what the user chose, and *)
(* htmx:afterSwap sets a timer.                                              *)
Swap ==
  /\ timers < MaxTimers
  /\ \E s \in Renders : NewTable(s)
  /\ tableInit' = FALSE
  /\ timers' = timers + 1

(* Mutant: initTable does not look at the mark. *)
initAgain ==
  /\ tableInit' = TRUE
  /\ filterRows' = filterRows + 1

(* initTable: headers and filter row, once.                                  *)
initTable ==
  IF tableInit THEN UNCHANGED control
  ELSE /\ tableInit' = TRUE
       /\ filterRows' = filterRows + 1

(* One of the timers is over: initAll.                                       *)
Timer ==
  /\ timers > 0
  /\ timers' = timers - 1
  /\ initTable
  /\ UNCHANGED <<sent, tbody, noMatch, sortCol, sortDir, filters>>

Next ==
  \/ Swap \/ Timer
  \/ \E c \in Columns : Click(c)
  \/ \E c \in Columns, q \in Queries : Type(c, q)

(* A timer that is set is over in the end; users and servers owe nothing.    *)
Spec == Init /\ [][Next]_vars /\ WF_vars(Timer)

-----------------------------------------------------------------------------
(* Properties                                                                *)

(* table.js:201-203: however many swaps come in quick succession, a table has *)
(* one filter row and one handler per header (two would undo each other).     *)
OneFilterRow == filterRows <= 1

(* table.js:2-3, live-updated tables retain interactive behavior: a table     *)
(* that was swapped in, or the one that replaced it, becomes interactive.     *)
InteractiveAgain == filterRows = 0 ~> filterRows > 0

(* The rows shown are those the server sent that match all the filters the    *)
(* user sees, each once, in whatever order the user typed, sorted and cleared *)
(* (table.js:154, :174: sorting and filtering only move and hide rows).       *)
ShownMatch ==
  /\ Range(tbody) \ noMatch = {r \in Range(sent) : Matching(r, filters)}
  /\ IsInjective(tbody)

(* The rows shown are in the order that the arrow at the header promises,     *)
(* those included that a filter had hidden when the column was sorted.        *)
ShownSorted ==
  sortDir > 0 =>
    \A i, k \in DOMAIN tbody :
      i < k /\ {tbody[i], tbody[k]} \cap noMatch = {} =>
        ~Less(Cell[tbody[k]][sortCol], Cell[tbody[i]][sortCol], sortDir)

=============================================================================
