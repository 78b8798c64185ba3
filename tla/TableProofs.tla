----------------------------- MODULE TableProofs -----------------------------
(***************************************************************************)
(* Proofs about a table of a page, for any rows, columns, texts, filters   *)
(* and renders, and however many timers run together.                      *)
(***************************************************************************)
EXTENDS Table, FiniteSetTheorems, FunctionTheorems, TLAPS

(* The mark and the filter row come and go together.                         *)
ControlInv == filterRows = IF tableInit THEN 1 ELSE 0

(* The table has the rows that were sent, each once, and hides those the     *)
(* filters of the page do not match.                                         *)
RowsInv ==
  /\ Range(tbody) = Range(sent)
  /\ IsInjective(tbody)
  /\ noMatch = {r \in Range(tbody) : ~Matching(r, filters)}

SortInv ==
  /\ sortDir > 0 => sortCol \in Columns
  /\ ShownSorted

Inv == TypeOK /\ ControlInv /\ RowsInv /\ SortInv

-----------------------------------------------------------------------------
(* The order of the rows                                                     *)

LEMMA CellText ==
  ASSUME NEW r \in Rows, NEW c \in Columns
  PROVE  /\ Cell[r][c] \in Texts
         /\ Place[Cell[r][c]] \in Nat \cup {Null}
BY TableAssumption

(* No two texts come before each other.                                      *)
LEMMA LessAsymmetric ==
  ASSUME NEW x \in Texts, NEW y \in Texts, NEW dir, Less(x, y, dir)
  PROVE  ~Less(y, x, dir)
BY TableAssumption DEF Less

LEMMA Positions ==
  ASSUME NEW s \in Seq(Rows)
  PROVE  /\ Len(s) \in Nat
         /\ DOMAIN s = 1..Len(s)
         /\ \A i \in DOMAIN s : s[i] \in Rows
         /\ Range(s) \subseteq Rows
BY DEF Range

(* A sequence read through a permutation of its positions.                   *)
LEMMA Permuted ==
  ASSUME NEW s \in Seq(Rows), NEW order \in Bijection(DOMAIN s, DOMAIN s)
  PROVE  LET t == [p \in DOMAIN s |-> s[order[p]]] IN
         /\ t \in Seq(Rows)
         /\ DOMAIN t = DOMAIN s
         /\ Range(t) = Range(s)
         /\ IsInjective(s) => IsInjective(t)
<1> DEFINE D == DOMAIN s
           t == [p \in D |-> s[order[p]]]
<1>1. /\ order \in [D -> D]
      /\ \A a, b \in D : order[a] = order[b] => a = b
      /\ \A i \in D : \E p \in D : order[p] = i
  BY Fun_BijectionProperties
<1>2. D = 1..Len(s) /\ Len(s) \in Nat /\ \A i \in D : s[i] \in Rows
  BY Positions
<1>3. t \in [1..Len(s) -> Rows]
  BY <1>1, <1>2
<1>4. t \in Seq(Rows)
  BY <1>2, <1>3
<1>5. Range(t) = Range(s)
  BY <1>1 DEF Range
<1>6. ASSUME IsInjective(s) PROVE IsInjective(t)
  <2>1. ASSUME NEW a \in D, NEW b \in D, t[a] = t[b] PROVE a = b
    <3>1. s[order[a]] = s[order[b]] /\ order[a] \in D /\ order[b] \in D
      BY <1>1, <2>1
    <3>2. order[a] = order[b]
      BY <1>6, <3>1, Zenon DEF IsInjective
    <3> QED BY <1>1, <3>2
  <2> QED BY <2>1, Zenon DEF IsInjective
<1> QED BY <1>4, <1>5, <1>6

(* applySort loses and doubles no row, and leaves those it does not hide in  *)
(* the order of the column.                                                  *)
LEMMA SortMovesRows ==
  ASSUME TypeOK, NEW c \in Columns, NEW dir, NEW hidden, Sort(c, dir, hidden)
  PROVE  /\ tbody' \in Seq(Rows)
         /\ Range(tbody') = Range(tbody)
         /\ IsInjective(tbody) => IsInjective(tbody')
         /\ \A p, q \in DOMAIN tbody' :
              p < q /\ {tbody'[p], tbody'[q]} \cap hidden = {} =>
                ~Less(Cell[tbody'[q]][c], Cell[tbody'[p]][c], dir)
<1>1. tbody \in Seq(Rows)
  BY DEF TypeOK
<1>2. PICK order \in SortedOrders(c, dir, hidden) :
        tbody' = [p \in DOMAIN tbody |-> tbody[order[p]]]
  BY DEF Sort
<1>3. /\ order \in Bijection(DOMAIN tbody, DOMAIN tbody)
      /\ \A p, q \in DOMAIN tbody :
           p < q => Above(order[p], order[q], c, dir, hidden)
  BY DEF SortedOrders
<1>4. /\ tbody' \in Seq(Rows)
      /\ DOMAIN tbody' = DOMAIN tbody
      /\ Range(tbody') = Range(tbody)
      /\ IsInjective(tbody) => IsInjective(tbody')
  BY <1>1, <1>2, <1>3, Permuted
<1>5. ASSUME NEW p \in DOMAIN tbody', NEW q \in DOMAIN tbody', p < q,
             {tbody'[p], tbody'[q]} \cap hidden = {}
      PROVE  ~Less(Cell[tbody'[q]][c], Cell[tbody'[p]][c], dir)
  <2> DEFINE x == Cell[tbody'[p]][c]
             y == Cell[tbody'[q]][c]
  <2>1. tbody'[p] = tbody[order[p]] /\ tbody'[q] = tbody[order[q]]
    BY <1>2, <1>4
  <2>2. tbody'[p] \in Rows /\ tbody'[q] \in Rows
    BY <1>4, Positions
  <2>3. x \in Texts /\ y \in Texts
    BY <2>2, CellText
  <2>4. tbody'[p] \notin hidden /\ tbody'[q] \notin hidden
    BY <1>5
  <2>5. Above(order[p], order[q], c, dir, hidden)
    BY <1>3, <1>4, <1>5
  <2>6. Less(x, y, dir) \/ ~Less(y, x, dir)
    BY <2>1, <2>4, <2>5, Zenon DEF Above
  <2> QED BY <2>3, <2>6, LessAsymmetric
<1> QED BY <1>4, <1>5

-----------------------------------------------------------------------------
(* The invariant                                                             *)

(* Without a filter every row matches.                                       *)
LEMMA NoFilterMatches ==
  /\ NoFilters \in [Columns -> Queries]
  /\ \A r \in Rows : Matching(r, NoFilters)
BY TableAssumption DEF NoFilters, Matching

LEMMA Sent ==
  ASSUME NEW s \in Renders
  PROVE  /\ s \in Seq(Rows)
         /\ IsInjective(s)
         /\ Range(s) \subseteq Rows
BY TableAssumption, Positions

LEMMA InitInv == Init => Inv
<1> SUFFICES ASSUME Init PROVE Inv
  OBVIOUS
<1>1. TypeOK
  BY Sent, NoFilterMatches, TableAssumption DEF Init, TypeOK
<1>2. ControlInv
  BY DEF Init, ControlInv
<1>3. RowsInv
  BY Sent, NoFilterMatches DEF Init, RowsInv
<1>4. SortInv
  BY DEF Init, SortInv, ShownSorted
<1> QED BY <1>1, <1>2, <1>3, <1>4 DEF Inv

(* applyFilter hides what does not match, and sorts again what it shows.     *)
LEMMA FilterKeeps ==
  ASSUME Inv, NEW typed \in [Columns -> Queries], NEW c, NEW dir \in 0..2,
         dir > 0 => c \in Columns, applyFilter(typed, c, dir),
         filters' = typed, sent' = sent, sortCol' = c, sortDir' = dir
  PROVE  /\ tbody' \in Seq(Rows)
         /\ noMatch' \subseteq Rows
         /\ RowsInv'
         /\ SortInv'
<1> DEFINE hidden == NoMatch(typed)
<1>1. noMatch' = hidden
  BY DEF applyFilter
<1>2. tbody \in Seq(Rows) /\ Range(tbody) \subseteq Rows
  BY Positions DEF Inv, TypeOK
<1>3. /\ tbody' \in Seq(Rows)
      /\ Range(tbody') = Range(tbody)
      /\ IsInjective(tbody')
  <2>1. CASE dir > 0
    <3>1. Sort(c, dir, hidden)
      BY <2>1 DEF applyFilter
    <3> QED BY <2>1, <3>1, SortMovesRows DEF Inv, RowsInv
  <2>2. CASE ~(dir > 0)
    <3>1. tbody' = tbody
      BY <2>2 DEF applyFilter
    <3> QED BY <1>2, <3>1 DEF Inv, RowsInv
  <2> QED BY <2>1, <2>2
<1>4. noMatch' \subseteq Rows
  BY <1>1, <1>2 DEF NoMatch
<1>5. RowsInv'
  BY <1>1, <1>3 DEF Inv, RowsInv, NoMatch, Matching
<1>6. ShownSorted'
  <2> SUFFICES ASSUME sortDir' > 0
               PROVE  \A i, k \in DOMAIN tbody' :
                        i < k /\ {tbody'[i], tbody'[k]} \cap noMatch' = {} =>
                          ~Less(Cell[tbody'[k]][sortCol'],
                                Cell[tbody'[i]][sortCol'], sortDir')
    BY DEF ShownSorted, Less
  <2>1. dir > 0 /\ c \in Columns /\ Sort(c, dir, hidden)
    BY DEF applyFilter
  <2>2. \A p, q \in DOMAIN tbody' :
          p < q /\ {tbody'[p], tbody'[q]} \cap hidden = {} =>
            ~Less(Cell[tbody'[q]][c], Cell[tbody'[p]][c], dir)
    BY <2>1, SortMovesRows DEF Inv
  <2> QED BY <1>1, <2>2
<1> QED BY <1>3, <1>4, <1>5, <1>6 DEF SortInv
LEMMA NextInv == Inv /\ [Next]_vars => Inv'
<1> SUFFICES ASSUME Inv, [Next]_vars PROVE Inv'
  OBVIOUS
<1> USE DEF Inv
<1>1. CASE Swap
  <2>1. PICK s \in Renders : NewTable(s)
    BY <1>1 DEF Swap
  <2>2. /\ sent' = s /\ tbody' = s /\ noMatch' = {}
        /\ filters' = NoFilters /\ sortCol' = Null /\ sortDir' = 0
        /\ filterRows' = 0 /\ tableInit' = FALSE
        /\ timers < MaxTimers /\ timers' = timers + 1
    BY <1>1, <2>1 DEF Swap, NewTable
  <2>3. timers' \in 0..MaxTimers
    BY <2>2, TableAssumption DEF TypeOK
  <2>4. TypeOK'
    <3>1. tbody' \in Seq(Rows) /\ noMatch' \subseteq Rows
      BY <2>2, Sent
    <3>2. filters' \in [Columns -> Queries]
      BY <2>2, NoFilterMatches
    <3>3. tableInit' \in BOOLEAN
      BY <2>2
    <3>4. filterRows' \in Nat /\ sortDir' \in 0..2
      BY <2>2
    <3>5. sent' \in Renders /\ sortCol' \in Columns \cup {Null}
      BY <2>2
    <3> QED BY <2>3, <3>1, <3>2, <3>3, <3>4, <3>5 DEF TypeOK
  <2>5. ControlInv'
    BY <2>2 DEF ControlInv
  <2>6. RowsInv'
    <3>1. \A r \in Range(s) : Matching(r, NoFilters)
      BY Sent, NoFilterMatches
    <3> QED BY <2>2, <3>1, Sent DEF RowsInv, Matching
  <2>7. SortInv'
    BY <2>2 DEF SortInv, ShownSorted
  <2> QED BY <2>4, <2>5, <2>6, <2>7
<1>2. CASE Timer
  <2>1. /\ UNCHANGED <<sent, tbody, noMatch, sortCol, sortDir, filters>>
        /\ timers > 0 /\ timers' = timers - 1
        /\ initTable
    BY <1>2 DEF Timer
  <2>2. timers' \in 0..MaxTimers
    BY <2>1, TableAssumption DEF TypeOK
  <2>3. ControlInv' /\ tableInit' \in BOOLEAN /\ filterRows' \in Nat
    <3>1. CASE tableInit
      BY <2>1, <3>1 DEF initTable, control, ControlInv, TypeOK
    <3>2. CASE ~tableInit
      <4>1. tableInit' = TRUE /\ filterRows = 0 /\ filterRows' = filterRows + 1
        BY <2>1, <3>2 DEF initTable, ControlInv
      <4> QED BY <4>1 DEF ControlInv
    <3> QED BY <3>1, <3>2
  <2>4. TypeOK'
    BY <2>1, <2>2, <2>3 DEF TypeOK
  <2>5. RowsInv'
    BY <2>1 DEF RowsInv, Matching
  <2>6. SortInv'
    BY <2>1 DEF SortInv, ShownSorted, Less
  <2> QED BY <2>3, <2>4, <2>5, <2>6
<1>3. ASSUME NEW c \in Columns, Click(c) PROVE Inv'
  <2>1. /\ sortCol' = c /\ sortDir' \in 0..2
        /\ UNCHANGED <<sent, control, filters, timers>>
    BY <1>3 DEF Click, TypeOK
  <2>2. CASE sortDir' = 0
    <3>1. applyFilter(filters, c, 0)
      BY <1>3, <2>2 DEF Click
    <3>2. /\ tbody' \in Seq(Rows) /\ noMatch' \subseteq Rows
          /\ RowsInv' /\ SortInv'
      BY <2>1, <2>2, <3>1, FilterKeeps DEF TypeOK
    <3>3. TypeOK' /\ ControlInv'
      BY <2>1, <3>2 DEF TypeOK, ControlInv, control
    <3> QED BY <3>2, <3>3
  <2>3. CASE sortDir' # 0
    <3>1. Sort(c, sortDir', noMatch) /\ noMatch' = noMatch
      BY <1>3, <2>3 DEF Click
    <3>2. /\ tbody' \in Seq(Rows)
          /\ Range(tbody') = Range(tbody)
          /\ IsInjective(tbody) => IsInjective(tbody')
          /\ \A p, q \in DOMAIN tbody' :
               p < q /\ {tbody'[p], tbody'[q]} \cap noMatch = {} =>
                 ~Less(Cell[tbody'[q]][c], Cell[tbody'[p]][c], sortDir')
      BY <3>1, SortMovesRows
    <3>3. TypeOK' /\ ControlInv'
      BY <2>1, <3>1, <3>2 DEF TypeOK, ControlInv, control
    <3>4. RowsInv'
      BY <2>1, <3>1, <3>2 DEF RowsInv, Matching
    <3>5. ShownSorted'
      BY <2>1, <3>1, <3>2, Zenon DEF ShownSorted, Less
    <3>6. SortInv'
      BY <2>1, <3>5 DEF SortInv
    <3> QED BY <3>3, <3>4, <3>6
  <2> QED BY <2>2, <2>3
<1>4. ASSUME NEW c \in Columns, NEW q \in Queries, Type(c, q) PROVE Inv'
  <2>1. /\ filters' = [filters EXCEPT ![c] = q]
        /\ applyFilter(filters', sortCol, sortDir)
        /\ UNCHANGED <<sent, control, sortCol, sortDir, timers>>
    BY <1>4 DEF Type
  <2>2. filters' \in [Columns -> Queries]
    BY <2>1 DEF TypeOK
  <2>3. /\ tbody' \in Seq(Rows) /\ noMatch' \subseteq Rows
        /\ RowsInv' /\ SortInv'
    BY <2>1, <2>2, FilterKeeps DEF TypeOK, SortInv
  <2>4. TypeOK' /\ ControlInv'
    BY <2>1, <2>2, <2>3 DEF TypeOK, ControlInv, control
  <2> QED BY <2>3, <2>4
<1>5. CASE UNCHANGED vars
  BY <1>5 DEF vars, control, TypeOK, ControlInv, RowsInv, SortInv, ShownSorted,
              Matching, Less
<1> QED BY <1>1, <1>2, <1>3, <1>4, <1>5 DEF Next

-----------------------------------------------------------------------------

(* Every variable of the table keeps its type, and the timers their bound.   *)
THEOREM TypeCorrect == Spec => []TypeOK
<1>1. Inv => TypeOK
  BY DEF Inv
<1> QED BY InitInv, NextInv, <1>1, PTL DEF Spec

(* table.js:55-56 and 201-203: however many timers run together and whatever *)
(* is swapped in between, no table gets a second filter row.                 *)
THEOREM OneRow == Spec => []OneFilterRow
<1>1. Inv => OneFilterRow
  BY DEF Inv, ControlInv, OneFilterRow
<1> QED BY InitInv, NextInv, <1>1, PTL DEF Spec

(* table.js:133-183: for any number of rows and columns and after any        *)
(* sequence of sorts, filters and swaps, the rows shown are exactly those    *)
(* sent that match what is typed, each once.                                 *)
THEOREM ShowsMatches == Spec => []ShownMatch
<1>1. Inv => ShownMatch
  BY DEF Inv, RowsInv, ShownMatch
<1> QED BY InitInv, NextInv, <1>1, PTL DEF Spec

(* table.js:133-157 and 181-182: and they are in the order the arrow at the  *)
(* header shows, those included that a filter had hidden during the sort.    *)
THEOREM ShowsSorted == Spec => []ShownSorted
<1>1. Inv => ShownSorted
  BY DEF Inv, SortInv
<1> QED BY InitInv, NextInv, <1>1, PTL DEF Spec

-----------------------------------------------------------------------------
(* A sort has a result                                                       *)

(* A strict total order of 1..n puts these numbers into a sequence: each     *)
(* number's position is how many come before it.                             *)
LEMMA Ranked ==
  ASSUME NEW n \in Nat, NEW R,
         \A i \in 1..n : <<i, i>> \notin R,
         \A i, k \in 1..n : i # k => <<i, k>> \in R \/ <<k, i>> \in R,
         \A i, k, l \in 1..n :
           <<i, k>> \in R /\ <<k, l>> \in R => <<i, l>> \in R
  PROVE  \E order \in Bijection(1..n, 1..n) :
           \A p, q \in 1..n : p < q => <<order[p], order[q]>> \in R
<1> DEFINE D == 1..n
           Below(i) == {k \in D : <<k, i>> \in R}
           rank == [i \in D |-> Cardinality(Below(i)) + 1]
           order == Inverse(rank, D, D)
<1>1. IsFiniteSet(D) /\ Cardinality(D) = n
  BY FS_Interval
<1>2. ASSUME NEW i \in D
      PROVE  IsFiniteSet(Below(i)) /\ Cardinality(Below(i)) \in Nat
  <2>1. Below(i) \in SUBSET D
    OBVIOUS
  <2> HIDE DEF Below
  <2>2. IsFiniteSet(Below(i))
    BY <1>1, <2>1, FS_Subset
  <2> QED BY <2>2, FS_CardinalityType
<1>3. ASSUME NEW i \in D, NEW S \in SUBSET D, Below(i) \cup {i} \subseteq S
      PROVE  Cardinality(Below(i)) + 1 <= Cardinality(S)
  <2>1. i \notin Below(i)
    OBVIOUS
  <2>2. /\ IsFiniteSet(Below(i) \cup {i})
        /\ Cardinality(Below(i) \cup {i}) = Cardinality(Below(i)) + 1
    BY <1>2, <2>1, FS_AddElement
  <2>3. IsFiniteSet(S)
    BY <1>1, FS_Subset
  <2> HIDE DEF Below
  <2>4. Cardinality(Below(i) \cup {i}) <= Cardinality(S)
    BY <1>3, <2>3, FS_Subset
  <2> QED BY <2>2, <2>4
<1>4. rank \in [D -> D]
  <2> SUFFICES ASSUME NEW i \in D PROVE Cardinality(Below(i)) + 1 \in D
    OBVIOUS
  <2>1. Below(i) \cup {i} \subseteq D
    OBVIOUS
  <2>2. Cardinality(Below(i)) + 1 <= n
    BY <1>1, <1>3, <2>1
  <2> HIDE DEF Below
  <2> QED BY <1>2, <2>2
<1>5. ASSUME NEW i \in D, NEW k \in D, <<i, k>> \in R
      PROVE  rank[i] < rank[k]
  <2>1. Below(i) \cup {i} \subseteq Below(k)
    BY <1>5
  <2>2. Below(k) \in SUBSET D
    OBVIOUS
  <2>3. Cardinality(Below(i)) + 1 <= Cardinality(Below(k))
    BY <1>3, <2>1, <2>2
  <2>4. Cardinality(Below(i)) \in Nat /\ Cardinality(Below(k)) \in Nat
    BY <1>2
  <2> HIDE DEF Below
  <2> QED BY <2>3, <2>4
<1>6. \A i, k \in D : rank[i] = rank[k] => i = k
  <2> SUFFICES ASSUME NEW i \in D, NEW k \in D, rank[i] = rank[k], i # k
               PROVE  FALSE
    OBVIOUS
  <2>1. rank[i] < rank[k] \/ rank[k] < rank[i]
    BY <1>5
  <2>2. rank[i] \in Nat /\ rank[k] \in Nat
    BY <1>4
  <2> HIDE DEF rank
  <2> QED BY <2>1, <2>2
<1> HIDE DEF rank
<1>7. rank \in Injection(D, D)
  BY <1>4, <1>6, Fun_IsInj
<1>8. rank \in Surjection(D, D)
  BY <1>1, <1>7, FS_Injection
<1>9. rank \in Bijection(D, D)
  BY <1>7, <1>8 DEF Bijection
<1>10. order \in Bijection(D, D) /\ order \in [D -> D]
  <2> HIDE DEF D
  <2>1. Inverse(rank, D, D) \in Bijection(D, D)
    BY <1>9, Fun_BijInverse, Zenon
  <2> QED BY <2>1, Fun_BijectionProperties
<1>11. \A p \in D : rank[order[p]] = p
  <2>1. Range(rank) = D
    BY <1>8, Fun_SurjectionProperties
  <2> QED BY <1>4, <2>1, Fun_InverseProperties
<1> HIDE DEF order
<1>12. ASSUME NEW p \in D, NEW q \in D, p < q
       PROVE  <<order[p], order[q]>> \in R
  <2>1. order[p] \in D /\ order[q] \in D
    BY <1>10
  <2>2. order[p] # order[q]
    BY <1>11, <1>12
  <2>3. ~(<<order[q], order[p]>> \in R)
    BY <1>5, <1>11, <1>12, <2>1
  <2> QED BY <2>1, <2>2, <2>3
<1> QED BY <1>10, <1>12

(* A third text is above the lower or below the upper of two.                *)
LEMMA LessWeak ==
  ASSUME NEW x \in Texts, NEW y \in Texts, NEW z \in Texts, NEW dir,
         Less(x, z, dir)
  PROVE  Less(x, y, dir) \/ Less(y, z, dir)
BY TableAssumption DEF Less

(* table.js:133-157: whatever the table, the column, the direction and the   *)
(* rows that are hidden, there is an order that applySort may produce, so    *)
(* that what is proved of its result is never about nothing.                 *)
THEOREM SortHasResult ==
  ASSUME TypeOK, NEW c \in Columns, NEW dir, NEW hidden
  PROVE  SortedOrders(c, dir, hidden) # {}
<1> DEFINE D == DOMAIN tbody
           R == {e \in D \X D : Above(e[1], e[2], c, dir, hidden)}
           T(i) == Cell[tbody[i]][c]
<1>1. /\ D = 1..Len(tbody) /\ Len(tbody) \in Nat
      /\ \A i \in D : T(i) \in Texts
  BY Positions, CellText DEF TypeOK
<1>2. \A i, k \in D : <<i, k>> \in R <=> Above(i, k, c, dir, hidden)
  OBVIOUS
<1>3. \A i, k \in D : Less(T(i), T(k), dir) => ~Less(T(k), T(i), dir)
  BY <1>1, LessAsymmetric
<1>4. \A i, k, l \in D :
        Less(T(i), T(l), dir) => Less(T(i), T(k), dir) \/ Less(T(k), T(l), dir)
  BY <1>1, LessWeak
<1>5. \A i, k \in D :
        Above(i, k, c, dir, hidden) <=>
          \/ tbody[i] \in hidden /\ (tbody[k] \in hidden => i < k)
          \/ /\ tbody[i] \notin hidden /\ tbody[k] \notin hidden
             /\ Less(T(i), T(k), dir) \/ (i < k /\ ~Less(T(k), T(i), dir))
  BY DEF Above
<1>6. \A i \in D : ~Above(i, i, c, dir, hidden)
  BY <1>1, <1>3, <1>5
<1>7. \A i, k \in D : i # k =>
        Above(i, k, c, dir, hidden) \/ Above(k, i, c, dir, hidden)
  BY <1>1, <1>3, <1>5
<1>8. ASSUME NEW i \in D, NEW k \in D, NEW l \in D,
             Above(i, k, c, dir, hidden), Above(k, l, c, dir, hidden)
      PROVE  Above(i, l, c, dir, hidden)
  BY <1>1, <1>3, <1>4, <1>5, <1>8
<1>9. /\ \A i \in D : <<i, i>> \notin R
      /\ \A i, k \in D : i # k => <<i, k>> \in R \/ <<k, i>> \in R
      /\ \A i, k, l \in D :
           <<i, k>> \in R /\ <<k, l>> \in R => <<i, l>> \in R
  <2> HIDE DEF R, T
  <2> QED BY <1>2, <1>6, <1>7, <1>8
<1> HIDE DEF R
<1>10. PICK order \in Bijection(D, D) :
         \A p, q \in D : p < q => <<order[p], order[q]>> \in R
  BY <1>1, <1>9, Ranked
<1>11. order \in SortedOrders(c, dir, hidden)
  <2>1. \A p \in D : order[p] \in D
    BY Fun_BijectionProperties
  <2> QED BY <1>2, <1>10, <2>1 DEF SortedOrders
<1> QED BY <1>11

=============================================================================
