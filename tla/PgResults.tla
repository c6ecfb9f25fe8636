------------------------------ MODULE PgResults ------------------------------
(***************************************************************************)
(* What exec() and query() of ypg_n (src/ypg.h) make of the PGresult that  *)
(* exe_core (module Ypg) returns.  The result is external: none at all, or *)
(* the count in its command tag and a table of fields.                     *)
(***************************************************************************)
EXTENDS Integers, Sequences, FiniteSets

CONSTANTS
  Names,     \* names of columns
  Values,    \* values of fields
  Null,      \* the field that has no value
  Empty,     \* the empty value
  Heads,     \* column lists explored: sequences of [name, bytea]
  MaxRows,   \* bound: rows of a result
  IntMax,    \* the largest int (2^31 - 1)
  MaxCount,  \* bound: counts explored
  MaxMade    \* bound: calls made

ASSUME ResultsAssumption ==
  /\ MaxRows \in Nat /\ MaxMade \in Nat /\ IntMax \in Nat /\ MaxCount \in Nat
  /\ Heads \subseteq Seq([name : Names, bytea : BOOLEAN])
  /\ Empty \in Values /\ Null \notin Values
  /\ \A v \in Values : [escaped |-> v] \notin Values

VARIABLES
  step,    \* idle, count, columns, cells, clear
  result,  \* the PGresult: [cols, table, count]
  colMap,  \* col_map, a column at a time
  row,     \* the outer loop over the fields
  line,    \* pgline in the making: set of [name, value]
  col,     \* the inner loop
  lines,   \* vector of the caller
  ret,     \* what the last call returned: a count, or 1 and 0 for the bool
  made,    \* calls
  before,  \* history: lines when the call began
  uncleared \* history: PGresults not cleared

loopVars == <<colMap, row, line, col>>
resultsVars == <<step, result, loopVars, lines, ret, made, before, uncleared>>

NoCount == -1   \* the tag has no count: PQcmdTuples returns ""

Tables(cols) == UNION {[1 .. r -> [1 .. Len(cols) -> Values \cup {Null}]] : r \in 0 .. MaxRows}

Nothing == [cols |-> <<>>, table |-> <<>>, count |-> NoCount]

ResultsInit ==
  /\ step = "idle" /\ result = Nothing
  /\ colMap = <<>> /\ row = 1 /\ line = {} /\ col = 1
  /\ lines = <<>> /\ before = <<>>
  /\ ret = 0 /\ made = 0 /\ uncleared = 0

CallResult == step = "idle" /\ made < MaxMade /\ made' = made + 1 /\ before' = lines

\* exe_core returned NULL.
CallFails ==
  /\ CallResult
  /\ ret' \in {-1, 0}   \* exec, query
  /\ UNCHANGED <<step, result, loopVars, lines, uncleared>>

CallExec ==
  /\ CallResult
  /\ \E n \in {NoCount} \cup 0 .. MaxCount : result' = [Nothing EXCEPT !.count = n]
  /\ step' = "count" /\ uncleared' = uncleared + 1
  /\ UNCHANGED <<loopVars, lines, ret>>

CallQuery ==
  /\ CallResult
  /\ \E cols \in Heads : \E t \in Tables(cols) :
       result' = [Nothing EXCEPT !.cols = cols, !.table = t]
  /\ step' = "columns" /\ uncleared' = uncleared + 1
  /\ colMap' = <<>> /\ row' = 1 /\ line' = {} /\ col' = 1
  /\ UNCHANGED <<lines, ret>>

-----------------------------------------------------------------------------
(* exec                                                                     *)

\* std::stoi: a count that does not fit throws, and stays 0.
AsInt(n) == IF n > IntMax THEN 0 ELSE n

Clear == step' = "idle" /\ uncleared' = uncleared - 1

\* No count (a DDL statement, or a duplicate that exe_core kept) is 0.
ExecCount ==
  /\ step = "count"
  /\ ret' = IF result.count = NoCount THEN 0 ELSE AsInt(result.count)
  /\ Clear
  /\ UNCHANGED <<result, loopVars, lines, made, before>>

-----------------------------------------------------------------------------
(* query                                                                    *)

QueryColumn ==
  /\ step = "columns" /\ Len(colMap) < Len(result.cols)
  /\ colMap' = Append(colMap, result.cols[Len(colMap) + 1])
  /\ UNCHANGED <<step, result, row, line, col, lines, ret, made, before, uncleared>>

QueryColumnsEnd ==
  /\ step = "columns" /\ Len(colMap) = Len(result.cols)
  /\ step' = "cells"
  /\ UNCHANGED <<result, loopVars, lines, ret, made, before, uncleared>>

\* PQgetvalue: Null is the empty string, a bytea its escaped form.
Text(c, v) ==
  IF v = Null THEN Empty ELSE IF c.bytea THEN [escaped |-> v] ELSE v

PQunescapeBytea(text) == IF text = Empty THEN Empty ELSE text.escaped

Value(c, text) == IF c.bytea THEN PQunescapeBytea(text) ELSE text

\* map::insert: what is there stays.
Insert(e) == IF \E d \in line : d.name = e.name THEN line ELSE line \cup {e}

MoreRows == row <= Len(result.table)

QueryCell ==
  /\ step = "cells" /\ MoreRows /\ col <= Len(result.cols)
  /\ LET c == colMap[col]
     IN  line' = Insert([name |-> c.name,
                         value |-> Value(c, Text(c, result.table[row][col]))])
  /\ col' = col + 1
  /\ UNCHANGED <<step, result, colMap, row, lines, ret, made, before, uncleared>>

\* Faulty variant: the line is not made anew for every row.
QueryLineKept ==
  /\ step = "cells" /\ MoreRows /\ col > Len(result.cols)
  /\ lines' = Append(lines, line)
  /\ row' = row + 1 /\ col' = 1
  /\ UNCHANGED <<step, result, colMap, line, ret, made, before, uncleared>>

QueryLine ==
  /\ step = "cells" /\ MoreRows /\ col > Len(result.cols)
  /\ lines' = Append(lines, line)
  /\ row' = row + 1 /\ line' = {} /\ col' = 1
  /\ UNCHANGED <<step, result, colMap, ret, made, before, uncleared>>

QueryEnd ==
  /\ step = "cells" /\ ~MoreRows
  /\ ret' = 1
  /\ Clear
  /\ UNCHANGED <<result, loopVars, lines, made, before>>

ResultsOver == step = "idle" /\ made = MaxMade /\ UNCHANGED resultsVars

ResultsNext ==
  \/ CallFails \/ CallExec \/ CallQuery \/ ExecCount
  \/ QueryColumn \/ QueryColumnsEnd \/ QueryCell \/ QueryLine \/ QueryEnd
  \/ ResultsOver

ResultsSpec == ResultsInit /\ [][ResultsNext]_resultsVars

-----------------------------------------------------------------------------
(* Properties *)

Entry == [name : Names, value : Values]

\* Every variable holds a value of its type: no value is left escaped.
ResultsTypeOK ==
  /\ step \in {"idle", "count", "columns", "cells"}
  /\ result.cols \in Heads \cup {<<>>} /\ result.count \in {NoCount} \cup Nat
  /\ colMap \in Seq([name : Names, bytea : BOOLEAN])
  /\ row \in Nat \ {0} /\ col \in Nat \ {0} /\ line \subseteq Entry
  /\ lines \in Seq(SUBSET Entry) /\ before \in Seq(SUBSET Entry)
  /\ ret \in Int /\ made \in 0 .. MaxMade /\ uncleared \in Nat

\* A row as the database has it: every name with the value of the first column
\* that bears it.
LineOf(cells, cols) ==
  {[name |-> cols[i].name, value |-> IF cells[i] = Null THEN Empty ELSE cells[i]] :
   i \in {j \in 1 .. Len(cols) : \A k \in 1 .. j - 1 : cols[k].name # cols[j].name}}

\* A query that returns true has appended its rows, in their order, one line
\* each, to what earlier calls have left in the vector; one that returns false
\* has appended nothing, and exec() never touches it (query).
QueryAppendsRows ==
  [][ step # "idle" /\ step' = "idle" =>
        lines' = IF step = "count" THEN before
                 ELSE before \o [r \in 1 .. Len(result.table) |->
                                   LineOf(result.table[r], result.cols)] ]_resultsVars

\* exec() returns -1 only for a statement that has to be consumed again:
\* whatever the tag says, what exe_core kept comes back as a count from 0 on,
\* the true one whenever it fits (exec).
ExecNeverFailsWhatIsDone ==
  [][ step = "count" /\ step' = "idle" =>
        ret' >= 0 /\ (result.count \in 0 .. IntMax => ret' = result.count) ]_resultsVars

\* Between calls every PGresult is cleared, once (exec, query).
ResultsCleared == step = "idle" => uncleared = 0
=============================================================================
