------------------------------- MODULE Table -------------------------------
(***************************************************************************)
(* The Table of MEL/Logging: named columns over rows of doubles, kept as   *)
(* two vectors and two counters that every operation has to move together, *)
(* and the text file a Table or several are written to and read from.      *)
(*                                                                         *)
(* An operation that is refused changes nothing (its checks are guards     *)
(* here), set_values excepted.  pop_back_row and pop_back_col are called   *)
(* on what is not empty.  An integer stands for a double; six digits of it *)
(* reach the file.  A file is a sequence of lines, a line of fields.       *)
(* write() ends every line in \r\n; what that is to the text stream of      *)
(* read() depends on the build.                                            *)
(***************************************************************************)
EXTENDS Integers, Sequences, SequencesExt

CONSTANTS Names,    \* of tables and columns
          Values,   \* integers of at most seven digits
          MaxRows,  \* bounds on the table
          MaxCols,
          MaxEnds   \* bound: of the \r at the end of a column's name

TableAssumption ==
  /\ "" \notin Names /\ MaxEnds \in Nat
  /\ 0 \in Values /\ Values \subseteq Nat /\ \A v \in Values : v < 10^7
  /\ MaxRows \in Nat /\ MaxCols \in Nat

VARIABLES
  name,       \* name_
  col_names,  \* col_names_: each a name and the number of \r at its end
  values,     \* values_
  n_cols,     \* n_cols_
  n_rows,     \* n_rows_
  lost,       \* history: the counters parted from the vectors since clear()
  build       \* "windows" or "posix", the build of the program

vars == <<name, col_names, values, n_cols, n_rows, lost, build>>

Given == Names \X {0}  \* the names a program gives columns

-----------------------------------------------------------------------------
(* Vectors. *)

Splice(s, i, t) == SubSeq(s, 1, i) \o t \o SubSeq(s, i + 1, Len(s))  \* insert
Cut(s, i, j)    == SubSeq(s, 1, i) \o SubSeq(s, j + 1, Len(s))       \* erase [i, j)

\* vector::resize of a vector of rows.
Resize(rows, n) == [i \in 1..n |-> IF i \in DOMAIN rows THEN rows[i] ELSE <<>>]

\* check_inner_dim
HasWidth(rows, n) == \A i \in DOMAIN rows : Len(rows[i]) = n

Widths == 0..MaxCols
Rows(w) == [1..w -> Values]
Lists(S, n) == UNION {[1..k -> S] : k \in 0..n}

-----------------------------------------------------------------------------
(* Construction. *)

\* Rows of another width are not stored.
Init ==
  /\ build \in {"windows", "posix"}
  /\ name \in Names /\ col_names \in Lists(Given, MaxCols)
  /\ \E w \in Widths : \E rows \in Lists(Rows(w), 1) :
       values = IF HasWidth(rows, Len(col_names)) THEN rows ELSE <<>>
  /\ n_cols = Len(col_names) /\ n_rows = Len(values) /\ lost = FALSE

-----------------------------------------------------------------------------
(* Operations on rows. *)

Keep == UNCHANGED <<name, col_names, n_cols>>

SetColNames(ns) ==
  /\ n_rows # 0 => Len(ns) = n_cols
  /\ n_cols' = Len(ns) /\ col_names' = ns
  /\ UNCHANGED <<name, values, n_rows, lost>>

SetValues(rows) ==
  /\ values' = IF HasWidth(rows, n_cols) THEN rows ELSE <<>>
  /\ n_rows' = Len(values')
  /\ Keep /\ UNCHANGED lost

\* insert_row and insert_rows; push_back_row and push_back_rows at n_rows.
InsertRows(rows, index) ==
  /\ HasWidth(rows, n_cols) /\ index \in 0..n_rows
  /\ n_rows + Len(rows) <= MaxRows
  /\ values' = Splice(values, index, rows)
  /\ n_rows' = n_rows + Len(rows)
  /\ Keep /\ UNCHANGED lost

EraseRowsMutant(first, last) ==  \* counts the row at last as well
  /\ first < last /\ last < n_rows
  /\ n_rows' = n_rows - (last - first) - 1
  /\ values' = Cut(values, first, last)
  /\ Keep /\ UNCHANGED lost

\* The row at last stays.
EraseRows(first, last) ==
  /\ first < last /\ last < n_rows
  /\ n_rows' = n_rows - (last - first)
  /\ values' = Cut(values, first, last)
  /\ Keep /\ UNCHANGED lost

EraseRow(index) ==  \* pop_back_row at n_rows - 1
  /\ index < n_rows
  /\ n_rows' = n_rows - 1
  /\ values' = Cut(values, index, index + 1)
  /\ Keep /\ UNCHANGED lost

ClearValues == n_rows' = 0 /\ values' = <<>> /\ Keep /\ UNCHANGED lost

Clear ==
  /\ n_cols' = 0 /\ n_rows' = 0 /\ col_names' = <<>> /\ values' = <<>>
  /\ lost' = FALSE /\ UNCHANGED name

Rename(n) == name' = n /\ UNCHANGED <<col_names, values, n_cols, n_rows, lost>>

-----------------------------------------------------------------------------
(* Operations on columns. *)

PushBackCol(n, col) ==
  /\ n_cols > 0 => Len(col) = n_rows
  /\ n_cols < MaxCols /\ Len(col) <= MaxRows
  /\ n_rows' = Len(col) /\ n_cols' = n_cols + 1
  /\ col_names' = Append(col_names, n)
  /\ LET old == IF n_cols = 0 THEN Resize(values, Len(col)) ELSE values
     IN  values' = [i \in DOMAIN old |-> Append(old[i], col[i])]
  /\ UNCHANGED <<name, lost>>

\* The names are not stored.
PushBackCols(ns, cols) ==
  /\ n_cols > 0 => Len(cols) = n_rows
  /\ HasWidth(cols, Len(ns))
  /\ n_cols + Len(ns) <= MaxCols /\ Len(cols) <= MaxRows
  /\ n_rows' = Len(cols) /\ n_cols' = n_cols + Len(ns)
  /\ LET old == IF n_cols = 0 THEN Resize(values, Len(cols)) ELSE values
     IN  values' = [i \in DOMAIN old |-> old[i] \o cols[i]]
  /\ lost' = (ns # <<>>) /\ UNCHANGED <<name, col_names>>

\* The first column makes one row, whatever was given: without a value for it
\* the row's is read past the end of col.
InsertCol(n, col, index) ==
  /\ Len(col) = n_rows /\ index \in 0..n_cols /\ n_cols < MaxCols
  /\ n_rows' = IF n_cols = 0 THEN 1 ELSE n_rows
  /\ n_cols' = n_cols + 1
  /\ col_names' = Splice(col_names, index, <<n>>)
  /\ \E beyond \in Values :
       LET at(i) == IF i \in DOMAIN col THEN col[i] ELSE beyond
       IN  values' = [i \in 1..n_rows' |->
                        Splice(Resize(values, n_rows')[i], index, <<at(i)>>)]
  /\ UNCHANGED <<name, lost>>

InsertCols(ns, cols, index) ==
  /\ Len(cols) = n_rows /\ HasWidth(cols, Len(ns)) /\ index \in 0..n_cols
  /\ n_cols + Len(ns) <= MaxCols
  /\ n_cols' = n_cols + Len(ns)
  /\ col_names' = Splice(col_names, index, ns)
  /\ values' = [i \in DOMAIN values |-> Splice(values[i], index, cols[i])]
  /\ UNCHANGED <<name, n_rows, lost>>

PopBackCol ==
  /\ n_cols > 0
  /\ n_cols' = n_cols - 1 /\ col_names' = Front(col_names)
  /\ values' = [i \in DOMAIN values |-> Front(values[i])]
  /\ UNCHANGED <<name, n_rows, lost>>

\* It counts a row less, not a column; without rows the counter wraps
\* (2^16 stands for the width of size_t).
EraseCol(index) ==
  /\ index < n_cols
  /\ n_rows' = (n_rows - 1) % 2^16
  /\ col_names' = Cut(col_names, index, index + 1)
  /\ values' = [i \in DOMAIN values |-> Cut(values[i], index, index + 1)]
  /\ lost' = TRUE /\ UNCHANGED <<name, n_cols>>

EraseCols(first, last) ==
  /\ first < last /\ last < n_cols
  /\ n_cols' = n_cols - (last - first)
  /\ col_names' = Cut(col_names, first, last)
  /\ values' = [i \in DOMAIN values |-> Cut(values[i], first, last)]
  /\ UNCHANGED <<name, n_rows, lost>>

-----------------------------------------------------------------------------
(* The file. *)

Text(s, ends) == <<"text", s, ends>>
Number(v)     == <<"number", v, 0>>
Named(c)      == Text(c[1], c[2])

\* A text stream of Windows makes \n of \r\n.  Elsewhere the \r stays at the end of
\* the line's last field, and a line with nothing in it has a field that is the \r.
Ended(field)     == <<field[1], field[2], field[3] + 1>>
Got(stream, line) ==
  IF stream = "windows" THEN line
  ELSE IF line = <<>> THEN <<Text("", 1)>>
  ELSE [line EXCEPT ![Len(line)] = Ended(line[Len(line)])]

\* setprecision(6)
Rounded(v) == IF v < 10^6 THEN v ELSE ((v + 5) \div 10) * 10

\* What a table is in a file.  A number is read with whatever is behind it, a text
\* as zero; a field of nothing but \r leaves what value held before.
Stored(n, cs, vs) == [name |-> n, cols |-> cs, rows |-> vs]
ToNumber(how, field) ==
  IF field[1] = "number" THEN field[2] ELSE IF field[2] = "" THEN how.before ELSE 0

Header(t) ==
  <<Text("MEL::Table", 0), Text(t.name, 0), Text("n_rows", 0), Text("n_cols", 0)>>
IsHeader(line) == line # <<>> /\ line[1] = Text("MEL::Table", 0)

\* The lines of a table that has columns: their names, then the rows.
Body(t) ==
  <<[j \in DOMAIN t.cols |-> Named(t.cols[j])]>> \o
  [i \in DOMAIN t.rows |-> [j \in DOMAIN t.rows[i] |-> Number(Rounded(t.rows[i][j]))]]

\* write() of one table and of several, each followed by an empty line.
WriteOne(t) == <<Header(t)>> \o IF t.cols = <<>> THEN <<>> ELSE Body(t)
WriteAll(ts) == FlattenSeq([k \in DOMAIN ts |-> Append(WriteOne(ts[k]), <<>>)])

\* push_back_row and set_col_names of the table that is being read.
WithRow(how, t, line) ==
  IF Len(line) = Len(t.cols)
    THEN [t EXCEPT !.rows = Append(@, [j \in DOMAIN line |-> ToNumber(how, line[j])])]
    ELSE t
WithNames(t, line) == [t EXCEPT !.cols = [j \in DOMAIN line |-> <<line[j][2], line[j][3]>>]]
Begun(line) == Stored(line[2][2], <<>>, <<>>)

\* One line of read(): "scan" looks for a header, "names" and "rows" follow.
\* An empty line ends the table when several are read (how.many).
ReadLine(how, r, written) ==
  LET line == Got(how.build, written)
      k    == Len(r.tables)
  IN  CASE r.mode = "scan" ->
             IF IsHeader(line)
               THEN [mode |-> "names", tables |-> Append(r.tables, Begun(line))]
               ELSE r
        [] r.mode = "names" ->
             [mode |-> "rows", tables |-> [r.tables EXCEPT ![k] = WithNames(@, line)]]
        [] r.mode = "rows" ->
             IF how.many /\ line = <<>> THEN [r EXCEPT !.mode = "scan"]
             ELSE [r EXCEPT !.tables[k] = WithRow(how, @, line)]

\* What read() knows after all lines, and what it returns.
After(how, lines) ==
  LET after[i \in 0..Len(lines)] ==
        IF i = 0 THEN [mode |-> "scan", tables |-> <<>>]
                 ELSE ReadLine(how, after[i - 1], lines[i])
  IN  after[Len(lines)]
Read(how, lines) == After(how, lines).tables

How(stream, many, before) == [build |-> stream, many |-> many, before |-> before]

This == Stored(name, col_names, values)

\* The table is written and read back into itself.
Reload ==
  /\ col_names # <<>> /\ (build = "posix" => Last(col_names)[2] < MaxEnds)
  /\ LET t == Read(How(build, FALSE, 0), WriteOne(This))[1]
     IN  /\ name' = t.name /\ col_names' = t.cols /\ values' = t.rows
         /\ n_cols' = Len(t.cols) /\ n_rows' = Len(t.rows)
  /\ UNCHANGED lost

-----------------------------------------------------------------------------
\* Once the counters are wrong, more calls index past the vectors; the model
\* follows clear() only.
Next ==
  /\ UNCHANGED build
  /\ \/ Clear
     \/ /\ ~lost
        /\ \/ ClearValues \/ PopBackCol \/ Reload \/ \E n \in Names : Rename(n)
           \/ \E ns \in Lists(Given, MaxCols) : SetColNames(ns)
           \/ \E w \in Widths : \E rows \in Lists(Rows(w), MaxRows) : SetValues(rows)
           \/ \E rows \in Lists(Rows(n_cols), 2), i \in 0..n_rows : InsertRows(rows, i)
           \/ \E i, j \in 0..MaxRows : EraseRows(i, j) \/ EraseRow(i)
           \/ \E n \in Given, col \in Lists(Values, MaxRows) :
                PushBackCol(n, col) \/ \E i \in 0..n_cols : InsertCol(n, col, i)
           \/ \E ns \in Lists(Given, 2) : \E cols \in Lists(Rows(Len(ns)), MaxRows) :
                PushBackCols(ns, cols) \/ \E i \in 0..n_cols : InsertCols(ns, cols, i)
           \/ \E i, j \in 0..MaxCols : EraseCols(i, j) \/ EraseCol(i)

Spec == Init /\ [][Next]_vars

-----------------------------------------------------------------------------
(* What must hold. *)

\* The table is a rectangle and both counters say its size, which is what
\* every index check and loop of the class relies on, after any sequence of
\* calls without erase_col and push_back_cols: those two lose it.
Rectangular ==
  /\ name \in Names
  /\ ~lost => /\ n_rows = Len(values) /\ n_cols = Len(col_names)
              /\ HasWidth(values, n_cols)
              /\ \A i \in DOMAIN values : values[i] \in [1..n_cols -> Nat]

\* What of a table a file keeps.
Six(t) ==
  [t EXCEPT !.rows = [i \in DOMAIN @ |-> [j \in DOMAIN @[i] |-> Rounded(@[i][j])]]]

\* What a line of names is when it has been read: its last one has an \r more where the
\* stream leaves it.
Reread(stream, cols) ==
  IF stream = "windows" THEN cols
  ELSE [cols EXCEPT ![Len(cols)] = <<cols[Len(cols)][1], cols[Len(cols)][2] + 1>>]
OnceMore(stream, t) == [Six(t) EXCEPT !.cols = Reread(stream, t.cols)]

Other == Stored("other", << <<"a", 0>> >>, << << 5 >>, << 6 >> >>)

\* A table that has columns reads back as it was written, up to six digits: alone in
\* every build, but for an \r at the end of its last name in those for POSIX; among
\* others in a build for Windows.
ReadsBack ==
  ~lost /\ n_cols > 0 =>
    /\ Read(How(build, FALSE, 0), WriteOne(This)) = <<OnceMore(build, This)>>
    /\ build = "windows" =>
         \A ts \in {<<This>>, <<This, Other>>, <<Other, This>>} :
           Read(How(build, TRUE, 0), WriteAll(ts)) = [k \in DOMAIN ts |-> Six(ts[k])]

\* "Read a Table from a file" (Table.hpp:112), with the names it had: not in a build
\* for POSIX.
NamesReadBack ==
  ~lost /\ n_cols > 0 => Read(How(build, FALSE, 0), WriteOne(This)) = <<Six(This)>>

\* "Read a vector of Tables from a file" (Table.hpp:115), as many and with the rows
\* they had: not there either, where no line is empty and what follows the first table
\* is read as rows of it.
SeveralReadBack ==
  ~lost /\ n_cols > 0 => \A before \in Values :
    LET ts == Read(How(build, TRUE, before), WriteAll(<<This, Other>>))
    IN  Len(ts) = 2 /\ ts[1].rows = Six(This).rows
=============================================================================
