------------------------------ MODULE CsvFile -------------------------------
(***************************************************************************)
(* src/utils/csvfile.h: a file of rows of fields, written through a        *)
(* buffered stream whose failures are exceptions.  Strings are escaped,    *)
(* numbers are written as they are.  Read is the reader of such files that *)
(* the header names, Python's csv module with its default dialect.         *)
(***************************************************************************)
EXTENDS Integers, SequencesExt

CONSTANTS
  Quote, Separator, Newline,   \* '"', separator_, '\n'
  Texts,                       \* values passed to operator<< as strings
  Numbers,                     \* and other values, as they are printed
  MaxFields, MaxRows           \* bounds: fields and rows written to a file

\* All characters of a file.
Char == {Quote, Separator, Newline} \cup UNION {ToSet(t) : t \in Texts \cup Numbers}

\* Numbers are printed in the "C" locale.
ASSUME CsvFileAssumption ==
  /\ Quote # Separator /\ Quote # Newline /\ Separator # Newline
  /\ \A t \in Texts \cup Numbers : t \in Seq(Char)
  /\ \A n \in Numbers : n # <<>> /\ ToSet(n) \cap {Quote, Separator, Newline} = {}

VARIABLES
  is_first_,  \* no field of this row has been written
  buf,        \* the stream's buffer
  disk,       \* what has reached the file
  writer,     \* control state of the program that writes
  rows, row   \* history: the rows that were ended, the fields of the next one

csvVars == <<is_first_, buf, disk, writer, rows, row>>

CsvInit ==
  /\ is_first_ = TRUE
  /\ buf = <<>> /\ disk = <<>>
  /\ writer = "open"
  /\ rows = <<>> /\ row = <<>>

\* The constructor; if the file cannot be opened it throws.
Open ==
  /\ writer = "open"
  /\ writer' \in {"writing", "threw"}
  /\ UNCHANGED <<is_first_, buf, disk, rows, row>>

-----------------------------------------------------------------------------
(* The stream *)

\* fs_ << text: whenever the buffer is full, a part of it goes to the file.
Put(text) ==
  LET all == buf \o text
  IN  \E n \in 0..Len(all) : /\ disk' = disk \o SubSeq(all, 1, n)
                             /\ buf' = SubSeq(all, n + 1, Len(all))

\* endl and flush.
PutAll(text) == disk' = disk \o buf \o text /\ buf' = <<>>

\* The file takes no more, after a part of the text.  The exception ends the
\* program: on the way to its handler ~csvfile() throws another one.
PutThrows(text) ==
  LET all == buf \o text
  IN  /\ \E n \in 0..(Len(all) - 1) : disk' = disk \o SubSeq(all, 1, n)
      /\ buf' = <<>>
      /\ writer' = "terminated"
      /\ UNCHANGED <<is_first_, rows, row>>

-----------------------------------------------------------------------------
(* The operations *)

escapeNothing(val) == <<Quote>> \o val \o <<Quote>>   \* mutant: no escape_seq_
Escaped(c) == IF c = Quote THEN <<Quote, c>> ELSE <<c>>
escape(val) ==
  LET result[n \in 0..Len(val)] ==   \* what the first n characters become
        IF n = 0 THEN <<Quote>> ELSE result[n - 1] \o Escaped(val[n])
  IN  result[Len(val)] \o <<Quote>>

\* operator<< of a string escapes, of anything else does not; write() puts the
\* separator in front, except in the first field of a row.
Separated(text) == IF is_first_ THEN text ELSE <<Separator>> \o text

Field(val, text) ==
  /\ writer = "writing"
  /\ Len(row) + Len(FlattenSeq(rows)) < MaxFields
  /\ \/ /\ Put(Separated(text))
        /\ is_first_' = FALSE
        /\ row' = Append(row, val)
        /\ UNCHANGED <<writer, rows>>
     \/ PutThrows(Separated(text))

WriteString == \E val \in Texts : Field(val, escape(val))
WriteNumber == \E val \in Numbers : Field(val, val)

LineKept(text) == Put(text)     \* mutant: '\n' instead of endl
Line(text) == PutAll(text)

endrow ==
  /\ writer = "writing"
  /\ Len(rows) < MaxRows
  /\ \/ /\ Line(<<Newline>>)
        /\ is_first_' = TRUE
        /\ rows' = Append(rows, row)
        /\ row' = <<>>
        /\ UNCHANGED writer
     \/ PutThrows(<<Newline>>)

flush ==
  /\ writer = "writing"
  /\ \/ PutAll(<<>>) /\ UNCHANGED <<is_first_, writer, rows, row>>
     \/ PutThrows(<<>>)

\* ~csvfile(): flush and close.
Close ==
  /\ writer = "writing"
  /\ \/ PutAll(<<>>) /\ writer' = "closed" /\ UNCHANGED <<is_first_, rows, row>>
     \/ PutThrows(<<>>)

\* exit() in a function main() calls, or a signal: no destructor runs.
Exit ==
  /\ writer = "writing"
  /\ writer' = "exited"
  /\ buf' = <<>>
  /\ UNCHANGED <<is_first_, disk, rows, row>>

CsvNext ==
  \/ Open \/ WriteString \/ WriteNumber
  \/ endrow \/ flush \/ Close \/ Exit

CsvSpec == CsvInit /\ [][CsvNext]_csvVars

-----------------------------------------------------------------------------
(* Properties *)

\* The reader, one character at a time: the rows it has, the fields of the next
\* row, the text of the next field, and where it stands: at the start of a row or
\* of a field, in a plain or in a quoted field, or behind a quote in one.
Start == [rows |-> <<>>, fields |-> <<>>, text |-> <<>>, at |-> "row"]
FieldsOf(r) == IF r.at = "row" THEN <<>> ELSE Append(r.fields, r.text)

ReadChar(r, c) ==
  CASE r.at = "quoted" /\ c = Quote -> [r EXCEPT !.at = "quote"]
    [] r.at = "quote" /\ c = Quote ->
         [r EXCEPT !.text = Append(@, c), !.at = "quoted"]
    [] r.at \in {"row", "field"} /\ c = Quote -> [r EXCEPT !.at = "quoted"]
    [] r.at # "quoted" /\ c = Separator ->
         [r EXCEPT !.fields = Append(@, r.text), !.text = <<>>, !.at = "field"]
    [] r.at # "quoted" /\ c = Newline ->
         [Start EXCEPT !.rows = Append(r.rows, FieldsOf(r))]
    [] OTHER -> [r EXCEPT !.text = Append(@, c),
                          !.at = IF @ = "quoted" THEN @ ELSE "plain"]

\* Where the reader stands after the text, if it stood at r before.
Read(r, text) ==
  LET after[n \in 0..Len(text)] ==
        IF n = 0 THEN r ELSE ReadChar(after[n - 1], text[n])
  IN  after[Len(text)]
ReadFile == Read(Start, disk)

\* A row that was ended can be read back from the file from then on, whatever
\* happens to the program or to the disk: a benchmark that dies in its last
\* measurement has not lost the earlier ones.
RowsOnDisk == IsPrefix(rows, ReadFile.rows)

\* A file that was closed holds exactly what was written, although strings may
\* contain quotes, separators and ends of lines.
ReadsBack ==
  writer = "closed" =>
    /\ ReadFile.rows = rows
    /\ FieldsOf(ReadFile) = row
    /\ ReadFile.at # "quoted"

=============================================================================
