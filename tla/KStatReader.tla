----------------------------- MODULE KStatReader -----------------------------
(***************************************************************************)
(* The reader of /proc/spl/kstat files (zfs/kstat/decode.go) and the loop  *)
(* of parseKStat (main.go) that takes the counters of a dataset from it.   *)
(*                                                                         *)
(* A file is a sequence of tokens: single spaces, line ends, and words in  *)
(* between.  The reader knows nothing of lines: each of its reads looks    *)
(* for the next delimiter, wherever that is.  One action is one such read  *)
(* with what is done about it.                                             *)
(***************************************************************************)
EXTENDS Integers, Sequences, FiniteSetsExt

CONSTANTS
  Word,     \* the words
  SP, NL,   \* ' ' and '\n'
  Int32,    \* Int32[w]: what ParseInt(w, 10, 32) returns, for those it takes
  UInt64,   \* UInt64[w]: what ParseUint(w, 10, 64) returns, for those it takes
  Counter,  \* the rows parseKStat looks for
  File      \* the files the kernel may have written, and parts of such

Token == Word \cup {SP, NL}

(***************************************************************************)
(* What the kernel writes: a line of seven words, a line of column titles, *)
(* and rows of a name, a type and data that may be empty or contain        *)
(* spaces.  end are the line ends, row the names and data behind the first *)
(* two lines; what follows the last line end is the beginning of a line.   *)
(***************************************************************************)
Row == [name : Word, data : Seq(Word \cup {SP})]

Columns(text, from, to, name, type, data) ==
  \E s, d \in (from + 1) .. to :
    /\ from + 2 < s /\ s < d /\ d < to
    /\ text[from + 1] = name
    /\ \A i \in (from + 2) .. (s - 1) : text[i] = SP
    /\ text[s] = type
    /\ \A i \in (s + 1) .. d : text[i] = SP
    /\ data = SubSeq(text, d + 1, to - 1)
    /\ text[d + 1] # SP

WellFormed(f) ==
  /\ f.text \in Seq(Token)
  /\ f.end \in Seq(DOMAIN f.text)
  /\ \A i \in DOMAIN f.text : f.text[i] = NL <=> \E j \in DOMAIN f.end : f.end[j] = i
  /\ \A j, k \in DOMAIN f.end : j < k => f.end[j] < f.end[k]
  /\ 1 \in DOMAIN f.end =>
       /\ f.end[1] = 14
       /\ \A i \in 1 .. 13 : IF i % 2 = 1 THEN f.text[i] \in Word ELSE f.text[i] = SP
  /\ 2 \in DOMAIN f.end => Columns(f.text, f.end[1], f.end[2], "name", "type", <<"data">>)
  /\ f.row \in Seq(Row)
  /\ Len(f.row) = IF Len(f.end) > 2 THEN Len(f.end) - 2 ELSE 0
  /\ \A k \in DOMAIN f.row :
       \E type \in Word :
         Columns(f.text, f.end[k + 1], f.end[k + 2], f.row[k].name, type, f.row[k].data)
  /\ \A j, k \in DOMAIN f.row : f.row[j].name = f.row[k].name => j = k

ASSUME TokenAssumption ==
  /\ SP \notin Word /\ NL \notin Word /\ SP # NL
  /\ {"name", "type", "data"} \subseteq Word
  /\ Counter \subseteq Word
  /\ \A w \in DOMAIN Int32 : w \in Word /\ Int32[w] \in Int
  /\ \A w \in DOMAIN UInt64 : w \in Word /\ UInt64[w] \in Nat

ASSUME FileAssumption == \A f \in File : WellFormed(f)

VARIABLES
  file,      \* the file that is read
  pos,       \* how many of its tokens have been read
  field,     \* what is read next: 1-7 of the header, 8-10 the column titles,
             \* 11-13 name, type and data of a row; 0 nothing
  type,      \* Header.Type
  rowName,   \* rowName
  counters,  \* the counters of datasetProps
  result     \* what parseKStat returned: ok, error, or none yet

vars == <<file, pos, field, type, rowName, counters, result>>

Text == file.text
NoCounters == [c \in Counter |-> 0]

\* A new reader and new properties for one dataset.
Init ==
  /\ file \in File
  /\ pos = 0
  /\ field = 1
  /\ type = 0
  /\ rowName = <<>>
  /\ counters = NoCounters
  /\ result = "none"

-----------------------------------------------------------------------------
(* One read. *)

Delimiter(f) == IF f \in {7, 10, 13} THEN NL ELSE SP

\* Spaces in front of a column count as part of it.
MutantPrefix(f, p) == p

\* Where a read begins: the columns ignore the spaces in front of them.
Prefix(f, p) ==
  IF f > 7
  THEN Min({i \in p .. Len(Text) : i = Len(Text) \/ Text[i + 1] # SP})
  ELSE p

\* The delimiters ahead of p.
Found(b, p) == {i \in (p + 1) .. Len(Text) : Text[i] = b}

\* What a read returns, and the position after the delimiter it found.
Hits == Found(Delimiter(field), Prefix(field, pos))
Read == SubSeq(Text, Prefix(field, pos) + 1, Min(Hits) - 1)

IsNumber(t, numbers) == \E w \in DOMAIN numbers : t = <<w>>

\* A reader that lets the end of the file within a row end the loop as well.
MutantAtEOF == field >= 11 /\ Hits = {}

\* Only the end of the file in front of a row ends the loop of parseKStat; a
\* read that meets it elsewhere fails.
AtEOF == field = 11 /\ pos = Len(Text)

-----------------------------------------------------------------------------
\* An error that does not end the loop.
MutantReturn(r) ==
  /\ result' = r
  /\ UNCHANGED <<file, pos, field, type, rowName, counters>>

Return(r) ==
  /\ field' = 0
  /\ result' = r
  /\ UNCHANGED <<file, pos, type, rowName, counters>>

Title(f) == <<(<<"name", "type", "data">>)[f - 7]>>
IsCounter == \E c \in Counter : rowName = <<c>>

\* What was read is not what it has to be.
Refused ==
  \/ field = 2 /\ ~IsNumber(Read, Int32)
  \/ field = 7 /\ type # 1
  \/ field \in 8 .. 10 /\ Read # Title(field)
  \/ field = 13 /\ IsCounter /\ ~IsNumber(Read, UInt64)

Succeeds == Hits # {} /\ ~Refused

\* readHeader: seven words, of which the second is the type.
ReadHeader ==
  /\ field \in 1 .. 7
  /\ Succeeds
  /\ pos' = Min(Hits)
  /\ type' = IF field = 2 THEN Int32[Read[1]] % 256 ELSE type
  /\ field' = field + 1
  /\ UNCHANGED <<file, rowName, counters, result>>

\* readColumnHeaders.
ReadColumnHeaders ==
  /\ field \in 8 .. 10
  /\ Succeeds
  /\ pos' = Min(Hits)
  /\ field' = field + 1
  /\ UNCHANGED <<file, type, rowName, counters, result>>

\* A row under the name of the one before it.
MutantReadName ==
  /\ field \in {11, 12}
  /\ ~AtEOF
  /\ Succeeds
  /\ pos' = Min(Hits)
  /\ rowName' = IF field = 11 /\ rowName = <<>> THEN Read ELSE rowName
  /\ field' = field + 1
  /\ UNCHANGED <<file, type, counters, result>>

\* Next reads the name and the type of a row.
ReadName ==
  /\ field \in {11, 12}
  /\ ~AtEOF
  /\ Succeeds
  /\ pos' = Min(Hits)
  /\ rowName' = IF field = 11 THEN Read ELSE rowName
  /\ field' = field + 1
  /\ UNCHANGED <<file, type, counters, result>>

\* Next reads the data of the row, parseKStat stores it if it is a counter.
ReadData ==
  /\ field = 13
  /\ Succeeds
  /\ pos' = Min(Hits)
  /\ counters' = IF IsCounter THEN [counters EXCEPT ![rowName[1]] = UInt64[Read[1]]] ELSE counters
  /\ field' = 11
  /\ UNCHANGED <<file, type, rowName, result>>

\* A loop that goes on at the end of the file.
MutantReadEOF == AtEOF /\ UNCHANGED vars

ReadEOF ==
  /\ AtEOF
  /\ Return("ok")

\* The file ends before the delimiter, or the read is refused.
ReadFails ==
  /\ field # 0
  /\ ~AtEOF
  /\ ~Succeeds
  /\ Return("error")

Parse == ReadHeader \/ ReadColumnHeaders \/ ReadName \/ ReadData \/ ReadEOF \/ ReadFails

Spec == Init /\ [][Parse]_vars

\* parseKStat runs without waiting for anybody.
FairSpec == Spec /\ WF_vars(Parse)

-----------------------------------------------------------------------------
TypeOK ==
  /\ file \in File
  /\ pos \in 0 .. Len(Text)
  /\ field \in 0 .. 13
  /\ type \in 0 .. 255
  /\ rowName \in Seq(Token)
  /\ counters \in [Counter -> Nat]
  /\ result \in {"none", "ok", "error"}
  /\ result = "none" <=> field # 0

\* The file has its first two lines and ends where a line ends.
Whole(f) ==
  /\ Len(f.end) >= 2
  /\ f.end[Len(f.end)] = Len(f.text)

\* The counters are those of the first k rows, and zero where there is none.
AsWritten(k) ==
  /\ \A i \in 1 .. k :
       file.row[i].name \in Counter =>
         \E w \in DOMAIN UInt64 :
           file.row[i].data = <<w>> /\ counters[file.row[i].name] = UInt64[w]
  /\ \A c \in Counter :
       (\A i \in 1 .. k : file.row[i].name # c) => counters[c] = 0

(***************************************************************************)
(* The reader does not look for lines, yet when it begins a row it is at   *)
(* the beginning of a line and has read each line before that as one row:  *)
(* no column runs on into the next line or leaves part of its own behind,  *)
(* also when the data is empty or contains spaces (decode.go:161-173).     *)
(***************************************************************************)
RowsAreLines ==
  field = 11 =>
    \E k \in DOMAIN file.end : k >= 2 /\ pos = file.end[k] /\ AsWritten(k - 2)

(***************************************************************************)
(* When parseKStat returns nil the file ended with a line and every counter*)
(* has the value its row says, zero without a row: a file that is empty or *)
(* was cut within a line is never taken for one with fewer counters,       *)
(* although the reader sees the same io.EOF there (decode.go:31, 157;      *)
(* main.go:408).  One that was cut behind a line is a file with fewer rows.*)
(***************************************************************************)
CountersAsWritten ==
  result = "ok" => Whole(file) /\ AsWritten(Len(file.row))

(***************************************************************************)
(* An error is never the reader's own doing: the file was cut, it is of    *)
(* another kind of kstat, or a counter is not a number (main.go:678-681    *)
(* turns it into the end of the whole scrape).                             *)
(***************************************************************************)
RefusesOnlyDamaged ==
  result = "error" =>
    LET f == file
    IN  \/ ~Whole(f)
        \/ ~IsNumber(<<f.text[3]>>, Int32)
        \/ Int32[f.text[3]] % 256 # 1
        \/ \E k \in DOMAIN f.row : f.row[k].name \in Counter /\ ~IsNumber(f.row[k].data, UInt64)

(***************************************************************************)
(* The loop of parseKStat ends: every read moves on (decode.go:41).        *)
(***************************************************************************)
KStatEnds == field # 0 ~> field = 0
=============================================================================
