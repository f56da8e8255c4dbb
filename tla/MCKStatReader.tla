---------------------------- MODULE MCKStatReader ----------------------------
(* Small instances of KStatReader: the kernel's files and all their cuts.    *)
EXTENDS KStatReader, SequencesExt

Spaces(n) == [i \in 1 .. n |-> SP]

HeaderLine(t) == <<"27", SP, t, SP, "0x01", SP, "3", SP, "816", SP, "4", SP, "5", NL>>
TitleLine == <<"name">> \o Spaces(2) \o <<"type", SP, "data", NL>>

MCRow(n, d) == [name |-> n, data |-> d]

\* Rows as the kernel pads them: one to two spaces behind the name, and two
\* behind the type, so that data may be empty.
RowLine(r) ==
  <<r.name>> \o Spaces(IF r.name = "writes" THEN 2 ELSE 1) \o <<"4">> \o Spaces(2) \o r.data \o <<NL>>

MCData == {<<>>, <<"tank/a">>, <<"tank/a", SP, "writes">>, <<"0">>, <<"7">>}
MCRows ==
  {<<>>} \cup {<<MCRow("dataset_name", d), MCRow("writes", n)>> : d, n \in MCData}
         \cup {<<MCRow("writes", n), MCRow("reads", m), MCRow("dataset_name", <<>>)>> :
                 n, m \in {<<"0">>, <<"7">>}}

Lines(t, rows) == <<HeaderLine(t), TitleLine>> \o [i \in DOMAIN rows |-> RowLine(rows[i])]

\* The first n tokens of a file with these rows.
Cut(text, rows, n) ==
  LET E == {i \in 1 .. n : text[i] = NL}
  IN  [text |-> SubSeq(text, 1, n),
       end  |-> [j \in 1 .. Cardinality(E) |->
                   CHOOSE i \in E : Cardinality({e \in E : e <= i}) = j],
       row  |-> SubSeq(rows, 1, IF Cardinality(E) > 2 THEN Cardinality(E) - 2 ELSE 0)]

Cuts(t, rows) ==
  LET text == FlattenSeq(Lines(t, rows)) IN {Cut(text, rows, n) : n \in 0 .. Len(text)}

MCFile == UNION {Cuts("1", rows) : rows \in MCRows}
            \cup UNION {Cuts(t, <<>>) : t \in {"0", "7", "257", "x"}}

MCInt32 == "0" :> 0 @@ "1" :> 1 @@ "7" :> 7 @@ "257" :> 257
MCUInt64 == "0" :> 0 @@ "7" :> 7
MCWord == {"0", "1", "3", "4", "5", "7", "27", "816", "257", "0x01", "x", "name", "type", "data",
           "dataset_name", "writes", "reads", "nwritten", "tank/a"}
=============================================================================
