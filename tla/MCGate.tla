------------------------------- MODULE MCGate -------------------------------
(***************************************************************************)
(* A table of immutable versions and one with a watermark; the second has  *)
(* both kinds of row constraint and a nullable column.                     *)
(***************************************************************************)
EXTENDS Gate

dim_account == "dim_account_src"
gl_entry    == "gl_entry"

MCTables == <<dim_account, gl_entry>>

MCContract == [t \in {dim_account, gl_entry} |->
    IF t = dim_account
    THEN [columns |-> <<"code", "type">>, nullable |-> {}, key |-> {"code"},
          not_after |-> {}, exactly_one |-> {}, watermark |-> None, immutable |-> TRUE]
    ELSE [columns |-> <<"id", "booked", "posted", "dr", "cr", "vendor">>,
          nullable |-> {"vendor"}, key |-> {"id"},
          not_after |-> {<<"booked", "posted">>}, exactly_one |-> {{"dr", "cr"}},
          watermark |-> "posted", immutable |-> FALSE]]

File(header, rows) == [kind |-> "csv", header |-> header, rows |-> rows]
NoFile(kind) == [kind |-> kind, header |-> <<>>, rows |-> <<>>]

Entries == MCContract[gl_entry].columns

Good  == <<1, 1, 1, 1, 0, 7>>
Later == <<1, 1, 2, 0, 2, Null>>      \* the same key, restated
Other == <<2, 2, 2, 0, 1, Null>>
Rows  == {Good, Later, Other,
          <<Null, 1, 1, 1, 0, 7>>,     \* no key
          <<2, 1, Bad, 1, 0, 7>>,      \* no date
          <<2, 2, 1, 1, 1, 7>>,        \* both constraints broken
          <<2, 2, 1, Bad, 1, 7>>,      \* one of them cannot be judged
          <<2, 1, 1, 1>>,              \* too short
          <<2, 1, 1, 1, 0, 7, 7>>}     \* too long

\* Two rows in either order, headers that are off with one good row, and the rest.
GLFiles ==
    {File(Entries, rows) : rows \in {<<>>} \cup {<<r>> : r \in Rows}
                                  \cup {<<r, s>> : r \in {Good, Other}, s \in Rows}}
    \cup {File(header, <<Good>>) : header \in {
            <<"id", "posted", "booked", "dr", "cr", "vendor">>,
            <<"id", "booked", "posted", "dr", "dr", "cr", "vendor">>,
            <<"id", "booked", "posted", "dr", "cr">>,
            Append(Entries, "note")}}
    \cup {File(Append(Entries, "note"), <<Append(Good, 5)>>),
          File(<<"id", "booked", "note", "posted", "dr", "cr", "vendor">>,
               <<<<1, 1, 5, 1, 1, 0, 7>>>>),
          NoFile("missing"), NoFile("blank")}

MCFeed == [t \in {dim_account, gl_entry} |->
    IF t = gl_entry THEN GLFiles
    ELSE {File(<<"code", "type">>, <<<<1, 1>>>>), File(<<"code", "type">>, <<<<1, 2>>>>),
          File(<<"code", "type">>, <<<<1, Bad>>>>)}]
==========================================================================
