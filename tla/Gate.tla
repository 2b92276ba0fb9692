-------------------------------- MODULE Gate --------------------------------
(***************************************************************************)
(* The source gate and the load behind it (ingest/validate.py,             *)
(* ingest/load.py, ingest/contracts).  A run validates every table's       *)
(* extract against its contract, one row at a time, and loads the extracts *)
(* when none of them is incompatible; a load may also be run by hand,      *)
(* without the gate.  The load opens each file again: the source system    *)
(* may have put another one in its place by then.                          *)
(*                                                                         *)
(* A field is an integer: Null is the empty field, Bad one that breaks its *)
(* column's own rule (and, as "not-a-date", sorts after every date), the   *)
(* rest are dates, amounts or names.  The load of one table is one step    *)
(* here; RawLoad has its steps.                                            *)
(***************************************************************************)
EXTENDS Integers, Sequences, FiniteSets, SequencesExt, FiniteSetsExt

CONSTANTS
    Tables,      \* the contracts' tables, in the order of their names
    Contract,    \* the contract of each table
    Feed,        \* the files the source system may deliver for each table
    Caps,        \* the values of max_findings
    Overlap,     \* overlap_days
    None, MaxReplaced, MaxRuns

Null == -1
Zero == 0
Bad  == 99

Names == ToSet(Tables)

(***************************************************************************)
(* A file is missing, has no line at all ("blank"), or has a header and    *)
(* rows, all sequences; a row may be shorter or longer than the header.    *)
(* A contract has columns in order, the nullable ones, the primary key,    *)
(* the two kinds of row constraint, a watermark column or None, and        *)
(* whether landed rows are immutable.                                      *)
(***************************************************************************)
WellFormed(contract) ==
    LET columns == ToSet(contract.columns) IN
    /\ contract.columns \in Seq(columns) \ {<<>>} /\ IsInjective(contract.columns)
    /\ IsFiniteSet(contract.not_after) /\ IsFiniteSet(contract.exactly_one)
    /\ contract.nullable \subseteq columns
    /\ contract.key \subseteq columns /\ contract.key # {}
    /\ \A pair \in contract.not_after : pair[1] \in columns /\ pair[2] \in columns
    /\ \A cs \in contract.exactly_one : cs \subseteq columns /\ Cardinality(cs) >= 2
    /\ contract.watermark # None => contract.watermark \in columns \ contract.nullable
    /\ contract.immutable \in BOOLEAN

IsFile(file) ==
    /\ file.kind \in {"missing", "blank", "csv"}
    /\ file.header \in Seq(ToSet(file.header)) /\ file.rows \in Seq(Seq(Int))

ASSUME GateAssumption ==
    /\ Tables \in Seq(Names) /\ IsInjective(Tables)
    /\ \A t \in Names : WellFormed(Contract[t]) /\ \A file \in Feed[t] : IsFile(file)
    /\ \A t \in Names : None \notin Feed[t]
    /\ Caps \subseteq Nat /\ Overlap \in Nat
    /\ MaxReplaced \in Nat /\ MaxRuns \in Nat

VARIABLES
    source,      \* the file of each table
    step,        \* "idle", "validate", "state" or "load"
    at,          \* which of Tables the step is at
    handle,      \* the file that is being read, or None
    row,         \* the rows read of it
    seen,        \* the primary keys read of it
    report,      \* the findings about it
    reports,     \* the reports of this run, None for a table not yet validated
    cap,         \* max_findings of this run
    raw,         \* the landed rows of each table, by key
    watermark,   \* the stored watermark of each table, or None
    unchecked,   \* history: the tables an extract landed in that the run's gate had not read
    replaced, runs

vars == <<source, step, at, handle, row, seen, report, reports, cap, raw, watermark,
          unchecked, replaced, runs>>
--------------------------------------------------------------------------
Declared(t) == ToSet(Contract[t].columns)

\* dict(zip(header, values)): of a column named twice the later one stays.
AsRow(header, values) ==
    LET n == IF Len(header) < Len(values) THEN Len(header) ELSE Len(values) IN
    [c \in ToSet(SubSeq(header, 1, n)) |->
        values[Max({i \in 1 .. n : header[i] = c})]]

Field(fields, c) == IF c \in DOMAIN fields THEN fields[c] ELSE Null
KeyOf(t, fields) == [c \in Contract[t].key |-> Field(fields, c)]

(* One row against a contract.                                             *)

Unusable(t, fields) == {c \in Declared(t) : Field(fields, c) \in {Null, Bad}}

ColumnProblems(t, fields) == {c \in Unusable(t, fields) :
    c \in DOMAIN fields /\ c \in Contract[t].nullable => fields[c] # Null}

\* A constraint is skipped when a column it reads is unusable.
OutOfOrder(t, fields) == {pair \in Contract[t].not_after :
    /\ {pair[1], pair[2]} \cap Unusable(t, fields) = {}
    /\ fields[pair[2]] < fields[pair[1]]}

NotOneNonzero(t, fields) == {cs \in Contract[t].exactly_one :
    /\ cs \cap Unusable(t, fields) = {}
    /\ Cardinality({c \in cs : fields[c] # Zero}) # 1}

RowProblems(t, fields) ==
    Cardinality(ColumnProblems(t, fields)) + Cardinality(OutOfOrder(t, fields))
    + Cardinality(NotOneNonzero(t, fields))

(* The header, or what there is in its place.                              *)

Compatible == {"added_column"}

Before(columns, c, d) == \E i, j \in DOMAIN columns : i < j /\ columns[i] = c /\ columns[j] = d

\* The columns that header and contract share come in another order; no column is
\* twice in either.
Reordered(t, header) ==
    \E c, d \in Declared(t) : Before(header, c, d) /\ Before(Contract[t].columns, d, c)

Kinds == {"missing_table", "missing_column", "duplicate_column", "column_order",
          "added_column"}

\* A header that names a column twice is not looked at further.
HeaderProblems(t, file) ==
    LET header   == ToSet(file.header)
        readable == file.kind = "csv" /\ IsInjective(file.header)
    IN  {kind \in Kinds :
            \/ kind = "missing_table"    /\ file.kind = "missing"
            \/ kind = "missing_column"   /\ file.kind = "blank"
            \/ kind = "duplicate_column" /\ file.kind = "csv" /\ ~readable
            \/ kind = "missing_column"   /\ readable /\ ~ Declared(t) \subseteq header
            \/ kind = "column_order"     /\ readable /\ Reordered(t, file.header)
            \/ kind = "added_column"     /\ readable /\ ~ header \subseteq Declared(t)}

IncompatibleShown(r) == r.header \ Compatible # {} \/ r.shown > 0
Incompatible(r) == r.header \ Compatible # {} \/ r.shown > 0 \/ r.omitted > 0

RecordedToTheCap(r, problems) ==
    [r EXCEPT !.shown = cap, !.omitted = @ + problems - (cap - r.shown)]

\* Every problem of a row is incompatible, and findings beyond the cap are only counted.
Recorded(r, problems) ==
    LET shown == Min({problems, cap - r.shown}) IN
    [r EXCEPT !.shown = @ + shown, !.omitted = @ + problems - shown]

(* What a load selects.                                                    *)

Ragged(file) == \E i \in DOMAIN file.rows : Len(file.rows[i]) # Len(file.header)

Fields(t, i) == AsRow(source[t].header, source[t].rows[i])

\* The places of the rows the load selects.
Selected(t) ==
    LET column == Contract[t].watermark IN
    {i \in DOMAIN source[t].rows :
        column = None \/ watermark[t] = None \/ Fields(t, i)[column] >= watermark[t] - Overlap}

\* The last of the rows that share a key.
Batch(t) ==
    [k \in {KeyOf(t, Fields(t, i)) : i \in Selected(t)} |->
        LET last == Max({i \in Selected(t) : KeyOf(t, Fields(t, i)) = k})
        IN  [c \in Declared(t) |-> Fields(t, last)[c]]]

Restated(t) ==
    /\ Contract[t].immutable
    /\ \E i \in Selected(t) :
          LET fields == Fields(t, i) IN
          /\ KeyOf(t, fields) \in DOMAIN raw[t]
          /\ \E c \in Declared(t) : raw[t][KeyOf(t, fields)][c] # fields[c]

ShapelessUnlessExact(t) ==
    \/ source[t].kind \in {"missing", "blank"}
    \/ Declared(t) # ToSet(source[t].header)
    \/ Ragged(source[t])

Shapeless(t) ==
    \/ source[t].kind \in {"missing", "blank"}
    \/ ~ Declared(t) \subseteq ToSet(source[t].header)
    \/ Ragged(source[t])

Advanced(t) ==
    LET column  == Contract[t].watermark
        highest == Max({Fields(t, i)[column] : i \in Selected(t)})
    IN  IF column = None \/ Selected(t) = {} THEN watermark[t]
        ELSE IF watermark[t] = None \/ highest > watermark[t] THEN highest ELSE watermark[t]

IsDate(value) == value \notin {Null, Bad}

\* The gate of this run has read the file that is there now.
Gated(t) == reports[t] # None /\ reports[t].file = source[t]
--------------------------------------------------------------------------
Init ==
    /\ source \in {f \in [Names -> UNION {Feed[t] : t \in Names}] :
                      \A t \in Names : f[t] \in Feed[t]}
    /\ step = "idle" /\ at = 1
    /\ handle = None /\ row = 0 /\ seen = {} /\ report = None
    /\ reports = [t \in Names |-> None]
    /\ cap \in Caps
    /\ raw = [t \in Names |-> [k \in {} |-> {}]]
    /\ watermark = [t \in Names |-> None]
    /\ unchecked = {}
    /\ replaced = 0 /\ runs = 0

reading == <<handle, row, seen, report, cap>>
landed  == <<raw, watermark, unchecked>>

\* The source system delivers another extract, at any time.
Replace(t, file) ==
    /\ replaced < MaxReplaced
    /\ file # source[t]
    /\ source' = [source EXCEPT ![t] = file]
    /\ replaced' = replaced + 1
    /\ UNCHANGED <<step, at, reading, reports, landed, runs>>

\* A run starts with the gate, a load by hand with the load.
Start(first) ==
    /\ step = "idle" /\ runs < MaxRuns
    /\ step' = first
    /\ at' = 1
    /\ reports' = [t \in Names |-> None]
    /\ runs' = runs + 1
    /\ UNCHANGED <<source, reading, landed, replaced>>

Validating == step = "validate" /\ at <= Len(Tables)

Opened(t) == [file |-> source[t], header |-> HeaderProblems(t, source[t]),
              shown |-> 0, omitted |-> 0]

\* A header that is condemned, or missing, stops the table.
Condemn ==
    /\ Validating /\ handle = None
    /\ LET t == Tables[at] IN
       /\ Incompatible(Opened(t))
       /\ reports' = [reports EXCEPT ![t] = Opened(t)]
    /\ at' = at + 1
    /\ UNCHANGED <<source, step, reading, landed, replaced, runs>>

Open ==
    /\ Validating /\ handle = None
    /\ ~Incompatible(Opened(Tables[at]))
    /\ handle' = source[Tables[at]]
    /\ report' = Opened(Tables[at])
    /\ row' = 0 /\ seen' = {}
    /\ UNCHANGED <<source, step, at, reports, cap, landed, replaced, runs>>

CheckRow ==
    /\ Validating /\ handle # None
    /\ row < Len(handle.rows)
    /\ LET t        == Tables[at]
           fields   == AsRow(handle.header, handle.rows[row + 1])
           repeated == IF KeyOf(t, fields) \in seen THEN 1 ELSE 0
       IN  /\ report' = Recorded(report, RowProblems(t, fields) + repeated)
           /\ seen' = seen \cup {KeyOf(t, fields)}
    /\ row' = row + 1
    /\ UNCHANGED <<source, step, at, handle, reports, cap, landed, replaced, runs>>

Close ==
    /\ Validating /\ handle # None
    /\ row = Len(handle.rows)
    /\ reports' = [reports EXCEPT ![Tables[at]] = report]
    /\ handle' = None /\ row' = 0 /\ seen' = {} /\ report' = None
    /\ at' = at + 1
    /\ UNCHANGED <<source, step, cap, landed, replaced, runs>>

RefusingFirst == Incompatible(reports[Tables[1]])
Refusing == \E t \in Names : Incompatible(reports[t])

\* Every table is validated, also after one has failed.
Judge ==
    /\ step = "validate" /\ at > Len(Tables)
    /\ step' = IF Refusing THEN "idle" ELSE "state"
    /\ at' = 1
    /\ UNCHANGED <<source, reading, reports, landed, replaced, runs>>

\* A watermark that is no date refuses the load, of whichever table it is.
ReadState ==
    /\ step = "state"
    /\ step' = IF \A t \in Names : watermark[t] = None \/ IsDate(watermark[t])
               THEN "load" ELSE "idle"
    /\ UNCHANGED <<source, at, reading, reports, landed, replaced, runs>>

LoadTable ==
    /\ step = "load" /\ at <= Len(Tables)
    /\ LET t == Tables[at] IN
       /\ ~Shapeless(t)
       /\ ~Restated(t)
       /\ raw' = [raw EXCEPT ![t] =
              [k \in DOMAIN raw[t] \cup DOMAIN Batch(t) |->
                  IF k \in DOMAIN Batch(t) THEN Batch(t)[k] ELSE raw[t][k]]]
       /\ watermark' = [watermark EXCEPT ![t] = Advanced(t)]
       /\ unchecked' = IF Gated(t) \/ Selected(t) = {} THEN unchecked
                       ELSE unchecked \cup {t}
    /\ at' = at + 1
    /\ UNCHANGED <<source, step, reading, reports, replaced, runs>>

\* The tables before it have landed, the ones after it are not looked at.
RefuseTable ==
    /\ step = "load" /\ at <= Len(Tables)
    /\ Shapeless(Tables[at]) \/ Restated(Tables[at])
    /\ step' = "idle"
    /\ UNCHANGED <<source, at, reading, reports, landed, replaced, runs>>

FinishLoad ==
    /\ step = "load" /\ at > Len(Tables)
    /\ step' = "idle"
    /\ UNCHANGED <<source, at, reading, reports, landed, replaced, runs>>

Next ==
    \/ \E t \in Names : \E file \in Feed[t] : Replace(t, file)
    \/ Start("validate")
    \/ Start("state")
    \/ Condemn
    \/ Open
    \/ CheckRow
    \/ Close
    \/ Judge
    \/ ReadState
    \/ LoadTable
    \/ RefuseTable
    \/ FinishLoad

Spec == Init /\ [][Next]_vars
--------------------------------------------------------------------------
Reports(t) == [file : Feed[t], header : SUBSET Kinds, shown : Nat, omitted : Nat]

\* Types; a table is read only while its turn to be validated lasts.
TypeOK ==
    /\ \A t \in Names :
          /\ source[t] \in Feed[t]
          /\ reports[t] = None \/ reports[t] \in Reports(t)
          /\ \A k \in DOMAIN raw[t] : raw[t][k] \in [Declared(t) -> Int]
          /\ watermark[t] = None \/ watermark[t] \in Int
    /\ step \in {"idle", "validate", "state", "load"}
    /\ at \in 1 .. Len(Tables) + 1
    /\ cap \in Caps
    /\ \/ handle = None /\ report = None /\ row = 0
       \/ /\ Validating
          /\ handle \in Feed[Tables[at]] /\ report \in Reports(Tables[at])
          /\ row \in 0 .. Len(handle.rows)
    /\ unchecked \subseteq Names
    /\ replaced \in 0 .. MaxReplaced /\ runs \in 0 .. MaxRuns

(* What a contract asks of a file, said of the file as a whole.            *)

RowConforms(t, fields) ==
    /\ Declared(t) \subseteq DOMAIN fields
    /\ \A c \in Declared(t) :
          fields[c] # Bad /\ (fields[c] = Null => c \in Contract[t].nullable)
    /\ \A pair \in Contract[t].not_after :
          Null \in {fields[pair[1]], fields[pair[2]]} \/ fields[pair[1]] <= fields[pair[2]]
    /\ \A cs \in Contract[t].exactly_one :
          (\E c \in cs : fields[c] = Null) \/ \E only \in cs : \A c \in cs :
              fields[c] = Zero <=> c # only

RowsOf(file) == [i \in DOMAIN file.rows |-> AsRow(file.header, file.rows[i])]

Conforms(t, file) ==
    /\ file.kind = "csv"
    /\ IsInjective(file.header)
    /\ Declared(t) \subseteq ToSet(file.header)
    /\ \A c, d \in Declared(t) : Before(Contract[t].columns, c, d) => Before(file.header, c, d)
    /\ \A i \in DOMAIN file.rows : RowConforms(t, RowsOf(file)[i])
    /\ \A i, j \in DOMAIN file.rows :
          i # j => KeyOf(t, RowsOf(file)[i]) # KeyOf(t, RowsOf(file)[j])

\* The verdict of the streaming gate is that of the contract over the whole file: it
\* condemns a file if and only if the file breaks the contract, whatever max_findings
\* is, and however the file's faults share rows, keys and skipped constraints.
VerdictIsConformance ==
    \A t \in Names : reports[t] # None =>
        (~Incompatible(reports[t]) <=> Conforms(t, reports[t].file))

\* What lands behind the gate conforms: in a table that was only ever loaded from the
\* file the run's own gate had read, every row meets its contract and the watermark is a
\* date.  A load by hand, or a file exchanged between the gate and the load, may land
\* anything the load can parse.
LandedIsClean ==
    \A t \in Names \ unchecked :
        /\ \A k \in DOMAIN raw[t] : RowConforms(t, raw[t][k])
        /\ watermark[t] = None \/ IsDate(watermark[t])

\* A file that passed the gate and is still there is loaded, unless a row of it is longer
\* or shorter than the header, which the gate does not look at, or restates a landed
\* immutable row, which it does not know of: load and gate agree on everything else.
RefusedOnlyRagged ==
    [][step = "load" /\ at <= Len(Tables) /\ step' = "idle" =>
          LET t == Tables[at] IN
          Gated(t) => Ragged(source[t]) \/ Restated(t)]_vars
==========================================================================
