----------------------------- MODULE GateProofs -----------------------------
(***************************************************************************)
(* Gate: for any contracts, files, caps and schedule of runs, loads by     *)
(* hand and exchanged files, the gate condemns just the files that break   *)
(* their contract, what lands behind it meets the contract, and what it    *)
(* has passed is refused for two reasons only.                             *)
(***************************************************************************)
EXTENDS Gate, FiniteSetTheorems, TLAPS

USE GateAssumption

(***************************************************************************)
(* Finite sets of integers have a greatest and a least element: a subset   *)
(* without one, least in the order of inclusion, would have it after all.  *)
(***************************************************************************)
LEMMA GreatestExists ==
  ASSUME NEW S \in SUBSET Int, IsFiniteSet(S), S # {}
  PROVE  Max(S) \in S /\ \A y \in S : Max(S) >= y
<1> DEFINE Has(U) == \E x \in U : \A y \in U : x >= y
           Without == {U \in SUBSET S : U # {} /\ ~Has(U)}
<1>1. SUFFICES Has(S)
  BY DEF Max
<1>2. SUFFICES ASSUME Without # {} PROVE FALSE
  OBVIOUS
<1>3. Without \subseteq FiniteSubsetsOf(S)
  BY FS_FiniteSubsetsOfFinite
<1>4. PICK U \in Without : \A V \in Without : <<V, U>> \notin StrictSubsetOrdering(S)
  <2> HIDE DEF Without
  <2> QED
    BY <1>2, <1>3, WFMin, FS_StrictSubsetOrderingWellFounded
<1>5. PICK x \in U : TRUE
  BY <1>4
<1> DEFINE V == U \ {x}
<1>6. V \in SUBSET S /\ V \subseteq U /\ V # U /\ U \in SUBSET S
  BY <1>4, <1>5
<1>7. V \notin Without
  <2> HIDE DEF Without, V
  <2> QED
    BY <1>4, <1>6 DEF StrictSubsetOrdering
<1>8. CASE V = {}
  <2>1. U = {x} /\ x \in Int
    BY <1>5, <1>6, <1>8
  <2>2. Has(U)
    BY <2>1
  <2> QED
    BY <2>2, <1>4
<1>9. CASE V # {}
  <2>1. PICK m \in V : \A y \in V : m >= y
    BY <1>6, <1>7, <1>9
  <2>2. x \in Int /\ m \in Int /\ V \subseteq Int
    BY <1>5, <1>6, <2>1
  <2>3. CASE m >= x
    <3>1. \A y \in U : m >= y
      BY <2>1, <2>3
    <3> QED
      BY <3>1, <2>1, <1>4, <1>6
  <2>4. CASE ~(m >= x)
    <3>1. \A y \in V : x >= y
      BY <2>1, <2>2, <2>4
    <3>2. \A y \in U : x >= y
      BY <3>1, <2>2
    <3> QED
      BY <3>2, <1>4, <1>5
  <2> QED
    BY <2>3, <2>4
<1> QED
  BY <1>8, <1>9

-----------------------------------------------------------------------------
(***************************************************************************)
(* One row against a contract.                                             *)
(***************************************************************************)
LEMMA ContractFacts ==
  ASSUME NEW t \in Names
  PROVE  /\ IsFiniteSet(Declared(t))
         /\ IsFiniteSet(Contract[t].not_after) /\ IsFiniteSet(Contract[t].exactly_one)
         /\ \A pair \in Contract[t].not_after : pair[1] \in Declared(t) /\ pair[2] \in Declared(t)
         /\ \A cs \in Contract[t].exactly_one : cs \subseteq Declared(t)
         /\ Contract[t].watermark # None =>
              Contract[t].watermark \in Declared(t) \ Contract[t].nullable
<1>1. WellFormed(Contract[t])
  OBVIOUS
<1>2. Contract[t].columns \in Seq(Declared(t))
  BY <1>1 DEF WellFormed, Declared
<1>3. IsFiniteSet(Declared(t))
  <2> DEFINE s == Contract[t].columns
  <2>1. IsFiniteSet(1 .. Len(s))
    BY <1>2, FS_Interval
  <2>2. DOMAIN s = 1 .. Len(s)
    BY <1>2
  <2>3. s \in [DOMAIN s -> Declared(t)]
    BY <1>2
  <2>4. \A c \in Declared(t) : \E i \in DOMAIN s : s[i] = c
    BY DEF Declared, ToSet
  <2>5. s \in Surjection(DOMAIN s, Declared(t))
    BY <2>3, <2>4 DEF Surjection
  <2> QED
    BY <2>1, <2>2, <2>5, FS_Surjection
<1> QED
  BY <1>1, <1>3 DEF WellFormed, Declared

LEMMA HeaderFacts ==
  ASSUME NEW t, NEW file, IsFile(file)
  PROVE  /\ HeaderProblems(t, file) \subseteq Kinds
         /\ HeaderProblems(t, file) \ Compatible = {} =>
              file.kind = "csv" /\ Declared(t) \subseteq ToSet(file.header)
<1> USE DEF HeaderProblems, Kinds, Compatible
<1>1. HeaderProblems(t, file) \subseteq Kinds
  OBVIOUS
<1> SUFFICES ASSUME HeaderProblems(t, file) \ Compatible = {}
             PROVE  file.kind = "csv" /\ Declared(t) \subseteq ToSet(file.header)
  BY <1>1
<1>2. \A kind \in Kinds \ Compatible : kind \notin HeaderProblems(t, file)
  OBVIOUS
<1>3. file.kind # "missing"
  BY <1>2
<1>4. file.kind # "blank"
  BY <1>2
<1>5. file.kind = "csv"
  BY <1>3, <1>4 DEF IsFile
<1>6. IsInjective(file.header)
  BY <1>2, <1>5
<1> QED
  BY <1>2, <1>5, <1>6

LEMMA ProblemsCount ==
  ASSUME NEW t \in Names, NEW fields
  PROVE  /\ RowProblems(t, fields) \in Nat
         /\ RowProblems(t, fields) = 0 =>
              /\ ColumnProblems(t, fields) = {}
              /\ OutOfOrder(t, fields) = {}
              /\ NotOneNonzero(t, fields) = {}
<1> DEFINE A == ColumnProblems(t, fields)
           B == OutOfOrder(t, fields)
           C == NotOneNonzero(t, fields)
<1>1. A \in SUBSET Declared(t)
  BY DEF ColumnProblems, Unusable
<1>2. B \in SUBSET Contract[t].not_after
  BY DEF OutOfOrder
<1>3. C \in SUBSET Contract[t].exactly_one
  BY DEF NotOneNonzero
<1>4. RowProblems(t, fields) = Cardinality(A) + Cardinality(B) + Cardinality(C)
  BY DEF RowProblems
<1> HIDE DEF A, B, C
<1>5. IsFiniteSet(A)
  BY <1>1, ContractFacts, FS_Subset
<1>6. IsFiniteSet(B)
  BY <1>2, ContractFacts, FS_Subset
<1>7. IsFiniteSet(C)
  BY <1>3, ContractFacts, FS_Subset
<1>8. Cardinality(A) \in Nat /\ Cardinality(B) \in Nat /\ Cardinality(C) \in Nat
  BY <1>5, <1>6, <1>7, FS_CardinalityType
<1>9. /\ Cardinality(A) = 0 => A = {}
      /\ Cardinality(B) = 0 => B = {}
      /\ Cardinality(C) = 0 => C = {}
  BY <1>5, <1>6, <1>7, FS_EmptySet
<1>10. RowProblems(t, fields) \in Nat
  BY <1>4, <1>8
<1>11. RowProblems(t, fields) = 0 => A = {} /\ B = {} /\ C = {}
  BY <1>4, <1>8, <1>9
<1> QED
  BY <1>10, <1>11 DEF A, B, C

(***************************************************************************)
(* A whole row of integers without a problem meets its contract: with no   *)
(* bad column, the constraint that is skipped has an empty field.          *)
(***************************************************************************)
LEMMA CleanRowConforms ==
  ASSUME NEW t \in Names, NEW fields, Declared(t) \subseteq DOMAIN fields,
         \A c \in Declared(t) : fields[c] \in Int,
         RowProblems(t, fields) = 0
  PROVE  RowConforms(t, fields)
<1>1. /\ ColumnProblems(t, fields) = {}
      /\ OutOfOrder(t, fields) = {}
      /\ NotOneNonzero(t, fields) = {}
  BY ProblemsCount
<1>2. \A c \in Declared(t) : Field(fields, c) = fields[c]
  BY DEF Field
<1>3. \A c \in Declared(t) : fields[c] # Bad /\ (fields[c] = Null => c \in Contract[t].nullable)
  <2> SUFFICES ASSUME NEW c \in Declared(t)
               PROVE  fields[c] # Bad /\ (fields[c] = Null => c \in Contract[t].nullable)
    OBVIOUS
  <2>1. c \notin ColumnProblems(t, fields)
    BY <1>1
  <2>2. fields[c] \in {Null, Bad} => c \in Unusable(t, fields)
    BY <1>2 DEF Unusable
  <2>3. fields[c] \in {Null, Bad} => c \in Contract[t].nullable /\ fields[c] = Null
    BY <2>1, <2>2 DEF ColumnProblems
  <2>4. Null # Bad
    BY DEF Null, Bad
  <2> QED
    BY <2>3, <2>4
<1>4. \A c \in Unusable(t, fields) : fields[c] = Null
  BY <1>2, <1>3 DEF Unusable
<1>5. \A pair \in Contract[t].not_after :
          Null \in {fields[pair[1]], fields[pair[2]]} \/ fields[pair[1]] <= fields[pair[2]]
  <2> SUFFICES ASSUME NEW pair \in Contract[t].not_after,
                      fields[pair[1]] # Null, fields[pair[2]] # Null
               PROVE  fields[pair[1]] <= fields[pair[2]]
    OBVIOUS
  <2>1. pair[1] \in Declared(t) /\ pair[2] \in Declared(t)
    BY ContractFacts
  <2>2. pair[1] \notin Unusable(t, fields) /\ pair[2] \notin Unusable(t, fields)
    BY <1>4
  <2>3. {pair[1], pair[2]} \cap Unusable(t, fields) = {}
    BY <2>2
  <2>4. pair \notin OutOfOrder(t, fields)
    BY <1>1
  <2>5. ~(fields[pair[2]] < fields[pair[1]])
    BY <2>3, <2>4 DEF OutOfOrder
  <2> QED
    BY <2>1, <2>5
<1>6. \A cs \in Contract[t].exactly_one :
          (\E c \in cs : fields[c] = Null) \/ \E only \in cs : \A c \in cs :
              fields[c] = Zero <=> c # only
  <2> SUFFICES ASSUME NEW cs \in Contract[t].exactly_one, \A c \in cs : fields[c] # Null
               PROVE  \E only \in cs : \A c \in cs : fields[c] = Zero <=> c # only
    OBVIOUS
  <2> DEFINE nonzero == {c \in cs : fields[c] # Zero}
  <2>1. cs \subseteq Declared(t)
    BY ContractFacts
  <2>2. cs \cap Unusable(t, fields) = {}
    BY <1>4
  <2>3. cs \notin NotOneNonzero(t, fields)
    BY <1>1
  <2>4. Cardinality(nonzero) = 1
    BY <2>2, <2>3 DEF NotOneNonzero
  <2>5. IsFiniteSet(nonzero)
    BY <2>1, ContractFacts, FS_Subset
  <2>6. \E only : nonzero = {only}
    <3> HIDE DEF nonzero
    <3> QED
      BY <2>4, <2>5, FS_Singleton
  <2>7. PICK only : nonzero = {only}
    BY <2>6
  <2>8. only \in cs
    BY <2>7
  <2>9. \A c \in cs : fields[c] # Zero <=> c = only
    BY <2>7
  <2> QED
    BY <2>8, <2>9
<1> QED
  BY <1>3, <1>5, <1>6 DEF RowConforms

(***************************************************************************)
(* What is read of a row is integers, and a row that is as long as the     *)
(* header has every column of it.                                          *)
(***************************************************************************)
LEMMA ReadFields ==
  ASSUME NEW header, header \in Seq(ToSet(header)), NEW values \in Seq(Int)
  PROVE  \A c \in DOMAIN AsRow(header, values) : AsRow(header, values)[c] \in Int
<1> DEFINE n == IF Len(header) < Len(values) THEN Len(header) ELSE Len(values)
           Places(c) == {i \in 1 .. n : header[i] = c}
           read == SubSeq(header, 1, n)
<1>1. /\ n \in Nat /\ n <= Len(header) /\ n <= Len(values) /\ DOMAIN values = 1 .. Len(values)
      /\ Len(values) \in Nat /\ Len(header) \in Nat
  OBVIOUS
<1>2. AsRow(header, values) = [c \in ToSet(read) |-> values[Max(Places(c))]]
  BY DEF AsRow
<1>3. read \in Seq(ToSet(header)) /\ Len(read) = n /\ \A i \in 1 .. n : read[i] = header[i]
  BY <1>1
<1>4. \A c \in ToSet(read) : Max(Places(c)) \in 1 .. n
  <2> SUFFICES ASSUME NEW c \in ToSet(read) PROVE Max(Places(c)) \in 1 .. n
    OBVIOUS
  <2>1. Places(c) \in SUBSET (1 .. n)
    OBVIOUS
  <2>2. Places(c) # {}
    <3>1. PICK i \in DOMAIN read : read[i] = c
      BY DEF ToSet
    <3>2. i \in 1 .. n
      BY <1>3, <1>1
    <3> QED
      BY <3>1, <3>2, <1>3
  <2> HIDE DEF n, Places
  <2>3. IsFiniteSet(1 .. n)
    BY <1>1, FS_Interval
  <2>4. IsFiniteSet(Places(c))
    BY <2>1, <2>3, FS_Subset
  <2>5. Max(Places(c)) \in Places(c)
    BY <2>1, <2>2, <2>4, GreatestExists
  <2> QED
    BY <2>1, <2>5
<1>5. \A c \in ToSet(read) : values[Max(Places(c))] \in Int
  <2> SUFFICES ASSUME NEW c \in ToSet(read) PROVE values[Max(Places(c))] \in Int
    OBVIOUS
  <2>1. Max(Places(c)) \in 1 .. n
    BY <1>4
  <2> HIDE DEF n, Places
  <2>2. Max(Places(c)) \in 1 .. Len(values)
    BY <1>1, <2>1
  <2> QED
    BY <2>2
<1> QED
  BY <1>2, <1>5

LEMMA WholeRow ==
  ASSUME NEW header, header \in Seq(ToSet(header)), NEW values \in Seq(Int),
         Len(values) = Len(header)
  PROVE  /\ ToSet(header) \subseteq DOMAIN AsRow(header, values)
         /\ \A c \in ToSet(header) : AsRow(header, values)[c] \in Int
<1> DEFINE n == IF Len(header) < Len(values) THEN Len(header) ELSE Len(values)
<1>1. SubSeq(header, 1, n) = header
  OBVIOUS
<1>2. DOMAIN AsRow(header, values) = ToSet(header)
  BY <1>1 DEF AsRow
<1> QED
  BY <1>2, ReadFields

LEMMA RecordedFacts ==
  ASSUME NEW t, NEW r \in Reports(t), NEW problems \in Nat,
         cap \in Nat, r.shown <= cap
  PROVE  /\ Recorded(r, problems) \in Reports(t)
         /\ Recorded(r, problems).file = r.file
         /\ Recorded(r, problems).header = r.header
         /\ Recorded(r, problems).shown <= cap
         /\ ~Incompatible(Recorded(r, problems)) => problems = 0 /\ ~Incompatible(r)
<1> DEFINE room  == cap - r.shown
           shown == Min({problems, room})
           next  == Recorded(r, problems)
<1>1. r.shown \in Nat /\ r.omitted \in Nat /\ r.file \in Feed[t] /\ r.header \in SUBSET Kinds
  BY DEF Reports
<1>2. room \in Nat
  BY <1>1
<1>3. shown \in {problems, room} /\ shown <= problems /\ shown <= room
  <2> HIDE DEF room
  <2>1. \E x \in {problems, room} : \A y \in {problems, room} : x <= y
    BY <1>2
  <2> QED
    BY <2>1 DEF Min
<1>4. next = [r EXCEPT !.shown = @ + shown, !.omitted = @ + problems - shown]
  BY DEF Recorded
<1> HIDE DEF shown, next
<1>5. next.file = r.file /\ next.header = r.header
  BY <1>4 DEF Reports
<1>6. next.shown = r.shown + shown /\ next.omitted = r.omitted + problems - shown
  BY <1>4 DEF Reports
<1>7. next.shown \in Nat /\ next.omitted \in Nat /\ next.shown <= cap
  BY <1>1, <1>2, <1>3, <1>6
<1>8. next \in Reports(t)
  BY <1>1, <1>4, <1>6, <1>7 DEF Reports
<1>9. ~(next.shown > 0) /\ ~(next.omitted > 0) => problems = 0 /\ r.shown = 0 /\ r.omitted = 0
  BY <1>1, <1>2, <1>3, <1>6
<1>10. ~Incompatible(next) => problems = 0 /\ ~Incompatible(r)
  BY <1>1, <1>5, <1>9 DEF Incompatible
<1> QED
  BY <1>5, <1>7, <1>8, <1>10 DEF next

-----------------------------------------------------------------------------
(***************************************************************************)
(* The invariant.  A report says of the file it was made from what its     *)
(* header has, and when it condemns nothing, the rows read so far have no  *)
(* problem; behind the gate no report condemns anything.                   *)
(***************************************************************************)
Sound(t, file, n) ==
    \A i \in 1 .. n : RowProblems(t, AsRow(file.header, file.rows[i])) = 0

About(t, r, n) ==
    /\ r.header = HeaderProblems(t, r.file)
    /\ ~Incompatible(r) => Sound(t, r.file, n)

Tabled ==
    /\ DOMAIN source = Names /\ DOMAIN reports = Names
    /\ DOMAIN raw = Names /\ DOMAIN watermark = Names

ReadSoFar ==
    handle # None =>
        report.file = handle /\ report.shown <= cap /\ About(Tables[at], report, row)

Reported ==
    \A t \in Names : reports[t] # None => About(t, reports[t], Len(reports[t].file.rows))

Passed ==
    step \in {"state", "load"} =>
        \A t \in Names : reports[t] # None => ~Incompatible(reports[t])

Inv == TypeOK /\ Tabled /\ ReadSoFar /\ Reported /\ Passed

LEMMA Turn ==
  ASSUME at \in 1 .. Len(Tables) + 1, at <= Len(Tables)
  PROVE  Tables[at] \in Names /\ at + 1 \in 1 .. Len(Tables) + 1
<1>1. Len(Tables) \in Nat /\ DOMAIN Tables = 1 .. Len(Tables)
  OBVIOUS
<1>2. at \in DOMAIN Tables /\ at + 1 \in 1 .. Len(Tables) + 1
  BY <1>1
<1> QED
  BY <1>2 DEF Names, ToSet

LEMMA OpenedFacts ==
  ASSUME NEW t \in Names, source[t] \in Feed[t]
  PROVE  /\ Opened(t) \in Reports(t)
         /\ Opened(t).file = source[t]
         /\ Opened(t).shown = 0
         /\ About(t, Opened(t), 0)
<1>1. IsFile(source[t])
  OBVIOUS
<1>2. HeaderProblems(t, source[t]) \in SUBSET Kinds
  BY <1>1, HeaderFacts
<1>3. Sound(t, Opened(t).file, 0)
  BY DEF Sound
<1> QED
  BY <1>2, <1>3 DEF Opened, Reports, About

(***************************************************************************)
(* What is selected of a file that is not refused: every row is whole.     *)
(***************************************************************************)
LEMMA SelectedRows ==
  ASSUME NEW t \in Names, source[t] \in Feed[t], ~Shapeless(t)
  PROVE  /\ Selected(t) \subseteq 1 .. Len(source[t].rows)
         /\ IsFiniteSet(Selected(t))
         /\ \A i \in Selected(t) :
               /\ Declared(t) \subseteq DOMAIN Fields(t, i)
               /\ \A c \in Declared(t) : Fields(t, i)[c] \in Int
<1>1. IsFile(source[t])
  OBVIOUS
<1> DEFINE file == source[t]
<1>2. /\ Len(file.rows) \in Nat /\ DOMAIN file.rows = 1 .. Len(file.rows)
      /\ \A i \in DOMAIN file.rows : file.rows[i] \in Seq(Int)
      /\ file.header \in Seq(ToSet(file.header))
  BY <1>1 DEF IsFile
<1>3. Selected(t) \in SUBSET (1 .. Len(file.rows))
  BY <1>2 DEF Selected
<1>4. IsFiniteSet(1 .. Len(file.rows))
  BY <1>2, FS_Interval
<1>5. IsFiniteSet(Selected(t))
  BY <1>3, <1>4, FS_Subset
<1>6. ASSUME NEW i \in Selected(t)
      PROVE  /\ Declared(t) \subseteq DOMAIN Fields(t, i)
             /\ \A c \in Declared(t) : Fields(t, i)[c] \in Int
  <2>1. i \in DOMAIN file.rows
    BY <1>2, <1>3
  <2>2. Len(file.rows[i]) = Len(file.header) /\ Declared(t) \subseteq ToSet(file.header)
    BY <2>1 DEF Shapeless, Ragged
  <2>3. /\ ToSet(file.header) \subseteq DOMAIN AsRow(file.header, file.rows[i])
        /\ \A c \in ToSet(file.header) : AsRow(file.header, file.rows[i])[c] \in Int
    BY <1>2, <2>1, <2>2, WholeRow
  <2> QED
    BY <2>2, <2>3 DEF Fields
<1> QED
  BY <1>3, <1>5, <1>6

LEMMA BatchRows ==
  ASSUME NEW t \in Names, source[t] \in Feed[t], ~Shapeless(t), NEW k \in DOMAIN Batch(t)
  PROVE  \E i \in Selected(t) : Batch(t)[k] = [c \in Declared(t) |-> Fields(t, i)[c]]
<1> DEFINE same == {i \in Selected(t) : KeyOf(t, Fields(t, i)) = k}
<1>1. same # {}
  BY DEF Batch
<1>2. same \in SUBSET Selected(t) /\ same \in SUBSET Int
  BY SelectedRows
<1>3. Batch(t)[k] = [c \in Declared(t) |-> Fields(t, Max(same))[c]]
  BY DEF Batch
<1>4. Max(same) \in same
  <2> HIDE DEF same
  <2>1. IsFiniteSet(same)
    BY <1>2, SelectedRows, FS_Subset
  <2> QED
    BY <1>1, <1>2, <2>1, GreatestExists
<1> QED
  BY <1>2, <1>3, <1>4

LEMMA AdvancedFacts ==
  ASSUME NEW t \in Names, source[t] \in Feed[t], ~Shapeless(t)
  PROVE  \/ Advanced(t) = watermark[t]
         \/ /\ Contract[t].watermark # None
            /\ \E i \in Selected(t) : Advanced(t) = Fields(t, i)[Contract[t].watermark]
<1> DEFINE column == Contract[t].watermark
           values == {Fields(t, i)[column] : i \in Selected(t)}
<1> SUFFICES ASSUME column # None, Selected(t) # {}
             PROVE  Max(values) \in values
  BY DEF Advanced
<1>1. column \in Declared(t)
  BY ContractFacts
<1>2. values \in SUBSET Int /\ values # {}
  BY <1>1, SelectedRows
<1>3. IsFiniteSet(values)
  <2> DEFINE f == [i \in Selected(t) |-> Fields(t, i)[column]]
  <2>1. f \in Surjection(Selected(t), values)
    BY DEF Surjection
  <2> HIDE DEF f, values
  <2> QED
    BY <2>1, SelectedRows, FS_Surjection
<1> HIDE DEF values
<1> QED
  BY <1>2, <1>3, GreatestExists

-----------------------------------------------------------------------------
(***************************************************************************)
(* The invariant is inductive, one action after the other.                 *)
(***************************************************************************)
LEMMA InitInv == Init => Inv
<1> SUFFICES ASSUME Init PROVE Inv
  OBVIOUS
<1>1. Len(Tables) \in Nat
  OBVIOUS
<1>2. TypeOK
  BY <1>1 DEF Init, TypeOK
<1>3. Tabled /\ ReadSoFar /\ Reported /\ Passed
  BY DEF Init, Tabled, ReadSoFar, Reported, Passed
<1> QED
  BY <1>2, <1>3 DEF Inv

\* No file is read unless it is being validated.
LEMMA HandleFacts ==
  ASSUME TypeOK
  PROVE  /\ handle # None => /\ Validating
                             /\ Tables[at] \in Names
                             /\ handle \in Feed[Tables[at]] /\ report \in Reports(Tables[at])
                             /\ row \in 0 .. Len(handle.rows) /\ Len(handle.rows) \in Nat
         /\ handle = None => report = None /\ row = 0
         /\ at \in 1 .. Len(Tables) + 1 /\ Len(Tables) \in Nat
         /\ cap \in Nat
<1>1. at \in 1 .. Len(Tables) + 1 /\ Len(Tables) \in Nat /\ cap \in Nat
  <2>1. at \in 1 .. Len(Tables) + 1 /\ cap \in Caps
    BY DEF TypeOK
  <2>2. Len(Tables) \in Nat /\ Caps \subseteq Nat
    OBVIOUS
  <2> QED
    BY <2>1, <2>2
<1>2. Validating => Tables[at] \in Names /\ None \notin Feed[Tables[at]]
  BY <1>1, Turn DEF Validating
<1>3. \/ handle = None /\ report = None /\ row = 0
      \/ /\ Validating
         /\ handle \in Feed[Tables[at]] /\ report \in Reports(Tables[at])
         /\ row \in 0 .. Len(handle.rows)
  BY DEF TypeOK
<1>4. Validating /\ handle \in Feed[Tables[at]] => IsFile(handle)
  BY <1>2
<1> QED
  BY <1>1, <1>2, <1>3, <1>4 DEF IsFile

LEMMA ReplaceInv ==
  ASSUME Inv, NEW t \in Names, NEW file \in Feed[t], Replace(t, file)
  PROVE  Inv'
<1>1. TypeOK'
  BY DEF Inv, TypeOK, Tabled, Replace, reading, landed, Validating
<1>2. Tabled'
  BY DEF Inv, Tabled, Replace, landed
<1>3. UNCHANGED <<step, at, reading, reports>>
  BY DEF Replace
<1>4. ReadSoFar'
  BY <1>3 DEF Inv, ReadSoFar, reading, About, Sound, Incompatible
<1>5. Reported' /\ Passed'
  BY <1>3 DEF Inv, Reported, Passed, About, Sound, Incompatible
<1> QED
  BY <1>1, <1>2, <1>4, <1>5 DEF Inv

LEMMA StartInv ==
  ASSUME Inv, NEW first \in {"validate", "state"}, Start(first)
  PROVE  Inv'
<1>1. handle = None /\ report = None /\ row = 0
  BY HandleFacts DEF Inv, Start, Validating
<1>2. Len(Tables) \in Nat
  OBVIOUS
<1>3. TypeOK'
  BY <1>1, <1>2 DEF Inv, TypeOK, Start, reading, landed
<1>4. Tabled' /\ ReadSoFar' /\ Reported' /\ Passed'
  BY <1>1 DEF Inv, Tabled, ReadSoFar, Reported, Passed, Start, reading, landed
<1> QED
  BY <1>3, <1>4 DEF Inv

LEMMA CondemnInv ==
  ASSUME Inv, Condemn
  PROVE  Inv'
<1> DEFINE t == Tables[at]
<1>1. t \in Names /\ at + 1 \in 1 .. Len(Tables) + 1 /\ handle = None /\ report = None /\ row = 0
  BY HandleFacts, Turn DEF Inv, Condemn, Validating
<1>2. source[t] \in Feed[t]
  BY <1>1 DEF Inv, TypeOK
<1>3. Opened(t) \in Reports(t) /\ About(t, Opened(t), 0) /\ Incompatible(Opened(t))
  BY <1>1, <1>2, OpenedFacts DEF Condemn
<1>4. reports' = [reports EXCEPT ![t] = Opened(t)] /\ at' = at + 1
  BY DEF Condemn
<1>5. UNCHANGED <<source, step, handle, row, seen, report, cap, raw, watermark, unchecked,
                  replaced, runs>>
  BY DEF Condemn, reading, landed
<1> HIDE DEF t
<1>6. \A u \in Names : reports'[u] = IF u = t THEN Opened(t) ELSE reports[u]
  BY <1>4 DEF Inv, Tabled
<1>7. TypeOK'
  BY <1>1, <1>3, <1>4, <1>5, <1>6 DEF Inv, TypeOK, Reports
<1>8. Tabled' /\ ReadSoFar'
  BY <1>1, <1>4, <1>5 DEF Inv, Tabled, ReadSoFar
<1>9. Reported'
  <2> SUFFICES ASSUME NEW u \in Names, reports'[u] # None
               PROVE  About(u, reports'[u], Len(reports'[u].file.rows))
    BY DEF Reported, About, Sound, Incompatible
  <2>1. CASE u = t
    BY <2>1, <1>3, <1>6 DEF About
  <2>2. CASE u # t
    BY <2>2, <1>6 DEF Inv, Reported
  <2> QED
    BY <2>1, <2>2
<1>10. Passed'
  BY <1>5 DEF Passed, Condemn, Validating
<1> QED
  BY <1>7, <1>8, <1>9, <1>10 DEF Inv

LEMMA OpenInv ==
  ASSUME Inv, Open
  PROVE  Inv'
<1> DEFINE t == Tables[at]
<1>1. t \in Names /\ Validating
  BY HandleFacts, Turn DEF Inv, Open, Validating
<1>2. source[t] \in Feed[t]
  BY <1>1 DEF Inv, TypeOK
<1>3. /\ Opened(t) \in Reports(t) /\ About(t, Opened(t), 0)
      /\ Opened(t).file = source[t] /\ Opened(t).shown = 0
  BY <1>1, <1>2, OpenedFacts
<1>4. handle' = source[t] /\ report' = Opened(t) /\ row' = 0
  BY DEF Open
<1>5. UNCHANGED <<source, step, at, reports, cap, raw, watermark, unchecked, replaced, runs>>
  BY DEF Open, landed
<1>6. IsFile(source[t]) /\ 0 \in 0 .. Len(source[t].rows)
  <2>1. IsFile(source[t])
    BY <1>1, <1>2
  <2>2. Len(source[t].rows) \in Nat
    BY <2>1 DEF IsFile
  <2> QED
    BY <2>1, <2>2
<1>7. TypeOK'
  <2>1. Validating'
    BY <1>1, <1>5 DEF Validating
  <2>2. /\ handle' \in Feed[Tables[at']] /\ report' \in Reports(Tables[at'])
        /\ row' \in 0 .. Len(handle'.rows)
    BY <1>2, <1>3, <1>4, <1>5, <1>6
  <2> QED
    BY <1>5, <2>1, <2>2 DEF Inv, TypeOK, Reports
<1>8. ReadSoFar'
  <2>1. report'.shown <= cap'
    BY <1>3, <1>4, <1>5, HandleFacts DEF Inv
  <2>2. About(Tables[at'], report', row')
    BY <1>3, <1>4, <1>5
  <2> QED
    BY <1>3, <1>4, <2>1, <2>2 DEF ReadSoFar, About, Sound, Incompatible
<1>9. Tabled' /\ Reported' /\ Passed'
  BY <1>5 DEF Inv, Tabled, Reported, Passed, About, Sound, Incompatible
<1> QED
  BY <1>7, <1>8, <1>9 DEF Inv

LEMMA CheckRowInv ==
  ASSUME Inv, CheckRow
  PROVE  Inv'
<1> DEFINE t        == Tables[at]
           fields   == AsRow(handle.header, handle.rows[row + 1])
           repeated == IF KeyOf(t, fields) \in seen THEN 1 ELSE 0
           problems == RowProblems(t, fields) + repeated
<1>1. /\ Validating /\ t \in Names /\ handle # None
      /\ handle \in Feed[t] /\ report \in Reports(t)
      /\ row \in 0 .. Len(handle.rows) /\ Len(handle.rows) \in Nat /\ cap \in Nat
  BY HandleFacts DEF Inv, CheckRow
<1>2. report.file = handle /\ report.shown <= cap /\ About(t, report, row)
  BY <1>1 DEF Inv, ReadSoFar
<1>3. RowProblems(t, fields) \in Nat /\ repeated \in {0, 1}
  BY <1>1, ProblemsCount
<1>4. problems \in Nat /\ (problems = 0 => RowProblems(t, fields) = 0)
  <2> HIDE DEF repeated, fields, t
  <2> QED
    BY <1>3
<1>5. report' = Recorded(report, problems) /\ row' = row + 1 /\ row < Len(handle.rows)
  BY DEF CheckRow
<1>6. UNCHANGED <<source, step, at, handle, reports, cap, raw, watermark, unchecked,
                  replaced, runs>>
  BY DEF CheckRow, landed
<1> HIDE DEF t, fields, repeated, problems
<1>7. /\ report' \in Reports(t) /\ report'.file = handle /\ report'.header = report.header
      /\ report'.shown <= cap
      /\ ~Incompatible(report') => problems = 0 /\ ~Incompatible(report)
  <2> DEFINE next == Recorded(report, problems)
  <2>1. /\ next \in Reports(t) /\ next.file = report.file /\ next.header = report.header
        /\ next.shown <= cap
        /\ ~Incompatible(next) => problems = 0 /\ ~Incompatible(report)
    <3>1. report \in Reports(t) /\ problems \in Nat /\ cap \in Nat /\ report.shown <= cap
      BY <1>1, <1>2, <1>4
    <3> QED
      BY <3>1, RecordedFacts, Zenon
  <2> HIDE DEF next
  <2>2. report' = next
    BY <1>5 DEF next
  <2> QED
    BY <2>1, <2>2, <1>2 DEF Incompatible
<1>8. row' \in 0 .. Len(handle.rows)
  BY <1>1, <1>5
<1>9. TypeOK'
  <2>1. Validating'
    BY <1>1, <1>6 DEF Validating
  <2>2. /\ handle' \in Feed[Tables[at']] /\ report' \in Reports(Tables[at'])
        /\ row' \in 0 .. Len(handle'.rows)
    BY <1>1, <1>6, <1>7, <1>8 DEF t
  <2> QED
    BY <1>6, <2>1, <2>2 DEF Inv, TypeOK, Reports
<1>10. About(t, report', row')
  <2>1. ASSUME ~Incompatible(report'), NEW i \in 1 .. row + 1
        PROVE  RowProblems(t, AsRow(handle.header, handle.rows[i])) = 0
    <3>1. CASE i = row + 1
      BY <3>1, <2>1, <1>4, <1>7 DEF fields
    <3>2. CASE i # row + 1
      <4>1. i \in 1 .. row
        BY <3>2, <1>1
      <4>2. Sound(t, handle, row)
        BY <2>1, <1>2, <1>7 DEF About
      <4> QED
        BY <4>1, <4>2 DEF Sound
    <3> QED
      BY <3>1, <3>2
  <2> QED
    BY <2>1, <1>2, <1>5, <1>7 DEF About, Sound
<1>11. ReadSoFar'
  <2>1. report'.shown <= cap' /\ report'.file = handle' /\ About(Tables[at'], report', row')
    BY <1>6, <1>7, <1>10 DEF t
  <2> QED
    BY <2>1 DEF ReadSoFar, About, Sound, Incompatible
<1>12. Tabled' /\ Reported' /\ Passed'
  BY <1>6 DEF Inv, Tabled, Reported, Passed, About, Sound, Incompatible
<1> QED
  BY <1>9, <1>11, <1>12 DEF Inv

LEMMA CloseInv ==
  ASSUME Inv, Close
  PROVE  Inv'
<1> DEFINE t == Tables[at]
<1>1. /\ Validating /\ t \in Names /\ handle # None /\ report \in Reports(t)
      /\ row = Len(handle.rows)
  BY HandleFacts DEF Inv, Close
<1>2. at + 1 \in 1 .. Len(Tables) + 1
  BY <1>1, HandleFacts, Turn DEF Inv, Validating
<1>3. report.file = handle /\ About(t, report, row)
  BY <1>1 DEF Inv, ReadSoFar
<1>4. /\ reports' = [reports EXCEPT ![t] = report] /\ at' = at + 1
      /\ handle' = None /\ row' = 0 /\ report' = None
  BY DEF Close
<1>5. UNCHANGED <<source, step, cap, raw, watermark, unchecked, replaced, runs>>
  BY DEF Close, landed
<1> HIDE DEF t
<1>6. \A u \in Names : reports'[u] = IF u = t THEN report ELSE reports[u]
  BY <1>4 DEF Inv, Tabled
<1>7. TypeOK'
  BY <1>1, <1>2, <1>4, <1>5, <1>6 DEF Inv, TypeOK, Reports
<1>8. Tabled' /\ ReadSoFar'
  BY <1>4, <1>5 DEF Inv, Tabled, ReadSoFar
<1>9. Reported'
  <2> SUFFICES ASSUME NEW u \in Names, reports'[u] # None
               PROVE  About(u, reports'[u], Len(reports'[u].file.rows))
    BY DEF Reported, About, Sound, Incompatible
  <2>1. CASE u = t
    BY <2>1, <1>1, <1>3, <1>6
  <2>2. CASE u # t
    BY <2>2, <1>6 DEF Inv, Reported
  <2> QED
    BY <2>1, <2>2
<1>10. Passed'
  BY <1>1, <1>5 DEF Passed, Validating
<1> QED
  BY <1>7, <1>8, <1>9, <1>10 DEF Inv

LEMMA JudgeInv ==
  ASSUME Inv, Judge
  PROVE  Inv'
<1>1. handle = None /\ report = None /\ row = 0
  BY HandleFacts DEF Inv, Judge, Validating
<1>2. 1 \in 1 .. Len(Tables) + 1
  BY HandleFacts DEF Inv
<1>3. TypeOK'
  BY <1>1, <1>2 DEF Inv, TypeOK, Judge, reading, landed
<1>4. UNCHANGED <<source, handle, row, report, cap, reports, raw, watermark>>
  BY DEF Judge, reading, landed
<1>5. Tabled' /\ ReadSoFar'
  BY <1>1, <1>4 DEF Inv, Tabled, ReadSoFar
<1>6. Reported'
  BY <1>4 DEF Inv, Reported, About, Sound, Incompatible
<1>7. Passed'
  BY <1>4 DEF Passed, Judge, Refusing, Incompatible
<1> QED
  BY <1>3, <1>5, <1>6, <1>7 DEF Inv

LEMMA ReadStateInv ==
  ASSUME Inv, ReadState
  PROVE  Inv'
<1>1. handle = None /\ report = None /\ row = 0
  BY HandleFacts DEF Inv, ReadState, Validating
<1>2. UNCHANGED <<source, at, handle, row, seen, report, cap, reports, raw, watermark,
                  unchecked, replaced, runs>>
  BY DEF ReadState, reading, landed
<1>3. step = "state" /\ step' \in {"load", "idle"}
  BY DEF ReadState
<1>4. TypeOK'
  BY <1>1, <1>2, <1>3 DEF Inv, TypeOK, Reports
<1>5. Tabled' /\ ReadSoFar'
  BY <1>1, <1>2 DEF Inv, Tabled, ReadSoFar
<1>6. Reported' /\ Passed'
  BY <1>2, <1>3 DEF Inv, Reported, Passed, About, Sound, Incompatible
<1> QED
  BY <1>4, <1>5, <1>6 DEF Inv

\* The row that lands under a key, and the watermark, after a load.
LEMMA LoadTableInv ==
  ASSUME Inv, LoadTable
  PROVE  Inv'
<1> DEFINE t == Tables[at]
<1>1. handle = None /\ report = None /\ row = 0
  BY HandleFacts DEF Inv, LoadTable, Validating
<1>2. t \in Names /\ at + 1 \in 1 .. Len(Tables) + 1
  BY HandleFacts, Turn DEF Inv, LoadTable
<1>3. source[t] \in Feed[t] /\ ~Shapeless(t)
  BY <1>2 DEF Inv, TypeOK, LoadTable
<1> DEFINE rows == [k \in DOMAIN raw[t] \cup DOMAIN Batch(t) |->
                       IF k \in DOMAIN Batch(t) THEN Batch(t)[k] ELSE raw[t][k]]
<1>4. /\ raw' = [raw EXCEPT ![t] = rows]
      /\ watermark' = [watermark EXCEPT ![t] = Advanced(t)]
      /\ unchecked' \subseteq unchecked \cup {t}
      /\ at' = at + 1 /\ step = "load"
  BY DEF LoadTable
<1>5. UNCHANGED <<source, step, handle, row, seen, report, cap, reports, replaced, runs>>
  BY DEF LoadTable, reading
<1>6. \A k \in DOMAIN Batch(t) : Batch(t)[k] \in [Declared(t) -> Int]
  <2> SUFFICES ASSUME NEW k \in DOMAIN Batch(t) PROVE Batch(t)[k] \in [Declared(t) -> Int]
    OBVIOUS
  <2>1. PICK i \in Selected(t) : Batch(t)[k] = [c \in Declared(t) |-> Fields(t, i)[c]]
    BY <1>2, <1>3, BatchRows
  <2>2. \A c \in Declared(t) : Fields(t, i)[c] \in Int
    BY <1>2, <1>3, SelectedRows
  <2> QED
    BY <2>1, <2>2
<1>7. Advanced(t) = watermark[t] \/ Advanced(t) \in Int
  BY <1>2, <1>3, AdvancedFacts, SelectedRows, ContractFacts
<1>8. \A k \in DOMAIN rows : rows[k] \in [Declared(t) -> Int]
  <2>1. \A k \in DOMAIN raw[t] : raw[t][k] \in [Declared(t) -> Int]
    BY <1>2 DEF Inv, TypeOK
  <2> QED
    BY <2>1, <1>6
<1>9. watermark[t] = None \/ watermark[t] \in Int
  BY <1>2 DEF Inv, TypeOK
<1> HIDE DEF t, rows
<1>10. \A u \in Names :
         /\ raw'[u] = IF u = t THEN rows ELSE raw[u]
         /\ watermark'[u] = IF u = t THEN Advanced(t) ELSE watermark[u]
  BY <1>4 DEF Inv, Tabled
<1>11. TypeOK'
  <2>1. \A u \in Names :
          /\ source'[u] \in Feed[u]
          /\ reports'[u] = None \/ reports'[u] \in Reports(u)
    BY <1>5 DEF Inv, TypeOK
  <2>2. \A u \in Names : \A k \in DOMAIN raw'[u] : raw'[u][k] \in [Declared(u) -> Int]
    BY <1>8, <1>10 DEF Inv, TypeOK
  <2>3. \A u \in Names : watermark'[u] = None \/ watermark'[u] \in Int
    BY <1>7, <1>9, <1>10 DEF Inv, TypeOK
  <2>4. unchecked' \subseteq Names
    BY <1>2, <1>4 DEF Inv, TypeOK, t
  <2>5. at' \in 1 .. Len(Tables) + 1
    BY <1>2, <1>4
  <2> QED
    BY <2>1, <2>2, <2>3, <2>4, <2>5, <1>1, <1>5 DEF Inv, TypeOK, Reports
<1>12. Tabled' /\ ReadSoFar'
  BY <1>1, <1>4, <1>5 DEF Inv, Tabled, ReadSoFar
<1>13. Reported' /\ Passed'
  BY <1>5 DEF Inv, Reported, Passed, About, Sound, Incompatible
<1> QED
  BY <1>11, <1>12, <1>13 DEF Inv

LEMMA EndInv ==
  ASSUME Inv, RefuseTable \/ FinishLoad
  PROVE  Inv'
<1>1. handle = None /\ report = None /\ row = 0
  BY HandleFacts DEF Inv, RefuseTable, FinishLoad, Validating
<1>2. UNCHANGED <<source, at, handle, row, seen, report, cap, reports, raw, watermark,
                  unchecked, replaced, runs>>
  BY DEF RefuseTable, FinishLoad, reading, landed
<1>3. step' = "idle"
  BY DEF RefuseTable, FinishLoad
<1>4. TypeOK'
  BY <1>1, <1>2, <1>3 DEF Inv, TypeOK, Reports
<1>5. Tabled' /\ ReadSoFar' /\ Passed'
  BY <1>1, <1>2, <1>3 DEF Inv, Tabled, ReadSoFar, Passed
<1>6. Reported'
  BY <1>2 DEF Inv, Reported, About, Sound, Incompatible
<1> QED
  BY <1>4, <1>5, <1>6 DEF Inv

LEMMA StepInv ==
  ASSUME Inv, [Next]_vars
  PROVE  Inv'
<1>1. CASE UNCHANGED vars
  <2>1. UNCHANGED <<source, step, at, handle, row, report, reports, cap, raw, watermark,
                    unchecked, replaced, runs>>
    BY <1>1 DEF vars
  <2>2. TypeOK'
    BY <2>1 DEF Inv, TypeOK, Reports, Validating
  <2>3. Tabled' /\ ReadSoFar'
    BY <2>1 DEF Inv, Tabled, ReadSoFar, About, Sound, Incompatible
  <2>4. Reported' /\ Passed'
    BY <2>1 DEF Inv, Reported, Passed, About, Sound, Incompatible
  <2> QED
    BY <2>2, <2>3, <2>4 DEF Inv
<1>2. CASE Next
  BY <1>2, ReplaceInv, StartInv, CondemnInv, OpenInv, CheckRowInv, CloseInv, JudgeInv,
     ReadStateInv, LoadTableInv, EndInv DEF Next
<1> QED
  BY <1>1, <1>2

LEMMA Invariant == Spec => []Inv
BY InitInv, StepInv, PTL DEF Spec

\* Types hold of any contracts, files and caps.
THEOREM TypeCorrect == Spec => []TypeOK
<1>1. Inv => TypeOK
  BY DEF Inv
<1> QED
  BY <1>1, Invariant, PTL
-----------------------------------------------------------------------------
(***************************************************************************)
(* What the gate has passed, and what lands of it.                         *)
(***************************************************************************)

\* A file whose report condemns nothing, and which is still there.
LEMMA PassedFile ==
  ASSUME Inv, step = "load", NEW t \in Names, Gated(t)
  PROVE  /\ source[t].kind = "csv" /\ Declared(t) \subseteq ToSet(source[t].header)
         /\ \A i \in DOMAIN source[t].rows : RowProblems(t, Fields(t, i)) = 0
<1>1. reports[t] # None /\ reports[t].file = source[t]
  BY DEF Gated
<1>2. ~Incompatible(reports[t]) /\ About(t, reports[t], Len(reports[t].file.rows))
  BY <1>1 DEF Inv, Passed, Reported
<1>3. HeaderProblems(t, source[t]) \ Compatible = {} /\ Sound(t, source[t], Len(source[t].rows))
  BY <1>1, <1>2 DEF About, Incompatible
<1>4. IsFile(source[t])
  BY DEF Inv, TypeOK
<1>5. DOMAIN source[t].rows = 1 .. Len(source[t].rows)
  BY <1>4 DEF IsFile
<1> QED
  BY <1>3, <1>4, <1>5, HeaderFacts DEF Sound, Fields

LEMMA ConformsAsLanded ==
  ASSUME NEW t \in Names, NEW fields, RowConforms(t, fields)
  PROVE  RowConforms(t, [c \in Declared(t) |-> fields[c]])
<1> DEFINE kept == [c \in Declared(t) |-> fields[c]]
<1>1. DOMAIN kept = Declared(t) /\ \A c \in Declared(t) : kept[c] = fields[c]
  OBVIOUS
<1> HIDE DEF kept
<1>2. \A pair \in Contract[t].not_after :
          Null \in {kept[pair[1]], kept[pair[2]]} \/ kept[pair[1]] <= kept[pair[2]]
  <2> SUFFICES ASSUME NEW pair \in Contract[t].not_after
               PROVE  Null \in {kept[pair[1]], kept[pair[2]]} \/ kept[pair[1]] <= kept[pair[2]]
    OBVIOUS
  <2>1. kept[pair[1]] = fields[pair[1]] /\ kept[pair[2]] = fields[pair[2]]
    BY <1>1, ContractFacts
  <2> QED
    BY <2>1 DEF RowConforms
<1>3. \A cs \in Contract[t].exactly_one :
          (\E c \in cs : kept[c] = Null) \/ \E only \in cs : \A c \in cs :
              kept[c] = Zero <=> c # only
  <2> SUFFICES ASSUME NEW cs \in Contract[t].exactly_one
               PROVE  (\E c \in cs : kept[c] = Null) \/ \E only \in cs : \A c \in cs :
                         kept[c] = Zero <=> c # only
    OBVIOUS
  <2>1. \A c \in cs : kept[c] = fields[c]
    BY <1>1, ContractFacts
  <2>2. (\E c \in cs : fields[c] = Null) \/ \E only \in cs : \A c \in cs :
           fields[c] = Zero <=> c # only
    BY DEF RowConforms
  <2> QED
    BY <2>1, <2>2
<1>4. \A c \in Declared(t) :
          kept[c] # Bad /\ (kept[c] = Null => c \in Contract[t].nullable)
  BY <1>1 DEF RowConforms
<1> QED
  BY <1>1, <1>2, <1>3, <1>4 DEF RowConforms, kept

LEMMA LoadIsClean ==
  ASSUME Inv, LandedIsClean, LoadTable
  PROVE  LandedIsClean'
<1> DEFINE t == Tables[at]
           rows == [k \in DOMAIN raw[t] \cup DOMAIN Batch(t) |->
                       IF k \in DOMAIN Batch(t) THEN Batch(t)[k] ELSE raw[t][k]]
<1>1. t \in Names /\ source[t] \in Feed[t] /\ ~Shapeless(t) /\ step = "load"
  BY HandleFacts, Turn DEF Inv, TypeOK, LoadTable
<1>2. /\ raw' = [raw EXCEPT ![t] = rows]
      /\ watermark' = [watermark EXCEPT ![t] = Advanced(t)]
      /\ unchecked' = IF Gated(t) \/ Selected(t) = {} THEN unchecked ELSE unchecked \cup {t}
  BY DEF LoadTable
<1>3. \A k \in DOMAIN Batch(t) : Selected(t) # {}
  BY <1>1, BatchRows
<1>4. ASSUME Gated(t), NEW i \in Selected(t)
      PROVE  RowConforms(t, Fields(t, i))
  <2>1. i \in DOMAIN source[t].rows
    BY DEF Selected
  <2>2. RowProblems(t, Fields(t, i)) = 0
    BY <1>1, <1>4, <2>1, PassedFile
  <2>3. /\ Declared(t) \subseteq DOMAIN Fields(t, i)
        /\ \A c \in Declared(t) : Fields(t, i)[c] \in Int
    BY <1>1, SelectedRows
  <2> QED
    BY <1>1, <2>2, <2>3, CleanRowConforms
<1>5. Gated(t) => \A k \in DOMAIN Batch(t) : RowConforms(t, Batch(t)[k])
  <2> SUFFICES ASSUME Gated(t), NEW k \in DOMAIN Batch(t) PROVE RowConforms(t, Batch(t)[k])
    OBVIOUS
  <2>1. PICK i \in Selected(t) : Batch(t)[k] = [c \in Declared(t) |-> Fields(t, i)[c]]
    BY <1>1, BatchRows
  <2>2. RowConforms(t, Fields(t, i))
    BY <1>4
  <2>3. RowConforms(t, [c \in Declared(t) |-> Fields(t, i)[c]])
    BY <1>1, <2>2, ConformsAsLanded
  <2> QED
    BY <2>1, <2>3
<1>6. Advanced(t) = watermark[t] \/ (Gated(t) => IsDate(Advanced(t)))
  <2> SUFFICES ASSUME Advanced(t) # watermark[t], Gated(t) PROVE IsDate(Advanced(t))
    OBVIOUS
  <2> DEFINE column == Contract[t].watermark
  <2>1. column # None /\ \E i \in Selected(t) : Advanced(t) = Fields(t, i)[column]
    BY <1>1, AdvancedFacts
  <2>2. PICK i \in Selected(t) : Advanced(t) = Fields(t, i)[column]
    BY <2>1
  <2>3. column \in Declared(t) \ Contract[t].nullable
    BY <1>1, <2>1, ContractFacts
  <2>4. RowConforms(t, Fields(t, i))
    BY <1>4
  <2> QED
    BY <2>2, <2>3, <2>4 DEF RowConforms, IsDate
<1>7. Advanced(t) = watermark[t] \/ Selected(t) # {}
  BY <1>1, AdvancedFacts
<1> HIDE DEF t
<1>8. \A u \in Names :
         /\ raw'[u] = IF u = t THEN rows ELSE raw[u]
         /\ watermark'[u] = IF u = t THEN Advanced(t) ELSE watermark[u]
  BY <1>2 DEF Inv, Tabled
<1>9. unchecked \subseteq unchecked'
  BY <1>2
<1>10. ASSUME t \notin unchecked'
       PROVE  /\ \A k \in DOMAIN rows : RowConforms(t, rows[k])
              /\ Advanced(t) = None \/ IsDate(Advanced(t))
  <2>1. Gated(t) \/ Selected(t) = {}
    BY <1>2, <1>10
  <2>2. /\ \A k \in DOMAIN raw[t] : RowConforms(t, raw[t][k])
        /\ watermark[t] = None \/ IsDate(watermark[t])
    BY <1>1, <1>9, <1>10 DEF LandedIsClean
  <2>3. \A k \in DOMAIN Batch(t) : RowConforms(t, Batch(t)[k])
    BY <2>1, <1>3, <1>5
  <2>4. \A k \in DOMAIN rows :
           rows[k] = IF k \in DOMAIN Batch(t) THEN Batch(t)[k] ELSE raw[t][k]
    OBVIOUS
  <2>5. DOMAIN rows = DOMAIN raw[t] \cup DOMAIN Batch(t)
    OBVIOUS
  <2>6. \A k \in DOMAIN rows : RowConforms(t, rows[k])
    <3> HIDE DEF rows
    <3> QED
      BY <2>2, <2>3, <2>4, <2>5
  <2> QED
    BY <2>1, <2>2, <2>6, <1>6, <1>7
<1> HIDE DEF rows
<1>11. ASSUME NEW u \in Names \ unchecked'
       PROVE  /\ \A k \in DOMAIN raw'[u] : RowConforms(u, raw'[u][k])
              /\ watermark'[u] = None \/ IsDate(watermark'[u])
  <2>1. CASE u = t
    BY <2>1, <1>8, <1>10
  <2>2. CASE u # t
    BY <2>2, <1>8, <1>9 DEF LandedIsClean
  <2> QED
    BY <2>1, <2>2
<1> QED
  BY <1>11 DEF LandedIsClean

\* Behind the gate only rows that meet their contract land, and the watermark stays a
\* date, for any contracts, files, caps and loads by hand of other tables.
THEOREM LandedIsCleanHolds == Spec => []LandedIsClean
<1>1. Init => LandedIsClean
  BY DEF Init, LandedIsClean
<1>2. Inv /\ LandedIsClean /\ [Next]_vars => LandedIsClean'
  <2> SUFFICES ASSUME Inv, LandedIsClean, [Next]_vars PROVE LandedIsClean'
    OBVIOUS
  <2>1. CASE UNCHANGED landed
    BY <2>1 DEF landed, LandedIsClean
  <2>2. CASE LoadTable
    BY <2>2, LoadIsClean
  <2>3. [Next]_vars => UNCHANGED landed \/ LoadTable
    BY DEF Next, vars, landed, Replace, Start, Condemn, Open, CheckRow, Close, Judge,
           ReadState, RefuseTable, FinishLoad
  <2> QED
    BY <2>1, <2>2, <2>3
<1> QED
  BY <1>1, <1>2, Invariant, PTL DEF Spec

\* A load refuses a file the gate has passed for a ragged or a restating row only, for
\* any contracts and files.
THEOREM RefusedOnlyRaggedHolds == Spec => RefusedOnlyRagged
<1> DEFINE Refuses == step = "load" /\ at <= Len(Tables) /\ step' = "idle" =>
                         LET t == Tables[at] IN
                         Gated(t) => Ragged(source[t]) \/ Restated(t)
<1>1. Inv /\ [Next]_vars => Refuses
  <2> SUFFICES ASSUME Inv, [Next]_vars, step = "load", at <= Len(Tables), step' = "idle",
                      NEW t, t = Tables[at], Gated(t), ~Restated(t)
               PROVE  Ragged(source[t])
    BY Zenon
  <2>1. RefuseTable
    <3>1. ~(at > Len(Tables))
      BY HandleFacts DEF Inv
    <3> QED
      BY <3>1 DEF Next, vars, Replace, Start, Condemn, Open, CheckRow, Close, Judge,
                  ReadState, LoadTable, FinishLoad, Validating
  <2>2. t \in Names
    BY HandleFacts, Turn DEF Inv
  <2>3. Shapeless(t)
    BY <2>1 DEF RefuseTable
  <2>4. source[t].kind = "csv" /\ Declared(t) \subseteq ToSet(source[t].header)
    BY <2>2, PassedFile
  <2> QED
    BY <2>3, <2>4 DEF Shapeless
<1>2. Inv /\ [Next]_vars => [Refuses]_vars
  BY <1>1
<1> QED
  BY <1>2, Invariant, PTL DEF Spec, RefusedOnlyRagged
-----------------------------------------------------------------------------
(***************************************************************************)
(* The verdict.  A row has no problem just when it meets its contract, a   *)
(* header condemns nothing just when it carries the contract's columns in  *)
(* their order, and a report condemns nothing just when this holds of the  *)
(* rows read so far, and no key of theirs came twice.                      *)
(***************************************************************************)
LEMMA NoProblemIsWhole ==
  ASSUME NEW t \in Names, NEW fields, RowProblems(t, fields) = 0
  PROVE  Declared(t) \subseteq DOMAIN fields
<1> SUFFICES ASSUME NEW c \in Declared(t), c \notin DOMAIN fields PROVE FALSE
  OBVIOUS
<1>1. Field(fields, c) = Null
  BY DEF Field
<1>2. c \in ColumnProblems(t, fields)
  BY <1>1 DEF ColumnProblems, Unusable
<1> QED
  BY <1>2, ProblemsCount

LEMMA ConformingHasNone ==
  ASSUME NEW t \in Names, NEW fields, \A c \in DOMAIN fields : fields[c] \in Int,
         RowConforms(t, fields)
  PROVE  RowProblems(t, fields) = 0
<1>1. \A c \in Declared(t) : c \in DOMAIN fields /\ Field(fields, c) = fields[c]
  BY DEF RowConforms, Field
<1>2. \A c \in Unusable(t, fields) : fields[c] = Null /\ c \in Contract[t].nullable
  BY <1>1 DEF Unusable, RowConforms
<1>3. ColumnProblems(t, fields) = {}
  BY <1>1, <1>2 DEF ColumnProblems, Unusable
<1>4. \A c \in Declared(t) \ Unusable(t, fields) : fields[c] # Null
  BY <1>1 DEF Unusable
<1>5. OutOfOrder(t, fields) = {}
  <2> SUFFICES ASSUME NEW pair \in OutOfOrder(t, fields) PROVE FALSE
    OBVIOUS
  <2>1. /\ pair \in Contract[t].not_after /\ {pair[1], pair[2]} \cap Unusable(t, fields) = {}
        /\ fields[pair[2]] < fields[pair[1]]
    BY DEF OutOfOrder
  <2>2. pair[1] \in Declared(t) /\ pair[2] \in Declared(t)
    BY <2>1, ContractFacts
  <2>3. fields[pair[1]] # Null /\ fields[pair[2]] # Null
    BY <1>4, <2>1, <2>2
  <2>4. fields[pair[1]] <= fields[pair[2]]
    BY <2>1, <2>3 DEF RowConforms
  <2>5. fields[pair[1]] \in Int /\ fields[pair[2]] \in Int
    BY <1>1, <2>2
  <2> QED
    BY <2>1, <2>4, <2>5
<1>6. NotOneNonzero(t, fields) = {}
  <2> SUFFICES ASSUME NEW cs \in NotOneNonzero(t, fields) PROVE FALSE
    OBVIOUS
  <2> DEFINE nonzero == {c \in cs : fields[c] # Zero}
  <2>1. /\ cs \in Contract[t].exactly_one /\ cs \cap Unusable(t, fields) = {}
        /\ Cardinality(nonzero) # 1
    BY DEF NotOneNonzero
  <2>2. cs \subseteq Declared(t)
    BY <2>1, ContractFacts
  <2>3. \A c \in cs : fields[c] # Null
    BY <1>4, <2>1, <2>2
  <2>4. PICK only \in cs : \A c \in cs : fields[c] = Zero <=> c # only
    BY <2>1, <2>3 DEF RowConforms
  <2>5. nonzero = {only}
    BY <2>4
  <2> HIDE DEF nonzero
  <2> QED
    BY <2>1, <2>5, FS_Singleton
<1>7. Cardinality({}) = 0
  BY FS_EmptySet
<1>8. RowProblems(t, fields) = 0 + 0 + 0
  BY <1>3, <1>5, <1>6, <1>7 DEF RowProblems
<1> QED
  BY <1>8

\* Of a row, however short or long: no problem, and the contract is met.
LEMMA RowVerdict ==
  ASSUME NEW t \in Names, NEW header, header \in Seq(ToSet(header)), NEW values \in Seq(Int)
  PROVE  RowProblems(t, AsRow(header, values)) = 0 <=> RowConforms(t, AsRow(header, values))
<1> DEFINE fields == AsRow(header, values)
<1>1. \A c \in DOMAIN fields : fields[c] \in Int
  BY ReadFields
<1> HIDE DEF fields
<1>2. RowConforms(t, fields) => RowProblems(t, fields) = 0
  BY <1>1, ConformingHasNone
<1>3. ASSUME RowProblems(t, fields) = 0 PROVE RowConforms(t, fields)
  <2>1. Declared(t) \subseteq DOMAIN fields
    BY <1>3, NoProblemIsWhole
  <2> QED
    BY <1>1, <1>3, <2>1, CleanRowConforms
<1> QED
  BY <1>2, <1>3 DEF fields

\* Of a header: nothing incompatible, and the contract's columns in their order.
HeaderConforms(t, file) ==
    /\ file.kind = "csv"
    /\ IsInjective(file.header)
    /\ Declared(t) \subseteq ToSet(file.header)
    /\ \A c, d \in Declared(t) : Before(Contract[t].columns, c, d) => Before(file.header, c, d)

LEMMA InOneOrder ==
  ASSUME NEW s, s \in Seq(ToSet(s)), IsInjective(s), NEW c \in ToSet(s), NEW d \in ToSet(s)
  PROVE  /\ Before(s, c, d) => c # d /\ ~Before(s, d, c)
         /\ c # d => Before(s, c, d) \/ Before(s, d, c)
<1>1. DOMAIN s = 1 .. Len(s) /\ Len(s) \in Nat
  OBVIOUS
<1>2. \A i, j \in DOMAIN s : s[i] = s[j] => i = j
  BY DEF IsInjective
<1>3. PICK i \in DOMAIN s : s[i] = c
  BY DEF ToSet
<1>4. PICK j \in DOMAIN s : s[j] = d
  BY DEF ToSet
<1>5. i \in Int /\ j \in Int
  BY <1>1
<1>6. Before(s, c, d) <=> i < j
  BY <1>2, <1>3, <1>4, <1>5 DEF Before
<1>7. Before(s, d, c) <=> j < i
  BY <1>2, <1>3, <1>4, <1>5 DEF Before
<1>8. c = d <=> i = j
  BY <1>2, <1>3, <1>4
<1> QED
  BY <1>5, <1>6, <1>7, <1>8

LEMMA HeaderVerdict ==
  ASSUME NEW t \in Names, NEW file, IsFile(file)
  PROVE  HeaderProblems(t, file) \ Compatible = {} <=> HeaderConforms(t, file)
<1> DEFINE columns == Contract[t].columns
           readable == file.kind = "csv" /\ IsInjective(file.header)
<1>1. HeaderProblems(t, file) \ Compatible = {}
        <=> readable /\ Declared(t) \subseteq ToSet(file.header) /\ ~Reordered(t, file.header)
  <2>1. file.kind \in {"missing", "blank", "csv"}
    BY DEF IsFile
  <2>2. "missing_table" \in HeaderProblems(t, file) <=> file.kind = "missing"
    BY DEF HeaderProblems, Kinds
  <2>3. "missing_column" \in HeaderProblems(t, file) <=>
          file.kind = "blank" \/ (readable /\ ~(Declared(t) \subseteq ToSet(file.header)))
    BY DEF HeaderProblems, Kinds
  <2>4. "duplicate_column" \in HeaderProblems(t, file) <=> file.kind = "csv" /\ ~readable
    BY DEF HeaderProblems, Kinds
  <2>5. "column_order" \in HeaderProblems(t, file) <=> readable /\ Reordered(t, file.header)
    BY DEF HeaderProblems, Kinds
  <2>6. HeaderProblems(t, file) \subseteq Kinds
    BY DEF HeaderProblems
  <2>7. HeaderProblems(t, file) \ Compatible = {} <=>
          /\ "missing_table" \notin HeaderProblems(t, file)
          /\ "missing_column" \notin HeaderProblems(t, file)
          /\ "duplicate_column" \notin HeaderProblems(t, file)
          /\ "column_order" \notin HeaderProblems(t, file)
    BY <2>6 DEF Compatible, Kinds
  <2> HIDE DEF readable
  <2>8. readable => file.kind = "csv"
    BY DEF readable
  <2> QED
    BY <2>1, <2>2, <2>3, <2>4, <2>5, <2>7, <2>8
<1>2. ASSUME IsInjective(file.header), Declared(t) \subseteq ToSet(file.header)
      PROVE  ~Reordered(t, file.header) <=>
               \A c, d \in Declared(t) : Before(columns, c, d) => Before(file.header, c, d)
  <2>1. /\ columns \in Seq(ToSet(columns)) /\ IsInjective(columns)
        /\ ToSet(columns) = Declared(t)
    <3>1. WellFormed(Contract[t])
      OBVIOUS
    <3> QED
      BY <3>1 DEF WellFormed, Declared
  <2>2. file.header \in Seq(ToSet(file.header))
    BY DEF IsFile
  <2> HIDE DEF columns
  <2>3. ASSUME NEW c \in Declared(t), NEW d \in Declared(t)
        PROVE  /\ Before(columns, c, d) => c # d /\ ~Before(columns, d, c)
               /\ Before(file.header, c, d) => c # d /\ ~Before(file.header, d, c)
               /\ c # d => Before(file.header, c, d) \/ Before(file.header, d, c)
    <3>1. c \in ToSet(columns) /\ d \in ToSet(columns)
      BY <2>1
    <3>2. c \in ToSet(file.header) /\ d \in ToSet(file.header)
      BY <1>2
    <3>3. Before(columns, c, d) => c # d /\ ~Before(columns, d, c)
      BY <2>1, <3>1, InOneOrder
    <3> QED
      BY <1>2, <2>2, <3>2, <3>3, InOneOrder
  <2>4. Reordered(t, file.header) <=>
          \E c, d \in Declared(t) : Before(file.header, c, d) /\ Before(columns, d, c)
    BY DEF Reordered, columns
  <2> QED
    BY <2>3, <2>4
<1> QED
  BY <1>1, <1>2 DEF HeaderConforms

KeyAt(t, file, i) == KeyOf(t, AsRow(file.header, file.rows[i]))

\* What the verdict on the header and the first n rows of a file has to be.
ConformsUpTo(t, file, n) ==
    /\ HeaderConforms(t, file)
    /\ \A i \in 1 .. n : RowConforms(t, AsRow(file.header, file.rows[i]))
    /\ \A i, j \in 1 .. n : i # j => KeyAt(t, file, i) # KeyAt(t, file, j)

Judged(t, r, n) == ~Incompatible(r) <=> ConformsUpTo(t, r.file, n)

\* The keys seen are those of the rows read, of a file whose header conforms.
JudgedSoFar ==
    handle # None =>
        /\ HeaderConforms(Tables[at], handle)
        /\ seen = {KeyAt(Tables[at], handle, i) : i \in 1 .. row}
        /\ Judged(Tables[at], report, row)

AllJudged ==
    \A t \in Names : reports[t] # None => Judged(t, reports[t], Len(reports[t].file.rows))

JudgedInv == JudgedSoFar /\ AllJudged

LEMMA WholeFile ==
  ASSUME NEW t \in Names, NEW file, IsFile(file)
  PROVE  ConformsUpTo(t, file, Len(file.rows)) <=> Conforms(t, file)
<1>1. DOMAIN file.rows = 1 .. Len(file.rows)
  BY DEF IsFile
<1>2. \A i \in DOMAIN file.rows : RowsOf(file)[i] = AsRow(file.header, file.rows[i])
  BY DEF RowsOf
<1> QED
  BY <1>1, <1>2 DEF ConformsUpTo, Conforms, HeaderConforms, KeyAt

LEMMA OpenedVerdict ==
  ASSUME NEW t \in Names, source[t] \in Feed[t]
  PROVE  ~Incompatible(Opened(t)) <=> HeaderConforms(t, source[t])
<1>1. IsFile(source[t])
  OBVIOUS
<1>2. ~Incompatible(Opened(t)) <=> HeaderProblems(t, source[t]) \ Compatible = {}
  BY DEF Incompatible, Opened
<1> QED
  BY <1>1, <1>2, HeaderVerdict

LEMMA RecordedVerdict ==
  ASSUME NEW t, NEW r \in Reports(t), NEW problems \in Nat,
         cap \in Nat, r.shown <= cap
  PROVE  ~Incompatible(Recorded(r, problems)) <=> problems = 0 /\ ~Incompatible(r)
<1>1. ~Incompatible(Recorded(r, problems)) => problems = 0 /\ ~Incompatible(r)
  BY RecordedFacts, Zenon
<1>2. ASSUME problems = 0, ~Incompatible(r) PROVE ~Incompatible(Recorded(r, problems))
  <2>1. r.shown = 0 /\ r.omitted = 0 /\ r.header \ Compatible = {}
    BY <1>2 DEF Incompatible, Reports
  <2> DEFINE shown == Min({problems, cap - r.shown})
  <2>2. shown = 0
    <3>1. {problems, cap - r.shown} = {0, cap}
      BY <1>2, <2>1
    <3>2. \A x \in {0, cap} : (\A y \in {0, cap} : x <= y) => x = 0
      OBVIOUS
    <3>3. \E x \in {0, cap} : \A y \in {0, cap} : x <= y
      OBVIOUS
    <3> QED
      BY <3>1, <3>2, <3>3 DEF Min
  <2>3. Recorded(r, problems) = [r EXCEPT !.shown = @ + 0, !.omitted = @ + 0 - 0]
    BY <1>2, <2>2, Zenon DEF Recorded
  <2>4. /\ Recorded(r, problems).shown = 0 /\ Recorded(r, problems).omitted = 0
        /\ Recorded(r, problems).header = r.header
    BY <2>1, <2>3 DEF Reports
  <2> QED
    BY <2>1, <2>4 DEF Incompatible
<1> QED
  BY <1>1, <1>2

\* Parts of the two that a step leaves alone.
LEMMA NothingJudged ==
  ASSUME JudgedInv, UNCHANGED <<handle, at, row, seen, report, reports>>
  PROVE  JudgedInv'
BY DEF JudgedInv, JudgedSoFar, AllJudged, Judged, Incompatible

LEMMA CheckRowJudged ==
  ASSUME Inv, JudgedInv, CheckRow
  PROVE  JudgedInv'
<1> DEFINE t        == Tables[at]
           fields   == AsRow(handle.header, handle.rows[row + 1])
           repeated == IF KeyOf(t, fields) \in seen THEN 1 ELSE 0
           problems == RowProblems(t, fields) + repeated
<1>1. /\ t \in Names /\ handle # None
      /\ handle \in Feed[t] /\ report \in Reports(t)
      /\ row \in 0 .. Len(handle.rows) /\ Len(handle.rows) \in Nat /\ cap \in Nat
  BY HandleFacts DEF Inv, CheckRow
<1>2. report.file = handle /\ report.shown <= cap
  BY <1>1 DEF Inv, ReadSoFar
<1>3. /\ HeaderConforms(t, handle) /\ seen = {KeyAt(t, handle, i) : i \in 1 .. row}
      /\ ~Incompatible(report) <=> ConformsUpTo(t, handle, row)
  BY <1>1, <1>2 DEF JudgedInv, JudgedSoFar, Judged
<1>4. /\ report' = Recorded(report, problems) /\ row' = row + 1 /\ row < Len(handle.rows)
      /\ seen' = seen \cup {KeyOf(t, fields)}
  BY DEF CheckRow
<1>5. UNCHANGED <<at, handle, reports>>
  BY DEF CheckRow
<1>6. RowProblems(t, fields) = 0 <=> RowConforms(t, fields)
  <2>1. IsFile(handle)
    BY <1>1
  <2>2. row + 1 \in DOMAIN handle.rows
    BY <1>1, <1>4, <2>1 DEF IsFile
  <2>3. handle.header \in Seq(ToSet(handle.header)) /\ handle.rows[row + 1] \in Seq(Int)
    BY <2>1, <2>2 DEF IsFile
  <2> QED
    BY <1>1, <2>3, RowVerdict
<1>7. RowProblems(t, fields) \in Nat
  BY <1>1, ProblemsCount
<1>8. KeyOf(t, fields) = KeyAt(t, handle, row + 1)
  BY DEF KeyAt
<1>9. problems \in Nat /\ (problems = 0 <=> RowConforms(t, fields) /\ KeyAt(t, handle, row + 1) \notin seen)
  <2> HIDE DEF fields, t
  <2> QED
    BY <1>6, <1>7, <1>8
<1> HIDE DEF problems, repeated
<1>10. ~Incompatible(report') <=> problems = 0 /\ ~Incompatible(report)
  <2> DEFINE next == Recorded(report, problems)
  <2>1. ~Incompatible(next) <=> problems = 0 /\ ~Incompatible(report)
    BY <1>1, <1>2, <1>9, RecordedVerdict, Zenon
  <2> HIDE DEF next
  <2>2. report' = next
    BY <1>4 DEF next
  <2> QED
    BY <2>1, <2>2 DEF Incompatible
<1> HIDE DEF t
<1>11. 1 .. row + 1 = (1 .. row) \cup {row + 1} /\ row + 1 \notin 1 .. row
  BY <1>1
<1>12. KeyAt(t, handle, row + 1) \notin seen <=>
         \A i \in 1 .. row : KeyAt(t, handle, row + 1) # KeyAt(t, handle, i)
  BY <1>3
<1>13. ConformsUpTo(t, handle, row + 1) <=>
         /\ ConformsUpTo(t, handle, row) /\ RowConforms(t, fields)
         /\ KeyAt(t, handle, row + 1) \notin seen
  <2>1. (\A i \in 1 .. row + 1 : RowConforms(t, AsRow(handle.header, handle.rows[i])))
        <=> /\ \A i \in 1 .. row : RowConforms(t, AsRow(handle.header, handle.rows[i]))
            /\ RowConforms(t, fields)
    BY <1>11
  <2> HIDE DEF fields
  <2>2. (\A i, j \in 1 .. row + 1 : i # j => KeyAt(t, handle, i) # KeyAt(t, handle, j))
        <=> /\ \A i, j \in 1 .. row : i # j => KeyAt(t, handle, i) # KeyAt(t, handle, j)
            /\ KeyAt(t, handle, row + 1) \notin seen
    BY <1>11, <1>12
  <2> QED
    BY <2>1, <2>2 DEF ConformsUpTo
<1>14. report'.file = handle
  <2>1. Recorded(report, problems).file = report.file
    BY <1>1, <1>2, <1>9, RecordedFacts, Zenon
  <2> QED
    BY <2>1, <1>2, <1>4
<1>15. Judged(t, report', row')
  BY <1>3, <1>4, <1>9, <1>10, <1>13, <1>14 DEF Judged
<1>16. seen' = {KeyAt(t, handle, i) : i \in 1 .. row'}
  BY <1>3, <1>4, <1>8, <1>11
<1>17. JudgedSoFar'
  <2>1. Tables[at'] = t
    BY <1>5 DEF t
  <2> QED
    BY <1>3, <1>5, <1>15, <1>16, <2>1 DEF JudgedSoFar, Judged, Incompatible
<1>18. AllJudged'
  BY <1>5 DEF JudgedInv, AllJudged, Judged, Incompatible
<1> QED
  BY <1>17, <1>18 DEF JudgedInv

LEMMA StepJudged ==
  ASSUME Inv, JudgedInv, [Next]_vars
  PROVE  JudgedInv'
<1>1. CASE \E first \in {"validate", "state"} : Start(first)
  <2>1. step = "idle" /\ UNCHANGED handle /\ \A t \in Names : reports'[t] = None
    BY <1>1 DEF Start, reading
  <2>2. handle = None
    BY <2>1, HandleFacts DEF Inv, Validating
  <2> QED
    BY <2>1, <2>2 DEF JudgedInv, JudgedSoFar, AllJudged
<1>2. CASE Condemn
  <2> DEFINE t == Tables[at]
  <2>1. t \in Names /\ handle = None
    BY <1>2, HandleFacts, Turn DEF Inv, Condemn, Validating
  <2>2. source[t] \in Feed[t] /\ Incompatible(Opened(t))
    BY <1>2, <2>1 DEF Inv, TypeOK, Condemn
  <2>3. reports' = [reports EXCEPT ![t] = Opened(t)] /\ UNCHANGED handle
    BY <1>2 DEF Condemn, reading
  <2>4. ~HeaderConforms(t, source[t]) /\ Opened(t).file = source[t]
    BY <2>1, <2>2, OpenedVerdict DEF Opened
  <2>5. \A n : Judged(t, Opened(t), n)
    BY <2>2, <2>4 DEF Judged, ConformsUpTo
  <2> HIDE DEF t
  <2>6. \A u \in Names : reports'[u] = IF u = t THEN Opened(t) ELSE reports[u]
    BY <2>3 DEF Inv, Tabled
  <2>7. ASSUME NEW u \in Names, reports'[u] # None
        PROVE  Judged(u, reports'[u], Len(reports'[u].file.rows))
    <3>1. CASE u = t
      BY <3>1, <2>5, <2>6
    <3>2. CASE u # t
      BY <3>2, <2>6, <2>7 DEF JudgedInv, AllJudged
    <3> QED
      BY <3>1, <3>2
  <2>8. AllJudged'
    BY <2>7 DEF AllJudged, Judged, Incompatible
  <2> QED
    BY <2>1, <2>3, <2>8 DEF JudgedInv, JudgedSoFar
<1>3. CASE Open
  <2> DEFINE t == Tables[at]
  <2>1. t \in Names
    BY <1>3, HandleFacts, Turn DEF Inv, Open, Validating
  <2>2. source[t] \in Feed[t] /\ ~Incompatible(Opened(t))
    BY <1>3, <2>1 DEF Inv, TypeOK, Open
  <2>3. /\ handle' = source[t] /\ report' = Opened(t) /\ row' = 0 /\ seen' = {}
        /\ UNCHANGED <<at, reports>>
    BY <1>3 DEF Open
  <2>4. HeaderConforms(t, source[t]) /\ Opened(t).file = source[t]
    BY <2>1, <2>2, OpenedVerdict DEF Opened
  <2>5. ConformsUpTo(t, source[t], 0)
    BY <2>4 DEF ConformsUpTo
  <2>6. Judged(t, Opened(t), 0)
    BY <2>2, <2>4, <2>5 DEF Judged
  <2>7. {KeyAt(t, source[t], i) : i \in 1 .. 0} = {}
    OBVIOUS
  <2>8. Tables[at'] = t
    BY <2>3
  <2> HIDE DEF t
  <2>9. JudgedSoFar'
    BY <2>3, <2>4, <2>6, <2>7, <2>8 DEF JudgedSoFar, Judged, Incompatible
  <2>10. AllJudged'
    BY <2>3 DEF JudgedInv, AllJudged, Judged, Incompatible
  <2> QED
    BY <2>9, <2>10 DEF JudgedInv
<1>4. CASE CheckRow
  BY <1>4, CheckRowJudged
<1>5. CASE Close
  <2> DEFINE t == Tables[at]
  <2>1. t \in Names /\ handle # None /\ row = Len(handle.rows)
    BY <1>5, HandleFacts DEF Inv, Close
  <2>2. report.file = handle /\ Judged(t, report, row)
    BY <2>1 DEF Inv, ReadSoFar, JudgedInv, JudgedSoFar
  <2>3. reports' = [reports EXCEPT ![t] = report] /\ handle' = None
    BY <1>5 DEF Close
  <2>4. Judged(t, report, Len(report.file.rows))
    BY <2>1, <2>2
  <2> HIDE DEF t
  <2>5. \A u \in Names : reports'[u] = IF u = t THEN report ELSE reports[u]
    BY <2>3 DEF Inv, Tabled
  <2>6. ASSUME NEW u \in Names, reports'[u] # None
        PROVE  Judged(u, reports'[u], Len(reports'[u].file.rows))
    <3>1. CASE u = t
      BY <3>1, <2>4, <2>5
    <3>2. CASE u # t
      BY <3>2, <2>5, <2>6 DEF JudgedInv, AllJudged
    <3> QED
      BY <3>1, <3>2
  <2>7. AllJudged'
    BY <2>6 DEF AllJudged, Judged, Incompatible
  <2> QED
    BY <2>3, <2>7 DEF JudgedInv, JudgedSoFar
<1>6. CASE \/ \E t \in Names : \E file \in Feed[t] : Replace(t, file)
           \/ UNCHANGED vars
  <2>1. UNCHANGED <<handle, at, row, seen, report, reports>>
    BY <1>6 DEF Replace, reading, vars
  <2> QED
    BY <2>1, NothingJudged
<1>7. CASE Judge \/ ReadState \/ LoadTable \/ RefuseTable \/ FinishLoad
  <2>1. UNCHANGED <<handle, row, seen, report, reports>>
    BY <1>7 DEF Judge, ReadState, LoadTable, RefuseTable, FinishLoad, reading
  <2>2. handle = None
    BY <1>7, HandleFacts DEF Inv, Validating, Judge, ReadState, LoadTable, RefuseTable, FinishLoad
  <2> QED
    BY <2>1, <2>2 DEF JudgedInv, JudgedSoFar, AllJudged, Judged, Incompatible
<1> QED
  BY <1>1, <1>2, <1>3, <1>4, <1>5, <1>6, <1>7 DEF Next

\* The verdict of the gate that reads a file row by row is that of the contract over the
\* whole file, for any contracts, files and caps, and whatever is delivered meanwhile.
THEOREM VerdictIsConformanceHolds == Spec => []VerdictIsConformance
<1>1. Init => JudgedInv
  BY DEF Init, JudgedInv, JudgedSoFar, AllJudged
<1>2. Inv /\ JudgedInv /\ [Next]_vars => JudgedInv'
  BY StepJudged
<1>3. Inv /\ JudgedInv => VerdictIsConformance
  <2> SUFFICES ASSUME Inv, JudgedInv, NEW t \in Names, reports[t] # None
               PROVE  ~Incompatible(reports[t]) <=> Conforms(t, reports[t].file)
    BY DEF VerdictIsConformance
  <2>1. reports[t].file \in Feed[t]
    BY DEF Inv, TypeOK, Reports
  <2>2. IsFile(reports[t].file)
    BY <2>1
  <2>3. Judged(t, reports[t], Len(reports[t].file.rows))
    BY DEF JudgedInv, AllJudged
  <2> QED
    BY <2>2, <2>3, WholeFile DEF Judged
<1> QED
  BY <1>1, <1>2, <1>3, Invariant, PTL DEF Spec
==========================================================================
