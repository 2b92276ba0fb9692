------------------------------ MODULE Balances ------------------------------
(***************************************************************************)
(* The monthly balances (transform/spark/balances.py): a dense grid of     *)
(* every combination of account and cost centre times every period of the  *)
(* reporting range, stored one partition per period, and rebuilt           *)
(* selectively: build computes the whole table and writes the partitions   *)
(* of a closure, or all of them, one at a time in ascending order.  A      *)
(* process may be killed between two of these writes or inside one, which  *)
(* leaves the directory of a partition with no rows in it, or none.        *)
(*                                                                         *)
(* A period is a number.  What a combination has in a period is the type   *)
(* its last posting carries, and whether a restatement fell into it; each  *)
(* is of one unit, on the debit side.  A row keeps the balances its        *)
(* comparisons and its rolling mean are computed from, in place of their   *)
(* differences and mean.                                                   *)
(***************************************************************************)
EXTENDS Integers, FiniteSets, FiniteSetsExt

CONSTANTS Combos,        \* pairs of account_code and cost_center_code
          Ends,          \* the ends a reporting range may have; it begins with 1
          MomLag, YoyLag, RollingSpan,
          MaxAmends, MaxKills

ASSUME BalancesAssumption ==
    /\ Ends \subseteq Nat \ {0} /\ \E longest \in Ends : \A end \in Ends : end <= longest
    /\ MomLag \in Nat \ {0} /\ YoyLag \in Nat \ {0} /\ RollingSpan \in Nat \ {0}
    /\ MaxAmends \in Nat /\ MaxKills \in Nat

VARIABLES
    posted,      \* per combination and period, the closing type, or Silent
    restated,    \* per combination, the periods a restatement fell into
    last,        \* the end of the reporting range
    owed,        \* periods whose facts changed since a build was finished
    agg,         \* the table: the partitions held, each from combinations to rows
    todo,        \* the partitions a running build still has to write
    running,     \* whether a build runs
    whole,       \* whether that build rewrites the range
    built,       \* history: the end of the range the last finished build was over
    torn,        \* history: a rewrite was killed among its writes, none was finished since
    amends, kills

vars == <<posted, restated, last, owed, agg, todo, running, whole, built, torn, amends, kills>>

facts == <<posted, restated>>
table == <<agg, todo, running, whole, built, torn>>

Debit  == "debit"      \* an asset or an expense: it grows on the debit side
Credit == "credit"
Silent == "silent"
Types  == {Debit, Credit}

Horizon == 1 .. Max(Ends)
Periods == 1 .. last
--------------------------------------------------------------------------
(* What a build computes.                                                  *)

Identity == {c \in Combos : restated[c] # {} \/ \E p \in Horizon : posted[c][p] # Silent}

\* The type of the nearest period that posted, looking back first.
TypeOf(c, p) ==
    LET earlier == {q \in 1 .. p : posted[c][q] # Silent}
        later   == {q \in p .. last : posted[c][q] # Silent}
    IN  IF earlier # {} THEN posted[c][Max(earlier)]
        ELSE IF later # {} THEN posted[c][Min(later)] ELSE Silent

\* One unit on the debit side, seen from an account of a type (or of none).
Signed(type) == IF type = Debit THEN 1 ELSE -1

Reported(c, p) == IF posted[c][p] = Silent THEN 0 ELSE Signed(posted[c][p])
Delta(c, p) == IF p \in restated[c] THEN Signed(TypeOf(c, p)) ELSE 0
Restated(c, p) == Reported(c, p) + Delta(c, p)

\* The periods whose balances the row of p is computed from.
Window(p) == {q \in Periods :
    q \in {p, p - MomLag, p - YoyLag} \/ q \in p - RollingSpan + 1 .. p}

Row(c, p) == [type     |-> TypeOf(c, p),
              reported |-> Reported(c, p),
              read     |-> [q \in Window(p) |-> Restated(c, q)]]

Partition(p) == [c \in Identity |-> Row(c, p)]
--------------------------------------------------------------------------
(* What a build writes.                                                    *)

ClosureUncut(dirty) == UNION {{p, p + MomLag, p + YoyLag} \cup p .. p + RollingSpan - 1 : p \in dirty}
ClosureWithoutYear(dirty) == {q \in Periods : \E p \in dirty :
    q = p + MomLag \/ q \in p .. p + RollingSpan - 1}
Closure(dirty) == {q \in Periods : \E p \in dirty :
    q \in {p, p + MomLag, p + YoyLag} \/ q \in p .. p + RollingSpan - 1}

Held == DOMAIN agg
Filled == {p \in Held : DOMAIN agg[p] # {}}
Members == UNION {DOMAIN agg[p] : p \in Held}

RebuildForPeriodsOnly == Filled = {} \/ Held # Periods

RebuildEverything ==
    \/ Filled = {}
    \/ Held # Periods
    \/ Members # Identity

Writing(dirty) == IF RebuildEverything THEN Periods ELSE Closure(dirty)
Stale == Held \ Periods

\* A partition whose combinations have all gone is removed, as a stale one is.
Written(p) ==
    [q \in (Held \ {p}) \cup (IF p \in Periods /\ Identity # {} THEN {p} ELSE {}) |->
        IF q = p THEN Partition(p) ELSE agg[q]]
--------------------------------------------------------------------------
Init ==
    /\ posted = [c \in Combos |-> [p \in Horizon |-> Silent]]
    /\ restated = [c \in Combos |-> {}]
    /\ last \in Ends
    /\ owed = {}
    /\ agg = [p \in {} |-> {}]
    /\ todo = {} /\ running = FALSE /\ whole = FALSE /\ built = 0 /\ torn = FALSE
    /\ amends = 0 /\ kills = 0

Amended(p) ==
    /\ ~running /\ amends < MaxAmends
    /\ amends' = amends + 1
    /\ owed' = owed \cup {p}
    /\ UNCHANGED <<last, kills, table>>

\* facts.build wrote the period's partition: of the entries and corrections ...
Post(c, p, type) ==
    /\ posted[c][p] # type
    /\ posted' = [posted EXCEPT ![c][p] = type]
    /\ UNCHANGED restated
    /\ Amended(p)

\* ... or of the restatements.
Restate(c, p) ==
    /\ restated' = [restated EXCEPT ![c] = IF p \in @ THEN @ \ {p} ELSE @ \cup {p}]
    /\ UNCHANGED posted
    /\ Amended(p)

\* The next run reports another range, which leaves out nothing that is owed.
Move(end) ==
    /\ ~running /\ end # last /\ owed \subseteq 1 .. end
    /\ last' = end
    /\ UNCHANGED <<facts, owed, table, amends, kills>>

\* Forced, the whole range counts as dirty.
Build(dirty) ==
    /\ ~running
    /\ dirty # {}
    /\ running' = TRUE
    /\ whole' = (Writing(dirty) = Periods)
    /\ todo' = Writing(dirty) \cup Stale
    /\ UNCHANGED <<facts, last, owed, agg, built, torn, amends, kills>>

Upcoming == {p \in todo : \A q \in todo : p <= q}

Write ==
    /\ running
    /\ \E p \in Upcoming : agg' = Written(p) /\ todo' = todo \ {p}
    /\ UNCHANGED <<facts, last, owed, running, whole, built, torn, amends, kills>>

\* The build returns, and the steps up to clear-affected follow.
Finish ==
    /\ running /\ todo = {}
    /\ running' = FALSE /\ whole' = FALSE
    /\ built' = last
    /\ torn' = (torn /\ ~whole)
    /\ owed' = {}
    /\ UNCHANGED <<facts, last, agg, todo, amends, kills>>

\* A directory is deleted before it is written again: it is gone, or has no row in it.
Gone(p) == [q \in Held \ {p} |-> agg[q]]
Hollow(p) == [q \in Held \cup {p} |-> IF q = p THEN [c \in {} |-> {}] ELSE agg[q]]

Kill ==
    /\ running /\ kills < MaxKills
    /\ agg' = agg \/ \E p \in Upcoming : agg' \in {Gone(p), Hollow(p)}
    /\ kills' = kills + 1
    /\ running' = FALSE /\ whole' = FALSE
    /\ todo' = {}
    /\ torn' = (torn \/ whole)
    /\ UNCHANGED <<facts, last, owed, built, amends>>

Next ==
    \/ \E c \in Combos, p \in Periods :
          Restate(c, p) \/ \E type \in Types \cup {Silent} : Post(c, p, type)
    \/ \E end \in Ends : Move(end)
    \/ Build(owed)
    \/ Build(Periods)
    \/ Write
    \/ Finish
    \/ Kill

Spec == Init /\ [][Next]_vars
--------------------------------------------------------------------------
IsRow(row) ==
    /\ row = [type |-> row.type, reported |-> row.reported, read |-> row.read]
    /\ row.type \in Types \cup {Silent}
    /\ row.reported \in -1 .. 1
    /\ row.read \in [DOMAIN row.read -> -2 .. 2] /\ DOMAIN row.read \subseteq Horizon

\* Types; a partition, and what is still to be written, lies within the longest range.
TypeOK ==
    /\ posted \in [Combos -> [Horizon -> Types \cup {Silent}]]
    /\ restated \in [Combos -> SUBSET Horizon]
    /\ last \in Ends
    /\ owed \in SUBSET Horizon
    /\ agg = [p \in Held |-> agg[p]] /\ Held \subseteq Horizon
    /\ \A p \in Held :
          /\ agg[p] = [c \in DOMAIN agg[p] |-> agg[p][c]] /\ DOMAIN agg[p] \subseteq Combos
          /\ \A c \in DOMAIN agg[p] : IsRow(agg[p][c])
    /\ todo \in SUBSET Horizon
    /\ running \in BOOLEAN /\ whole \in BOOLEAN /\ torn \in BOOLEAN
    /\ built \in Ends \cup {0}
    /\ amends \in 0 .. MaxAmends /\ kills \in 0 .. MaxKills

\* A build over the range was finished, and nothing has changed since.
Settled == ~running /\ owed = {} /\ built = last

Dense ==
    /\ Held = (IF Identity = {} THEN {} ELSE Periods)
    /\ \A p \in Held : DOMAIN agg[p] = Identity

\* The grid has no hole and no period too many: when a build is finished, selective or
\* not, every period of the range holds every combination that ever posted, and no other
\* partition is left.  Excepted is a table whose rewrite was killed among its writes: the
\* combinations of the partitions it did write are taken for those of the whole table,
\* and the selective builds that follow leave the others without them (balances.py:340).
DenseUnlessTorn == Settled /\ ~torn => Dense

\* A period whose restatement has no posting beside it borrows its type from another.
Own(c, p) == posted[c][p] # Silent \/ p \notin restated[c]

\* A finished selective build has left the figures a rewrite of everything would have:
\* the reported balance and the type wherever the period posted, and the comparisons
\* and the rolling mean of every row whose window borrows no type.  (A borrowed type may
\* be that of a period the closure does not reach from, balances.py:194.)
FiguresAreFull ==
    Settled /\ ~torn =>
        \A p \in Held : \A c \in DOMAIN agg[p] :
            LET row == agg[p][c] IN
            /\ row.reported = Reported(c, p)
            /\ posted[c][p] # Silent => row.type = TypeOf(c, p)
            /\ (\A q \in Window(p) : Own(c, q)) => row.read = Row(c, p).read
==========================================================================
