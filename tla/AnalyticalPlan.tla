---------------------------- MODULE AnalyticalPlan ----------------------------
(****************************************************************************)
(* The analytical plans of sqlagent/analytical.py: a list of stages that is *)
(* compiled one after the other, with the columns and the grain of each, to *)
(* one query of CTEs, which is what EXPLAIN and the lint see; and to        *)
(* separate queries, which sqlagent/scratch.py runs into temporary tables,  *)
(* which is what answers.                                                   *)
(*                                                                          *)
(* A row is a function of its columns; a relation is a function that gives  *)
(* a row for each of its ids. An id says where the row comes from (a joined *)
(* row has the pair of its halves' ids), so that rows that look alike stay  *)
(* apart. A query is what it computes. What a plan declares of the data - a *)
(* scan's grain, a join's cardinality - is never looked up, and may be      *)
(* false. A query may give two columns one name: PostgreSQL refuses to read *)
(* that name and to make a table of it, and the rows of an answer hold the  *)
(* later one. Of the expressions there are enough to tell rows apart: an    *)
(* equality, a column, a count over a partition, sums.                      *)
(****************************************************************************)
EXTENDS Integers, Sequences, FiniteSetsExt, Functions

CONSTANTS
  Tables,        \* table -> [columns, rows]: the database
  Scans,         \* the scans a plan may have: [table, columns]
  Default,       \* stage_1, stage_2, ..: the names of stages that are given none
  Ids,           \* the names that are given
  LowerCase,     \* name -> the name in lower case
  Values,        \* values a filter compares with
  MeasureLists,  \* what an aggregate may select: sequences of [agg, column, alias]
  Aliases,       \* names of derived columns
  Null,
  MaxStages,     \* bound: stages of a plan, one that is given a name counts twice
  max_rows       \* ScratchLimits

VARIABLES
  stages,        \* the plan, each stage with what is computed by its CTE; `twice`
                 \* are its columns of which there are two of the name, and `sound`
                 \* is history: see GrainIsAKey
  phase,
  output,        \* the stage that is asked for
  temp,          \* the temporary tables
  result

planVars == <<stages, phase, output, temp, result>>

Project(rows, columns) == [i \in DOMAIN rows |-> [c \in columns |-> rows[i][c]]]

IsKey(columns, rows) ==
  \A i, j \in DOMAIN rows : (\A c \in columns : rows[i][c] = rows[j][c]) => i = j

ASSUME PlanAssumption ==
  /\ \A s \in Scans : s.columns \subseteq Tables[s.table].columns
  /\ LET names == Ids \cup {Default[i] : i \in 1..MaxStages} \cup (DOMAIN Tables) IN DOMAIN LowerCase = names
  /\ MaxStages \in Nat \ {0, 1} /\ max_rows \in Nat \ {0}

PlanInit ==
  /\ stages = <<>>
  /\ phase = "planning"
  /\ output = 0
  /\ temp = <<>>
  /\ result = <<>>

----------------------------------------------------------------------------
\* What a query computes from the relations it reads.

Matches(left, right, q) ==
  {p \in (DOMAIN left) \X (DOMAIN right) :
     /\ left[p[1]][q.left_key] # Null
     /\ left[p[1]][q.left_key] = right[p[2]][q.right_key]}

Joined(left, right, q) ==
  LET matches == Matches(left, right, q)
      unmatched == {i \in DOMAIN left : q.how = "left" /\ \A p \in matches : p[1] # i}
      Right(p) == IF p \in matches THEN right[p[2]] ELSE [c \in q.right_columns |-> Null]
  IN  [p \in matches \cup (unmatched \X {Null}) |->
         [c \in q.left_columns \cup q.right_columns |->
            IF c \in q.left_columns THEN left[p[1]][c] ELSE Right(p)[c]]]

\* SUM: no value at all has no sum.
Total(rows, column) ==
  LET added == {i \in DOMAIN rows : rows[i][column] # Null}
  IN  IF added = {} THEN Null ELSE MapThenSumSet(LAMBDA i : rows[i][column], added)

Measured(m, rows) ==
  CASE m.agg = "sum"   -> Total(rows, m.column)
    [] m.agg = "count" -> Cardinality({i \in DOMAIN rows : m.column = "*" \/ rows[i][m.column] # Null})

\* The measures that are called c.
Called(c, measures) == {m \in DOMAIN measures : measures[m].alias = c}

Selected(measures) == {measures[m].alias : m \in DOMAIN measures}

\* Without GROUP BY there is one group, even of no rows.
Grouped(rows, q) ==
  LET Key(i) == [c \in q.group_by |-> rows[i][c]]
      keys == IF q.group_by = {} THEN {<<>>} ELSE {Key(i) : i \in DOMAIN rows}
      Group(k) == Restrict(rows, {i \in DOMAIN rows : \A c \in q.group_by : rows[i][c] = k[c]})
  IN  [k \in keys |-> [c \in q.group_by \cup Selected(q.measures) |->
         IF Called(c, q.measures) = {} THEN k[c]
         ELSE Measured(q.measures[Max(Called(c, q.measures))], Group(k))]]

United(first, second) ==
  [i \in ({1} \X DOMAIN first) \cup ({2} \X DOMAIN second) |->
     IF i[1] = 1 THEN first[i[2]] ELSE second[i[2]]]

Derived(rows, q) ==
  LET Peers(i) == {j \in DOMAIN rows : rows[j][q.column] = rows[i][q.column]}
      Value(i) == IF q.window THEN Cardinality(Peers(i)) ELSE rows[i][q.column]
      kept == IF q.keep THEN q.columns ELSE {}
  IN  [i \in DOMAIN rows |->
         [c \in kept \cup {q.alias} |-> IF c = q.alias THEN Value(i) ELSE rows[i][c]]]

Evaluate(q, in) ==
  CASE q.op = "scan"      -> Project(in[1], q.columns)
    [] q.op = "filter"    -> Restrict(in[1], {i \in DOMAIN in[1] : in[1][i][q.column] = q.value})
    [] q.op = "join"      -> Joined(in[1], in[2], q)
    [] q.op = "aggregate" -> Grouped(in[1], q)
    [] q.op = "union_all" -> United(in[1], in[2])
    [] q.op = "derive"    -> Derived(in[1], q)

----------------------------------------------------------------------------
\* compile: the stages, one after the other.

\* The stages before stage n of this name.
Named(n, name) == {k \in 1..(n - 1) : stages[k].id = name}

\* A name in a query is that of a CTE before it and, if there is none, of a table.
ReadCte(n, name) ==
  IF Named(n, name) = {} THEN Tables[name].rows
  ELSE stages[CHOOSE k \in Named(n, name) : TRUE].rows

Here == Len(stages) + 1

\* A stage gets a name of its own: PostgreSQL refuses a WITH that has one twice.
Stage(id, q, columns, twice, grain, sound) ==
  /\ phase = "planning"
  /\ Named(Here, id) = {}
  /\ stages' = Append(stages,
       [id |-> id, sql |-> q, columns |-> columns, twice |-> twice, grain |-> grain, sound |-> sound,
        rows |-> Evaluate(q, [i \in DOMAIN q.from |-> ReadCte(Here, q.from[i])])])
  /\ UNCHANGED <<phase, output, temp, result>>

\* With a stage of the table's name before it, a scan reads that stage; EXPLAIN
\* fails when it has not got the columns.
Scan(id) ==
  \E s \in Scans : \E grain \in SUBSET s.columns :
    /\ \A k \in Named(Here, s.table) : s.columns \subseteq stages[k].columns \ stages[k].twice
    /\ Stage(id, [op |-> "scan", from |-> <<s.table>>, columns |-> s.columns],
             s.columns, {}, grain,
             Named(Here, s.table) = {} /\ (grain = {} \/ IsKey(grain, Tables[s.table].rows)))

Filter(id) ==
  \E i \in DOMAIN stages : LET s == stages[i] IN
    \E c \in s.columns \ s.twice, v \in Values :
      Stage(id, [op |-> "filter", from |-> <<s.id>>, column |-> c, value |-> v],
            s.columns, s.twice, s.grain, s.sound)

Once(rows, column) ==
  \A i, j \in DOMAIN rows : rows[i][column] = rows[j][column] /\ rows[i][column] # Null => i = j

\* Mutated form of MayFanOut: a join with many rows is not asked to allow them.
MayFanOutAlways(cardinality, allow_fanout) == TRUE

MayFanOut(cardinality, allow_fanout) == cardinality = "one_to_many" => allow_fanout

\* Mutated form of JoinGrain: the left input's grain, whatever the join.
JoinGrainLeft(cardinality, left_grain) == left_grain

JoinGrain(cardinality, left_grain) ==
  IF cardinality \in {"one_to_one", "many_to_one"} THEN left_grain ELSE {}

\* The declared cardinality is true of the data.
TrueOf(cardinality, left, left_key, right, right_key) ==
  /\ cardinality \in {"one_to_one", "many_to_one"} => Once(right, right_key)
  /\ cardinality \in {"one_to_one", "one_to_many"} => Once(left, left_key)

Join(id) ==
  \E i, k \in DOMAIN stages : LET l == stages[i]  r == stages[k] IN
    \E lk \in l.columns \ l.twice, rk \in r.columns \ r.twice, how \in {"inner", "left"},
       cardinality \in {"one_to_one", "many_to_one", "one_to_many"}, allow \in BOOLEAN :
      /\ MayFanOut(cardinality, allow)
      /\ l.columns \cap r.columns = {}
      /\ Stage(id, [op |-> "join", from |-> <<l.id, r.id>>, left_key |-> lk, right_key |-> rk,
                    how |-> how, left_columns |-> l.columns, right_columns |-> r.columns,
                    cardinality |-> cardinality, allow_fanout |-> allow],
               l.columns \cup r.columns, l.twice \cup r.twice, JoinGrain(cardinality, l.grain),
               l.sound /\ TrueOf(cardinality, l.rows, lk, r.rows, rk))

\* A measure may have the name of a column that is grouped by, or of another one.
Aggregate(id) ==
  \E i \in DOMAIN stages : LET s == stages[i]  readable == s.columns \ s.twice IN
    \E group_by \in SUBSET readable, measures \in MeasureLists :
      /\ \A m \in DOMAIN measures : measures[m].column \in readable \cup {"*"}
      /\ group_by # {} \/ measures # <<>>
      /\ LET names == Selected(measures) IN
         Stage(id, [op |-> "aggregate", from |-> <<s.id>>, group_by |-> group_by, measures |-> measures],
               group_by \cup names,
               (group_by \cap names) \cup {c \in names : Cardinality(Called(c, measures)) > 1},
               group_by, group_by \cap names = {})

\* Two inputs of the same grain: so is their union, says the compiler.
UnionAll(id) ==
  \E i, k \in DOMAIN stages :
    /\ stages[i].columns = stages[k].columns
    /\ stages[i].twice \cup stages[k].twice = {}
    /\ Stage(id, [op |-> "union_all", from |-> <<stages[i].id, stages[k].id>>],
             stages[i].columns, {},
             IF stages[i].grain = stages[k].grain THEN stages[i].grain ELSE {}, FALSE)

\* project, window and rank: a column more, or nothing but that column. It may
\* have the name of one that is kept.
Derive(id) ==
  \E i \in DOMAIN stages : LET s == stages[i] IN
    \E c \in s.columns \ s.twice, keep, window \in BOOLEAN, alias \in Aliases :
      Stage(id, [op |-> "derive", from |-> <<s.id>>, column |-> c, columns |-> s.columns,
                 keep |-> keep, window |-> window, alias |-> alias],
            (IF keep THEN s.columns ELSE {}) \cup {alias},
            IF keep THEN s.twice \cup (s.columns \cap {alias}) ELSE {},
            s.grain, s.sound /\ keep /\ alias \notin s.grain)

----------------------------------------------------------------------------
\* compile_scratch and the executor.

\* The plan is complete; its first stage cannot be asked for.
CompileScratch ==
  /\ phase = "planning"
  /\ output' \in 2..Len(stages)
  /\ phase' = "running"
  /\ UNCHANGED <<stages, temp, result>>

\* The stages before stage n that a name in its query is rewritten to: the
\* pattern that looks for it ignores case.
Rewritten(n, name) == {k \in 1..(n - 1) : LowerCase[stages[k].id] = LowerCase[name]}

\* The first stage that matches takes the name; the others find it no more.
ReadScratch(n, name) ==
  IF Rewritten(n, name) = {} THEN Tables[name].rows ELSE temp[Min(Rewritten(n, name))]

NextStage == Len(temp) + 1

\* A relation that has not got the columns is refused by PostgreSQL.
Readable(n) ==
  LET name == stages[n].sql.from[1]
  IN  stages[n].sql.op = "scan" =>
        \A k \in Rewritten(n, name) : stages[n].sql.columns \subseteq stages[k].columns

Computed(n) ==
  LET q == stages[n].sql
  IN  Evaluate(q, [i \in DOMAIN q.from |-> ReadScratch(n, q.from[i])])

\* Mutated form of Limit: not one row more than may be kept.
LimitExact == max_rows

Limit == max_rows + 1

Size(rows) == Cardinality(DOMAIN rows)

\* What LIMIT may leave of a relation: any rows of it, so many.
Limited(rows) ==
  IF Size(rows) <= Limit THEN {rows}
  ELSE {Restrict(rows, ids) : ids \in kSubset(Limit, DOMAIN rows)}

Materialize ==
  /\ phase = "running" /\ NextStage < output /\ Readable(NextStage)
  /\ stages[NextStage].twice = {}
  /\ \E rows \in Limited(Computed(NextStage)) :
       IF Size(rows) > max_rows
       THEN phase' = "failed" /\ temp' = <<>>
       ELSE temp' = Append(temp, rows) /\ UNCHANGED phase
  /\ UNCHANGED <<stages, output, result>>

Answer ==
  /\ phase = "running" /\ NextStage = output /\ Readable(NextStage)
  /\ result' = Computed(NextStage)
  /\ phase' = "answered"
  /\ temp' = <<>>
  /\ UNCHANGED <<stages, output>>

\* A column that is not there or is there twice, the limit on bytes, a timeout.
Fail ==
  /\ phase = "running"
  /\ phase' = "failed"
  /\ temp' = <<>>
  /\ UNCHANGED <<stages, output, result>>

Extend(id) ==
  Scan(id) \/ Filter(id) \/ Join(id) \/ Aggregate(id) \/ UnionAll(id) \/ Derive(id)

\* The length of the plan with a stage of this name added.
Length(id) ==
  LET ids == {stages[k].id : k \in DOMAIN stages} \cup {id}
  IN  Len(stages) + 1 + Cardinality(ids \cap Ids)

PlanNext ==
  \/ \E id \in {Default[i] : i \in {Len(stages) + 1} \cap DOMAIN Default} \cup Ids :
       Length(id) <= MaxStages /\ Extend(id)
  \/ CompileScratch \/ Materialize \/ Answer \/ Fail

PlanSpec == PlanInit /\ [][PlanNext]_planVars

----------------------------------------------------------------------------

\* The grain that the compiler gives a stage identifies its rows, whatever is
\* joined, filtered, grouped or derived along the way - if what the plan declares
\* up to there, the grains of its scans and the cardinalities of its joins, is true
\* of the data, which the compiler does not look at; but not after a UNION ALL, a
\* projection that drops columns, a column that takes the name of one of the grain,
\* or a scan that reads another stage than the table it names.
GrainIsAKey ==
  \A i \in DOMAIN stages :
    stages[i].sound /\ stages[i].grain # {} =>
      stages[i].grain \subseteq stages[i].columns /\ IsKey(stages[i].grain, stages[i].rows)

\* Stage n has no row of its left input more often than that has it, so that what
\* is summed up after it is not counted twice.
KeepsMeasures(n) ==
  LET q == stages[n].sql  rows == stages[n].rows  left == ReadCte(n, q.from[1])
  IN  \A i \in DOMAIN rows :
        /\ i[1] \in DOMAIN left
        /\ \A c \in q.left_columns : rows[i][c] = left[i[1]][c]
        /\ \A j \in DOMAIN rows : i[1] = j[1] => i = j

\* "One_to_many join requires explicit allow_fanout": a join that is not allowed to
\* fan out does not, if what it declares is true of the stages it reads, and
\* whatever was declared of those.
TrueJoinsKeepMeasures ==
  \A n \in DOMAIN stages :
    LET q == stages[n].sql IN
    /\ q.op = "join" /\ ~q.allow_fanout
    /\ TrueOf(q.cardinality, ReadCte(n, q.from[1]), q.left_key, ReadCte(n, q.from[2]), q.right_key)
    => KeepsMeasures(n)

\* src/README.md:46, "join cardinality and grain are validated deterministically":
\* a join that is not allowed to fan out does not.
JoinsKeepMeasures ==
  \A n \in DOMAIN stages :
    stages[n].sql.op = "join" /\ ~stages[n].sql.allow_fanout => KeepsMeasures(n)

\* No name of the plan is another one in capitals.
OneCase ==
  LET names == UNION {{stages[i].id} \cup {stages[i].sql.from[k] : k \in DOMAIN stages[i].sql.from} : i \in DOMAIN stages}
  IN  \A m, n \in names : LowerCase[m] = LowerCase[n] => m = n

\* The query that was linted, explained and judged and the queries that were run
\* are different texts: an answer from temporary tables is the answer of the query
\* of CTEs, and no stage it was computed from was cut off by a limit.
ScratchMeansTheSame ==
  phase = "answered" /\ OneCase => result = stages[output].rows
=============================================================================
