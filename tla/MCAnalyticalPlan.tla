--------------------------- MODULE MCAnalyticalPlan ---------------------------
(****************************************************************************)
(* Two orders of one customer, and one of a customer who is not there.      *)
(****************************************************************************)
EXTENDS AnalyticalPlan, TLC

orders == [columns |-> {"order", "cust", "sum"},
           rows |-> <<[order |-> 1, cust |-> 1, sum |-> 2],
                      [order |-> 2, cust |-> 1, sum |-> 2],
                      [order |-> 3, cust |-> Null, sum |-> 1]>>]

customers == [columns |-> {"id", "region"},
              rows |-> <<[id |-> 1, region |-> 1], [id |-> 2, region |-> 1]>>]

MCTables == [orders |-> orders, customers |-> customers]

MCScans ==
  {[table |-> "orders", columns |-> {"order", "cust"}],
   [table |-> "orders", columns |-> {"cust", "sum"}],
   [table |-> "customers", columns |-> {"id", "region"}]}

\* No measure, a sum, and a count that may have the name of a grouping column.
MCMeasureLists ==
  {<<>>,
   <<[agg |-> "sum", column |-> "sum", alias |-> "total"]>>,
   <<[agg |-> "count", column |-> "*", alias |-> "cust"],
     [agg |-> "count", column |-> "cust", alias |-> "total"]>>}

\* Bound: a plan of two stages is extended or run only if its scans declare the grains below,
\* that of cust and sum false, its joins allow no fan-out they do not declare, its
\* aggregates measure something by one column at most, and its derived columns are
\* counts over a partition.
LongPlansDeclareLittle ==
  LET Usual(s) ==
        CASE s.sql.op = "scan" -> s.grain = s.columns \cap (IF "sum" \in s.columns THEN {"cust"} ELSE {"order", "id"})
          [] s.sql.op = "join" -> s.sql.allow_fanout => s.sql.cardinality = "one_to_many"
          [] s.sql.op = "aggregate" -> s.sql.measures # <<>> /\ Cardinality(s.sql.group_by) <= 1
          [] s.sql.op = "derive" -> s.sql.window
          [] OTHER -> TRUE
  IN  Len(stages) >= 2 => \A n \in DOMAIN stages : Usual(stages[n])

MCDefault == <<"stage_1", "stage_2", "stage_3", "stage_4">>

MCIds == {"orders", "CUSTOMERS"}

MCLowerCase ==
  [n \in MCIds \cup (DOMAIN MCTables) \cup {MCDefault[i] : i \in 1..MaxStages} |->
     IF n = "CUSTOMERS" THEN "customers" ELSE n]
=============================================================================
