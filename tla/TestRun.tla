------------------------------- MODULE TestRun -------------------------------
(***************************************************************************)
(* The evaluation of a test over one run (src/backend/mizan/platform/      *)
(* formula/engine.py) with the definitions every tenant starts with        *)
(* (apps/config/defaults/test_definitions.py): keys are computed per       *)
(* specimen, sieve or portion, then the aggregates, then the rules, which  *)
(* may exclude a specimen and compute the aggregates again.                *)
(*                                                                         *)
(* A number that is missing or could not be computed is {}, one that is    *)
(* there is the set of it.  Strengths are in tenths of MPa, percentages in *)
(* tenths, masses in the steps of their input.                             *)
(***************************************************************************)
EXTENDS Integers, FiniteSets, Sequences, FiniteSetsExt

CONSTANTS
  Runs,     \* what there may be to evaluate, see RunData
  Section   \* loaded area, in the units of the loads

\* _OUTLIER_RULES: params.threshold, 5 MPa.
Threshold == 50
MaxIterativePasses == 3

VARIABLES
  data,        \* the definition's kind and options, and the inputs
  phase,       \* the next step
  computed,    \* the result per row
  mean,        \* the aggregate
  exclusions,  \* rows excluded, each with the mean it was compared with
  rule, pass,  \* the rule to apply, and which of its passes
  flags, blocks,
  problem      \* a formula failed

runVars == <<data, phase, computed, mean, exclusions, rule, pass, flags, blocks, problem>>

Compression == {"CONCRETE_COMPRESSION", "BLOCK_COMPRESSION"}

\* definition: which, and how the outlier rule was edited: iterative, its target usable.
\* rows: specimens, sieves or portions, OK or not; total: the dry mass sieved.  The input
\* fields of the definitions have a "min" of 0.
RunRow == [ok : BOOLEAN, value : SUBSET Nat, tare : Nat]
IsRunData(d) ==
  /\ d.kind \in Compression \cup {"SIEVE_ANALYSIS", "WATER_CONTENT"}
  /\ d.iterative \in BOOLEAN /\ d.target \in {"argmin", "unusable"} /\ d.total \in Nat
  /\ d.rows \in Seq(RunRow)
  /\ \A i \in DOMAIN d.rows : \A v, w \in d.rows[i].value : v = w

ASSUME TestRunAssumption == Section \in Nat \ {0} /\ \A d \in Runs : IsRunData(d)

RunInit ==
  /\ data \in Runs
  /\ phase = "compute"
  /\ computed = <<>> /\ mean = {} /\ exclusions = <<>>
  /\ rule = 1 /\ pass = 1
  /\ flags = {} /\ blocks = {} /\ problem = FALSE

-----------------------------------------------------------------------------
\* round_half_up(n / d): half goes away from zero.
RoundHalfUp(n, d) ==
  LET a == IF n < 0 THEN -n ELSE n
      b == IF d < 0 THEN -d ELSE d
      q == (2 * a + b) \div (2 * b)
  IN IF (n < 0) = (d < 0) THEN q ELSE -q

Ratio(n, d) == IF d = 0 THEN {} ELSE {RoundHalfUp(n, d)}

Stress(load) ==
  IF data.kind = "CONCRETE_COMPRESSION" THEN Ratio(load, Section)
  ELSE {RoundHalfUp(net, 10) : net \in Ratio(10 * load, Section)}
PercentRetained(mass) == Ratio(1000 * mass, data.total)
\* A portion's value is its dry mass, with tare; the wet mass is data.total.
DryNet(row) == {dry - row.tare : dry \in row.value}
PercentWater(row) ==
  UNION {Ratio(1000 * (data.total - dry), dry - row.tare) : dry \in row.value}

Result(row) ==
  CASE data.kind \in Compression -> UNION {Stress(l) : l \in row.value}
    [] data.kind = "SIEVE_ANALYSIS" -> UNION {PercentRetained(m) : m \in row.value}
    [] data.kind = "WATER_CONTENT" -> PercentWater(row)

\* compute_level(): rows that are not OK are passed over.
ComputeLevel ==
  /\ phase = "compute"
  /\ computed' = [i \in DOMAIN data.rows |-> IF data.rows[i].ok THEN Result(data.rows[i]) ELSE {}]
  /\ problem' = \E i \in DOMAIN data.rows : data.rows[i].ok /\ computed'[i] = {}
  /\ phase' = "aggregate"
  /\ UNCHANGED <<data, mean, exclusions, rule, pass, flags, blocks>>

-----------------------------------------------------------------------------
Excluded == {exclusions[k].row : k \in DOMAIN exclusions}

\* _active(): only specimens are left out, sieves and portions are not.
Active ==
  IF data.kind \in Compression THEN {i \in DOMAIN data.rows : data.rows[i].ok /\ i \notin Excluded}
  ELSE DOMAIN data.rows

\* avg() of a vector: an error when it is empty or one of its elements is missing.
Total(results, rows) == MapThenSumSet(LAMBDA i : CHOOSE v \in results[i] : TRUE, rows)
AverageOf(results, rows) ==
  IF rows = {} \/ \E i \in rows : results[i] = {} THEN {}
  ELSE {RoundHalfUp(Total(results, rows), Cardinality(rows))}
Average(rows) == AverageOf(computed, rows)

\* The mean is an aggregate of all but the sieves, which are counted.
Aggregates == IF data.kind = "SIEVE_ANALYSIS" THEN {} ELSE Average(Active)

\* compute_aggregates(): the first time, and after each exclusion.
ComputeAggregates ==
  /\ phase = "aggregate"
  /\ mean' = Aggregates
  /\ problem' = \/ problem
                \/ IF data.kind = "SIEVE_ANALYSIS" THEN \E i \in Active : data.rows[i].value = {}
                   ELSE mean' = {}
  /\ phase' = "rules"
  /\ UNCHANGED <<data, computed, exclusions, rule, pass, flags, blocks>>

-----------------------------------------------------------------------------
Rules ==
  CASE data.kind \in Compression -> <<"SINGLE_OUTLIER", "MULTI_OUTLIER">>
    [] data.kind = "SIEVE_ANALYSIS" -> <<"SERIES_MONOTONIC", "SERIES_MASS">>
    [] data.kind = "WATER_CONTENT" -> <<"DRY_NET_POSITIVE">>

Outliers == {i \in Active : \E m \in mean, v \in computed[i] : m - v >= Threshold}

\* Mutant: more than two.
SeveralButNotTwo(rows) == Cardinality(rows) > 2

Several(rows) == Cardinality(rows) >= 2

\* The rule's expression meets a missing value.
Fails ==
  CASE data.kind \in Compression ->
         Active # {} /\ (mean = {} \/ \E i \in Active : computed[i] = {})
    [] data.kind = "SIEVE_ANALYSIS" ->
         \/ \E i \in Active : data.rows[i].value = {}
         \/ Rules[rule] = "SERIES_MASS" /\ Active = {}
    [] data.kind = "WATER_CONTENT" ->
         Active = {} \/ \E i \in Active : data.rows[i].ok => DryNet(data.rows[i]) = {}

Fires ==
  LET value(i) == CHOOSE v \in data.rows[i].value : TRUE
  IN CASE Rules[rule] = "SINGLE_OUTLIER" -> Cardinality(Outliers) = 1
       [] Rules[rule] = "MULTI_OUTLIER" -> Several(Outliers)
       [] Rules[rule] = "SERIES_MONOTONIC" -> \E i, j \in Active : i + 1 = j /\ value(i) > value(j)
       [] Rules[rule] = "SERIES_MASS" -> \E i \in Active : value(i) > data.total
       [] Rules[rule] = "DRY_NET_POSITIVE" ->
            \E i \in Active : \E net \in DryNet(data.rows[i]) : net <= 0

\* Mutant: the target of the rule is the strongest specimen.
ArgMax == CHOOSE i \in Active : \A j \in Active : \A v \in computed[i], w \in computed[j] : v >= w

\* argmin(specimens.stress_mpa): the first of the weakest.
ArgMin ==
  CHOOSE i \in Active :
    \A j \in Active : \A v \in computed[i], w \in computed[j] : v < w \/ (v = w /\ i <= j)

NextRule == rule' = rule + 1 /\ pass' = 1 /\ phase' = "rules"

Passes == IF Rules[rule] = "SINGLE_OUTLIER" /\ data.iterative THEN MaxIterativePasses ELSE 1

Applying == phase = "rules" /\ rule <= Len(Rules)

RuleFails ==
  /\ Applying /\ Fails
  /\ problem' = TRUE
  /\ NextRule
  /\ UNCHANGED <<data, computed, mean, exclusions, flags, blocks>>

RuleSilent ==
  /\ Applying /\ ~Fails /\ ~Fires
  /\ NextRule
  /\ UNCHANGED <<data, computed, mean, exclusions, flags, blocks, problem>>

RuleFlags ==
  /\ Applying /\ ~Fails /\ Fires /\ Rules[rule] = "MULTI_OUTLIER"
  /\ flags' = flags \cup {Rules[rule]}
  /\ NextRule
  /\ UNCHANGED <<data, computed, mean, exclusions, blocks, problem>>

\* BLOCK, or an exclusion whose target is no index of a specimen.
RuleBlocks ==
  /\ Applying /\ ~Fails /\ Fires
  /\ \/ Rules[rule] \in {"SERIES_MONOTONIC", "SERIES_MASS", "DRY_NET_POSITIVE"}
     \/ Rules[rule] = "SINGLE_OUTLIER" /\ data.target = "unusable"
  /\ blocks' = blocks \cup {Rules[rule]}
  /\ NextRule
  /\ UNCHANGED <<data, computed, mean, exclusions, flags, problem>>

\* EXCLUDE_AND_RECOMPUTE, and again while there are passes left.
RuleExcludes ==
  /\ Applying /\ ~Fails /\ Fires /\ Rules[rule] = "SINGLE_OUTLIER" /\ data.target = "argmin"
  /\ exclusions' = Append(exclusions, [row |-> ArgMin, mean |-> mean])
  /\ phase' = "aggregate"
  /\ IF pass < Passes THEN pass' = pass + 1 /\ UNCHANGED rule ELSE rule' = rule + 1 /\ pass' = 1
  /\ UNCHANGED <<data, computed, mean, flags, blocks, problem>>

Finished == phase = "rules" /\ rule > Len(Rules)

Blocked == blocks # {} \/ problem

Done == Finished /\ UNCHANGED runVars

RunNext ==
  \/ ComputeLevel \/ ComputeAggregates
  \/ RuleFails \/ RuleSilent \/ RuleFlags \/ RuleBlocks \/ RuleExcludes \/ Done

RunSpec == RunInit /\ [][RunNext]_runVars

-----------------------------------------------------------------------------
\* A specimen is only excluded while it alone is 5 MPa or more under the mean of those left at
\* the time, itself among them; something is always left; and only an iterative rule cascades.
ExclusionsAreJustified ==
  /\ \A k \in DOMAIN exclusions :
       LET before == {i \in DOMAIN data.rows : data.rows[i].ok}
                       \ {exclusions[j].row : j \in 1..(k - 1)}
           far == {i \in before : \E m \in exclusions[k].mean, v \in computed[i] :
                                     m - v >= Threshold}
       IN exclusions[k].mean = Average(before) /\ far = {exclusions[k].row}
  /\ exclusions # <<>> => Active # {}
  /\ Len(exclusions) <= IF data.iterative THEN MaxIterativePasses ELSE 1

\* A result that is not blocked can be signed: the mean is that of the specimens kept or of all
\* portions, none of which is unknown or empty; no specimen far below it went unnoticed unless
\* another was excluded; and what passes the sieves falls from at most 100 % to at least 0.
TrustedIsSound ==
  Finished /\ ~Blocked =>
    CASE data.kind \in Compression ->
           /\ mean = Average(Active) /\ mean # {}
           /\ Outliers # {} => flags # {} \/ exclusions # <<>>
      [] data.kind = "WATER_CONTENT" ->
           /\ mean = Average(DOMAIN data.rows) /\ mean # {}
           /\ \A i \in DOMAIN data.rows : \A net \in DryNet(data.rows[i]) : net > 0
      [] data.kind = "SIEVE_ANALYSIS" ->
           \A i, j \in DOMAIN data.rows : \A p \in computed[i], q \in computed[j] :
             /\ 0 <= p /\ p <= 1000
             /\ i < j => p <= q
=============================================================================
