----------------------------- MODULE MCNumbering -----------------------------
(* Allocation: one invoice scheme numbered by year, two years, two requests   *)
(* that number up to two records each, one administrator who reserves.        *)
EXTENDS Numbering

CONSTANTS s1, branch, y1, y2

MCScheme     == {s1}
MCSeries     == {branch}
MCSeriesOf   == [s \in MCScheme |-> branch]
MCFallback   == [r \in MCSeries |-> branch]
MCPattern    == [s \in MCScheme |-> s]
MCPeriodic   == {s1}
MCDated      == {s1}
MCDate       == {y1, y2}
MCInstalled  == {s1}
MCReservable == {1, 2}
=============================================================================
