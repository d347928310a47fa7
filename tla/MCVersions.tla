----------------------------- MODULE MCVersions ------------------------------
(* Versions: the series of a branch and of one of its departments.  The branch *)
(* starts with an active scheme that never restarts; the second version of it  *)
(* and the department's scheme are created, and activated while one request    *)
(* allocates.                                                                  *)
EXTENDS Numbering

CONSTANTS s1, s2, s3, branch, dept, y1

MCScheme     == {s1, s2, s3}
MCSeries     == {branch, dept}
MCSeriesOf   == [s \in MCScheme |-> IF s = s3 THEN dept ELSE branch]
MCFallback   == [r \in MCSeries |-> branch]
MCPattern    == [s \in MCScheme |-> s]
MCPeriodic   == {}
MCDated      == {s3}
MCDate       == {y1}
MCInstalled  == {s1}
MCReservable == {1}
=============================================================================
