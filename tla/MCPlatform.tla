----------------------------- MODULE MCPlatform -----------------------------
(* The parts of the platform that share no state, one after the other: one   *)
(* of them is chosen at the beginning and alone takes steps.                 *)
EXTENDS Schema, Digests, Idempotency, Access, TestRun, FormulaParser

CONSTANT Machines  \* the parts to run

VARIABLE machine

AllMachines == {"schema", "digests", "idempotency", "access", "test_run", "parser"}

platformVars == <<schemaVars, digestVars, keyVars, accessVars, runVars, parserVars>>

(* Access: staff in two branches and a client of two accounts.               *)

AllBranches == {"b1", "b2"}

Staff(roles) ==
  [role : roles, branch : AllBranches \cup {NoOne}, department : {"d1", NoOne},
   account : {NoOne}, projects : {{}}]
Clients ==
  [role : {"CLIENT_USER"}, branch : {NoOne}, department : {NoOne}, account : {"a1", "a2"},
   projects : {{}, {"p1"}}]
SomeMemberships ==
  Clients \cup Staff({"TENANT_ADMIN", "BRANCH_MANAGER", "LAB_SUPERVISOR", "TECHNICIAN"})

\* Branch has an id and a creator; a model with every field that a scope can name.
BranchRows == [branch : AllBranches, owner : {"u", "v"}]
FullRows == [branch : AllBranches, department : {"d1", "d2"}, owner : {"u", "v"},
             assignee : {"u", "v"}, account : {"a1", "a2"}, project : {"p1", "p2"}]
SomeModels == [resource \in {"branch", "work_item"} |->
                IF resource = "branch" THEN BranchRows ELSE FullRows]

(* Test runs: up to four specimens, three sieves, two portions.              *)

Row(values, tares) == [ok : BOOLEAN, value : {{}} \cup {{v} : v \in values}, tare : tares]
Lists(rows, max) == UNION {[1..n -> rows] : n \in 0..max}
Inputs(kinds, iterative, target, rows, totals) ==
  [kind : kinds, iterative : iterative, target : target, rows : rows, total : totals]

\* Loads over 4 cm2: strengths of 0, 15.0, 20.05, 25.1 and 40 MPa.
Loads == {0, 600, 802, 1004, 1600}
SomeRuns ==
  UNION {
    Inputs(Compression, BOOLEAN, {"argmin"}, Lists(Row(Loads, {0}), 3), {0}),
    Inputs(Compression, BOOLEAN, {"argmin", "unusable"},
           [1..4 -> [ok : {TRUE}, value : {{v} : v \in Loads}, tare : {0}]], {0}),
    Inputs({"SIEVE_ANALYSIS"}, {FALSE}, {"argmin"}, Lists(Row({0, 3, 5, 7}, {0}), 3), {0, 6}),
    Inputs({"WATER_CONTENT"}, {FALSE}, {"argmin"}, Lists(Row({4, 6, 7}, {1, 5, 7}), 2), {8})}
OneRun == CHOOSE d \in SomeRuns : d.rows = <<>>

-----------------------------------------------------------------------------
Init ==
  /\ machine \in Machines
  /\ IF machine = "digests" THEN TRUE ELSE active = {} /\ everywhere = {}
  /\ IF machine = "test_run" THEN TRUE ELSE data = OneRun
  /\ SchemaInit /\ DigestsInit /\ IdempotencyInit /\ AccessInit /\ RunInit /\ ParserInit

Next ==
  /\ UNCHANGED machine
  /\ \/ /\ machine = "schema" /\ SchemaNext
        /\ UNCHANGED <<digestVars, keyVars, accessVars, runVars, parserVars>>
     \/ /\ machine = "digests" /\ DigestsNext
        /\ UNCHANGED <<schemaVars, keyVars, accessVars, runVars, parserVars>>
     \/ /\ machine = "idempotency" /\ IdempotencyNext
        /\ UNCHANGED <<schemaVars, digestVars, accessVars, runVars, parserVars>>
     \/ /\ machine = "access" /\ AccessNext
        /\ UNCHANGED <<schemaVars, digestVars, keyVars, runVars, parserVars>>
     \/ /\ machine = "test_run" /\ RunNext
        /\ UNCHANGED <<schemaVars, digestVars, keyVars, accessVars, parserVars>>
     \/ /\ machine = "parser" /\ ParserNext
        /\ UNCHANGED <<schemaVars, digestVars, keyVars, accessVars, runVars>>

Spec == Init /\ [][Next]_<<machine, platformVars>>
=============================================================================
