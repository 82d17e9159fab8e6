----------------------------- MODULE MC_Compute -----------------------------
(***************************************************************************)
(* Small instances for TLC of the parts that run other people's work: a    *)
(* Lambda function's pool, one of its runners and one of its event source  *)
(* mappings, a Step Functions execution, CloudFormation stacks, and the    *)
(* database behind a store.  They share no state, so interleaving them     *)
(* would only multiply their states: a behaviour is that of one of them,   *)
(* active.                                                                 *)
(***************************************************************************)
EXTENDS LambdaPool, LambdaRunner, LambdaMappings, StepFunctions,
        CloudFormation, LazyBolt

CONSTANT Parts   \* the parts looked at

VARIABLE active

lambdaVars == <<poolVars, runnerVars, mappingVars>>

baseVars == <<cfnVars, boltVars>>

computeVars == <<active, lambdaVars, sfnVars, baseVars>>

ComputeInit ==
  /\ active \in Parts
  /\ PoolInit /\ RunnerInit /\ MappingInit /\ SfnInit /\ CfnInit
  /\ BoltInit /\ (fileThere \/ active = "database")

LambdaNext ==
  \/ active = "pool" /\ PoolNext /\ UNCHANGED <<runnerVars, mappingVars>>
  \/ active = "runner" /\ RunnerNext /\ UNCHANGED <<poolVars, mappingVars>>
  \/ active = "mapping" /\ MappingNext /\ UNCHANGED <<poolVars, runnerVars>>

\* Names of resources that users make and delete, too.
Shared == {2}

BaseNext ==
  \/ /\ active = "stacks" /\ CfnNext /\ UNCHANGED boltVars
     /\ request' = request => world' \ Shared = world \ Shared
  \/ active = "database" /\ BoltNext /\ UNCHANGED cfnVars

ComputeNext ==
  /\ UNCHANGED active
  /\ \/ LambdaNext /\ UNCHANGED <<sfnVars, baseVars>>
     \/ active = "execution" /\ SfnNext /\ UNCHANGED <<lambdaVars, baseVars>>
     \/ BaseNext /\ UNCHANGED <<lambdaVars, sfnVars>>

ComputeSpec == ComputeInit /\ [][ComputeNext]_computeVars

-----------------------------------------------------------------------------
(* The state machine: a task that is retried once and then caught by a     *)
(* token task, a map of three items two at a time and a wait, both with    *)
(* expressions that may fail.  After the token task comes a map of two     *)
(* items, one at a time by its MaxConcurrencyPath.                         *)

SimpleState(type, next, catch, retries, timed) ==
  [type |-> type, next |-> next, catch |-> catch, retries |-> retries,
   timed |-> timed, frail |-> FALSE, items |-> 0, limit |-> 0,
   kept |-> 0, tolerated |-> NoTolerance, body |-> End]

Machine ==
  [A |-> SimpleState("task", "M", "B", 1, TRUE),
   B |-> SimpleState("token", "P", NoCatch, 1, TRUE),
   P |-> [SimpleState("map", End, NoCatch, 0, FALSE) EXCEPT
            !.items = 2, !.limit = 1, !.body = "I"],
   M |-> [SimpleState("map", "W", NoCatch, 0, FALSE) EXCEPT
            !.items = 3, !.limit = 2, !.kept = 2, !.body = "I",
            !.frail = TRUE],
   I |-> SimpleState("task", End, NoCatch, 0, FALSE),
   W |-> [SimpleState("wait", End, NoCatch, 0, FALSE) EXCEPT !.frail = TRUE]]

(* The templates: a bucket with notifications and an API that is retained  *)
(* except when its creation is rolled back, or a queue alone.              *)

SomeTemplates == {{1, 2}, {3}}

SomePolicies ==
  [n \in ResourceNames |-> IF n = 2 THEN "RetainExceptOnCreate" ELSE "Delete"]

SomeReports == <<"amended", "unsure", "created">>

\* The types of all of them: pools, runners, mappings, frames, stacks and
\* handles stay what the code declares.
ComputeTypeOK ==
  /\ PoolTypeOK /\ RunnerTypeOK /\ MappingTypeOK /\ SfnTypeOK
  /\ CfnTypeOK /\ BoltTypeOK
=============================================================================
