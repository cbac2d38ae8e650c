----------------------------- MODULE MCRecords ------------------------------
(* Records on a small instance: one kind of record is configured, two are  *)
(* not; a night comes to both projects, or to none.                        *)
EXTENDS Records, TLC

CONSTANTS a, b

MCMappings == [nightly |-> [worksheet |-> "Nightly Update",
                            columns |-> <<"runId", "aggregateStatus">>]]
MCDiscoveries == {{}, {a, b}}
Symmetric == Permutations({a, b})
=============================================================================
