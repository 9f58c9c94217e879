-------------------------- MODULE MCOperatorOutbox --------------------------
(***************************************************************************)
(* OperatorOutbox on a small instance: a handler and a workflow that emit  *)
(* three events with a repetition, pages of two, and two failures.         *)
(***************************************************************************)
EXTENDS OperatorOutbox

CONSTANTS handler, workflow, received, started, completed

MCWriters == {handler, workflow}
MCEventIds == {received, started, completed}
MCLimit == 2
MCMaxEmits == 4
MCMaxFailures == 2

============================================================================
