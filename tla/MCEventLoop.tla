----------------------------- MODULE MCEventLoop ----------------------------
(* EventLoop on small instances: which stimuli meet in one behaviour, and  *)
(* on which thread of which process the view is run.                       *)
EXTENDS EventLoop

MCMixes ==
  {{"vt", "teardown"}, {"seat", "teardown"}, {"teardown", "shutdown"},
   {"uiTask", "shutdown"}, {"task", "uiTask"}, {"task", "callback"},
   {"uiTask", "callback"}}

(* Where the loop runs makes a difference to UI tasks only.                *)
MCHosts == [m \in MCMixes |-> IF "uiTask" \in m THEN AllHosts ELSE {"main"}]
=============================================================================
