----------------------------- MODULE MCRecording ----------------------------
(* Recording on small instances: which stimuli meet in one behaviour.      *)
EXTENDS Recording

MCMixes ==
  {{"toggle", "api"}, {"toggle", "primary"}, {"api", "dmabuf", "primary"}}
=============================================================================
