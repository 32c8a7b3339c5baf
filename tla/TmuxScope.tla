----------------------------- MODULE TmuxScope -----------------------------
(***************************************************************************)
(* One tmux server, the backend that observes a pane of it, and those who  *)
(* make and end its sessions.                                              *)
(***************************************************************************)
EXTENDS PaneSampler, Endpoint

vars == <<serverVars, samplerVars, endpointVars>>

Init == ServerInit /\ SamplerInit /\ EndpointInit

\* The pid of a server that is gone does not come back while the sample or
\* validation that has read it lasts.
PidsLast == serverPid' \in {0, serverPid} \/ serverPid' # job.pid

Others == Lifecycle \/ Outside \/ \E s \in Supervisors : Script(s)

Next ==
  \/ Sampler /\ UNCHANGED <<serverVars, endpointVars>>
  \/ Others /\ PidsLast /\ UNCHANGED samplerVars

Spec == Init /\ [][Next]_vars
=============================================================================
