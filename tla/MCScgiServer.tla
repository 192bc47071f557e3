---------------------------- MODULE MCScgiServer ----------------------------
(***************************************************************************)
(* Instances of the accept-fork server for TLC.                            *)
(***************************************************************************)
EXTENDS ScgiServerRefinement

\* The launcher, the child forked at start-up, and two more.
MCPids == 1..4
MCLauncher == 1

NoFaults    == {}
AllButExec  == FaultKinds \ {"exec"}
AllFaults   == FaultKinds
=============================================================================
