-------------------------- MODULE MCPendingRequests --------------------------
(* Model checking PendingRequests: the constants' values are in the .cfg files. *)
EXTENDS PendingRequests

\* For invariants that do not speak of files: what is queued decides no step.
WithoutFiles == <<clockVars, captureVars, apiVars, pairIndex, subTask, pending, link,
                  handler, filing.at, delivered, unknown, reconnects, disturbed>>
=============================================================================
