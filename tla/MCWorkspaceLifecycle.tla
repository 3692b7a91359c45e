------------------------ MODULE MCWorkspaceLifecycle ------------------------
(* One launch, two requests that create or retry, one deletion request     *)
(* beside the retirement a setup may ask for, and one restart.             *)
EXTENDS WorkspaceLifecycle
=============================================================================
