----------------------------- MODULE MCSyncPass -----------------------------
(* Two workers and three repositories: enough for two goroutines to report *)
(* at once while the dispatcher still holds a repository back.             *)
EXTENDS SyncPass
=============================================================================
