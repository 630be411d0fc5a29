---------------------------- MODULE MCInProcess ----------------------------
(***************************************************************************)
(* InProcess on small instances: a sync job on the hosted backend, which   *)
(* may fall back, an async job on the local one, and a sync job whose      *)
(* audio has no window.                                                    *)
(***************************************************************************)
EXTENDS InProcess, TLC

CONSTANTS live, batch, empty, s1, s2

\* The instances take the jobs they need from these tables.
OfJobs(table) == [j \in Job |-> table[j]]
MCModeOf ==
  OfJobs(live :> "sync" @@ batch :> "async" @@ empty :> "sync")
MCTierOf ==
  OfJobs(live :> "fast" @@ batch :> "fast" @@ empty :> "fast")
MCBackendOf ==
  OfJobs(live :> "hosted" @@ batch :> "local" @@ empty :> "local")
MCChunkCount ==
  OfJobs(live :> 2 @@ batch :> 2 @@ empty :> 0)

=============================================================================
