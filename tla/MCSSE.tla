-------------------------------- MODULE MCSSE --------------------------------
(* Small instances of SSE: which part of the store each writer changes and    *)
(* which page each tab shows.                                                 *)
EXTENDS SSE, TLC

CONSTANTS wPools, wLeases, tPools, tOverview

(* The two informers behind the pools page.                                   *)
PoolWriters == {wPools, wLeases}
PoolSections == wPools :> "pools" @@ wLeases :> "leases"

PoolsOnly == {tPools}
PoolsAndOverview == {tPools, tOverview}
PoolPages == tPools :> "pools" @@ tOverview :> "overview"
PoolsPage == tPools :> "pools"
=============================================================================
