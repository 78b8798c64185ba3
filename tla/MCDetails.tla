------------------------------ MODULE MCDetails ------------------------------
(* A small instance of Details.                                               *)
EXTENDS Details

CONSTANTS p1, l1, l2, j1, vc1, vc2

SomePools == {p1}
SomeLeases == {l1, l2}
SomeJobs == {j1}
SomeServers == {vc1, vc2}

(* Leases and vCenters are interchangeable.                                   *)
Symmetry == Permutations(SomeLeases) \cup Permutations(SomeServers)

(* Both flags may be set at a time.                                           *)
SomeSpecs == {[exclude |-> e, noSchedule |-> TRUE] : e \in BOOLEAN}

Job == <<"ci", "op", "a">>
SomeNamespaces == {Job}

(* A master of Job's cluster, and a VM that is of no ci-op job.               *)
SomeNames == {Job \o <<"hash", "master">>, <<"CI", "template">>}

(* A lease that is fulfilled, one of the same namespace that still waits for   *)
(* its pool, and one whose label is empty.                                    *)
SomeContents ==
  {[ns |-> Job, pools |-> SomePools, job |-> j1, phase |-> "Fulfilled"],
   [ns |-> Job, pools |-> {}, job |-> j1, phase |-> "Pending"],
   [ns |-> <<>>, pools |-> SomePools, job |-> None, phase |-> ""]}
=============================================================================
