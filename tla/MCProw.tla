------------------------------- MODULE MCProw -------------------------------
(* Small instances of Prow.                                                   *)
EXTENDS Prow

CONSTANTS vsphere, nightly

AllWords == {vsphere, nightly}

V(major, minor) == [major |-> major, minor |-> minor]

Upgrade == <<vsphere, V(4, 11), nightly, V(4, 12)>>
Plain == <<vsphere, nightly>>
Presubmit == <<nightly, vsphere>>
Old == <<vsphere, V(4, 11)>>
Older == <<vsphere, V(4, 9)>>

(* A periodic that upgrades to the minimum version from the one before it, one *)
(* without a version, and a job that is no periodic.                           *)
SomeJobs == {Upgrade, Plain, Presubmit}
OldOnes == {Old, Older}

PeriodicJobsOf == Jobs \ {Presubmit}
VSphereJobsOf == {j \in Jobs : \E i \in DOMAIN j : j[i] = vsphere}
=============================================================================
