----------------------------- MODULE MCCollector -----------------------------
(* Small instances of Collector: two vCenters, both or only one of which      *)
(* answer.                                                                    *)
EXTENDS Collector

CONSTANTS vc1, vc2

TwoServers == {vc1, vc2}
OnlyFirst == {vc1}
OnlySecond == {vc2}

(* How often an inventory changes.                                            *)
FirstOnce == [s \in TwoServers |-> IF s = vc1 THEN 1 ELSE 0]
=============================================================================
