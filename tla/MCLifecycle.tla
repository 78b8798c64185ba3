----------------------------- MODULE MCLifecycle -----------------------------
(* A small instance of Lifecycle.                                             *)
EXTENDS Lifecycle

CONSTANTS vc1, vc2, secret1, secret2, c1, c2

First == [server |-> vc1, secret |-> secret1]
Again == [server |-> vc1, secret |-> secret2]
Other == [server |-> vc2, secret |-> secret2]

SomeEntries == {First, Again, Other}

(* Nothing yet, two vCenters, and one that is named twice.                    *)
SomeConfigs == {<<>>, <<First, Other>>, <<First, Again>>}
SomeConns == {c1, c2}
=============================================================================
