------------------------ MODULE MCEnvironmentManager ------------------------
(* Instances of EnvironmentManager: y consumes what x produces. *)
EXTENDS EnvironmentManager, TLC

CONSTANTS x, y

MCNames == {x, y}
MCFeeds == (x :> {y}) @@ (y :> {})
MCManagerPorts == <<1, 2>>
MCNodePorts == <<1, 2, 3, 4>>
=============================================================================
