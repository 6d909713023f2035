---------------------------- MODULE MCChildSpawn ----------------------------
(* One spawn with two open files: an ordinary stage's redirections, and the  *)
(* supervisor of a background chain (capsule on 3, completion on 4).         *)
EXTENDS ChildSpawn

CONSTANTS fileA, fileB

Stage == [mapped |-> {1, 3, 4, 5}, closed |-> {1, 4}]
Supervisor == [mapped |-> {0, 3, 4}, closed |-> {}]
MCRedirections == {Stage, Supervisor}
HighDescriptor == {[mapped |-> {7}, closed |-> {}]}
=============================================================================
