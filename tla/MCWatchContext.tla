--------------------------- MODULE MCWatchContext ---------------------------
(* Instances of WatchContext for TLC.                                      *)
EXTENDS WatchContext

\* etcd refuses the watch, numbers it itself, or takes the number asked for.
Ids == {-1, 0, 1}
============================================================================
