------------------------ MODULE MCMysqlAsyncConnect ------------------------
(* Instances of MysqlAsyncConnect for TLC.                                 *)
EXTENDS MysqlAsyncConnect, TLC

\* Sessions are interchangeable.
Symmetry == Permutations(Query)

AnyWait == {{"READ"}, {"WRITE", "TIMEOUT"}}
TimedWait == {{"READ", "TIMEOUT"}}
AllEvents == {{"READ"}, {"READ", "WRITE"}, {"ERROR", "CLOSE"}, {"CLOSE"}}
ReadEvent == {{"READ"}}
============================================================================
