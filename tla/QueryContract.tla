--------------------------- MODULE QueryContract ---------------------------
(***************************************************************************)
(* What a connection of integration/async_mysql promises the sessions      *)
(* handed to it, whatever the server and the network do: sessions are      *)
(* answered one at a time in the order they were handed over, each exactly *)
(* once, with a code that never changes after the answer; or every session *)
(* not yet answered is answered "closed" at once, oldest first.            *)
(***************************************************************************)
EXTENDS Sequences, SequencesExt

CONSTANTS Query,     \* the sessions
          Code       \* what Code() of an answered session may be

VARIABLES pending,   \* handed over and not answered, oldest first
          finished,  \* answered, in the order of the OnQueryDone calls
          code       \* the code of each session

vars == <<pending, finished, code>>

Init ==
  /\ pending = <<>>
  /\ finished = <<>>
  /\ code = [q \in Query |-> "ok"]

\* A session that was never handed over joins the end of the line.
Accept(q) ==
  /\ q \notin ToSet(pending) \cup ToSet(finished)
  /\ pending' = Append(pending, q)
  /\ UNCHANGED <<finished, code>>

\* The oldest session is answered with code c.
Finish(c) ==
  /\ pending # <<>>
  /\ finished' = Append(finished, Head(pending))
  /\ pending' = Tail(pending)
  /\ code' = [code EXCEPT ![Head(pending)] = c]

\* The connection goes away: everyone waiting is told so.
Abort ==
  /\ finished' = finished \o pending
  /\ pending' = <<>>
  /\ code' = [q \in Query |-> IF q \in ToSet(pending) THEN "closed" ELSE code[q]]

Next ==
  \/ \E q \in Query : Accept(q)
  \/ \E c \in Code : Finish(c)
  \/ Abort

Spec == Init /\ [][Next]_vars
============================================================================
