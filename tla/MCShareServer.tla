---------------------------- MODULE MCShareServer ----------------------------
(* Instances of ShareServer for TLC: one day is one unit of time.           *)
EXTENDS ShareServer, TLC

(* A request without the header, one below the window and one above it.     *)
AsksNoneZeroMany == {None, 0, 5}
AsksTwo == {2}
AsksOneTwo == {1, 2}
AsksOne == {1}

(* A server that finds a backlog: all shares but one were uploaded and have *)
(* expired, at the same time or one after the other, since a reaper last   *)
(* ran.  The last share, one that can be deleted, is still to come.        *)
Backlog ==
  LET new == CHOOSE id \in Id \ Stuck : TRUE IN
  /\ now = effective_max_expiry
  /\ used = Id \ {new} /\ blobs = used
  /\ \E due \in [used -> MIN_EXPIRY_SECS .. now], k \in Key :
       files = [id \in Id |->
         IF id = new THEN None
         ELSE [auth |-> k, downloads |-> 0, max_downloads |-> 1, expires_at |-> due[id]]]
  /\ promised = [id \in Id |-> IF id = new THEN 0 ELSE 1]
  /\ grants = [id \in Id |-> 0] /\ revoked = {}
  /\ at = [a \in Actor |-> "idle"] /\ on = [a \in Actor |-> None]
  /\ key = [r \in Req |-> None] /\ todo = [p \in Reaper |-> {}]

BacklogSpec == Backlog /\ [][Next]_vars /\ ReapFairness

SymmetryActors == Permutations(Req) \cup Permutations(Reaper)
=============================================================================
