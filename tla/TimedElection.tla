--------------------------- MODULE TimedElection ---------------------------
(***************************************************************************)
(* The election of RaftRedis in seconds, while no command is appended: how  *)
(* long a node may go on believing in a leader it no longer hears.          *)
(*                                                                          *)
(* last_heartbeat is set by a claim and by a heartbeat that is followed.    *)
(* The loop looks at it between sleeps of a second, and not at all while it *)
(* posts to its peers one after the other.  metrics.py measures the load    *)
(* with a call that blocks the event loop for a second, which delays either.*)
(* Waits end at whole seconds; three seconds sharp may count as more.       *)
(***************************************************************************)
EXTENDS RaftRedis

CONSTANTS
  Timeout,  \* a leader not heard for longer is given up
  Period,   \* the sleep between two looks
  PostMax,  \* the longest a post takes
  Lag       \* the longest the event loop is blocked

ASSUME TimesAssumption ==
  /\ {Timeout, Period, PostMax, Lag} \subseteq Nat
  /\ Period > 0

VARIABLES
  age,   \* age[n]: seconds since last_heartbeat of n, if n has a leader
  spent  \* spent[n]: seconds its loop has been in its sleep or post

timedVars == <<vars, age, spent>>

Larger(i, j) == IF i > j THEN i ELSE j

TimedInit ==
  /\ Init
  /\ age = [n \in Nodes |-> 0]
  /\ spent = [n \in Nodes |-> Period]

\* The bound on terms keeps n from claiming: nothing is said about it.
Capped(n) == term[n] = MaxTerm

\* How long the loop may be where it is.  From the claim to the first post
\* nothing waits.
Deadline(n) ==
  IF beat[n] = "idle" THEN Period + Lag
  ELSE IF left[n] = Peers[n] THEN 0
  ELSE PostMax + Lag

\* Mutant: a post has no time limit.
TickPosts ==
  /\ \A n \in Nodes : Capped(n) \/ beat[n] = "post" \/ spent[n] < Deadline(n)
  /\ age' = [n \in Nodes |-> IF leader[n] = None \/ Capped(n) THEN 0 ELSE age[n] + 1]
  /\ spent' = [n \in Nodes |-> IF Capped(n) THEN 0 ELSE spent[n] + 1]
  /\ UNCHANGED vars

\* A second passes.
Tick ==
  /\ \A n \in Nodes : Capped(n) \/ spent[n] < Deadline(n)
  /\ age' = [n \in Nodes |-> IF leader[n] = None \/ Capped(n) THEN 0 ELSE age[n] + 1]
  /\ spent' = [n \in Nodes |-> IF Capped(n) THEN 0 ELSE spent[n] + 1]
  /\ UNCHANGED vars

Looks(n) == beat[n] = "idle" /\ spent[n] >= Period /\ spent' = [spent EXCEPT ![n] = 0]

\* No leader, or one not heard for three seconds.
LookAndClaim(n) ==
  /\ Looks(n) /\ (leader[n] = None \/ age[n] >= Timeout)
  /\ TimeoutClaim(n)
  /\ age' = [age EXCEPT ![n] = 0]

LookAndSleep(n) ==
  /\ Looks(n) /\ leader[n] # None /\ age[n] <= Timeout
  /\ UNCHANGED <<vars, age>>

\* One post ends, and the next one or the sleep begins.
NextWait(n) ==
  /\ PostHeartbeat(n) \/ EndPosts(n)
  /\ spent' = [spent EXCEPT ![n] = 0]
  /\ UNCHANGED age

Hear(m) ==
  /\ ReceiveHeartbeat(m)
  /\ age' = IF m.term >= term[m.to] THEN [age EXCEPT ![m.to] = 0] ELSE age
  /\ UNCHANGED spent

\* A new process looks at once.
TimedRestart(n) ==
  /\ Restart(n)
  /\ age' = [age EXCEPT ![n] = 0]
  /\ spent' = [spent EXCEPT ![n] = Period]

TimedNext ==
  \/ Tick
  \/ \E n \in Nodes :
       LookAndClaim(n) \/ LookAndSleep(n) \/ NextWait(n) \/ TimedRestart(n)
  \/ \E m \in net : Hear(m)

TimedSpec == TimedInit /\ [][TimedNext]_timedVars

-----------------------------------------------------------------------------

\* However late, stale or lost the heartbeats are, a node gives up a leader it
\* does not hear: after three seconds, or the time it takes to post to all its
\* peers, and one more look.
FailoverBound ==
  \A n \in Nodes :
    ~Capped(n) => age[n] <= Larger(Timeout, (PostMax + Lag) * Len(Peers[n]))
                              + Period + Lag

=============================================================================
