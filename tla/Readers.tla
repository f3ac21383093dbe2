------------------------------ MODULE Readers ------------------------------
(***************************************************************************)
(* Several threads that call lookup at the same time, as                   *)
(* concurrentLookupTest of main.cpp does after its insertions: the last    *)
(* merge may still run, and lookup tests and joins mergeThread without a   *)
(* lock.  What lookup answers is not modelled here; no thread writes.      *)
(***************************************************************************)
EXTENDS Integers, Sequences

CONSTANTS
  Rounds,        \* how many threads look up in each round of the test
  MaxLookups     \* num_lookups, of each thread

VARIABLES
  mergeThread,   \* "running" or "ended"; "joined" when it is no longer joinable
  round,         \* the round the test is in
  rpc,           \* where each thread of the round is
  left           \* the lookups it has still to do

vars == <<mergeThread, round, rpc, left>>

Threads == 1..Rounds[round]

Done(t) == rpc[t] = "ready" /\ left[t] = 0

\* Thread t goes on to another place in lookup.
Go(t, place) == rpc' = [rpc EXCEPT ![t] = place]

\* Thread t returns from lookup.
Return(t) == Go(t, "ready") /\ left' = [left EXCEPT ![t] = @ - 1]

----------------------------------------------------------------------------
Init ==
  /\ mergeThread \in {"running", "ended"}
  /\ round = 1
  /\ rpc = [t \in 1..Rounds[1] |-> "ready"]
  /\ left = [t \in 1..Rounds[1] |-> MaxLookups]

\* merge_runs returns.
MergeEnds ==
  /\ mergeThread = "running"
  /\ mergeThread' = "ended"
  /\ UNCHANGED <<round, rpc, left>>

\* The test has joined all threads of a round and starts those of the next one.
NextRound ==
  /\ round < Len(Rounds) /\ \A t \in Threads : Done(t)
  /\ round' = round + 1
  /\ rpc' = [t \in 1..Rounds[round'] |-> "ready"]
  /\ left' = [t \in 1..Rounds[round'] |-> MaxLookups]
  /\ UNCHANGED mergeThread

\* A lookup that finds its key in the buffer.
LookupBuffer(t) ==
  /\ rpc[t] = "ready" /\ left[t] > 0
  /\ Return(t)
  /\ UNCHANGED <<mergeThread, round>>

\* A lookup that does not, up to the test whether the merge thread is joinable.
LookupMiss(t) ==
  /\ rpc[t] = "ready" /\ left[t] > 0
  /\ Go(t, "joinable")
  /\ UNCHANGED <<mergeThread, round, left>>

Joinable(t) ==
  /\ rpc[t] = "joinable"
  /\ Go(t, IF mergeThread = "joined" THEN "disk" ELSE "join")
  /\ UNCHANGED <<mergeThread, round, left>>

\* join throws for a thread that is not joinable any more; that another thread is
\* in join for it is undefined, and the C library reports it as an error too.
Join(t) ==
  /\ rpc[t] = "join"
  /\ Go(t, IF mergeThread = "joined" \/ \E u \in Threads : rpc[u] = "joining"
           THEN "failed" ELSE "joining")
  /\ UNCHANGED <<mergeThread, round, left>>

Joined(t) ==
  /\ rpc[t] = "joining" /\ mergeThread = "ended"
  /\ mergeThread' = "joined"
  /\ Go(t, "disk")
  /\ UNCHANGED <<round, left>>

\* The search of the disk levels.
LookupDisk(t) ==
  /\ rpc[t] = "disk"
  /\ Return(t)
  /\ UNCHANGED <<mergeThread, round>>

\* The last round is over.
TestEnds == round = Len(Rounds) /\ (\A t \in Threads : Done(t)) /\ UNCHANGED vars

Next ==
  \/ MergeEnds \/ NextRound \/ TestEnds
  \/ \E t \in Threads : \/ LookupBuffer(t) \/ LookupMiss(t) \/ Joinable(t) \/ Join(t)
                        \/ Joined(t) \/ LookupDisk(t)

Spec == Init /\ [][Next]_vars

----------------------------------------------------------------------------
(* Properties *)

\* Lookups in several threads all come through: the merge thread is waited for by
\* one of them, and none calls join on a thread that another one joins or has joined.
LookupsComeThrough == \A t \in Threads : rpc[t] # "failed"
=============================================================================
