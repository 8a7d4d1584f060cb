---------------------------- MODULE StaggerRegion ----------------------------
(***************************************************************************)
(* stagger_region: worker processes load and compile in sets of at most    *)
(* Limit. Nothing counts the processes inside: the sets are kept apart by  *)
(* barriers of the whole group, which every process calls a number of      *)
(* times before the region's body and a number of times after it. Barriers *)
(* are anonymous: the n-th call of one process meets the n-th call of all  *)
(* others, whatever region either of them is in.                           *)
(*                                                                         *)
(* A process goes through one region after the other. The worker wraps     *)
(* warmup_context.__exit__ anew for each warmup shape, so that later       *)
(* regions are several regions nested in each other around one body.       *)
(***************************************************************************)
EXTENDS Integers, FiniteSets, Sequences

CONSTANTS
  Limit,      \* VLLM_SPYRE_MAX_LOAD_PROCESSES
  WorldSize,  \* parallel_config.world_size
  Depths      \* the regions in order: how many are nested in each of them

ASSUME StaggerAssumption ==
  /\ Limit \in Int
  /\ WorldSize \in Nat \ {0}
  /\ Depths \in Seq(Nat \ {0})

VARIABLES
  place,    \* where each rank is with regard to its next or current region
  returned, \* regions each rank has returned from
  base,     \* barriers each rank had passed when its last region returned
  arrived,  \* barriers each rank has called
  passed,   \* barriers that let each rank go on
  failed    \* ranks that stopped with an exception

vars == <<place, returned, base, arrived, passed, failed>>

Ranks == 0 .. WorldSize - 1

Staggered == 0 < Limit /\ Limit < WorldSize

\* range(math.ceil(world_size / limit)), empty if the region does nothing.
Rounds ==
  IF Staggered THEN 0 .. ((WorldSize + Limit - 1) \div Limit) - 1 ELSE {}

\* A bug: the first rank of a set goes with the set before it.
BugRoundsBefore(r) == {s \in Rounds : r > (s + 1) * Limit}

\* A bug: the ranks of a set do not wait for their own set on the way out.
BugRoundsAfter(r) == {s \in Rounds : r + Limit < (s + 1) * Limit}

\* Rounds of the loop before the yield that end in a barrier, ...
RoundsBefore(r) == {s \in Rounds : r >= (s + 1) * Limit}

\* ... and those of the loop after it.
RoundsAfter(r) == {s \in Rounds : r < (s + 1) * Limit}

Depth(r) == Depths[returned[r] + 1]

\* Barriers passed when the body of the rank's region starts, and when all of
\* the nested regions have returned.
BodyAt(r) == base[r] + Depth(r) * Cardinality(RoundsBefore(r))

ReturnAt(r) == BodyAt(r) + Depth(r) * Cardinality(RoundsAfter(r))

Init ==
  /\ place = [r \in Ranks |-> "outside"]
  /\ returned = [r \in Ranks |-> 0]
  /\ base = [r \in Ranks |-> 0]
  /\ arrived = [r \in Ranks |-> 0]
  /\ passed = [r \in Ranks |-> 0]
  /\ failed = {}

\* Types of all variables.
StaggerTypeOK ==
  /\ place \in [Ranks -> {"outside", "entering", "inside", "leaving"}]
  /\ returned \in [Ranks -> 0 .. Len(Depths)]
  /\ base \in [Ranks -> Nat]
  /\ arrived \in [Ranks -> Nat]
  /\ passed \in [Ranks -> Nat]
  /\ failed \in SUBSET Ranks
-----------------------------------------------------------------------------
Moves(r, from, to) ==
  /\ r \notin failed
  /\ place[r] = from
  /\ place' = [place EXCEPT ![r] = to]
  /\ UNCHANGED failed

\* torch.distributed.barrier(): the rank calls it, and waits in it.
Waiting(r) == passed[r] < arrived[r]

Arrive(r) ==
  /\ r \notin failed
  /\ ~Waiting(r)
  /\ \/ place[r] = "entering" /\ arrived[r] < BodyAt(r)
     \/ place[r] = "leaving" /\ arrived[r] < ReturnAt(r)
  /\ arrived' = [arrived EXCEPT ![r] = @ + 1]
  /\ UNCHANGED <<place, returned, base, passed, failed>>

\* The barrier is complete when every rank has called as many as this one.
Complete(r) == \A q \in Ranks : arrived[q] >= arrived[r]

Pass(r) ==
  /\ r \notin failed
  /\ Waiting(r)
  /\ Complete(r)
  /\ passed' = [passed EXCEPT ![r] = @ + 1]
  /\ UNCHANGED <<place, returned, base, arrived, failed>>

\* A bug: the process group is made without a timeout.
BugTimeout(r) == FALSE /\ UNCHANGED vars

\* A barrier raises an exception once it lasts as long as the timeout of the
\* process group (VLLM_SPYRE_GLOO_TIMEOUT_MINUTES).
Timeout(r) ==
  /\ r \notin failed
  /\ Waiting(r)
  /\ ~Complete(r)
  /\ failed' = failed \cup {r}
  /\ UNCHANGED <<place, returned, base, arrived, passed>>

Enter(r) ==
  /\ returned[r] < Len(Depths)
  /\ Moves(r, "outside", "entering")
  /\ UNCHANGED <<returned, base, arrived, passed>>

StartBody(r) ==
  /\ Moves(r, "entering", "inside")
  /\ passed[r] = BodyAt(r)
  /\ UNCHANGED <<returned, base, arrived, passed>>

EndBody(r) ==
  /\ Moves(r, "inside", "leaving")
  /\ UNCHANGED <<returned, base, arrived, passed>>

\* The body raises an exception: no `finally`, so the barriers after the yield
\* are not called.
FailBody(r) ==
  /\ r \notin failed
  /\ place[r] = "inside"
  /\ failed' = failed \cup {r}
  /\ UNCHANGED <<place, returned, base, arrived, passed>>

Return(r) ==
  /\ Moves(r, "leaving", "outside")
  /\ passed[r] = ReturnAt(r)
  /\ returned' = [returned EXCEPT ![r] = @ + 1]
  /\ base' = [base EXCEPT ![r] = passed[r]]
  /\ UNCHANGED <<arrived, passed>>

\* What a rank does of its own accord.
Proceed(r) ==
  Arrive(r) \/ Pass(r) \/ Enter(r) \/ StartBody(r) \/ EndBody(r) \/ Return(r)

Through(r) == place[r] = "outside" /\ returned[r] = Len(Depths)

\* Every process has started or has given up.
Settled ==
  /\ \A r \in Ranks : r \in failed \/ Through(r)
  /\ UNCHANGED vars

Next ==
  \/ \E r \in Ranks : Proceed(r) \/ FailBody(r) \/ Timeout(r)
  \/ Settled

Spec == Init /\ [][Next]_vars

(***************************************************************************)
(* Processes run, bodies come to an end, and a barrier that is never       *)
(* completed times out.                                                    *)
(***************************************************************************)
FairSpec ==
  Spec /\ \A r \in Ranks : WF_vars(Proceed(r)) /\ WF_vars(Timeout(r))
-----------------------------------------------------------------------------
Inside == {r \in Ranks : place[r] = "inside"}

\* "Limit the number of concurrent processes into this region of code", in
\* whatever regions they are, nested or not, and with failed processes around.
ConcurrencyLimit == Limit > 0 => Cardinality(Inside) <= Limit

Bodies(r) == IF place[r] = "leaving" THEN returned[r] + 1 ELSE returned[r]

\* "Processes return from this function when all of the processes have
\* completed the region of code": a rank that is back from its n-th region
\* knows that no rank still has to run the body of it.
AllCompleteBeforeReturn ==
  Staggered => \A r, q \in Ranks : returned[r] <= Bodies(q)

\* The ranks call equally many barriers: unless a process died, there is always
\* one that runs, or waits in a barrier that all of them have reached.
NoDeadlock ==
  failed = {} =>
    \/ \A r \in Ranks : Through(r)
    \/ \E r \in Ranks : IF Waiting(r) THEN Complete(r) ELSE ~Through(r)

\* A process that dies in a region takes the others down with it, but never
\* leaves them waiting for ever.
NobodyHangs == <>(\A r \in Ranks : r \in failed \/ Through(r))
=============================================================================
