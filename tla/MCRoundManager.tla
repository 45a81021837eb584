--------------------------- MODULE MCRoundManager ---------------------------
(***************************************************************************)
(* Three validators with voting power 2, 1 and 1: a quorum is 3, so n2 or  *)
(* n3 may be missing, and n1 alone is f + 1.                               *)
(***************************************************************************)
EXTENDS RoundManager

CONSTANTS n1, n2, n3

MCPower ==
    [S \in SUBSET Validators |->
        (IF n1 \in S THEN 2 ELSE 0) + (IF n2 \in S THEN 1 ELSE 0) + (IF n3 \in S THEN 1 ELSE 0)]

MCLeader(r) == IF r % 3 = 1 THEN n2 ELSE IF r % 3 = 2 THEN n3 ELSE n1

Scenario(running, unreliable, recovered, max_round, last_timeout, max_faults, max_pressure) ==
    [running |-> running, unreliable |-> unreliable, recovered |-> recovered,
     max_round |-> max_round, last_timeout |-> last_timeout,
     max_faults |-> max_faults, max_pressure |-> max_pressure]

\* The first start of the epoch.
Genesis == [n \in Validators |-> [hqc |-> 0, htc |-> NoTc, vote |-> NoVote]]

\* All nodes restart in round 2.  In round 1 n1 and n2 voted for the block of n2
\* and n3 for a NIL block.  n2 received the timeouts of n1 and n2, which are a
\* quorum for the block; n1 and n3 those of n1 and n3, which are a quorum of
\* timeouts only.
Diverged ==
    [n \in Validators |->
        LET block == [round |-> 1, nil |-> n = n3, parent |-> 0, gen |-> 0]
            vote == [author |-> n, digest |-> block, hqc |-> NoTimeout]
        IN  IF n = n2
            THEN [hqc |-> 1, htc |-> NoTc, vote |-> vote]
            ELSE [hqc |-> 0, htc |-> [round |-> 1, hqc |-> 0], vote |-> vote]]

\* All three with timers and no fault, from the first start; with a fault and no
\* timers, from the first start and after a split round; then n1 with n3 or n2
\* after a split round, and two rounds of n1 and n2, with faults and timers.
\* Where the timers of one more round fire than nodes leave, the rounds end.
MCScenarios ==
    {Scenario({n1, n2, n3}, {}, Genesis, 1, 2, 0, 0),
     Scenario({n1, n2, n3}, {n1}, Genesis, 2, 0, 1, 0),
     Scenario({n1, n2, n3}, {n1}, Diverged, 2, 1, 1, 0),
     Scenario({n1, n3}, {n1}, Diverged, 2, 2, 1, 0),
     Scenario({n1, n2}, {n2}, Diverged, 2, 3, 1, 0),
     Scenario({n1, n2}, {n1}, Genesis, 2, 3, 1, 1)}

=============================================================================
