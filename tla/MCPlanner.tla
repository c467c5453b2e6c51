------------------------------ MODULE MCPlanner ------------------------------
(***************************************************************************)
(* The operator on up to four pods, in the stories  of docs/operator.md    *)
(* and sim_test.go.                                                        *)
(***************************************************************************)
EXTENDS Planner

R(n, r) == [replicas |-> n, rev |-> r]

\* Growth, removal and both, with the spec changed at any moment; a template
\* changed along with the size; scaling by hand; and a cache that lags.
MCScenarios ==
  [up |-> [specs |-> <<R(1, 0), R(3, 0), R(2, 0)>>, faults |-> {"pod", "operator", "late"},
           maxFaults |-> 2, lag |-> "never"],
   down |-> [specs |-> <<R(4, 0), R(2, 0)>>, faults |-> {"pod", "operator", "late"},
             maxFaults |-> 2, lag |-> "never"],
   back |-> [specs |-> <<R(2, 0), R(3, 0), R(1, 0), R(2, 0)>>, faults |-> {"pod"},
             maxFaults |-> 1, lag |-> "never"],
   roll |-> [specs |-> <<R(2, 0), R(1, 1), R(3, 0)>>, faults |-> {"pod"},
             maxFaults |-> 1, lag |-> "never"],
   grown |-> [specs |-> <<R(3, 0), R(2, 0), R(3, 0)>>, faults |-> {"scaled up", "pod"},
              maxFaults |-> 2, lag |-> "never"],
   shrunk |-> [specs |-> <<R(3, 0), R(2, 0)>>, faults |-> {"scaled down", "pod"},
               maxFaults |-> 2, lag |-> "never"],
   lag |-> [specs |-> <<R(2, 0), R(1, 1), R(3, 1)>>, faults |-> {"pod", "operator"},
            maxFaults |-> 1, lag |-> "quiet"]]

\* A user who changes their mind while the cache lags.
FlipScenarios ==
  [flip |-> [specs |-> <<R(2, 0), R(3, 0), R(1, 0)>>, faults |-> {}, maxFaults |-> 0, lag |-> "any"]]
=============================================================================
