------------------------------ MODULE MCCluster ------------------------------
(***************************************************************************)
(* Small clusters for Handoff.  Every scenario is a story of docs/         *)
(* membership.md or of the tests in internal/node, with the faults that    *)
(* bear on it.                                                             *)
(***************************************************************************)
EXTENDS HandoffInv, TLC

CONSTANTS a, b, c

MCRing == <<c, a, b>>

Of(S) == [n \in S |-> n]
V(e, S) == [epoch |-> e, members |-> Of(S)]

Three == {a, b, c}

Quiet == [n |-> 2, w |-> 2, config |-> [n \in Node |-> Of(Three \cup {n})],
          nodes |-> Three, started |-> Three, declared |-> {}, told |-> {a}, serial |-> TRUE,
          faults |-> {}, faulty |-> {}, pingers |-> {c}, slow |-> {},
          writes |-> 0, early |-> FALSE, maxCrash |-> 0, live |-> FALSE]

MCScenarios ==
  [leave |-> [Quiet EXCEPT !.n = 1, !.w = 1, !.declared = {V(1, {a, b})}, !.writes = 1,
                !.early = TRUE, !.faults = {"unreachable", "crash"}, !.faulty = {a},
                !.maxCrash = 1, !.live = TRUE],
   inflight |-> [Quiet EXCEPT !.declared = {V(1, {a, b})}, !.writes = 1],
   resume |-> [Quiet EXCEPT !.declared = {V(1, {a, b})}, !.writes = 1, !.early = TRUE,
                 !.faults = {"crash", "persist"}, !.faulty = {c}, !.maxCrash = 1],
   successive |-> [Quiet EXCEPT !.n = 1, !.w = 1, !.declared = {V(1, {a, b}), V(2, {b})},
                     !.writes = 1, !.early = TRUE, !.pingers = {a, c}],
   supersede |-> [Quiet EXCEPT !.w = 1, !.config = [n \in Node |-> Of({a, b, n})],
                    !.nodes = {a, c}, !.started = {a},
                    !.declared = {V(1, Three), V(2, {a, c})}, !.serial = FALSE,
                    !.pingers = {a}, !.writes = 1, !.early = TRUE,
                    !.faults = {"unreachable"}, !.faulty = {c}],
   conflict |-> [Quiet EXCEPT !.declared = {V(1, {a, b}), V(1, {b, c})},
                   !.told = {a, b}, !.serial = FALSE, !.pingers = {b},
                   !.faults = {"persist", "crash"}, !.faulty = {a}, !.maxCrash = 1],
   address |-> [Quiet EXCEPT !.config[a] = [Of(Three) EXCEPT ![b] = c, ![c] = b],
                   !.declared = {V(1, Three)}, !.told = {b}, !.pingers = {a, c}, !.slow = {<<a, b>>}]]
==============================================================================
