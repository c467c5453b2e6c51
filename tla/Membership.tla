----------------------------- MODULE Membership -----------------------------
(***************************************************************************)
(* Cluster membership (internal/node: membership.go, view.go,              *)
(* heartbeat.go, peers.go; internal/rpc/membership.go).  Each node holds a *)
(* view: an epoch and the members with their addresses.  An operator       *)
(* declares a newer view to some node; heartbeats announce it, and whoever *)
(* hears of a higher epoch fetches and adopts it.  A view is on disk       *)
(* before it is published.                                                 *)
(*                                                                         *)
(* Addresses are nodes: address d is where node d listens.  Every node has *)
(* the same N, so the fingerprint of a view is its members.  A ping        *)
(* request takes no time: one that did would announce an epoch its sender  *)
(* has by now replaced by a higher one.  Replies may take time.            *)
(***************************************************************************)
EXTENDS Naturals, FiniteSets

CONSTANTS Node,
          MaxMissed,  \* MaxMissedHeartbeats
          Scenarios   \* by name: what happens to the cluster, see Scenario

Members == UNION {[S -> Node] : S \in SUBSET Node}
View == [epoch : Nat, members : Members]
NoView == [epoch |-> 0, members |-> <<>>]

(***************************************************************************)
(* The surroundings of a behaviour, one record per story: N and W; each    *)
(* node's configured members; the nodes there are and those that run at    *)
(* the start; the views the operator declares, the nodes it tells, and     *)
(* whether each change waits for the one before (serial); what may fail,   *)
(* at which nodes, and how often one crashes; who sends heartbeats, and    *)
(* the pairs whose replies may be slow; how many writes clients make, and  *)
(* whether only before the first view (early); whether fairness is assumed *)
(* (live).  maxCrash and writes are bounds of the model.                   *)
(***************************************************************************)
Scenario == [n        : Nat \ {0},
             w        : Nat \ {0},
             config   : [Node -> Members],
             nodes    : SUBSET Node,
             started  : SUBSET Node,
             declared : SUBSET View,
             told     : SUBSET Node,
             serial   : BOOLEAN,
             faults   : SUBSET {"unreachable", "crash", "persist"},
             faulty   : SUBSET Node,
             pingers  : SUBSET Node,
             slow     : SUBSET (Node \X Node),
             writes   : Nat,
             early    : BOOLEAN,
             maxCrash : Nat,
             live     : BOOLEAN]

ASSUME MembershipAssumption ==
  /\ IsFiniteSet(Node) /\ MaxMissed \in Nat \ {0}
  /\ \A s \in DOMAIN Scenarios :
       /\ Scenarios[s].n \in 1..Cardinality(Node) /\ Scenarios[s].w \in 1..Scenarios[s].n
       /\ Scenarios[s].config \in [Node -> Members] /\ Scenarios[s].declared \subseteq View
       /\ Scenarios[s].started \cup Scenarios[s].faulty \cup Scenarios[s].pingers \subseteq Node
       /\ \A n \in Node : n \in DOMAIN Scenarios[s].config[n]

VARIABLES
  env,          \* the name of the scenario, chosen once
  up,           \* the nodes whose process runs
  view,         \* view[n]: n.membership
  file,         \* file[n]: n's MEMBERSHIP file, or NoView
  setting,      \* setting[n]: the setMembership that holds n.membershipMu
  adopt,        \* adopt[n]: the fetch-and-adopt that holds n.adopting
  health,       \* health[n][p]: n.health
  reply,        \* reply[n]: replies on their way to n
  crashes

viewVars == <<view, file, setting>>
pingVars == <<adopt, health, reply>>
memberVars == <<up, viewVars, pingVars, crashes>>

Now == Scenarios[env]
Fails(kind, n) == kind \in Now.faults /\ n \in Now.faulty

NoHealth == [epoch |-> 0, misses |-> 0]
NoPeers == [p \in {} |-> NoHealth]

NotSetting == [pc |-> "idle", view |-> NoView, by |-> "operator"]
NotAdopting == [pc |-> "idle", at |-> 0, info |-> NoView]

\* New: the persisted view, or the configured one at epoch 0.
Load(n) == IF file[n] # NoView THEN file[n] ELSE [epoch |-> 0, members |-> Now.config[n]]

MembershipInit ==
  /\ env \in DOMAIN Scenarios
  /\ up = Now.started
  /\ file = [n \in Node |-> NoView]
  /\ view = [n \in Node |-> Load(n)]
  /\ setting = [n \in Node |-> NotSetting]
  /\ adopt = [n \in Node |-> NotAdopting]
  /\ health = [n \in Node |-> NoPeers]
  /\ reply = [n \in Node |-> {}]
  /\ crashes = 0

IsMember(n, v) == n \in DOMAIN v.members

-----------------------------------------------------------------------------
validateMembers(members) ==
  /\ Cardinality(DOMAIN members) >= Now.n
  /\ \A p, q \in DOMAIN members : p # q => members[p] # members[q]

\* A mutation of IsNewer: the current epoch's members may be replaced.
NotOlder(n, v) == v.epoch >= view[n].epoch /\ v # view[n]

\* Otherwise it is stale, the same, or in conflict, and nothing changes.
IsNewer(n, v) == v.epoch > view[n].epoch

MaySet(n, v) == setting[n] = NotSetting /\ validateMembers(v.members) /\ IsNewer(n, v)

\* A mutation of SetMembership: nothing is written.
SetInMemory(n, v, by) ==
  /\ MaySet(n, v)
  /\ setting' = [setting EXCEPT ![n] = [pc |-> "publish", view |-> v, by |-> by]]
  /\ UNCHANGED file

\* setMembership takes membershipMu and writes the view, and is about to
\* publish it ...
SetMembership(n, v, by) ==
  /\ MaySet(n, v)
  /\ file' = [file EXCEPT ![n] = v]
  /\ setting' = [setting EXCEPT ![n] = [pc |-> "publish", view |-> v, by |-> by]]

\* ... or WriteFileAtomic fails, before its rename or after it.
SetFails(n, v) ==
  /\ MaySet(n, v) /\ Fails("persist", n)
  /\ UNCHANGED file \/ file' = [file EXCEPT ![n] = v]
  /\ UNCHANGED setting

\* handleSetMembership
Declare(n, v) ==
  /\ n \in up \cap Now.told /\ v \in Now.declared
  /\ SetMembership(n, v, "operator") \/ SetFails(n, v)
  /\ UNCHANGED <<up, view, pingVars, crashes>>

pruneHealth(h, v) == [p \in DOMAIN h \cap DOMAIN v.members |-> h[p]]

\* setMembership publishes the view and returns; so does the adoption that
\* called it.
Publish(n) ==
  /\ n \in up /\ setting[n].pc = "publish"
  /\ view' = [view EXCEPT ![n] = setting[n].view]
  /\ health' = [health EXCEPT ![n] = pruneHealth(@, setting[n].view)]
  /\ setting' = [setting EXCEPT ![n] = NotSetting]
  /\ adopt' = IF setting[n].by = "adopt" THEN [adopt EXCEPT ![n] = NotAdopting] ELSE adopt
  /\ UNCHANGED <<up, file, reply, crashes>>

-----------------------------------------------------------------------------
Health(h, p) == IF p \in DOMAIN h THEN h[p] ELSE NoHealth
WithHealth(h, p, r) == [q \in DOMAIN h \cup {p} |-> IF q = p THEN r ELSE h[q]]

\* The counter stops at MaxMissed: beyond it the peer is dead all the same.
recordHeartbeat(n, h, p, ok) ==
  IF ~IsMember(p, view[n]) THEN h
  ELSE LET old == Health(h, p)
           misses == CASE ok -> 0
                       [] old.misses = MaxMissed -> MaxMissed
                       [] OTHER -> old.misses + 1
       IN  WithHealth(h, p, [old EXCEPT !.misses = misses])

recordPeerEpoch(n, h, p, epoch) ==
  IF ~IsMember(p, view[n]) THEN h ELSE WithHealth(h, p, [Health(h, p) EXCEPT !.epoch = epoch])

isDead(n, p) == p \in DOMAIN health[n] /\ health[n][p].misses >= MaxMissed

\* adoptFrom: one at a time, others are dropped.
adoptFrom(a, n, epoch, address) ==
  IF epoch > view[n].epoch /\ a[n].pc = "idle"
  THEN [a EXCEPT ![n] = [pc |-> "fetch", at |-> address, info |-> NoView]] ELSE a

\* A call from n to address d can succeed; it can fail.
Reaches(n, d) == d \in up
Breaks(n, d) == d \notin up \/ Fails("unreachable", n) \/ Fails("unreachable", d)

\* HandlePing at d of a ping from n: n's view is fetched if it is newer.
HandlePing(d, n) == adoptFrom(adopt, d, view[n].epoch, n)

\* A mutation of PingReply: whoever answers at the address is the peer.
AnyReply(n, p, r, a) ==
  /\ health' = [health EXCEPT ![n] =
                  recordPeerEpoch(n, recordHeartbeat(n, @, p, TRUE), p, r.epoch)]
  /\ adopt' = adoptFrom(a, n, r.epoch, r.id)

\* What pingPeer does with an answer; a is adopt when it comes.
PingReply(n, p, r, a) ==
  /\ health' = [health EXCEPT ![n] =
                  IF r.id = p THEN recordPeerEpoch(n, recordHeartbeat(n, @, p, TRUE), p, r.epoch)
                  ELSE recordHeartbeat(n, @, p, FALSE)]
  /\ adopt' = IF r.id = p THEN adoptFrom(a, n, r.epoch, r.id) ELSE a

Failed(n, p) == health' = [health EXCEPT ![n] = recordHeartbeat(n, @, p, FALSE)]

\* Beside the ping of a round, pingBack has at most one to a peer out.  When
\* it begins one (on a ping from a member at its address, which the latest
\* ping did not reach) is left open: at any time.
PingsOut(n, p) == Cardinality({r \in reply[n] : r.peer = p})

\* heartbeatRound pings every member, at any time, and rounds do not overlap.
\* Two pings to a peer may so be out, and their answers change places.
Due(n, p) ==
  /\ n \in up \cap Now.pingers /\ IsMember(p, view[n]) /\ p # n
  /\ PingsOut(n, p) < 2

Ping(n, p) ==
  /\ Due(n, p)
  /\ LET d == view[n].members[p]
     IN  /\ Reaches(n, d)
         /\ PingReply(n, p, [id |-> d, epoch |-> view[d].epoch], HandlePing(d, n))
  /\ UNCHANGED <<up, viewVars, reply, crashes>>

PingFails(n, p) ==
  /\ Due(n, p) /\ Breaks(n, view[n].members[p])
  /\ Failed(n, p)
  /\ UNCHANGED <<up, viewVars, adopt, reply, crashes>>

\* The peer has answered, and the answer takes its time, or is lost.
PingSlowly(n, p) ==
  /\ Due(n, p) /\ <<n, p>> \in Now.slow
  /\ LET d == view[n].members[p]
     IN  /\ Reaches(n, d)
         /\ adopt' = HandlePing(d, n)
         /\ reply' = [reply EXCEPT ![n] = @ \cup {[peer |-> p, id |-> d, epoch |-> view[d].epoch]}]
  /\ UNCHANGED <<up, viewVars, health, crashes>>

PingAnswered(n) ==
  \E r \in reply[n] :
    /\ reply' = [reply EXCEPT ![n] = @ \ {r}]
    /\ \/ PingReply(n, r.peer, r, adopt)
       \/ Failed(n, r.peer) /\ UNCHANGED adopt
    /\ UNCHANGED <<up, viewVars, crashes>>

-----------------------------------------------------------------------------
\* A mutation of AdoptFails: n.adopting stays set.
AdoptStuck(n) ==
  /\ n \in up /\ adopt[n].pc = "fetch" /\ Breaks(n, adopt[n].at)
  /\ adopt' = [adopt EXCEPT ![n].pc = "stuck"]
  /\ UNCHANGED <<up, viewVars, health, reply, crashes>>

\* GetMembership, from the address that announced the epoch.
AdoptFetch(n) ==
  /\ n \in up /\ adopt[n].pc = "fetch" /\ Reaches(n, adopt[n].at)
  /\ adopt' = [adopt EXCEPT ![n].pc = "set", ![n].info = view[adopt[n].at]]
  /\ UNCHANGED <<up, viewVars, health, reply, crashes>>

AdoptFails(n) ==
  /\ n \in up /\ adopt[n].pc = "fetch" /\ Breaks(n, adopt[n].at)
  /\ adopt' = [adopt EXCEPT ![n] = NotAdopting]
  /\ UNCHANGED <<up, viewVars, health, reply, crashes>>

\* adoptFetched: setMembership, once membershipMu is free.
AdoptSet(n) ==
  /\ n \in up /\ adopt[n].pc = "set" /\ setting[n] = NotSetting
  /\ IF validateMembers(adopt[n].info.members) /\ IsNewer(n, adopt[n].info)
     THEN \/ /\ SetMembership(n, adopt[n].info, "adopt")
             /\ adopt' = [adopt EXCEPT ![n].pc = "wait"]
          \/ /\ SetFails(n, adopt[n].info)
             /\ adopt' = [adopt EXCEPT ![n] = NotAdopting]
     ELSE adopt' = [adopt EXCEPT ![n] = NotAdopting] /\ UNCHANGED <<setting, file>>
  /\ UNCHANGED <<up, view, health, reply, crashes>>

-----------------------------------------------------------------------------
\* The process ends, with everything that is not on disk.
Ends(n) ==
  /\ up' = up \ {n}
  /\ setting' = [setting EXCEPT ![n] = NotSetting]
  /\ adopt' = [adopt EXCEPT ![n] = NotAdopting]
  /\ health' = [health EXCEPT ![n] = NoPeers]
  /\ reply' = [reply EXCEPT ![n] = {}]
  /\ UNCHANGED <<view, file>>

NodeCrash(n) ==
  /\ n \in up /\ Fails("crash", n) /\ crashes < Now.maxCrash
  /\ Ends(n)
  /\ crashes' = crashes + 1

\* New, on the data dir of the earlier run, if there was one.
NodeStart(n) ==
  /\ n \in Now.nodes \ up
  /\ up' = up \cup {n}
  /\ view' = [view EXCEPT ![n] = Load(n)]
  /\ UNCHANGED <<file, setting, pingVars, crashes>>

-----------------------------------------------------------------------------
MembershipTypeOK ==
  /\ up \subseteq Node
  /\ \A n \in Node :
       /\ validateMembers(view[n].members)
       /\ file[n] = NoView \/ validateMembers(file[n].members)
       /\ DOMAIN health[n] \subseteq DOMAIN view[n].members \ {n}
       /\ adopt[n].pc = "wait" <=> setting[n].pc # "idle" /\ setting[n].by = "adopt"

(***************************************************************************)
(* A node's epoch never goes back, also over a crash, and the members of   *)
(* an epoch it holds never change: a restart loads what it had published   *)
(* or something newer, and of two views declared under one epoch none      *)
(* replaces the other.  (setMembership, New)                               *)
(***************************************************************************)
ViewsAdvance ==
  [][\A n \in Node : view'[n] # view[n] => view'[n].epoch > view[n].epoch]_view

\* What each node would come back with.
Kept == [n \in Node |-> Load(n)]

Register == INSTANCE ViewRegister WITH kept <- Kept, shown <- view

(***************************************************************************)
(* Membership implements ViewRegister: a node shows a view only from its   *)
(* disk, at once or after a restart, a failed write included that did      *)
(* replace the file, and records one only over a lower epoch.              *)
(* (setMembership, WriteFileAtomic, New)                                   *)
(***************************************************************************)
ViewsKept == Register!Spec

(***************************************************************************)
(* The epoch a node has recorded for a peer is one the peer holds on disk: *)
(* whoever waits for its peers to know a view (WaitDrained) can rely on it *)
(* after any of them crashes, and on slow replies and wrong addresses.     *)
(***************************************************************************)
SeenIsHeld ==
  \A n \in Node : \A p \in DOMAIN health[n] :
    health[n][p].epoch <= file[p].epoch
=============================================================================
