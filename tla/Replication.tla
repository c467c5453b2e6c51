----------------------------- MODULE Replication -----------------------------
(***************************************************************************)
(* Quorum coordination of one key (internal/node/coordinate.go) over the   *)
(* nodes' stores, with the RPC service that carries it (internal/rpc).     *)
(*                                                                         *)
(* A client reads the key or not, then Puts it once, through a replica or  *)
(* through a node that is none and forwards.  A coordination is one call   *)
(* of putAsReplica: co[c][n] is client c's write at replica n.  It reads,  *)
(* stores, fans out to every peer, decides on W acks or on too many        *)
(* failures, rolls back or not, and its drain turns Unavailable results    *)
(* into hints.                                                             *)
(*                                                                         *)
(* The values of versions are the clients, so a value names its write.     *)
(***************************************************************************)
EXTENDS HintStore, FiniteSets, Sequences

CONSTANTS Client,
          Pref,      \* the key's preference list
          Front,     \* nodes outside it
          W, R,      \* the quorums
          Scenarios  \* by name: what clients do and what may go wrong, see Scenario

(***************************************************************************)
(* unreachable: a call does not arrive, or heartbeats call the peer dead.  *)
(* lost: it is carried out, but answered with an error.  late: it times    *)
(* out and may still be carried out.  internal: the store refuses it.      *)
(* cancel: the caller gives up.  halt: the peer's engine halts.  refuse: a *)
(* replica's view says it is none.  failover: a forwarded write that was   *)
(* carried out is reported Unavailable.  hint: a hint cannot be stored.    *)
(* crash, close, replace: of nodes.                                        *)
(***************************************************************************)
AllFaults == {"unreachable", "lost", "late", "internal", "cancel", "halt", "refuse",
              "failover", "hint", "crash", "close", "replace"}

(***************************************************************************)
(* The surroundings of a behaviour: the nodes client c may call and        *)
(* whether it reads, puts, reads and puts ("readput") or does nothing; the *)
(* faults and the replicas at which they occur; the loops a node runs; and *)
(* bounds on crashes (stops and replacements included) and flushes.        *)
(***************************************************************************)
Scenario == [entry    : [Client -> SUBSET (Replica \cup Front)],
             mode     : [Client -> {"read", "put", "readput", "none"}],
             faults   : SUBSET AllFaults,
             faulty   : SUBSET Replica,
             loops    : [Replica -> SUBSET {"hints", "antientropy"}],
             maxCrash : Nat,
             maxFlush : Nat]

\* GetPreferenceList lists every replica once; nil is no node and no value.
ASSUME QuorumAssumption ==
  /\ Pref \in Seq(Replica) /\ Replica = {Pref[i] : i \in DOMAIN Pref}
  /\ \A i, j \in DOMAIN Pref : Pref[i] = Pref[j] => i = j
  /\ Front \cap Replica = {}
  /\ W \in 1..Len(Pref) /\ R \in 1..Len(Pref)
  /\ Client \subseteq Value /\ NoValue \notin Client \cup Replica
  /\ \A s \in DOMAIN Scenarios : Scenarios[s] \in Scenario

VARIABLES
  env,      \* the name of the scenario, chosen once
  up,       \* "up", "closing" (Close has begun) or "down"
  halted,   \* nodes whose engine has halted writes
  limbo,    \* limbo[n]: a write that halted n's engine and may be in its WAL
  cl,       \* the clients
  co,       \* the coordinations
  net,      \* calls that timed out and may still be carried out
  crashes, flushes,
  past,     \* past[c]: the writes client c's write was built on (history)
  undone    \* versions a rollback removed from a node (history)

coordVars == <<cl, co, net, past, undone>>
nodeVars == <<up, halted, limbo, crashes, flushes>>

Entry == Scenarios[env].entry
Mode == Scenarios[env].mode
Faults == Scenarios[env].faults
Faulty == Scenarios[env].faulty
MaxCrash == Scenarios[env].maxCrash
MaxFlush == Scenarios[env].maxFlush

Total == Len(Pref)
Peers(n) == Replica \ {n}
Alive(n) == up[n] # "down"
Serves(n) == n \in Replica => up[n] = "up"
Fails(p, kind) == kind \in Faults /\ p \in Faulty

NoVersion == [clock |-> ZeroClock, val |-> NoValue]
NoCoordination == [pc |-> "none", prev |-> {}, item |-> NoVersion, keep |-> FALSE,
                   ans |-> "none", res |-> [p \in Replica |-> "none"]]
NoCall == [pc |-> "idle", at |-> NoValue, merged |-> {}, resp |-> {}, failed |-> {},
           since |-> {}, ctx |-> NoContext, next |-> 1, on |-> NoValue, broken |-> {}]

ReplicationInit ==
  /\ env \in DOMAIN Scenarios
  /\ StoreInit /\ HintsInit
  /\ up = [n \in Replica |-> "up"]
  /\ halted = {}
  /\ limbo = [n \in Replica |-> {}]
  /\ cl = [c \in Client |-> NoCall]
  /\ co = [c \in Client |-> [n \in Replica |-> NoCoordination]]
  /\ net = {} /\ crashes = 0 /\ flushes = 0
  /\ past = [c \in Client |-> {}]
  /\ undone = {}

Acked == {c \in Client : cl[c].pc = "ok"}

-----------------------------------------------------------------------------
\* Get, on node n: the local read counts as one response.
GetBegin(c, n) ==
  /\ Mode[c] \in {"read", "readput"}
  /\ cl[c].pc = "idle" /\ n \in Entry[c] /\ Serves(n)
  /\ cl' = [cl EXCEPT ![c] =
       [NoCall EXCEPT !.at = n, !.since = Acked,
                      !.pc = IF n \in Replica /\ R = 1 THEN "got" ELSE "getting",
                      !.merged = IF n \in Replica THEN Get(n) ELSE {},
                      !.resp = {n} \cap Replica]]
  /\ UNCHANGED <<storeVars, hints, co, net, past, undone, nodeVars>>

\* A mutation of GetResponse: the last answer replaces the others.
GetLatest(c, p) ==
  /\ cl[c].pc = "getting" /\ p \in Replica \ (cl[c].resp \cup cl[c].failed) /\ Serves(p)
  /\ cl' = [cl EXCEPT ![c].merged = Get(p),
                      ![c].resp = @ \cup {p},
                      ![c].pc = IF Cardinality(cl[c].resp) + 1 >= R THEN "got" ELSE @]
  /\ UNCHANGED <<storeVars, hints, co, net, past, undone, nodeVars>>

\* A peer answers FetchItem: its versions are merged in, up to R answers.
GetResponse(c, p) ==
  /\ cl[c].pc = "getting" /\ p \in Replica \ (cl[c].resp \cup cl[c].failed) /\ Serves(p)
  /\ cl' = [cl EXCEPT ![c].merged = MergeSiblings(@, Get(p)),
                      ![c].resp = @ \cup {p},
                      ![c].pc = IF Cardinality(cl[c].resp) + 1 >= R THEN "got" ELSE @]
  /\ UNCHANGED <<storeVars, hints, co, net, past, undone, nodeVars>>

\* A fetch fails, or the peer is marked dead; R may be out of reach now.
GetFailure(c, p) ==
  /\ cl[c].pc = "getting" /\ p \in Replica \ (cl[c].resp \cup cl[c].failed)
  /\ Fails(p, "unreachable") \/ ~Serves(p)
  /\ cl' = [cl EXCEPT ![c].failed = @ \cup {p},
                      ![c].pc = IF Total - Cardinality(cl[c].failed) - 1 < R THEN "failed" ELSE @]
  /\ UNCHANGED <<storeVars, hints, co, net, past, undone, nodeVars>>

-----------------------------------------------------------------------------
(***************************************************************************)
(* putAsReplica, step by step.  First Store.Get: prev is what a rollback   *)
(* will restore.  Another write may come before the Put.                   *)
(***************************************************************************)
Reading(c, n) == [co EXCEPT ![c][n] = [NoCoordination EXCEPT !.pc = "read", !.prev = Get(n)]]

\* Put: a replica coordinates the write itself; another node forwards it.
\* A client that has read sends the context it was given.
PutBegin(c, n) ==
  /\ \/ cl[c].pc = "idle" /\ Mode[c] = "put"
     \/ cl[c].pc = "got" /\ Mode[c] = "readput"
  /\ n \in Entry[c] /\ Serves(n)
  /\ cl' = [cl EXCEPT ![c].pc = "put", ![c].at = n,
                      ![c].ctx = IF cl[c].pc = "got" THEN UnionVectorClock(cl[c].merged) ELSE @,
                      ![c].on = IF n \in Replica THEN n ELSE @]
  /\ co' = IF n \in Replica THEN Reading(c, n) ELSE co
  /\ UNCHANGED <<storeVars, hints, net, past, undone, nodeVars>>

\* The return of putAsReplica ends the call of a client of n.
Return(c, n, ok) ==
  cl' = IF cl[c].pc = "put" /\ cl[c].at = n
        THEN [cl EXCEPT ![c].pc = IF ok THEN "ok" ELSE "failed"] ELSE cl

\* A mutation of Count: a replica that is owed a hint counts (sloppy quorum).
CountSloppy(res, kinds) == Cardinality({p \in Replica : res[p] \in kinds \cup {"unavailable"}})

Count(res, kinds) == Cardinality({p \in Replica : res[p] \in kinds})
Straggling(rec) == {p \in Replica : rec.res[p] \in {"sent", "applied"}}

(***************************************************************************)
(* decided(keep): the stragglers are left to the drain.  Once Close has    *)
(* begun there is none: they are canceled, though they may still arrive,   *)
(* and no hint is stored.                                                  *)
(***************************************************************************)
Abandon(rec) ==
  [rec EXCEPT !.keep = FALSE,
              !.res = [p \in Replica |-> IF p \in Straggling(rec) THEN "error" ELSE rec.res[p]]]
\* A mutation of Decided: hints are stored whatever was decided.
DecidedKeep(rec, keep, n) == [rec EXCEPT !.keep = TRUE]

Decided(rec, keep, n) ==
  IF up[n] = "closing" THEN Abandon(rec) ELSE [rec EXCEPT !.keep = keep]
InFlight(rec) == {[to |-> p, item |-> rec.item] : p \in {q \in Replica : rec.res[q] = "sent"}}

\* One more result, or the start of the fan-out: is the write decided?
Decide(c, n, rec, late) ==
  LET successes == 1 + Count(rec.res, {"ok"})
      failures  == Count(rec.res, {"unavailable", "error"})
      reached   == successes >= W
      missed    == /\ ~reached /\ Total - failures < W
                   /\ Straggling(rec) # Peers(n) \/ Peers(n) = {}
      next      == CASE reached -> [Decided(rec, TRUE, n) EXCEPT !.pc = "done", !.ans = "ok"]
                     [] missed  -> [Decided(rec, FALSE, n) EXCEPT !.pc = "rollback"]
                     [] OTHER   -> rec
  IN  /\ co' = [co EXCEPT ![c][n] = next]
      /\ net' = net \cup late \cup IF next.pc # "fan" /\ up[n] = "closing" THEN InFlight(rec) ELSE {}
      /\ IF reached THEN Return(c, n, TRUE) ELSE UNCHANGED cl

\* A new version is built on what its context has seen: the client's read,
\* or what the store holds.
Built(c, n) ==
  LET seen == {x.val : x \in IF cl[c].ctx = NoContext THEN Get(n) ELSE cl[c].merged}
  IN  [past EXCEPT ![c] = @ \cup seen \cup UNION {past[d] : d \in seen}]

\* Store.Put and the start of the fan-out.
PutStore(c, n) ==
  LET item == NewVersion(n, cl[c].ctx, c)
  IN  /\ co[c][n].pc = "read" /\ Alive(n) /\ n \notin halted
      /\ Put(n, cl[c].ctx, c)
      /\ Decide(c, n, [co[c][n] EXCEPT !.pc = "fan", !.item = item,
                         !.res = [p \in Replica |-> IF p = n THEN "none" ELSE "sent"]], {})
      /\ past' = Built(c, n)
      /\ UNCHANGED <<flushed, inc, hints, undone, nodeVars>>

\* Store.Get or Store.Put fails: nothing was written, nothing is sent.
PutFails(c, n) ==
  /\ co[c][n].pc = "read" /\ Alive(n)
  /\ n \in halted \/ Fails(n, "internal")
  /\ co' = [co EXCEPT ![c][n].pc = "done", ![c][n].ans = "storage"]
  /\ Return(c, n, FALSE)
  /\ UNCHANGED <<storeVars, hints, net, past, undone, nodeVars>>

\* The write is the one at which the engine halts: it may be in the WAL.
PutHalts(c, n) ==
  /\ co[c][n].pc = "read" /\ Alive(n) /\ n \notin halted /\ Fails(n, "halt")
  /\ halted' = halted \cup {n}
  /\ limbo' = [limbo EXCEPT ![n] = {NewVersion(n, cl[c].ctx, c)}]
  /\ past' = Built(c, n)
  /\ co' = [co EXCEPT ![c][n].pc = "done", ![c][n].ans = "storage"]
  /\ Return(c, n, FALSE)
  /\ UNCHANGED <<storeVars, hints, net, undone, up, crashes, flushes>>

\* A replica call's result reaches the coordinator's loop, or its drain;
\* late is the call itself when it is still on its way.
Result(c, n, p, r, late) ==
  LET rec == [co[c][n] EXCEPT !.res[p] = r]
  IN  /\ Alive(n)
      /\ IF rec.pc = "fan" THEN Decide(c, n, rec, late)
         ELSE co' = [co EXCEPT ![c][n] = rec] /\ net' = net \cup late /\ UNCHANGED cl

\* Server.Replicate at peer p.
Replicate(c, n, p) ==
  /\ co[c][n].res[p] = "sent" /\ Serves(p) /\ p \notin halted
  /\ MergeReplicated(p, co[c][n].item)
  /\ co' = [co EXCEPT ![c][n].res[p] = "applied"]
  /\ UNCHANGED <<flushed, inc, hints, cl, net, past, undone, nodeVars>>

Accepted(c, n, p) ==
  /\ co[c][n].res[p] = "applied"
  /\ Result(c, n, p, "ok", {})
  /\ UNCHANGED <<storeVars, hints, past, undone, nodeVars>>

\* The call never arrives, or the peer is dead or halted: Unavailable.
Unavailable(c, n, p) ==
  /\ co[c][n].res[p] = "sent"
  /\ Fails(p, "unreachable") \/ ~Serves(p) \/ p \in halted
  /\ Result(c, n, p, "unavailable", {})
  /\ UNCHANGED <<storeVars, hints, past, undone, nodeVars>>

\* The peer's engine halts at this write: Unavailable, and perhaps durable.
ReplicateHalts(c, n, p) ==
  /\ co[c][n].res[p] = "sent" /\ Serves(p) /\ p \notin halted /\ Fails(p, "halt")
  /\ halted' = halted \cup {p}
  /\ limbo' = [limbo EXCEPT ![p] = {co[c][n].item}]
  /\ Result(c, n, p, "unavailable", {})
  /\ UNCHANGED <<storeVars, hints, past, undone, up, crashes, flushes>>

\* The peer's store fails, and the answer is Internal.
Refused(c, n, p) ==
  /\ co[c][n].res[p] = "sent" /\ Serves(p) /\ Fails(p, "internal")
  /\ Result(c, n, p, "error", {})
  /\ UNCHANGED <<storeVars, hints, past, undone, nodeVars>>

\* It is carried out, but its answer is lost, or comes after the timeout.
Lost(c, n, p, r) ==
  /\ co[c][n].res[p] = "applied"
  /\ Fails(p, "lost") \/ ~Serves(p)
  /\ Result(c, n, p, r, {})
  /\ UNCHANGED <<storeVars, hints, past, undone, nodeVars>>

\* ReplicationTimeout passes with the call on its way; it may still arrive.
Timeout(c, n, p) ==
  /\ co[c][n].res[p] = "sent" /\ Fails(p, "late")
  /\ Result(c, n, p, "error", {[to |-> p, item |-> co[c][n].item]})
  /\ UNCHANGED <<storeVars, hints, past, undone, nodeVars>>

Arrives(m) ==
  /\ m \in net /\ Serves(m.to) /\ m.to \notin halted
  /\ MergeReplicated(m.to, m.item)
  /\ net' = net \ {m}
  /\ UNCHANGED <<flushed, inc, hints, cl, co, past, undone, nodeVars>>

\* ctx.Done: the caller has given up, and the local write stands.
Cancel(c, n) ==
  /\ co[c][n].pc = "fan" /\ Alive(n) /\ "cancel" \in Faults
  /\ co' = [co EXCEPT ![c][n] =
              [Decided(co[c][n], TRUE, n) EXCEPT !.pc = "done", !.ans = "canceled"]]
  /\ net' = net \cup IF up[n] = "closing" THEN InFlight(co[c][n]) ELSE {}
  /\ Return(c, n, FALSE)
  /\ UNCHANGED <<storeVars, hints, past, undone, nodeVars>>

Written == {co[c][n].item : c \in Client, n \in Replica} \ {NoVersion}

\* rollbackLocalWrite's RestoreVersions, which a halted engine refuses.
Rollback(c, n) ==
  /\ co[c][n].pc = "rollback" /\ Alive(n)
  /\ IF n \in halted THEN UNCHANGED active ELSE RestoreVersions(n, co[c][n].prev)
  /\ UNCHANGED <<flushed, inc>>
  /\ undone' = undone \cup
       {<<n, x>> : x \in {y \in Written : Covers(Get(n), y) /\ ~Covers(Get(n)', y)}}
  /\ co' = [co EXCEPT ![c][n].pc = "done", ![c][n].ans = "quorum"]
  /\ Return(c, n, FALSE)
  /\ UNCHANGED <<hints, net, past, nodeVars>>

\* drainReplication: with every result in, a hint for each Unavailable peer.
Draining(c, n) ==
  co[c][n].pc \in {"rollback", "done"} /\
    (Straggling(co[c][n]) # {} \/ (co[c][n].keep /\ Count(co[c][n].res, {"unavailable"}) > 0))

StoreHint(c, n, p) ==
  /\ co[c][n].pc = "done" /\ co[c][n].keep /\ Alive(n)
  /\ Straggling(co[c][n]) = {} /\ co[c][n].res[p] = "unavailable"
  /\ \/ Add(n, p, co[c][n].item) /\ co' = [co EXCEPT ![c][n].res[p] = "hinted"]
     \/ Fails(n, "hint") /\ co' = [co EXCEPT ![c][n].res[p] = "error"] /\ UNCHANGED hints
  /\ UNCHANGED <<storeVars, cl, net, past, undone, nodeVars>>

-----------------------------------------------------------------------------
(***************************************************************************)
(* forwardPut, on a node outside the preference list: the replicas in      *)
(* order.  The next one is tried when this one is dead, cannot be reached, *)
(* or refuses because its view says it is no replica (ErrNotReplica).      *)
(***************************************************************************)
Forwarding(c) == cl[c].pc = "put" /\ cl[c].at \in Front

Tried(c) ==
  [cl[c] EXCEPT !.on = NoValue, !.next = @ + 1,
                !.pc = IF cl[c].next = Total THEN "failed" ELSE @]

TryNext(c) == cl' = [cl EXCEPT ![c] = Tried(c)]

ForwardSkip(c) ==
  /\ Forwarding(c) /\ cl[c].on = NoValue
  /\ LET r == Pref[cl[c].next] IN Fails(r, "unreachable") \/ Fails(r, "refuse") \/ ~Serves(r)
  /\ TryNext(c)
  /\ UNCHANGED <<storeVars, hints, co, net, past, undone, nodeVars>>

ForwardSend(c) ==
  /\ Forwarding(c) /\ cl[c].on = NoValue /\ Serves(Pref[cl[c].next])
  /\ cl' = [cl EXCEPT ![c].on = Pref[cl[c].next]]
  /\ co' = Reading(c, Pref[cl[c].next])
  /\ UNCHANGED <<storeVars, hints, net, past, undone, nodeVars>>

\* A mutation of ForwardReturn: any failure is tried on the next replica.
ForwardRetry(c) ==
  /\ Forwarding(c) /\ cl[c].on # NoValue /\ co[c][cl[c].on].ans # "none"
  /\ IF co[c][cl[c].on].ans = "ok" THEN cl' = [cl EXCEPT ![c].pc = "ok"] ELSE TryNext(c)
  /\ UNCHANGED <<storeVars, hints, co, net, past, undone, nodeVars>>

\* Any answer but Unavailable is passed on; so is the caller's timeout.
ForwardReturn(c) ==
  /\ Forwarding(c) /\ cl[c].on # NoValue
  /\ LET ans == co[c][cl[c].on].ans
     IN  \/ ans \notin {"none", "crashed"}
            /\ cl' = [cl EXCEPT ![c].pc = IF ans = "ok" THEN "ok" ELSE "failed"]
         \/ "cancel" \in Faults /\ cl' = [cl EXCEPT ![c].pc = "failed"]
  /\ UNCHANGED <<storeVars, hints, co, net, past, undone, nodeVars>>

\* gRPC reports Unavailable although the replica has the write: its
\* connection broke, because it crashed or for another reason.
ForwardLost(c) ==
  /\ Forwarding(c) /\ cl[c].on # NoValue
  /\ co[c][cl[c].on].ans = "crashed" \/ Fails(cl[c].on, "failover")
  /\ cl' = [cl EXCEPT ![c] = [Tried(c) EXCEPT !.broken = @ \cup {cl[c].on}]]
  /\ UNCHANGED <<storeVars, hints, co, net, past, undone, nodeVars>>

-----------------------------------------------------------------------------
(***************************************************************************)
(* Nodes.  Stopped is what ends with the process: its coordinations, with  *)
(* their drains, and the calls its clients had made to it.  Calls already  *)
(* sent may still arrive.                                                  *)
(***************************************************************************)
Stopped(n) ==
  /\ up' = [up EXCEPT ![n] = "down"]
  /\ LET ended(rec) == [Abandon(rec) EXCEPT !.pc = "done",
                                            !.ans = IF rec.ans = "none" THEN "crashed" ELSE rec.ans]
     IN  co' = [c \in Client |-> [co[c] EXCEPT ![n] =
                  IF co[c][n].pc = "none" THEN co[c][n] ELSE ended(co[c][n])]]
  /\ net' = net \cup UNION {InFlight(co[c][n]) : c \in Client}
  /\ cl' = [c \in Client |->
              IF cl[c].at = n /\ cl[c].pc \in {"getting", "put"}
              THEN [cl[c] EXCEPT !.pc = "failed"] ELSE cl[c]]
  /\ crashes' = crashes + 1
  /\ UNCHANGED <<storeVars, hints, past, undone, halted, limbo, flushes>>

\* Close: no drain starts any more, and those running are waited for.  The
\* listener has been stopped before it.
CloseBegin(n) ==
  /\ up[n] = "up" /\ Fails(n, "close") /\ crashes < MaxCrash
  /\ up' = [up EXCEPT ![n] = "closing"]
  /\ UNCHANGED <<storeVars, hints, coordVars, halted, limbo, crashes, flushes>>

\* New, on the same data dir: the engine replays its log, and with it,
\* perhaps, the write at which it halted.
Restart(n) ==
  /\ up[n] = "down"
  /\ up' = [up EXCEPT ![n] = "up"]
  /\ halted' = halted \ {n}
  /\ limbo' = [limbo EXCEPT ![n] = {}]
  /\ \/ SameDataDir(n)
     \/ \E item \in limbo[n] : PersisterPut(n, item) /\ UNCHANGED <<flushed, inc>>
  /\ UNCHANGED <<hints, coordVars, crashes, flushes>>

\* New, on an empty data dir: a replacement under the same node id.
Replace(n) ==
  /\ up[n] = "down" /\ Fails(n, "replace") /\ inc[n] < MaxIncarnation
  /\ NewDataDir(n)
  /\ hints' = [hints EXCEPT ![n] = [t \in Replica |-> {}]]
  /\ up' = [up EXCEPT ![n] = "up"]
  /\ halted' = halted \ {n}
  /\ limbo' = [limbo EXCEPT ![n] = {}]
  /\ UNCHANGED <<coordVars, crashes, flushes>>

FlushStore(n) ==
  /\ Alive(n) /\ n \notin halted /\ flushes < MaxFlush /\ active[n] # {}
  /\ Flush(n)
  /\ flushes' = flushes + 1
  /\ UNCHANGED <<hints, coordVars, up, halted, limbo, crashes>>
=============================================================================
