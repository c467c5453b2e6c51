----------------------------- MODULE HandoffInv -----------------------------
(***************************************************************************)
(* The inductive invariants behind the proofs about Membership and         *)
(* Handoff: what a node's view, its MEMBERSHIP file and the epochs others  *)
(* have recorded have to do with each other; and how much of what a node   *)
(* owes its current handoff has done.                                      *)
(***************************************************************************)
EXTENDS Handoff

AnyView == View \cup {NoView}

Setting == [pc : {"idle", "publish"}, view : AnyView, by : {"operator", "adopt"}]
Adopting == [pc : {"idle", "fetch", "set", "wait"}, at : Node \cup {0}, info : AnyView]
Reply == [peer : Node, id : Node, epoch : Nat]

MembershipTypes ==
  /\ env \in DOMAIN Scenarios /\ up \subseteq Node
  /\ view \in [Node -> View] /\ file \in [Node -> AnyView]
  /\ setting \in [Node -> Setting] /\ adopt \in [Node -> Adopting]
  /\ health = [n \in Node |-> health[n]] /\ reply \in [Node -> SUBSET Reply]

\* A restart finds what was published, or something newer.
OnDisk(n) ==
  /\ view[n].epoch <= file[n].epoch
  /\ Load(n) = view[n] \/ Load(n).epoch > view[n].epoch

AboutToPublish(n) ==
  setting[n].pc = "publish" =>
    n \in up /\ setting[n].view = file[n] /\ file[n].epoch > view[n].epoch

\* An epoch recorded for a peer, or on its way, is at most the one it holds.
GoodHealth(h) ==
  /\ DOMAIN h \subseteq Node /\ h \in [DOMAIN h -> [epoch : Nat, misses : Nat]]
  /\ \A p \in DOMAIN h : h[p].epoch <= view[p].epoch

EpochsSeen(n) == GoodHealth(health[n]) /\ \A r \in reply[n] : r.epoch <= view[r.id].epoch

\* TypeOK of the memberships, and that views, files and epochs seen agree.
IView ==
  /\ MembershipTypes
  /\ \A n \in Node : OnDisk(n) /\ AboutToPublish(n) /\ EpochsSeen(n)

-----------------------------------------------------------------------------
\* Nodes listen where every view says, and what they persist is persisted.
Reliable(s) ==
  /\ "persist" \notin Scenarios[s].faults
  /\ \A v \in Scenarios[s].declared : \A p \in DOMAIN v.members : v.members[p] = p
  /\ \A n \in Node : \A p \in DOMAIN Scenarios[s].config[n] : Scenarios[s].config[n][p] = p

Run == [from : View, to : View, pc : {"keys", "push", "finish"},
        items : SUBSET Write, todo : SUBSET Node]

HandoffTypes ==
  /\ data \in [Node -> SUBSET Write] /\ hints \in [Node -> [Node -> SUBSET Write]]
  /\ base \in [Node -> View] /\ handedOff \in [Node -> AnyView] /\ target \in [Node -> View]
  /\ runs \in [Node -> SUBSET Run]
  /\ owed \in [Node -> SUBSET (Write \X Node)]

Listens(v) == \A p \in DOMAIN v.members : v.members[p] = p

Addresses ==
  \A n \in Node :
    /\ Listens(view[n]) /\ Listens(file[n]) /\ Listens(adopt[n].info)
    /\ \A r \in runs[n] : Listens(r.to)

\* The base is what a restart would find, and behind the view.
BaseKept(n) ==
  /\ base[n].epoch <= view[n].epoch
  /\ base[n] = IF handedOff[n] # NoView THEN handedOff[n]
               ELSE [epoch |-> 0, members |-> Now.config[n]]

Current(n, r) == r \in runs[n] /\ r.to = target[n]

\* One run at most is not superseded, and it starts from the base.
OneRun(n) ==
  /\ target[n].epoch <= view[n].epoch
  /\ \A r \in runs[n] : r.to.epoch > 0 /\ r.to.epoch <= view[n].epoch
  /\ \A r \in runs[n] : Current(n, r) => r.from = base[n]
  /\ \A r, q \in runs[n] : Current(n, r) /\ Current(n, q) => r = q

Done(n, o) == o[1] \in data[o[2]] \cup hints[n][o[2]]

\* What is owed and not done is to a node that is no owner in the base, so
\* that the current run, which starts there, has it among its targets.
OwedIsLeft(n) ==
  /\ \A o \in owed[n] : o[1] \in data[n] /\ o[2] # n
  /\ \A o \in owed[n] : Done(n, o) \/ o[2] \notin Owners(base[n])

\* The current run has everything owed that is for one of its targets still
\* to push, or it is done.
RunCovers(n) ==
  \A r \in runs[n] :
    /\ r.todo \subseteq DOMAIN r.to.members
    /\ Current(n, r) /\ r.pc # "keys" =>
         \A o \in owed[n] : o[2] \in handoffTargets(n, r.from, r.to) =>
           Done(n, o) \/ (r.pc = "push" /\ o[1] \in r.items /\ o[2] \in r.todo)

NodeHandoff(n) == BaseKept(n) /\ OneRun(n) /\ OwedIsLeft(n) /\ RunCovers(n)

IHandoff == HandoffTypes /\ Addresses /\ \A n \in Node : NodeHandoff(n)

\* IHandoff in the scenarios it is claimed for.
IHandoffReliable == Reliable(env) => IHandoff

-----------------------------------------------------------------------------
\* Nobody who is out of a declared view is declared in again.
LeaversStayOut(s) ==
  \A v, u \in Scenarios[s].declared : \A n \in Node \ DOMAIN v.members :
    v.epoch > 0 /\ (u.epoch >= v.epoch => n \notin DOMAIN u.members)

\* A view beyond the configured ones is one the operator has declared.
IsDeclared(v) == v.epoch > 0 => v \in Now.declared

\* Nobody whom a stopped node counts as a peer is behind a view without it.
StoppedIsOut(n) ==
  n \in stopped =>
    /\ n \notin up
    /\ \E v \in Now.declared :
         /\ ~IsMember(n, v)
         /\ \A p \in DOMAIN view[n].members \ {n} : view[p].epoch >= v.epoch

IStopped ==
  /\ stopped \subseteq Node
  /\ \A n \in Node :
       /\ IsDeclared(view[n]) /\ IsDeclared(file[n]) /\ IsDeclared(adopt[n].info)
       /\ StoppedIsOut(n)
=============================================================================
