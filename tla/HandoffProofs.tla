---------------------------- MODULE HandoffProofs ----------------------------
(***************************************************************************)
(* Proofs about Membership and Handoff, for any nodes and any scenarios:   *)
(* IView and IHandoff are inductive, and what follows from them.           *)
(***************************************************************************)
EXTENDS HandoffInv, TLAPS

USE Zenon

\* What MembershipAssumption says of the scenario of a behaviour.
LEMMA ScenarioFacts ==
  ASSUME env \in DOMAIN Scenarios
  PROVE  Now.config \in [Node -> Members] /\ Now.declared \subseteq View
BY MembershipAssumption DEF Now

\* The facts about views that the proofs use, in place of their records.
LEMMA ViewFacts ==
  /\ \A v \in View : v.epoch \in Nat /\ v.members \in Members
  /\ \A v \in AnyView : v.epoch \in Nat
  /\ \A v \in AnyView : v # NoView => v \in View
  /\ NoView.epoch = 0 /\ NoView \in AnyView
  /\ View \subseteq AnyView
BY SMT DEF View, AnyView, NoView

\* The facts about the order of epochs that the proofs use.
LEMMA EpochOrder ==
  /\ \A a \in Nat : a <= a /\ ~(a < a)
  /\ \A a, b \in Nat : a > b => a > 0 /\ a >= b
BY SMT

LEMMA MembersFacts ==
  ASSUME NEW m \in Members, NEW p \in DOMAIN m
  PROVE  p \in Node /\ m[p] \in Node
BY DEF Members

LEMMA IdleFacts == NotSetting \in Setting /\ NotAdopting \in Adopting
BY ViewFacts DEF NotSetting, NotAdopting, Setting, Adopting

\* New finds a view, on disk or in the configuration.
LEMMA LoadIsView ==
  ASSUME MembershipTypes, NEW n \in Node
  PROVE  /\ Load(n) \in View
         /\ file[n].epoch > 0 => Load(n) = file[n]
         /\ file[n].epoch = 0 => Load(n).epoch = 0
<1>1. file[n] \in AnyView
  BY DEF MembershipTypes
<1>2. [epoch |-> 0, members |-> Now.config[n]] \in View
  BY ScenarioFacts DEF MembershipTypes, View
<1>3. CASE file[n] # NoView
  <2>1. Load(n) = file[n] /\ file[n] \in View
    BY <1>1, <1>3, ViewFacts DEF Load
  <2> QED
    BY <2>1
<1>4. CASE file[n] = NoView
  <2>1. Load(n) = [epoch |-> 0, members |-> Now.config[n]] /\ file[n].epoch = 0
    BY <1>4, ViewFacts DEF Load
  <2> QED
    BY <1>2, <2>1, SMT
<1> QED
  BY <1>3, <1>4

-----------------------------------------------------------------------------
\* Init establishes IView: every view is the one a start would load.
LEMMA InitView == Init => IView
<1> SUFFICES ASSUME Init
             PROVE  IView
  OBVIOUS
<1>1. /\ env \in DOMAIN Scenarios /\ up = Now.started
      /\ file = [n \in Node |-> NoView]
      /\ view = [n \in Node |-> Load(n)]
      /\ setting = [n \in Node |-> NotSetting]
      /\ adopt = [n \in Node |-> NotAdopting]
      /\ health = [n \in Node |-> NoPeers]
      /\ reply = [n \in Node |-> {}]
  BY DEF Init, MembershipInit
<1>2. \A n \in Node : Load(n) = [epoch |-> 0, members |-> Now.config[n]]
  BY <1>1 DEF Load
<1>3. \A n \in Node : Load(n) \in View
  BY <1>1, <1>2, ScenarioFacts, SMT DEF View
<1>4. up \subseteq Node
  BY <1>1, MembershipAssumption DEF Now
<1>5. MembershipTypes
  <2>1. view \in [Node -> View] /\ file \in [Node -> AnyView]
    BY <1>1, <1>3, ViewFacts
  <2>2. setting \in [Node -> Setting] /\ adopt \in [Node -> Adopting]
    BY <1>1, IdleFacts
  <2>3. health = [n \in Node |-> health[n]] /\ reply \in [Node -> SUBSET Reply]
    BY <1>1
  <2> QED
    BY <1>1, <1>4, <2>1, <2>2, <2>3 DEF MembershipTypes
<1>6. ASSUME NEW n \in Node
      PROVE  OnDisk(n) /\ AboutToPublish(n) /\ EpochsSeen(n)
  <2>1. OnDisk(n)
    <3>1. view[n] = Load(n) /\ view[n].epoch = 0 /\ file[n].epoch = 0
      BY <1>1, <1>2, ViewFacts, SMT
    <3> QED
      BY <3>1, SMT DEF OnDisk
  <2>2. AboutToPublish(n)
    BY <1>1 DEF AboutToPublish, NotSetting
  <2>3. EpochsSeen(n)
    BY <1>1 DEF EpochsSeen, GoodHealth, NoPeers
  <2> QED
    BY <2>1, <2>2, <2>3
<1> QED
  BY <1>5, <1>6 DEF IView

-----------------------------------------------------------------------------
\* Steps that leave every view and file alone, and record only epochs that
\* are held.
LEMMA FrameView ==
  ASSUME IView, UNCHANGED <<env, up, viewVars>>, MembershipTypes', \A n \in Node : EpochsSeen(n)'
  PROVE  IView'
<1>1. \A n \in Node : Load(n)' = Load(n)
  BY DEF Load, viewVars, Now
<1>2. \A n \in Node : OnDisk(n)' /\ AboutToPublish(n)'
  BY <1>1 DEF IView, OnDisk, AboutToPublish, viewVars
<1> QED
  BY <1>2 DEF IView

\* The same, with what has to be shown of each variable; and when no reply
\* is sent or received.
LEMMA LooseView ==
  ASSUME IView, UNCHANGED <<env, up, viewVars>>, adopt' \in [Node -> Adopting],
         health' = [m \in Node |-> health'[m]], \A m \in Node : GoodHealth(health'[m]),
         reply' \in [Node -> SUBSET Reply],
         \A m \in Node : \A q \in reply'[m] : q.epoch <= view[q.id].epoch
  PROVE  IView'
<1>1. MembershipTypes'
  BY DEF IView, MembershipTypes, viewVars
<1>2. \A m \in Node : EpochsSeen(m)'
  BY DEF EpochsSeen, GoodHealth, viewVars
<1> QED
  BY <1>1, <1>2, FrameView

LEMMA QuietView ==
  ASSUME IView, UNCHANGED <<env, up, viewVars, reply>>, adopt' \in [Node -> Adopting],
         health' = [m \in Node |-> health'[m]], \A m \in Node : GoodHealth(health'[m])
  PROVE  IView'
<1>1. reply \in [Node -> SUBSET Reply] /\ \A m \in Node : \A q \in reply[m] : q.epoch <= view[q.id].epoch
  BY DEF IView, MembershipTypes, EpochsSeen
<1> QED
  BY <1>1, LooseView

\* Health reads a record whose epoch the peer holds.
LEMMA HealthGood ==
  ASSUME IView, NEW p \in Node, NEW h, GoodHealth(h)
  PROVE  /\ Health(h, p) \in [epoch : Nat, misses : Nat]
         /\ Health(h, p).epoch <= view[p].epoch
<1>1. view[p].epoch \in Nat
  BY ViewFacts DEF IView, MembershipTypes
<1>2. CASE p \in DOMAIN h
  BY <1>2 DEF Health, GoodHealth
<1>3. CASE p \notin DOMAIN h
  BY <1>1, <1>3, SMT DEF Health, NoHealth
<1> QED
  BY <1>2, <1>3

LEMMA WithHealthGood ==
  ASSUME IView, NEW p \in Node, NEW h, GoodHealth(h),
         NEW r \in [epoch : Nat, misses : Nat], r.epoch <= view[p].epoch
  PROVE  GoodHealth(WithHealth(h, p, r))
BY DEF GoodHealth, WithHealth

\* recordHeartbeat changes no epoch.
LEMMA RecordHeartbeat ==
  ASSUME IView, NEW n \in Node, NEW p \in Node, NEW ok \in BOOLEAN, NEW h, GoodHealth(h)
  PROVE  GoodHealth(recordHeartbeat(n, h, p, ok))
<1> DEFINE old == Health(h, p)
           misses == CASE ok -> 0
                       [] old.misses = MaxMissed -> MaxMissed
                       [] OTHER -> old.misses + 1
<1>1. old \in [epoch : Nat, misses : Nat] /\ old.epoch <= view[p].epoch
  BY HealthGood
<1>2. MaxMissed \in Nat
  BY MembershipAssumption
<1>3. misses \in Nat
  BY <1>1, <1>2, SMT
<1> HIDE DEF old, misses
<1>4. [old EXCEPT !.misses = misses] \in [epoch : Nat, misses : Nat]
  BY <1>1, <1>3
<1>5. [old EXCEPT !.misses = misses].epoch <= view[p].epoch
  BY <1>1
<1>6. GoodHealth(WithHealth(h, p, [old EXCEPT !.misses = misses]))
  BY <1>4, <1>5, WithHealthGood
<1> QED
  BY <1>6 DEF recordHeartbeat, old, misses

LEMMA RecordPeerEpoch ==
  ASSUME IView, NEW n \in Node, NEW p \in Node, NEW h, GoodHealth(h),
         NEW epoch \in Nat, epoch <= view[p].epoch
  PROVE  GoodHealth(recordPeerEpoch(n, h, p, epoch))
<1> DEFINE r == [Health(h, p) EXCEPT !.epoch = epoch]
<1>1. r \in [epoch : Nat, misses : Nat] /\ r.epoch <= view[p].epoch
  BY HealthGood
<1>2. GoodHealth(WithHealth(h, p, r))
  BY <1>1, WithHealthGood
<1> QED
  BY <1>2 DEF recordPeerEpoch

LEMMA AdoptFromType ==
  ASSUME NEW a \in [Node -> Adopting], NEW n \in Node, NEW epoch, NEW address \in Node
  PROVE  adoptFrom(a, n, epoch, address) \in [Node -> Adopting]
<1>1. [pc |-> "fetch", at |-> address, info |-> NoView] \in Adopting
  BY ViewFacts DEF Adopting
<1> QED
  BY <1>1 DEF adoptFrom

\* Whoever answers, only the peer's own epoch is recorded as the peer's.
LEMMA PingReplyGood ==
  ASSUME IView, NEW n \in Node, NEW p \in Node, NEW r, NEW a \in [Node -> Adopting],
         r.id \in Node, r.epoch \in Nat, r.epoch <= view[r.id].epoch,
         PingReply(n, p, r, a)
  PROVE  /\ adopt' \in [Node -> Adopting]
         /\ health' = [m \in Node |-> health'[m]]
         /\ \A m \in Node : GoodHealth(health'[m])
<1>1. health = [m \in Node |-> health[m]] /\ \A m \in Node : GoodHealth(health[m])
  BY DEF IView, MembershipTypes, EpochsSeen
<1>2. CASE r.id = p
  <2> DEFINE h == recordPeerEpoch(n, recordHeartbeat(n, health[n], p, TRUE), p, r.epoch)
  <2>1. GoodHealth(h)
    BY <1>1, <1>2, RecordHeartbeat, RecordPeerEpoch
  <2>2. health' = [health EXCEPT ![n] = h] /\ adopt' = adoptFrom(a, n, r.epoch, r.id)
    BY <1>2 DEF PingReply
  <2> HIDE DEF h
  <2> QED
    BY <1>1, <2>1, <2>2, AdoptFromType
<1>3. CASE r.id # p
  <2> DEFINE h == recordHeartbeat(n, health[n], p, FALSE)
  <2>1. GoodHealth(h)
    BY <1>1, RecordHeartbeat
  <2>2. health' = [health EXCEPT ![n] = h] /\ adopt' = a
    BY <1>3 DEF PingReply
  <2> HIDE DEF h
  <2> QED
    BY <1>1, <2>1, <2>2
<1> QED
  BY <1>2, <1>3

LEMMA FailedGood ==
  ASSUME IView, NEW n \in Node, NEW p \in Node, Failed(n, p)
  PROVE  /\ health' = [m \in Node |-> health'[m]]
         /\ \A m \in Node : GoodHealth(health'[m])
<1>1. health = [m \in Node |-> health[m]] /\ \A m \in Node : GoodHealth(health[m])
  BY DEF IView, MembershipTypes, EpochsSeen
<1> DEFINE h == recordHeartbeat(n, health[n], p, FALSE)
<1>2. GoodHealth(h)
  BY <1>1, RecordHeartbeat
<1>3. health' = [health EXCEPT ![n] = h]
  BY DEF Failed
<1> HIDE DEF h
<1> QED
  BY <1>1, <1>2, <1>3

\* The heartbeats: views and files stay, health and replies are good.
LEMMA PingView ==
  ASSUME IView, UNCHANGED env, NEW n \in Node, NEW p \in Node, Ping(n, p)
  PROVE  IView'
<1> DEFINE d == view[n].members[p]
           r == [id |-> d, epoch |-> view[d].epoch]
<1>1. d \in Node /\ view[n].epoch \in Nat
  BY ViewFacts, MembersFacts DEF IView, MembershipTypes, Ping, Due, IsMember
<1>2. HandlePing(d, n) \in [Node -> Adopting]
  BY <1>1, AdoptFromType DEF HandlePing, IView, MembershipTypes
<1>3. r.id \in Node /\ r.epoch \in Nat /\ r.epoch <= view[r.id].epoch
  BY <1>1, ViewFacts, SMT DEF IView, MembershipTypes
<1>4. PingReply(n, p, r, HandlePing(d, n)) /\ UNCHANGED <<up, viewVars, reply>>
  BY DEF Ping
<1> HIDE DEF r, d
<1>5. /\ adopt' \in [Node -> Adopting]
      /\ health' = [m \in Node |-> health'[m]]
      /\ \A m \in Node : GoodHealth(health'[m])
  BY <1>2, <1>3, <1>4, PingReplyGood
<1> QED
  BY <1>4, <1>5, QuietView

LEMMA PingFailsView ==
  ASSUME IView, UNCHANGED env, NEW n \in Node, NEW p \in Node, PingFails(n, p)
  PROVE  IView'
<1>1. Failed(n, p) /\ UNCHANGED <<up, viewVars, reply, adopt>>
  BY DEF PingFails
<1>2. adopt' \in [Node -> Adopting]
  BY <1>1 DEF IView, MembershipTypes
<1> QED
  BY <1>1, <1>2, FailedGood, QuietView

LEMMA PingSlowlyView ==
  ASSUME IView, UNCHANGED env, NEW n \in Node, NEW p \in Node, PingSlowly(n, p)
  PROVE  IView'
<1> DEFINE d == view[n].members[p]
           r == [peer |-> p, id |-> d, epoch |-> view[d].epoch]
<1>1. d \in Node
  BY ViewFacts, MembersFacts DEF IView, MembershipTypes, PingSlowly, Due, IsMember
<1>2. HandlePing(d, n) \in [Node -> Adopting]
  BY <1>1, AdoptFromType DEF HandlePing, IView, MembershipTypes
<1>3. r \in Reply /\ r.epoch <= view[r.id].epoch
  BY <1>1, ViewFacts, SMT DEF IView, MembershipTypes, Reply
<1>4. /\ adopt' = HandlePing(d, n) /\ reply' = [reply EXCEPT ![n] = @ \cup {r}]
      /\ UNCHANGED <<up, viewVars, health>>
  BY DEF PingSlowly
<1> HIDE DEF r, d
<1>5. reply \in [Node -> SUBSET Reply] /\ \A m \in Node : \A q \in reply[m] : q.epoch <= view[q.id].epoch
  BY DEF IView, MembershipTypes, EpochsSeen
<1>6. reply' \in [Node -> SUBSET Reply] /\ \A m \in Node : \A q \in reply'[m] : q.epoch <= view[q.id].epoch
  BY <1>3, <1>4, <1>5
<1>7. health' = [m \in Node |-> health'[m]] /\ \A m \in Node : GoodHealth(health'[m])
  BY <1>4 DEF IView, MembershipTypes, EpochsSeen
<1> QED
  BY <1>2, <1>4, <1>6, <1>7, LooseView

LEMMA PingAnsweredView ==
  ASSUME IView, UNCHANGED env, NEW n \in Node, PingAnswered(n)
  PROVE  IView'
<1>1. PICK r \in reply[n] :
        /\ reply' = [reply EXCEPT ![n] = @ \ {r}]
        /\ PingReply(n, r.peer, r, adopt) \/ (Failed(n, r.peer) /\ UNCHANGED adopt)
        /\ UNCHANGED <<up, viewVars>>
  BY DEF PingAnswered
<1>2. reply \in [Node -> SUBSET Reply] /\ \A m \in Node : \A q \in reply[m] : q.epoch <= view[q.id].epoch
  BY DEF IView, MembershipTypes, EpochsSeen
<1>3. r.peer \in Node /\ r.id \in Node /\ r.epoch \in Nat /\ r.epoch <= view[r.id].epoch
  BY <1>1, <1>2, SMT DEF Reply
<1>4. reply' \in [Node -> SUBSET Reply] /\ \A m \in Node : \A q \in reply'[m] : q.epoch <= view[q.id].epoch
  BY <1>1, <1>2
<1>5. adopt \in [Node -> Adopting]
  BY DEF IView, MembershipTypes
<1>6. /\ adopt' \in [Node -> Adopting]
      /\ health' = [m \in Node |-> health'[m]]
      /\ \A m \in Node : GoodHealth(health'[m])
  <2>1. CASE PingReply(n, r.peer, r, adopt)
    BY <1>3, <1>5, <2>1, PingReplyGood
  <2>2. CASE Failed(n, r.peer) /\ UNCHANGED adopt
    BY <1>3, <1>5, <2>2, FailedGood
  <2> QED
    BY <1>1, <2>1, <2>2
<1> QED
  BY <1>1, <1>4, <1>6, LooseView

-----------------------------------------------------------------------------
LEMMA AdoptFetchView ==
  ASSUME IView, UNCHANGED env, NEW n \in Node, AdoptFetch(n)
  PROVE  IView'
<1>1. adopt' = [adopt EXCEPT ![n].pc = "set", ![n].info = view[adopt[n].at]]
      /\ UNCHANGED <<up, viewVars, health, reply>> /\ adopt[n].at \in up
  BY DEF AdoptFetch, Reaches
<1>2. view[adopt[n].at] \in AnyView
  BY <1>1, ViewFacts DEF IView, MembershipTypes
<1>3. adopt' \in [Node -> Adopting]
  <2>1. adopt[n] \in Adopting /\ adopt \in [Node -> Adopting]
    BY DEF IView, MembershipTypes
  <2>2. [adopt[n] EXCEPT !.pc = "set", !.info = view[adopt[n].at]] \in Adopting
    BY <1>2, <2>1 DEF Adopting
  <2>3. adopt' = [adopt EXCEPT ![n] = [adopt[n] EXCEPT !.pc = "set", !.info = view[adopt[n].at]]]
    BY <1>1, <2>1
  <2> QED
    BY <2>1, <2>2, <2>3
<1>4. health' = [m \in Node |-> health'[m]] /\ \A m \in Node : GoodHealth(health'[m])
  BY <1>1 DEF IView, MembershipTypes, EpochsSeen
<1> QED
  BY <1>1, <1>3, <1>4, QuietView

LEMMA AdoptFailsView ==
  ASSUME IView, UNCHANGED env, NEW n \in Node, AdoptFails(n)
  PROVE  IView'
<1>1. adopt' = [adopt EXCEPT ![n] = NotAdopting] /\ UNCHANGED <<up, viewVars, health, reply>>
  BY DEF AdoptFails
<1>2. adopt' \in [Node -> Adopting]
  BY <1>1, IdleFacts DEF IView, MembershipTypes
<1>3. health' = [m \in Node |-> health'[m]] /\ \A m \in Node : GoodHealth(health'[m])
  BY <1>1 DEF IView, MembershipTypes, EpochsSeen
<1> QED
  BY <1>1, <1>2, <1>3, QuietView

\* A newer view is written, and published only after that.
LEMMA SettingView ==
  ASSUME IView, UNCHANGED <<env, up, view, health, reply>>, adopt' \in [Node -> Adopting],
         NEW n \in Node, NEW v \in AnyView, NEW by \in {"operator", "adopt"},
         n \in up, SetMembership(n, v, by) \/ SetFails(n, v)
  PROVE  IView'
<1>1. setting[n] = NotSetting /\ v.epoch > view[n].epoch
  BY DEF SetMembership, SetFails, MaySet, IsNewer
<1>2. view[n].epoch \in Nat /\ v.epoch \in Nat
  BY ViewFacts DEF IView, MembershipTypes
<1>3. v \in View /\ v # NoView
  BY <1>1, <1>2, ViewFacts, SMT
<1>4. file' = file \/ file' = [file EXCEPT ![n] = v]
  BY DEF SetMembership, SetFails
<1>5. \/ setting' = setting
      \/ /\ setting' = [setting EXCEPT ![n] = [pc |-> "publish", view |-> v, by |-> by]]
         /\ file' = [file EXCEPT ![n] = v]
  BY DEF SetMembership, SetFails
<1>6. MembershipTypes'
  <2>1. file' \in [Node -> AnyView]
    BY <1>4 DEF IView, MembershipTypes
  <2>2. [pc |-> "publish", view |-> v, by |-> by] \in Setting
    BY DEF Setting
  <2>3. setting' \in [Node -> Setting]
    BY <1>5, <2>2 DEF IView, MembershipTypes
  <2> QED
    BY <2>1, <2>3 DEF IView, MembershipTypes
<1>7. ASSUME NEW m \in Node
      PROVE  OnDisk(m)' /\ AboutToPublish(m)' /\ EpochsSeen(m)'
  <2>1. OnDisk(m) /\ AboutToPublish(m) /\ EpochsSeen(m)
    BY DEF IView
  <2>2. EpochsSeen(m)'
    BY <2>1 DEF EpochsSeen, GoodHealth
  <2>3. CASE file'[m] = file[m]
    <3>1. OnDisk(m)'
      BY <2>1, <2>3 DEF OnDisk, Load, Now
    <3>2. setting'[m] = setting[m] \/ (m = n /\ file'[m] = v /\ setting'[m].view = v)
      BY <1>5, SMT DEF IView, MembershipTypes
    <3>3. AboutToPublish(m)'
      BY <1>1, <2>1, <2>3, <3>2 DEF AboutToPublish
    <3> QED
      BY <2>2, <3>1, <3>3
  <2>4. CASE file'[m] # file[m]
    <3>1. m = n /\ file'[m] = v
      BY <1>4, <2>4 DEF IView, MembershipTypes
    <3>2. Load(m)' = v
      BY <1>3, <3>1 DEF Load
    <3>3. OnDisk(m)'
      BY <1>1, <1>2, <3>1, <3>2, SMT DEF OnDisk
    <3>4. setting'[m] = NotSetting \/ setting'[m].view = v
      BY <1>1, <1>5, <3>1, SMT DEF IView, MembershipTypes
    <3>5. AboutToPublish(m)'
      BY <1>1, <3>1, <3>4, SMT DEF AboutToPublish, NotSetting
    <3> QED
      BY <2>2, <3>3, <3>5
  <2> QED
    BY <2>3, <2>4
<1> QED
  BY <1>6, <1>7 DEF IView

LEMMA DeclareView ==
  ASSUME IView, UNCHANGED env, NEW n \in Node, NEW v \in Now.declared, Declare(n, v)
  PROVE  IView'
<1>1. v \in AnyView
  BY ScenarioFacts, ViewFacts DEF IView, MembershipTypes
<1>2. UNCHANGED <<up, view, health, reply>> /\ adopt' \in [Node -> Adopting]
  BY DEF Declare, pingVars, IView, MembershipTypes
<1>3. n \in up /\ (SetMembership(n, v, "operator") \/ SetFails(n, v))
  BY DEF Declare
<1> QED
  BY <1>1, <1>2, <1>3, SettingView

LEMMA AdoptSetView ==
  ASSUME IView, UNCHANGED env, NEW n \in Node, AdoptSet(n)
  PROVE  IView'
<1> DEFINE v == adopt[n].info
<1>1. v \in AnyView /\ n \in up /\ UNCHANGED <<up, view, health, reply>>
  BY DEF AdoptSet, IView, MembershipTypes, Adopting
<1>2. adopt' = [adopt EXCEPT ![n].pc = "wait"] \/ adopt' = [adopt EXCEPT ![n] = NotAdopting]
  BY DEF AdoptSet
<1>3. adopt' \in [Node -> Adopting]
  BY <1>2, IdleFacts, SMT DEF IView, MembershipTypes, Adopting
<1>4. \/ SetMembership(n, v, "adopt") \/ SetFails(n, v)
      \/ UNCHANGED <<setting, file>>
  BY DEF AdoptSet
<1>5. CASE UNCHANGED <<setting, file>>
  <2>1. health' = [m \in Node |-> health'[m]] /\ \A m \in Node : GoodHealth(health'[m])
    BY <1>1 DEF IView, MembershipTypes, EpochsSeen
  <2> QED
    BY <1>1, <1>3, <1>5, <2>1, QuietView DEF viewVars
<1> HIDE DEF v
<1>6. CASE SetMembership(n, v, "adopt") \/ SetFails(n, v)
  BY <1>1, <1>3, <1>6, SettingView
<1> QED
  BY <1>4, <1>5, <1>6

-----------------------------------------------------------------------------
\* A view that is replaced by a later one still is past the replies seen.
LEMMA LaterReply ==
  ASSUME IView, NEW n \in Node, NEW v \in View,
         v.epoch >= view[n].epoch, view' = [view EXCEPT ![n] = v],
         NEW m \in Node, NEW q \in reply[m]
  PROVE  q.epoch <= view'[q.id].epoch
<1>1. q.id \in Node /\ q.epoch \in Nat /\ q.epoch <= view[q.id].epoch
  BY SMT DEF IView, MembershipTypes, EpochsSeen, Reply
<1>2. view[q.id].epoch \in Nat /\ view'[q.id].epoch \in Nat /\ view[q.id].epoch <= view'[q.id].epoch
  BY <1>1, ViewFacts, SMT DEF IView, MembershipTypes
<1> QED
  BY <1>1, <1>2, SMT

LEMMA PublishIsNewer ==
  ASSUME IView, NEW n \in Node, Publish(n)
  PROVE  /\ setting[n].view \in View /\ setting[n].view = file[n] /\ Load(n) = file[n]
         /\ setting[n].view.epoch > view[n].epoch
         /\ view' = [view EXCEPT ![n] = setting[n].view]
<1>1. setting[n].pc = "publish" /\ view' = [view EXCEPT ![n] = setting[n].view]
  BY DEF Publish
<1>2. setting[n].view = file[n] /\ file[n].epoch > view[n].epoch
  BY <1>1 DEF IView, AboutToPublish
<1>3. view[n].epoch \in Nat /\ file[n] \in AnyView /\ file[n].epoch \in Nat
  BY ViewFacts DEF IView, MembershipTypes
<1>4. file[n] # NoView
  BY <1>2, <1>3, ViewFacts, SMT
<1>5. file[n] \in View /\ Load(n) = file[n]
  BY <1>3, <1>4, ViewFacts DEF Load
<1> QED
  BY <1>1, <1>2, <1>5

LEMMA PruneGood ==
  ASSUME NEW h, GoodHealth(h), NEW v
  PROVE  GoodHealth(pruneHealth(h, v))
BY DEF GoodHealth, pruneHealth

LEMMA PublishesView ==
  ASSUME IView, UNCHANGED env, NEW n \in Node, Publish(n)
  PROVE  IView'
<1> DEFINE v == setting[n].view
<1>1. /\ v \in View /\ v = file[n] /\ Load(n) = file[n] /\ v.epoch > view[n].epoch
      /\ view' = [view EXCEPT ![n] = v]
  BY PublishIsNewer
<1>2. /\ health' = [health EXCEPT ![n] = pruneHealth(@, v)]
      /\ setting' = [setting EXCEPT ![n] = NotSetting]
      /\ adopt' = [adopt EXCEPT ![n] = NotAdopting] \/ adopt' = adopt
      /\ UNCHANGED <<up, file, reply>>
  BY DEF Publish
<1> HIDE DEF v
<1>3. view[n].epoch \in Nat /\ v.epoch \in Nat /\ v.epoch >= view[n].epoch
  BY <1>1, ViewFacts, SMT DEF IView, MembershipTypes
<1>4. health' = [m \in Node |-> health'[m]] /\ \A m \in Node : GoodHealth(health'[m])
  BY <1>2, PruneGood DEF IView, MembershipTypes, EpochsSeen
<1>6. MembershipTypes'
  <2>1. view' \in [Node -> View]
    BY <1>1 DEF IView, MembershipTypes
  <2>2. setting' \in [Node -> Setting] /\ adopt' \in [Node -> Adopting]
    BY <1>2, IdleFacts DEF IView, MembershipTypes
  <2> QED
    BY <1>2, <1>4, <2>1, <2>2 DEF IView, MembershipTypes
<1>7. ASSUME NEW m \in Node
      PROVE  OnDisk(m)' /\ AboutToPublish(m)' /\ EpochsSeen(m)'
  <2>1. OnDisk(m) /\ AboutToPublish(m)
    BY DEF IView
  <2>2. Load(m)' = Load(m)
    BY <1>2 DEF Load, Now
  <2>3. EpochsSeen(m)'
    <3>1. GoodHealth(health'[m])
      BY <1>4
    <3>2. DOMAIN health'[m] \subseteq Node /\ health'[m] \in [DOMAIN health'[m] -> [epoch : Nat, misses : Nat]]
      BY <3>1 DEF GoodHealth
    <3>3. \A p \in DOMAIN health'[m] : health'[m][p].epoch <= view'[p].epoch
      <4>1. \A p \in Node : view[p].epoch \in Nat /\ view'[p].epoch \in Nat /\ view[p].epoch <= view'[p].epoch
        BY <1>1, <1>3, ViewFacts, SMT DEF IView, MembershipTypes
      <4>2. \A p \in DOMAIN health'[m] : p \in Node /\ health'[m][p].epoch \in Nat /\ health'[m][p].epoch <= view[p].epoch
        BY <3>1 DEF GoodHealth
      <4> QED
        BY <4>1, <4>2, SMT
    <3>4. \A q \in reply'[m] : q.epoch <= view'[q.id].epoch
      BY <1>1, <1>2, <1>3, LaterReply
    <3> QED
      BY <3>2, <3>3, <3>4 DEF EpochsSeen, GoodHealth
  <2>4. CASE m = n
    <3>1. view'[m] = v /\ setting'[m] = NotSetting
      BY <1>1, <1>2, <2>4 DEF IView, MembershipTypes
    <3>2. OnDisk(m)'
      BY <1>1, <1>2, <1>3, <2>2, <2>4, <3>1, SMT DEF OnDisk
    <3>3. AboutToPublish(m)'
      BY <3>1, SMT DEF AboutToPublish, NotSetting
    <3> QED
      BY <2>3, <3>2, <3>3
  <2>5. CASE m # n
    <3>1. view'[m] = view[m] /\ setting'[m] = setting[m]
      BY <1>1, <1>2, <2>5 DEF IView, MembershipTypes
    <3> QED
      BY <1>2, <2>1, <2>2, <2>3, <3>1 DEF OnDisk, AboutToPublish
  <2> QED
    BY <2>4, <2>5
<1> QED
  BY <1>6, <1>7 DEF IView

\* What is lost with the process is neither view nor file.
LEMMA EndsView ==
  ASSUME IView, UNCHANGED env, NEW n \in Node, Ends(n)
  PROVE  IView'
<1>1. /\ up' = up \ {n} /\ UNCHANGED <<view, file>>
      /\ setting' = [setting EXCEPT ![n] = NotSetting]
      /\ adopt' = [adopt EXCEPT ![n] = NotAdopting]
      /\ health' = [health EXCEPT ![n] = NoPeers]
      /\ reply' = [reply EXCEPT ![n] = {}]
  BY DEF Ends
<1>2. MembershipTypes'
  <2>1. setting' \in [Node -> Setting] /\ adopt' \in [Node -> Adopting]
    BY <1>1, IdleFacts DEF IView, MembershipTypes
  <2>2. health' = [m \in Node |-> health'[m]] /\ reply' \in [Node -> SUBSET Reply]
    BY <1>1 DEF IView, MembershipTypes
  <2> QED
    BY <1>1, <2>1, <2>2 DEF IView, MembershipTypes
<1>3. ASSUME NEW m \in Node
      PROVE  OnDisk(m)' /\ AboutToPublish(m)' /\ EpochsSeen(m)'
  <2>1. OnDisk(m) /\ AboutToPublish(m) /\ EpochsSeen(m)
    BY DEF IView
  <2>2. OnDisk(m)'
    BY <1>1, <2>1 DEF OnDisk, Load, Now
  <2>3. setting'[m] = setting[m] \/ setting'[m] = NotSetting
    BY <1>1 DEF IView, MembershipTypes
  <2>4. AboutToPublish(m)'
    <3>1. CASE m = n
      BY <1>1, <3>1 DEF AboutToPublish, NotSetting, IView, MembershipTypes
    <3>2. CASE m # n
      BY <1>1, <2>1, <2>3, <3>2, SMT DEF AboutToPublish, NotSetting
    <3> QED
      BY <3>1, <3>2
  <2>5. health'[m] = health[m] \/ health'[m] = NoPeers
    BY <1>1 DEF IView, MembershipTypes
  <2>6. GoodHealth(health'[m])
    BY <2>1, <2>5 DEF EpochsSeen, GoodHealth, NoPeers
  <2>7. \A q \in reply'[m] : q.epoch <= view[q.id].epoch
    BY <1>1, <2>1 DEF IView, MembershipTypes, EpochsSeen
  <2>8. EpochsSeen(m)'
    BY <1>1, <2>6, <2>7 DEF EpochsSeen, GoodHealth
  <2> QED
    BY <2>2, <2>4, <2>8
<1> QED
  BY <1>2, <1>3 DEF IView

\* A start loads what was published or something newer.
LEMMA LoadIsLater ==
  ASSUME IView, NEW n \in Node
  PROVE  /\ Load(n) \in View /\ Load(n).epoch \in Nat /\ view[n].epoch \in Nat
         /\ Load(n).epoch >= view[n].epoch /\ Load(n).epoch <= file[n].epoch
         /\ Load(n) = view[n] \/ Load(n).epoch > view[n].epoch
<1>1. Load(n) \in View /\ view[n] \in View /\ file[n] \in AnyView
  BY LoadIsView DEF IView, MembershipTypes
<1>2. Load(n).epoch \in Nat /\ view[n].epoch \in Nat /\ file[n].epoch \in Nat
  BY <1>1, ViewFacts
<1>3. Load(n) = view[n] \/ Load(n).epoch > view[n].epoch
  BY DEF IView, OnDisk
<1>4. Load(n).epoch >= view[n].epoch
  BY <1>2, <1>3, SMT
<1>5. Load(n).epoch <= file[n].epoch
  BY <1>2, LoadIsView, SMT DEF IView
<1> QED
  BY <1>1, <1>2, <1>3, <1>4, <1>5

LEMMA StartView ==
  ASSUME IView, UNCHANGED env, NEW n \in Node, NodeStart(n)
  PROVE  IView'
<1>1. /\ up' = up \cup {n} /\ view' = [view EXCEPT ![n] = Load(n)]
      /\ UNCHANGED <<file, setting, adopt, health, reply>>
  BY DEF NodeStart, pingVars
<1>2. /\ Load(n) \in View /\ Load(n).epoch \in Nat /\ view[n].epoch \in Nat
      /\ Load(n).epoch >= view[n].epoch /\ Load(n).epoch <= file[n].epoch
  BY LoadIsLater
<1>3. MembershipTypes'
  BY <1>1, <1>2 DEF IView, MembershipTypes
<1>4. \A p \in Node : view[p].epoch \in Nat /\ view'[p].epoch \in Nat /\ view[p].epoch <= view'[p].epoch
  BY <1>1, <1>2, ViewFacts, SMT DEF IView, MembershipTypes
<1>5. ASSUME NEW m \in Node
      PROVE  OnDisk(m)' /\ AboutToPublish(m)' /\ EpochsSeen(m)'
  <2>1. OnDisk(m) /\ AboutToPublish(m) /\ EpochsSeen(m)
    BY DEF IView
  <2>2. Load(m)' = Load(m)
    BY <1>1 DEF Load, Now
  <2>3. EpochsSeen(m)'
    <3>1. \A p \in DOMAIN health[m] : p \in Node /\ health[m][p].epoch \in Nat /\ health[m][p].epoch <= view[p].epoch
      BY <2>1 DEF EpochsSeen, GoodHealth
    <3>2. \A p \in DOMAIN health[m] : health[m][p].epoch <= view'[p].epoch
      BY <1>4, <3>1, SMT
    <3>3. \A q \in reply'[m] : q.epoch <= view'[q.id].epoch
      BY <1>1, <1>2, LaterReply
    <3> QED
      BY <1>1, <2>1, <3>2, <3>3 DEF EpochsSeen, GoodHealth
  <2>4. CASE m = n
    <3>1. view'[m] = Load(m)
      BY <1>1, <2>4 DEF IView, MembershipTypes
    <3>2. OnDisk(m)'
      BY <1>1, <1>2, <2>2, <2>4, <3>1 DEF OnDisk
    <3>3. setting'[m].pc # "publish"
      BY <1>1, <2>1, <2>4 DEF NodeStart, AboutToPublish
    <3> QED
      BY <2>3, <3>2, <3>3 DEF AboutToPublish
  <2>5. CASE m # n
    <3>1. view'[m] = view[m]
      BY <1>1, <2>5 DEF IView, MembershipTypes
    <3> QED
      BY <1>1, <2>1, <2>2, <2>3, <3>1 DEF OnDisk, AboutToPublish
  <2> QED
    BY <2>4, <2>5
<1> QED
  BY <1>3, <1>5 DEF IView

-----------------------------------------------------------------------------
LEMMA SameView ==
  ASSUME IView, UNCHANGED <<env, memberVars>>
  PROVE  IView'
<1>1. UNCHANGED <<env, up, viewVars, reply, adopt, health>>
  BY DEF memberVars, pingVars
<1>2. adopt' \in [Node -> Adopting] /\ health' = [m \in Node |-> health'[m]]
      /\ \A m \in Node : GoodHealth(health'[m])
  BY <1>1 DEF IView, MembershipTypes, EpochsSeen
<1> QED
  BY <1>1, <1>2, QuietView

\* What a step of the composition is to the memberships.
MemberStep(n) ==
  \/ \E v \in Now.declared : Declare(n, v)
  \/ Publish(n) \/ Ends(n) \/ NodeStart(n)
  \/ AdoptFetch(n) \/ AdoptFails(n) \/ AdoptSet(n) \/ PingAnswered(n)
  \/ \E p \in Node : Ping(n, p) \/ PingFails(n, p) \/ PingSlowly(n, p)

LEMMA StepOfMembers ==
  ASSUME [Next]_vars
  PROVE  UNCHANGED env /\ (UNCHANGED memberVars \/ \E n \in Node : MemberStep(n))
<1>1. CASE UNCHANGED vars
  BY <1>1 DEF vars
<1>2. CASE WriteStep
  <2>1. UNCHANGED memberVars
    BY <1>2 DEF WriteStep, WriteOver, WriteBegin, WriteLands
  <2> QED
    BY <1>1, <1>2, <2>1 DEF Next
<1>3. CASE \E n \in Node : NodeStep(n)
  <2>1. PICK n \in Node : NodeStep(n)
    BY <1>3
  <2>2. UNCHANGED memberVars \/ MemberStep(n)
    <3>1. CASE RunStep(n) \/ PushStep(n) \/ HintStep(n) \/ \E t \in Node : DeliverHints(n, t)
      BY <3>1 DEF RunStep, PushStep, HintStep, HandoffPlan, FinishHandoff, HandoffPush,
                  HandoffHint, DeliverHints
    <3>2. CASE PublishView(n) \/ Crash(n) \/ Start(n) \/ StopStep(n)
      BY <3>2 DEF PublishView, Crash, NodeCrash, Start, StopStep, StopDrained, MemberStep
    <3>3. CASE \E v \in Now.declared : DeclareNext(n, v)
      BY <3>3 DEF DeclareNext, MemberStep
    <3>4. CASE \/ Gossip(AdoptFetch(n) \/ AdoptFails(n) \/ AdoptSet(n) \/ PingAnswered(n))
               \/ \E p \in Node : Gossip(PingStep(n, p))
      BY <3>4 DEF Gossip, PingStep, MemberStep
    <3> QED
      BY <2>1, <3>1, <3>2, <3>3, <3>4 DEF NodeStep
  <2>3. UNCHANGED env
    BY <1>1 DEF Next, vars
  <2> QED
    BY <2>2, <2>3
<1> QED
  BY <1>1, <1>2, <1>3 DEF Next

LEMMA NextView ==
  ASSUME IView, [Next]_vars
  PROVE  IView'
<1>1. UNCHANGED env
  BY StepOfMembers
<1>2. CASE UNCHANGED memberVars
  BY <1>1, <1>2, SameView
<1>3. CASE \E n \in Node : MemberStep(n)
  <2>1. PICK n \in Node : MemberStep(n)
    BY <1>3
  <2>2. CASE \E v \in Now.declared : Declare(n, v)
    BY <1>1, <2>2, DeclareView
  <2>3. CASE Publish(n)
    BY <1>1, <2>3, PublishesView
  <2>4. CASE Ends(n)
    BY <1>1, <2>4, EndsView
  <2>5. CASE NodeStart(n)
    BY <1>1, <2>5, StartView
  <2>6. CASE AdoptFetch(n)
    BY <1>1, <2>6, AdoptFetchView
  <2>7. CASE AdoptFails(n)
    BY <1>1, <2>7, AdoptFailsView
  <2>8. CASE AdoptSet(n)
    BY <1>1, <2>8, AdoptSetView
  <2>9. CASE PingAnswered(n)
    BY <1>1, <2>9, PingAnsweredView
  <2>10. CASE \E p \in Node : Ping(n, p) \/ PingFails(n, p) \/ PingSlowly(n, p)
    BY <1>1, <2>10, PingView, PingFailsView, PingSlowlyView
  <2> QED
    BY <2>1, <2>2, <2>3, <2>4, <2>5, <2>6, <2>7, <2>8, <2>9, <2>10 DEF MemberStep
<1> QED
  BY <1>2, <1>3, StepOfMembers

(***************************************************************************)
(* IView is an invariant: what is published is on disk, what is about to   *)
(* be published is newer and already written, and the epochs recorded of a *)
(* peer are ones it holds.                                                 *)
(***************************************************************************)
THEOREM ViewsInvariant == Spec => []IView
BY InitView, NextView, PTL DEF Spec

(***************************************************************************)
(* An epoch a node has recorded for a peer is one the peer has on disk,    *)
(* through crashes, restarts, slow replies and replies from an address     *)
(* another node has taken: what WaitDrained waits for survives a crash of  *)
(* the peer.                                                               *)
(***************************************************************************)
THEOREM SeenEpochsAreHeld == Spec => []SeenIsHeld
<1>1. ASSUME IView
      PROVE  SeenIsHeld
  <2>1. ASSUME NEW n \in Node, NEW p \in DOMAIN health[n]
        PROVE  health[n][p].epoch <= file[p].epoch
    <3>1. p \in Node /\ health[n][p].epoch \in Nat /\ health[n][p].epoch <= view[p].epoch
      BY <1>1 DEF IView, EpochsSeen, GoodHealth
    <3>2. view[p].epoch \in Nat /\ file[p].epoch \in Nat /\ view[p].epoch <= file[p].epoch
      BY <1>1, <3>1, ViewFacts DEF IView, MembershipTypes, OnDisk
    <3> QED
      BY <3>1, <3>2, SMT
  <2> QED
    BY <2>1 DEF SeenIsHeld
<1> QED
  BY <1>1, ViewsInvariant, PTL

\* Only Publish and a start change a view.
LEMMA ViewStep ==
  ASSUME IView, [Next]_vars
  PROVE  \A n \in Node : view'[n] # view[n] => view'[n].epoch > view[n].epoch
<1>1. view \in [Node -> View]
  BY DEF IView, MembershipTypes
<1>2. CASE \E m \in Node : Publish(m)
  <2>1. PICK m \in Node : Publish(m)
    BY <1>2
  <2>2. view' = [view EXCEPT ![m] = setting[m].view] /\ setting[m].view.epoch > view[m].epoch
    BY <2>1, PublishIsNewer
  <2> QED
    BY <1>1, <2>2
<1>3. CASE \E m \in Node : NodeStart(m)
  <2>1. PICK m \in Node : NodeStart(m)
    BY <1>3
  <2>2. view' = [view EXCEPT ![m] = Load(m)] /\ (Load(m) = view[m] \/ Load(m).epoch > view[m].epoch)
    BY <2>1, LoadIsLater DEF NodeStart
  <2> QED
    BY <1>1, <2>2
<1>4. CASE UNCHANGED view
  BY <1>4
<1>5. UNCHANGED memberVars => UNCHANGED view
  BY DEF memberVars, viewVars
<1>6. ASSUME NEW m \in Node, MemberStep(m)
      PROVE  Publish(m) \/ NodeStart(m) \/ UNCHANGED view
  BY <1>6 DEF MemberStep, Declare, Ends, AdoptFetch, AdoptFails, AdoptSet, PingAnswered, Ping,
              PingFails, PingSlowly, viewVars
<1> QED
  BY <1>2, <1>3, <1>4, <1>5, <1>6, StepOfMembers

(***************************************************************************)
(* No node's epoch goes back, and the members of an epoch it holds do not  *)
(* change, whatever crashes and whatever write of the MEMBERSHIP file      *)
(* fails.                                                                  *)
(***************************************************************************)
THEOREM ViewsOnlyAdvance == Spec => ViewsAdvance
<1>1. ASSUME IView, [Next]_vars
      PROVE  [\A n \in Node : view'[n] # view[n] => view'[n].epoch > view[n].epoch]_view
  BY <1>1, ViewStep
<1> QED
  BY <1>1, ViewsInvariant, PTL DEF Spec, ViewsAdvance

\* What is kept and shown of a step that leaves view and files alone.
LEMMA SameRegister ==
  ASSUME UNCHANGED <<env, view, file>>
  PROVE  UNCHANGED <<Kept, view>>
BY DEF Kept, Load, Now

LEMMA LoadAfterWrite ==
  ASSUME IView, UNCHANGED env, NEW n \in Node, NEW v \in AnyView, v.epoch > view[n].epoch,
         file' = [file EXCEPT ![n] = v]
  PROVE  \A m \in Node : Load(m)' = IF m = n THEN v ELSE Load(m)
<1>1. v # NoView
  BY ViewFacts, SMT DEF IView, MembershipTypes
<1>2. file'[n] = v /\ \A m \in Node \ {n} : file'[m] = file[m]
  BY DEF IView, MembershipTypes
<1> QED
  BY <1>1, <1>2 DEF Load, Now

\* setMembership up to its publication: the view is recorded, or it is not.
LEMMA SettingRecords ==
  ASSUME IView, IView', UNCHANGED <<env, view>>, NEW n \in Node, NEW v \in AnyView, NEW by,
         SetMembership(n, v, by) \/ SetFails(n, v)
  PROVE  [Register!Next]_<<Kept, view>>
<1>1. v.epoch > view[n].epoch
  BY DEF SetMembership, SetFails, MaySet, IsNewer
<1>2. CASE file' = file
  BY <1>2, SameRegister
<1>3. CASE file' = [file EXCEPT ![n] = v]
  <2>1. \A m \in Node : Load(m)' = IF m = n THEN v ELSE Load(m)
    BY <1>1, <1>3, LoadAfterWrite
  <2>2. v \in View
    BY <1>1, ViewFacts, SMT DEF IView, MembershipTypes
  <2>3. Register!Record(n)
    BY <1>1, <2>1, <2>2 DEF Register!Record, Kept
  <2> QED
    BY <2>3 DEF Register!Next
<1> QED
  BY <1>2, <1>3 DEF SetMembership, SetFails

LEMMA RegisterStep ==
  ASSUME IView, IView', [Next]_vars
  PROVE  [Register!Next]_<<Kept, view>>
<1>1. UNCHANGED env
  BY StepOfMembers
<1>2. CASE \E n \in Node : Publish(n)
  <2>1. PICK n \in Node : Publish(n)
    BY <1>2
  <2>2. /\ view' = [view EXCEPT ![n] = Load(n)] /\ Load(n).epoch > view[n].epoch
        /\ UNCHANGED file
    BY <2>1, PublishIsNewer DEF Publish
  <2>3. Register!Show(n)
    BY <1>1, <2>2 DEF Register!Show, Kept, Load, Now
  <2> QED
    BY <2>3 DEF Register!Next
<1>3. CASE \E n \in Node : NodeStart(n)
  <2>1. PICK n \in Node : NodeStart(n)
    BY <1>3
  <2>2. /\ view' = [view EXCEPT ![n] = Load(n)] /\ UNCHANGED file
        /\ Load(n) = view[n] \/ Load(n).epoch > view[n].epoch
    BY <2>1, LoadIsLater DEF NodeStart
  <2>3. CASE Load(n) = view[n]
    <3>1. view' = view
      BY <2>2, <2>3 DEF IView, MembershipTypes
    <3> QED
      BY <1>1, <2>2, <3>1, SameRegister
  <2>4. CASE Load(n).epoch > view[n].epoch
    <3>1. Register!Show(n)
      BY <1>1, <2>2, <2>4 DEF Register!Show, Kept, Load, Now
    <3> QED
      BY <3>1 DEF Register!Next
  <2> QED
    BY <2>2, <2>3, <2>4
<1>4. CASE \E n \in Node : AdoptSet(n) \/ \E v \in Now.declared : Declare(n, v)
  <2>1. PICK n \in Node : AdoptSet(n) \/ \E v \in Now.declared : Declare(n, v)
    BY <1>4
  <2>2. adopt[n].info \in AnyView /\ Now.declared \subseteq AnyView
    BY ScenarioFacts DEF IView, MembershipTypes, Adopting, AnyView
  <2>3. UNCHANGED view
    BY <2>1 DEF AdoptSet, Declare
  <2>4. \/ UNCHANGED file
        \/ \E v \in AnyView, by \in {"operator", "adopt"} : SetMembership(n, v, by) \/ SetFails(n, v)
    BY <2>1, <2>2 DEF AdoptSet, Declare
  <2> QED
    BY <1>1, <2>3, <2>4, SameRegister, SettingRecords
<1>5. CASE UNCHANGED <<view, file>>
  BY <1>1, <1>5, SameRegister
<1>6. UNCHANGED memberVars => UNCHANGED <<view, file>>
  BY DEF memberVars, viewVars
<1>7. ASSUME NEW n \in Node, MemberStep(n)
      PROVE  \/ Publish(n) \/ NodeStart(n) \/ UNCHANGED <<view, file>>
             \/ AdoptSet(n) \/ \E v \in Now.declared : Declare(n, v)
  BY <1>7 DEF MemberStep, Ends, AdoptFetch, AdoptFails, PingAnswered, Ping, PingFails,
                     PingSlowly, viewVars
<1> QED
  BY <1>2, <1>3, <1>4, <1>5, <1>6, <1>7, StepOfMembers

(***************************************************************************)
(* Membership, with the handoffs around it, implements ViewRegister: what  *)
(* a node serves and announces is what its disk has, through crashes, two  *)
(* operators' declarations, adoptions, and writes of MEMBERSHIP that fail  *)
(* before or after they replace the file.                                  *)
(***************************************************************************)
THEOREM ViewsImplementRegister == Spec => ViewsKept
<1>1. Init => Register!Init
  <2> SUFFICES ASSUME Init
               PROVE  Register!Init
    OBVIOUS
  <2>1. MembershipTypes /\ view = [n \in Node |-> Load(n)]
    BY InitView DEF IView, Init, MembershipInit
  <2> QED
    BY <2>1, LoadIsView DEF Register!Init, Kept
<1>2. ASSUME IView, IView', [Next]_vars
      PROVE  [Register!Next]_<<Kept, view>>
  BY <1>2, RegisterStep
<1> QED
  BY <1>1, <1>2, ViewsInvariant, PTL DEF Spec, ViewsKept, Register!Spec

-----------------------------------------------------------------------------
\* What is used of the owners of a key, and of where nodes listen.
LEMMA OwnersAreMembers ==
  ASSUME NEW v
  PROVE  Owners(v) \subseteq DOMAIN v.members
BY DEF Owners, PreferenceList, IsMember

LEMMA TargetFacts ==
  ASSUME NEW n, NEW from, NEW to
  PROVE  /\ handoffTargets(n, from, to) \subseteq Owners(to) \ {n}
         /\ Owners(to) \ (Owners(from) \cup {n}) \subseteq handoffTargets(n, from, to)
BY DEF handoffTargets

LEMMA SameOwners ==
  ASSUME UNCHANGED env, NEW n, NEW from, NEW to
  PROVE  /\ Owners(to)' = Owners(to)
         /\ handoffTargets(n, from, to)' = handoffTargets(n, from, to)
BY DEF Owners, handoffTargets, Now

LEMMA ReliableFacts ==
  ASSUME Reliable(env)
  PROVE  /\ \A n \in Node : ~Fails("persist", n)
         /\ \A v \in Now.declared : Listens(v)
         /\ \A n \in Node : Listens([epoch |-> 0, members |-> Now.config[n]])
         /\ Listens(NoView)
BY SMT DEF Reliable, Fails, Now, Listens, NoView

\* Where neither a node's view nor its handoff changes, and nothing it has
\* done is undone.
LEMMA OtherNode ==
  ASSUME NEW m \in Node, NodeHandoff(m), UNCHANGED env,
         view'[m] = view[m], base'[m] = base[m], handedOff'[m] = handedOff[m],
         target'[m] = target[m], runs'[m] = runs[m], owed'[m] = owed[m],
         data[m] \subseteq data'[m], \A o \in owed[m] : Done(m, o) => Done(m, o)'
  PROVE  NodeHandoff(m)'
<1>1. BaseKept(m)'
  BY DEF NodeHandoff, BaseKept, Now
<1>2. OneRun(m)'
  BY DEF NodeHandoff, OneRun, Current
<1>3. OwedIsLeft(m)'
  BY DEF NodeHandoff, OwedIsLeft, Owners, Now
<1>4. RunCovers(m)'
  BY DEF NodeHandoff, RunCovers, Current, handoffTargets, Owners, Now
<1> QED
  BY <1>1, <1>2, <1>3, <1>4 DEF NodeHandoff

\* Steps that change no view and nothing of the handoffs and the data.
LEMMA SameHandoff ==
  ASSUME IHandoff, UNCHANGED <<env, view, handoffVars, data, hints>>, Addresses'
  PROVE  IHandoff'
<1>1. HandoffTypes'
  BY DEF IHandoff, HandoffTypes, handoffVars
<1>2. ASSUME NEW m \in Node
      PROVE  NodeHandoff(m)'
  <2>1. /\ view'[m] = view[m] /\ base'[m] = base[m] /\ handedOff'[m] = handedOff[m]
        /\ target'[m] = target[m] /\ runs'[m] = runs[m] /\ owed'[m] = owed[m]
        /\ data[m] \subseteq data'[m]
    BY DEF handoffVars
  <2>2. \A o \in owed[m] : Done(m, o) => Done(m, o)'
    BY DEF Done
  <2>3. NodeHandoff(m)
    BY DEF IHandoff
  <2> QED
    BY <2>1, <2>2, <2>3, OtherNode
<1> QED
  BY <1>1, <1>2 DEF IHandoff

\* Steps that only add to the data, or turn a hint into data.
LEMMA MoreData ==
  ASSUME IHandoff, UNCHANGED <<env, view, file, adopt, handoffVars>>,
         data' \in [Node -> SUBSET Write], hints' \in [Node -> [Node -> SUBSET Write]],
         \A m \in Node : data[m] \subseteq data'[m],
         \A m \in Node : \A o \in Write \X Node : Done(m, o) => Done(m, o)'
  PROVE  IHandoff'
<1>1. HandoffTypes'
  BY DEF IHandoff, HandoffTypes, handoffVars
<1>2. Addresses'
  BY DEF IHandoff, Addresses, Listens, handoffVars
<1>3. ASSUME NEW m \in Node
      PROVE  NodeHandoff(m)'
  <2>1. /\ view'[m] = view[m] /\ base'[m] = base[m] /\ handedOff'[m] = handedOff[m]
        /\ target'[m] = target[m] /\ runs'[m] = runs[m] /\ owed'[m] = owed[m]
        /\ data[m] \subseteq data'[m]
    BY DEF handoffVars
  <2>2. owed[m] \subseteq Write \X Node
    BY DEF IHandoff, HandoffTypes
  <2>3. NodeHandoff(m)
    BY DEF IHandoff
  <2> QED
    BY <2>1, <2>2, <2>3, OtherNode
<1> QED
  BY <1>1, <1>2, <1>3 DEF IHandoff

LEMMA WriteLandsKeeps ==
  ASSUME IHandoff, UNCHANGED env, NEW w \in Write, NEW p \in Node, WriteLands(w, p)
  PROVE  IHandoff'
<1>1. /\ data' = [data EXCEPT ![p] = @ \cup {w}]
      /\ UNCHANGED <<view, file, adopt, handoffVars, hints>>
  BY DEF WriteLands, memberVars, viewVars, pingVars
<1>2. data \in [Node -> SUBSET Write] /\ hints \in [Node -> [Node -> SUBSET Write]]
  BY DEF IHandoff, HandoffTypes
<1>3. data' \in [Node -> SUBSET Write] /\ \A m \in Node : data[m] \subseteq data'[m]
  BY <1>1, <1>2
<1>4. \A m \in Node : \A o \in Write \X Node : Done(m, o) => Done(m, o)'
  BY <1>1, <1>3 DEF Done
<1> QED
  BY <1>1, <1>2, <1>3, <1>4, MoreData

LEMMA DeliverHintsKeeps ==
  ASSUME IView, IHandoff, UNCHANGED env, NEW n \in Node, NEW t \in Node, DeliverHints(n, t)
  PROVE  IHandoff'
<1>1. view[n].members[t] = t
  BY DEF DeliverHints, IsMember, IHandoff, Addresses, Listens
<1>2. /\ data' = [data EXCEPT ![t] = @ \cup hints[n][t]]
      /\ hints' = [hints EXCEPT ![n][t] = {}]
      /\ UNCHANGED <<view, file, adopt, handoffVars>>
  BY <1>1 DEF DeliverHints, memberVars, viewVars, pingVars
<1>3. data \in [Node -> SUBSET Write] /\ hints \in [Node -> [Node -> SUBSET Write]]
  BY DEF IHandoff, HandoffTypes
<1>4. data' \in [Node -> SUBSET Write] /\ \A m \in Node : data[m] \subseteq data'[m]
  BY <1>2, <1>3
<1>5. hints' \in [Node -> [Node -> SUBSET Write]]
  BY <1>2, <1>3
<1>6. ASSUME NEW m \in Node, NEW o \in Write \X Node, Done(m, o)
      PROVE  Done(m, o)'
  <2>1. o[2] \in Node
    OBVIOUS
  <2>2. CASE o[1] \in data[o[2]]
    BY <1>4, <2>1, <2>2 DEF Done
  <2>3. CASE o[1] \in hints[m][o[2]] /\ m = n /\ o[2] = t
    BY <1>2, <1>3, <2>1, <2>3 DEF Done
  <2>4. CASE o[1] \in hints[m][o[2]] /\ ~(m = n /\ o[2] = t)
    BY <1>2, <1>3, <2>1, <2>4 DEF Done
  <2> QED
    BY <1>6, <2>2, <2>3, <2>4 DEF Done
<1> QED
  BY <1>2, <1>4, <1>5, <1>6, MoreData

-----------------------------------------------------------------------------
\* A heartbeat starts at most fetches, which know no view yet.
LEMMA AdoptFromInfo ==
  ASSUME NEW a \in [Node -> Adopting], NEW n \in Node, NEW epoch, NEW address
  PROVE  \A m \in Node : \/ adoptFrom(a, n, epoch, address)[m].info = a[m].info
                         \/ adoptFrom(a, n, epoch, address)[m].info = NoView
BY DEF adoptFrom

LEMMA PingInfo ==
  ASSUME IView, NEW n \in Node,
         PingAnswered(n) \/ \E p \in Node : Ping(n, p) \/ PingFails(n, p) \/ PingSlowly(n, p)
  PROVE  \A m \in Node : adopt'[m].info = adopt[m].info \/ adopt'[m].info = NoView
<1>1. adopt \in [Node -> Adopting] /\ view \in [Node -> View]
  BY DEF IView, MembershipTypes
<1>2. CASE PingAnswered(n)
  <2>1. adopt' = adopt \/ \E e, d : adopt' = adoptFrom(adopt, n, e, d)
    BY <1>2 DEF PingAnswered, PingReply
  <2> QED
    BY <1>1, <2>1, AdoptFromInfo, SMT
<1>3. ASSUME NEW p \in Node, Ping(n, p) \/ PingFails(n, p) \/ PingSlowly(n, p)
      PROVE  \A m \in Node : adopt'[m].info = adopt[m].info \/ adopt'[m].info = NoView
  <2> DEFINE d == view[n].members[p]
             a == HandlePing(d, n)
  <2>1. Due(n, p)
    BY <1>3 DEF Ping, PingFails, PingSlowly
  <2>2. d \in Node
    BY <1>1, <2>1, ViewFacts, MembersFacts DEF Due, IsMember
  <2>3. a \in [Node -> Adopting] /\ \A m \in Node : a[m].info = adopt[m].info \/ a[m].info = NoView
    BY <1>1, <2>2, AdoptFromType, AdoptFromInfo, SMT DEF HandlePing
  <2>4. adopt' = adopt \/ adopt' = a \/ \E e, c : adopt' = adoptFrom(a, n, e, c)
    BY <1>3 DEF Ping, PingFails, PingSlowly, PingReply
  <2> HIDE DEF a, d
  <2> QED
    BY <1>1, <2>3, <2>4, AdoptFromInfo, SMT
<1> QED
  BY <1>2, <1>3


\* Every view a node comes to hold is a declared one, or one another holds.
LEMMA GossipKeeps ==
  ASSUME IView, Reliable(env), IHandoff, UNCHANGED <<env, handoffVars, data, hints>>,
         NEW n \in Node,
         \/ \E v \in Now.declared : Declare(n, v)
         \/ AdoptFetch(n) \/ AdoptFails(n) \/ AdoptSet(n) \/ PingAnswered(n)
         \/ \E p \in Node : Ping(n, p) \/ PingFails(n, p) \/ PingSlowly(n, p)
  PROVE  IHandoff'
<1>1. /\ view \in [Node -> View] /\ file \in [Node -> AnyView] /\ adopt \in [Node -> Adopting]
      /\ up \subseteq Node
  BY DEF IView, MembershipTypes
<1>2. \A m \in Node : /\ Listens(view[m]) /\ Listens(file[m]) /\ Listens(adopt[m].info)
                      /\ \A r \in runs[m] : Listens(r.to)
  BY DEF IHandoff, Addresses
<1>3. Listens(NoView) /\ \A v \in Now.declared : Listens(v)
  BY ReliableFacts
<1>4. UNCHANGED view /\ runs' = runs
  BY DEF handoffVars, Declare, AdoptFetch, AdoptFails, AdoptSet, PingAnswered, Ping,
         PingFails, PingSlowly, viewVars
<1>5. \A m \in Node : Listens(file'[m]) /\ Listens(adopt'[m].info)
  <2>1. CASE \E v \in Now.declared : Declare(n, v)
    <3>1. PICK v \in Now.declared : Declare(n, v)
      BY <2>1
    <3>2. adopt' = adopt /\ (file' = file \/ file' = [file EXCEPT ![n] = v])
      BY <3>1 DEF Declare, pingVars, SetMembership, SetFails
    <3> QED
      BY <1>1, <1>2, <1>3, <3>2
  <2>2. CASE AdoptFetch(n)
    <3>1. /\ file' = file /\ adopt[n].at \in Node
          /\ adopt' = [adopt EXCEPT ![n].pc = "set", ![n].info = view[adopt[n].at]]
      BY <1>1, <2>2 DEF AdoptFetch, viewVars, Reaches
    <3>2. ASSUME NEW m \in Node
          PROVE  adopt'[m].info = adopt[m].info \/ adopt'[m].info = view[adopt[n].at]
      <4>1. adopt[n] \in Adopting
        BY <1>1
      <4> QED
        BY <1>1, <3>1, <4>1 DEF Adopting
    <3> QED
      BY <1>2, <3>1, <3>2
  <2>3. CASE AdoptFails(n)
    <3>1. file' = file /\ adopt' = [adopt EXCEPT ![n] = NotAdopting]
      BY <2>3 DEF AdoptFails, viewVars
    <3> QED
      BY <1>1, <1>2, <1>3, <3>1 DEF NotAdopting
  <2>4. CASE AdoptSet(n)
    <3>1. file' = file \/ file' = [file EXCEPT ![n] = adopt[n].info]
      BY <2>4 DEF AdoptSet, SetMembership, SetFails
    <3>2. adopt' = [adopt EXCEPT ![n].pc = "wait"] \/ adopt' = [adopt EXCEPT ![n] = NotAdopting]
      BY <2>4 DEF AdoptSet
    <3>3. \A m \in Node : adopt'[m].info = adopt[m].info \/ adopt'[m].info = NoView
      BY <1>1, <3>2, SMT DEF NotAdopting, Adopting
    <3> QED
      BY <1>1, <1>2, <1>3, <3>1, <3>3
  <2>5. CASE PingAnswered(n) \/ \E p \in Node : Ping(n, p) \/ PingFails(n, p) \/ PingSlowly(n, p)
    <3>1. file' = file
      BY <2>5 DEF PingAnswered, Ping, PingFails, PingSlowly, viewVars
    <3>2. \A m \in Node : adopt'[m].info = adopt[m].info \/ adopt'[m].info = NoView
      BY <1>1, <2>5, PingInfo
    <3> QED
      BY <1>2, <1>3, <3>1, <3>2
  <2> QED
    BY <2>1, <2>2, <2>3, <2>4, <2>5
<1>6. Addresses'
  BY <1>2, <1>4, <1>5 DEF Addresses, Listens
<1> QED
  BY <1>4, <1>6, SameHandoff

\* The end of a process ends its runs.
LEMMA EndsKeeps ==
  ASSUME IView, Reliable(env), IHandoff, UNCHANGED <<env, base, handedOff, target, owed, data, hints>>,
         NEW n \in Node, Ends(n), runs' = [runs EXCEPT ![n] = {}]
  PROVE  IHandoff'
<1>1. UNCHANGED <<view, file>> /\ adopt' = [adopt EXCEPT ![n] = NotAdopting]
  BY DEF Ends
<1>2. HandoffTypes'
  BY DEF IHandoff, HandoffTypes
<1>3. runs \in [Node -> SUBSET Run] /\ adopt \in [Node -> Adopting]
  BY DEF IHandoff, HandoffTypes, IView, MembershipTypes
<1>4. Addresses'
  <2>1. ASSUME NEW m \in Node
        PROVE  /\ Listens(view[m]) /\ Listens(file[m]) /\ Listens(adopt'[m].info)
               /\ \A r \in runs'[m] : Listens(r.to)
    BY <1>1, <1>3, ReliableFacts DEF IHandoff, Addresses, NotAdopting
  <2> QED
    BY <1>1, <2>1 DEF Addresses, Listens
<1>5. ASSUME NEW m \in Node
      PROVE  NodeHandoff(m)'
  <2>1. NodeHandoff(m) /\ \A o \in owed[m] : Done(m, o) => Done(m, o)'
    BY DEF IHandoff, Done
  <2>2. CASE m # n
    BY <1>1, <1>3, <2>1, <2>2, OtherNode
  <2>3. CASE m = n
    <3>1. runs'[m] = {}
      BY <1>3, <2>3
    <3>2. BaseKept(m)'
      BY <1>1, <2>1 DEF NodeHandoff, BaseKept, Now
    <3>3. OneRun(m)' /\ RunCovers(m)'
      BY <1>1, <2>1, <3>1 DEF NodeHandoff, OneRun, RunCovers
    <3>4. OwedIsLeft(m)'
      BY <2>1 DEF NodeHandoff, OwedIsLeft, Owners, Now
    <3> QED
      BY <3>2, <3>3, <3>4 DEF NodeHandoff
  <2> QED
    BY <2>2, <2>3
<1> QED
  BY <1>2, <1>4, <1>5 DEF IHandoff

-----------------------------------------------------------------------------
\* A handoff to v starts from the base; what v adds to what is owed is for
\* nodes that own nothing in the base.
LEMMA NewRunNode ==
  ASSUME NEW n \in Node, NodeHandoff(n), UNCHANGED <<env, data, hints>>, base[n] \in View,
         NEW v \in View, v.epoch >= view[n].epoch, view[n].epoch \in Nat,
         view'[n] = v, target'[n] = v, base'[n] = base[n], handedOff'[n] = handedOff[n],
         \A r \in runs[n] : r.to.epoch \in Nat,
         \A r \in runs'[n] : \/ r \in runs[n] /\ r.to # v
                             \/ r = NewRun(base[n], v) /\ v.epoch > 0,
         owed'[n] \subseteq owed[n] \cup Owes(n, v)
  PROVE  NodeHandoff(n)'
<1> DEFINE new == NewRun(base[n], v)
<1>1. v.epoch \in Nat /\ base[n].epoch \in Nat
  BY ViewFacts
<1>2. BaseKept(n)'
  <2>1. base[n].epoch <= v.epoch
    BY <1>1, SMT DEF NodeHandoff, BaseKept
  <2> QED
    BY <2>1 DEF NodeHandoff, BaseKept, Now
<1>3. new.to = v /\ new.from = base[n] /\ new.pc = "keys" /\ new.todo = {}
  BY DEF NewRun
<1>4. \A r \in runs'[n] : (r = new /\ v.epoch > 0) \/ (r \in runs[n] /\ r.to # v)
  OBVIOUS
<1> HIDE DEF new
<1>5. OneRun(n)'
  <2>1. \A r \in runs[n] : r.to.epoch > 0 /\ r.to.epoch <= v.epoch
    BY <1>1, SMT DEF NodeHandoff, OneRun
  <2>2. \A r \in runs'[n] : r.to.epoch > 0 /\ r.to.epoch <= v.epoch
    BY <1>1, <1>3, <1>4, <2>1, SMT
  <2>3. \A r \in runs'[n] : r.to = v => r = new
    BY <1>4
  <2> QED
    BY <1>1, <1>3, <2>2, <2>3, SMT DEF OneRun, Current
<1>6. OwedIsLeft(n)'
  <2>1. ASSUME NEW o \in owed'[n]
        PROVE  o[1] \in data[n] /\ o[2] # n /\ (Done(n, o) \/ o[2] \notin Owners(base[n]))
    <3>1. CASE o \in owed[n]
      BY <3>1 DEF NodeHandoff, OwedIsLeft
    <3>2. CASE o \in Owes(n, v)
      <4>1. o[1] \in data[n] /\ o[2] \in handoffTargets(n, view[n], v) \ Owners(base[n])
        BY <3>2, SMT DEF Owes
      <4> QED
        BY <4>1, TargetFacts, SMT
    <3> QED
      BY <3>1, <3>2
  <2>2. \A o : Done(n, o)' <=> Done(n, o)
    BY DEF Done
  <2>3. Owners(base[n])' = Owners(base[n])
    BY DEF Owners, Now
  <2> QED
    BY <2>1, <2>2, <2>3 DEF OwedIsLeft
<1>7. RunCovers(n)'
  <2>1. ASSUME NEW r \in runs'[n]
        PROVE  r.todo \subseteq DOMAIN r.to.members /\ (r.to # v \/ r.pc = "keys")
    BY <1>3, <1>4 DEF NodeHandoff, RunCovers
  <2> QED
    BY <2>1 DEF RunCovers, Current
<1> QED
  BY <1>2, <1>5, <1>6, <1>7 DEF NodeHandoff

LEMMA NewRunType ==
  ASSUME NEW from \in View, NEW to \in View
  PROVE  NewRun(from, to) \in Run
BY DEF NewRun, Run

LEMMA OwesType ==
  ASSUME IView, IHandoff, NEW n \in Node, NEW v \in View
  PROVE  Owes(n, v) \subseteq Write \X Node
<1>1. data[n] \subseteq Write
  BY DEF IHandoff, HandoffTypes
<1>2. handoffTargets(n, view[n], v) \subseteq DOMAIN v.members
  BY TargetFacts, OwnersAreMembers
<1>3. DOMAIN v.members \subseteq Node
  BY ViewFacts, MembersFacts
<1> QED
  BY <1>1, <1>2, <1>3, SMT DEF Owes

LEMMA PublishKeeps ==
  ASSUME IView, Reliable(env), IHandoff, UNCHANGED env, NEW n \in Node, PublishView(n)
  PROVE  IHandoff'
<1> DEFINE v == setting[n].view
<1>1. /\ v \in View /\ v = file[n] /\ v.epoch > view[n].epoch
      /\ view' = [view EXCEPT ![n] = v] /\ file' = file
      /\ UNCHANGED <<base, handedOff, data, hints>>
      /\ owed' = [owed EXCEPT ![n] = @ \cup Owes(n, v)]
  BY PublishIsNewer DEF PublishView, Publish, dataVars
<1>2. adopt' = [adopt EXCEPT ![n] = NotAdopting] \/ adopt' = adopt
  BY DEF PublishView, Publish
<1>3. StartHandoff(n, v)
  BY DEF PublishView
<1> HIDE DEF v
<1>4. /\ view \in [Node -> View] /\ base \in [Node -> View] /\ target \in [Node -> View]
      /\ runs \in [Node -> SUBSET Run] /\ owed \in [Node -> SUBSET (Write \X Node)]
      /\ adopt \in [Node -> Adopting]
  BY DEF IView, MembershipTypes, IHandoff, HandoffTypes
<1>5. /\ v.epoch \in Nat /\ view[n].epoch \in Nat /\ base[n].epoch \in Nat
      /\ \A r \in runs[n] : r.to.epoch \in Nat
  BY <1>1, <1>4, ViewFacts, SMT DEF Run
<1>6. NodeHandoff(n)
  BY DEF IHandoff
<1>7. base[n].epoch < v.epoch /\ \A r \in runs[n] : r.to.epoch < v.epoch
  BY <1>1, <1>5, <1>6, SMT DEF NodeHandoff, BaseKept, OneRun
<1>8. /\ target' = [target EXCEPT ![n] = v]
      /\ runs' = [runs EXCEPT ![n] = Canceled(@) \cup {NewRun(base[n], v)}]
  BY <1>3, <1>5, <1>7, SMT DEF StartHandoff
<1>9. HandoffTypes'
  <2>1. target' \in [Node -> View] /\ owed' \in [Node -> SUBSET (Write \X Node)]
    BY <1>1, <1>4, <1>8, OwesType
  <2>2. runs' \in [Node -> SUBSET Run]
    BY <1>1, <1>4, <1>8, NewRunType, SMT DEF Canceled
  <2> QED
    BY <1>1, <2>1, <2>2 DEF IHandoff, HandoffTypes
<1>10. Addresses'
  <2>1. Listens(v) /\ Listens(NoView)
    BY <1>1, ReliableFacts DEF IHandoff, Addresses
  <2>2. ASSUME NEW m \in Node
        PROVE  /\ Listens(view'[m]) /\ Listens(file[m]) /\ Listens(adopt'[m].info)
               /\ \A r \in runs'[m] : Listens(r.to)
    <3>1. Listens(view'[m]) /\ Listens(file[m]) /\ Listens(adopt'[m].info)
      BY <1>1, <1>2, <1>4, <2>1, SMT DEF IHandoff, Addresses, NotAdopting
    <3>2. \A r \in runs'[m] : r \in runs[m] \/ r.to = v
      BY <1>4, <1>8, SMT DEF Canceled, NewRun
    <3> QED
      BY <2>1, <3>1, <3>2 DEF IHandoff, Addresses
  <2> QED
    BY <1>1, <2>2 DEF Addresses, Listens
<1>11. ASSUME NEW m \in Node
       PROVE  NodeHandoff(m)'
  <2>1. CASE m = n
    <3>1. /\ view'[n] = v /\ target'[n] = v /\ base'[n] = base[n] /\ handedOff'[n] = handedOff[n]
          /\ runs'[n] = Canceled(runs[n]) \cup {NewRun(base[n], v)}
          /\ owed'[n] \subseteq owed[n] \cup Owes(n, v) /\ base[n] \in View
      BY <1>1, <1>4, <1>8
    <3>2. v.epoch > 0 /\ v.epoch >= view[n].epoch
      BY <1>1, <1>5, EpochOrder
    <3>3. \A r \in runs[n] : r.to # v
      BY <1>5, <1>7, EpochOrder
    <3>4. \A r \in runs'[n] : \/ r \in runs[n] /\ r.to # v
                              \/ r = NewRun(base[n], v) /\ v.epoch > 0
      BY <3>1, <3>2, <3>3 DEF Canceled
    <3>5. NodeHandoff(n)'
      BY <1>1, <1>5, <1>6, <3>1, <3>2, <3>4, NewRunNode
    <3> QED
      BY <2>1, <3>5
  <2>2. CASE m # n
    <3>1. /\ view'[m] = view[m] /\ base'[m] = base[m] /\ handedOff'[m] = handedOff[m]
          /\ target'[m] = target[m] /\ runs'[m] = runs[m] /\ owed'[m] = owed[m]
          /\ data[m] \subseteq data'[m]
      BY <1>1, <1>4, <1>8, <2>2
    <3>2. NodeHandoff(m) /\ \A o \in owed[m] : Done(m, o) => Done(m, o)'
      BY <1>1 DEF IHandoff, Done
    <3> QED
      BY <3>1, <3>2, OtherNode
  <2> QED
    BY <2>1, <2>2
<1> QED
  BY <1>9, <1>10, <1>11 DEF IHandoff

\* A restart goes on from the base: it is the one in the HANDOFF file.
LEMMA StartKeeps ==
  ASSUME IView, Reliable(env), IHandoff, UNCHANGED env, NEW n \in Node, Start(n)
  PROVE  IHandoff'
<1> DEFINE v == Load(n)
           from == IF handedOff[n] # NoView THEN handedOff[n]
                   ELSE [epoch |-> 0, members |-> Now.config[n]]
<1>1. NodeHandoff(n)
  BY DEF IHandoff
<1>2. from = base[n]
  BY <1>1 DEF NodeHandoff, BaseKept
<1>3. /\ view' = [view EXCEPT ![n] = v] /\ UNCHANGED <<file, adopt, handedOff, data, hints>>
      /\ base' = [base EXCEPT ![n] = from]
      /\ target' = [target EXCEPT ![n] = v]
      /\ runs' = [runs EXCEPT ![n] = IF from.epoch >= v.epoch THEN {} ELSE {NewRun(from, v)}]
      /\ owed' = [owed EXCEPT ![n] = IF v = view[n] THEN @ ELSE @ \cup Owes(n, v)]
  BY DEF Start, NodeStart, dataVars, pingVars
<1>4. v \in View /\ v.epoch \in Nat /\ view[n].epoch \in Nat /\ v.epoch >= view[n].epoch
  BY LoadIsLater
<1>5. Listens(v)
  BY ReliableFacts DEF Load, IHandoff, Addresses
<1> HIDE DEF v, from
<1>6. /\ view \in [Node -> View] /\ base \in [Node -> View] /\ target \in [Node -> View]
      /\ runs \in [Node -> SUBSET Run] /\ owed \in [Node -> SUBSET (Write \X Node)]
  BY DEF IView, MembershipTypes, IHandoff, HandoffTypes
<1>7. base' = base
  BY <1>2, <1>3, <1>6
<1>8. base[n] \in View /\ base[n].epoch \in Nat
  BY <1>6, ViewFacts
<1>9. /\ view'[n] = v /\ target'[n] = v /\ owed'[n] \subseteq owed[n] \cup Owes(n, v)
      /\ \A r \in runs'[n] : r = NewRun(base[n], v) /\ v.epoch > 0
  BY <1>2, <1>3, <1>4, <1>6, <1>8, SMT
<1>10. HandoffTypes'
  <2>1. target' \in [Node -> View] /\ owed' \in [Node -> SUBSET (Write \X Node)]
    BY <1>3, <1>4, <1>6, OwesType
  <2>2. runs' \in [Node -> SUBSET Run]
    BY <1>2, <1>3, <1>4, <1>6, <1>8, NewRunType, SMT
  <2> QED
    BY <1>3, <1>7, <2>1, <2>2 DEF IHandoff, HandoffTypes
<1>11. Addresses'
  <2>1. ASSUME NEW m \in Node
        PROVE  /\ Listens(view'[m]) /\ Listens(file[m]) /\ Listens(adopt[m].info)
               /\ \A r \in runs'[m] : Listens(r.to)
    <3>1. Listens(view'[m]) /\ Listens(file[m]) /\ Listens(adopt[m].info)
      BY <1>3, <1>5, <1>6 DEF IHandoff, Addresses
    <3>2. \A r \in runs'[m] : r \in runs[m] \/ r.to = v
      BY <1>3, <1>6, SMT DEF NewRun
    <3> QED
      BY <1>5, <3>1, <3>2 DEF IHandoff, Addresses
  <2> QED
    BY <1>3, <2>1 DEF Addresses, Listens
<1>12. ASSUME NEW m \in Node
       PROVE  NodeHandoff(m)'
  <2>1. CASE m = n
    <3>1. handedOff'[n] = handedOff[n] /\ base'[n] = base[n]
      BY <1>3, <1>7
    <3>2. \A r \in runs[n] : r.to.epoch \in Nat
      BY <1>6, ViewFacts, SMT DEF Run
    <3>3. NodeHandoff(n)'
      BY <1>1, <1>3, <1>4, <1>8, <1>9, <3>1, <3>2, NewRunNode
    <3> QED
      BY <2>1, <3>3
  <2>2. CASE m # n
    <3>1. /\ view'[m] = view[m] /\ base'[m] = base[m] /\ handedOff'[m] = handedOff[m]
          /\ target'[m] = target[m] /\ runs'[m] = runs[m] /\ owed'[m] = owed[m]
          /\ data[m] \subseteq data'[m]
      BY <1>3, <1>6, <1>7, <2>2
    <3>2. NodeHandoff(m) /\ \A o \in owed[m] : Done(m, o) => Done(m, o)'
      BY <1>3 DEF IHandoff, Done
    <3> QED
      BY <3>1, <3>2, OtherNode
  <2> QED
    BY <2>1, <2>2
<1> QED
  BY <1>10, <1>11, <1>12 DEF IHandoff

-----------------------------------------------------------------------------
\* All that is owed to the targets of r is done, or q will do it.
LeftTo(n, r, q) ==
  \A o \in owed[n] : o[2] \in handoffTargets(n, r.from, r.to) =>
    Done(n, o)' \/ (q.pc = "push" /\ o[1] \in q.items /\ o[2] \in q.todo)

\* One step of a run: r becomes q, and what was done stays done.
LEMMA ReplaceRun ==
  ASSUME IHandoff, UNCHANGED <<env, view, file, adopt, base, handedOff, target, owed>>,
         NEW n \in Node, NEW r \in runs[n], NEW q \in Run, q.to = r.to, q.from = r.from,
         q.todo \subseteq DOMAIN q.to.members,
         runs' = [runs EXCEPT ![n] = (@ \ {r}) \cup {q}],
         data' \in [Node -> SUBSET Write], hints' \in [Node -> [Node -> SUBSET Write]],
         \A m \in Node : data[m] \subseteq data'[m],
         \A m \in Node : \A o \in Write \X Node : Done(m, o) => Done(m, o)',
         r.to = target[n] => LeftTo(n, r, q)
  PROVE  IHandoff'
<1>1. /\ runs \in [Node -> SUBSET Run] /\ owed \in [Node -> SUBSET (Write \X Node)]
  BY DEF IHandoff, HandoffTypes
<1>2. HandoffTypes'
  BY <1>1 DEF IHandoff, HandoffTypes
<1>3. Addresses'
  <2>1. ASSUME NEW m \in Node, NEW x \in runs'[m]
        PROVE  \E y \in runs[m] : x.to = y.to
    BY <1>1
  <2>2. ASSUME NEW m \in Node
        PROVE  /\ Listens(view[m]) /\ Listens(file[m]) /\ Listens(adopt[m].info)
               /\ \A x \in runs'[m] : Listens(x.to)
    BY <2>1, SMT DEF IHandoff, Addresses, Listens
  <2> QED
    BY <2>2 DEF Addresses, Listens
<1>4. ASSUME NEW m \in Node
      PROVE  NodeHandoff(m)'
  <2>1. NodeHandoff(m) /\ \A o \in owed[m] : Done(m, o) => Done(m, o)'
    BY <1>1 DEF IHandoff
  <2>2. CASE m # n
    <3>1. runs'[m] = runs[m]
      BY <1>1, <2>2
    <3> QED
      BY <2>1, <3>1, OtherNode
  <2>3. CASE m = n
    <3>1. runs'[n] = (runs[n] \ {r}) \cup {q}
      BY <1>1
    <3>2. BaseKept(n)'
      BY <2>1, <2>3 DEF NodeHandoff, BaseKept, Now
    <3>3. OneRun(n)'
      <4>1. \A x \in runs'[n] : x \in runs[n] \/ x = q
        BY <3>1
      <4>2. OneRun(n)
        BY <2>1, <2>3 DEF NodeHandoff
      <4>3. /\ target[n].epoch <= view[n].epoch
            /\ \A x \in runs'[n] : x.to.epoch > 0 /\ x.to.epoch <= view[n].epoch
        BY <4>1, <4>2 DEF OneRun
      <4>4. \A x \in runs'[n] : x.to = target[n] => x.from = base[n]
        BY <4>1, <4>2 DEF OneRun, Current
      <4>5. \A x, y \in runs'[n] : x.to = target[n] /\ y.to = target[n] => x = y
        BY <3>1, <4>2 DEF OneRun, Current
      <4> QED
        BY <4>3, <4>4, <4>5 DEF OneRun, Current
    <3>4. OwedIsLeft(n)'
      <4>1. Owners(base[n])' = Owners(base[n])
        BY DEF Owners, Now
      <4> QED
        BY <2>1, <2>3, <4>1 DEF NodeHandoff, OwedIsLeft
    <3>5. RunCovers(n)'
      <4>1. ASSUME NEW x \in runs'[n]
            PROVE  /\ x.todo \subseteq DOMAIN x.to.members
                   /\ x.to = target[n] /\ x.pc # "keys" =>
                        \A o \in owed[n] : o[2] \in handoffTargets(n, x.from, x.to) =>
                          Done(n, o)' \/ (x.pc = "push" /\ o[1] \in x.items /\ o[2] \in x.todo)
        <5>1. CASE x = q
          BY <5>1 DEF LeftTo
        <5>2. CASE x # q
          <6>1. x \in runs[n]
            BY <3>1, <5>2
          <6> QED
            BY <2>1, <2>3, <6>1 DEF NodeHandoff, RunCovers, Current
        <5> QED
          BY <5>1, <5>2
      <4>2. \A x \in runs'[n] : handoffTargets(n, x.from, x.to)' = handoffTargets(n, x.from, x.to)
        BY SameOwners
      <4> QED
        BY <4>1, <4>2 DEF RunCovers, Current
    <3> QED
      BY <2>3, <3>2, <3>3, <3>4, <3>5 DEF NodeHandoff
  <2> QED
    BY <2>2, <2>3
<1> QED
  BY <1>2, <1>3, <1>4 DEF IHandoff

LEMMA PlanKeeps ==
  ASSUME IHandoff, UNCHANGED env, NEW n \in Node, NEW r \in runs[n], HandoffPlan(n, r)
  PROVE  IHandoff'
<1> DEFINE targets == IF data[n] = {} THEN {} ELSE handoffTargets(n, r.from, r.to)
           q == [r EXCEPT !.pc = IF targets = {} THEN "finish" ELSE "push",
                          !.items = IF targets = {} THEN {} ELSE data[n],
                          !.todo = targets]
<1>1. /\ runs' = [runs EXCEPT ![n] = (@ \ {r}) \cup {q}]
      /\ UNCHANGED <<view, file, adopt, base, handedOff, target, owed, data, hints>>
  BY DEF HandoffPlan, Step, memberVars, viewVars, pingVars, dataVars
<1>2. r \in Run /\ data[n] \subseteq Write /\ data \in [Node -> SUBSET Write]
      /\ hints \in [Node -> [Node -> SUBSET Write]]
  BY DEF IHandoff, HandoffTypes
<1>3. targets \subseteq DOMAIN r.to.members
  BY TargetFacts, OwnersAreMembers
<1>4. targets \subseteq Node
  BY <1>2, <1>3, ViewFacts, MembersFacts DEF Run
<1>5. \A o \in owed[n] : o[2] \in handoffTargets(n, r.from, r.to) => o[1] \in data[n] /\ o[2] \in targets
  <2>1. \A o \in owed[n] : o[1] \in data[n]
    BY DEF IHandoff, NodeHandoff, OwedIsLeft
  <2> QED
    BY <2>1
<1> HIDE DEF targets
<1>6. q \in Run /\ q.to = r.to /\ q.from = r.from /\ q.todo = targets
  BY <1>2, <1>4 DEF Run
<1>7. \A o \in owed[n] : o[2] \in handoffTargets(n, r.from, r.to) =>
        q.pc = "push" /\ o[1] \in q.items /\ o[2] \in q.todo
  <2>1. targets # {} => q.pc = "push" /\ q.items = data[n]
    BY <1>2 DEF Run
  <2> HIDE DEF q
  <2> QED
    BY <1>5, <1>6, <2>1
<1> HIDE DEF q
<1>8. \A m \in Node : \A o \in Write \X Node : Done(m, o) => Done(m, o)'
  BY <1>1 DEF Done
<1>9. q.todo \subseteq DOMAIN q.to.members
  BY <1>3, <1>6
<1>10. LeftTo(n, r, q) /\ q \in Run /\ q.to = r.to /\ q.from = r.from
  BY <1>6, <1>7 DEF LeftTo
<1>11. /\ data' \in [Node -> SUBSET Write] /\ hints' \in [Node -> [Node -> SUBSET Write]]
       /\ \A m \in Node : data[m] \subseteq data'[m]
  BY <1>1, <1>2
<1> QED
  BY <1>1, <1>8, <1>9, <1>10, <1>11, ReplaceRun

\* A target is done, with its copy or with a hint.
LEMMA PushedFacts ==
  ASSUME NEW r \in Run, r.pc = "push", NEW t \in r.todo
  PROVE  /\ Pushed(r, t) \in Run /\ Pushed(r, t).to = r.to /\ Pushed(r, t).from = r.from
         /\ Pushed(r, t).items = r.items /\ Pushed(r, t).todo = r.todo \ {t}
         /\ r.todo # {t} => Pushed(r, t).pc = "push"
BY DEF Pushed, Run

LEMMA PushedKeeps ==
  ASSUME IHandoff, UNCHANGED <<env, view, file, adopt, base, handedOff, target, owed>>,
         NEW n \in Node, NEW r \in runs[n], r.pc = "push", NEW t \in r.todo,
         runs' = [runs EXCEPT ![n] = (@ \ {r}) \cup {Pushed(r, t)}],
         data' \in [Node -> SUBSET Write], hints' \in [Node -> [Node -> SUBSET Write]],
         \A m \in Node : data[m] \subseteq data'[m],
         \A m \in Node : \A o \in Write \X Node : Done(m, o) => Done(m, o)',
         r.items \subseteq data'[t] \cup hints'[n][t]
  PROVE  IHandoff'
<1> DEFINE q == Pushed(r, t)
<1>1. r \in Run /\ owed[n] \subseteq Write \X Node
  BY DEF IHandoff, HandoffTypes
<1>2. /\ q \in Run /\ q.to = r.to /\ q.from = r.from /\ q.items = r.items /\ q.todo = r.todo \ {t}
      /\ r.todo # {t} => q.pc = "push"
  BY <1>1, PushedFacts
<1>3. r.todo \subseteq DOMAIN r.to.members
  BY DEF IHandoff, NodeHandoff, RunCovers
<1> HIDE DEF q
<1>4. ASSUME r.to = target[n], NEW o \in owed[n], o[2] \in handoffTargets(n, r.from, r.to)
      PROVE  Done(n, o)' \/ (q.pc = "push" /\ o[1] \in q.items /\ o[2] \in q.todo)
  <2>1. Done(n, o) \/ (o[1] \in r.items /\ o[2] \in r.todo)
    BY <1>4 DEF IHandoff, NodeHandoff, RunCovers, Current
  <2>2. CASE Done(n, o)
    BY <1>1, <2>2
  <2>3. CASE o[1] \in r.items /\ o[2] = t
    BY <2>3 DEF Done
  <2>4. CASE o[1] \in r.items /\ o[2] \in r.todo \ {t}
    BY <1>2, <2>4
  <2> QED
    BY <2>1, <2>2, <2>3, <2>4
<1>5. q.todo \subseteq DOMAIN q.to.members
  BY <1>2, <1>3
<1>6. runs' = [runs EXCEPT ![n] = (@ \ {r}) \cup {q}]
  BY DEF q
<1>7. r.to = target[n] => LeftTo(n, r, q)
  BY <1>4 DEF LeftTo
<1>8. q \in Run /\ q.to = r.to /\ q.from = r.from
  BY <1>2
<1> QED
  BY <1>5, <1>6, <1>7, <1>8, ReplaceRun

LEMMA PushKeeps ==
  ASSUME IHandoff, UNCHANGED env, NEW n \in Node, NEW r \in runs[n], NEW t \in r.todo,
         HandoffPush(n, r, t)
  PROVE  IHandoff'
<1>1. r.to.members[t] = t /\ r \in Run
  BY DEF IHandoff, HandoffTypes, Addresses, Listens, NodeHandoff, RunCovers
<1>2. /\ data' = [data EXCEPT ![t] = @ \cup r.items]
      /\ runs' = [runs EXCEPT ![n] = (@ \ {r}) \cup {Pushed(r, t)}]
      /\ UNCHANGED <<view, file, adopt, base, handedOff, target, owed, hints>> /\ r.pc = "push"
  BY <1>1 DEF HandoffPush, Step, memberVars, viewVars, pingVars
<1>3. data \in [Node -> SUBSET Write] /\ hints \in [Node -> [Node -> SUBSET Write]]
      /\ r.items \subseteq Write /\ t \in Node
  BY <1>1 DEF IHandoff, HandoffTypes, Run
<1>4. /\ data' \in [Node -> SUBSET Write] /\ r.items \subseteq data'[t]
      /\ \A m \in Node : data[m] \subseteq data'[m]
  BY <1>2, <1>3
<1>5. \A m \in Node : \A o \in Write \X Node : Done(m, o) => Done(m, o)'
  BY <1>2, <1>4 DEF Done
<1> QED
  BY <1>2, <1>3, <1>4, <1>5, PushedKeeps

LEMMA HintKeeps ==
  ASSUME IHandoff, UNCHANGED env, NEW n \in Node, NEW r \in runs[n], NEW t \in r.todo,
         HandoffHint(n, r, t)
  PROVE  IHandoff'
<1>1. r \in Run
  BY DEF IHandoff, HandoffTypes
<1>2. /\ hints' = [hints EXCEPT ![n][t] = @ \cup r.items]
      /\ runs' = [runs EXCEPT ![n] = (@ \ {r}) \cup {Pushed(r, t)}]
      /\ UNCHANGED <<view, file, adopt, base, handedOff, target, owed, data>> /\ r.pc = "push"
  BY DEF HandoffHint, Step, memberVars, viewVars, pingVars
<1>3. data \in [Node -> SUBSET Write] /\ hints \in [Node -> [Node -> SUBSET Write]]
      /\ r.items \subseteq Write /\ t \in Node
  BY <1>1 DEF IHandoff, HandoffTypes, Run
<1>4. /\ hints' \in [Node -> [Node -> SUBSET Write]] /\ r.items \subseteq hints'[n][t]
      /\ \A m, p \in Node : hints[m][p] \subseteq hints'[m][p]
  BY <1>2, <1>3
<1>5. \A m \in Node : \A o \in Write \X Node : Done(m, o) => Done(m, o)'
  BY <1>2, <1>4 DEF Done
<1>6. data' \in [Node -> SUBSET Write] /\ \A m \in Node : data[m] \subseteq data'[m]
  BY <1>2, <1>3
<1>7. r.items \subseteq data'[t] \cup hints'[n][t]
  BY <1>4
<1> QED
  BY <1>2, <1>4, <1>5, <1>6, <1>7, PushedKeeps

\* The current run has done what is owed to the owners in its view; one
\* that is superseded records nothing.
LEMMA FinishKeeps ==
  ASSUME IView, Reliable(env), IHandoff, UNCHANGED env, NEW n \in Node, NEW r \in runs[n],
         FinishHandoff(n, r)
  PROVE  IHandoff'
<1>1. /\ runs' = [runs EXCEPT ![n] = @ \ {r}] /\ r.pc = "finish"
      /\ UNCHANGED <<view, file, adopt, target, owed, data, hints>>
  BY DEF FinishHandoff, Step, memberVars, viewVars, pingVars, dataVars
<1>2. \/ r.to # target[n] /\ UNCHANGED <<base, handedOff>>
      \/ /\ r.to = target[n] /\ base' = [base EXCEPT ![n] = r.to]
         /\ handedOff' = [handedOff EXCEPT ![n] = r.to]
  BY ReliableFacts DEF FinishHandoff
<1>3. /\ runs \in [Node -> SUBSET Run] /\ base \in [Node -> View]
      /\ handedOff \in [Node -> AnyView] /\ r \in Run
  BY DEF IHandoff, HandoffTypes
<1>4. r.to \in View /\ r.to \in AnyView
  BY <1>3, ViewFacts DEF Run
<1>5. HandoffTypes'
  <2>1. runs' \in [Node -> SUBSET Run]
    BY <1>1, <1>3
  <2>2. base' \in [Node -> View] /\ handedOff' \in [Node -> AnyView]
    BY <1>2, <1>3, <1>4
  <2> QED
    BY <1>1, <2>1, <2>2 DEF IHandoff, HandoffTypes
<1>6. \A m \in Node : runs'[m] \subseteq runs[m]
  BY <1>1, <1>3
<1>7. Addresses'
  BY <1>1, <1>6 DEF IHandoff, Addresses, Listens
<1>8. ASSUME NEW m \in Node
      PROVE  NodeHandoff(m)'
  <2>1. NodeHandoff(m) /\ \A o : Done(m, o)' <=> Done(m, o)
    BY <1>1 DEF IHandoff, Done
  <2>2. CASE m # n
    <3>1. runs'[m] = runs[m] /\ base'[m] = base[m] /\ handedOff'[m] = handedOff[m]
      BY <1>1, <1>2, <1>3, <2>2
    <3> QED
      BY <1>1, <2>1, <3>1, OtherNode
  <2>3. CASE m = n
    <3>1. runs'[n] = runs[n] \ {r}
      BY <1>1, <1>3
    <3>2. RunCovers(n)'
      <4>1. CASE r.to # target[n]
        BY <1>1, <2>1, <2>3, <3>1 DEF NodeHandoff, RunCovers, Current, handoffTargets, Owners, Now
      <4>2. CASE r.to = target[n]
        <5>1. \A x \in runs'[n] : x.to # target[n]
          BY <2>1, <2>3, <3>1, <4>2 DEF NodeHandoff, OneRun, Current
        <5> QED
          BY <1>1, <2>1, <2>3, <3>1, <5>1 DEF NodeHandoff, RunCovers, Current
      <4> QED
        BY <4>1, <4>2
    <3>3. OneRun(n)'
      <4>1. CASE r.to # target[n]
        BY <1>1, <1>2, <2>1, <2>3, <3>1, <4>1 DEF NodeHandoff, OneRun, Current
      <4>2. CASE r.to = target[n]
        <5>1. \A x \in runs'[n] : x.to # target[n]
          BY <2>1, <2>3, <3>1, <4>2 DEF NodeHandoff, OneRun, Current
        <5> QED
          BY <1>1, <2>1, <2>3, <3>1, <5>1 DEF NodeHandoff, OneRun, Current
      <4> QED
        BY <4>1, <4>2
    <3>4. BaseKept(n)'
      <4>1. CASE r.to # target[n]
        BY <1>1, <1>2, <2>1, <2>3, <4>1 DEF NodeHandoff, BaseKept, Now
      <4>2. CASE r.to = target[n]
        <5>1. base'[n] = r.to /\ handedOff'[n] = r.to
          BY <1>2, <1>3, <4>2
        <5>2. r.to.epoch > 0 /\ r.to.epoch <= view[n].epoch
          BY <2>1, <2>3 DEF NodeHandoff, OneRun
        <5>3. r.to # NoView
          BY <5>2, ViewFacts, SMT
        <5> QED
          BY <1>1, <5>1, <5>2, <5>3 DEF BaseKept
      <4> QED
        BY <4>1, <4>2
    <3>5. OwedIsLeft(n)'
      <4>1. \A o \in owed[n] : o[1] \in data[n] /\ o[2] # n /\ (Done(n, o) \/ o[2] \notin Owners(base[n]))
        BY <2>1, <2>3 DEF NodeHandoff, OwedIsLeft
      <4>2. \A o \in owed[n] : Done(n, o) \/ o[2] \notin Owners(base'[n])
        <5>1. CASE r.to # target[n]
          BY <1>2, <4>1, <5>1
        <5>2. CASE r.to = target[n]
          <6>1. base'[n] = r.to /\ r.from = base[n]
            BY <1>2, <1>3, <2>1, <2>3, <5>2 DEF NodeHandoff, OneRun, Current
          <6>2. \A o \in owed[n] : o[2] \in handoffTargets(n, r.from, r.to) => Done(n, o)
            BY <1>1, <2>1, <2>3, <5>2 DEF NodeHandoff, RunCovers, Current
          <6>3. Owners(r.to) \ (Owners(r.from) \cup {n}) \subseteq handoffTargets(n, r.from, r.to)
            BY TargetFacts
          <6> QED
            BY <4>1, <6>1, <6>2, <6>3
        <5> QED
          BY <5>1, <5>2
      <4>3. Owners(base[n])' = Owners(base'[n])
        BY DEF Owners, Now
      <4> QED
        BY <1>1, <2>1, <2>3, <4>1, <4>2, <4>3 DEF OwedIsLeft
    <3> QED
      BY <2>3, <3>2, <3>3, <3>4, <3>5 DEF NodeHandoff
  <2> QED
    BY <2>2, <2>3
<1> QED
  BY <1>5, <1>7, <1>8 DEF IHandoff

-----------------------------------------------------------------------------
LEMMA InitHandoff == Init /\ Reliable(env) => IHandoff
<1> SUFFICES ASSUME Init, Reliable(env)
             PROVE  IHandoff
  OBVIOUS
<1>1. IView
  BY InitView
<1>2. /\ data = [n \in Node |-> {}] /\ hints = [n \in Node |-> [t \in Node |-> {}]]
      /\ base = view /\ target = view /\ handedOff = [n \in Node |-> NoView]
      /\ runs = [n \in Node |-> {}] /\ owed = [n \in Node |-> {}]
      /\ file = [n \in Node |-> NoView] /\ adopt = [n \in Node |-> NotAdopting]
      /\ view = [n \in Node |-> Load(n)]
  BY DEF Init, MembershipInit
<1>3. \A n \in Node : view[n] = [epoch |-> 0, members |-> Now.config[n]]
  BY <1>2 DEF Load
<1>4. HandoffTypes
  BY <1>1, <1>2, ViewFacts DEF HandoffTypes, IView, MembershipTypes
<1>5. Addresses
  BY <1>2, <1>3, ReliableFacts DEF Addresses, NotAdopting
<1>6. ASSUME NEW n \in Node
      PROVE  NodeHandoff(n)
  <2>1. view[n].epoch \in Nat
    BY <1>1, ViewFacts DEF IView, MembershipTypes
  <2>2. BaseKept(n)
    BY <1>2, <1>3, <2>1, SMT DEF BaseKept
  <2>3. runs[n] = {} /\ owed[n] = {} /\ target[n] = view[n]
    BY <1>2
  <2>4. OneRun(n) /\ OwedIsLeft(n) /\ RunCovers(n)
    BY <2>1, <2>3, EpochOrder DEF OneRun, OwedIsLeft, RunCovers
  <2> QED
    BY <2>2, <2>4 DEF NodeHandoff
<1> QED
  BY <1>4, <1>5, <1>6 DEF IHandoff

\* The steps that are no handoff change no view, or end a process.
LEMMA NextHandoff ==
  ASSUME IView, Reliable(env), IHandoff, [Next]_vars
  PROVE  IHandoff'
<1>1. UNCHANGED env
  BY StepOfMembers
<1>2. Addresses
  BY DEF IHandoff
<1>3. ASSUME UNCHANGED <<view, file, adopt, handoffVars, data, hints>>
      PROVE  IHandoff'
  <2>1. Addresses'
    BY <1>2, <1>3 DEF Addresses, Listens, handoffVars
  <2> QED
    BY <1>1, <1>3, <2>1, SameHandoff
<1>4. CASE UNCHANGED vars
  BY <1>3, <1>4 DEF vars, memberVars, viewVars, pingVars, dataVars
<1>5. CASE WriteStep
  <2>1. PICK w \in Write : WriteOver(w) \/ \E n \in Node : WriteBegin(w, n) \/ WriteLands(w, n)
    BY <1>5 DEF WriteStep
  <2>2. CASE WriteOver(w) \/ \E n \in Node : WriteBegin(w, n)
    BY <1>3, <2>2 DEF WriteOver, WriteBegin, memberVars, viewVars, pingVars
  <2>3. CASE \E n \in Node : WriteLands(w, n)
    BY <1>1, <2>3, WriteLandsKeeps
  <2> QED
    BY <2>1, <2>2, <2>3
<1>6. CASE \E n \in Node : NodeStep(n)
  <2>1. PICK n \in Node : NodeStep(n)
    BY <1>6
  <2>2. CASE PublishView(n)
    BY <1>1, <2>2, PublishKeeps
  <2>3. CASE Start(n)
    BY <1>1, <2>3, StartKeeps
  <2>4. CASE Crash(n) \/ StopStep(n)
    <3>1. /\ Ends(n) /\ runs' = [runs EXCEPT ![n] = {}]
          /\ UNCHANGED <<base, handedOff, target, owed, data, hints>>
      BY <2>4 DEF Crash, NodeCrash, StopStep, StopDrained, dataVars
    <3> QED
      BY <1>1, <3>1, EndsKeeps
  <2>5. CASE RunStep(n)
    BY <1>1, <2>5, PlanKeeps, FinishKeeps DEF RunStep
  <2>6. CASE PushStep(n)
    BY <1>1, <2>6, PushKeeps DEF PushStep
  <2>7. CASE HintStep(n)
    BY <1>1, <2>7, HintKeeps DEF HintStep
  <2>8. CASE \E t \in Node : DeliverHints(n, t)
    BY <1>1, <2>8, DeliverHintsKeeps
  <2>9. CASE \/ \E v \in Now.declared : DeclareNext(n, v)
             \/ Gossip(AdoptFetch(n) \/ AdoptFails(n) \/ AdoptSet(n) \/ PingAnswered(n))
             \/ \E p \in Node : Gossip(PingStep(n, p))
    <3>1. UNCHANGED <<handoffVars, data, hints>>
      BY <2>9 DEF DeclareNext, Gossip, dataVars
    <3>2. \/ \E v \in Now.declared : Declare(n, v)
          \/ AdoptFetch(n) \/ AdoptFails(n) \/ AdoptSet(n) \/ PingAnswered(n)
          \/ \E p \in Node : Ping(n, p) \/ PingFails(n, p) \/ PingSlowly(n, p)
      BY <2>9 DEF DeclareNext, Gossip, PingStep
    <3> QED
      BY <1>1, <3>1, <3>2, GossipKeeps
  <2> QED
    BY <2>1, <2>2, <2>3, <2>4, <2>5, <2>6, <2>7, <2>8, <2>9 DEF NodeStep
<1> QED
  BY <1>4, <1>5, <1>6 DEF Next

(***************************************************************************)
(* In every scenario in which nodes listen where the views say and write   *)
(* what they persist, a completed handoff has done all that the views      *)
(* obliged the node to: for any nodes, views, order of declarations, and   *)
(* crashes.                                                                *)
(***************************************************************************)
THEOREM HandoffsComplete == Spec => [](Reliable(env) => HandoffComplete)
<1> DEFINE I == IView /\ (Reliable(env) => IHandoff)
<1>1. Init => I
  BY InitView, InitHandoff
<1>2. I /\ [Next]_vars => I'
  <2> SUFFICES ASSUME I, [Next]_vars
               PROVE  I'
    OBVIOUS
  <2>1. IView'
    BY NextView
  <2>2. Reliable(env)' => Reliable(env)
    BY StepOfMembers DEF Reliable
  <2>3. Reliable(env)' => IHandoff'
    BY <2>2, NextHandoff
  <2> QED
    BY <2>1, <2>3
<1>3. I => (Reliable(env) => HandoffComplete)
  <2> SUFFICES ASSUME IView, IHandoff, NEW n \in up, base[n] = view[n],
                      NEW o \in owed[n], o[2] \in Owners(view[n])
               PROVE  o[1] \in data[view[n].members[o[2]]] \cup hints[n][o[2]]
    BY DEF HandoffComplete
  <2>1. n \in Node
    BY DEF IView, MembershipTypes
  <2>2. Done(n, o)
    BY <2>1 DEF IHandoff, NodeHandoff, OwedIsLeft
  <2>3. view[n].members[o[2]] = o[2]
    BY <2>1, OwnersAreMembers, ZenonT(40) DEF IHandoff, Addresses, Listens
  <2> QED
    BY <2>2, <2>3 DEF Done
<1> QED
  BY <1>1, <1>2, <1>3, PTL DEF Spec

-----------------------------------------------------------------------------
\* Where the views come from that a step gives a node.
LEMMA ViewSources ==
  ASSUME IView, NEW n \in Node, MemberStep(n), NEW m \in Node
  PROVE  /\ view'[m] = view[m] \/ view'[m] = Load(m)
         /\ file'[m] = file[m] \/ file'[m] \in Now.declared \/ file'[m] = adopt[m].info
         /\ \/ adopt'[m].info = adopt[m].info \/ adopt'[m].info = NoView
            \/ \E d \in Node : adopt'[m].info = view[d]
<1>1. /\ view \in [Node -> View] /\ file \in [Node -> AnyView] /\ adopt \in [Node -> Adopting]
      /\ up \subseteq Node
  BY DEF IView, MembershipTypes
<1>2. CASE \E v \in Now.declared : Declare(n, v)
  <2>1. PICK v \in Now.declared : Declare(n, v)
    BY <1>2
  <2>2. view' = view /\ adopt' = adopt /\ (file' = file \/ file' = [file EXCEPT ![n] = v])
    BY <2>1 DEF Declare, pingVars, SetMembership, SetFails
  <2> QED
    BY <1>1, <2>2
<1>3. CASE Publish(n)
  <2>1. /\ view' = [view EXCEPT ![n] = Load(n)] /\ file' = file
        /\ adopt' = adopt \/ adopt' = [adopt EXCEPT ![n] = NotAdopting]
    BY <1>3, PublishIsNewer DEF Publish
  <2>2. adopt'[m] = adopt[m] \/ adopt'[m] = NotAdopting
    BY <1>1, <2>1
  <2>3. adopt'[m].info = adopt[m].info \/ adopt'[m].info = NoView
    BY <2>2, SMT DEF NotAdopting
  <2> QED
    BY <1>1, <2>1, <2>3
<1>4. CASE Ends(n) \/ AdoptFails(n)
  <2>1. view' = view /\ file' = file /\ adopt' = [adopt EXCEPT ![n] = NotAdopting]
    BY <1>4 DEF Ends, AdoptFails, viewVars
  <2> QED
    BY <1>1, <2>1 DEF NotAdopting
<1>5. CASE NodeStart(n)
  <2>1. view' = [view EXCEPT ![n] = Load(n)] /\ file' = file /\ adopt' = adopt
    BY <1>5 DEF NodeStart, pingVars
  <2> QED
    BY <1>1, <2>1
<1>6. CASE AdoptFetch(n)
  <2>1. /\ view' = view /\ file' = file /\ adopt[n].at \in Node
        /\ adopt' = [adopt EXCEPT ![n].pc = "set", ![n].info = view[adopt[n].at]]
    BY <1>1, <1>6 DEF AdoptFetch, viewVars, Reaches
  <2>2. adopt'[m].info = adopt[m].info \/ adopt'[m].info = view[adopt[n].at]
    BY <1>1, <2>1 DEF Adopting
  <2> QED
    BY <2>1, <2>2
<1>7. CASE AdoptSet(n)
  <2>1. /\ view' = view /\ (file' = file \/ file' = [file EXCEPT ![n] = adopt[n].info])
        /\ adopt' = [adopt EXCEPT ![n].pc = "wait"] \/ adopt' = [adopt EXCEPT ![n] = NotAdopting]
    BY <1>7 DEF AdoptSet, SetMembership, SetFails
  <2>2. adopt'[m].info = adopt[m].info \/ adopt'[m].info = NoView
    BY <1>1, <2>1, SMT DEF NotAdopting, Adopting
  <2> QED
    BY <1>1, <2>1, <2>2
<1>8. CASE PingAnswered(n) \/ \E p \in Node : Ping(n, p) \/ PingFails(n, p) \/ PingSlowly(n, p)
  <2>1. view' = view /\ file' = file
    BY <1>8 DEF PingAnswered, Ping, PingFails, PingSlowly, viewVars
  <2> QED
    BY <1>8, <2>1, PingInfo
<1> QED
  BY <1>2, <1>3, <1>4, <1>5, <1>6, <1>7, <1>8 DEF MemberStep

LEMMA StaysDeclared ==
  ASSUME IView, IStopped, [Next]_vars, NEW m \in Node
  PROVE  IsDeclared(view[m])' /\ IsDeclared(file[m])' /\ IsDeclared(adopt[m].info)'
<1>1. UNCHANGED env
  BY StepOfMembers
<1>2. \A p \in Node : IsDeclared(view[p]) /\ IsDeclared(file[p]) /\ IsDeclared(adopt[p].info)
  BY DEF IStopped
<1>3. IsDeclared(NoView) /\ \A v \in Now.declared : IsDeclared(v)
  BY ViewFacts, EpochOrder, SMT DEF IsDeclared
<1>4. IsDeclared(Load(m))
  BY <1>2, SMT DEF Load, IsDeclared
<1>5. \A v : IsDeclared(v) => (v.epoch > 0 => v \in Now.declared)
  BY DEF IsDeclared
<1>6. /\ view'[m] = view[m] \/ view'[m] = Load(m)
      /\ file'[m] = file[m] \/ file'[m] \in Now.declared \/ file'[m] = adopt[m].info
      /\ \/ adopt'[m].info = adopt[m].info \/ adopt'[m].info = NoView
         \/ \E d \in Node : adopt'[m].info = view[d]
  <2>1. CASE UNCHANGED memberVars
    BY <2>1 DEF memberVars, viewVars, pingVars
  <2>2. CASE \E n \in Node : MemberStep(n)
    BY <2>2, ViewSources
  <2> QED
    BY <2>1, <2>2, StepOfMembers
<1>7. IsDeclared(view'[m]) /\ IsDeclared(file'[m]) /\ IsDeclared(adopt'[m].info)
  BY <1>2, <1>3, <1>4, <1>6
<1> QED
  BY <1>1, <1>7 DEF IsDeclared, Now

\* A stop of n, or a step that stops nobody.
LEMMA StopsOnly ==
  ASSUME [Next]_vars
  PROVE  \/ \E n \in Node, v \in Now.declared : StopDrained(n, v)
         \/ stopped' = stopped /\ (up' \subseteq up \/ \E n \in Node \ stopped : up' = up \cup {n})
<1>1. CASE UNCHANGED vars
  BY <1>1 DEF vars, memberVars, dataVars
<1>2. CASE WriteStep
  BY <1>2 DEF WriteStep, WriteOver, WriteBegin, WriteLands, memberVars
<1>3. ASSUME NEW n \in Node, NodeStep(n)
      PROVE  \/ \E v \in Now.declared : StopDrained(n, v)
             \/ stopped' = stopped /\ (up' \subseteq up \/ (n \notin stopped /\ up' = up \cup {n}))
  <2>1. CASE RunStep(n) \/ PushStep(n) \/ HintStep(n) \/ \E t \in Node : DeliverHints(n, t)
    <3>1. UNCHANGED <<memberVars, stopped>>
      BY <2>1 DEF RunStep, PushStep, HintStep, HandoffPlan, FinishHandoff, HandoffPush,
                         HandoffHint, DeliverHints, dataVars
    <3> QED
      BY <3>1 DEF memberVars
  <2>2. CASE PublishView(n)
    BY <2>2 DEF PublishView, Publish, dataVars
  <2>3. CASE Crash(n)
    BY <2>3 DEF Crash, NodeCrash, Ends, dataVars
  <2>4. CASE Start(n)
    BY <2>4 DEF Start, NodeStart, dataVars
  <2>5. CASE StopStep(n)
    BY <2>5 DEF StopStep
  <2>6. CASE \E v \in Now.declared : DeclareNext(n, v)
    BY <2>6 DEF DeclareNext, Declare, dataVars
  <2>7. CASE Gossip(AdoptFetch(n) \/ AdoptFails(n) \/ AdoptSet(n) \/ PingAnswered(n))
    BY <2>7 DEF Gossip, AdoptFetch, AdoptFails, AdoptSet, PingAnswered, dataVars
  <2>8. CASE \E p \in Node : Gossip(PingStep(n, p))
    BY <2>8 DEF Gossip, PingStep, Ping, PingFails, PingSlowly, dataVars
  <2> QED
    BY <1>3, <2>1, <2>2, <2>3, <2>4, <2>5, <2>6, <2>7, <2>8 DEF NodeStep
<1> QED
  BY <1>1, <1>2, <1>3 DEF Next

\* Who is drained, and out of its view, has seen its peers past the epoch.
LEMMA DrainedIsOut ==
  ASSUME IView, NEW n \in Node, NEW v \in Now.declared, StopDrained(n, v),
         NEW p \in DOMAIN view[n].members \ {n}
  PROVE  view[p].epoch >= v.epoch
<1>1. p \in DOMAIN health[n] /\ health[n][p].epoch >= v.epoch
  BY DEF StopDrained, Drained, allPeersAtLeast
<1>2. p \in Node /\ health[n][p].epoch \in Nat /\ health[n][p].epoch <= view[p].epoch
  BY <1>1 DEF IView, EpochsSeen, GoodHealth
<1>3. v.epoch \in Nat /\ view[p].epoch \in Nat
  BY <1>2, ScenarioFacts, ViewFacts DEF IView, MembershipTypes
<1> QED
  BY <1>1, <1>2, <1>3, SMT

LEMMA NextStopped ==
  ASSUME IView, IStopped, [Next]_vars
  PROVE  IStopped'
<1>1. ASSUME NEW m \in Node, m \in stopped'
      PROVE  /\ m \notin up'
             /\ \E v \in Now.declared :
                  /\ ~IsMember(m, v)
                  /\ \A p \in DOMAIN view'[m].members \ {m} : view'[p].epoch >= v.epoch
  <2>1. view \in [Node -> View]
    BY DEF IView, MembershipTypes
  <2>2. CASE m \in stopped
    <3>1. PICK v \in Now.declared :
            /\ ~IsMember(m, v)
            /\ \A p \in DOMAIN view[m].members \ {m} : view[p].epoch >= v.epoch
      BY <2>2 DEF IStopped, StoppedIsOut
    <3>2. m \notin up
      BY <2>2 DEF IStopped, StoppedIsOut
    <3>3. m \notin up'
      BY <2>2, <3>2, StopsOnly DEF StopDrained, Ends
    <3>4. view'[m] = view[m]
      <4>1. CASE UNCHANGED memberVars
        BY <4>1 DEF memberVars, viewVars
      <4>2. ASSUME NEW k \in Node, MemberStep(k)
            PROVE  view'[m] = view[m]
        <5>1. CASE Publish(k)
          BY <2>1, <3>2, <5>1 DEF Publish
        <5>2. CASE NodeStart(k)
          BY <2>1, <3>3, <5>2 DEF NodeStart
        <5>3. Publish(k) \/ NodeStart(k) \/ UNCHANGED view
          BY <4>2 DEF MemberStep, Declare, Ends, AdoptFetch, AdoptFails, AdoptSet,
                             PingAnswered, Ping, PingFails, PingSlowly, viewVars
        <5> QED
          BY <5>1, <5>2, <5>3
      <4> QED
        BY <4>1, <4>2, StepOfMembers
    <3>5. ASSUME NEW p \in DOMAIN view[m].members \ {m}
          PROVE  view'[p].epoch >= v.epoch
      <4>1. p \in Node
        BY <2>1, ViewFacts, MembersFacts
      <4>2. view[p].epoch >= v.epoch
        BY <3>1
      <4>3. view'[p] = view[p] \/ view'[p].epoch > view[p].epoch
        BY <4>1, ViewStep
      <4>4. view[p].epoch \in Nat /\ view'[p].epoch \in Nat /\ v.epoch \in Nat
        BY <2>1, <4>1, NextView, ScenarioFacts, ViewFacts DEF IView, MembershipTypes
      <4> QED
        BY <4>2, <4>3, <4>4, SMT
    <3> QED
      BY <3>1, <3>3, <3>4, <3>5
  <2>3. CASE m \notin stopped
    <3>1. PICK n \in Node, v \in Now.declared : StopDrained(n, v)
      BY <1>1, <2>3, StopsOnly
    <3>2. n = m /\ ~IsMember(m, v) /\ m \notin up' /\ view' = view
      BY <1>1, <2>3, <3>1 DEF StopDrained, Ends
    <3> QED
      BY <3>1, <3>2, DrainedIsOut
  <2> QED
    BY <2>2, <2>3
<1>2. UNCHANGED env
  BY StepOfMembers
<1>3. \A m \in Node : StoppedIsOut(m)'
  BY <1>1, <1>2 DEF StoppedIsOut, IsMember, Now
<1>4. stopped' \subseteq Node
  BY StopsOnly DEF IStopped, StopDrained
<1> QED
  BY <1>3, <1>4, StaysDeclared DEF IStopped

(***************************************************************************)
(* Where no node that was declared out is declared in again, a node that   *)
(* is stopped is in no view that one of its peers holds, or would come     *)
(* back with after a crash: for any nodes, views, failures and order of    *)
(* events.  What the operator relies on in WaitDrained, the epochs seen in *)
(* replies to heartbeats, is enough.                                       *)
(***************************************************************************)
THEOREM StoppedNodesAreUnused == Spec => [](LeaversStayOut(env) => StoppedIsUnused)
<1> DEFINE I == IView /\ IStopped
<1>1. Init => I
  <2> SUFFICES ASSUME Init
               PROVE  IStopped
    BY InitView
  <2>1. /\ stopped = {} /\ file = [n \in Node |-> NoView] /\ view = [n \in Node |-> Load(n)]
        /\ adopt = [n \in Node |-> NotAdopting]
    BY DEF Init, MembershipInit
  <2>2. \A n \in Node : view[n].epoch = 0 /\ file[n].epoch = 0 /\ adopt[n].info.epoch = 0
    BY <2>1, ViewFacts DEF Load, NotAdopting
  <2>3. \A n \in Node : IsDeclared(view[n]) /\ IsDeclared(file[n]) /\ IsDeclared(adopt[n].info)
    BY <2>2, SMT DEF IsDeclared
  <2> QED
    BY <2>1, <2>3 DEF IStopped, StoppedIsOut
<1>2. I /\ [Next]_vars => I'
  BY NextView, NextStopped
<1>3. I => (LeaversStayOut(env) => StoppedIsUnused)
  <2> SUFFICES ASSUME IView, IStopped, LeaversStayOut(env), NEW n \in stopped,
                      NEW p \in DOMAIN view[n].members \ stopped, IsMember(n, Load(p))
               PROVE  FALSE
    BY DEF StoppedIsUnused
  <2>1. n \in Node /\ n # p /\ p \in Node /\ view[n] \in View
    BY ViewFacts, MembersFacts DEF IStopped, IView, MembershipTypes
  <2>2. PICK v \in Now.declared : ~IsMember(n, v) /\ view[p].epoch >= v.epoch
    BY <2>1 DEF IStopped, StoppedIsOut
  <2>3. v.epoch > 0 /\ \A u \in Now.declared : u.epoch >= v.epoch => ~IsMember(n, u)
    BY <2>1, <2>2 DEF LeaversStayOut, IsMember, Now
  <2>4. Load(p).epoch >= v.epoch /\ Load(p).epoch > 0
    <3>1. v.epoch \in Nat
      BY ScenarioFacts, ViewFacts DEF IView, MembershipTypes
    <3> QED
      BY <2>1, <2>2, <2>3, <3>1, LoadIsLater, SMT
  <2>5. Load(p) \in Now.declared
    <3>1. Load(p) = file[p]
      BY <2>1, <2>4, LoadIsLater, SMT DEF Load
    <3> QED
      BY <2>1, <2>4, <3>1 DEF IStopped, IsDeclared
  <2> QED
    BY <2>3, <2>4, <2>5
<1> QED
  BY <1>1, <1>2, <1>3, PTL DEF Spec

=============================================================================
