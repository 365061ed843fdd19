-------------------------- MODULE LifecycleProofs ---------------------------
(***************************************************************************)
(* Proofs about starting processes, for any number of them, any hardware   *)
(* and any settings.                                                       *)
(***************************************************************************)
EXTENDS Lifecycle, TLAPS

\* A process past the lock has it: the socket is bound when a process passes,
\* and released only with the process that ends.
PastLock ==
  /\ pc \in [Procs -> Alive \cup {"off", "failed", "done"}]
  /\ \A p \in Procs : pc[p] \in Locked => lock = p

LEMMA LockSteps == PastLock /\ [LifeNext]_lifeVars => PastLock'
<1> SUFFICES ASSUME PastLock, [LifeNext]_lifeVars PROVE PastLock'
  OBVIOUS
<1> USE DEF PastLock, Alive, Locked
<1>1. ASSUME NEW p \in Procs, Start(p) PROVE PastLock'
  BY <1>1 DEF Start, Goes
<1>2. ASSUME NEW p \in Procs, NEW from \in Alive, Fails(p, from) PROVE PastLock'
  BY <1>2 DEF Fails, Goes, Released
<1>3. ASSUME NEW p \in Procs, Main(p) PROVE PastLock'
  <2>1. CASE LoadConfig(p)
    BY <2>1, <1>2 DEF LoadConfig, Fault, Goes
  <2>2. CASE AcquireLock(p)
    BY <2>2, <1>2, LifecycleAssumption
    DEF AcquireLock, LockIsFree, Fault, Goes, LifecycleAssumption
  <2>3. CASE OpenDecisionLog(p)
    BY <2>3, <1>2 DEF OpenDecisionLog, Fault, Goes
  <2>4. CASE FindTouchpad(p)
    BY <2>4, <1>2 DEF FindTouchpad, Goes
  <2>5. CASE CreateDevice(p)
    BY <2>5, <1>2 DEF CreateDevice, Fault, Goes
  <2>6. CASE OpenTouchpad(p)
    BY <2>6, <1>2 DEF OpenTouchpad, Fault, Goes
  <2>7. CASE FindButtons(p)
    BY <2>7, <1>2 DEF FindButtons, Fault, Goes
  <2>8. CASE Finish(p)
    BY <2>8 DEF Finish, Goes, Released
  <2> QED
    BY <1>3, <2>1, <2>2, <2>3, <2>4, <2>5, <2>6, <2>7, <2>8 DEF Main
<1>4. ASSUME NEW p \in Procs, Kill(p) PROVE PastLock'
  BY <1>4 DEF Kill, Released
<1>5. ASSUME NEW p \in Procs, Surroundings(p) PROVE PastLock'
  BY <1>5 DEF Surroundings, Reap, Restart, Goes
<1>6. ASSUME NEW h \in Hardware, Plug(h) \/ Unplug(h) PROVE PastLock'
  BY <1>6 DEF Plug, Unplug
<1>7. CASE UNCHANGED lifeVars
  BY <1>7 DEF lifeVars
<1> QED
  BY <1>1, <1>3, <1>4, <1>5, <1>6, <1>7 DEF LifeNext

\* Only one process at a time acts on the devices (instance_lock.rs:10-25).
THEOREM OnlyOneActs == LifeSpec => []OneDaemonActs
<1>1. LifeInit => PastLock
  BY DEF LifeInit, PastLock, Locked, Alive
<1>2. PastLock => OneDaemonActs
  BY DEF PastLock, OneDaemonActs
<1> QED
  BY <1>1, <1>2, LockSteps, PTL DEF LifeSpec

-----------------------------------------------------------------------------
\* What place a node has says to which hardware it belongs: the daemon's own
\* devices have none.
Placed ==
  \A n \in nodes : n.phys # None =>
    n.hw \in Hardware /\ \E part \in Parts[n.hw] : part.phys = n.phys

\* What find_touchpad_button_device found out about its choice.
Chosen ==
  \A p \in Procs :
    pc[p] = "run" /\ button[p] # None
      => /\ pad[p].phys # None
         /\ button[p].phys = pad[p].phys
         /\ button[p].path # pad[p].path

ButtonInv ==
  /\ DOMAIN pc = Procs /\ DOMAIN pad = Procs /\ DOMAIN button = Procs
  /\ Placed
  /\ Chosen

LEMMA PlacedSteps == Placed /\ [LifeNext]_lifeVars => Placed'
<1> SUFFICES ASSUME Placed, [LifeNext]_lifeVars PROVE Placed'
  OBVIOUS
<1> USE DEF Placed
<1>1. ASSUME nodes' \subseteq nodes PROVE Placed'
  BY <1>1
<1>2. ASSUME NEW p \in Procs, CreateDevice(p) PROVE Placed'
  <2>1. nodes' \subseteq nodes \/ \E path \in FreePaths :
          nodes' = nodes \cup {WithPath(VirtualPart, p, path)}
    BY <1>2 DEF CreateDevice, Fault, Fails, Vanish
  <2>2. \A path : WithPath(VirtualPart, p, path).phys = None
    BY DEF WithPath, VirtualPart
  <2> QED
    BY <1>1, <2>1, <2>2
<1>3. ASSUME NEW h \in Hardware, Plug(h) PROVE Placed'
  <2>1. PICK at : nodes' = nodes \cup {WithPath(part, h, at[part]) : part \in Parts[h]}
    BY <1>3 DEF Plug
  <2>2. \A part \in Parts[h] : /\ WithPath(part, h, at[part]).hw = h
                              /\ WithPath(part, h, at[part]).phys = part.phys
    BY DEF WithPath
  <2> QED
    BY <2>1, <2>2
<1>4. ASSUME NEW h \in Hardware, Unplug(h) PROVE Placed'
  BY <1>1, <1>4 DEF Unplug, Vanish
<1>5. ASSUME NEW p \in Procs, Start(p) \/ Main(p) \/ Kill(p) \/ Surroundings(p)
      PROVE  Placed'
  BY <1>1, <1>2, <1>5
  DEF Start, Main, LoadConfig, AcquireLock, OpenDecisionLog, FindTouchpad,
      OpenTouchpad, FindButtons, Finish, Fault, Fails, Kill, Surroundings, Reap, Restart,
      Vanish, nodeVars
<1>6. CASE UNCHANGED lifeVars
  BY <1>6 DEF lifeVars, nodeVars
<1> QED
  BY <1>3, <1>4, <1>5, <1>6 DEF LifeNext

LEMMA ChosenSteps == ButtonInv /\ [LifeNext]_lifeVars => ButtonInv'
<1> SUFFICES ASSUME ButtonInv, [LifeNext]_lifeVars PROVE ButtonInv'
  OBVIOUS
<1>0. Placed'
  BY PlacedSteps DEF ButtonInv
<1> USE <1>0 DEF ButtonInv, Chosen
<1>1. ASSUME NEW p \in Procs, UNCHANGED <<pad, button>>,
             pc' = pc \/ \E to \in Alive \cup {"failed", "done"} :
                          to # "run" /\ pc' = [pc EXCEPT ![p] = to]
      PROVE  ButtonInv'
  BY <1>1
<1>2. ASSUME NEW p \in Procs, OpenTouchpad(p) PROVE ButtonInv'
  BY <1>1, <1>2 DEF OpenTouchpad, Goes, Fault, Fails, deviceVars
<1>3. ASSUME NEW p \in Procs, FindButtons(p), ~Fault(p, "buttons") PROVE ButtonInv'
  <2>1. PICK n \in ButtonNodes(nodes, pad[p]) \cup {None} :
          button' = [button EXCEPT ![p] = n]
    BY <1>3 DEF FindButtons
  <2>2. n # None => /\ pad[p].phys # None
                    /\ n.phys = pad[p].phys
                    /\ n.path # pad[p].path
    BY <2>1 DEF ButtonNodes
  <2> QED
    BY <1>3, <2>1, <2>2 DEF FindButtons, Goes
<1>4. ASSUME NEW p \in Procs, Restart(p) PROVE ButtonInv'
  BY <1>4 DEF Restart, Goes
<1>5. ASSUME NEW p \in Procs, NEW from, Fails(p, from) PROVE ButtonInv'
  BY <1>1, <1>5 DEF Fails, Goes, deviceVars
<1>6. ASSUME NEW p \in Procs, Start(p) \/ LoadConfig(p) \/ AcquireLock(p)
               \/ OpenDecisionLog(p) \/ FindTouchpad(p)
      PROVE  ButtonInv'
  BY <1>1, <1>5, <1>6
  DEF Start, LoadConfig, AcquireLock, OpenDecisionLog, FindTouchpad,
      Fault, Goes, Alive, Locked, deviceVars
<1>7. ASSUME NEW p \in Procs, CreateDevice(p) \/ Finish(p) \/ Kill(p) \/ Reap(p)
      PROVE  ButtonInv'
  BY <1>1, <1>5, <1>7
  DEF CreateDevice, Finish, Kill, Reap, Fault, Goes, Alive, Locked, deviceVars
<1>8. ASSUME NEW h \in Hardware, Plug(h) \/ Unplug(h) PROVE ButtonInv'
  BY <1>8 DEF Plug, Unplug, deviceVars
<1>9. CASE UNCHANGED lifeVars
  BY <1>9 DEF lifeVars, deviceVars
<1> QED
  BY <1>2, <1>3, <1>4, <1>5, <1>6, <1>7, <1>8, <1>9
  DEF LifeNext, Main, Surroundings, Fault

\* The clicks that suppress inertia are those of the touchpad
\* (device_discovery.rs:70-112).
THEOREM ButtonsOfThePad == LifeSpec => []ButtonsAreThePads
<1>1. LifeInit => ButtonInv
  BY DEF LifeInit, ButtonInv, Placed, Chosen
<1>2. ButtonInv => ButtonsAreThePads
  <2> SUFFICES ASSUME ButtonInv, NEW p \in Procs, pc[p] = "run", button[p] # None,
                      pad[p] \in nodes, button[p] \in nodes
               PROVE  button[p].hw = pad[p].hw /\ button[p] # pad[p]
    BY DEF ButtonsAreThePads
  <2>1. /\ pad[p].phys # None
        /\ button[p].phys = pad[p].phys
        /\ button[p].path # pad[p].path
    BY DEF ButtonInv, Chosen
  <2>2. PICK a \in Parts[pad[p].hw] : a.phys = pad[p].phys
    BY <2>1 DEF ButtonInv, Placed
  <2>3. PICK b \in Parts[button[p].hw] : b.phys = button[p].phys
    BY <2>1 DEF ButtonInv, Placed
  <2>4. pad[p].hw \in Hardware /\ button[p].hw \in Hardware
    BY <2>1 DEF ButtonInv, Placed
  <2> QED
    BY <2>1, <2>2, <2>3, <2>4, LifecycleAssumption DEF LifecycleAssumption
<1> QED
  BY <1>1, <1>2, ChosenSteps, PTL DEF LifeSpec

-----------------------------------------------------------------------------
\* The nodes, the lock and the program counters keep to their types, and no
\* path names two nodes: the kernel takes a free one for each.
NodeInv ==
  /\ nodes \subseteq Node
  /\ \A m, n \in nodes : m.path = n.path => m = n

LockInv ==
  /\ lock \in Procs \cup {None}
  /\ lock # None => pc[lock] \in Locked
  /\ pc \in [Procs -> Alive \cup {"off", "failed", "done"}]

\* A process past the opening of the touchpad has it.
PadInv ==
  /\ DOMAIN pad = Procs
  /\ \A p \in Procs : pc[p] \in {"buttons", "run"} => pad[p] # None

LEMMA MadeNode ==
  ASSUME NEW part \in Part, NEW hw \in Hardware \cup Procs, NEW path \in Paths
  PROVE  WithPath(part, hw, path) \in Node /\ WithPath(part, hw, path).path = path
  BY DEF WithPath, Node, Part

LEMMA NodeSteps == NodeInv /\ [LifeNext]_lifeVars => NodeInv'
<1> SUFFICES ASSUME NodeInv, [LifeNext]_lifeVars PROVE NodeInv'
  OBVIOUS
<1>1. ASSUME nodes' \subseteq nodes PROVE NodeInv'
  BY <1>1 DEF NodeInv
<1>2. ASSUME NEW p \in Procs, CreateDevice(p) PROVE NodeInv'
  <2>1. CASE nodes' \subseteq nodes
    BY <1>1, <2>1
  <2>2. CASE \E path \in FreePaths :
               nodes' = nodes \cup {WithPath(VirtualPart, p, path)}
    <3>1. PICK path \in FreePaths :
            nodes' = nodes \cup {WithPath(VirtualPart, p, path)}
      BY <2>2
    <3>2. VirtualPart \in Part /\ path \in Paths
      BY <3>1 DEF VirtualPart, Part, Capability, FreePaths
    <3>3. /\ WithPath(VirtualPart, p, path) \in Node
          /\ WithPath(VirtualPart, p, path).path = path
      BY <3>2, MadeNode
    <3>4. \A n \in nodes : n.path # path
      BY <3>1 DEF FreePaths
    <3> QED
      BY <3>1, <3>3, <3>4 DEF NodeInv
  <2> QED
    BY <1>2, <2>1, <2>2 DEF CreateDevice, Fault, Fails, Vanish
<1>3. ASSUME NEW h \in Hardware, Plug(h) PROVE NodeInv'
  <2>1. PICK at \in [Parts[h] -> FreePaths] :
          /\ \A a, b \in Parts[h] : a # b => at[a] # at[b]
          /\ nodes' = nodes \cup {WithPath(part, h, at[part]) : part \in Parts[h]}
    BY <1>3 DEF Plug
  <2>2. ASSUME NEW part \in Parts[h]
        PROVE  /\ WithPath(part, h, at[part]) \in Node
               /\ WithPath(part, h, at[part]).path = at[part]
               /\ \A n \in nodes : n.path # at[part]
    <3>1. part \in Part
      BY LifecycleAssumption DEF LifecycleAssumption
    <3>2. at[part] \in FreePaths
      BY <2>1
    <3>3. at[part] \in Paths /\ \A n \in nodes : n.path # at[part]
      BY <3>2 DEF FreePaths
    <3> QED
      BY <3>1, <3>3, MadeNode
  <2>3. nodes' \subseteq Node
    BY <2>1, <2>2 DEF NodeInv
  <2>4. ASSUME NEW m \in nodes', NEW n \in nodes', m.path = n.path
        PROVE  m = n
    <3>1. CASE m \in nodes /\ n \in nodes
      BY <2>4, <3>1 DEF NodeInv
    <3>2. CASE m \in nodes /\ n \notin nodes
      BY <2>1, <2>2, <2>4, <3>2
    <3>3. CASE m \notin nodes /\ n \in nodes
      BY <2>1, <2>2, <2>4, <3>3
    <3>4. CASE m \notin nodes /\ n \notin nodes
      <4>1. PICK a \in Parts[h], b \in Parts[h] :
              m = WithPath(a, h, at[a]) /\ n = WithPath(b, h, at[b])
        BY <2>1, <3>4
      <4>2. at[a] = at[b]
        BY <2>2, <2>4, <4>1
      <4> QED
        BY <2>1, <4>1, <4>2
    <3> QED
      BY <3>1, <3>2, <3>3, <3>4
  <2> QED
    BY <2>3, <2>4 DEF NodeInv
<1>4. ASSUME NEW h \in Hardware, Unplug(h) PROVE NodeInv'
  BY <1>1, <1>4 DEF Unplug, Vanish
<1>5. ASSUME NEW p \in Procs, Start(p) \/ Main(p) \/ Kill(p) \/ Surroundings(p)
      PROVE  NodeInv'
  BY <1>1, <1>2, <1>5
  DEF Start, Main, LoadConfig, AcquireLock, OpenDecisionLog, FindTouchpad,
      OpenTouchpad, FindButtons, Finish, Fault, Fails, Kill, Surroundings, Reap, Restart,
      Vanish, nodeVars
<1>6. CASE UNCHANGED lifeVars
  BY <1>1, <1>6 DEF lifeVars, nodeVars
<1> QED
  BY <1>3, <1>4, <1>5, <1>6 DEF LifeNext

LEMMA LockTyped == LockInv /\ [LifeNext]_lifeVars => LockInv'
<1> SUFFICES ASSUME LockInv, [LifeNext]_lifeVars PROVE LockInv'
  OBVIOUS
<1> USE DEF LockInv, Alive, Locked
<1>1. ASSUME NEW p \in Procs, NEW from \in Alive, NEW to \in Alive, Goes(p, from, to),
             UNCHANGED lock, from \in Locked => to \in Locked
      PROVE  LockInv'
  BY <1>1 DEF Goes
<1>2. ASSUME NEW p \in Procs, NEW to \in {"failed", "done"},
             pc' = [pc EXCEPT ![p] = to], lock' = Released(p)
      PROVE  LockInv'
  BY <1>2 DEF Released
<1>3. ASSUME NEW p \in Procs, NEW from, Fails(p, from) PROVE LockInv'
  BY <1>2, <1>3 DEF Fails, Goes
<1>4. ASSUME NEW p \in Procs, Start(p) \/ Restart(p) PROVE LockInv'
  BY <1>4 DEF Start, Restart, Goes
<1>5. ASSUME NEW p \in Procs, AcquireLock(p) PROVE LockInv'
  BY <1>3, <1>5 DEF AcquireLock, Fault, Goes
<1>6. ASSUME NEW p \in Procs, LoadConfig(p) \/ OpenDecisionLog(p) \/ FindTouchpad(p)
               \/ CreateDevice(p) \/ OpenTouchpad(p) \/ FindButtons(p)
      PROVE  LockInv'
  BY <1>1, <1>3, <1>6
  DEF LoadConfig, OpenDecisionLog, FindTouchpad, CreateDevice, OpenTouchpad,
      FindButtons, Fault
<1>7. ASSUME NEW p \in Procs, Finish(p) \/ Kill(p) PROVE LockInv'
  BY <1>2, <1>7 DEF Finish, Kill, Goes
<1>8. CASE UNCHANGED <<pc, lock>>
  BY <1>8
<1> QED
  BY <1>3, <1>4, <1>5, <1>6, <1>7, <1>8
  DEF LifeNext, Main, Surroundings, Reap, Plug, Unplug, lifeVars

LEMMA PadSteps == NodeInv /\ PadInv /\ LockInv /\ [LifeNext]_lifeVars => PadInv'
<1> SUFFICES ASSUME NodeInv, PadInv, LockInv, [LifeNext]_lifeVars PROVE PadInv'
  OBVIOUS
<1> USE DEF PadInv, LockInv
<1>1. ASSUME NEW p \in Procs, UNCHANGED pad, NEW to,
             to \notin {"buttons", "run"} \/ pc[p] = "buttons",
             pc' = [pc EXCEPT ![p] = to]
      PROVE  PadInv'
  BY <1>1
<1>2. ASSUME NEW p \in Procs, NEW from, Fails(p, from) PROVE PadInv'
  BY <1>1, <1>2 DEF Fails, Goes, deviceVars
<1>3. ASSUME NEW p \in Procs, OpenTouchpad(p) PROVE PadInv'
  <2>1. CASE Fails(p, "open") \/ Fault(p, "open")
    BY <1>2, <2>1 DEF Fault
  <2>2. ASSUME NEW n \in nodes, pad' = [pad EXCEPT ![p] = n], Goes(p, "open", "buttons")
        PROVE  PadInv'
    <3>1. n # None
      BY LifecycleAssumption DEF LifecycleAssumption, NodeInv
    <3> QED
      BY <2>2, <3>1 DEF Goes
  <2> QED
    BY <1>3, <2>1, <2>2 DEF OpenTouchpad
<1>4. ASSUME NEW p \in Procs, Restart(p) PROVE PadInv'
  BY <1>4 DEF Restart, Goes
<1>5. ASSUME NEW p \in Procs, Start(p) \/ LoadConfig(p) \/ AcquireLock(p)
               \/ OpenDecisionLog(p) \/ FindTouchpad(p) \/ CreateDevice(p)
      PROVE  PadInv'
  BY <1>1, <1>2, <1>5
  DEF Start, LoadConfig, AcquireLock, OpenDecisionLog, FindTouchpad, CreateDevice,
      Fault, Goes, deviceVars
<1>6. ASSUME NEW p \in Procs, FindButtons(p) \/ Finish(p) \/ Kill(p) PROVE PadInv'
  BY <1>1, <1>2, <1>6 DEF FindButtons, Finish, Kill, Fault, Goes, deviceVars
<1>7. CASE UNCHANGED <<pc, pad>>
  BY <1>7
<1> QED
  BY <1>3, <1>4, <1>5, <1>6, <1>7
  DEF LifeNext, Main, Surroundings, Reap, Plug, Unplug, lifeVars, deviceVars

\* Whatever takes nodes away also takes them from those who have them open.
AttachedInv ==
  /\ DOMAIN pad = Procs
  /\ attached \subseteq Procs
  /\ \A p \in attached : pad[p] \in nodes

LEMMA AttachedSteps == AttachedInv /\ [LifeNext]_lifeVars => AttachedInv'
<1> SUFFICES ASSUME AttachedInv, [LifeNext]_lifeVars PROVE AttachedInv'
  OBVIOUS
<1> USE DEF AttachedInv
<1>1. ASSUME UNCHANGED pad, NEW hw, Vanish(hw) PROVE AttachedInv'
  BY <1>1 DEF Vanish
<1>2. ASSUME NEW p \in Procs, NEW from, Fails(p, from) PROVE AttachedInv'
  BY <1>1, <1>2 DEF Fails, deviceVars
<1>3. ASSUME NEW p \in Procs, CreateDevice(p) PROVE AttachedInv'
  <2>1. CASE Fault(p, "create")
    BY <1>2, <2>1 DEF Fault
  <2> QED
    BY <1>3, <2>1 DEF CreateDevice, deviceVars
<1>4. ASSUME NEW p \in Procs, OpenTouchpad(p) PROVE AttachedInv'
  <2>1. CASE Fails(p, "open") \/ Fault(p, "open")
    BY <1>2, <2>1 DEF Fault
  <2> QED
    BY <1>4, <2>1 DEF OpenTouchpad
<1>5. ASSUME NEW p \in Procs, Restart(p) PROVE AttachedInv'
  BY <1>5 DEF Restart
<1>6. ASSUME NEW p \in Procs, Finish(p) \/ Reap(p) PROVE AttachedInv'
  BY <1>1, <1>6 DEF Finish, Reap, Vanish, deviceVars
<1>7. ASSUME NEW h \in Hardware, Plug(h) \/ Unplug(h) PROVE AttachedInv'
  BY <1>1, <1>7 DEF Plug, Unplug, deviceVars
<1>8. ASSUME NEW p \in Procs, Start(p) \/ LoadConfig(p) \/ AcquireLock(p)
               \/ OpenDecisionLog(p) \/ FindTouchpad(p) \/ FindButtons(p) \/ Kill(p)
      PROVE  AttachedInv'
  BY <1>2, <1>8
  DEF Start, LoadConfig, AcquireLock, OpenDecisionLog, FindTouchpad, FindButtons,
      Kill, Fault, nodeVars, deviceVars
<1>9. CASE UNCHANGED lifeVars
  BY <1>9 DEF lifeVars, nodeVars, deviceVars
<1> QED
  BY <1>3, <1>4, <1>5, <1>6, <1>7, <1>8, <1>9 DEF LifeNext, Main, Surroundings

\* No path ever names two device nodes, the lock belongs to a process that is
\* past it and alive, a running daemon has a touchpad, and what it holds open
\* is there
\* (instance_lock.rs:6-25, main.rs:132-178).
THEOREM LifeTypes == LifeSpec => []LifeTypeOK
<1>1. LifeInit => NodeInv /\ LockInv /\ PadInv /\ AttachedInv
  BY DEF LifeInit, NodeInv, LockInv, PadInv, AttachedInv
<1>2. NodeInv /\ LockInv /\ PadInv /\ AttachedInv => LifeTypeOK
  BY DEF NodeInv, LockInv, PadInv, AttachedInv, LifeTypeOK
<1> QED
  BY <1>1, <1>2, NodeSteps, LockTyped, PadSteps, AttachedSteps, PTL DEF LifeSpec

=============================================================================
