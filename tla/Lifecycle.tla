----------------------------- MODULE Lifecycle ------------------------------
(***************************************************************************)
(* The life of daemon processes: main() (src/main.rs) from the command     *)
(* line to the engine, each step of which may end the process; the lock    *)
(* that keeps a second one out (src/instance_lock.rs); the device nodes,   *)
(* among them those that the processes create; and the service manager,    *)
(* which restarts what failed (dist/rinertia.service).  What a process     *)
(* does once it runs is in Daemon.                                         *)
(***************************************************************************)
EXTENDS Discovery, Naturals

CONSTANTS
  Procs,        \* processes, each at most once at a time
  Supervised,   \* those that the service manager started
  Hardware,     \* the pieces of hardware
  Parts,        \* for every piece, its device nodes without their paths
  CliChoices,   \* settings that a command line may hold
  CfgChoices,   \* settings that a config file may hold
  Dry,          \* --dry
  MaxPlugs,     \* bound: how often hardware is plugged in
  MaxUnplugs,   \* bound: how often hardware goes away
  MaxFaults     \* bound: calls that fail and processes that are killed

\* A device node, with the hardware or the process that it belongs to.
Node == [path : Paths, hw : Hardware \cup Procs,
         name : SUBSET (Words \cup {OwnName}), phys : Places \cup {None},
         caps : SUBSET Capability]

ASSUME LifecycleAssumption ==
  /\ None \notin Procs \cup Node
  /\ Parts \in [Hardware -> SUBSET Part]
  /\ Supervised \subseteq Procs
  /\ Hardware \cap Procs = {}
  /\ \A g, h \in Hardware : \A a \in Parts[g], b \in Parts[h] :
       a.phys = b.phys /\ a.phys # None => g = h   \* a place holds one piece
  /\ CliChoices \subseteq Setting /\ CfgChoices \subseteq Setting
  /\ Dry \in BOOLEAN
  /\ {MaxPlugs, MaxUnplugs, MaxFaults} \subseteq Nat

VARIABLES
  nodes,    \* the device nodes; `hw` is the hardware or process they belong to
  lock,     \* who has bound the abstract socket
  pc,       \* where in main() each process is
  cli, cfg, \* the settings each process was given
  found,    \* touchpad_path, as the node it named when it was found
  pad,      \* tp_device
  attached, \* processes whose open touchpad has been there ever since: another
            \* node of the same path and kind does not bring it back
  button,   \* button_device
  plugs, unplugs, faults

settingVars == <<cli, cfg>>
nodeVars    == <<nodes, attached>>
deviceVars  == <<found, pad, button>>
boundVars   == <<plugs, unplugs, faults>>
lifeVars    == <<nodeVars, lock, pc, settingVars, deviceVars, boundVars>>

\* The steps of main() that hold the lock, in their order.
Locked == {"log", "find", "create", "open", "buttons", "run"}
Alive  == {"config", "lock"} \cup Locked

LifeInit ==
  /\ nodes = {} /\ attached = {}
  /\ lock = None
  /\ pc = [p \in Procs |-> "off"]
  /\ cli \in [Procs -> CliChoices]
  /\ cfg \in [Procs -> CfgChoices]
  /\ found = [p \in Procs |-> None]
  /\ pad = [p \in Procs |-> None]
  /\ button = [p \in Procs |-> None]
  /\ plugs = 0 /\ unplugs = 0 /\ faults = 0

-----------------------------------------------------------------------------
FreePaths == Paths \ {n.path : n \in nodes}

WithPath(part, hw, path) ==
  [path |-> path, hw |-> hw, name |-> part.name, phys |-> part.phys,
   caps |-> part.caps]

\* The kernel makes the nodes of a piece of hardware, at any free paths.
Plug(h) ==
  /\ plugs < MaxPlugs
  /\ \A n \in nodes : n.hw # h
  /\ \E at \in [Parts[h] -> FreePaths] :
       /\ \A a, b \in Parts[h] : a # b => at[a] # at[b]
       /\ nodes' = nodes \cup {WithPath(part, h, at[part]) : part \in Parts[h]}
  /\ plugs' = plugs + 1
  /\ UNCHANGED <<attached, lock, pc, settingVars, deviceVars, unplugs, faults>>

\* The nodes of a piece of hardware, or of a process, go away.
Vanish(hw) ==
  /\ nodes' = {n \in nodes : n.hw # hw}
  /\ attached' = {p \in attached : pad[p] \in nodes'}

Unplug(h) ==
  /\ unplugs < MaxUnplugs
  /\ \E n \in nodes : n.hw = h
  /\ Vanish(h)
  /\ unplugs' = unplugs + 1
  /\ UNCHANGED <<lock, pc, settingVars, deviceVars, plugs, faults>>

\* The node of a process's own virtual device.
VirtualPart == [name |-> {OwnName}, phys |-> None, caps |-> {"BTN_LEFT"}]

-----------------------------------------------------------------------------
Goes(p, from, to) == pc[p] = from /\ pc' = [pc EXCEPT ![p] = to]

\* Mutant of Released: a lock of the kind that a killed process leaves behind.
ReleasedOnExit(p) == IF lock = p /\ pc'[p] = "done" THEN None ELSE lock

\* The lock once process p has ended: the socket is closed with the process.
Released(p) == IF lock = p THEN None ELSE lock

\* main() returns an error or calls exit(1).
Fails(p, from) ==
  /\ Goes(p, from, "failed")
  /\ lock' = Released(p)
  /\ Vanish(p)
  /\ UNCHANGED <<settingVars, deviceVars, plugs, unplugs>>

\* A call fails for a reason outside the model.
Fault(p, from) ==
  /\ faults < MaxFaults
  /\ faults' = faults + 1
  /\ Fails(p, from)

\* The user or the service manager starts the process.
Start(p) ==
  /\ Goes(p, "off", "config")
  /\ UNCHANGED <<nodeVars, lock, settingVars, deviceVars, boundVars>>

\* A missing config file is not an error, one that cannot be parsed is.
LoadConfig(p) ==
  \/ Goes(p, "config", "lock")
     /\ UNCHANGED <<nodeVars, lock, settingVars, deviceVars, boundVars>>
  \/ Fault(p, "config")

\* Mutant of LockIsFree: binding does not fail for a name that is in use.
LockIsFreeAlways == TRUE

LockIsFree == lock = None

\* instance_lock::acquire
AcquireLock(p) ==
  \/ /\ LockIsFree
     /\ Goes(p, "lock", "log")
     /\ lock' = p
     /\ UNCHANGED <<nodeVars, settingVars, deviceVars, boundVars>>
  \/ ~LockIsFree /\ Fails(p, "lock") /\ UNCHANGED faults
  \/ Fault(p, "lock")

OpenDecisionLog(p) ==
  \/ Goes(p, "log", "find")
     /\ UNCHANGED <<nodeVars, lock, settingVars, deviceVars, boundVars>>
  \/ Fault(p, "log")

FindTouchpad(p) ==
  LET fits == Found(nodes, Resolve(cli[p], cfg[p])) IN
  \/ /\ Goes(p, "find", "create")
     /\ \E n \in fits : found' = [found EXCEPT ![p] = n]
     /\ UNCHANGED <<nodeVars, lock, settingVars, pad, button, boundVars>>
  \/ fits = {} /\ Fails(p, "find") /\ UNCHANGED faults

\* /dev/uinput is tried, then VirtualDevice::new makes a node.
CreateDevice(p) ==
  \/ /\ Goes(p, "create", "open")
     /\ UNCHANGED attached
     /\ IF Dry THEN UNCHANGED nodes
        ELSE \E path \in FreePaths :
               nodes' = nodes \cup {WithPath(VirtualPart, p, path)}
     /\ UNCHANGED <<lock, settingVars, deviceVars, boundVars>>
  \/ Fault(p, "create")

\* evdev::Device::open(&touchpad_path): whatever has that path now.
OpenTouchpad(p) ==
  LET there == {n \in nodes : n.path = found[p].path} IN
  \/ /\ Goes(p, "open", "buttons")
     /\ \E n \in there : pad' = [pad EXCEPT ![p] = n]
     /\ attached' = attached \cup {p}
     /\ UNCHANGED <<nodes, lock, settingVars, found, button, boundVars>>
  \/ Fails(p, "open") /\ there = {} /\ UNCHANGED faults
  \/ Fault(p, "open")

\* find_touchpad_button_device, then the threads are made.
FindButtons(p) ==
  LET fits == ButtonNodes(nodes, pad[p]) IN
  \/ /\ Goes(p, "buttons", "run")
     /\ button' \in {[button EXCEPT ![p] = n] : n \in IF fits = {} THEN {None} ELSE fits}
     /\ UNCHANGED <<nodeVars, lock, settingVars, found, pad, boundVars>>
  \/ Fault(p, "buttons")

\* The touchpad that was opened is gone, and reading it fails also when it is
\* plugged in again: the threads end and main() returns Ok.
Finish(p) ==
  /\ p \notin attached
  /\ Goes(p, "run", "done")
  /\ lock' = Released(p)
  /\ Vanish(p)
  /\ UNCHANGED <<settingVars, deviceVars, boundVars>>

\* A process is killed: the kernel closes its socket before its uinput file.
Kill(p) ==
  /\ faults < MaxFaults
  /\ faults' = faults + 1
  /\ pc[p] \in Alive
  /\ pc' = [pc EXCEPT ![p] = "failed"]
  /\ lock' = Released(p)
  /\ UNCHANGED <<nodeVars, settingVars, deviceVars, plugs, unplugs>>

Reap(p) ==
  /\ pc[p] = "failed"
  /\ \E n \in nodes : n.hw = p
  /\ Vanish(p)
  /\ UNCHANGED <<lock, pc, settingVars, deviceVars, boundVars>>

\* Restart=on-failure, once nothing of the process is left
Restart(p) ==
  /\ p \in Supervised
  /\ \A n \in nodes : n.hw # p
  /\ Goes(p, "failed", "config")
  /\ found' = [found EXCEPT ![p] = None]
  /\ pad' = [pad EXCEPT ![p] = None]
  /\ button' = [button EXCEPT ![p] = None]
  /\ attached' = attached \ {p}
  /\ UNCHANGED <<nodes, lock, settingVars, boundVars>>

Main(p) ==
  \/ LoadConfig(p) \/ AcquireLock(p) \/ OpenDecisionLog(p) \/ FindTouchpad(p)
  \/ CreateDevice(p) \/ OpenTouchpad(p) \/ FindButtons(p) \/ Finish(p)

Surroundings(p) == Reap(p) \/ Restart(p)

LifeNext ==
  \/ \E p \in Procs : Start(p) \/ Main(p) \/ Kill(p) \/ Surroundings(p)
  \/ \E h \in Hardware : Plug(h) \/ Unplug(h)

LifeSpec == LifeInit /\ [][LifeNext]_lifeVars

\* Processes are scheduled, the kernel clears up after them, and the service
\* manager does what it is told.
FairLifeSpec ==
  LifeSpec /\ \A p \in Procs : WF_lifeVars(Main(p)) /\ WF_lifeVars(Surroundings(p))

-----------------------------------------------------------------------------
\* Nodes, lock and processes keep to their types; in particular no path names
\* two nodes, the lock belongs to a process that is past it and alive, and what
\* a process holds open is there.
LifeTypeOK ==
  /\ nodes \subseteq Node
  /\ \A m, n \in nodes : m.path = n.path => m = n
  /\ lock \in Procs \cup {None}
  /\ lock # None => pc[lock] \in Locked
  /\ pc \in [Procs -> Alive \cup {"off", "failed", "done"}]
  /\ \A p \in Procs : pc[p] = "run" => pad[p] # None
  /\ attached \subseteq Procs /\ \A p \in attached : pad[p] \in nodes

\* At most one process at a time is past the lock, where it would create a
\* virtual device and grab the touchpad, however processes are killed and
\* restarted (instance_lock.rs:10-25, main.rs:132).
OneDaemonActs ==
  \A p, q \in Procs : pc[p] \in Locked /\ pc[q] \in Locked => p = q

\* The buttons that suppress inertia are those of the touchpad's own hardware:
\* never another mouse, the touchpad itself, or a device that a daemon created,
\* also when the touchpad has no location to compare
\* (device_discovery.rs:70-112).
ButtonsAreThePads ==
  \A p \in Procs :
    pc[p] = "run" /\ button[p] # None /\ {pad[p], button[p]} \subseteq nodes
      => /\ button[p].hw = pad[p].hw
         /\ button[p] # pad[p]

Serves(p) == pc[p] = "run" /\ p \in attached /\ IsTouchpad(pad[p])

\* A daemon runs with something that is not a touchpad: the name filter found
\* the mouse node, or what was found had lost its number by the time it was
\* opened.
Misled(p) == pc[p] = "run" /\ ~IsTouchpad(pad[p])

\* A service that has been started, has not ended without an error, and has a
\* touchpad to find.
Wanted ==
  \E p \in Supervised :
    /\ pc[p] \notin {"off", "done"}
    /\ \E n \in Found(nodes, Resolve(cli[p], cfg[p])) : IsTouchpad(n)

\* The service starts before the touchpad is there, at the same time as
\* another daemon, or is killed; the touchpad goes away and comes back: in the
\* end it is served, or a daemon has taken something else for it
\* (dist/rinertia.service, main.rs:107-222).  Restarts go on for good, and the
\* lock never outlives its process.
ServiceComesUp == Wanted ~> (~Wanted \/ \E p \in Procs : Serves(p) \/ Misled(p))

=============================================================================
