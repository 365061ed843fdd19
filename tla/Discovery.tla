----------------------------- MODULE Discovery ------------------------------
(***************************************************************************)
(* How the daemon finds its devices (src/device_discovery.rs), and from    *)
(* which settings (src/config.rs).  A device node has a path, the words    *)
(* that its name contains, the place of the hardware it belongs to, and    *)
(* the keys and axes that are asked for.  evdev::enumerate lists the nodes *)
(* in any order, so "the first that fits" is any that fits.                *)
(***************************************************************************)
EXTENDS FiniteSets

CONSTANTS
  Paths,    \* of device nodes
  Words,    \* that a name filter may be
  Places,   \* physical locations of hardware
  OwnName,  \* the word in the name of the daemon's own device
  None      \* no setting, no location

ASSUME DiscoveryAssumption ==
  /\ None \notin Paths \cup Words \cup Places
  /\ OwnName \notin Words

Capability == {"BTN_TOOL_FINGER", "BTN_TOUCH", "BTN_LEFT", "ABS_MT_POSITION_X"}

\* What a device node says of itself, apart from its path.
Part == [name : SUBSET (Words \cup {OwnName}), phys : Places \cup {None},
         caps : SUBSET Capability]

\* What the command line and the config file say of the device.
Setting == [device : Paths \cup {None}, deviceName : Words \cup {None}]

Or(a, b) == IF a # None THEN a ELSE b

\* resolve: for every option of its own, the command line over the config file.
Resolve(cli, cfg) == [device     |-> Or(cli.device, cfg.device),
                      deviceName |-> Or(cli.deviceName, cfg.deviceName)]

IsTouchpad(n) == {"BTN_TOOL_FINGER", "BTN_TOUCH"} \subseteq n.caps
IsMultitouch(n) == "ABS_MT_POSITION_X" \in n.caps

\* Auto-detection: the candidates, those with multitouch first.
Detected(nodes) ==
  LET candidates == {n \in nodes : IsTouchpad(n)}
      multitouch == {n \in candidates : IsMultitouch(n)}
  IN  IF multitouch # {} THEN multitouch ELSE candidates

\* find_touchpad: the nodes it may return; none, and it fails.
Found(nodes, args) ==
  CASE args.device # None     -> {n \in nodes : n.path = args.device}
    [] args.device = None /\ args.deviceName # None ->
         {n \in nodes : args.deviceName \in n.name}
    [] OTHER -> Detected(nodes)

\* Mutant of ButtonNodes: two unknown places are the same place.
ButtonNodesAnywhere(nodes, pad) ==
  {n \in nodes : /\ n.path # pad.path
                 /\ OwnName \notin n.name
                 /\ n.phys = pad.phys
                 /\ "BTN_TOOL_FINGER" \notin n.caps
                 /\ "BTN_LEFT" \in n.caps}

\* find_touchpad_button_device: the nodes it may return; maybe none.
ButtonNodes(nodes, pad) ==
  {n \in nodes : /\ pad.phys # None
                 /\ n.path # pad.path
                 /\ OwnName \notin n.name
                 /\ n.phys = pad.phys
                 /\ "BTN_TOOL_FINGER" \notin n.caps
                 /\ "BTN_LEFT" \in n.caps}

=============================================================================
