---------------------------- MODULE MCLifecycle -----------------------------
(***************************************************************************)
(* A laptop for TLC: a touchpad whose mouse node reports its buttons, as   *)
(* I2C touchpads have it, and another pointing device without a location.  *)
(***************************************************************************)
EXTENDS Lifecycle

CONSTANTS p1, p2, elan, usb, i2c

PadOnly   == {"BTN_TOOL_FINGER", "BTN_TOUCH", "ABS_MT_POSITION_X"}
TwoProcs  == {p1, p2}
AllParts  == [h \in Hardware |->
                IF h = "pad"
                THEN {[name |-> {elan}, phys |-> i2c, caps |-> PadOnly],
                      [name |-> {elan}, phys |-> i2c, caps |-> {"BTN_LEFT"}]}
                ELSE IF h = "oldpad"
                THEN {[name |-> {}, phys |-> None,
                       caps |-> {"BTN_TOOL_FINGER", "BTN_TOUCH"}]}
                ELSE {[name |-> {usb}, phys |-> None, caps |-> {"BTN_LEFT"}]}]

Nothing   == [device |-> None, deviceName |-> None]
ByName    == [device |-> None, deviceName |-> elan]

NoChoice    == {Nothing}
NameChoice  == {Nothing, ByName}

=============================================================================
