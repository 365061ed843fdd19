# A verification of rinertia

rinertia is a small daemon that gives a touchpad pointer inertia: it reads the
touchpad, lets the pointer glide on when a finger leaves the pad in motion, and
stops the glide at a click, a gesture, or a touch that rests on the pad.  This
directory holds TLA+ modules that model the daemon, its start and its arithmetic
included, TLC configurations that check them on small instances, and TLAPS
proofs of theorems that hold for every value of the constants.  Paths below are relative to the
root of the repository; source files are in `src/`.

## The system

| Part | State it keeps | Operations | Talks to |
| --- | --- | --- | --- |
| Listener thread, `run_listener` (`src/touchpad.rs`) | its three-valued state, touch times, arming, current token, what it believes of the engine, the grab, the motion ring | drain reports; handle motion, landing, lift, click, further fingers; grab and ungrab | engine (messages, reports), timers (tokens), button thread (`click_inhibit`), kernel (events, `EVIOCGRAB`) |
| Confirm timers, `arm_retouch_confirm_timer` (`src/touchpad.rs`) | one detached thread per retouch | sleep, compare token, send Stop, publish token | engine, listener |
| Button thread, `run_button_listener` (`src/touchpad.rs`) | none of its own | set `click_inhibit`, send Stop | engine, listener |
| Engine, `run_engine` (`src/momentum.rs`) on the main thread | Idle or PointerMomentum, velocity, remainders, times | take a message; tick: decay, emit, end | listener (reports), X server, uinput |
| `main` (`src/main.rs`) | the two channels, the threads | start threads, run the engine, join | all |
| Motion ring, release velocity (`src/touchpad.rs`) | last 100 samples, path length | push, clear, summary, velocity at the lift | used by the listener |
| X11 block detector (`src/x11_pointer.rs`) | last position, count of unchanged ones, session | reset, record, ask, reconnect | used by the engine; X server |
| Configuration and discovery (`src/config.rs`, `src/device_discovery.rs`) | settings; none | resolve; find the touchpad and its mouse node | `main` at start-up; device nodes |
| Instance lock, service units (`src/instance_lock.rs`, `dist/`) | one abstract socket | acquire; restart | other processes, systemd |
| Virtual device (`src/virtual_device.rs`) | the uinput node | create, move | engine, kernel |
| Decision log (`src/decision_log.rs`) | none that is read | write a line | – |

What is hard about it is concurrency.  Up to three long-lived threads and any
number of timer threads share two FIFO channels, two token counters and a flag.
The engine's reports reach the listener late and do not say which message they
answer; the listener reads events late and in batches, while their time stamps
say when they happened; a timer measures its delay from the moment its touch is
*handled*; and the grab is changed only at the end of a batch and may fail.
Beside it there is arithmetic at boundaries (a ring that goes round, windows in
it, fractions of a unit carried over), a server that may go away (X11), and a
start in which hardware, other daemons and the service manager interfere.

What makes the parts correct:

- *listener and engine*: they end up agreeing on whether inertia runs; the
  touchpad is grabbed while a stop touch is expected, and given back after;
- *timers and listener*: exactly the touch that rests long enough stops the
  glide, whichever of the two notices; the finger's own motion is forwarded
  only after the glide has stopped;
- *clicks and gestures*: they stop inertia and forbid it at the lift;
- *main*: when the hardware disappears the process ends;
- *ring and release*: the decision at a lift is about this touch, all of it,
  and nothing else; a finger that rested starts nothing;
- *engine*: no fraction of motion is lost or invented, every glide ends, in
  time, and as blocked only where it is blocked;
- *start*: one daemon at a time, with the touchpad that was asked for and that
  touchpad's buttons; a service comes up.

`PROJECT.json` lists the hazards behind these one by one, each at its line.

## The modules

They form three groups:

- the daemon's threads: `Channels` ← `TouchpadDevice` ← `ConfirmTimer`,
  `ButtonListener` ← `Listener` ← `Daemon` → `Engine`; `DriverView`,
  `GlideView` and `DaemonClaims` extend `Daemon`;
- its arithmetic: `MotionRing` ← `Release` ← `ReleaseClaims`, and
  `EnginePeers`, `PointerBlock` ← `Momentum`;
- its start: `Discovery` ← `Lifecycle` ← `MCLifecycle`.

Two abstract specifications tie them together.  `MotionHistory` is what
`MotionRing` implements.  `EngineAlone`, the engine among arbitrary peers, is
what the detailed engine of `Momentum` implements (`ImplementsEngine`).  The
threads of `Daemon` are such peers and `Daemon` uses the same `Engine` (lemma
`DaemonHasEngine`), so what the runs and proofs about `Daemon` take from the
engine, the detailed engine does.

| Module | Models |
| --- | --- |
| `Channels` | the two mpsc channels (`chan`: messages, `status`: reports) and how many Senders are alive |
| `TouchpadDevice` | the environment: finger, kernel queue, clock, unplugging (no code of the repository) |
| `ConfirmTimer` | the timers and the tokens: `TimerStale`, `TimerConfirm`, `TimerSendStop`, `TimerPublish` |
| `ButtonListener` | the button thread: `TakePress`, `PressSendStop`, `ButtonStreamEnds` |
| `Listener` | the loop of `run_listener`, one action per path |
| `Engine` | `run_engine` as the others see it |
| `Daemon` | the threads of `main` together, fairness, and the properties |
| `DriverView` | `Daemon` with the desktop's own driver, from which the grab hides events |
| `GlideView` | `Daemon` with a record of what may have stopped the last glide |
| `MotionHistory`, `MotionRing` | the samples of a touch as wanted, and as a ring buffer |
| `Release` | `compute_release_velocity` and `maybe_start_pointer`, over touches one after the other |
| `EnginePeers`, `EngineAlone` | any threads the engine could have as peers; `Engine` among them |
| `PointerBlock` | the X11 detector with its session, the X server and a screen |
| `Momentum` | `run_engine` in detail, with the detector and what is emitted |
| `Discovery` | precedence of the device settings, choice of the touchpad and of its mouse node |
| `Lifecycle` | `main` from start to end for several processes, the lock, device nodes, restarts |
| `MCLifecycle` | a laptop's hardware for TLC |
| `DaemonClaims`, `ReleaseClaims` | claims of the documents that the code does not keep |
| `DaemonProofs` ← `TokenProofs` ← `AgreementProofs` | theorems about `Daemon` |
| `ViewProofs` (extends `AgreementProofs`) | theorems about `DriverView` and `GlideView` |
| `RingProofs` ← `ReleaseProofs` | theorems about `MotionRing` and `Release` |
| `MomentumProofs`, `LifecycleProofs` | theorems about `Momentum`, `Lifecycle` |

### Correspondence

`lpc` is the listener's place in its loop.  `"top"`: the drain of the status
channel (`EngineActive`, `EngineIdle`) and the first `release_stale_grab`
(`StatusDrained`).  `"fetch"`: `fetch_events`, which returns nothing
(`FetchNothing`), the oldest queued events, some or all of them
(`FetchEvents`), or an error (`StreamEnds`).
`"events"`: one handler per event.  `"grabs"`: the collected grab actions, then
the second `release_stale_grab` (`LoopAgain`).

A landing (`BTN_TOUCH` 1) is `IgnoreEarlyRetouch`, `BeginRetouch` or
`BeginMove`.  A lift (`BTN_TOUCH` 0) is `IgnoreLift` in Idle; `EndMove`, then
`StartMomentum` or `RejectMomentum` after a movement; `EndRetouch`, then
`ReleaseShort`, `ReleaseAfterStop` or `ReleaseConfirmed` after a retouch.
Motion, clicks and further fingers are `PointerMoves`, `PadClick`,
`Multitouch`.

*How fine the steps are.*  A handler is one action where it touches shared
state once, or several times in ways that commute with every other thread's
steps.  It is split where they do not commute:

- a lift after a movement: `click_inhibit` is taken (515) and StartPointer is
  sent later (814); a press may fall in between;
- a lift after a retouch: the stopped token is loaded (553) before the active
  one is retired (555); a timer may pass its check, send or publish in between;
- a timer: check (886), send (890) and publication (891) are three steps;
- the button thread: the flag (688) and the Stop (689);
- the engine: `recv_timeout` expiring (94) and the work of the tick are two
  steps, because a message may be sent in between.

In `BeginMove` the Stop (503) and the reset of `click_inhibit` (507) are one
step: a press between them leaves the same flag and the same queue as a press
before both.  In `BeginRetouch` the token is bumped before the timer exists and the rest is
local; in `ReleaseConfirmed` the send and the store of the token (585-587) can
be one step because only the listener itself reads the token for motion; in
`Multitouch` and `PadClick` what follows the shared store is one send, and no
other thread can tell when between the two it ran: the timers read only the
active token, and the button thread only writes the flag.  Atomics are
sequentially consistent (or, for `click_inhibit`, a single relaxed flag).

*Data left out of `Daemon`.*  A message is its variant.  Position, distance and velocity
are reduced to `samples` (0, 1, or at least 2: a velocity needs two) and to the
freedom of a lift that lasted `MinTouch` to qualify or not; every such choice
of the code is one the model allows.  The speed of a glide is the number of
ticks, at most `GlideTicks`, that it will last; the X11 detector and the
duration limit are reasons why it may end at any tick (`GlideEnds`).  Logging
is omitted.  `grabbed` is the listener's flag, which equals the kernel's state
because both change only in a successful ioctl.
When the pad is gone every ioctl fails, queued events are lost, and a batch
that was already fetched is still handled.  The descriptor is taken to be
non-blocking, although the code goes on with a warning if it is not.

*Ring and release.*  `MotionRing` has the code's indices and slots; `Begin`, a
`clear()` and the `push()` that always follows it, leaves the other slots alone,
as the code does.  A sample has one coordinate, so the
length of a step is an absolute difference where the code takes a square root,
and velocities are exact fractions where the code has floating point.  `Land`
is the handler of `BTN_TOUCH` 1, which runs before the coordinates of its touch
are read (`ReportLanding`).  `LastUsed`, `FirstUsed`, `IsFresh` and `Decide` are
the code's windows, its trimming of a slow tail, its limit of age and the order
of its refusals.  `Release` has touches that begin in an idle listener; what a
stop touch does to a lift is in `Listener`.

*Engine in detail.*  The actions of `Momentum` are the arms of the two `match`
statements (`TakeStart`, `TakeStop`, `TakeContinue`, `Disconnects`) and the
ways a tick can go: `TickBegins` is the timeout with its `dt`, then
`EndBlocked`, `EndOverLimit`, `EndSlow` or `GlideStep`, tried in that order.
Speeds are multiples of the stop speed, and a tick takes away at least one of
them (`Decayed`), so that an exponential decay becomes a free choice of how
fast; a drag of zero would take nothing.  Fractions are counted in `1/Unit`.
One axis stands for both: they are treated alike, except that a glide is slow
when its speed in the plane is.  Times are counted up to the duration limit.
In the detector a session is `"none"`, `"live"` or `"broken"` and not yet
noticed; `Query` is `query_position` with `ensure_connected`.

*Start.*  A process is in `main` at `pc[p]`; every step of `main` that can end
the process has its failing branch, the binding of the lock, the opening of the
nodes and the spawning of the threads included.  A device node is a record with path,
owner, words of its name, location and capabilities, `found` keeps the node as
it was when it was found although the code keeps only its path, and
`OpenTouchpad` opens whatever has that path by then.  A descriptor dies with
its node and does not come back to life when the hardware is plugged in again:
`attached` has the processes whose touchpad has been there since they opened it.  "The first device that
fits" is any that fits, because `evdev::enumerate` promises no order.
`Restart` is systemd's.

*Driver.*  The kernel delivers an event to the desktop's driver if the pad is
not grabbed at the moment of the event; when the daemon reads it is another
matter.  `landing` and `rest` say what the driver has seen of the last touch,
`prompt` whether the listener was done with the touches before it.

*Observers.*  Some variables are only for properties: `gesture` and `clicked`
(what the user did since the last landing; a press on the pad itself or a
further finger, and a press that the button thread hears of, which are told
apart because different code handles them), the driver's three, the three of
`GlideView` (`stands`, and when the stop touch in progress landed and was taken
up), and `touch`, `walked`, `lag`, `sinceStart` and `wasted` in the arithmetic modules.  No guard
of the code's actions reads them.

## Fairness

`FairSpec` assumes weak fairness of the listener, the button thread, the
engine, some timer, and time.  These are operating-system threads that never
wait for each other except in `recv`, so a step that stays enabled is
eventually run by any preemptive scheduler; sleeps end.  Nothing is assumed of
the user, the kernel's ioctl or the hardware.  Fairness is per thread, not per
action: the code does not promise that a given branch is ever taken.

`FairMomentumSpec` assumes the same of the engine's thread alone
(`WF(EngineRuns)`); its peers need never send or leave.  `FairLifeSpec` assumes
that each process runs (`WF(Main(p))`), that the kernel clears up after a
process that has ended, and that systemd restarts what failed
(`WF(Surroundings(p))`); the units restart every few seconds, which stays below
systemd's default limit of five starts in ten seconds, so restarts go on for
good.  Nobody has to start a process, plug hardware in, or let calls succeed:
faults are bounded by `MaxFaults`.

## Runs

| Run | Instance | Checks |
| --- | --- | --- |
| `safety` | one-finger touches, 7 events, time 0..3, arm delay 1, no button thread, the desktop's driver | types, tokens, reports, arming, grab, what the driver sees |
| `gestures` | with pad clicks and further fingers, 6 events, time 0..2 | no inertia after a gesture, again tokens, reports, grab; no Stop that nobody meant |
| `release` | one failing ioctl, glides of two ticks, fairness | `GrabReleased` |
| `shutdown` | unplugging, button thread and a press, 4 events, fairness | `ProcessEnds`; reports and stopping with a button thread |
| `velocity` | 4 slots, windows of 2, 6 samples in several touches, time 0..4 | the ring as a history, the decision at the lift |
| `glide` | speeds to 3, 3 fractions a unit, ticks late by up to 2, limit 3, 3 messages | fractions, duration, refinement of `EngineAlone` |
| `blocked` | screen of 4 positions, speeds to 7, X server away and back, drag 0 in the configuration, no limit, fairness | blocked only at the edge, and in time; every glide ends |
| `start` | a service and another process, pad with mouse node, pad without a location, mouse; 2 plugs, 1 unplug, 1 fault; fairness | types, lock, buttons, `ServiceComesUp` |
| `claim_…` (4 runs) | small | counterexamples, below |

What the invariants say:

- `ContinueFollowsStop`: when the engine takes the motion of a resting finger,
  the glide is over.  It depends on every path sending Stop before it publishes
  the token, over all interleavings of timers and listener.
- `StatusAgrees`: with both channels empty, `momentum_active` is whether the
  engine glides.
- `ArmedOnlyWhileActive`: a stop touch is awaited only while the listener
  believes that inertia runs.
- `StopTouchUnderGrab`: while a stop touch is awaited or in progress the pad is
  grabbed, or the queued actions will grab it, if no ioctl fails.
- `GrabOnlyDuringInertia`: once all is dealt with, a grab is held only during a
  glide or a stop touch.
- `MoveStopsInertia`, `RetouchStops`, `NoInertiaAfterGesture`: an ordinary
  touch, a confirmed stop touch, and a gesture leave no glide.  The gestures
  are those that the listener itself reads (a click of the pad, a further
  finger); what holds of a click that the button thread reads is `claim_click`.
- `GrabReleased` (liveness): the touchpad comes back when the finger is off it.
- `ProcessEnds` (liveness): after unplugging, all threads end.
- `GlideIsLeftAlone`: nothing stops a glide that nobody meant to stop.  A timer
  whose touch was lifted in time, or became a gesture, finds another token when
  it wakes, also under a later touch; no late report or token makes a lift send
  Stop.  Excepted (`StopUnderWay`) is a glide that starts while a Stop that was
  decided on before is still to be sent, by a timer past its check or by the
  button thread past its flag: the message does not say which touch it is
  about, and the code lets it end the newer glide.  The run has no button
  thread; the theorem has.
- `StopTouchHidden`: if the driver did not see a stop touch land, it sees
  nothing of that touch.  `SeenTouchStaysSeen`: if it did see a touch land, the
  touch is not taken from it before its lift.  Both speak of touches that find
  the listener done with those before them (`prompt`).
- `IsHistory`: `nth_oldest` reads the latest samples of this touch in order.
- `VerdictIsOfThisTouch`: a lift starts a glide exactly if a reference decision
  over the whole touch, without ring or indices, says so.
  `RestedFingerStays`: never after a rest, though resting makes no events.
  `SteadyMotionStarts`: trimming never costs a steady movement its glide.
- `FractionsAreKept`: what was emitted is less than one unit away from what was
  owed.  `MomentumTypeOK` bounds the remainders.
- `DurationIsOfThisGlide`: the limit counts from the last StartPointer, also
  when that came in the middle of a glide.
- `BlockedOnlyAtEdge`, `BlockedGlideEnds`: a glide is given up as blocked only
  at the edge it runs into, and, while the detector has its session, after no
  more than `BLOCKED_SAMPLE_LIMIT` emissions in a row that did nothing.
- `GlidesEnd` (liveness): whatever number the drag is set to.
- `LifeTypeOK`, `OneDaemonActs`: paths name one node, the lock is held by a
  process that is alive, and one process at most is past it, kills included.
- `ButtonsAreThePads`: the button thread listens to the touchpad's own
  hardware, never to the pad itself, another mouse or a daemon's own device.
- `ServiceComesUp` (liveness): a service that has not ended without an error
  and has a touchpad to find ends up serving one, unless a daemon has taken
  something else for a touchpad (`Misled`, see below) or serves already.

`CaughtUp` in some of them means that nothing is in flight; before that, the
listener cannot know.

### Bounds, and why they are enough

A stop touch takes a qualifying touch (landing, motion, lift) and a retouch
(landing, motion, lift): six events.  A seventh lets a second retouch begin,
whose timer meets that of the first.  (With eight events `safety` passes as
well, with three times the states.)  Time only has to tell durations shorter
than a threshold from durations not shorter: the thresholds are 1 (or 0 for
the arm delay where it is not the subject), and a clock that ends at 2 or 3
puts each touch on either side of them.  The user stops at `MaxClock`; time
itself goes on while a timer sleeps, so no timer is cut off.  One press and one
failing ioctl may come at any moment.  Bounds are guards of the environment
(`MaxInputs`, `MaxClock`, `MaxPresses`, `MaxIoctlFailures`), never of the code.

Four slots with windows of two are the smallest ring in which a tail can be
trimmed (`VelocityWindow + LiftTail <= RingSize`); six samples fill it beyond
its end or spread over two or three touches.  In `glide`, a limit of three with
ticks of one or two lets a glide end early, exactly on and late; three messages
put a restart and a continued motion into it.  In `blocked` speeds of up to
seven quarters of a unit give a glide that emits four times, one more than
`BLOCKED_SAMPLE_LIMIT`, and slow ticks that emit nothing; the X server goes and
comes once.  `start` lets two of three pieces of hardware be plugged in, or one
of them twice with other numbers; `Paths` has four numbers, so numbers are used
again.  Only one of the two processes is a service: two services with different
settings can keep each other out for good, each restart holding the lock when
the other one tries.  Deadlock is not checked in `start`: when all processes
have ended and the bounds are used up, nothing is left to happen.  In
`shutdown` four events reach a stop touch that rests, but not its motion, which
with a button thread is left to the theorem about `ContinueFollowsStop`.
`MaxMessages`, `MaxXChanges`, `MaxEvents`, `MaxTime`, `MaxPlugs`, `MaxUnplugs` and `MaxFaults` bound what surrounds the code, too.
A run never stops: threads poll for ever, and `Exited` stands for the finished
process.

### Where the documents and the code differ

- `claim_held`: a touch that lands within 200 ms of the lift is ignored for as
  long as it lasts, and the glide goes on under the resting finger, though the
  documents let any confirmed retouch stop it.
- `claim_grab`: the report that answers an *earlier* Stop, read after a lift
  has started a glide, ends the grab of that glide, though the documents
  promise it for as long as inertia is active.  It takes a thread that stalls
  for as long as a whole touch.  When the engine's PointerActive follows, the
  beliefs agree again (`StatusAgrees`), but the grab and the arming are gone.
- `claim_click`: a landing clears `click_inhibit` although the button thread
  may already have set it for this touch.
- `claim_jump`: the first sample of a touch is where the last one ended, so the
  jump of a finger that is put down elsewhere counts as movement.  It supplies
  the distance and the speed of a glide for a finger that does not move; one
  later report of the touch is needed for a duration (`touchpad.rs:229`).

Others are plain in the definitions and have no run of their own:

- A listener that is a whole touch behind may show the driver the end of a stop
  touch: a touch and the next landing are queued, it reads a report that an
  earlier glide has ended, and gives the pad back for a touch that it then
  takes for a stop touch.  `src/README.md:52-55` promises without
  qualification that the driver does not see such a touch.  This is why
  `StopTouchHidden` has the premise `prompt`; it takes eight events to see.
- A timer of an *earlier* stop touch that is delayed between its check and its
  store overwrites the token of the touch that has stopped inertia; the motion
  of that touch is then not forwarded, though the README says that it is.
- A timer that passes its check just before its touch is lifted, or the button
  thread after it has set the flag, sends its Stop later; if a new glide has
  started by then, that glide ends (the exception in `GlideIsLeftAlone`).
- `velocity_stale_ms` is said to discard older samples; only the newest of the
  window is compared with it (`IsFresh`), and a pause in the touch is averaged
  into the velocity.
- A device *path* in the config file beats a device *name* on the command line
  (`Resolve`, `Found`), though `config.rs` and the example configuration say
  that the command line wins.
- The name filter takes the first device of that name (`Found`), which may be
  the mouse node of the same hardware.
- If the touchpad goes away between the search and the opening, another device
  can have its number by then, the daemon's own new one for instance
  (`OpenTouchpad`): the daemon then listens to that, for good if it is its own.
- `src/main.rs:20` (the text of `--help`) still says that the daemon takes no
  grab.

## Proofs

`tlapm <module>.tla` checks each proof module; the four about the daemon's
threads extend one another, and `ReleaseProofs` extends `RingProofs`.  Their
theorems hold for all values of the constants that satisfy the named
assumptions in the modules (`DeviceAssumption`, `StopTouchAssumption`,
`ButtonAssumption`, `ListenerAssumption`, `EngineAssumption`, and
`RingAssumption`, `ReleaseAssumption`, `BlockAssumption`, `MomentumAssumption`,
`DiscoveryAssumption`, `LifecycleAssumption` for the others): any number of
touches, presses, timers and failing ioctls, with unplugging or without; rings
of any size; any units, speeds and screens; any number of processes and pieces
of hardware.  The assumptions are types of the constants, that a threshold or a
size is not zero where the code's is not, that a place holds one piece of
hardware and that hardware is not a process, and that `None` is none of the
things it is told apart from.  TLC evaluates them in every run.

| Theorem | Says |
| --- | --- |
| `DaemonProofs!TypeCorrect` | `Spec => []TypeOK` |
| `TokenProofs!ArmedImpliesActive` | `Spec => []ArmedOnlyWhileActive` |
| `TokenProofs!StopTouchIsGrabbed` | `Spec => []StopTouchUnderGrab` |
| `TokenProofs!MotionAfterStop` | `Spec => []ContinueFollowsStop` |
| `AgreementProofs!ListenerAgreesWithEngine` | `Spec => []StatusAgrees` |
| `AgreementProofs!GrabMeansInertia` | `Spec => []GrabOnlyDuringInertia` |
| `AgreementProofs!MoveMeansRest` | `Spec => []MoveStopsInertia` |
| `AgreementProofs!RetouchMeansRest` | `Spec => []RetouchStops` |
| `AgreementProofs!GestureMeansRest` | `Spec => []NoInertiaAfterGesture` |
| `ViewProofs!HiddenTouchStaysHidden` | `DriverSpec => []StopTouchHidden` |
| `ViewProofs!SeenTouchIsNotTaken` | `DriverSpec => []SeenTouchStaysSeen` |
| `ViewProofs!OnlyMeantStops` | `GlideSpec => []GlideIsLeftAlone` |
| `RingProofs!RingIsHistory` | `ReleaseSpec => IsHistory` |
| `RingProofs!RestMeansNoStart` | `ReleaseSpec => []RestedFingerStays` |
| `ReleaseProofs!OwnTouchDecides` | `ReleaseSpec => []VerdictIsOfThisTouch` |
| `ReleaseProofs!SteadyStarts` | `ReleaseSpec => []SteadyMotionStarts` |
| `MomentumProofs!DetailImplementsEngine` | `MomentumSpec => ImplementsEngine` |
| `MomentumProofs!MotionIsKept` | `MomentumSpec => []FractionsAreKept` |
| `MomentumProofs!BlockIsReal` | `MomentumSpec => BlockedOnlyAtEdge` |
| `MomentumProofs!BlockIsNoticed` | `MomentumSpec => []BlockedGlideEnds` |
| `MomentumProofs!LimitIsOfThisGlide` | `MomentumSpec => DurationIsOfThisGlide` |
| `MomentumProofs!MomentumTypes` | `MomentumSpec => []MomentumTypeOK` |
| `LifecycleProofs!LifeTypes` | `LifeSpec => []LifeTypeOK` |
| `LifecycleProofs!OnlyOneActs` | `LifeSpec => []OneDaemonActs` |
| `LifecycleProofs!ButtonsOfThePad` | `LifeSpec => []ButtonsAreThePads` |

None of the invariants is inductive, and those that are say why each holds:

- `TypeInv`: that `senders` stays a natural number needs `SendersCounted` (it
  is the number of live threads and timers that own a Sender), which needs
  `TimersDistinct` (armed timers have tokens of their own, so the *set* of
  timers loses nobody); handlers need `BatchHeld` (there is an event at hand).
- `GrabInv` adds when grab actions can be pending (`LoopInv`) and what they
  promise (`PromiseInv`).
- `TouchInv`: in the events still to be handled, wherever they are, a lift
  separates any two landings, and one comes first if a stop touch is in
  progress; so no landing is handled during a stop touch
  (`NoLandingInRetouch`).  This is the one fact about the hardware that the
  token protocol rests on.
- `TokenInv` looks at the queue through `QuietAfter(k)`: the engine rests once
  it has taken the first k messages.  Every ContinuePointer in the queue is
  preceded by rest; and while a published token, or one whose timer has sent
  its Stop, is the current one, the engine rests at the end of the queue.
  Publishing a token before sending Stop would break the second part.
- `AgreementInv`: `RestInv` says which touches have stopped inertia, or still
  have a timer that will; `ReportInv` compares what the listener *will* believe
  (`Belief`, after the reports in the queue) with the engine as soon as no
  message in the queue calls for another report; `FetchInv` is the effect of
  `release_stale_grab` before events are read.
- `GestureInv`: as long as the listener has yet to read the last gesture, no
  landing is queued behind it (`MarkedLast`); once it has, the engine rests at
  the end of its queue and the lift to come cannot start a glide (`Settled`).
  It needs `TokenInv` for the rest and `TouchInv` for the order of events.
- `PromptInv` follows a touch that found the listener up to date through three
  stages.  `Unread`: the landing is the next event; the pad is still grabbed
  and nothing of the touch has been seen, or it is not and the touch will not
  be judged a stop touch.  `Hidden`: it is a stop touch, under a grab that only
  its own lift gives up.  `Ordinary`: it is none, and only a lift grabs.  A
  report read in between moves the first stage from one of its cases to the
  other and changes nothing in the others.
- `GlideInv` says why no timer decides on a Stop while `stands` holds: a
  sleeping timer with the active token is that of the stop touch in progress,
  and its sleep ends when that touch rests (`TimersInv`), which is when `stands`
  ends; and the touch in progress has published nothing and has lasted too
  short a time for its lift to send Stop (`Untouched`).  It needs `TokenInv`
  for the tokens and `TouchInv` for the landing.
- `DaemonHasEngine`, a lemma on how the modules fit together, is a step simulation under `TypeInv`, which says that every
  thread that sends has a Sender: every action of the daemon is a step of the
  engine, a step of a peer, or invisible to the engine.
- `RingIsHistory` needs only `RingInv` (types) and one fact about indices
  (`PlaceOf`): the n-th oldest sample's slot, from the write position and the
  count.  `PushedRecent` then says what a push does to the sequence read
  through `nth_oldest`, before, at, and after the ring is full.  With `Newest`
  (the ring's newest sample is the last of the touch) and `Rested` it also
  carries `RestMeansNoStart`.
- `WholeTouch` says that the ring holds the end of the touch, that its length
  and start are those of the whole touch, and that time does not go back in
  it.  With `RingInv` and `Newest` it turns everything the code computes from
  indices into the same thing computed from the touch (`PieceOf`), which
  carries `OwnTouchDecides`.  Lengths of paths are sums: `Total` is a recursive
  function, and what it is worth takes an induction, for which the library's
  theorem (it has an operator as parameter) cannot be used.  `Induction` is one
  over a *set* of numbers instead, from the least number outside it.
  For `SteadyStarts`, every part of a steady movement is as fast as the whole,
  so no tail is slow enough to be cut off.
- `MomentumInv` is `MomentumTypeOK`, `Motion` (the motion owed and not yet
  emitted is the remainder, and a glide's remainder points its way), `Clocks`,
  and `Detection`: with a live session, what the detector last saw is where the
  cursor is unless an emission has moved it since, and an emission that did
  not went over the edge ahead.  `Detection` is what makes three unchanged
  positions in a row mean the edge.
- `PastLock` (who is past the lock holds it) carries `OnlyOneActs`; `ButtonInv`
  with `Placed` (a location belongs to one piece of hardware, and daemons'
  devices have none) carries `ButtonsOfThePad`.
- `NodeInv`, `LockInv`, `PadInv` and `AttachedInv` are the parts of
  `LifeTypeOK`.  The first needs that the kernel takes free numbers, different
  ones for the nodes of one piece of hardware; the third that a process which is
  past the opening of the touchpad has one, although only a running one is asked
  for; the last that whatever removes a node also detaches who has it open.

Every safety invariant and action property of the passing runs, and both
refinements, are proved.  Only model-checked are the liveness properties
(`GrabReleased`, `ProcessEnds`, `GlidesEnd`, `ServiceComesUp`), which are out of
the prover's reach, and the counterexamples of the `claim_…` runs.  The proofs
of actions do not depend on the bounds of the runs.

## Assumptions

- Touchpad events come as the kernel's input layer sends them: one finger's
  landing and lift alternate.
- The desktop applies an emitted motion before the detector's next query, and
  nobody else moves the cursor during a glide.
- Writes to uinput succeed (a failure is logged and ignored by the code).
- Settings are finite numbers.  A TOML file may hold NaN, which passes the
  clamp of the drag and every comparison after it: such a glide would not end.
- The decay takes at least one multiple of the stop speed in a tick; a slower
  one is a glide whose ticks are later.
- The kernel closes a killed process's socket, and systemd does not start the
  process again before its device is gone.

## Not modelled

- *The other settings.*  They follow the same rule as the two device settings
  (`Discovery`), one by one, and are constants of the modules that use them.
- *Overflow.*  The square of a distance in `i32` (`src/touchpad.rs:109`), the
  conversion of `velocity_stale_ms` (334) and of the emitted motion need values
  that no touchpad or sensible configuration has; they are listed as hazards.
- *Lost events.*  After `SYN_DROPPED` the evdev crate makes up events from the
  device's state; the order in which it does is not in the repository.
- *A clock that goes back.*  `Release` has the saturating subtractions, but its
  time does not run backwards.
- *A slow X server.*  `reply()` may block the engine; the engine may stay in a
  tick for any time in `Daemon`, which covers what happens to its messages.
- *The decision log*, which nothing reads, and the log's levels and wording.
- *The SysV script and the installer*: shell around one process.
- *The evdev crate, the kernel, the X server, systemd*: modelled from their use.

What is left to add: a specification of the whole daemon from the user's side (a
pad, a glide and a pointer) that `Daemon` implements; and the lift of `Listener`
and the decision of `Release` in one specification, which would carry the
distance and the age of samples through a stop touch.
