# Verification of the Franka ROS 2 driver

TLA+ modules of the parts of `agimus_franka_ros2` whose correctness depends on
the order of calls, threads, messages and failures; TLC configurations that
check them on small instances; and theorems about them, for all instances,
proved with TLAPS. Paths below are relative to the repository's root (`src/`).

To check: `tlc -config MCHardwareExclusive.cfg MCFrankaHardware` for a run (the
table under *Runs* names module and configuration of each), `tlapm
FrankaHardwareProofs.tla` for a proof module.

## 1. The system

The driver connects ros2_control and ROS clients to a Franka arm and its
gripper, or to a simulation of them.

| Component | State it keeps | Operations | What makes it correct |
|---|---|---|---|
| **Hardware component**, `agimus_franka_hardware_interface.cpp` | command buffers of six kinds of interface; per kind a *claimed*, a *running* and, where commands start from the measured state, a *first update* flag | `on_init`, `on_activate`, `on_deactivate`, `read`, `write`, `prepare_command_mode_switch`, `perform_command_mode_switch` | what is sent is what the controllers that hold the interfaces wrote, never a left-over, a NaN, or a buffer of another kind |
| **Robot**, `robot.cpp` | libfranka's active control and five flags that say of which kind it is | `initialize*Interface`, `stopRobot`, `readOnce`, `writeOnce`, setters, error recovery | flags and control agree through every failure; a control is started before it is written to |
| **Parameter services, error recovery**, `agimus_franka_param_service_server.*`, `agimus_franka_action_server.*` | none beyond the robot's parameters | seven setters, one action | an answer tells what the robot has; the robot is there while a callback runs |
| **FrankaExecutor**, `agimus_franka_executor.cpp` | a thread that spins an executor | constructor, destructor | it starts and ends without hanging |
| **Gripper node**, `gripper_action_server.*` | per goal a detached thread and the future of a blocking command; the last state read, under a mutex | four actions, stop service, state timer | a goal's end agrees with what the gripper did; goals and threads end |
| **Gripper example controller**, `gripper_example_controller.cpp` | the order given last (a static variable); lifecycle state | lifecycle callbacks, goal callbacks | one open-and-close cycle per activation, which does not die silently |
| **Simulated hardware**, `ign_system.cpp` | per joint the bits of its control methods; the commands in Gazebo's component manager | `perform_command_mode_switch`, `write`, `read`, `initSim` | a joint is driven as the controller that holds it says |
| **Gazebo plugin**, `ign_ros2_control_plugin.cpp` | simulation time of the last update; the executor's thread | `Configure`, `PreUpdate`, `PostUpdate`, destructor | controllers keep their rate; start-up and shut-down end |
| **State broadcaster**, `agimus_franka_robot_state_broadcaster.cpp` | a real-time publisher's message, turn and lock; the frames of the message's headers | lifecycle, `update` | a published message is of one instant; none that was handed over is lost |
| **Semantic components**, `agimus_franka_semantic_components/` | references to loaned interfaces; the links of the description | assign, release, `setCommand`, reads | no reference outlives its loan; a command has as many elements as interfaces |
| **Joint impedance with IK**, example controller | the target that the inverse kinematics last answered, shared with the executor's thread; the robot model's pointers | lifecycle, `update`, the answer's callback | torques come from whole targets; the target becomes one of this activation |
| **Move-to-start, motion generator**, example controller | which joints have a plan, when each arrives | `update` | the motion ends and its torques with it |
| **Other example controllers** | a few numbers | one closed-form reference per cycle | |
| **Model wrappers** (`ModelFranka`, `ModelKDL`) | none | kinematics, dynamics | |
| **Messages, bringup, MoveIt configuration** | none | | |

### How the components interact

* The **controller manager** (ros2_control, not in this repository) calls the
  hardware component from two threads. The real-time thread repeats `read`,
  the controllers' `update`, `write`; a pending switch of controllers is
  performed at the start of `update`. A service thread calls
  `prepare_command_mode_switch`, `on_activate` and `on_deactivate` between
  these calls. Controllers and component share the command buffers: an
  interface that is loaned to a controller is a pointer to a `double`.
* The **component calls the robot**, which calls libfranka. Failures come back
  as exceptions, thrown in the middle of a sequence of assignments.
* **Clients call the services** in the threads of `FrankaExecutor`, which use
  the same `Robot` object beside the control loop.
* The **gripper node** runs every goal in a thread of its own. Goals, the stop
  service and the state timer share one gripper, one mutex and one last state.
* The **gripper example controller** is a client of two of the gripper node's
  actions; its callbacks run in the executor while the controller manager
  activates and deactivates it.
* In **simulation** the plugin is called back before and after every physics
  step. Commands pass from the component to Gazebo through components of the
  entity-component manager, which persist until they are overwritten. Its
  `Configure` waits, in the simulation's thread, for an answer that its own
  executor's thread has to receive.
* The **example controllers** take turns on one arm: what one of them wrote
  into a buffer stays for the next until somebody overwrites or clears it. The
  inverse kinematics answers in the executor's thread. Their semantic
  components hold pointers to interfaces that the controller manager takes
  back at the end of each activation.
* The **broadcaster** fills its message in the real-time thread and shares it
  with the publishing thread of a real-time publisher.

### What is hard

*Protocol sequences*: the component keeps fifteen flags in step with the
interfaces controllers hold, over two calls (prepare, perform), five ordered
blocks and a retry. *Partial failure*: a block throws after its predecessors
have acted; a peer rejects what this component has prepared. *Stale state*:
buffers that survive a session; claims that survive a rejected switch; a
gripper width that was read before another goal moved the gripper; control
bits that outlive a controller; a target, pointers and torques that outlive an
activation. *Interleaving*: cancels against completions, stops against
commands, callbacks against lifecycle transitions, a vector and a message that
two threads share. *Shutdown* at any point, with threads that hold futures,
mutexes and the robot.
`PROJECT.json` lists the hazards line by line with the properties that cover
each.

## 2. The modules

| Module | Models | Composes |
|---|---|---|
| `FrankaHardware` | hardware component and robot session, under the controller manager's two threads | |
| `ControlSession` | abstract: what the arm may see of the driver | implemented by `FrankaHardware` |
| `FrankaHardwareProofs` | theorems | `FrankaHardware` |
| `RobotServices`, `RobotServicesProofs` | `on_init`, `FrankaExecutor`, parameter services, error recovery | |
| `GripperActionServer`, `GripperActionServerProofs` | gripper node | |
| `GripperService` | abstract: what the gripper node promises its clients | implemented by `GripperActionServer` |
| `GripperExampleController`, `GripperExampleControllerProofs` | example controller | on top of `GripperService` |
| `GazeboControl`, `GazeboControlProofs` | simulated hardware and the plugin's callbacks | |
| `GazeboPlugin`, `GazeboPluginProofs` | the plugin's life: `Configure` with `initSim`, the executor's thread, failing writes, destructor | around `GazeboControl`, whose steps are its callbacks |
| `SemanticComponent` | operators: assigning, releasing and outliving loans; acceptance of commands | |
| `MotionGenerator` | operators: which joints get a plan, when they have arrived | |
| `ExampleControllers`, `ExampleControllersProofs` | move-to-start, joint impedance with inverse kinematics and a cartesian pose controller, taking turns | on `SemanticComponent` and `MotionGenerator` |
| `StateBroadcaster`, `StateBroadcasterProofs` | broadcaster, real-time publisher, the robot state's links | on `SemanticComponent` |
| `MCFrankaHardware`, `MCGripperActionServer`, `MCGazeboControl`, `MCGazeboPlugin`, `MCStateBroadcaster` | switches, goals, joints, descriptions of the TLC instances | |

Operators whose name begins with `Mut` are plausible wrong versions of the
definition that follows them. They are used by no specification; with one put
in place of the original, TLC finds a property violated.

### FrankaHardware

`claimed`, `running` and `first` are the sets of kinds whose flag is set;
`control` and `active` are `Robot::active_control_` and its five flags. A kind
stands for all its handles (seven efforts, sixteen pose elements). Of a buffer
the model keeps whether it holds a NaN or infinity, and a history bit: whether
its content is older than its mode's start.

`phase` walks the real-time thread through `Read`, `Update`, `SwitchMode` once
per block of `perform_command_mode_switch` (each of which may throw and leave
the earlier ones done), `FinishSwitch` (the check of a lone elbow and the
hand-over), `Control` (what controllers write) and `Write`. `Message(k)` and
`Open(k)` follow the seven branches of `write` in their order; `JointMessage`
and `StartControl` follow `Robot::writeOnce` and `initialize*Interface`.
`Prepare` records claims kind by kind up to the first odd number of handles,
as the code does before it returns an error.

Of ros2_control the model takes that its calls of one component exclude each
other; that a component whose `read` or `write` fails is not served any more;
that inactive components are still read and written; that interfaces are
handed to the controllers whatever `perform` returned; and, as the fault
`caught`, that it may or may not survive an exception. `FaultKinds` names
everything that may go wrong, and a run chooses among them.

Behaviour of the code that the model shows and keeps: an elbow released while
its Cartesian mode stays goes on being commanded, and one claimed later never
starts; a switch from velocity with elbow to pose with elbow in one request
loses the elbow; claims of a prepared switch that a peer rejects remain, and
the next switch starts the modes they name (`PerformServesClaims`); with two
modes claimed, `write` hands the buffer of one to the control of the other
(without `Exclusive` TLC finds `OwnKind` violated within one switch: efforts are
sent as positions); `on_deactivate` leaves the running flags, which
`InactiveIsSilent` shows to be harmless; stopping and starting the same mode in
one request leaves control and buffers as they are. These are why some
properties are stated for restricted use: `NoLeftovers` (no switch leaves
claims behind), `Exclusive` (and one mode at a time), `Forward` (and switches
to the same or a later block), `ElbowFollows` (an elbow comes and goes with its
mode).

### ControlSession

What the arm may see: at most one session at a time, of one mode; messages in
a session only, of its mode; and in a session whose commands are places
(positions, poses) none before the session was armed with the measured place.
`FrankaHardware` implements it under the mapping `session <- control`,
`armed <- control # NoControl /\ control \notin first`, `message <- sent`.

### RobotServices

`owner` is where the thread is that makes and destroys the component: the
checks of `on_init`, the connection, the constructor of `FrankaExecutor`
(start the thread, poll until it spins), `add_node` twice, and, from `Destroy`
on, cancel, join, release of the members. `thread` and `spinning` are the
executor's. A setter is three steps (called, answered by the robot, answered
to the client), in which the robot takes the value, refuses it, or the
connection is lost with the value taken or not; only the exceptions libfranka
documents occur. `told` is a history variable: the values of a parameter that
the answers so far leave possible. The callbacks of one node exclude each
other, so that the setters' `write_mutex_` is never contended, and error
recovery takes no lock. `Shutdown` of the context may come at any point. The
destructor does not run while `on_init` does.

### GripperActionServer and GripperService

Every goal has its thread's program counter, its status in the action server,
and its asynchronous command. The thread's steps are those of
`executeCommand`: launch, wait, poll (result, cancel), feedback, stop, collect
the future, finish. `MayCollect` is the blocking `get` of a future. The command
is `"launched"` by `std::async`, `"running"` once the gripper has it
(`CommandBegins`), and over in `CommandEnds`; a stop before it began does not
interrupt it. While it runs `FingersMove`; where it ends is the opening it
asked for if it succeeded (`Met`), any otherwise. `reading`
is `gripper_state_mutex_` held by the timer over a blocking read of the
gripper. `StopGripper` interrupts the commands of *all* goals, whoever asked
for it, as libfranka does. A transition that the action server would refuse
leads to `pc = "crashed"`, and `stop()` throwing in a detached thread, where
nothing catches it, to `"terminated"`: nothing moves after either. A shutdown
ends the loops without a result, as in the code; such goals never end.

`GripperService` is the clients' view: one command per goal, after which the
goal is concluded in agreement with it; a gripper command may be concluded
without one. The mapping forgets threads and futures.

### GripperExampleController

Extends `GripperService` with a client: `SendGoal` and `WriteOrdered` are the
two halves of `toggleGripperState`, which either thread may be inside, because
it reads and later writes a variable that both threads share. Activation,
deactivation with the stop service's future, acceptance and result callbacks
are actions of their own. Results go on toggling after a deactivation, as in
the code, and the first activation after one may order a grasp. Goals of other
clients and unloading the controller are left out; `MaxActivations` bounds
activations.

### GazeboControl

One iteration of the simulation is `PreUpdate` (`IgnitionSystem::write` for
every joint), `Step` (physics takes the commands and zeroes them), `PostUpdate`
(when the period has passed: read, pending switch, update). `Paused` is an
iteration in which time stands still. `method` is the set of control bits of a
joint; `Kept` is the mask the code applies for a stopped interface. A command is
abstracted to where it comes from. The module is about a simulation whose
writes succeed; `GazeboPlugin` has those that fail.

### GazeboPlugin

`stage` is where the simulation server's thread is: in `Configure` (waiting for
the parameter service, asking, with the question asked, parsing, loading),
running, or in the destructor. `thread` is the executor's, `up` the context's
`rclcpp::ok()`. `"dead"` is a process that an exception nobody catches, a null
pointer or a joinable `std::thread` that is destroyed has ended.

A *world* is a model the plugin may be attached to: whether it is valid, has
the parameters, and the type of each joint. A *description* has joints (with
command and state interfaces, what each mimics, whether its numbers are
numbers), sensors, a fault that parsing meets and the tree of links.
`InitSim` decides as `initSim` does whether the hardware is accepted, refused
or throws; what it accepts must be the hardware that `GazeboControl`'s
constants describe (`DescriptionsAssumption`). `Chain` follows `getRootLink`
and `findTipLink`: the tip is the last link of a breadth-first walk, so that
the order in which a description lists the links of the hand decides whether
`write` can compute gravity (`Computes`), because it passes as many joint
positions as the arm has axes.

Behaviour of the code that the model shows and keeps: a context that is shut
down during the wait for the service ends the process, since the wait returns a
string made from 0; a plugin that started its thread but made no manager
terminates in its destructor; a switch that is requested when the simulation
no longer runs holds the controller manager's service, the executor and with it
the destructor until the context is shut down; when gravity cannot be computed
the hardware is let go in the first iteration and no joint ever gets a command.

### SemanticComponent, MotionGenerator and ExampleControllers

A reference is `"live"` while its loan lasts and `"gone"` afterwards. The
cartesian components release theirs in `on_deactivate`; the robot model of the
inverse kinematics is not released, appends with each activation and takes its
pointers, the first time it computes, through the first reference it has.

`target` is `joint_positions_desired_` in two parts. Each part holds the
activation whose answer it is, 0 when it was never assigned; `Copy` assigns one part
and `Grow`, for a vector that was empty, gives it its size after its elements,
as `std::vector` does. In between the control loop may update. `torque` is
whose torque is in the effort buffer, `"unset"` one that was computed from an
element that does not exist.

Behaviour of the code that the model shows and keeps: a second activation
begins with the target of the first, and answers to its requests still arrive;
a target may be half of one answer and half of another for a cycle; until the
first answer no torque is written, so that after a hand-over without rest the
robot goes on with the predecessor's last torque; the robot model's first
reference may have ended if an earlier activation got no answer.

A joint whose distance equals the motion generator's threshold has no plan and
has not arrived either: it waits for a time that was never set. `Plans` gives it
any time, from one that has passed to one that no motion reaches (`Never`). A
switch to a controller of another kind of interface follows from rest only;
`FrankaHardware` has the others.

### StateBroadcaster

`rt` walks `update` (`trylock`, `get_values_as_message`, `unlockAndPublish`,
the parts it publishes itself), `thread` the loop of
`realtime_tools::RealtimePublisher`. The message is a stamp and values, written
and copied one after the other. `accepted`, `sent` and `told` are history
variables. A failed `trylock` makes `update` return an error; what a controller
manager makes of it differs between distributions (`Fail`), both are modelled.
`LinkNames` and `FramesOf` compute the frames of the headers as the code does,
from a walk over the description with fixed indices. A configuration may fail
before or after the publisher is made anew, the first time and any later one
(`ConfigureFails`), and the controller may be unloaded and loaded (`Reload`).

## 3. Runs

| Run | Module, configuration | Distinct states | Shows |
|---|---|---|---|
| `hardware_any` | MCFrankaHardware, MCHardwareAny | 1,069,232 | with mixed modes, lone elbows, odd handle counts, every fault: `FlagsFollowControl`, `ControlIsRunning`, `NothingStale`, `OnlyClaimedIsSent`, `InactiveIsSilent` |
| `hardware_exclusive` | MCFrankaHardware, MCHardwareExclusive | 463,282 | one mode at a time, back-to-back switches and restarts, five faults: `OwnKind`, `ImplementsSession` |
| `hardware_forward` | MCFrankaHardware, MCHardwareForward | 109,968 | switches to the same or a later block, rest included: `WriteAfterSwitch`, `ElbowAsHeld`, and the liveness of `HeldIsCommanded`; no deadlock |
| `hardware_handover` | MCFrankaHardware, MCHardwareHandover | violation | a switch between two modes in one request can end in a write without a control |
| `services` | RobotServices, MCRobotServices | 3,968 | `NoCallOnDeadRobot`, `AnswersHold`, `ConstructorReturns`, `DestructorReturns` |
| `gripper` | MCGripperActionServer, MCGripper | 115,224 | `TypeOK`, `HonestResult`, `NoBadTransition`, `ImplementsService`, `GoalsEnd`, `ThreadsEnd` |
| `gripper_cycle` | GripperExampleController, MCGripperCycle | 49,666 | `OneCommandPerActivation`, `OnlyFailedMoveStops`, `OpensAgain` |
| `gripper_cycle_stop` | GripperExampleController, MCGripperCycleStop | violation | an answered stop service finalizes the controller |
| `gazebo` | MCGazeboPlugin, MCGazebo | 13,703 | from `Configure` to the destructor, with wrong worlds and descriptions: `PluginTypeOK`, `DrivenAsHeld`, `OneCommand`, `ConfigureReturns`, `DestructorReturns`, `HeldIsDriven` |
| `gazebo_stop` | MCGazeboControl, MCGazeboStop | violation | stopping one interface clears the bits of the others |
| `controllers` | ExampleControllers, MCExampleControllers | 364,352 | controllers that take turns: `TypeOK`, `OwnTorque`, `LoansAreLive`, `MotionEnds`, `FollowsItsOwn`; no deadlock |
| `broadcaster` | MCStateBroadcaster, MCBroadcaster | 4,451 | `TypeOK`, `NothingLost`, `EveryMessageOut`; no deadlock |

### The three violations

* **Hand-over of modes.** `perform_command_mode_switch` handles kinds in a
  fixed order and each block stops *and* starts. In a switch from position to
  effort the effort block starts the torque control, and then the position
  block's `stopRobot` (`agimus_franka_hardware_interface.cpp:384`) ends it.
  `perform` returns OK, effort is marked as running, and the next `write`
  throws "Control hasn't been started". The other direction works
  (`hardware_forward`, and `ControlWhenWriting` for all such switches); every
  switch in this one ends so (`HandoverLosesControl`). The unit test of `write`
  after a switch only starts modes from rest.
* **Stop of the gripper example.** `gripper_example_controller.cpp:104` calls
  `get()` twice on one `std::future`; the second throws and the lifecycle node
  goes to *finalized*, in every deactivation that asks the service
  (`StopFinalizes`).
* **Control bits.** The masks of `ign_system.cpp:702-713` are conjunctions of
  distinct bits, that is 0, and clear every bit of the joint, whichever
  interface is stopped (`StopClearsEveryMethod`).

### Bounds and why they are enough

*Hardware.* All six kinds of interface are there with all the flags. What is
bounded is which switches are requested: rest to and from each of the seven
configurations the controllers of this repository use (five modes, two of them
with an elbow), all transitions between these, restarts, and for
`hardware_any` mixed modes, lone elbows and wrong counts for an earlier and a
later kind. `hardware_forward` takes, of these transitions, restarts and lone
elbows, those that hand over to no earlier block and take no elbow along. Switches follow each other without bound. The proofs lift the
restriction to particular switches.

*Services.* Two parameters with two values tell a kept answer from a changed
one and one parameter from another; one setter at a time is what the callback
group allows.

*Gripper.* Two goals overlap in all ways; one is a gripper command (with its
out-of-range check, early success and choice between move and grasp), the
other a homing, whose command is of the other kind and moves the width. A
width has two values, each asked for by some goal, plus one out of range: an
opening that was wanted and one that was not, from either side, with a grasp's
tolerance of 0; the proofs cover any widths and tolerance. The four actions share `executeCommand`, so that a third goal adds no new pair of
threads.

*Gripper cycle.* Two goals in flight, two activations: the second is enough to
meet callbacks of the first. A goal that is over may be sent anew, so that the
cycle itself is unbounded.

*Simulation.* A joint with an effort interface, one without, a passive one and
a mimic; a period of two steps, the smallest that has an iteration without
update. Worlds and descriptions are a right one and, one fault at a time, all
the wrong ones that `Configure` and `initSim` tell apart: each fault ends
`Configure` or the first write, so that two of them show no more than the first
that is met.

*Example controllers.* One joint, with every distance and, at the threshold,
every time: a motion ends when each joint has arrived, and the joints share
nothing but that conjunction and the slowest one's time; motions of at most two
updates, so that a short one and a long one differ; a vector of two parts,
the fewest that can be half assigned; the pose component with an elbow, that
is with two groups of references; three activations of the inverse kinematics,
of which the second meets answers and references of the first and the third
those of both. The others are activated without bound. The proofs cover any
joints, either pose component and any number of activations.

*Broadcaster.* The links of an FR3 with its hand, from the repository's test
description. Six cycles: the message that is published, the one that is being
copied, the one that waits and the one that is refused overlap within four.

`CHECK_DEADLOCK FALSE` is set where the system may stop: a component that is
not served after a failure, a service that is gone, goals that are over.

### Fairness

* `FrankaHardware`: weak fairness of the real-time thread, which loops while the
  controller manager lives. Nobody need request a switch.
* `RobotServices`: weak fairness of the owner's constructor and destructor, of
  the executor's thread and of callbacks: threads run, and a call of the robot
  returns or fails with the connection.
* `GripperActionServer`: commands and readings end (they are blocking calls of
  the gripper with its own timeout); strong fairness of each goal's thread,
  because the timer takes the mutex again and again and releases it in
  between for most of its period.
* `GripperExampleController`: messages arrive; the service's part is what
  `GoalsEnd` shows of the node. Nobody need cancel or deactivate.
* `GazeboPlugin`: weak fairness of `Configure`, of the executor's thread, the
  callbacks and the destructor, which run in threads; strong fairness of
  `Simulate` (a simulation may be paused any number of times, not for ever) and
  of `Receive`: among the answers to a question that is asked again and again
  some day one has the description. Nobody need shut down or destroy.
* `ExampleControllers`: weak fairness of the real-time loop and of an
  assignment that has begun; strong fairness of `Solves(TRUE)`: of what is asked
  in every cycle, some is solved, and the requests of an earlier activation run
  out.
* `StateBroadcaster`: weak fairness of the publisher's thread, which tries for
  the mutex again and again. Strong fairness is not needed, nor anything of
  `update`: `MessageWaitsFewSteps` shows that the mutex is free whenever the
  thread comes to it with a message waiting.

## 4. Theorems

The modules named `...Proofs` prove, for every value of the constants that satisfies
their assumptions:

| Theorem | States | Inductive invariant |
|---|---|---|
| `TypeCorrect` | `TypeOK` of FrankaHardware | itself |
| `FlagsOfControl`, `ControlIsKnown` | the flags say which control is active; an active control is of a running kind | `ControlInv`: each needs the other where a block restarts a control |
| `NoStaleCommand` | nothing older than its session is sent | `FreshInv`: what is running and past its first read is fresh, and between read and write nothing counts as sent |
| `PerformServesClaims`, `SilentWhenInactive` | after the blocks exactly the claimed modes run; an inactive component sends nothing | `DoneInv`: in the blocks that are done what runs is claimed, and an inactive component has no control |
| `ClaimedBuffersOnly` | what is sent is of modes that are held or claimed | `ClaimedInv`: outside a switch, what runs while the robot has a control is held or claimed |
| `HeldBuffersOnly` | *assuming* `NoLeftovers`: what is sent is of held modes, however many are held | `LoansInv` and `HeldControlInv`: claims are those of what is held or being switched to, and outside a switch what runs while the robot has a control is held |
| `MessagesOfTheirKind` | *assuming* `Exclusive`: a message takes its own kind's buffer | `ClaimsInv` (claims are what the pending request grants, and of one mode) and `RunningInv` (at each block, what earlier blocks left running is claimed, and at most one later mode runs) |
| `ComponentImplementsSession` | *assuming* `Exclusive`: every step is one of `ControlSession` or a stutter | the same |
| `ServicesTypeCorrect`, `CallbacksFindTheRobot`, `AnswersAreKept` | the properties of RobotServices | `Lifetime` (who is alive when: a callback needs a spinning thread, release an ended one) and `Settings` (what answers and the running call leave possible) |
| `GripperTypeCorrect`, `EndedGoalsAreAtRest`, `ResultsAreHonest`, `TransitionsAllowed` | the properties of GripperActionServer, for any set of goals | `GoalInv(g)`: at each point of the goal's thread, what its status and command can be |
| `ActionServerImplementsService` | every step of the node is one of `GripperService` or a stutter | the same |
| `ControllerTypeCorrect`, `OneCommandEach`, `CyclesGoOn` | the properties of GripperExampleController, for any finite set of goals | `Served` (running commands belong to goals sent) and that orders never outnumber activations |
| `ControlWhenWriting`, `ElbowGoesAlong` | *assuming* `Forward` (the second also `ElbowFollows` of every switch): no write without a control of its kind; a cartesian command carries the elbow exactly when it is held | `ForwardInv` (the mode that runs is the control's and is held or, during a switch, claimed; since the block that stops the old mode comes first, nothing else runs when a block starts its mode) and `ElbowInv` (an elbow runs with the mode that runs exactly if both are held, or both claimed, and waits for the first read with it) |
| `HandoverLosesControl` | for any switches and faults: a block that stops a mode after an earlier block's mode was claimed leaves no control and the earlier mode marked as running | `StartedInv`: every claimed mode runs in the blocks that are done |
| `HeldIsSent` | *assuming* `Forward`: a write sends no mode that is not held and, after a switch that succeeded and the first read, the mode that is | `HeldInv`: after a switch that succeeded, what is held runs |
| `StopFinalizes` | a deactivation with the stop service ends finalized | `FutureInv`: the future is empty when it is judged |
| `StopClearsEveryMethod` | of a stopped joint's bits only those remain that the same switch starts | that of `GazeboTypeCorrect` |
| `ReleaseIsNeeded` | a cartesian component that is assigned accepts commands exactly if it had no references left | a fact about `Assign` and `Accepts` |
| `GazeboTypeCorrect`, `ControllersKeepRate`, `JointsGetOneCommand` | properties of GazeboControl, for any joints and periods | `RunInv`: age by phase, and every command in Gazebo is of the joint's branch |
| `JointsDrivenAsHeld` | *assuming* `Exclusive`: a joint is driven as it is held | `BitsInv`: a held method's bit is set, with at most the initial effort bit beside it |
| `PluginTypeCorrect`, `PluginGivesOneCommand`, `PluginDrivesAsHeld` (the last *assuming* `Exclusive`) | the safety properties of GazeboPlugin, for any worlds and descriptions | those of GazeboControl, most of whose steps the plugin's are; hardware that is let go stays before its write (`Unserved`), and the bits are kept as long as it is served (`BitsKept`) |
| `BroadcasterTypeCorrect`, `MessagesAreKept` | the properties of StateBroadcaster, for any description and number of cycles | `LockInv` (who is where has the mutex, and whose turn it is) and `ContentInv` (the message that has not been taken is whole) |
| `ControllersTypeCorrect`, `TorquesAreOwn`, `ReferencesAreLive` | the properties of ExampleControllers, for any joints, activations, with and without elbow | `TargetInv` (a vector that has its size has its elements: the order in which the assignment works), `TorqueInv`, `LoanInv` (only the robot model has references of earlier activations, and exactly if one of them ended before the model had computed) |

The assumptions on the constants are what the code takes for granted:
`DescriptionsAssumption` that a description which `initSim` accepts gives the
joints that `GazeboControl` is about, `NamesAssumption` that a description has
the links that the broadcaster's indices count, `BoundsAssumption` that there
are joints and a bound. TLC evaluates all of them on the instances.

### The safety half of liveness

That something happens in the end has two halves: that a thread which may go on
does, which is fairness, and that its steps lead there, which is a property of
steps. The second half is proved for all of them but `OpensAgain` and `MotionEnds`, mostly as a variant: a bounded
number of steps that every step of the threads in question decreases and no
step of another increases, so that the bounds are numbers a reader can hold
against the code.

| Theorem | Of | What is bounded, and from which invariant |
|---|---|---|
| `SwitchTakesFewSteps`, `HeldIsSent` | `HeldIsCommanded` | ten steps of the real-time loop from `prepare` to the hand-over; every write after the first read, see above |
| `JoinWaitsForFewSteps` | `DestructorReturns` of RobotServices | five steps of the executor's thread with its callback; `Hearing`: there is nothing to destroy before the thread spins, so that a cancel meets a thread that will look at it |
| `PollMissesNothing` | `ConstructorReturns` | nothing: while the context lasts a poll still to come finds the executor spinning; `PollInv`. After a shutdown it may not, and then polls for ever |
| `EndedCommandsConclude` | `GoalsEnd` | four steps of a goal's thread once its command has ended |
| `ThreadsEndInFewSteps` | `ThreadsEnd` | six steps of each goal's thread and command after a shutdown, which no cancel, stop or reading gives back |
| `HeldIsWritten`, `PluginDrivesHeld` | `HeldIsDriven` | *assuming* `Exclusive`: every write but the one that makes the command's component; `BitsInv` |
| `ConfigureIsHeard` | `ConfigureReturns` | nothing: while the context lasts the executor hears the answer; `ListenInv`. After a shutdown nothing brings `Configure` on |
| `DestructorWaitsForFewSteps` | `DestructorReturns` of GazeboPlugin | three steps, with no switch pending; `CancelInv`: a manager exists only once the executor spins, so that the cancel is not lost |
| `MessageWaitsFewSteps` | `EveryMessageOut` | four steps of the publisher's thread; `LockInv` |
| `AnswersInOrder` | `FollowsItsOwn` | answers only get later; `OrderInv`: nothing under way is older than what the target holds |

`Exclusive` says that controllers hold one mode (of the arm, of a joint) at a
time, that `prepare` is given whole kinds, and that what it has prepared
reaches `perform`. Without it `OwnKind`, `ImplementsSession` and
`DrivenAsHeld` do not hold; with more modes at once the code mixes them as
described above. `Forward` adds that no switch stops a mode in a later block of
`perform_command_mode_switch` than that of a mode it starts, and that the
component is deactivated idle; switches from and to rest are a special case.
Without it `WriteAfterSwitch` does not hold, which is the first violation.

All liveness itself (`HeldIsCommanded`, `ConstructorReturns`,
`DestructorReturns`, `GoalsEnd`, `ThreadsEnd`, `OpensAgain`, `ConfigureReturns`,
`HeldIsDriven`, `MotionEnds`, `FollowsItsOwn`, `EveryMessageOut`) is
model-checked only: the provers do not handle fairness and `ENABLED`. What the
walks over descriptions compute (`Below` of StateBroadcaster, `Chain` of
GazeboPlugin) is not proved either, because it takes induction over data; the
theorems assume of it what `NamesAssumption` and `DescriptionsAssumption` say.

## 5. Not modelled

* Floating-point computation: rate limiters and filters of `robot.cpp`,
  `ModelFranka`, the dynamics of `ModelKDL`, the trajectory of the motion
  generator, poses, twists and torques of the example controllers. With it one
  thing the source does that no property here is about: the inverse kinematics
  reads the robot's time from its last state interface, which is the pointer to
  the robot's state
  (`joint_impedance_with_ik_example_controller.cpp:151`), so that the pose it
  asks for stays at the start although the header announces a sinusoidal
  motion.
* The index of the flange (`agimus_franka_robot_state.cpp`,
  `kFlangeLinkIndex`). The root is listed twice, so that index 8 names the
  seventh link of an FR3, while `AgimusFrankaRobotState.msg:48` speaks of the
  flange. `FramesOf` computes what the code computes; which link *is* the flange
  is not in the code, so that no property says it.
* The parameter `process_finished` of the move-to-start controller, set when a
  motion ends and never reset.
* `CartesianVelocityInterface`, which is the pose interface with other numbers.
* Contents of state interfaces, sensors, feedback, joint state and robot state
  messages, logging, parameters read once.
* The example controllers that compute one closed-form reference per cycle.
  What the hardware needs of them is the action `Control` of `FrankaHardware`.
* Generated messages, launch files, configuration.
* An answer of the inverse kinematics with more positions than the seven that
  `on_activate` reserves, which would move the vector under the control loop.
* `stop()` of the gripper returning false, which the code ignores.
* Undocumented exceptions of libfranka in the services, and what two commands at
  once do inside libfranka.

## 6. What could follow

* `ExampleControllers` and `FrankaHardware` side by side, as one specification:
  today the first takes from the second that efforts are cleared when they start
  and not when they go on (`EffortsStart`), and that cartesian commands follow a
  switch from rest.
* Several hardware systems in one description of the Gazebo plugin.
* The broadcaster's part publishers, if they become real-time publishers of
  their own.
