---------------------------- MODULE GazeboPlugin ----------------------------
(***************************************************************************)
(* The life of the Gazebo plugin around GazeboControl: Configure, which    *)
(* starts the executor's thread, waits for the robot's description, loads  *)
(* the hardware and makes the controller manager; the simulation's         *)
(* callbacks, once there is a manager; and the destructor.                 *)
(*                                                                         *)
(* Configure, callbacks and destructor run in the simulation server's      *)
(* thread.  Beside it are the executor's thread, which receives the        *)
(* description and runs the manager's services, and whoever shuts the ROS  *)
(* context down.  A description has one hardware system.                   *)
(***************************************************************************)
EXTENDS GazeboControl, Sequences, FiniteSets

CONSTANTS
  Worlds,       (* the models the plugin may be attached to                 *)
  Descriptions, (* the robot descriptions it may receive                    *)
  Axes,         (* the joints of the chain that gravity is computed for     *)
  NoJoint,      (* what a joint follows that is no mimic                    *)
  None          (* no description                                           *)

(* GetEnabledJoints: joints with exactly one actuated axis.                *)
Enabled(w) ==
  {j \in DOMAIN w.joints : w.joints[j] \in {"prismatic", "revolute", "continuous", "gearbox"}}

-----------------------------------------------------------------------------
(***************************************************************************)
(* initSim, on a description d of which the simulation has the joints w.   *)
(***************************************************************************)

Accepted(d, w) == DOMAIN d.joints \cap Enabled(w)

Mimicking(d, w) == {j \in Accepted(d, w) : d.joints[j].follows # NoJoint}

(* The state interfaces of j that a mimic can follow; the search stops at  *)
(* the first.                                                              *)
Followable(d, j) == SelectSeq(d.joints[j].state, LAMBDA kind : kind \in Methods)

(* An exception that nothing on the way out of Configure catches: a joint  *)
(* to mimic that the description lacks or that has no state to follow, a   *)
(* text in the place of a number, a sensor's interface of an unknown name. *)
InitThrows(d, w) ==
  \/ \E j \in Mimicking(d, w) :
       \/ d.joints[j].follows \notin DOMAIN d.joints
       \/ Followable(d, d.joints[j].follows) = << >>
  \/ \E j \in Accepted(d, w) : ~d.joints[j].numeric
  \/ d.sensors = "unknown"

InitSim(d, w) ==
  IF DOMAIN d.joints = {} THEN "refuses"
  ELSE IF InitThrows(d, w) THEN "throws" ELSE "accepts"

(* A joint that mimics one that the simulation has not: write follows a    *)
(* null pointer.                                                           *)
Dangling(d, w) ==
  \E j \in Mimicking(d, w) : d.joints[j].follows \notin Enabled(w)

(* The hardware that initSim accepts is the one of GazeboControl.          *)
ASSUME DescriptionsAssumption ==
  \A w \in Worlds, d \in Descriptions :
    Enabled(w) # {} /\ InitSim(d, w) = "accepts" =>
      /\ Joints = Accepted(d, w)
      /\ EffortJoints = {j \in Joints : "effort" \in d.joints[j].command}
      /\ Actuated = {j \in Joints : d.joints[j].command # {}}
      /\ Mimics = Mimicking(d, w)
      /\ \A j \in Mimics : Head(Followable(d, d.joints[j].follows)) = MimicKind

-----------------------------------------------------------------------------
(***************************************************************************)
(* The chain whose gravity is compensated, in the description's links t:   *)
(* t.children lists the children of each link, t.movable is the set of     *)
(* those whose joint moves.                                                *)
(***************************************************************************)

Child(t, l, k) == \E i \in DOMAIN t.children[l] : t.children[l][i] = k

(* getRootLink: the link without a parent.                                 *)
RootLink(t) ==
  CHOOSE l \in DOMAIN t.children : \A k \in DOMAIN t.children : ~Child(t, k, l)

(* findTipLink: a queue of links is walked from the root; the tip is the   *)
(* last without children, which is the last of all.                        *)
TipLink(t) ==
  LET size == Cardinality(DOMAIN t.children)
      queue[n \in 0 .. size] ==
        IF n = 0 THEN <<RootLink(t)>>
        ELSE LET visited == queue[n - 1] IN visited \o t.children[visited[n]]
  IN queue[size][size]

(* The links between the root and the tip.                                 *)
Chain(t) ==
  LET size == Cardinality(DOMAIN t.children)
      above[n \in 0 .. size] ==
        IF n = 0 THEN {TipLink(t)}
        ELSE LET lower == above[n - 1]
             IN lower \cup {l \in DOMAIN t.children : \E k \in lower : Child(t, l, k)}
  IN above[size]

(* gravity: KDL takes as many joint positions as the chain has joints.     *)
Computes == [d \in Descriptions |-> Cardinality(Chain(d.links) \cap d.links.movable) = Axes]

-----------------------------------------------------------------------------
VARIABLES
  stage,       (* where the simulation server's thread is                   *)
  world,       (* the model the plugin is attached to                       *)
  description, (* the description received, or None                         *)
  manager,     (* controller_manager_ is set                                *)
  served,      (* the resource manager has the hardware and serves it       *)
  thread,      (* thread_executor_spin_                                     *)
  up           (* rclcpp::ok()                                              *)

lifeVars == <<stage, world, description, manager, served, thread, up>>
pluginVars == <<lifeVars, vars>>

PluginInit ==
  /\ Init
  /\ stage = "unconfigured" /\ world \in Worlds /\ description = None
  /\ manager = FALSE /\ served = FALSE /\ thread = "none" /\ up \in BOOLEAN

-----------------------------------------------------------------------------
(***************************************************************************)
(* Configure.                                                              *)
(***************************************************************************)

(* Mutant: the thread is started with the controller manager.              *)
MutStarted == "none"

Started == "started"

(* The checks, the context, the node and the executor's thread; without    *)
(* joints Configure returns with the thread running.                       *)
Configure ==
  /\ stage = "unconfigured"
  /\ IF world.valid /\ world.parameters
     THEN /\ thread' = Started /\ up' = TRUE
          /\ stage' = IF Enabled(world) = {} THEN "inactive" ELSE "waiting"
     ELSE stage' = "inactive" /\ UNCHANGED <<thread, up>>
  /\ UNCHANGED <<world, description, manager, served, vars>>

(* getURDF waits for the parameter service.  Interrupted, it returns a     *)
(* string made from 0, whose logic_error Configure does not catch.         *)
FindService ==
  /\ stage = "waiting" /\ up /\ stage' = "asking"
  /\ UNCHANGED <<world, description, manager, served, thread, up, vars>>

Interrupted ==
  /\ stage = "waiting" /\ ~up /\ stage' = "dead"
  /\ UNCHANGED <<world, description, manager, served, thread, up, vars>>

Ask ==
  /\ stage = "asking" /\ stage' = "asked"
  /\ UNCHANGED <<world, description, manager, served, thread, up, vars>>

(* Mutant: the description is looked for in this process.                  *)
MutHears == TRUE

(* The answer is taken by the executor.                                    *)
Hears == thread = "spinning" /\ up

Receive(d) ==
  /\ stage = "asked" /\ Hears
  /\ description' = d /\ stage' = "parsing"
  /\ UNCHANGED <<world, manager, served, thread, up, vars>>

(* A parameter that is not set, or not a text, is asked for again; from an *)
(* answer without values the first is taken all the same.                  *)
ReceiveNothing ==
  /\ stage = "asked" /\ Hears
  /\ stage' \in {"asking", "dead"}
  /\ UNCHANGED <<world, description, manager, served, thread, up, vars>>

(* Of the exceptions and errors of parsing only runtime_error is caught: a *)
(* model without a root is dereferenced, and a chain that KDL cannot build *)
(* is an invalid_argument.                                                 *)
Parse ==
  /\ stage = "parsing"
  /\ stage' = IF description.fault = "none" THEN "loading"
              ELSE IF description.fault = "resources" THEN "inactive" ELSE "dead"
  /\ UNCHANGED <<world, description, manager, served, thread, up, vars>>

(* The loader may fail, which ends Configure, and so may one hardware,     *)
(* which is skipped; the manager is made last.  A manager without an       *)
(* update_rate keeps the period of one second.                             *)
LoaderFails ==
  /\ stage = "loading" /\ stage' = "inactive"
  /\ UNCHANGED <<world, description, manager, served, thread, up, vars>>

Load ==
  /\ stage = "loading"
  /\ \/ InitSim(description, world) = "refuses" /\ stage' = "inactive" /\ UNCHANGED <<manager, served>>
     \/ InitSim(description, world) = "throws" /\ stage' = "dead" /\ UNCHANGED <<manager, served>>
     \/ InitSim(description, world) = "accepts" /\ stage' = "running" /\ manager' = TRUE /\ served' = TRUE
  /\ UNCHANGED <<world, description, thread, up, vars>>

SkipHardware ==
  /\ stage = "loading"
  /\ stage' = "running" /\ manager' = TRUE
  /\ UNCHANGED <<world, description, served, thread, up, vars>>

-----------------------------------------------------------------------------
(***************************************************************************)
(* The simulation, with a controller manager that serves the hardware.     *)
(***************************************************************************)
Drives == stage = "running" /\ served

(* write computes gravity first; when that throws it returns ERROR, and    *)
(* the resource manager lets the hardware and its controllers go.          *)
WriteFails ==
  /\ Drives /\ phase = "pre" /\ ~Computes[description]
  /\ served' = FALSE /\ held' = {} /\ request' = NoSwitch
  /\ UNCHANGED <<method, velocity, force, age, phase>>
  /\ UNCHANGED <<stage, world, description, manager, thread, up>>

WriteCrashes ==
  /\ Drives /\ phase = "pre" /\ Computes[description] /\ Dangling(description, world)
  /\ stage' = "dead"
  /\ UNCHANGED <<world, description, manager, served, thread, up, vars>>

Write ==
  /\ Drives /\ Computes[description] /\ ~Dangling(description, world)
  /\ PreUpdate
  /\ UNCHANGED lifeVars

Simulate == Drives /\ Step /\ UNCHANGED lifeVars

Pause == Drives /\ Paused /\ UNCHANGED lifeVars

Update == Drives /\ PostUpdate /\ UNCHANGED lifeVars

(* The manager's services run in the executor.                             *)
RequestSwitch(s) == Drives /\ Hears /\ Request(s) /\ UNCHANGED lifeVars

-----------------------------------------------------------------------------
(***************************************************************************)
(* The destructor, the executor's thread, the context.                     *)
(***************************************************************************)

(* Without a manager the destructor returns, and a thread that was started *)
(* is destroyed without having been joined: std::terminate.                *)
Destroy ==
  /\ stage \in {"inactive", "running"}
  /\ stage' = IF manager THEN "cancelling" ELSE IF thread = "none" THEN "gone" ELSE "dead"
  /\ UNCHANGED <<world, description, manager, served, thread, up, vars>>

(* A cancel that comes before the spinning is lost.                        *)
Cancel ==
  /\ stage = "cancelling" /\ stage' = "joining"
  /\ thread' = IF thread = "spinning" THEN "cancelled" ELSE thread
  /\ UNCHANGED <<world, description, manager, served, up, vars>>

Join ==
  /\ stage = "joining" /\ thread = "ended"
  /\ thread' = "joined" /\ stage' = "gone"
  /\ UNCHANGED <<world, description, manager, served, up, vars>>

Alive == stage \notin {"dead", "gone"}

Spin ==
  /\ Alive /\ thread = "started" /\ thread' = IF up THEN "spinning" ELSE "ended"
  /\ UNCHANGED <<stage, world, description, manager, served, up, vars>>

(* The service that asks for a switch returns when the switch is done or   *)
(* the context is shut down, and spin when its callbacks have returned.    *)
SpinEnds ==
  /\ Alive
  /\ \/ thread = "cancelled" /\ request = NoSwitch
     \/ thread \in {"spinning", "cancelled"} /\ ~up
  /\ thread' = "ended"
  /\ UNCHANGED <<stage, world, description, manager, served, up, vars>>

Shutdown ==
  /\ Alive /\ up /\ up' = FALSE
  /\ UNCHANGED <<stage, world, description, manager, served, thread, vars>>

-----------------------------------------------------------------------------
Configuration ==
  \/ Configure \/ FindService \/ Interrupted \/ Ask \/ Parse
  \/ LoaderFails \/ Load \/ SkipHardware

Executor == Spin \/ SpinEnds

Callbacks == WriteFails \/ WriteCrashes \/ Write \/ Simulate \/ Pause \/ Update

PluginNext ==
  \/ Configuration \/ Executor \/ Callbacks
  \/ \E d \in Descriptions : Receive(d)
  \/ ReceiveNothing
  \/ \E s \in Switches : RequestSwitch(s)
  \/ Destroy \/ Cancel \/ Join \/ Shutdown

PluginSpec == PluginInit /\ [][PluginNext]_pluginVars

(* Threads run; the description's node comes and some day answers; the     *)
(* simulation is not paused for ever.                                      *)
PluginFairness ==
  /\ WF_pluginVars(Configuration) /\ WF_pluginVars(Executor)
  /\ SF_pluginVars(\E d \in Descriptions : Receive(d))
  /\ WF_pluginVars(Write) /\ SF_pluginVars(Simulate) /\ WF_pluginVars(Update)
  /\ WF_pluginVars(Cancel) /\ WF_pluginVars(Join)

FairPluginSpec == PluginSpec /\ PluginFairness

-----------------------------------------------------------------------------
(* The states the variables range over, those of GazeboControl included.   *)
PluginTypeOK ==
  /\ TypeOK
  /\ stage \in {"unconfigured", "waiting", "asking", "asked", "parsing", "loading",
                "running", "inactive", "cancelling", "joining", "gone", "dead"}
  /\ world \in Worlds /\ description \in Descriptions \cup {None}
  /\ manager \in BOOLEAN /\ served \in BOOLEAN /\ up \in BOOLEAN
  /\ thread \in {"none", "started", "spinning", "cancelled", "ended", "joined"}

(* A Configure that has begun to wait for the description returns, or the  *)
(* process ends, unless the context is shut down while it waits.           *)
ConfigureReturns ==
  stage = "waiting" ~> stage \in {"running", "inactive", "dead"} \/ ~up

(* The destructor of a plugin that has made its controller manager returns *)
(* and takes the executor's thread with it, whenever that thread got to    *)
(* spin; only a switch that nobody performs any more can hold it.          *)
DestructorReturns ==
  (manager /\ stage = "cancelling") ~> stage = "gone" \/ (up /\ request # NoSwitch)

(* While the plugin runs and gravity can be computed, a handle that a       *)
(* controller holds is commanded until a switch takes it away: no write of *)
(* such a robot fails and lets it go.                                      *)
HeldIsDriven ==
  \A j \in Joints \ Mimics, m \in Methods :
    <<j, m>> \in held ~>
      \/ Command(j) = {m}
      \/ <<j, m>> \notin held /\ served
      \/ stage # "running" \/ ~Computes[description]
=============================================================================
