------------------------- MODULE GazeboPluginProofs -------------------------
(***************************************************************************)
(* Safety of GazeboPlugin for any descriptions, models, joints and         *)
(* periods.  The invariants of GazeboControl hold for the plugin as well:  *)
(* its steps are those of GazeboControl, or leave its variables alone, or  *)
(* let the hardware go, after which nothing is driven any more (Unserved). *)
(***************************************************************************)
EXTENDS GazeboPlugin, GazeboControlProofs

Stages ==
  {"unconfigured", "waiting", "asking", "asked", "parsing", "loading",
   "running", "inactive", "cancelling", "joining", "gone", "dead"}

Threads == {"none", "started", "spinning", "cancelled", "ended", "joined"}

LifeOK ==
  /\ stage \in Stages /\ thread \in Threads
  /\ world \in Worlds /\ description \in Descriptions \cup {None}
  /\ manager \in BOOLEAN /\ served \in BOOLEAN /\ up \in BOOLEAN

LEMMA LifeNext == ASSUME LifeOK, [PluginNext]_pluginVars PROVE LifeOK'
  <1>1. CASE Configuration
    BY <1>1 DEF LifeOK, Stages, Threads, Configuration, Configure, Started, FindService,
                Interrupted, Ask, Parse, LoaderFails, Load, SkipHardware
  <1>2. CASE Executor \/ Destroy \/ Cancel \/ Join \/ Shutdown
    BY <1>2 DEF LifeOK, Stages, Threads, Executor, Spin, SpinEnds, Destroy, Cancel, Join, Shutdown
  <1>3. CASE Callbacks \/ \E s \in Switches : RequestSwitch(s)
    BY <1>3 DEF LifeOK, Stages, Callbacks, WriteFails, WriteCrashes, Write, Simulate, Pause,
                Update, RequestSwitch, lifeVars
  <1>4. CASE ReceiveNothing \/ \E d \in Descriptions : Receive(d)
    BY <1>4 DEF LifeOK, Stages, ReceiveNothing, Receive
  <1>5. CASE UNCHANGED pluginVars
    BY <1>5 DEF LifeOK, pluginVars, lifeVars
  <1>. QED BY <1>1, <1>2, <1>3, <1>4, <1>5 DEF PluginNext

-----------------------------------------------------------------------------
(***************************************************************************)
(* Until the hardware is loaded GazeboControl has not begun; once it is    *)
(* let go, no callback moves it again.                                     *)
(***************************************************************************)

Early == {"unconfigured", "waiting", "asking", "asked", "parsing", "loading"}

Unserved == ~served => phase = "pre"

BitsKept == served \/ stage \in Early => BitsInv

Apart == Configuration \/ Executor \/ ReceiveNothing \/ (\E d \in Descriptions : Receive(d))
         \/ Destroy \/ Cancel \/ Join \/ Shutdown \/ WriteCrashes

Driven == Write \/ Simulate \/ Pause \/ Update \/ \E s \in Switches : RequestSwitch(s)

LEMMA ApartStep ==
  ASSUME Apart \/ UNCHANGED pluginVars
  PROVE  /\ UNCHANGED vars
         /\ served => served'
         /\ served' \/ stage' \in Early => served \/ stage \in Early
  <1>1. CASE Configuration
    BY <1>1 DEF Early, Configuration, Configure, FindService, Interrupted, Ask, Parse,
                LoaderFails, Load, SkipHardware
  <1>2. CASE Executor \/ Destroy \/ Cancel \/ Join \/ Shutdown \/ WriteCrashes
    BY <1>2 DEF Early, Executor, Spin, SpinEnds, Destroy, Cancel, Join, Shutdown, WriteCrashes
  <1>3. CASE ReceiveNothing \/ \E d \in Descriptions : Receive(d)
    BY <1>3 DEF Early, ReceiveNothing, Receive
  <1>4. CASE UNCHANGED pluginVars
    BY <1>4 DEF pluginVars, lifeVars
  <1>. QED BY <1>1, <1>2, <1>3, <1>4 DEF Apart

LEMMA DrivenStep ==
  ASSUME Driven PROVE Next /\ served /\ UNCHANGED lifeVars
  BY DEF Driven, Write, Simulate, Pause, Update, RequestSwitch, Drives, Next, Simulation

LEMMA WhatSteps == [PluginNext]_pluginVars => Apart \/ UNCHANGED pluginVars \/ Driven \/ WriteFails
  BY DEF PluginNext, Callbacks, Apart, Driven

(* Letting the hardware go keeps types, rates and commands.                *)
LEMMA FailKeeps == ASSUME Inv, WriteFails PROVE Inv'
  <1>1. UNCHANGED <<method, velocity, force, age, phase>> /\ held' = {} /\ request' = NoSwitch
    BY DEF WriteFails
  <1>2. TypeOK'
    BY <1>1 DEF Inv, TypeOK
  <1>3. ASSUME NEW j \in Joints \ Mimics PROVE FromBranch(j)'
    BY <1>1 DEF Inv, RunInv, FromBranch, Branch
  <1>4. RunInv'
    BY <1>1, <1>3 DEF Inv, RunInv, CommandsTaken
  <1>. QED BY <1>2, <1>4 DEF Inv

PluginInv == LifeOK /\ Inv /\ Unserved

LEMMA PluginInvInit == PluginInit => PluginInv
  BY InvInit DEF PluginInit, PluginInv, LifeOK, Stages, Threads, Unserved, Init

LEMMA PluginInvNext == PluginInv /\ [PluginNext]_pluginVars => PluginInv'
  <1>. SUFFICES ASSUME PluginInv, [PluginNext]_pluginVars PROVE PluginInv'
    OBVIOUS
  <1>1. LifeOK'
    BY LifeNext DEF PluginInv
  <1>2. CASE Apart \/ UNCHANGED pluginVars
    <2>1. UNCHANGED vars /\ (served => served')
      BY <1>2, ApartStep
    <2>2. Inv'
      BY <2>1, InvNext DEF PluginInv
    <2>3. Unserved'
      BY <2>1 DEF PluginInv, Unserved, vars
    <2>. QED BY <1>1, <2>2, <2>3 DEF PluginInv
  <1>3. CASE Driven
    BY <1>1, <1>3, DrivenStep, InvNext DEF PluginInv, Unserved, lifeVars
  <1>4. CASE WriteFails
    <2>1. Unserved'
      BY <1>4 DEF WriteFails, Unserved
    <2>. QED BY <1>1, <1>4, <2>1, FailKeeps DEF PluginInv
  <1>. QED BY <1>2, <1>3, <1>4, WhatSteps

THEOREM PluginInvariance == PluginSpec => []PluginInv
  BY PluginInvInit, PluginInvNext, PTL DEF PluginSpec

(* The plugin's variables keep their types, those of the simulated         *)
(* hardware included, whatever fails in Configure.                         *)
THEOREM PluginTypeCorrect == PluginSpec => []PluginTypeOK
  <1>1. PluginInv => PluginTypeOK
    BY DEF PluginInv, LifeOK, Stages, Threads, Inv, PluginTypeOK
  <1>. QED BY <1>1, PluginInvariance, PTL

(* No joint is driven by a velocity and by a force at once, also when      *)
(* write fails and the hardware is let go.                                 *)
THEOREM PluginGivesOneCommand == PluginSpec => []OneCommand
  <1>1. PluginInv => OneCommand
    BY DEF PluginInv, Inv, RunInv, FromBranch, NoCommand, OneCommand
  <1>. QED BY <1>1, PluginInvariance, PTL

-----------------------------------------------------------------------------
LEMMA BitsKeptNext ==
  ASSUME Exclusive, PluginInv, BitsKept, [PluginNext]_pluginVars PROVE BitsKept'
  <1>1. CASE Apart \/ UNCHANGED pluginVars
    <2>1. UNCHANGED vars /\ (served' \/ stage' \in Early => served \/ stage \in Early)
      BY <1>1, ApartStep
    <2>2. BitsInv => BitsInv'
      BY <2>1 DEF BitsInv, OneMethod, Unheld, vars
    <2>. QED BY <2>1, <2>2 DEF BitsKept
  <1>2. CASE Driven
    <2>1. BitsInv /\ Next
      BY <1>2, DrivenStep DEF BitsKept
    <2>2. BitsInv'
      BY <2>1, BitsNext DEF PluginInv, Inv
    <2>. QED BY <2>2 DEF BitsKept
  <1>3. CASE WriteFails
    BY <1>3 DEF WriteFails, Drives, BitsKept, Early
  <1>. QED BY <1>1, <1>2, <1>3, WhatSteps

LEMMA BitsKeptInvariant == ASSUME Exclusive PROVE PluginSpec => []BitsKept
  <1>1. PluginInit => BitsKept
    BY BitsInit DEF PluginInit, BitsKept
  <1>2. PluginInv /\ BitsKept /\ [PluginNext]_pluginVars => BitsKept'
    BY BitsKeptNext
  <1>. QED BY <1>1, <1>2, PluginInvariance, PTL DEF PluginSpec

(* While controllers hold one method of each joint, the plugin drives      *)
(* every joint as it is held, whatever becomes of its hardware.            *)
THEOREM PluginDrivesAsHeld == ASSUME Exclusive PROVE PluginSpec => []DrivenAsHeld
  <1>1. PluginInv /\ BitsKept => DrivenAsHeld
    <2>. SUFFICES ASSUME PluginInv, BitsKept, phase = "physics",
                         NEW j \in Joints \ Mimics, NEW m \in Methods, <<j, m>> \in held
                  PROVE  Command(j) \subseteq {m}
      BY DEF DrivenAsHeld
    <2>1. BitsInv
      BY DEF PluginInv, Unserved, BitsKept
    <2>. QED BY <2>1, HeldSelects DEF PluginInv
  <1>. QED BY <1>1, BitsKeptInvariant, PluginInvariance, PTL

(* Every write of a plugin that serves its hardware drives every held      *)
(* joint, but for the one that makes the component of its velocity or      *)
(* effort; the others let all handles go.                                  *)
THEOREM PluginDrivesHeld ==
  ASSUME Exclusive
  PROVE  PluginSpec =>
           [][(phase = "pre" /\ phase' # "pre") \/ WriteFails =>
                \A j \in Joints \ Mimics, m \in Methods :
                  <<j, m>> \in held' => Command(j)' = {m} \/ Creates(j, m)]_pluginVars
  <1>1. PluginInv /\ BitsKept /\ [PluginNext]_pluginVars
        => [(phase = "pre" /\ phase' # "pre") \/ WriteFails =>
              \A j \in Joints \ Mimics, m \in Methods :
                <<j, m>> \in held' => Command(j)' = {m} \/ Creates(j, m)]_pluginVars
    <2>. SUFFICES ASSUME PluginInv, BitsKept, [PluginNext]_pluginVars,
                         (phase = "pre" /\ phase' # "pre") \/ WriteFails,
                         NEW j \in Joints \ Mimics, NEW m \in Methods, <<j, m>> \in held'
                  PROVE  Command(j)' = {m} \/ Creates(j, m)
      OBVIOUS
    <2>1. ~WriteFails
      BY DEF WriteFails
    <2>2. ~(Apart \/ UNCHANGED pluginVars)
      BY <2>1, ApartStep DEF vars
    <2>3. Next /\ served /\ BitsInv
      BY <2>1, <2>2, WhatSteps, DrivenStep DEF BitsKept
    <2>4. PreUpdate /\ held' = held
      BY <2>1, <2>3 DEF Next, Simulation, PreUpdate, Step, Paused, PostUpdate, Request
    <2>. QED BY <2>3, <2>4, WriteTakesHeld DEF PluginInv
  <1>. QED BY <1>1, BitsKeptInvariant, PluginInvariance, PTL DEF PluginSpec

-----------------------------------------------------------------------------
(***************************************************************************)
(* The end of the executor.  A manager exists only after the executor has  *)
(* received the description, so that a cancel meets a thread that spins or *)
(* has ended: it is not one of those that are lost.                        *)
(***************************************************************************)
Described == stage \in {"parsing", "loading", "running", "cancelling", "joining"}

CancelInv ==
  /\ manager => stage \in {"running", "cancelling", "joining", "gone", "dead"}
  /\ stage \in {"running", "cancelling", "joining"} => manager
  /\ Described => thread \in {"spinning", "cancelled", "ended"}
  /\ stage = "joining" => thread # "spinning"
  /\ thread = "cancelled" => stage \in {"joining", "gone", "dead"}

LEMMA CancelInvariant == PluginSpec => []CancelInv
  <1>. USE DEF CancelInv, Described
  <1>1. PluginInit => CancelInv
    BY DEF PluginInit
  <1>2. CancelInv /\ [PluginNext]_pluginVars => CancelInv'
    <2>. SUFFICES ASSUME CancelInv, [PluginNext]_pluginVars PROVE CancelInv'
      OBVIOUS
    <2>1. CASE Configuration
      BY <2>1 DEF Configuration, Configure, Started, FindService, Interrupted, Ask, Parse,
                  LoaderFails, Load, SkipHardware
    <2>2. CASE Executor \/ Destroy \/ Cancel \/ Join \/ Shutdown
      BY <2>2 DEF Executor, Spin, SpinEnds, Alive, Destroy, Cancel, Join, Shutdown
    <2>3. CASE Callbacks \/ \E s \in Switches : RequestSwitch(s)
      BY <2>3 DEF Callbacks, WriteFails, WriteCrashes, Drives, Write, Simulate, Pause, Update,
                  RequestSwitch, lifeVars
    <2>4. CASE ReceiveNothing \/ \E d \in Descriptions : Receive(d)
      BY <2>4 DEF ReceiveNothing, Receive, Hears
    <2>5. CASE UNCHANGED pluginVars
      BY <2>5 DEF pluginVars, lifeVars
    <2>. QED BY <2>1, <2>2, <2>3, <2>4, <2>5 DEF PluginNext
  <1>. QED BY <1>1, <1>2, PTL DEF PluginSpec

(* What may still happen before the destructor returns.                    *)
Ending == stage \in {"cancelling", "joining"}

Left ==
  (IF stage = "cancelling" THEN 1 ELSE 0) + (IF thread = "ended" THEN 0 ELSE 1) + (IF up THEN 1 ELSE 0)

(* The destructor of a plugin with a manager waits for at most three steps *)
(* of others or its own before it returns; none of them moves the joints   *)
(* or the controllers, so that a switch that was asked for before it is    *)
(* never performed: with one, only a shutdown of the context goes on.      *)
THEOREM DestructorWaitsForFewSteps ==
  PluginSpec =>
    [][Ending =>
         /\ Left \in 0 .. 3 /\ UNCHANGED vars
         /\ stage' = "gone" \/ (Ending' /\ Left' < Left)
         /\ thread = "cancelled" /\ request # NoSwitch /\ up => ~up']_pluginVars
  <1>1. LifeOK /\ CancelInv /\ [PluginNext]_pluginVars
        => [Ending =>
              /\ Left \in 0 .. 3 /\ UNCHANGED vars
              /\ stage' = "gone" \/ (Ending' /\ Left' < Left)
              /\ thread = "cancelled" /\ request # NoSwitch /\ up => ~up']_pluginVars
    <2>. SUFFICES ASSUME LifeOK, CancelInv, PluginNext, Ending
                  PROVE  /\ Left \in 0 .. 3 /\ UNCHANGED vars
                         /\ stage' = "gone" \/ (Ending' /\ Left' < Left)
                         /\ thread = "cancelled" /\ request # NoSwitch /\ up => ~up'
      OBVIOUS
    <2>. USE DEF Ending, Left
    <2>0. thread \in {"spinning", "cancelled", "ended"} /\ up \in BOOLEAN /\ manager
          /\ (stage = "cancelling" => thread # "cancelled") /\ (stage = "joining" => thread # "spinning")
      BY DEF CancelInv, Described, LifeOK
    <2>1. ASSUME Configuration \/ Destroy \/ ReceiveNothing \/ \E d \in Descriptions : Receive(d)
          PROVE  FALSE
      BY <2>1 DEF Configuration, Configure, FindService, Interrupted, Ask, Parse, LoaderFails, Load,
                  SkipHardware, Destroy, ReceiveNothing, Receive
    <2>2. ASSUME Callbacks \/ \E s \in Switches : RequestSwitch(s) PROVE FALSE
      BY <2>2 DEF Callbacks, WriteFails, WriteCrashes, Write, Simulate, Pause, Update, RequestSwitch,
                  Drives
    <2>3. CASE Executor
      <3>1. SpinEnds
        BY <2>0, <2>3 DEF Executor, Spin
      <3>2. thread # "ended" /\ thread' = "ended" /\ UNCHANGED <<stage, up, vars>>
        BY <2>0, <3>1 DEF SpinEnds
      <3>3. ~(thread = "cancelled" /\ request # NoSwitch /\ up)
        BY <3>1 DEF SpinEnds
      <3>. QED BY <2>0, <3>2, <3>3
    <2>4. CASE Cancel
      BY <2>0, <2>4 DEF Cancel
    <2>5. CASE Join
      BY <2>0, <2>5 DEF Join
    <2>6. CASE Shutdown
      BY <2>0, <2>6 DEF Shutdown
    <2>. QED BY <2>1, <2>2, <2>3, <2>4, <2>5, <2>6 DEF PluginNext
  <1>2. PluginInv => LifeOK
    BY DEF PluginInv
  <1>. QED BY <1>1, <1>2, PluginInvariance, CancelInvariant, PTL DEF PluginSpec

-----------------------------------------------------------------------------
(***************************************************************************)
(* The wait of Configure, which needs the executor's thread to hear the    *)
(* answer.                                                                 *)
(***************************************************************************)
Awaiting == stage \in {"waiting", "asking", "asked"}

ListenInv == Awaiting => thread \in {"started", "spinning"} \/ (thread = "ended" /\ ~up)

LEMMA ListenInvariant == PluginSpec => []ListenInv
  <1>. USE DEF ListenInv, Awaiting
  <1>1. PluginInit => ListenInv
    BY DEF PluginInit
  <1>2. ListenInv /\ [PluginNext]_pluginVars => ListenInv'
    <2>. SUFFICES ASSUME ListenInv, [PluginNext]_pluginVars PROVE ListenInv'
      OBVIOUS
    <2>1. CASE Configuration
      BY <2>1 DEF Configuration, Configure, Started, FindService, Interrupted, Ask, Parse,
                  LoaderFails, Load, SkipHardware
    <2>2. CASE Executor \/ Destroy \/ Cancel \/ Join \/ Shutdown
      BY <2>2 DEF Executor, Spin, SpinEnds, Alive, Destroy, Cancel, Join, Shutdown
    <2>3. CASE Callbacks \/ \E s \in Switches : RequestSwitch(s)
      BY <2>3 DEF Callbacks, WriteFails, WriteCrashes, Drives, Write, Simulate, Pause, Update,
                  RequestSwitch, lifeVars
    <2>4. CASE ReceiveNothing \/ \E d \in Descriptions : Receive(d)
      BY <2>4 DEF ReceiveNothing, Receive, Hears
    <2>5. CASE UNCHANGED pluginVars
      BY <2>5 DEF pluginVars, lifeVars
    <2>. QED BY <2>1, <2>2, <2>3, <2>4, <2>5 DEF PluginNext
  <1>. QED BY <1>1, <1>2, PTL DEF PluginSpec

(* While Configure waits for the description and the context lasts, the    *)
(* executor's thread hears the answer or is about to; nothing but the      *)
(* answer brings Configure on once it has asked, so that a shutdown which  *)
(* comes before the answer leaves it waiting for ever.                     *)
THEOREM ConfigureIsHeard ==
  /\ PluginSpec => [](Awaiting /\ up => thread \in {"started", "spinning"})
  /\ PluginSpec => [][stage = "asked" =>
                       \/ stage' = "asked" /\ (~up => ~up')
                       \/ Hears /\ ((\E d \in Descriptions : Receive(d)) \/ ReceiveNothing)]_pluginVars
  <1>1. ListenInv => (Awaiting /\ up => thread \in {"started", "spinning"})
    BY DEF ListenInv
  <1>2. [PluginNext]_pluginVars
        => [stage = "asked" =>
              \/ stage' = "asked" /\ (~up => ~up')
              \/ Hears /\ ((\E d \in Descriptions : Receive(d)) \/ ReceiveNothing)]_pluginVars
    <2>. SUFFICES ASSUME PluginNext, stage = "asked"
                  PROVE  \/ stage' = "asked" /\ (~up => ~up')
                         \/ Hears /\ ((\E d \in Descriptions : Receive(d)) \/ ReceiveNothing)
      OBVIOUS
    <2>1. ASSUME Configuration \/ Callbacks \/ (\E s \in Switches : RequestSwitch(s))
                   \/ Destroy \/ Cancel \/ Join
          PROVE  FALSE
      BY <2>1 DEF Configuration, Configure, FindService, Interrupted, Ask, Parse, LoaderFails, Load,
                  SkipHardware, Callbacks, WriteFails, WriteCrashes, Write, Simulate, Pause, Update,
                  RequestSwitch, Drives, Destroy, Cancel, Join
    <2>2. CASE Executor \/ Shutdown
      BY <2>2 DEF Executor, Spin, SpinEnds, Shutdown
    <2>3. CASE ReceiveNothing \/ \E d \in Descriptions : Receive(d)
      BY <2>3 DEF ReceiveNothing, Receive
    <2>. QED BY <2>1, <2>2, <2>3 DEF PluginNext
  <1>3. PluginSpec => [](Awaiting /\ up => thread \in {"started", "spinning"})
    BY <1>1, ListenInvariant, PTL
  <1>4. PluginSpec => [][stage = "asked" =>
                          \/ stage' = "asked" /\ (~up => ~up')
                          \/ Hears /\ ((\E d \in Descriptions : Receive(d)) \/ ReceiveNothing)]_pluginVars
    BY <1>2, PTL DEF PluginSpec
  <1>. QED BY <1>3, <1>4
=============================================================================
