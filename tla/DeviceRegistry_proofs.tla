------------------------ MODULE DeviceRegistry_proofs -------------------------
(***************************************************************************)
(* What the registry shows of a robot, for every number of devices and      *)
(* robots, every window and every interval of the timer.  The steps of the  *)
(* registry are summed up once (Progress): time, heartbeats and moves only  *)
(* go forward, and a device that beats or moves does so now.                *)
(***************************************************************************)
EXTENDS BackOffice, TLAPS

RobotsHaveRows ==
    \A d \in DeviceIds :
      /\ devices[d] # NoRobot => robots[devices[d]] # "absent"
      /\ request[d].kind = "register" =>
           request[d].robot \in RobotIds /\ robots[request[d].robot] # "absent"
      /\ request[d].kind = "heartbeat" => request[d].robot # NoRobot

Refreshing == refresh.since # Never

RefreshIsLater ==
    /\ ~Refreshing => refresh = NoRefresh
    /\ Refreshing => doneFrom <= refresh.since

(* Robot r was heard in the window before t, if its device stayed with it. *)
HeardAt(r, t) ==
    \E d \in DeviceIds : /\ lastBeat[d] >= t - Window
                         /\ devices[d] = r \/ movedAt[d] >= t

OnlineWasHeard ==
    \A r \in RobotIds : robots[r] = "online" =>
      /\ doneFrom # Never => HeardAt(r, doneFrom)
      /\ Refreshing /\ r \notin refresh.robots => HeardAt(r, refresh.since)

FoundWasHeard ==
    refresh.robot # NoRobot =>
      Refreshing /\ (refresh.heard => HeardAt(refresh.robot, refresh.since))

(* Device d was heard before t, has stayed with its robot, and counts now. *)
CountsSince(d, t) ==
    /\ devices[d] # NoRobot /\ movedAt[d] < t
    /\ lastBeat[d] < t /\ lastBeat[d] >= now - Window

HeardIsOnline ==
    \A d \in DeviceIds :
      /\ CountsSince(d, doneFrom) => robots[devices[d]] = "online"
      /\ Refreshing /\ devices[d] \notin refresh.robots /\ CountsSince(d, refresh.since)
           => robots[devices[d]] = "online"

HeardIsFound ==
    refresh.robot # NoRobot =>
      \A d \in DeviceIds : devices[d] = refresh.robot /\ CountsSince(d, refresh.since)
                             => refresh.heard

RegistryInv ==
    /\ RegistryTypeOK /\ RobotsHaveRows /\ RefreshIsLater
    /\ OnlineWasHeard /\ FoundWasHeard /\ HeardIsOnline /\ HeardIsFound

-----------------------------------------------------------------------------
(* Initially nothing is registered and nobody was heard.                     *)
LEMMA RegistryStarts == RegistryInit => RegistryInv
<1> SUFFICES ASSUME RegistryInit PROVE RegistryInv
  OBVIOUS
<1>1. RegistryTypeOK
  BY RegistryAssumption DEF RegistryInit, RegistryTypeOK, NoRequest, NoRefresh, Never
<1>2. RobotsHaveRows /\ RefreshIsLater /\ OnlineWasHeard /\ FoundWasHeard /\ HeardIsFound
  BY RegistryAssumption
     DEF RegistryInit, RobotsHaveRows, RefreshIsLater, OnlineWasHeard, FoundWasHeard,
         HeardIsFound, Refreshing, NoRequest, NoRefresh
<1>3. HeardIsOnline
  BY DEF RegistryInit, HeardIsOnline, CountsSince
<1>4. QED
  BY <1>1, <1>2, <1>3 DEF RegistryInv

-----------------------------------------------------------------------------
(* Every handler of devices.service.ts, robots.service.ts and the scheduler *)
(* keeps the rows within their types.                                       *)
LEMMA RegistryTypes == RegistryTypeOK /\ [RegistryNext]_registryVars => RegistryTypeOK'
<1> SUFFICES ASSUME RegistryTypeOK, [RegistryNext]_registryVars PROVE RegistryTypeOK'
  OBVIOUS
<1> USE RegistryAssumption
<1>1. ASSUME NEW d \in DeviceIds, NEW r \in RobotIds, UpsertRobot(d, r) PROVE RegistryTypeOK'
  BY <1>1 DEF UpsertRobot, RegistryTypeOK, timeVars
<1>2. ASSUME NEW d \in DeviceIds, UpsertDevice(d) PROVE RegistryTypeOK'
  BY <1>2 DEF UpsertDevice, RegistryTypeOK, timeVars, NoRequest
<1>3. ASSUME NEW d \in DeviceIds, AcceptHeartbeat(d) PROVE RegistryTypeOK'
  BY <1>3 DEF AcceptHeartbeat, RegistryTypeOK, timeVars
<1>4. ASSUME NEW d \in DeviceIds, StoreHeartbeat(d) PROVE RegistryTypeOK'
  BY <1>4 DEF StoreHeartbeat, RegistryTypeOK, timeVars, NoRequest
<1>5. CASE StartRefresh
  <2>1. refresh' = [since |-> now, robots |-> {r \in RobotIds : robots[r] # "absent"},
                    robot |-> NoRobot, heard |-> FALSE]
    BY <1>5 DEF StartRefresh, NoRefresh
  <2>2. refresh' \in [since : {Never} \cup 0..now, robots : SUBSET RobotIds,
                      robot : RobotIds \cup {NoRobot}, heard : BOOLEAN]
    BY <2>1 DEF RegistryTypeOK
  <2>3. nextRefresh' = now + Interval /\ nextRefresh' \in now..(now + Interval)
    BY <1>5 DEF StartRefresh, RegistryTypeOK
  <2>4. QED
    BY <1>5, <2>2, <2>3 DEF StartRefresh, RegistryTypeOK
<1>6. ASSUME NEW r \in RobotIds, FindHeartbeat(r) PROVE RegistryTypeOK'
  <2>1. RecentBeat(r) \in BOOLEAN
    BY DEF RecentBeat
  <2>2. QED
    BY <1>6, <2>1 DEF FindHeartbeat, RegistryTypeOK, timeVars
<1>7. CASE WriteStatus
  BY <1>7 DEF WriteStatus, RegistryTypeOK, timeVars
<1>8. CASE RefreshSucceeds
  BY <1>8 DEF RefreshSucceeds, RegistryTypeOK, NoRefresh
<1>9. CASE RefreshFails
  BY <1>9 DEF RefreshFails, RegistryTypeOK, timeVars, NoRefresh
<1>10. CASE RegistryRestart
  BY <1>10 DEF RegistryRestart, RegistryTypeOK, NoRefresh, NoRequest
<1>11. CASE Tick
  BY <1>11 DEF Tick, RegistryTypeOK
<1>12. CASE UNCHANGED registryVars
  BY <1>12 DEF registryVars, RegistryTypeOK
<1>13. QED
  BY <1>1, <1>2, <1>3, <1>4, <1>5, <1>6, <1>7, <1>8, <1>9, <1>10, <1>11, <1>12
     DEF RegistryNext

(* A robot's row is there before its device names it, and stays.             *)
LEMMA RowsOfRobotsStay ==
  RegistryTypeOK /\ RobotsHaveRows /\ [RegistryNext]_registryVars => RobotsHaveRows'
<1> SUFFICES ASSUME RegistryTypeOK, RobotsHaveRows, [RegistryNext]_registryVars
             PROVE  RobotsHaveRows'
  OBVIOUS
<1> USE RegistryAssumption DEF RegistryTypeOK, RobotsHaveRows
<1>1. ASSUME NEW d \in DeviceIds, NEW r \in RobotIds, UpsertRobot(d, r) PROVE RobotsHaveRows'
  BY <1>1 DEF UpsertRobot
<1>2. ASSUME NEW d \in DeviceIds, UpsertDevice(d) PROVE RobotsHaveRows'
  BY <1>2 DEF UpsertDevice, NoRequest
<1>3. ASSUME NEW d \in DeviceIds, AcceptHeartbeat(d) PROVE RobotsHaveRows'
  BY <1>3 DEF AcceptHeartbeat
<1>4. ASSUME NEW d \in DeviceIds, StoreHeartbeat(d) PROVE RobotsHaveRows'
  BY <1>4 DEF StoreHeartbeat, NoRequest
<1>5. CASE WriteStatus
  BY <1>5 DEF WriteStatus
<1>6. CASE RegistryRestart
  BY <1>6 DEF RegistryRestart, NoRequest
<1>7. CASE UNCHANGED <<robots, devices, request>>
  BY <1>7
<1>8. QED
  BY <1>1, <1>2, <1>3, <1>4, <1>5, <1>6, <1>7
     DEF RegistryNext, registryVars, StartRefresh, FindHeartbeat, RefreshSucceeds,
         RefreshFails, Tick

-----------------------------------------------------------------------------
(* Time goes on; a device that beats or moves does so now.                  *)
Progress ==
    /\ now <= now'
    /\ \A d \in DeviceIds :
         /\ lastBeat'[d] = lastBeat[d] \/ lastBeat'[d] = now
         /\ \/ devices'[d] = devices[d] /\ movedAt'[d] = movedAt[d]
            \/ movedAt'[d] = now

(* Nothing happens to the online robots, the refresh and its record.         *)
Aside ==
    /\ \A r \in RobotIds : robots'[r] = "online" <=> robots[r] = "online"
    /\ UNCHANGED <<refresh, doneFrom>>

(* The timer's own steps leave time and devices alone.                      *)
DevicesStay == UNCHANGED <<now, devices, movedAt, lastBeat>>

(* The requests of devices and the clock only make progress.                 *)
LEMMA StepIsProgress ==
  ASSUME RegistryTypeOK, [RegistryNext]_registryVars
  PROVE  \/ Progress /\ Aside
         \/ /\ DevicesStay
            /\ \/ StartRefresh \/ WriteStatus \/ \E r \in RobotIds : FindHeartbeat(r)
               \/ RefreshSucceeds \/ RefreshFails \/ RegistryRestart
<1> USE RegistryAssumption DEF RegistryTypeOK
<1>1. ASSUME NEW d \in DeviceIds, NEW r \in RobotIds, UpsertRobot(d, r) PROVE Progress /\ Aside
  BY <1>1 DEF UpsertRobot, Progress, Aside, timeVars
<1>2. ASSUME NEW d \in DeviceIds, UpsertDevice(d) PROVE Progress /\ Aside
  BY <1>2 DEF UpsertDevice, Progress, Aside, timeVars
<1>3. ASSUME NEW d \in DeviceIds, AcceptHeartbeat(d) PROVE Progress /\ Aside
  BY <1>3 DEF AcceptHeartbeat, Progress, Aside, timeVars
<1>4. ASSUME NEW d \in DeviceIds, StoreHeartbeat(d) PROVE Progress /\ Aside
  BY <1>4 DEF StoreHeartbeat, Progress, Aside, timeVars
<1>5. CASE Tick \/ UNCHANGED registryVars
  BY <1>5 DEF Tick, registryVars, Progress, Aside
<1>6. StartRefresh \/ WriteStatus \/ (\E r \in RobotIds : FindHeartbeat(r))
        \/ RefreshSucceeds \/ RefreshFails \/ RegistryRestart => DevicesStay
  BY DEF StartRefresh, WriteStatus, FindHeartbeat, RefreshSucceeds, RefreshFails,
         RegistryRestart, DevicesStay, timeVars
<1>7. QED
  BY <1>1, <1>2, <1>3, <1>4, <1>5, <1>6 DEF RegistryNext

(* What was heard of a robot before now stays heard, as far as a later move  *)
(* of its device allows.                                                     *)
LEMMA HeardStaysHeard ==
  ASSUME RegistryTypeOK, Progress, NEW r \in RobotIds, NEW t \in Int, t <= now,
         NEW d \in DeviceIds,
         lastBeat[d] >= t - Window, devices[d] = r \/ movedAt[d] >= t
  PROVE  lastBeat'[d] >= t - Window /\ (devices'[d] = r \/ movedAt'[d] >= t)
BY RegistryAssumption DEF RegistryTypeOK, Progress

(* A device that counts after a step counted before it, at the same robot.   *)
LEMMA CountedBefore ==
  ASSUME RegistryTypeOK, RegistryTypeOK', Progress,
         NEW d \in DeviceIds, NEW t \in Int, t <= now, devices'[d] # NoRobot, movedAt'[d] < t,
         lastBeat'[d] < t, lastBeat'[d] >= now' - Window
  PROVE  devices'[d] = devices[d] /\ CountsSince(d, t)
<1>1. devices'[d] = devices[d] /\ movedAt'[d] = movedAt[d] /\ lastBeat'[d] = lastBeat[d]
  BY RegistryAssumption DEF RegistryTypeOK, Progress
<1>2. QED
  BY <1>1, RegistryAssumption DEF RegistryTypeOK, Progress, CountsSince, Never

-----------------------------------------------------------------------------
(* The devices and the clock take nothing from what a refresh has found.    *)
LEMMA AsideKeepsInv ==
  ASSUME RegistryInv, RegistryTypeOK', Progress, Aside
  PROVE  RefreshIsLater' /\ OnlineWasHeard' /\ FoundWasHeard' /\ HeardIsOnline' /\ HeardIsFound'
<1> USE RegistryAssumption
<1>1. RegistryTypeOK /\ doneFrom \in Int /\ doneFrom <= now
      /\ refresh.since \in Int /\ refresh.since <= now
  BY DEF RegistryInv, RegistryTypeOK, Never
<1>2. RefreshIsLater'
  BY DEF RegistryInv, RefreshIsLater, Refreshing, Aside
<1>3. \A r \in RobotIds : \A t \in Int : t <= now /\ HeardAt(r, t) =>
        \E d \in DeviceIds : lastBeat'[d] >= t - Window /\ (devices'[d] = r \/ movedAt'[d] >= t)
  BY <1>1, HeardStaysHeard DEF HeardAt
<1>4. OnlineWasHeard'
  BY <1>1, <1>3 DEF RegistryInv, OnlineWasHeard, Aside, Refreshing, HeardAt
<1>5. FoundWasHeard'
  BY <1>1, <1>3 DEF RegistryInv, FoundWasHeard, Aside, Refreshing, HeardAt, RegistryTypeOK
<1>6. HeardIsOnline'
  BY <1>1, CountedBefore DEF RegistryInv, HeardIsOnline, Aside, Refreshing, CountsSince, RegistryTypeOK
<1>7. HeardIsFound'
  BY <1>1, CountedBefore DEF RegistryInv, HeardIsFound, Aside, CountsSince
<1>8. QED
  BY <1>2, <1>4, <1>5, <1>6, <1>7

(* A refresh begins: every robot with a row, so every robot of a device, is  *)
(* still to be looked at.                                                   *)
LEMMA StartKeepsInv ==
  ASSUME RegistryInv, RegistryTypeOK', DevicesStay, StartRefresh
  PROVE  RefreshIsLater' /\ OnlineWasHeard' /\ FoundWasHeard' /\ HeardIsOnline' /\ HeardIsFound'
<1> USE RegistryAssumption
<1>1. /\ refresh' = [since |-> now, robots |-> {r \in RobotIds : robots[r] # "absent"},
                     robot |-> NoRobot, heard |-> FALSE]
      /\ UNCHANGED <<robots, doneFrom>>
  BY DEF StartRefresh, NoRefresh
<1>2. RegistryTypeOK /\ now \in Nat /\ doneFrom \in Int /\ doneFrom <= now
  BY DEF RegistryInv, RegistryTypeOK, Never
<1>3. RefreshIsLater'
  BY <1>1, <1>2 DEF RefreshIsLater, Refreshing, Never
<1>4. OnlineWasHeard'
  BY <1>1 DEF RegistryInv, OnlineWasHeard, HeardAt, DevicesStay
<1>5. FoundWasHeard' /\ HeardIsFound'
  BY <1>1 DEF FoundWasHeard, HeardIsFound
<1>6. \A d \in DeviceIds : devices[d] # NoRobot => devices[d] \in refresh'.robots
  BY <1>1, <1>2 DEF RegistryInv, RobotsHaveRows, RegistryTypeOK
<1>7. HeardIsOnline'
  BY <1>1, <1>6 DEF RegistryInv, HeardIsOnline, CountsSince, DevicesStay
<1>8. QED
  BY <1>3, <1>4, <1>5, <1>7

(* The look-up finds the heartbeat of every device that counts, and only     *)
(* those of the robot's own devices.                                         *)
LEMMA FindKeepsInv ==
  ASSUME RegistryInv, RegistryTypeOK', DevicesStay, NEW r \in RobotIds, FindHeartbeat(r)
  PROVE  RefreshIsLater' /\ OnlineWasHeard' /\ FoundWasHeard' /\ HeardIsOnline' /\ HeardIsFound'
<1> USE RegistryAssumption
<1>1. /\ refresh' = [refresh EXCEPT !.robot = r, !.heard = RecentBeat(r)]
      /\ UNCHANGED <<robots, doneFrom>> /\ r \in refresh.robots
  BY DEF FindHeartbeat, timeVars
<1>2. /\ refresh'.since = refresh.since /\ refresh'.robots = refresh.robots
      /\ refresh'.robot = r /\ refresh'.heard = RecentBeat(r)
  BY <1>1 DEF RegistryInv, RegistryTypeOK
<1>3. Refreshing /\ refresh.since \in 0..now /\ now \in Nat
  BY <1>1 DEF RegistryInv, RegistryTypeOK, RefreshIsLater, NoRefresh, Refreshing
<1>4. RefreshIsLater'
  BY <1>1, <1>2, <1>3 DEF RegistryInv, RefreshIsLater, Refreshing
<1>5. OnlineWasHeard' /\ HeardIsOnline'
  BY <1>1, <1>2 DEF RegistryInv, OnlineWasHeard, HeardIsOnline, HeardAt, CountsSince,
                    Refreshing, DevicesStay
<1>6. RecentBeat(r) => HeardAt(r, refresh.since)
  BY DEF RecentBeat, HeardAt
<1>7. FoundWasHeard'
  BY <1>2, <1>3, <1>6 DEF FoundWasHeard, Refreshing, HeardAt, DevicesStay
<1>8. ASSUME NEW d \in DeviceIds, devices[d] = r, CountsSince(d, refresh.since)
      PROVE  RecentBeat(r)
  BY <1>3, <1>8 DEF CountsSince, RecentBeat, RegistryInv, RegistryTypeOK, Never
<1>9. HeardIsFound'
  BY <1>2, <1>8 DEF HeardIsFound, CountsSince, DevicesStay
<1>10. QED
  BY <1>4, <1>5, <1>7, <1>9

(* What was found is written: online only if heard, offline only if no      *)
(* device counts.                                                           *)
LEMMA WriteKeepsInv ==
  ASSUME RegistryInv, RegistryTypeOK', DevicesStay, WriteStatus
  PROVE  RefreshIsLater' /\ OnlineWasHeard' /\ FoundWasHeard' /\ HeardIsOnline' /\ HeardIsFound'
<1> USE RegistryAssumption
<1> DEFINE r == refresh.robot
<1>1. /\ r # NoRobot /\ r \in RobotIds /\ UNCHANGED doneFrom
      /\ robots' = [robots EXCEPT ![r] = IF refresh.heard THEN "online" ELSE "offline"]
      /\ refresh'.since = refresh.since /\ refresh'.robots = refresh.robots \ {r}
      /\ refresh'.robot = NoRobot
  BY DEF WriteStatus, RegistryInv, RegistryTypeOK, timeVars
<1>2. Refreshing /\ refresh.since \in 0..now /\ now \in Nat /\ doneFrom \in Int
      /\ doneFrom <= refresh.since
  BY <1>1 DEF RegistryInv, RegistryTypeOK, FoundWasHeard, RefreshIsLater, Refreshing, Never
<1>3. RefreshIsLater'
  BY <1>1, <1>2 DEF RefreshIsLater, Refreshing
<1>4. refresh.heard => HeardAt(r, refresh.since)
  BY <1>1 DEF RegistryInv, FoundWasHeard
<1>5. HeardAt(r, refresh.since) => HeardAt(r, doneFrom)
  BY <1>2 DEF HeardAt, RegistryInv, RegistryTypeOK, Never
<1>6. OnlineWasHeard'
  <2> SUFFICES ASSUME NEW s \in RobotIds, robots'[s] = "online"
               PROVE  /\ doneFrom # Never => HeardAt(s, doneFrom)
                      /\ s \notin refresh'.robots => HeardAt(s, refresh.since)
    BY <1>1 DEF OnlineWasHeard, HeardAt, DevicesStay
  <2>1. CASE s = r
    BY <1>1, <1>4, <1>5, <2>1 DEF RegistryInv, RegistryTypeOK
  <2>2. CASE s # r
    BY <1>1, <1>2, <2>2 DEF RegistryInv, RegistryTypeOK, OnlineWasHeard
  <2>3. QED BY <2>1, <2>2
<1>7. FoundWasHeard' /\ HeardIsFound'
  BY <1>1 DEF FoundWasHeard, HeardIsFound
<1>8. \A d \in DeviceIds : CountsSince(d, doneFrom) => CountsSince(d, refresh.since)
  BY <1>2 DEF CountsSince, RegistryInv, RegistryTypeOK, Never
<1>9. HeardIsOnline'
  <2> SUFFICES ASSUME NEW d \in DeviceIds, devices[d] # NoRobot,
                      CountsSince(d, doneFrom)
                      \/ (devices[d] \notin refresh'.robots /\ CountsSince(d, refresh.since))
               PROVE  robots'[devices[d]] = "online"
    BY <1>1 DEF HeardIsOnline, CountsSince, DevicesStay
  <2>1. CASE devices[d] = r
    BY <1>1, <1>8, <2>1 DEF RegistryInv, RegistryTypeOK, HeardIsFound
  <2>2. CASE devices[d] # r
    BY <1>1, <1>2, <2>2 DEF RegistryInv, RegistryTypeOK, HeardIsOnline
  <2>3. QED BY <2>1, <2>2
<1>10. QED
  BY <1>3, <1>6, <1>7, <1>9

(* The refresh ends: when it went through, no robot is left, and what held   *)
(* of those done with holds of all.                                          *)
LEMMA EndKeepsInv ==
  ASSUME RegistryInv, RegistryTypeOK', DevicesStay,
         RefreshSucceeds \/ RefreshFails \/ RegistryRestart
  PROVE  RefreshIsLater' /\ OnlineWasHeard' /\ FoundWasHeard' /\ HeardIsOnline' /\ HeardIsFound'
<1> USE RegistryAssumption
<1>1. /\ refresh' = NoRefresh /\ UNCHANGED robots
      /\ \/ UNCHANGED doneFrom
         \/ doneFrom' = refresh.since /\ refresh # NoRefresh /\ refresh.robots = {}
  BY DEF RefreshSucceeds, RefreshFails, RegistryRestart, timeVars
<1>2. RefreshIsLater' /\ FoundWasHeard' /\ HeardIsFound' /\ ~Refreshing'
  BY <1>1 DEF RefreshIsLater, FoundWasHeard, HeardIsFound, Refreshing, NoRefresh
<1>3. doneFrom' # doneFrom => Refreshing
  BY <1>1 DEF RegistryInv, RefreshIsLater
<1>4. OnlineWasHeard'
  BY <1>1, <1>2, <1>3 DEF RegistryInv, OnlineWasHeard, HeardAt, DevicesStay
<1>5. HeardIsOnline'
  BY <1>1, <1>2, <1>3 DEF RegistryInv, HeardIsOnline, CountsSince, DevicesStay
<1>6. QED
  BY <1>2, <1>4, <1>5

-----------------------------------------------------------------------------
(* The invariant is inductive.                                              *)
LEMMA RegistryKeeps == RegistryInv /\ [RegistryNext]_registryVars => RegistryInv'
<1> SUFFICES ASSUME RegistryInv, [RegistryNext]_registryVars PROVE RegistryInv'
  OBVIOUS
<1>1. RegistryTypeOK' /\ RobotsHaveRows'
  BY RegistryTypes, RowsOfRobotsStay DEF RegistryInv
<1>2. RefreshIsLater' /\ OnlineWasHeard' /\ FoundWasHeard' /\ HeardIsOnline' /\ HeardIsFound'
  BY <1>1, StepIsProgress, AsideKeepsInv, StartKeepsInv, FindKeepsInv, WriteKeepsInv,
     EndKeepsInv DEF RegistryInv
<1>3. QED
  BY <1>1, <1>2 DEF RegistryInv

(* No other area touches the registry.                                      *)
LEMMA RegistryHolds == Spec => []RegistryInv
<1>1. Init => RegistryInv
  BY RegistryStarts DEF Init
<1>2. RegistryInv /\ [Next]_vars => RegistryInv'
  <2>1. [Next]_vars => [RegistryNext]_registryVars
    BY DEF Next, vars, DecisionArea, ConfigArea, GenerationArea, KnowledgeArea, RegistryArea,
           registryVars
  <2>2. QED BY <2>1, RegistryKeeps
<1>3. QED
  BY <1>1, <1>2, PTL DEF Spec

(* As of the last refresh that went through, a robot shown online had a      *)
(* heartbeat in the window before it, of a device registered under it or     *)
(* moved away since.                                                         *)
THEOREM SilenceIsNoticedHolds == Spec => []SilenceIsNoticed
<1>1. RegistryInv => SilenceIsNoticed
  BY DEF RegistryInv, OnlineWasHeard, HeardAt, SilenceIsNoticed
<1>2. QED
  BY <1>1, RegistryHolds, PTL

(* A robot whose device was heard before the last refresh that went through *)
(* and is still in the window is shown online.                              *)
THEOREM HeardRobotIsOnlineHolds == Spec => []HeardRobotIsOnline
<1>1. RegistryInv => HeardRobotIsOnline
  BY DEF RegistryInv, HeardIsOnline, CountsSince, HeardRobotIsOnline
<1>2. QED
  BY <1>1, RegistryHolds, PTL
=============================================================================
