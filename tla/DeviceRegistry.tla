---------------------------- MODULE DeviceRegistry ----------------------------
(***************************************************************************)
(* Devices register under a robot and send heartbeats; a timer derives from *)
(* them which robots are online.  Time passes in units of 30 seconds.       *)
(***************************************************************************)
EXTENDS Integers

CONSTANTS DeviceIds, RobotIds, NoRobot,
          Window,   \* ROBOT_HEARTBEAT_WINDOW_MS, 3 units
          Interval, \* the timer of refresh_robot_from_devices, 2 units
          MaxTime   \* bound

ASSUME RegistryAssumption ==
    Window \in Nat /\ Interval \in Nat \ {0} /\ MaxTime \in Nat /\ NoRobot \notin RobotIds

VARIABLES now,
          nextRefresh, \* when the timer fires
          doneFrom,  \* start of the last refresh whose job_runs row says success
          robots,    \* onlineStatus of the robots rows
          devices,   \* devices rows: the robot each is registered under
          movedAt,   \* when that last changed
          lastBeat,  \* the newest device_heartbeats row of each device
          request,   \* the register or heartbeat request of each device in progress
          refresh    \* the refresh in progress

registryVars == <<now, nextRefresh, doneFrom, robots, devices, movedAt, lastBeat,
                  request, refresh>>

Never == -1 - Window \* before any window
NoRequest == [kind |-> "none", robot |-> NoRobot]
NoRefresh == [since |-> Never, robots |-> {}, robot |-> NoRobot, heard |-> FALSE]

RegistryTypeOK ==
    /\ now \in 0..MaxTime /\ doneFrom \in {Never} \cup 0..now
    /\ nextRefresh \in now..(now + Interval)
    /\ robots \in [RobotIds -> {"absent", "unknown", "online", "offline"}]
    /\ devices \in [DeviceIds -> RobotIds \cup {NoRobot}]
    /\ movedAt \in [DeviceIds -> 0..now]
    /\ lastBeat \in [DeviceIds -> {Never} \cup 0..now]
    /\ request \in [DeviceIds -> [kind : {"none", "register", "heartbeat"},
                                  robot : RobotIds \cup {NoRobot}]]
    /\ refresh \in [since : {Never} \cup 0..now, robots : SUBSET RobotIds, robot : RobotIds \cup {NoRobot}, heard : BOOLEAN]

RegistryInit ==
    /\ now = 0 /\ nextRefresh = Interval /\ doneFrom = Never
    /\ robots = [r \in RobotIds |-> "absent"]
    /\ devices = [d \in DeviceIds |-> NoRobot]
    /\ movedAt = [d \in DeviceIds |-> 0]
    /\ lastBeat = [d \in DeviceIds |-> Never]
    /\ request = [d \in DeviceIds |-> NoRequest]
    /\ refresh = NoRefresh

-----------------------------------------------------------------------------
timeVars == <<now, nextRefresh, doneFrom>>

(* POST /device/register: upsert the robot, then the device, which moves it *)
(* to that robot whatever it was registered under.                          *)
UpsertRobot(d, r) ==
    /\ request[d] = NoRequest
    /\ robots' = [robots EXCEPT ![r] = IF @ = "absent" THEN "unknown" ELSE @]
    /\ request' = [request EXCEPT ![d] = [kind |-> "register", robot |-> r]]
    /\ UNCHANGED <<timeVars, devices, movedAt, lastBeat, refresh>>

UpsertDevice(d) ==
    /\ request[d].kind = "register"
    /\ devices' = [devices EXCEPT ![d] = request[d].robot]
    /\ movedAt' = [movedAt EXCEPT ![d] = IF devices[d] = request[d].robot THEN @ ELSE now]
    /\ request' = [request EXCEPT ![d] = NoRequest]
    /\ UNCHANGED <<timeVars, robots, lastBeat, refresh>>

(* POST /device/heartbeat: refused unless the device is registered under    *)
(* the robot it names; the row itself names only the device.                *)
AcceptHeartbeat(d) ==
    /\ request[d] = NoRequest
    /\ devices[d] # NoRobot
    /\ request' = [request EXCEPT ![d] = [kind |-> "heartbeat", robot |-> devices[d]]]
    /\ UNCHANGED <<timeVars, robots, devices, movedAt, lastBeat, refresh>>

StoreHeartbeat(d) ==
    /\ request[d].kind = "heartbeat"
    /\ lastBeat' = [lastBeat EXCEPT ![d] = now]
    /\ request' = [request EXCEPT ![d] = NoRequest]
    /\ UNCHANGED <<timeVars, robots, devices, movedAt, refresh>>

-----------------------------------------------------------------------------
(* setInterval: the refresh reads which robots there are, then, robot by    *)
(* robot, looks for a heartbeat in the window and writes what it found.     *)
StartRefresh ==
    /\ now = nextRefresh
    /\ refresh = NoRefresh
    /\ refresh' = [NoRefresh EXCEPT !.since = now, !.robots = {r \in RobotIds : robots[r] # "absent"}]
    /\ nextRefresh' = now + Interval
    /\ UNCHANGED <<now, doneFrom, robots, devices, movedAt, lastBeat, request>>

BeatOfAnyDevice(r) == \E d \in DeviceIds : lastBeat[d] >= refresh.since - Window
BeatSinceRefresh(r) == \E d \in DeviceIds : devices[d] = r /\ lastBeat[d] >= refresh.since
RecentBeat(r) ==
    \E d \in DeviceIds : devices[d] = r /\ lastBeat[d] >= refresh.since - Window

FindHeartbeat(r) ==
    /\ refresh.robot = NoRobot /\ r \in refresh.robots
    /\ refresh' = [refresh EXCEPT !.robot = r, !.heard = RecentBeat(r)]
    /\ UNCHANGED <<timeVars, robots, devices, movedAt, lastBeat, request>>

WriteStatus ==
    /\ refresh.robot # NoRobot
    /\ robots' = [robots EXCEPT ![refresh.robot] = IF refresh.heard THEN "online" ELSE "offline"]
    /\ refresh' = [refresh EXCEPT !.robots = @ \ {refresh.robot}, !.robot = NoRobot,
                                  !.heard = FALSE]
    /\ UNCHANGED <<timeVars, devices, movedAt, lastBeat, request>>

(* runJob: every robot was written, or a statement failed and the next      *)
(* timer tries again.                                                       *)
RefreshSucceeds ==
    /\ refresh # NoRefresh /\ refresh.robots = {}
    /\ doneFrom' = refresh.since
    /\ refresh' = NoRefresh
    /\ UNCHANGED <<now, nextRefresh, robots, devices, movedAt, lastBeat, request>>

RefreshFails ==
    /\ refresh # NoRefresh
    /\ refresh' = NoRefresh
    /\ UNCHANGED <<timeVars, robots, devices, movedAt, lastBeat, request>>

(* The server stops and starts: requests and the refresh in progress are    *)
(* gone, the timer begins anew.                                             *)
RegistryRestart ==
    /\ nextRefresh' = now + Interval
    /\ refresh' = NoRefresh
    /\ request' = [d \in DeviceIds |-> NoRequest]
    /\ UNCHANGED <<now, doneFrom, robots, devices, movedAt, lastBeat>>

(* The timer is on time; a refresh is assumed to end before the next one.   *)
Tick ==
    /\ now < MaxTime
    /\ now < nextRefresh
    /\ now' = now + 1
    /\ UNCHANGED <<nextRefresh, doneFrom, robots, devices, movedAt, lastBeat, request, refresh>>

RegistryNext ==
    \/ \E d \in DeviceIds : \/ \E r \in RobotIds : UpsertRobot(d, r)
                            \/ UpsertDevice(d) \/ AcceptHeartbeat(d) \/ StoreHeartbeat(d)
    \/ StartRefresh \/ WriteStatus \/ \E r \in RobotIds : FindHeartbeat(r)
    \/ RefreshSucceeds \/ RefreshFails \/ RegistryRestart \/ Tick

-----------------------------------------------------------------------------
(* As of the last refresh that went through, a robot shown online had a      *)
(* heartbeat in the window before it, of a device registered under it, or    *)
(* moved away since, whatever failed or was restarted after it              *)
(* (robots.service.ts:7-30, scheduler.service.ts:8-25, 65).                 *)
SilenceIsNoticed ==
    \A r \in RobotIds : doneFrom # Never /\ robots[r] = "online" =>
      \E d \in DeviceIds : /\ lastBeat[d] >= doneFrom - Window
                           /\ devices[d] = r \/ movedAt[d] >= doneFrom

(* A robot whose device was heard before the last refresh that went through *)
(* and is still in the window is shown online, whatever the other devices   *)
(* and robots do meanwhile (robots.service.ts:11-28,                        *)
(* devices.service.ts:47-78).                                               *)
HeardRobotIsOnline ==
    \A d \in DeviceIds :
      (/\ devices[d] # NoRobot /\ movedAt[d] < doneFrom
       /\ lastBeat[d] < doneFrom /\ lastBeat[d] >= now - Window)
      => robots[devices[d]] = "online"
=============================================================================
