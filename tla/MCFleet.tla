------------------------------- MODULE MCFleet -------------------------------
(* Fleet for TLC: syncs of three hosts on the server, where the limit is   *)
(* one; two copies of the app, and a week of two days of two ticks.        *)
EXTENDS Fleet

CONSTANTS c1, c2, h1, h2, h3, i1, i2

\* The theorems about Scheduler are about such constants.
ASSUME ScheduleAssumption == Schedule!ScheduleConstants

\* The component that stands still starts in one way.
MCInit ==
  /\ FleetInit
  /\ part # "machines" => call[c1].host = h1
  /\ part # "schedule" => now = 0

\* The fairness of MachineRegistry and of Scheduler, of their own behaviours.
MCSpec ==
  /\ MCInit /\ [][FleetNext]_fleetVars
  /\ \A c \in Call : WF_fleetVars(MachineStep(Sync(c)))
  /\ WF_fleetVars(ScheduleStep(Schedule!Tick))
  /\ \A i \in Instance : /\ WF_fleetVars(ScheduleStep(Schedule!CheckAndRun(i)))
                         /\ WF_fleetVars(ScheduleStep(Schedule!Continue(i)))
=============================================================================
