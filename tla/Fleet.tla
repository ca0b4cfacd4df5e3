------------------------------- MODULE Fleet --------------------------------
(***************************************************************************)
(* The desktop apps that collect on a schedule, and the registry of the    *)
(* machines that they report to.  What one of them does the other does not *)
(* see, so a behaviour exercises one, chosen at the start, and the other   *)
(* stands still.                                                           *)
(***************************************************************************)
EXTENDS MachineRegistry

CONSTANTS Instance, DayTicks, WeekDays, Times, Frameworks, Never  \* Scheduler

VARIABLES part,                                                   \* the component at work
          now, row, config, due, open, armed, running, run,       \* Scheduler
          attempted, shared

scheduleVars == <<now, row, config, due, open, armed, running, run, attempted, shared>>
fleetVars == <<part, vars, scheduleVars>>

Schedule == INSTANCE Scheduler

FleetInit ==
  /\ part \in {"machines", "schedule"}
  /\ Init /\ Schedule!Init

MachineStep(A) == part = "machines" /\ A /\ UNCHANGED <<part, scheduleVars>>
ScheduleStep(A) == part = "schedule" /\ A /\ UNCHANGED <<part, vars>>

FleetNext ==
  \/ MachineStep(Next)
  \/ ScheduleStep(Schedule!Next)

\* The properties of Scheduler, stated there: the next run is the next slot, a
\* slot is started once and given up only for a result, and collections go on.
NextIsTheNextSlot == Schedule!NextIsTheNextSlot
SlotRunsOnce == Schedule!SlotRunsOnce
ServedMeansCollected == Schedule!ServedMeansCollected
KeepsCollecting == Schedule!KeepsCollecting
=============================================================================
