----------------------------- MODULE Scheduler -----------------------------
(***************************************************************************)
(* Scheduled evidence collection in the desktop app: the task row in       *)
(* SQLite, the check that runs every minute and on resume from sleep, and  *)
(* the collection it starts.                                               *)
(*                                                                         *)
(* better-sqlite3 answers at once, so within one copy of the app only the  *)
(* collectors and the timers interleave: from the end of a collection to   *)
(* the end of its run nothing else is scheduled.  Nothing keeps a second   *)
(* copy of the app from running on the same database, and between two      *)
(* copies every statement interleaves.                                     *)
(*                                                                         *)
(* Time is counted in ticks around one week.  next_run_at is kept as the   *)
(* number of ticks until it is reached: 0 is due or overdue.               *)
(***************************************************************************)
EXTENDS Integers

CONSTANTS Instance,    \* copies of the app that may run
          DayTicks,    \* bound: the resolution of a day
          WeekDays,    \* bound: the length of a week, Monday first
          Times,       \* bound: the times of day a schedule may have
          Frameworks,  \* the frameworks the evidence is processed for
          Never        \* next_run_at is NULL

VARIABLES now,        \* ticks since Monday 00:00
          row,        \* the row exists
          config,     \* schedule_config_json
          due,        \* next_run_at
          open,       \* copies of the app that are running
          armed,      \* those whose timer and resume handler are set
          running,    \* _isRunning, of each copy
          run,        \* how far each copy's run has come
          attempted,  \* history: whether a check has started the pending slot
          shared      \* history: two copies have been open at a time

task == <<row, config, due>>
vars == <<now, task, open, armed, running, run, attempted, shared>>

\* What a schedule needs to have slots at all.
ScheduleConstants ==
  /\ DayTicks \in Nat \ {0} /\ WeekDays \in Nat \ {0}
  /\ Times \subseteq 0..(DayTicks - 1) /\ Times # {}
  /\ Frameworks \in Nat
  /\ Never \notin Int

WeekTicks == DayTicks * WeekDays
Config == [enabled : BOOLEAN, weekly : BOOLEAN, time : Times]

\* A run collects, then works through the frameworks one by one ("processing"),
\* then reads and rewrites the row, then notifies the user.
Phase == {"idle", "collecting", "processing", "reading", "writing", "notifying"}

TypeOK ==
  /\ now \in 0..(WeekTicks - 1)
  /\ row \in BOOLEAN
  /\ config \in Config
  /\ due \in 0..WeekTicks \union {Never}
  /\ open \in SUBSET Instance /\ armed \in SUBSET open
  /\ running \in [Instance -> BOOLEAN]
  /\ run \in [Instance -> [phase : Phase, processed : 0..Frameworks,
                          success : BOOLEAN, config : Config]]
  /\ attempted \in {"no", "yes", "again", "unsaved"}
  /\ shared \in BOOLEAN

Default == [enabled |-> FALSE, weekly |-> FALSE, time |-> CHOOSE t \in Times : TRUE]
NoRun == [phase |-> "idle", processed |-> 0, success |-> TRUE, config |-> Default]

Init ==
  /\ now \in 0..(WeekTicks - 1)
  /\ row = FALSE /\ config = Default /\ due = Never
  /\ open = {} /\ armed = {}
  /\ running = [i \in Instance |-> FALSE]
  /\ run = [i \in Instance |-> NoRun]
  /\ attempted = "no" /\ shared = FALSE

At(i, phase) == i \in open /\ run[i].phase = phase

\* The event loop of a copy is free while it collects
IsFree(i) == At(i, "idle") \/ At(i, "collecting")

-----------------------------------------------------------------------------
\* calcNextRunAt: the ticks from now to the next run.
CalcNextRunAt(c) ==
  LET day  == now \div DayTicks
      next == day * DayTicks + c.time
      untilMonday == (WeekDays - day) % WeekDays
      days == IF c.weekly
                THEN IF untilMonday = 0 /\ next <= now THEN WeekDays ELSE untilMonday
                ELSE IF next <= now THEN 1 ELSE 0
  IN  next + days * DayTicks - now

\* What is asked of it: the first matching tick after now.
Matches(c, t) == IF c.weekly THEN t % WeekTicks = c.time ELSE t % DayTicks = c.time
IsNextSlot(c, d) ==
  /\ d > 0 /\ Matches(c, now + d)
  /\ \A e \in 1..(d - 1) : ~Matches(c, now + e)

Tick ==
  /\ now' = (now + 1) % WeekTicks
  /\ due' = IF due \in {0, Never} THEN due ELSE due - 1
  /\ UNCHANGED <<row, config, open, armed, running, run, attempted, shared>>

\* start, when the app is launched: it goes on without a timer when the row
\* cannot be inserted.
Launch(i) ==
  /\ i \notin open
  /\ open' = open \union {i}
  /\ \/ row' = TRUE /\ armed' = armed \union {i}
     \/ UNCHANGED <<row, armed>>
  /\ shared' = (shared \/ open # {})
  /\ UNCHANGED <<now, config, due, running, run, attempted>>

\* The app quits or is killed, at any moment.
Exit(i) ==
  /\ i \in open
  /\ open' = open \ {i} /\ armed' = armed \ {i}
  /\ running' = [running EXCEPT ![i] = FALSE]
  /\ run' = [run EXCEPT ![i] = NoRun]
  /\ attempted' = IF running[i] /\ attempted = "yes" THEN "unsaved" ELSE attempted
  /\ UNCHANGED <<now, task, shared>>

\* Mutation of SetSchedule: the next run is computed on enabling only.
SetScheduleKeepsNext(i, c) ==
  /\ IsFree(i) /\ row
  /\ config' = c
  /\ due' = IF ~c.enabled THEN Never ELSE IF config.enabled THEN due ELSE CalcNextRunAt(c)
  /\ attempted' = "no"
  /\ UNCHANGED <<now, row, open, armed, running, run, shared>>

\* set-schedule.  The update matches no row when none was ever inserted.
SetSchedule(i, c) ==
  /\ IsFree(i)
  /\ IF row THEN /\ config' = c
                 /\ due' = IF c.enabled THEN CalcNextRunAt(c) ELSE Never
                 /\ attempted' = "no"
            ELSE UNCHANGED <<config, due, attempted>>
  /\ UNCHANGED <<now, row, open, armed, running, run, shared>>

-----------------------------------------------------------------------------
\* Mutation of Begins: the flag is not tested.
BeginsAnyway(i) ==
  /\ running' = [running EXCEPT ![i] = TRUE]
  /\ run' = [run EXCEPT ![i] = [NoRun EXCEPT !.phase = "collecting"]]

\* The entry of runCollection, refused while a run is in progress.
Begins(i) ==
  /\ ~running[i]
  /\ running' = [running EXCEPT ![i] = TRUE]
  /\ run' = [run EXCEPT ![i] = [NoRun EXCEPT !.phase = "collecting"]]

\* checkAndRun, from the timer or on resume.
CheckAndRun(i) ==
  /\ i \in armed /\ IsFree(i)
  /\ row /\ config.enabled /\ due = 0
  /\ Begins(i)
  /\ attempted' = IF attempted \in {"no", "unsaved"} THEN "yes" ELSE "again"
  /\ UNCHANGED <<now, task, open, armed, shared>>

\* run-collection-now, whatever the schedule is.
RunNow(i) ==
  /\ IsFree(i)
  /\ Begins(i)
  /\ UNCHANGED <<now, task, open, armed, attempted, shared>>

\* collectEvidence answers.
Collected(i) ==
  /\ At(i, "collecting")
  /\ run' = [run EXCEPT ![i].phase = "processing"]
  /\ UNCHANGED <<now, task, open, armed, running, attempted, shared>>

\* processWindowsEvidence, for one framework after the other.
Process(i) ==
  /\ At(i, "processing") /\ run[i].processed < Frameworks
  /\ run' = [run EXCEPT ![i].processed = @ + 1]
  /\ UNCHANGED <<now, task, open, armed, running, attempted, shared>>

\* Mutation of Processed: the result is recorded with a framework to go.
ProcessedSome(i) ==
  /\ At(i, "processing") /\ run[i].processed >= Frameworks - 1
  /\ run' = [run EXCEPT ![i].phase = "reading"]
  /\ UNCHANGED <<now, task, open, armed, running, attempted, shared>>

Processed(i) ==
  /\ At(i, "processing") /\ run[i].processed = Frameworks
  /\ run' = [run EXCEPT ![i].phase = "reading"]
  /\ UNCHANGED <<now, task, open, armed, running, attempted, shared>>

\* The catch block, for the collectors, the database and the notification.
Fails(i) ==
  /\ \/ At(i, "collecting") \/ At(i, "processing")
     \/ At(i, "notifying") /\ run[i].success
  /\ run' = [run EXCEPT ![i].phase = "reading", ![i].success = FALSE]
  /\ UNCHANGED <<now, task, open, armed, running, attempted, shared>>

\* persistResult reads the row again ...
PersistReads(i) ==
  /\ At(i, "reading")
  /\ run' = [run EXCEPT ![i].phase = IF row THEN "writing" ELSE "notifying",
                        ![i].config = config]
  /\ UNCHANGED <<now, task, open, armed, running, attempted, shared>>

\* ... and writes the result and the time of the next run, enabled or not.
PersistWrites(i) ==
  /\ At(i, "writing")
  /\ due' = CalcNextRunAt(run[i].config)
  /\ attempted' = "no"
  /\ run' = [run EXCEPT ![i].phase = "notifying"]
  /\ UNCHANGED <<now, row, config, open, armed, running, shared>>

\* Either statement may fail: that is logged and no more.
PersistFails(i) ==
  /\ At(i, "reading") \/ At(i, "writing")
  /\ run' = [run EXCEPT ![i].phase = "notifying"]
  /\ attempted' = IF attempted = "yes" THEN "unsaved" ELSE attempted
  /\ UNCHANGED <<now, task, open, armed, running, shared>>

\* Mutation of Finish: the flag is reset on success only.
FinishOnSuccess(i) ==
  /\ At(i, "notifying")
  /\ running' = [running EXCEPT ![i] = ~run[i].success]
  /\ run' = [run EXCEPT ![i] = NoRun]
  /\ UNCHANGED <<now, task, open, armed, attempted, shared>>

\* The finally block.
Finish(i) ==
  /\ At(i, "notifying")
  /\ running' = [running EXCEPT ![i] = FALSE]
  /\ run' = [run EXCEPT ![i] = NoRun]
  /\ UNCHANGED <<now, task, open, armed, attempted, shared>>

Continue(i) ==
  \/ Collected(i) \/ Process(i) \/ Processed(i) \/ Fails(i)
  \/ PersistReads(i) \/ PersistWrites(i) \/ PersistFails(i) \/ Finish(i)

UserChanges == \E i \in Instance, c \in Config : SetSchedule(i, c)

Next ==
  \/ Tick
  \/ UserChanges
  \/ \E i \in Instance : \/ Launch(i) \/ Exit(i)
                         \/ CheckAndRun(i) \/ RunNow(i) \/ Continue(i)

\* The clock and the timer go on; each command of the collectors has a timeout,
\* and the rest of a run waits for nothing.
Fairness ==
  /\ WF_vars(Tick)
  /\ \A i \in Instance : WF_vars(CheckAndRun(i)) /\ WF_vars(Continue(i))

Spec == Init /\ [][Next]_vars /\ Fairness

-----------------------------------------------------------------------------
(***************************************************************************)
(* The next run is the first slot of the schedule as it is now configured, *)
(* or that slot has passed: however runs, changes and restarts follow one  *)
(* another, as long as one copy of the app runs at a time.                 *)
(***************************************************************************)
NextIsTheNextSlot ==
  ~shared /\ config.enabled => due = 0 \/ IsNextSlot(config, due)

(***************************************************************************)
(* A slot is collected once.  A check starts a slot again only if the app  *)
(* was closed, or the result could not be saved, the first time.           *)
(***************************************************************************)
SlotRunsOnce == ~shared => attempted # "again"

(***************************************************************************)
(* A slot that is due is given up by the user's change of the schedule, or *)
(* for the result of a run: of one that failed, or of one that has worked  *)
(* through every framework.  A kill half-way leaves it due.                *)
(***************************************************************************)
ServedMeansCollected ==
  [][due = 0 /\ due' # 0 =>
       \/ UserChanges
       \/ \E i \in Instance : /\ At(i, "writing")
                              /\ run[i].success => run[i].processed = Frameworks]_vars

(***************************************************************************)
(* While a copy of the app stays open with its timer set, the schedule     *)
(* enabled and left alone, collections keep starting, whatever fails in    *)
(* them and whatever another copy does.                                    *)
(***************************************************************************)
KeepsCollecting ==
  \A i \in Instance :
    /\ <>[](config.enabled /\ i \in armed)
    /\ <>[][~UserChanges]_vars
    => []<>(\E j \in Instance : run[j].phase = "collecting")
=============================================================================
