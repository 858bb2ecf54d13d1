---------------------------- MODULE SchedulerRunner ----------------------------
(***************************************************************************)
(* The lane-refresh scheduler of the app process: the periodic tick that   *)
(* plans and runs due refresh commands, the operator's manual refreshes,   *)
(* and the runtime status all of them overwrite and plan from.             *)
(*                                                                         *)
(* The tick and each manual refresh run in threads of their own.  They     *)
(* share two globals, the flag _WORK_QUEUE_TICK_RUNNING and the status     *)
(* record _RUNTIME_STATUS; no lock guards either.  An action is the code   *)
(* around one access to a global or one subprocess.  Every status write    *)
(* replaces the whole record.                                              *)
(***************************************************************************)
EXTENDS Integers, FiniteSets

CONSTANTS
    Lanes,         \* Massive lanes: ordered first, no cadence gate
    Datasets,      \* dataset jobs: cadence-gated
    Signals,       \* signal lanes: their gate yields to ticker slices passed on
    Manuals,       \* manual refresh threads
    NoJob,         \* no command
    MaxCommands,   \* WORK_QUEUE_MAX_COMMANDS
    RuntimeCycle,  \* RUNTIME_CYCLE_AFTER_DATA_REFRESH
    Cadence,       \* cadence of the gated jobs, in units of time
    MaxTime        \* bound: the clock of a behaviour stops here

Jobs == Lanes \cup Datasets \cup Signals
Cycle == "live_runtime_cycle"

ASSUME JobsAssumption == NoJob \notin Jobs \cup {Cycle} /\ Cycle \notin Jobs
ASSUME CommandsAssumption == MaxCommands \in Nat /\ RuntimeCycle \in BOOLEAN
ASSUME TimeAssumption == Cadence \in Nat \ {0} /\ MaxTime \in Nat

VARIABLES
    now,
    tickRunning,   \* _WORK_QUEUE_TICK_RUNNING
    tick, loc,     \* where the tick is, and its local variables
    manual, mloc,  \* the same for each manual refresh
    status,        \* _RUNTIME_STATUS
    succeeded      \* history: when each job first really succeeded

tickVars == <<tickRunning, tick, loc>>
manualVars == <<manual, mloc>>
vars == <<now, tickVars, manualVars, status, succeeded>>

Never == -1
Times == Nat \cup {Never}
NoSuccess == [j \in Jobs |-> Never]

Status == [tickState : {"absent", "idle", "running", "failed"},
           active : Jobs \cup {Cycle, NoJob},
           success : [Jobs -> Times],    \* job_last_success_at
           commands : SUBSET Jobs,       \* successes among last_tick_commands
           shared : BOOLEAN,             \* that list is the running tick's own
           at : Nat]                     \* generated_at

\* ran: the executed_job_ids; ok: those of them whose command exited 0.
TickLocals == {l \in [previous : [Jobs -> Times], job : Jobs \cup {NoJob},
                      ran : SUBSET Jobs, ok : SUBSET Jobs] : l.ok \subseteq l.ran}
ManualLocals == [job : Jobs \cup {NoJob}, allowed : BOOLEAN, previous : [Jobs -> Times]]

FreshTick == [previous |-> NoSuccess, job |-> NoJob, ran |-> {}, ok |-> {}]
FreshManual == [job |-> NoJob, allowed |-> FALSE, previous |-> NoSuccess]

TypeOK ==
    /\ now \in Nat
    /\ tickRunning \in BOOLEAN
    /\ tick \in {"idle", "load", "announce", "plan", "launch", "run",
                 "launch_cycle", "cycle", "finish", "clear"}
    /\ loc \in TickLocals
    /\ manual \in [Manuals -> {"idle", "queued", "load", "announce", "run"}]
    /\ mloc \in [Manuals -> ManualLocals]
    /\ status \in Status
    /\ succeeded \in [Jobs -> Times]

\* A record without the success map or the commands reads as an empty one.
Bare(tickState, active) ==
    [tickState |-> tickState, active |-> active, success |-> NoSuccess,
     commands |-> {}, shared |-> FALSE, at |-> now]

Startup(t) == [tickState |-> "absent", active |-> NoJob, success |-> NoSuccess,
               commands |-> {}, shared |-> FALSE, at |-> t]

Init ==
    /\ now = 0
    /\ tickRunning = FALSE
    /\ tick = "idle"
    /\ loc = FreshTick
    /\ manual = [m \in Manuals |-> "idle"]
    /\ mloc = [m \in Manuals |-> FreshManual]
    /\ status = Startup(0)
    /\ succeeded = NoSuccess

(***************************************************************************)
(* The work queue                                                          *)
(***************************************************************************)
\* The recorded success of a job, else the time of the record that lists it
\* among the tick's commands.
LastSuccess(st, j) ==
    IF st.success[j] # Never THEN st.success[j]
    ELSE IF j \in st.commands THEN st.at ELSE Never

CadenceOpen(last) == last = Never \/ now >= last + Cadence

\* Rows that are DUE_NOW with a command: due is what the batch policy, the
\* lane policy and the tickers make due, which this module does not model.
Offered(st, due) == {j \in due : j \in Datasets => CadenceOpen(LastSuccess(st, j))}

\* _commands_for_tick lists the Massive lanes before all other rows.
First(rows) == IF rows \cap Lanes # {} THEN rows \cap Lanes ELSE rows

(***************************************************************************)
(* The tick                                                                *)
(***************************************************************************)
\* One instance at a time (max_instances=1).  The branch for a flag already
\* set is left out: TickOwnsFlag shows it cannot be reached.
TickEnter ==
    /\ tick = "idle" /\ ~tickRunning
    /\ tickRunning' = TRUE
    /\ tick' = "load"
    /\ UNCHANGED <<now, loc, manualVars, status, succeeded>>

TickLoad ==
    /\ tick = "load"
    /\ loc' = [FreshTick EXCEPT !.previous = status.success]
    /\ tick' = "announce"
    /\ UNCHANGED <<now, tickRunning, manualVars, status, succeeded>>

\* The running record carries no job_last_success_at.
TickAnnounce ==
    /\ tick = "announce"
    /\ status' = Bare("running", NoJob)
    /\ tick' = "plan"
    /\ UNCHANGED <<now, tickRunning, loc, manualVars, succeeded>>

\* The queue is rebuilt from the status as it now stands.
TickPick ==
    /\ tick = "plan"
    /\ Cardinality(loc.ran) < MaxCommands
    /\ \E due \in SUBSET Jobs :
        \E j \in First(Offered(status, due) \ loc.ran) :
            loc' = [loc EXCEPT !.job = j]
    /\ tick' = "launch"
    /\ UNCHANGED <<now, tickRunning, manualVars, status, succeeded>>

\* The budget is spent, or the queue offers nothing more: whether the latter
\* happens is the environment's choice of due rows.
TickStopsPicking ==
    /\ tick = "plan"
    /\ tick' = IF loc.ok # {} /\ RuntimeCycle THEN "launch_cycle" ELSE "finish"
    /\ UNCHANGED <<now, tickRunning, loc, manualVars, status, succeeded>>

\* Mutant: a job is not marked as executed when it is launched.
Mut_TickLaunch ==
    /\ tick = "launch"
    /\ status' = [Bare("running", loc.job) EXCEPT !.commands = loc.ok, !.shared = TRUE]
    /\ tick' = "run"
    /\ UNCHANGED <<now, tickRunning, loc, manualVars, succeeded>>

TickLaunch ==
    /\ tick = "launch"
    /\ status' = [Bare("running", loc.job) EXCEPT !.commands = loc.ok, !.shared = TRUE]
    /\ loc' = [loc EXCEPT !.ran = @ \cup {loc.job}]
    /\ tick' = "run"
    /\ UNCHANGED <<now, tickRunning, manualVars, succeeded>>

Succeed(j) == succeeded' = [succeeded EXCEPT ![j] = IF @ = Never THEN now ELSE @]

\* A status the tick wrote holds the list itself, not a copy: the command is
\* appended in the record on display too, under the record's older time.
CommandSucceeds ==
    /\ tick = "run"
    /\ Succeed(loc.job)
    /\ loc' = [loc EXCEPT !.ok = @ \cup {loc.job}]
    /\ status' = IF status.shared
                 THEN [status EXCEPT !.commands = @ \cup {loc.job}] ELSE status
    /\ tick' = "plan"
    /\ UNCHANGED <<now, tickRunning, manualVars>>

\* Mutant: a failed command does not stop the tick.
Mut_CommandFails ==
    /\ tick = "run"
    /\ tick' = "plan"
    /\ UNCHANGED <<now, tickRunning, loc, manualVars, status, succeeded>>

\* A non-zero exit or the command's timeout: the tick stops.
CommandFails ==
    /\ tick = "run"
    /\ tick' = "finish"
    /\ UNCHANGED <<now, tickRunning, loc, manualVars, status, succeeded>>

LaunchCycle ==
    /\ tick = "launch_cycle"
    /\ status' = [Bare("running", Cycle) EXCEPT !.commands = loc.ok, !.shared = TRUE]
    /\ tick' = "cycle"
    /\ UNCHANGED <<now, tickRunning, loc, manualVars, succeeded>>

CycleEnds ==
    /\ tick = "cycle"
    /\ tick' = "finish"
    /\ UNCHANGED <<now, tickRunning, loc, manualVars, status, succeeded>>

\* Mutant: every executed command counts, whatever its exit code.
Mut_UpdatedSuccess(previous, l) ==
    [j \in Jobs |-> IF j \in l.ran THEN now ELSE previous[j]]

\* _updated_job_last_success_at: commands that exited 0, at the tick's end.
UpdatedSuccess(previous, l) ==
    [j \in Jobs |-> IF j \in l.ok THEN now ELSE previous[j]]

TickFinish ==
    /\ tick = "finish"
    /\ status' = [tickState |-> "idle", active |-> NoJob,
                  success |-> UpdatedSuccess(loc.previous, loc),
                  commands |-> loc.ok, shared |-> FALSE, at |-> now]
    /\ tick' = "clear"
    /\ UNCHANGED <<now, tickRunning, loc, manualVars, succeeded>>

\* Mutant: the failure record keeps the active command.
Mut_TickRaises ==
    /\ tick \in {"plan", "run", "cycle"}
    /\ status' = [Bare("failed", status.active) EXCEPT !.success = loc.previous]
    /\ tick' = "clear"
    /\ UNCHANGED <<now, tickRunning, loc, manualVars, succeeded>>

\* Planning or starting a process raises; the map is restored as loaded.
TickRaises ==
    /\ tick \in {"plan", "run", "cycle"}
    /\ status' = [Bare("failed", NoJob) EXCEPT !.success = loc.previous]
    /\ tick' = "clear"
    /\ UNCHANGED <<now, tickRunning, loc, manualVars, succeeded>>

\* Mutant: the flag is cleared only when no command failed.
Mut_TickClear ==
    /\ tick = "clear"
    /\ tickRunning' = (loc.ran # loc.ok)
    /\ tick' = "idle"
    /\ loc' = FreshTick
    /\ UNCHANGED <<now, manualVars, status, succeeded>>

TickClear ==
    /\ tick = "clear"
    /\ tickRunning' = FALSE
    /\ tick' = "idle"
    /\ loc' = FreshTick
    /\ UNCHANGED <<now, manualVars, status, succeeded>>

(***************************************************************************)
(* A manual refresh of one lane or dataset                                 *)
(***************************************************************************)
\* The request computes the queue and leaves the rest to a background task.
RequestRefresh(m) ==
    /\ manual[m] = "idle"
    /\ \E j \in Lanes \cup Datasets, due \in SUBSET Jobs :
        mloc' = [mloc EXCEPT ![m] = [FreshManual EXCEPT !.job = j,
                                        !.allowed = (j \in Offered(status, due))]]
    /\ manual' = [manual EXCEPT ![m] = "queued"]
    /\ UNCHANGED <<now, tickVars, status, succeeded>>

MayStart(m) == ~tickRunning /\ mloc[m].allowed

\* Refused: the status now says idle, also when a tick is running.
ManualRefuse(m) ==
    /\ manual[m] = "queued" /\ ~MayStart(m)
    /\ status' = Bare("idle", NoJob)
    /\ manual' = [manual EXCEPT ![m] = "idle"]
    /\ mloc' = [mloc EXCEPT ![m] = FreshManual]
    /\ UNCHANGED <<now, tickVars, succeeded>>

ManualAdmit(m) ==
    /\ manual[m] = "queued" /\ MayStart(m)
    /\ manual' = [manual EXCEPT ![m] = "load"]
    /\ UNCHANGED <<now, tickVars, mloc, status, succeeded>>

ManualLoad(m) ==
    /\ manual[m] = "load"
    /\ mloc' = [mloc EXCEPT ![m].previous = status.success]
    /\ manual' = [manual EXCEPT ![m] = "announce"]
    /\ UNCHANGED <<now, tickVars, status, succeeded>>

ManualAnnounce(m) ==
    /\ manual[m] = "announce"
    /\ status' = Bare("running", mloc[m].job)
    /\ manual' = [manual EXCEPT ![m] = "run"]
    /\ UNCHANGED <<now, tickVars, mloc, succeeded>>

\* Its record holds the map it loaded before it ran, and its own success.
ManualEnd(m) ==
    /\ manual[m] = "run"
    /\ LET j == mloc[m].job
       IN \/ /\ Succeed(j)
             /\ status' = [tickState |-> "idle", active |-> NoJob,
                           success |-> [mloc[m].previous EXCEPT ![j] = now],
                           commands |-> {j}, shared |-> FALSE, at |-> now]
          \/ /\ status' = [Bare("idle", NoJob) EXCEPT !.success = mloc[m].previous]
             /\ UNCHANGED succeeded
    /\ manual' = [manual EXCEPT ![m] = "idle"]
    /\ mloc' = [mloc EXCEPT ![m] = FreshManual]
    /\ UNCHANGED <<now, tickVars>>

(***************************************************************************)
(* Other writers, time, restarts                                           *)
(***************************************************************************)
\* The two launchers of the e-mail agent's window record an idle status.
LaunchEmailWindow ==
    /\ status' = Bare("absent", NoJob)
    /\ UNCHANGED <<now, tickVars, manualVars, succeeded>>

Pass ==
    /\ now < MaxTime
    /\ now' = now + 1
    /\ UNCHANGED <<tickVars, manualVars, status, succeeded>>

\* The app stops, at any point, and starts again: the startup record has no map.
Restart ==
    /\ status' = Startup(now)
    /\ tickRunning' = FALSE
    /\ tick' = "idle"
    /\ loc' = FreshTick
    /\ manual' = [m \in Manuals |-> "idle"]
    /\ mloc' = [m \in Manuals |-> FreshManual]
    /\ UNCHANGED <<now, succeeded>>

TickStep ==
    \/ TickLoad \/ TickAnnounce \/ TickPick \/ TickStopsPicking \/ TickLaunch
    \/ CommandSucceeds \/ CommandFails \/ LaunchCycle \/ CycleEnds
    \/ TickFinish \/ TickRaises \/ TickClear

ManualStep(m) ==
    ManualRefuse(m) \/ ManualAdmit(m) \/ ManualLoad(m) \/ ManualAnnounce(m) \/ ManualEnd(m)

Next ==
    \/ TickEnter
    \/ TickStep
    \/ \E m \in Manuals : RequestRefresh(m) \/ ManualStep(m)
    \/ LaunchEmailWindow
    \/ Pass
    \/ Restart

\* Threads keep running and subprocesses end or are killed at their timeout;
\* the interval trigger, the operator and the clock owe nothing.
Fairness == WF_vars(TickStep) /\ \A m \in Manuals : WF_vars(ManualStep(m))

Spec == Init /\ [][Next]_vars /\ Fairness

(***************************************************************************)
(* Properties                                                              *)
(***************************************************************************)
\* The tick is between its first status record and its last.
Reporting == tick \in {"plan", "launch", "run", "launch_cycle", "cycle", "finish"}

\* A status that names an active command or a running tick has the thread that
\* ran that command behind it: whatever the order of the writers' records, no
\* command stays on display once its thread is done.
ActiveCommandIsBacked ==
    /\ status.tickState = "running" =>
           Reporting \/ \E m \in Manuals : manual[m] = "run"
    /\ status.active = Cycle => tick \in {"cycle", "finish"}
    /\ status.active \in Jobs =>
           \/ Reporting /\ status.active \in loc.ran
           \/ \E m \in Manuals : manual[m] = "run" /\ mloc[m].job = status.active

\* A recorded success is a success: the job exited 0 at that time or before.
\* A list shared with the tick may be older than its last entry.
Real(success) ==
    \A j \in Jobs : success[j] # Never =>
        succeeded[j] # Never /\ succeeded[j] <= success[j]
SuccessesAreReal ==
    /\ Real(status.success)
    /\ \A j \in status.commands :
          succeeded[j] # Never /\ (status.shared \/ succeeded[j] <= status.at)

\* The live cycle runs on data whose every refresh of this tick succeeded.
CycleOnlyAfterSuccess ==
    tick \in {"launch_cycle", "cycle"} => loc.ok # {} /\ loc.ok = loc.ran

\* The flag is up exactly while a tick is under way, also after exceptions and
\* restarts, so a new tick never meets it up.
TickOwnsFlag == tickRunning <=> tick # "idle"

\* The commands of this tick, by the place it has reached: none before the
\* first plan, all successful while it plans, the last one open while it runs.
CommandsCounted ==
    /\ tick \in {"idle", "load", "announce"} => loc.ran = {}
    /\ tick \in {"plan", "launch", "launch_cycle", "cycle"} => loc.ok = loc.ran
    /\ tick \in {"launch", "run"} => loc.job \in Jobs
    /\ tick = "launch_cycle" \/ tick = "cycle" => loc.ok # {}
    /\ tick = "run" => loc.ran = loc.ok \cup {loc.job}

\* Maps read before a run and written after it hold only real successes, and
\* every success the tick counts has happened.
LoadedSuccessesAreReal ==
    /\ Real(loc.previous)
    /\ \A m \in Manuals : Real(mloc[m].previous)
    /\ \A j \in Jobs : succeeded[j] <= now
    /\ \A j \in loc.ok : succeeded[j] # Never

\* A manual refresh that runs, runs a job.
ManualJobs == \A m \in Manuals : manual[m] # "idle" => mloc[m].job \in Jobs

\* The inductive strengthening of the safety invariants.
IndInv ==
    /\ TypeOK
    /\ TickOwnsFlag
    /\ CommandsCounted
    /\ ManualJobs
    /\ ActiveCommandIsBacked
    /\ SuccessesAreReal
    /\ LoadedSuccessesAreReal

\* A tick ends, and so does a manual refresh.
RunsReturn ==
    /\ tickRunning ~> ~tickRunning
    /\ \A m \in Manuals : manual[m] # "idle" ~> manual[m] = "idle"

\* A dataset whose success was on record when the tick began is not run again
\* before its cadence has passed.
CadenceRespected ==
    [][\A j \in Datasets :
          tick = "launch" /\ tick' = "run" /\ loc.job = j =>
              CadenceOpen(loc.previous[j])]_vars

\* "Wait for the current lane command to finish": the tick and a manual refresh
\* do not run commands together.
TickExcludesManual ==
    tick \in {"run", "cycle"} => \A m \in Manuals : manual[m] # "run"

(***************************************************************************)
(* The length of a tick                                                    *)
(***************************************************************************)
\* How much of the tick is ahead when it picks no further command.
Ahead ==
    [idle |-> 0, clear |-> 1, finish |-> 2, cycle |-> 3, launch_cycle |-> 4,
     launch |-> 5, plan |-> 6, run |-> 7, announce |-> 8, load |-> 9]

CommandsLeft == MaxCommands - Cardinality(loc.ran)

\* A tick runs no job twice and never exceeds WORK_QUEUE_MAX_COMMANDS, however
\* often the queue it re-plans from offers a job that has just run.
WithinBudget ==
    /\ IsFiniteSet(loc.ran)
    /\ CommandsLeft \in Nat
    /\ tick = "launch" => loc.job \notin loc.ran /\ CommandsLeft > 0

\* Every step of a tick ends it, spends a command of its budget, or brings it
\* closer to its end with the same budget; nobody else's step takes it back.
TicksRunDown ==
    [][tick # "idle" =>
          \/ tick' = "idle"
          \/ CommandsLeft' < CommandsLeft
          \/ CommandsLeft' = CommandsLeft /\ Ahead[tick'] < Ahead[tick]
          \/ tick' = tick /\ loc' = loc /\ ~TickStep]_vars
===============================================================================
