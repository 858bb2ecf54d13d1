------------------------- MODULE SchedulerRunnerProofs -------------------------
(***************************************************************************)
(* Proofs about SchedulerRunner, for any jobs, manual refreshes, budget    *)
(* and cadence.  IndInv of the module is the inductive invariant; each of  *)
(* its parts is carried over a step by a lemma of its own.                 *)
(***************************************************************************)
EXTENDS SchedulerRunner, FiniteSetTheorems, TLAPS

\* The initial state is well typed.
LEMMA TypeInit == Init => TypeOK
<1> SUFFICES ASSUME Init PROVE TypeOK
  OBVIOUS
<1>1. NoSuccess \in [Jobs -> Times]
  BY DEF NoSuccess, Times
<1>2. FreshTick \in TickLocals /\ FreshManual \in ManualLocals
  BY <1>1 DEF FreshTick, FreshManual, TickLocals, ManualLocals
<1>3. Startup(0) \in Status
  BY <1>1 DEF Startup, Status
<1> QED BY <1>1, <1>2, <1>3 DEF Init, TypeOK

\* A record without success map or commands is a status record.
LEMMA BareOK ==
    ASSUME now \in Nat, NEW s \in {"absent", "idle", "running", "failed"},
           NEW a \in Jobs \cup {Cycle, NoJob}
    PROVE  Bare(s, a) \in Status
BY DEF Bare, Status, NoSuccess, Times, Never

\* The tick's steps keep the types.
LEMMA TypeTick == TypeOK /\ CommandsCounted /\ (TickEnter \/ TickStep) => TypeOK'
<1> SUFFICES ASSUME TypeOK, CommandsCounted, TickEnter \/ TickStep PROVE TypeOK'
  OBVIOUS
<1> USE DEF TypeOK
<1>1. CASE TickEnter
  BY <1>1 DEF TickEnter, manualVars
<1>2. CASE TickLoad
  BY <1>2 DEF TickLoad, manualVars, FreshTick, TickLocals, Status
<1>3. CASE TickAnnounce
  <2>1. status' \in Status
    BY <1>3, BareOK DEF TickAnnounce
  <2> QED BY <1>3, <2>1 DEF TickAnnounce, manualVars
<1>4. CASE TickPick
  <2>1. PICK j \in Jobs : loc' = [loc EXCEPT !.job = j]
    BY <1>4 DEF TickPick, First, Offered
  <2>2. loc' \in TickLocals
    BY <2>1 DEF TickLocals
  <2> QED BY <1>4, <2>2 DEF TickPick, manualVars
<1>5. CASE TickStopsPicking
  BY <1>5 DEF TickStopsPicking, manualVars
<1>6. CASE TickLaunch
  <2>1. Bare("running", loc.job) \in Status
    BY <1>6, BareOK DEF CommandsCounted, TickLaunch
  <2>3. status' \in Status
    BY <1>6, <2>1 DEF TickLaunch, TickLocals, Status
  <2>2. loc' \in TickLocals
    BY <1>6 DEF TickLaunch, TickLocals, CommandsCounted
  <2> QED BY <1>6, <2>2, <2>3 DEF TickLaunch, manualVars
<1>7. CASE CommandSucceeds
  <2>1. loc.job \in Jobs /\ loc.job \in loc.ran
    BY <1>7 DEF CommandSucceeds, CommandsCounted
  <2>2. loc' \in TickLocals
    BY <1>7, <2>1 DEF CommandSucceeds, TickLocals
  <2>3. status' \in Status
    BY <1>7, <2>1 DEF CommandSucceeds, Status
  <2>4. succeeded' \in [Jobs -> Times]
    BY <1>7 DEF CommandSucceeds, Succeed, Times
  <2> QED BY <1>7, <2>2, <2>3, <2>4 DEF CommandSucceeds, manualVars
<1>8. CASE CommandFails
  BY <1>8 DEF CommandFails, manualVars
<1>9. CASE LaunchCycle
  <2>1. status' \in Status
    BY <1>9, BareOK DEF LaunchCycle, TickLocals, Status
  <2> QED BY <1>9, <2>1 DEF LaunchCycle, manualVars
<1>10. CASE CycleEnds
  BY <1>10 DEF CycleEnds, manualVars
<1>11. CASE TickFinish
  <2>1. UpdatedSuccess(loc.previous, loc) \in [Jobs -> Times]
    BY <1>11 DEF UpdatedSuccess, TickLocals, Times
  <2>2. status' \in Status
    BY <1>11, <2>1 DEF TickFinish, Status, TickLocals
  <2> QED BY <1>11, <2>2 DEF TickFinish, manualVars
<1>12. CASE TickRaises
  <2>1. status' \in Status
    BY <1>12 DEF TickRaises, Bare, Status, TickLocals
  <2> QED BY <1>12, <2>1 DEF TickRaises, manualVars
<1>13. CASE TickClear
  <2>1. FreshTick \in TickLocals
    BY DEF FreshTick, TickLocals, NoSuccess, Times, Never
  <2> QED BY <1>13, <2>1 DEF TickClear, manualVars
<1> QED
  BY <1>1, <1>2, <1>3, <1>4, <1>5, <1>6, <1>7, <1>8, <1>9, <1>10, <1>11, <1>12,
     <1>13 DEF TickStep

\* The steps of the manual refreshes keep the types.
LEMMA TypeManual ==
    ASSUME TypeOK, ManualJobs, NEW m \in Manuals, RequestRefresh(m) \/ ManualStep(m)
    PROVE  TypeOK'
<1> USE DEF TypeOK
<1>0. NoSuccess \in [Jobs -> Times]
  BY DEF NoSuccess, Times
<1>F. FreshManual \in ManualLocals
  BY <1>0 DEF FreshManual, ManualLocals
<1>1. CASE RequestRefresh(m)
  <2>1. PICK j \in Lanes \cup Datasets, due \in SUBSET Jobs :
          mloc' = [mloc EXCEPT ![m] = [FreshManual EXCEPT !.job = j,
                                          !.allowed = (j \in Offered(status, due))]]
    BY <1>1 DEF RequestRefresh
  <2>2. j \in Jobs
    BY DEF Jobs
  <2>3. [FreshManual EXCEPT !.job = j, !.allowed = (j \in Offered(status, due))]
          \in ManualLocals
    <3>1. \A a \in BOOLEAN : [FreshManual EXCEPT !.job = j, !.allowed = a]
                              \in ManualLocals
      BY <1>0, <2>2 DEF FreshManual, ManualLocals
    <3>2. (j \in Offered(status, due)) \in BOOLEAN
      OBVIOUS
    <3> QED BY <3>1, <3>2, Zenon
  <2>4. mloc' \in [Manuals -> ManualLocals]
    BY <2>1, <2>3
  <2> QED BY <1>1, <2>4 DEF RequestRefresh, tickVars
<1>2. CASE ManualRefuse(m)
  <2>1. status' \in Status
    BY <1>2, BareOK DEF ManualRefuse
  <2> QED BY <1>2, <1>F, <2>1 DEF ManualRefuse, tickVars
<1>3. CASE ManualAdmit(m)
  BY <1>3 DEF ManualAdmit, tickVars
<1>4. CASE ManualLoad(m)
  <2>1. mloc' \in [Manuals -> ManualLocals]
    BY <1>4 DEF ManualLoad, ManualLocals, Status
  <2> QED BY <1>4, <2>1 DEF ManualLoad, tickVars
<1>5. CASE ManualAnnounce(m)
  <2>1. status' \in Status
    BY <1>5, BareOK DEF ManualAnnounce, ManualJobs
  <2> QED BY <1>5, <2>1 DEF ManualAnnounce, tickVars
<1>6. CASE ManualEnd(m)
  <2>1. mloc[m] \in ManualLocals /\ mloc[m].job \in Jobs
    BY <1>6 DEF ManualEnd, ManualJobs
  <2>2. [mloc[m].previous EXCEPT ![mloc[m].job] = now] \in [Jobs -> Times]
    BY <2>1 DEF ManualLocals, Times
  <2>3. status' \in Status
    <3>1. Bare("idle", NoJob) \in Status
      BY BareOK
    <3>2. [Bare("idle", NoJob) EXCEPT !.success = mloc[m].previous] \in Status
      BY <2>1, <3>1 DEF Status, ManualLocals
    <3>3. [tickState |-> "idle", active |-> NoJob,
           success |-> [mloc[m].previous EXCEPT ![mloc[m].job] = now],
           commands |-> {mloc[m].job}, shared |-> FALSE, at |-> now] \in Status
      BY <2>1, <2>2 DEF Status
    <3> QED BY <1>6, <3>2, <3>3 DEF ManualEnd
  <2>4. succeeded' \in [Jobs -> Times]
    BY <1>6 DEF ManualEnd, Succeed, Times
  <2> QED BY <1>6, <1>F, <2>3, <2>4 DEF ManualEnd, tickVars
<1> QED BY <1>1, <1>2, <1>3, <1>4, <1>5, <1>6 DEF ManualStep

\* The other writers, time and restarts keep the types.
LEMMA TypeWorld == TypeOK /\ (LaunchEmailWindow \/ Pass \/ Restart) => TypeOK'
<1> SUFFICES ASSUME TypeOK PROVE LaunchEmailWindow \/ Pass \/ Restart => TypeOK'
  OBVIOUS
<1> USE DEF TypeOK
<1>1. CASE LaunchEmailWindow
  <2>1. status' \in Status
    BY <1>1, BareOK DEF LaunchEmailWindow
  <2> QED BY <1>1, <2>1 DEF LaunchEmailWindow, tickVars, manualVars
<1>2. CASE Pass
  BY <1>2 DEF Pass, tickVars, manualVars
<1>3. CASE Restart
  <2>1. NoSuccess \in [Jobs -> Times]
    BY DEF NoSuccess, Times
  <2>2. FreshTick \in TickLocals /\ FreshManual \in ManualLocals
    BY <2>1 DEF FreshTick, FreshManual, TickLocals, ManualLocals
  <2>3. Startup(now) \in Status
    BY <2>1 DEF Startup, Status
  <2> QED BY <1>3, <2>2, <2>3 DEF Restart
<1> QED BY <1>1, <1>2, <1>3

\* Every step keeps the types.
LEMMA TypeStep == TypeOK /\ CommandsCounted /\ ManualJobs /\ [Next]_vars => TypeOK'
<1> SUFFICES ASSUME TypeOK, CommandsCounted, ManualJobs, [Next]_vars PROVE TypeOK'
  OBVIOUS
<1>1. CASE UNCHANGED vars
  BY <1>1 DEF TypeOK, vars, tickVars, manualVars
<1>2. CASE Next
  BY <1>2, TypeTick, TypeManual, TypeWorld DEF Next
<1> QED BY <1>1, <1>2

\* The flag is up exactly while the tick is away from idle.
LEMMA FlagStep == TickOwnsFlag /\ [Next]_vars => TickOwnsFlag'
<1> SUFFICES ASSUME TickOwnsFlag, [Next]_vars PROVE TickOwnsFlag'
  OBVIOUS
<1> USE DEF TickOwnsFlag
<1>1. CASE TickEnter \/ TickStep
  BY <1>1 DEF TickEnter, TickStep, TickLoad, TickAnnounce, TickPick, TickStopsPicking,
     TickLaunch, CommandSucceeds, CommandFails, LaunchCycle, CycleEnds, TickFinish,
     TickRaises, TickClear
<1>2. ASSUME NEW m \in Manuals, RequestRefresh(m) \/ ManualStep(m)
      PROVE  TickOwnsFlag'
  BY <1>2 DEF RequestRefresh, ManualStep, ManualRefuse, ManualAdmit, ManualLoad,
     ManualAnnounce, ManualEnd, tickVars
<1>3. CASE LaunchEmailWindow \/ Pass \/ Restart
  BY <1>3 DEF LaunchEmailWindow, Pass, Restart, tickVars
<1>4. CASE UNCHANGED vars
  BY <1>4 DEF vars, tickVars
<1> QED BY <1>1, <1>2, <1>3, <1>4 DEF Next

\* The tick counts its commands.
LEMMA CountStep == TypeOK /\ CommandsCounted /\ [Next]_vars => CommandsCounted'
<1> SUFFICES ASSUME TypeOK, CommandsCounted, [Next]_vars PROVE CommandsCounted'
  OBVIOUS
<1> USE DEF CommandsCounted
<1>1. CASE TickEnter \/ TickLoad \/ TickAnnounce
  BY <1>1 DEF TickEnter, TickLoad, TickAnnounce, FreshTick, TypeOK, TickLocals
<1>2. CASE TickPick
  <2>1. PICK j \in Jobs : loc' = [loc EXCEPT !.job = j]
    BY <1>2 DEF TickPick, First, Offered
  <2> QED BY <1>2, <2>1 DEF TickPick, TypeOK, TickLocals
<1>3. CASE TickStopsPicking
  BY <1>3 DEF TickStopsPicking
<1>4. CASE TickLaunch
  <2>1. loc'.ran = loc.ran \cup {loc.job} /\ loc'.ok = loc.ok /\ loc'.job = loc.job
    BY <1>4 DEF TickLaunch, TypeOK, TickLocals
  <2> QED BY <1>4, <2>1 DEF TickLaunch
<1>9. CASE CommandSucceeds
  <2>1. loc'.ok = loc.ok \cup {loc.job} /\ loc'.ran = loc.ran
    BY <1>9 DEF CommandSucceeds, TypeOK, TickLocals
  <2> QED BY <1>9, <2>1 DEF CommandSucceeds
<1>10. CASE CommandFails
  BY <1>10 DEF CommandFails
<1>5. CASE LaunchCycle \/ CycleEnds \/ TickFinish \/ TickRaises \/ TickClear \/ Restart
  BY <1>5 DEF LaunchCycle, CycleEnds, TickFinish, TickRaises, TickClear, Restart, FreshTick
<1>6. ASSUME UNCHANGED tickVars PROVE CommandsCounted'
  BY <1>6 DEF tickVars
<1>7. ASSUME NEW m \in Manuals, RequestRefresh(m) \/ ManualStep(m)
      PROVE  UNCHANGED tickVars
  BY <1>7 DEF RequestRefresh, ManualStep, ManualRefuse, ManualAdmit, ManualLoad,
     ManualAnnounce, ManualEnd
<1>8. CASE LaunchEmailWindow \/ Pass \/ UNCHANGED vars
  BY <1>6, <1>8 DEF LaunchEmailWindow, Pass, vars
<1> QED BY <1>1, <1>2, <1>3, <1>4, <1>5, <1>6, <1>7, <1>8, <1>9, <1>10 DEF Next, TickStep

\* Every manual refresh under way has a job.
LEMMA ManualStepJobs == TypeOK /\ ManualJobs /\ [Next]_vars => ManualJobs'
<1> SUFFICES ASSUME TypeOK, ManualJobs, [Next]_vars PROVE ManualJobs'
  OBVIOUS
<1> USE DEF ManualJobs
<1>1. ASSUME NEW m \in Manuals, RequestRefresh(m) PROVE ManualJobs'
  <2>1. PICK j \in Lanes \cup Datasets, due \in SUBSET Jobs :
          mloc' = [mloc EXCEPT ![m] = [FreshManual EXCEPT !.job = j,
                                          !.allowed = (j \in Offered(status, due))]]
    BY <1>1 DEF RequestRefresh
  <2>2. mloc'[m].job = j
    BY <2>1 DEF FreshManual, TypeOK
  <2>3. \A n \in Manuals \ {m} : mloc'[n] = mloc[n] /\ manual'[n] = manual[n]
    BY <1>1, <2>1 DEF RequestRefresh, TypeOK
  <2> QED BY <2>2, <2>3 DEF Jobs
<1>2. ASSUME NEW m \in Manuals, ManualStep(m) PROVE ManualJobs'
  <2>1. ASSUME NEW n \in Manuals, manual'[n] # "idle" PROVE mloc'[n].job \in Jobs
    BY <1>2, <2>1 DEF ManualStep, ManualRefuse, ManualAdmit, ManualLoad, ManualAnnounce,
       ManualEnd, TypeOK, ManualLocals
  <2> QED BY <2>1
<1>3. CASE Restart
  BY <1>3 DEF Restart
<1>4. CASE UNCHANGED manualVars
  BY <1>4 DEF manualVars
<1>5. CASE TickEnter \/ TickStep \/ LaunchEmailWindow \/ Pass \/ UNCHANGED vars
  BY <1>4, <1>5 DEF TickEnter, TickStep, TickLoad, TickAnnounce, TickPick,
     TickStopsPicking, TickLaunch, CommandSucceeds, CommandFails, LaunchCycle, CycleEnds,
     TickFinish, TickRaises, TickClear, LaunchEmailWindow, Pass, vars
<1> QED BY <1>1, <1>2, <1>3, <1>5 DEF Next

\* A command on display has its thread behind it.
LEMMA BackedStep ==
    TypeOK /\ CommandsCounted /\ ManualJobs /\ ActiveCommandIsBacked /\ [Next]_vars
        => ActiveCommandIsBacked'
<1> SUFFICES ASSUME TypeOK, CommandsCounted, ManualJobs, ActiveCommandIsBacked, [Next]_vars
             PROVE  ActiveCommandIsBacked'
  OBVIOUS
<1> USE JobsAssumption DEF ActiveCommandIsBacked, Reporting
<1>1. CASE TickEnter \/ TickLoad
  BY <1>1 DEF TickEnter, TickLoad, manualVars
<1>2. CASE TickAnnounce
  BY <1>2 DEF TickAnnounce, Bare
<1>3. CASE TickPick
  <2>1. PICK j \in Jobs : loc' = [loc EXCEPT !.job = j]
    BY <1>3 DEF TickPick, First, Offered
  <2>2. loc'.ran = loc.ran
    BY <2>1 DEF TypeOK, TickLocals
  <2> QED BY <1>3, <2>2 DEF TickPick, manualVars
<1>4. CASE TickStopsPicking \/ CommandFails \/ CycleEnds
  BY <1>4 DEF TickStopsPicking, CommandFails, CycleEnds, manualVars
<1>5. CASE TickLaunch
  <2>1. loc'.ran = loc.ran \cup {loc.job} /\ status'.active = loc.job
    BY <1>5 DEF TickLaunch, TypeOK, TickLocals, Bare
  <2>2. loc.job \in Jobs
    BY <1>5 DEF TickLaunch, CommandsCounted
  <2> QED BY <1>5, <2>1, <2>2 DEF TickLaunch
<1>6. CASE CommandSucceeds
  <2>1. loc'.ran = loc.ran
    BY <1>6 DEF CommandSucceeds, TypeOK, TickLocals
  <2>2. status'.active = status.active /\ status'.tickState = status.tickState
    BY <1>6 DEF CommandSucceeds, TypeOK, Status
  <2> QED BY <1>6, <2>1, <2>2 DEF CommandSucceeds, manualVars
<1>7. CASE LaunchCycle
  BY <1>7 DEF LaunchCycle, Bare
<1>8. CASE TickFinish \/ TickRaises \/ LaunchEmailWindow \/ Restart
  BY <1>8 DEF TickFinish, TickRaises, LaunchEmailWindow, Restart, Bare, Startup
<1>9. CASE TickClear
  BY <1>9 DEF TickClear, manualVars
<1>10. ASSUME NEW m \in Manuals, RequestRefresh(m) \/ ManualAdmit(m) \/ ManualLoad(m)
       PROVE  ActiveCommandIsBacked'
  <2>1. UNCHANGED <<tick, loc, status>> /\ manual[m] # "run"
    BY <1>10 DEF RequestRefresh, ManualAdmit, ManualLoad, tickVars
  <2>2. \A n \in Manuals \ {m} : manual'[n] = manual[n] /\ mloc'[n] = mloc[n]
    BY <1>10 DEF RequestRefresh, ManualAdmit, ManualLoad, TypeOK
  <2> QED BY <2>1, <2>2
<1>11. ASSUME NEW m \in Manuals, ManualAnnounce(m) PROVE ActiveCommandIsBacked'
  <2>1. manual'[m] = "run" /\ status'.active = mloc'[m].job /\ mloc'[m].job \in Jobs
    BY <1>11 DEF ManualAnnounce, ManualJobs, TypeOK, Bare
  <2> QED BY <2>1
<1>12. ASSUME NEW m \in Manuals, ManualRefuse(m) \/ ManualEnd(m)
       PROVE  ActiveCommandIsBacked'
  BY <1>12 DEF ManualRefuse, ManualEnd, Bare
<1>13. CASE Pass \/ UNCHANGED vars
  BY <1>13 DEF Pass, vars, tickVars, manualVars
<1> QED
  BY <1>1, <1>2, <1>3, <1>4, <1>5, <1>6, <1>7, <1>8, <1>9, <1>10, <1>11, <1>12, <1>13
     DEF Next, TickStep, ManualStep

\* The maps of the status and of every thread record real successes only.
LEMMA SuccessStep ==
    ASSUME TypeOK, CommandsCounted, ManualJobs,
           SuccessesAreReal, LoadedSuccessesAreReal, [Next]_vars
    PROVE  SuccessesAreReal' /\ LoadedSuccessesAreReal'
<1> USE DEF SuccessesAreReal, LoadedSuccessesAreReal, Real
<1>0. /\ now \in Nat /\ succeeded \in [Jobs -> Times]
      /\ \A j \in Jobs : NoSuccess[j] = Never
      /\ \A n \in Manuals : mloc[n].previous \in [Jobs -> Times]
      /\ loc.previous \in [Jobs -> Times] /\ status.success \in [Jobs -> Times]
      /\ loc.ok \subseteq Jobs
  BY DEF TypeOK, NoSuccess, TickLocals, ManualLocals, Status
<1>1. CASE TickEnter \/ TickStopsPicking \/ CommandFails \/ CycleEnds
  BY <1>1 DEF TickEnter, TickStopsPicking, CommandFails, CycleEnds, manualVars
<1>2. CASE TickLoad
  BY <1>2 DEF TickLoad, manualVars, FreshTick
<1>3. CASE TickAnnounce
  BY <1>0, <1>3 DEF TickAnnounce, manualVars, Bare
<1>4. CASE TickPick
  <2>1. PICK j \in Jobs : loc' = [loc EXCEPT !.job = j]
    BY <1>4 DEF TickPick, First, Offered
  <2>2. loc'.ok = loc.ok /\ loc'.previous = loc.previous
    BY <2>1 DEF TypeOK, TickLocals
  <2> QED BY <1>4, <2>2 DEF TickPick, manualVars
<1>5. CASE TickLaunch
  <2>1. loc'.ok = loc.ok /\ loc'.previous = loc.previous
    BY <1>5 DEF TickLaunch, TypeOK, TickLocals
  <2>2. status'.success = NoSuccess /\ status'.commands = loc.ok /\ status'.shared
    BY <1>5 DEF TickLaunch, Bare
  <2> QED BY <1>0, <1>5, <2>1, <2>2 DEF TickLaunch, manualVars
<1>6. CASE LaunchCycle
  <2>1. status'.success = NoSuccess /\ status'.commands = loc.ok /\ status'.shared
    BY <1>6 DEF LaunchCycle, Bare
  <2> QED BY <1>0, <1>6, <2>1 DEF LaunchCycle, manualVars
<1>7. ASSUME NEW j \in Jobs, Succeed(j)
      PROVE  /\ succeeded'[j] # Never
             /\ \A i \in Jobs : succeeded[i] # Never => succeeded'[i] = succeeded[i]
             /\ \A i \in Jobs : succeeded'[i] <= now
  BY <1>0, <1>7 DEF Succeed, Never, Times
<1>8. CASE CommandSucceeds
  <2>1. loc.job \in Jobs /\ Succeed(loc.job)
    BY <1>8 DEF CommandSucceeds, CommandsCounted
  <2>2. loc'.ok = loc.ok \cup {loc.job} /\ loc'.previous = loc.previous
    BY <1>8 DEF CommandSucceeds, TypeOK, TickLocals
  <2>3. /\ status'.success = status.success /\ status'.at = status.at
        /\ status'.shared = status.shared
        /\ status'.commands = IF status.shared THEN status.commands \cup {loc.job}
                              ELSE status.commands
    BY <1>8 DEF CommandSucceeds, TypeOK, Status
  <2>4. status.commands \subseteq Jobs
    BY DEF TypeOK, Status
  <2>5. SuccessesAreReal'
    BY <1>7, <2>1, <2>3, <2>4
  <2>6. LoadedSuccessesAreReal'
    BY <1>0, <1>7, <1>8, <2>1, <2>2 DEF CommandSucceeds, manualVars
  <2> QED BY <2>5, <2>6
<1>9. CASE TickFinish
  <2>1. \A j \in Jobs : status'.success[j] = IF j \in loc.ok THEN now ELSE loc.previous[j]
    BY <1>9 DEF TickFinish, UpdatedSuccess
  <2>2. status'.commands = loc.ok /\ status'.at = now
    BY <1>9 DEF TickFinish
  <2> QED BY <1>0, <1>9, <2>1, <2>2 DEF TickFinish, manualVars
<1>10. CASE TickRaises
  BY <1>0, <1>10 DEF TickRaises, manualVars, Bare
<1>11. CASE TickClear
  BY <1>0, <1>11 DEF TickClear, manualVars, FreshTick
<1>12. ASSUME NEW m \in Manuals, RequestRefresh(m)
       PROVE  SuccessesAreReal' /\ LoadedSuccessesAreReal'
  <2>1. PICK j \in Lanes \cup Datasets, due \in SUBSET Jobs :
          mloc' = [mloc EXCEPT ![m] = [FreshManual EXCEPT !.job = j,
                                          !.allowed = (j \in Offered(status, due))]]
    BY <1>12 DEF RequestRefresh
  <2>2. \A n \in Manuals : mloc'[n].previous = IF n = m THEN NoSuccess ELSE mloc[n].previous
    BY <2>1 DEF FreshManual, TypeOK
  <2> QED BY <1>0, <1>12, <2>2 DEF RequestRefresh, tickVars
<1>13. ASSUME NEW m \in Manuals, ManualRefuse(m)
       PROVE  SuccessesAreReal' /\ LoadedSuccessesAreReal'
  <2>1. \A n \in Manuals : mloc'[n].previous = IF n = m THEN NoSuccess ELSE mloc[n].previous
    BY <1>13 DEF ManualRefuse, FreshManual, TypeOK
  <2> QED BY <1>0, <1>13, <2>1 DEF ManualRefuse, tickVars, Bare
<1>14. ASSUME NEW m \in Manuals, ManualAdmit(m) \/ ManualAnnounce(m)
       PROVE  SuccessesAreReal' /\ LoadedSuccessesAreReal'
  BY <1>0, <1>14 DEF ManualAdmit, ManualAnnounce, tickVars, Bare
<1>15. ASSUME NEW m \in Manuals, ManualLoad(m)
       PROVE  SuccessesAreReal' /\ LoadedSuccessesAreReal'
  <2>1. \A n \in Manuals :
          mloc'[n].previous = IF n = m THEN status.success ELSE mloc[n].previous
    BY <1>15 DEF ManualLoad, TypeOK, ManualLocals
  <2> QED BY <1>15, <2>1 DEF ManualLoad, tickVars
<1>16. ASSUME NEW m \in Manuals, ManualEnd(m)
       PROVE  SuccessesAreReal' /\ LoadedSuccessesAreReal'
  <2> DEFINE j == mloc[m].job
  <2>1. j \in Jobs /\ UNCHANGED <<now, tickVars>>
    BY <1>16 DEF ManualEnd, ManualJobs
  <2>2. \A n \in Manuals : mloc'[n].previous = IF n = m THEN NoSuccess ELSE mloc[n].previous
    BY <1>16 DEF ManualEnd, FreshManual, TypeOK
  <2>3. CASE Succeed(j) /\ status' = [tickState |-> "idle", active |-> NoJob,
                 success |-> [mloc[m].previous EXCEPT ![j] = now],
                 commands |-> {j}, shared |-> FALSE, at |-> now]
    <3>1. \A i \in Jobs : status'.success[i] = IF i = j THEN now ELSE mloc[m].previous[i]
      BY <1>0, <2>3
    <3>2. SuccessesAreReal'
      BY <1>0, <1>7, <2>1, <2>3, <3>1
    <3>3. LoadedSuccessesAreReal'
      BY <1>0, <1>7, <2>1, <2>2, <2>3 DEF tickVars
    <3> QED BY <3>2, <3>3
  <2>4. CASE UNCHANGED succeeded
             /\ status' = [Bare("idle", NoJob) EXCEPT !.success = mloc[m].previous]
    BY <1>0, <2>1, <2>2, <2>4 DEF Bare, tickVars
  <2> QED BY <1>16, <2>3, <2>4 DEF ManualEnd
<1>17. CASE LaunchEmailWindow
  BY <1>0, <1>17 DEF LaunchEmailWindow, tickVars, manualVars, Bare
<1>18. CASE Pass
  <2>1. \A j \in Jobs : succeeded[j] <= now + 1
    BY <1>0 DEF Times, Never
  <2> QED BY <1>18, <2>1 DEF Pass, tickVars, manualVars
<1>19. CASE Restart
  BY <1>0, <1>19 DEF Restart, Startup, FreshTick, FreshManual
<1>20. CASE UNCHANGED vars
  BY <1>20 DEF vars, tickVars, manualVars
<1> QED
  BY <1>1, <1>2, <1>3, <1>4, <1>5, <1>6, <1>8, <1>9, <1>10, <1>11, <1>12, <1>13, <1>14,
     <1>15, <1>16, <1>17, <1>18, <1>19, <1>20 DEF Next, TickStep, ManualStep

\* The initial state satisfies the invariant.
LEMMA InvInit == Init => IndInv
<1> SUFFICES ASSUME Init PROVE IndInv
  OBVIOUS
<1>1. TypeOK
  BY TypeInit
<1>2. \A j \in Jobs : NoSuccess[j] = Never /\ Never <= 0
  BY DEF NoSuccess, Never
<1> QED
  BY <1>1, <1>2, JobsAssumption DEF Init, IndInv, TickOwnsFlag, CommandsCounted, ManualJobs,
     ActiveCommandIsBacked, Reporting, SuccessesAreReal, LoadedSuccessesAreReal, Real,
     Startup, FreshTick, FreshManual

\* IndInv holds in every reachable state.
THEOREM Inductive == Spec => []IndInv
<1>1. IndInv /\ [Next]_vars => IndInv'
  BY TypeStep, FlagStep, CountStep, ManualStepJobs, BackedStep, SuccessStep DEF IndInv
<1> QED BY InvInit, <1>1, PTL DEF Spec

\* Every reachable state is well typed.
THEOREM TypeCorrect == Spec => []TypeOK
<1>1. IndInv => TypeOK
  BY DEF IndInv
<1> QED BY Inductive, <1>1, PTL

\* _WORK_QUEUE_TICK_RUNNING is up exactly while a tick is under way, whatever a
\* command or a planning step raises: the skip branch of the tick is dead code
\* under max_instances=1.
THEOREM FlagOwned == Spec => []TickOwnsFlag
<1>1. IndInv => TickOwnsFlag
  BY DEF IndInv
<1> QED BY Inductive, <1>1, PTL

\* No record of a tick or a manual refresh leaves a command on display whose
\* thread is done, in whatever order the writers overwrite each other.
THEOREM NoGhostCommand == Spec => []ActiveCommandIsBacked
<1>1. IndInv => ActiveCommandIsBacked
  BY DEF IndInv
<1> QED BY Inductive, <1>1, PTL

\* What job_last_success_at records did happen, no later than recorded, although
\* threads write back maps they read before other threads wrote theirs.
THEOREM RecordedSuccess == Spec => []SuccessesAreReal
<1>1. IndInv => SuccessesAreReal
  BY DEF IndInv
<1> QED BY Inductive, <1>1, PTL

\* The live cycle runs only after at least one refresh of its tick succeeded
\* and none failed.
THEOREM CycleAfterSuccess == Spec => []CycleOnlyAfterSuccess
<1>1. IndInv => CycleOnlyAfterSuccess
  BY DEF IndInv, CommandsCounted, CycleOnlyAfterSuccess
<1> QED BY Inductive, <1>1, PTL

(***************************************************************************)
(* The length of a tick                                                    *)
(***************************************************************************)
\* A new tick has its whole budget.
LEMMA FullBudget == loc.ran = {} /\ tick # "launch" => WithinBudget
BY FS_EmptySet, CommandsAssumption DEF WithinBudget, CommandsLeft

\* Launching a job that has not run in this tick spends one command.
LEMMA LaunchSpends ==
    ASSUME TypeOK, CommandsCounted, WithinBudget, TickLaunch
    PROVE  /\ IsFiniteSet(loc'.ran)
           /\ CommandsLeft' \in Nat
           /\ CommandsLeft' < CommandsLeft
<1>1. tick = "launch" /\ loc' = [loc EXCEPT !.ran = @ \cup {loc.job}]
  BY DEF TickLaunch
<1>2. loc'.ran = loc.ran \cup {loc.job}
  BY <1>1 DEF TypeOK, TickLocals
<1>3. IsFiniteSet(loc.ran) /\ loc.job \notin loc.ran /\ CommandsLeft \in Nat /\ CommandsLeft > 0
  BY <1>1 DEF WithinBudget
<1>4. Cardinality(loc.ran) \in Nat
  BY <1>3, FS_CardinalityType
<1>5. IsFiniteSet(loc'.ran) /\ Cardinality(loc'.ran) = Cardinality(loc.ran) + 1
  BY <1>2, <1>3, FS_AddElement
<1> QED BY <1>3, <1>4, <1>5, CommandsAssumption DEF CommandsLeft

\* A tick that picks a job has a command left, and the job has not run.
LEMMA PickIsNew ==
    ASSUME TypeOK, WithinBudget, TickPick
    PROVE  /\ loc'.ran = loc.ran
           /\ loc'.job \notin loc'.ran
           /\ CommandsLeft > 0
<1>1. PICK j \in Jobs \ loc.ran : loc' = [loc EXCEPT !.job = j]
  BY DEF TickPick, First, Offered
<1>2. loc'.ran = loc.ran /\ loc'.job = j
  BY <1>1 DEF TypeOK, TickLocals
<1>3. Cardinality(loc.ran) < MaxCommands
  BY DEF TickPick
<1>4. Cardinality(loc.ran) \in Nat
  BY FS_CardinalityType DEF WithinBudget
<1> QED BY <1>1, <1>2, <1>3, <1>4, CommandsAssumption DEF CommandsLeft

\* What a step of the tick other than a launch, a pick and the end does to the
\* commands that have run: nothing.
LEMMA SameCommands ==
    ASSUME TypeOK,
           \/ (TickLoad /\ CommandsCounted) \/ TickAnnounce \/ TickStopsPicking
           \/ CommandSucceeds \/ CommandFails \/ LaunchCycle \/ CycleEnds
           \/ TickFinish \/ TickRaises
    PROVE  loc'.ran = loc.ran
BY DEF TypeOK, TickLocals, CommandsCounted, FreshTick, TickLoad, TickAnnounce, TickStopsPicking,
   CommandSucceeds, CommandFails, LaunchCycle, CycleEnds, TickFinish, TickRaises

\* The budget over a step.
LEMMA BudgetStep == IndInv /\ WithinBudget /\ [Next]_vars => WithinBudget'
<1> SUFFICES ASSUME IndInv, WithinBudget, [Next]_vars PROVE WithinBudget'
  OBVIOUS
<1>0. TypeOK /\ CommandsCounted
  BY DEF IndInv
<1>1. CASE loc'.ran = {} /\ tick' # "launch"
  BY <1>1, FS_EmptySet, CommandsAssumption DEF WithinBudget, CommandsLeft
<1>2. CASE loc'.ran = loc.ran /\ tick' # "launch"
  BY <1>2 DEF WithinBudget, CommandsLeft
<1>3. CASE loc' = loc /\ tick' = tick
  BY <1>3 DEF WithinBudget, CommandsLeft
<1>4. CASE TickEnter
  BY <1>2, <1>4 DEF TickEnter
<1>5. CASE TickPick
  <2>1. tick' = "launch" /\ loc'.ran = loc.ran /\ loc'.job \notin loc'.ran /\ CommandsLeft > 0
    BY <1>0, <1>5, PickIsNew DEF TickPick
  <2> QED BY <2>1 DEF WithinBudget, CommandsLeft
<1>6. CASE TickLaunch
  <2>1. IsFiniteSet(loc'.ran) /\ CommandsLeft' \in Nat
    BY <1>0, <1>6, LaunchSpends
  <2>2. tick' = "run"
    BY <1>6 DEF TickLaunch
  <2> QED BY <2>1, <2>2 DEF WithinBudget
<1>7. CASE TickClear
  <2>1. loc'.ran = {} /\ tick' = "idle"
    BY <1>7 DEF TickClear, FreshTick
  <2> QED BY <2>1, <1>1
<1>8. CASE TickLoad \/ TickAnnounce \/ TickStopsPicking \/ CommandSucceeds \/ CommandFails
             \/ LaunchCycle \/ CycleEnds \/ TickFinish \/ TickRaises
  <2>1. loc'.ran = loc.ran
    BY <1>0, <1>8, SameCommands
  <2>2. tick' # "launch"
    BY <1>8 DEF TickLoad, TickAnnounce, TickStopsPicking, CommandSucceeds, CommandFails,
       LaunchCycle, CycleEnds, TickFinish, TickRaises
  <2> QED BY <1>2, <2>1, <2>2
<1>9. CASE \E m \in Manuals : RequestRefresh(m) \/ ManualStep(m)
  BY <1>3, <1>9 DEF RequestRefresh, ManualStep, ManualRefuse, ManualAdmit, ManualLoad,
     ManualAnnounce, ManualEnd, tickVars
<1>10. CASE LaunchEmailWindow \/ Pass \/ UNCHANGED vars
  BY <1>3, <1>10 DEF LaunchEmailWindow, Pass, vars, tickVars
<1>11. CASE Restart
  <2>1. loc'.ran = {} /\ tick' = "idle"
    BY <1>11 DEF Restart, FreshTick
  <2> QED BY <2>1, <1>1
<1> QED BY <1>4, <1>5, <1>6, <1>7, <1>8, <1>9, <1>10, <1>11 DEF Next, TickStep

\* A step of the tick takes it nearer its end.
LEMMA TickIsNearer ==
    ASSUME IndInv, WithinBudget, TickStep
    PROVE  \/ tick' = "idle"
           \/ CommandsLeft' < CommandsLeft
           \/ CommandsLeft' = CommandsLeft /\ Ahead[tick'] < Ahead[tick]
<1>0. TypeOK /\ CommandsCounted
  BY DEF IndInv
<1>1. CASE TickPick
  <2>1. loc'.ran = loc.ran
    BY <1>0, <1>1, PickIsNew
  <2> QED BY <1>1, <2>1 DEF TickPick, Ahead, CommandsLeft
<1>2. CASE TickLaunch
  BY <1>0, <1>2, LaunchSpends
<1>3. CASE TickClear
  BY <1>3 DEF TickClear
<1>4. CASE TickLoad \/ TickAnnounce \/ TickStopsPicking \/ CommandSucceeds \/ CommandFails
             \/ LaunchCycle \/ CycleEnds \/ TickFinish \/ TickRaises
  <2>1. CommandsLeft' = CommandsLeft
    BY <1>0, <1>4, SameCommands DEF CommandsLeft
  <2>2. Ahead[tick'] < Ahead[tick]
    BY <1>4 DEF Ahead, TickLoad, TickAnnounce, TickStopsPicking, CommandSucceeds, CommandFails,
       LaunchCycle, CycleEnds, TickFinish, TickRaises
  <2> QED BY <2>1, <2>2
<1> QED BY <1>1, <1>2, <1>3, <1>4 DEF TickStep

\* A tick runs at most WORK_QUEUE_MAX_COMMANDS commands, no job twice.
THEOREM BudgetIsKept == Spec => []WithinBudget
<1>1. Init => WithinBudget
  BY FullBudget DEF Init, FreshTick
<1> QED BY Inductive, BudgetStep, <1>1, PTL DEF Spec

\* A tick runs down: no step of it, and nobody else's, takes it further from
\* its end, so every tick has at most a fixed number of steps.  With the flag
\* that FlagOwned speaks of, this is what RunsReturn asks of the tick but for
\* the fairness of its thread.
THEOREM TicksAreFinite == Spec => TicksRunDown
<1> DEFINE Down ==
    tick # "idle" =>
          \/ tick' = "idle"
          \/ CommandsLeft' < CommandsLeft
          \/ CommandsLeft' = CommandsLeft /\ Ahead[tick'] < Ahead[tick]
          \/ tick' = tick /\ loc' = loc /\ ~TickStep
<1>1. ASSUME IndInv, WithinBudget, [Next]_vars PROVE [Down]_vars
  <2>1. CASE TickStep
    BY <1>1, <2>1, TickIsNearer
  <2>2. CASE ~TickStep /\ \E m \in Manuals : RequestRefresh(m) \/ ManualStep(m)
    BY <2>2 DEF RequestRefresh, ManualStep, ManualRefuse, ManualAdmit, ManualLoad,
       ManualAnnounce, ManualEnd, tickVars
  <2>3. CASE ~TickStep /\ (LaunchEmailWindow \/ Pass)
    BY <2>3 DEF LaunchEmailWindow, Pass, tickVars
  <2>4. CASE TickEnter \/ Restart
    BY <2>4 DEF TickEnter, Restart
  <2> QED BY <1>1, <2>1, <2>2, <2>3, <2>4 DEF Next
<1>2. Spec => [][Down]_vars
  BY Inductive, BudgetIsKept, <1>1, PTL DEF Spec
<1> QED BY <1>2 DEF TicksRunDown
===============================================================================
