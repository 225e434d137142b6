----------------------------- MODULE FastForward -----------------------------
(***************************************************************************)
(* The session's time: AdvanceStep and the fast-forward AdvanceUntil       *)
(* (core_boundary/session.cpp) over its event log.  The loop of            *)
(* AdvanceUntil is one action per step; the session lives on one thread,   *)
(* so while it runs nobody else's call does.                               *)
(*                                                                         *)
(* Of the world this module keeps the tick and the outbox of the completed *)
(* step; the daylight is a constant of the model.                          *)
(***************************************************************************)
EXTENDS EventLog

CONSTANTS kTicksPerDay, SunriseHour, SunsetHour,
          unbudgeted_step_limit,  \* SessionConfig's, refused by CreateSession when 0
          Target,                 \* the targets asked for
          StepBudget,             \* the budgets given; 0 asks for the session's own
          LoadTick,               \* bounds of the model: the ticks of the saves loaded
          MaxTick                 \*   and the last tick completed

ASSUME StepLimitAssumption ==
  unbudgeted_step_limit \in Nat \ {0} /\ StepBudget \subseteq Nat

VARIABLES tick,         \* State().calendar.tick
          step_events,  \* State().step_events
          run,          \* the AdvanceUntil in progress, or NoRun
          report        \* the FastForwardReport last returned

fvars == <<events, log_origin, cursor, lost, next_reader_id, tick, step_events, run, report>>

NoRun == [target |-> [kind |-> "none"], asked |-> 0, steps_run |-> 0]

Report(outcome, steps_run) == [outcome |-> outcome, steps_run |-> steps_run]

FastInit ==
  /\ Init
  /\ tick = 0
  /\ step_events = <<>>
  /\ run = NoRun
  /\ report = Report("kTargetReached", 0)

-----------------------------------------------------------------------------
\* RunOneStep and HoldTheLogLimit.
Stepped(outbox) ==
  /\ tick < MaxTick
  /\ tick' = tick + 1
  /\ step_events' = outbox
  /\ Step(outbox)

AdvanceStep ==
  /\ run = NoRun
  /\ \E outbox \in Outbox : Stepped(outbox)
  /\ UNCHANGED <<run, report>>

Budget(step_budget) == IF step_budget # 0 THEN step_budget ELSE unbudgeted_step_limit

\* mutant: no budget is no limit
Bug_NoLimit(call) == call.asked # 0 /\ call.steps_run >= call.asked

Spent(call) == call.steps_run >= Budget(call.asked)

\* A tick already behind is reached without a step; every other target is the
\* next one, and costs a step at least.
BeginAdvanceUntil(target, step_budget) ==
  /\ run = NoRun
  /\ IF target.kind = "kTick" /\ tick >= target.tick
     THEN report' = Report("kTargetReached", 0) /\ UNCHANGED run
     ELSE /\ tick + Budget(step_budget) <= MaxTick
          /\ LogEnd + Budget(step_budget) * MaxOutbox <= MaxStream
          /\ run' = [target |-> target, asked |-> step_budget, steps_run |-> 0]
          /\ UNCHANGED report
  /\ UNCHANGED <<events, log_origin, cursor, lost, next_reader_id, tick, step_events>>

HourFromTick(at) == at % kTicksPerDay

\* Only what this step put into the log counts, from `first_new` on.
TargetMet(target, at, log, first_new) ==
  CASE target.kind = "kTick"         -> at >= target.tick
    [] target.kind = "kNextSunrise"  -> HourFromTick(at) = SunriseHour
    [] target.kind = "kNextSunset"   -> HourFromTick(at) = SunsetHour
    [] target.kind = "kFirstEventOf" -> /\ target.event_kind # "kNone"
                                        /\ \E k \in (first_new + 1)..Len(log) :
                                             log[k].kind = target.event_kind

HasInterrupting(log, first_new) ==
  \E k \in (first_new + 1)..Len(log) : log[k].severity = "kInterrupting"

\* mutant: the limit is held first, and first_new is an index into what was
Bug_HeldLog(log) ==
  IF Len(log) <= event_log_held_limit THEN log
  ELSE SubSeq(log, Len(log) - event_log_held_limit + 1, Len(log))

\* Both questions are asked of the log as the step left it.
AskedLog(log) == log

\* The target is asked first.
RunStep(outbox) ==
  LET log         == AskedLog(events \o outbox)
      met         == TargetMet(run.target, tick + 1, log, Len(events))
      interrupted == ~met /\ HasInterrupting(log, Len(events))
      steps_run   == run.steps_run + 1
  IN
  /\ run # NoRun /\ ~Spent(run)
  /\ Stepped(outbox)
  /\ IF met \/ interrupted
     THEN /\ run' = NoRun
          /\ report' = Report(IF met THEN "kTargetReached" ELSE "kInterrupted", steps_run)
     ELSE run' = [run EXCEPT !.steps_run = steps_run] /\ UNCHANGED report

BudgetSpent ==
  /\ run # NoRun /\ Spent(run)
  /\ run' = NoRun
  /\ report' = Report("kBudgetSpent", run.steps_run)
  /\ UNCHANGED <<events, log_origin, cursor, lost, next_reader_id, tick, step_events>>

-----------------------------------------------------------------------------
\* The other calls on the log, between steps.
ReaderCall ==
  /\ run = NoRun
  /\ \/ \E r \in Open : \E count \in 0..(event_log_held_limit + 1) : AcknowledgeEvents(r, count)
     \/ OpenEventReader
     \/ \E r \in Open \ {Default} : CloseEventReader(r)
  /\ UNCHANGED <<tick, step_events, run, report>>

\* A save of any tick; its outbox is empty.
LoadWorld ==
  /\ run = NoRun
  /\ ReplaceWorld
  /\ tick' \in LoadTick
  /\ step_events' = <<>>
  /\ UNCHANGED <<run, report>>

FastNext ==
  \/ AdvanceStep
  \/ \E target \in Target : \E step_budget \in StepBudget : BeginAdvanceUntil(target, step_budget)
  \/ \E outbox \in Outbox : RunStep(outbox)
  \/ BudgetSpent
  \/ ReaderCall
  \/ LoadWorld

\* A call in progress is a loop that runs: its thread is not taken away.
FastSpec ==
  /\ FastInit
  /\ [][FastNext]_fvars
  /\ WF_fvars(\E outbox \in Outbox : RunStep(outbox))
  /\ WF_fvars(BudgetSpent)

-----------------------------------------------------------------------------
Interrupts(outbox) == \E k \in DOMAIN outbox : outbox[k].severity = "kInterrupting"

Reached(target, at, outbox) == TargetMet(target, at, outbox, 0)

GoesOnOrReports ==
  LET met         == Reached(run.target, tick', step_events')
      interrupted == Interrupts(step_events')
  IN
  IF run' # NoRun THEN ~met /\ ~interrupted
  ELSE \/ report'.outcome = "kTargetReached" /\ met
       \/ report'.outcome = "kInterrupted" /\ ~met /\ interrupted
       \/ /\ report'.outcome = "kBudgetSpent"
          /\ report'.steps_run = Budget(run.asked) /\ tick' = tick

\* A run goes on only past a step that neither met its target nor interrupted,
\* and says truly what ended it: the target first, whatever the readers' log
\* still holds of the step.
StopsRightly == [][run # NoRun => GoesOnOrReports]_fvars

\* No run is without a budget: an event nobody emits does not hang the caller.
RunEnds == run # NoRun ~> run = NoRun
=============================================================================
