-------------------------------- MODULE Schedule --------------------------------
(***************************************************************************)
(* The plan of backups and the scheduler that follows it.                  *)
(*                                                                         *)
(* The plan is a section of the base settings, one row that is read,       *)
(* merged with the section a form carries and written whole, with other    *)
(* saves in between.  The scheduler gets a tick three times a minute,      *)
(* takes dbMu to read the plan, takes it again for the backup, and removes *)
(* what is older than the plan keeps.  An import may hold dbMu for as long *)
(* as it takes; a ticker drops a tick that finds another one waiting.      *)
(*                                                                         *)
(* Time is counted in thirds of a minute.  A cron expression is a sequence *)
(* of fields, a field a set of parts; hours have HourLength minutes, days  *)
(* DayLength.                                                              *)
(***************************************************************************)
EXTENDS Integers, Sequences, FiniteSets

CONSTANTS
    Look,            \* what brand and security sections may hold
    Saver,           \* saves of the base settings that may run at the same time
    BaseForm,        \* what they may carry
    FirstBase,       \* the settings of a new database
    HourLength, DayLength, MaxThird, MaxDays,
    MaxImports       \* bounds the time and the imports

Part == [kind : {"all", "span", "bad"}, lo : Int, hi : Int, step : Int]
Plan == [on : BOOLEAN, cron : Seq(SUBSET Part), days : Int]
Base == [brand : Look, security : Look, plan : Plan]
FirstPlan == FirstBase.plan
Sections == {"brand", "security", "plan"}

ASSUME ScheduleAssumption ==
    /\ FirstBase \in Base /\ Len(FirstPlan.cron) = 2 /\ FirstPlan.days \in 0..MaxDays
    /\ {HourLength, DayLength, MaxDays} \subseteq Nat \ {0} /\ MaxThird \in Nat /\ MaxImports \in Nat
    /\ BaseForm \subseteq [section : Sections \cup {"all", "none"}, base : Base]

VARIABLES
    base,        \* the row of settings_base
    saving,      \* where each save is
    third,       \* the time
    tick,        \* whether the scheduler has a tick waiting
    scheduler,   \* where it is, the plan it read and the minute it saw
    lastRun,     \* the minute of its last attempt
    importing,   \* whether an import holds dbMu
    backups,     \* what lies in the directory of backups
    tried,       \* the minute of the last attempt that got as far as dbMu
    made,        \* backups that succeeded
    calm         \* whether nothing held the scheduler up or changed the plan this minute

scheduleVars == <<base, saving, third, tick, scheduler, lastRun, importing, backups,
                  tried, made, calm>>
clockVars == <<third, tick, scheduler, lastRun, backups, tried, made>>

Minute == third \div 3
NoMinute == -1
IdleSaver == [form |-> {}, row |-> {}]
Waiting == [step |-> "wait", plan |-> FirstPlan, minute |-> NoMinute]

ScheduleInit ==
    /\ base = FirstBase
    /\ saving = [p \in Saver |-> IdleSaver]
    /\ third = 0 /\ tick = FALSE /\ scheduler = Waiting /\ lastRun = NoMinute
    /\ importing = FALSE /\ backups = {} /\ tried = NoMinute /\ made = {} /\ calm = TRUE

-----------------------------------------------------------------------------
(* Cron expressions.                                                       *)

PartMatches(part, value, least, most) ==
    LET from == IF part.kind = "all" THEN least ELSE part.lo
        to == IF part.kind = "all" THEN most ELSE part.hi
    IN  /\ part.kind # "bad" /\ part.step > 0
        /\ from <= value /\ value <= to
        /\ (value - from) % part.step = 0

FieldMatches(field, value, least, most) ==
    \E part \in field : PartMatches(part, value, least, most)

\* Fields for the minute and for what is above it.
CronMatches(cron, minute) ==
    /\ Len(cron) = 2
    /\ FieldMatches(cron[1], minute % HourLength, 0, HourLength - 1)
    /\ FieldMatches(cron[2], minute \div HourLength, 0, MaxThird)

-----------------------------------------------------------------------------
(* Saves of the base settings.                                             *)

\* Settings that cannot be read are those of a new database.
ReadBase(p, form) ==
    /\ saving[p] = IdleSaver
    /\ \E row \in {base, FirstBase} :
          saving' = [saving EXCEPT ![p] = [form |-> {form}, row |-> {row}]]
    /\ UNCHANGED <<base, importing, calm, clockVars>>

\* The section of the form, what is not its own from the row.
Merged(row, form) ==
    IF form.section = "all" THEN form.base
    ELSE [row EXCEPT ![form.section] = form.base[form.section]]

\* Days below zero mean those of a new database.
NormalPlan(plan) == IF plan.days < 0 THEN [plan EXCEPT !.days = FirstPlan.days] ELSE plan

\* The row is written whole.  A section nobody knows, an expression of another
\* length and too many days are refused.
StoreBase(p) ==
    \E form \in saving[p].form, row \in saving[p].row :
        LET merged == Merged(row, form)
            new == [merged EXCEPT !.plan = NormalPlan(@)]
        IN  /\ form.section # "none" /\ Len(new.plan.cron) = 2 /\ new.plan.days <= MaxDays
            /\ base' = new /\ calm' = (calm /\ new.plan = base.plan)
            /\ saving' = [saving EXCEPT ![p] = IdleSaver]
            /\ UNCHANGED <<importing, clockVars>>

\* Refused, or the statement fails.
SaveBaseFails(p) ==
    /\ saving[p] # IdleSaver /\ saving' = [saving EXCEPT ![p] = IdleSaver]
    /\ UNCHANGED <<base, importing, calm, clockVars>>

-----------------------------------------------------------------------------
(* The scheduler.                                                          *)

At(step) == scheduler.step = step

\* A tick.  Time that passes while the scheduler is at work may cost it a minute.
PassThird ==
    LET next == (third + 1) \div 3 IN
    /\ third < MaxThird /\ third' = third + 1
    /\ tick' = TRUE
    /\ calm' = ((next # Minute \/ calm) /\ At("wait") /\ ~tick)
    /\ UNCHANGED <<base, saving, scheduler, lastRun, importing, backups, tried, made>>

\* The plan, read under dbMu.
ReadPlan ==
    /\ At("wait") /\ tick /\ ~importing
    /\ tick' = FALSE
    /\ scheduler' = [step |-> "look", plan |-> base.plan, minute |-> NoMinute]
    /\ UNCHANGED <<base, saving, third, lastRun, importing, backups, tried, made, calm>>

\* It cannot be read.
ReadPlanFails ==
    /\ At("wait") /\ tick /\ ~importing
    /\ tick' = FALSE /\ calm' = FALSE
    /\ scheduler' = [step |-> "look", plan |-> FirstPlan, minute |-> NoMinute]
    /\ UNCHANGED <<base, saving, third, lastRun, importing, backups, tried, made>>

\* Mutant: the minute without the hour.
Repeated_InAnotherHour == lastRun # NoMinute /\ Minute % HourLength = lastRun % HourLength

\* The minute of the last attempt, in full.
Repeated == Minute = lastRun

\* Not on, not now, or not again.
NothingDue ==
    /\ At("look")
    /\ ~scheduler.plan.on \/ Repeated \/ ~CronMatches(scheduler.plan.cron, Minute)
    /\ scheduler' = Waiting
    /\ UNCHANGED <<base, saving, third, tick, lastRun, importing, backups, tried, made, calm>>

\* The minute counts as run before dbMu is taken for the backup.
DueNow ==
    /\ At("look")
    /\ scheduler.plan.on /\ ~Repeated /\ CronMatches(scheduler.plan.cron, Minute)
    /\ scheduler' = [scheduler EXCEPT !.step = "due", !.minute = Minute]
    /\ lastRun' = Minute
    /\ UNCHANGED <<base, saving, third, tick, importing, backups, tried, made, calm>>

\* A file named by the time the scheduler saw.
Scheduled(whole) == [kind |-> "scheduled", at |-> scheduler.minute, whole |-> whole]

BackUpNow ==
    /\ At("due") /\ ~importing
    /\ backups' = backups \cup {Scheduled(TRUE)} /\ made' = made \cup {Scheduled(TRUE)}
    /\ scheduler' = [scheduler EXCEPT !.step = "clean"] /\ tried' = scheduler.minute
    /\ UNCHANGED <<base, saving, third, tick, lastRun, importing, calm>>

\* Mutant: what is too old goes all the same.
BackUpFails_CleansUp ==
    /\ At("due") /\ ~importing
    /\ backups' \in {backups, backups \cup {Scheduled(FALSE)}}
    /\ scheduler' = [scheduler EXCEPT !.step = "clean"] /\ tried' = scheduler.minute
    /\ UNCHANGED <<base, saving, third, tick, lastRun, importing, made, calm>>

\* It fails, perhaps with a part of the archive written, and nothing is cleaned up.
BackUpFails ==
    /\ At("due") /\ ~importing
    /\ backups' \in {backups, backups \cup {Scheduled(FALSE)}}
    /\ scheduler' = Waiting /\ tried' = scheduler.minute
    /\ UNCHANGED <<base, saving, third, tick, lastRun, importing, made, calm>>

\* Scheduled backups, told by their names, from before the days the plan keeps.
Expired(b, plan, minute) ==
    /\ b.kind = "scheduled" /\ plan.days > 0
    /\ b.at < minute - plan.days * DayLength

CleanUp ==
    /\ At("clean")
    /\ \E kept \in SUBSET {b \in backups : Expired(b, scheduler.plan, scheduler.minute)} :
          backups' = {b \in backups : ~Expired(b, scheduler.plan, scheduler.minute)} \cup kept
    /\ scheduler' = Waiting
    /\ UNCHANGED <<base, saving, third, tick, lastRun, importing, tried, made, calm>>

\* An import takes dbMu between the scheduler's uses, leaves a backup of its own and
\* may bring another plan.
BeginImport ==
    LET b == [kind |-> "import", at |-> Minute, whole |-> TRUE] IN
    /\ ~importing /\ importing' = TRUE
    /\ Cardinality({c \in made : c.kind = "import"}) < MaxImports
    /\ backups' = backups \cup {b} /\ made' = made \cup {b}
    /\ UNCHANGED <<base, saving, third, tick, scheduler, lastRun, tried, calm>>
EndImport ==
    /\ importing /\ importing' = FALSE
    /\ base' \in {base, [base EXCEPT !.plan = FirstPlan]}
    /\ calm' = (calm /\ base' = base)
    /\ UNCHANGED <<saving, third, tick, scheduler, lastRun, backups, tried, made>>

ScheduleNext ==
    \/ \E p \in Saver :
          (\E form \in BaseForm : ReadBase(p, form)) \/ StoreBase(p) \/ SaveBaseFails(p)
    \/ PassThird \/ ReadPlan \/ ReadPlanFails \/ NothingDue \/ DueNow \/ BackUpNow \/ BackUpFails \/ CleanUp
    \/ BeginImport \/ EndImport

ScheduleSpec == ScheduleInit /\ [][ScheduleNext]_scheduleVars

-----------------------------------------------------------------------------
MinutesSoFar == NoMinute..Minute

\* Every variable has its range; no minute is named that has not begun.
ScheduleTypeOK ==
    /\ base \in Base
    /\ saving \in [Saver -> [form : SUBSET BaseForm, row : SUBSET Base]]
    /\ third \in 0..MaxThird /\ tick \in BOOLEAN /\ importing \in BOOLEAN /\ calm \in BOOLEAN
    /\ scheduler \in [step : {"wait", "look", "due", "clean"}, plan : Plan, minute : MinutesSoFar]
    /\ lastRun \in MinutesSoFar
    /\ backups \subseteq [kind : {"scheduled", "import"}, at : MinutesSoFar, whole : BOOLEAN]
    /\ tried \in MinutesSoFar /\ made \subseteq [kind : {"scheduled", "import"}, at : MinutesSoFar, whole : {TRUE}]

\* When a minute ends that the stored plan asks for, and no tick of it met a scheduler at
\* work, waiting for an import or unable to read the plan, which is the same since it began,
\* the scheduler has tried a backup in it, whatever came in the minutes before.
DueMinutesTried ==
    [][Minute' # Minute /\ calm /\ At("wait") /\ ~tick /\ base.plan.on
          /\ CronMatches(base.plan.cron, Minute)
       => tried = Minute]_scheduleVars

\* However plans change, backups fail and imports come between: the newest complete backup
\* of the scheduler is there, and so is every backup an import made.
BackupsKept ==
    \A b \in made :
        \/ b \in backups
        \/ b.kind = "scheduled" /\ \E c \in backups \cap made : c.kind = b.kind /\ c.at > b.at
=============================================================================
