------------------------------ MODULE MCOperations ------------------------------
(***************************************************************************)
(* Four more components that share no state, in one run: a behaviour shows *)
(* the one chosen at its start, the others stand still.  Of the audit      *)
(* trail either the label presets are shown, or what else writes events    *)
(* and clears them.                                                        *)
(***************************************************************************)
EXTENDS Documents, Startup, Schedule, AuditTrail, TLC

CONSTANTS d1, d2, u1, u2, u3, p1, p2, s1, earlier, ours, red, green, w1, small, large

VARIABLE part

Parts == {"documents", "start", "schedule", "presets", "trail"}

MCOwner == {p1, p2}
MCDoc == {d1, d2}
MCUpload == {u1, u2, u3}
\* Owners of documents and handlers are the same two values.
MCSymmetry == Permutations({p1, p2}) \cup Permutations(MCDoc)

\* Startup: a file that the program before this one wrote, and three that this one wrote
\* earlier, at different ages and with every kind of bind password.
MCOrigin == {earlier, ours}
MCKey == {red, green}
MCBind == {w1}
MCAuditColumn == {"module", "result"}
Stored(has, settings, row, secret, key) ==
    [Blank("whole") EXCEPT !.origin = earlier, !.has = has, !.settings = settings, !.row = row,
                           !.secret = secret, !.key = key]
MCOldFile ==
    {Stored({"entrydate"}, "old", TRUE, NoBind, NoSigningKey),
     Stored(Brought \ {"sentat", "lastlogin", "color"}, "current", FALSE, NoBind, NoSigningKey),
     Stored(Brought \ {"lastlogin", "labelskip", "profiled"}, "current", TRUE,
            [word |-> w1, under |-> green], green),
     Stored(Brought \ {"lastlogin"}, "current", TRUE, [word |-> w1, under |-> "plain"], green)}
EnvFile(there, key) == [there |-> there, key |-> key]
MCLaunch ==
    {[flag |-> NoSigningKey, environment |-> NoSigningKey,
      files |-> <<EnvFile(FALSE, NoSigningKey), EnvFile(TRUE, k), EnvFile(TRUE, green)>>] :
        k \in {NoSigningKey, red}}
    \cup {[flag |-> NoSigningKey, environment |-> red, files |-> <<EnvFile(TRUE, green)>>]}
MCDrawn == {green}

\* Schedule: minute 0 of both hours, with a part that is no part; and every minute of hour 0.
Cron(minutes, hours) == <<minutes, hours>>
All == [kind |-> "all", lo |-> 0, hi |-> 0, step |-> 1]
Span(lo, hi, step) == [kind |-> "span", lo |-> lo, hi |-> hi, step |-> step]
Bad == [kind |-> "bad", lo |-> 0, hi |-> 0, step |-> 1]
PlanOf(on, cron, days) == [on |-> on, cron |-> cron, days |-> days]
MCFirstBase ==
    [brand |-> red, security |-> red, plan |-> PlanOf(FALSE, Cron({Span(0, 0, 1)}, {All}), 0)]
MCSaver == {s1}
MCLook == {red, green}
MCBaseForm ==
    {[section |-> "plan",
      base |-> [brand |-> red, security |-> red,
                plan |-> PlanOf(TRUE, Cron({Bad, [All EXCEPT !.step = 2]}, {Span(0, 1, 1)}), 1)]],
     [section |-> "plan",
      base |-> [brand |-> red, security |-> red, plan |-> PlanOf(TRUE, Cron({All}, {Span(0, 0, 1)}), 1)]]}

\* AuditTrail.
MCClerk == {p1, p2}
MCPresetName == {u1}
MCLayout == {small, large}

\* What the presets part chooses.
ASSUME OperationsAssumption == u1 \in PresetName /\ {small, large} \subseteq Layout

-----------------------------------------------------------------------------
OperationsInit ==
    /\ part \in Parts
    /\ Init /\ StartupInit /\ ScheduleInit /\ AuditTrailInit
    /\ part # "start" => dbFile = Blank("absent")

\* The first preset is small, what is saved later large.
PresetsPart ==
    \E p \in Clerk :
        \/ RecordEvent(p) \/ ApplyHistoryLimit(p) \/ ClerkFails(p)
        \/ FindPreset(p, u1, IF presets = <<>> THEN small ELSE large)
        \/ CreatePreset(p) \/ LoadPreset(p) \/ UpdatePreset(p)
        \/ (\E id \in 1..MaxPreset : NamePreset(p, id)) \/ DeletePreset(p)

TrailPart ==
    \/ \E p \in Clerk :
          \/ RecordEvent(p) \/ ApplyHistoryLimit(p) \/ ClerkFails(p)
          \/ OthersNext(p)
    \/ ListHistory

OperationsNext ==
    /\ UNCHANGED part
    /\ \/ part = "documents" /\ Next
          /\ UNCHANGED <<startupVars, scheduleVars, auditVars>>
       \/ part = "start" /\ StartupNext
          /\ UNCHANGED <<vars, scheduleVars, auditVars>>
       \/ part = "schedule" /\ ScheduleNext
          /\ UNCHANGED <<vars, startupVars, auditVars>>
       \/ ((part = "presets" /\ PresetsPart) \/ (part = "trail" /\ TrailPart))
          /\ UNCHANGED <<vars, startupVars, scheduleVars>>

OperationsSpec ==
    OperationsInit
    /\ [][OperationsNext]_<<part, vars, startupVars, scheduleVars, auditVars>>

\* Every variable of the part that moves has its range.
OperationsTypeOK ==
    /\ part = "documents" => TypeOK
    /\ part = "start" => StartupTypeOK
    /\ part = "schedule" => ScheduleTypeOK
    /\ part \in {"presets", "trail"} => AuditTrailTypeOK
=============================================================================
