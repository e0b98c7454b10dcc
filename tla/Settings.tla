------------------------------- MODULE Settings -------------------------------
(***************************************************************************)
(* The settings with a secret in them: the directory (LDAP), WeCom, and    *)
(* the mail server for password resets.  A page never gets a secret to     *)
(* see, so that a save without one keeps what is stored.  For that it      *)
(* reads the row, mixes it with its form, looks whether all that is needed *)
(* is there, and writes the whole row, with other saves in between.        *)
(*                                                                         *)
(* What a kind of setting needs depends on its mode; only WeCom has more   *)
(* than one.  Of the fields of a mode it is kept whether all of them are   *)
(* filled.  Encryption is left out: a secret is whatever its ciphertext    *)
(* deciphers to.                                                           *)
(***************************************************************************)
CONSTANTS
    Kind, Mode,
    Directory, Post,   \* the kinds that are stored in a way of their own
    ModeAtFirst,       \* the mode of a kind that nobody has set yet
    Secret, NoSecret, NoMode,
    Page,              \* saves that may run at the same time
    Form               \* what they may carry

Secrets == [Mode -> Secret \cup {NoSecret}]
SettingRow == [on : BOOLEAN, mode : Mode, filled : SUBSET Mode, secret : Secrets]

ASSUME SettingsAssumption ==
    /\ Directory \in Kind /\ Post \in Kind
    /\ ModeAtFirst \in [Kind -> Mode]
    /\ NoSecret \notin Secret /\ NoMode \notin Mode
    /\ Form \subseteq [kind : Kind, on : BOOLEAN, clear : BOOLEAN, mode : Mode \cup {NoMode},
                       filled : SUBSET Mode, secret : Secrets]

VARIABLES
    setting,     \* settings, settings_auth_providers, settings_email
    listed,      \* what settings_auth_providers says of the directory
    page         \* where each save is

settingVars == <<setting, listed, page>>

NoSecrets == [m \in Mode |-> NoSecret]
Unset(k) == [on |-> FALSE, mode |-> ModeAtFirst[k], filled |-> {}, secret |-> NoSecrets]

PageState ==
    [step : {"idle", "read", "checked"}, form : SUBSET Form, row : SUBSET SettingRow]
IdlePage == [step |-> "idle", form |-> {}, row |-> {}]

FormOf(p) == CHOOSE f \in page[p].form : TRUE
RowOf(p) == CHOOSE r \in page[p].row : TRUE

SettingsInit ==
    /\ setting = [k \in Kind |-> Unset(k)]
    /\ listed = [on |-> FALSE, has |-> FALSE]
    /\ page = [p \in Page |-> IdlePage]

-----------------------------------------------------------------------------
\* A form with what was stored before.  To clear a mail server drops its fields
\* too; of the others it only drops the secrets.
Mixed(form, old) ==
    LET mode == IF form.mode = NoMode THEN old.mode ELSE form.mode
        secret == [m \in Mode |-> IF form.clear THEN NoSecret
                                  ELSE IF form.secret[m] = NoSecret THEN old.secret[m]
                                  ELSE form.secret[m]]
    IN  [on |-> form.on, mode |-> mode, secret |-> secret,
         filled |-> IF form.clear /\ form.kind = Post THEN {} ELSE form.filled]

\* What is to be in use has its fields and its secret.
Complete(row) == row.on => row.mode \in row.filled /\ row.secret[row.mode] # NoSecret

\* The first SELECT of a save.
ReadSetting(p, form) ==
    /\ page[p].step = "idle"
    /\ page' = [page EXCEPT ![p] = [step |-> "read", form |-> {form},
                                    row |-> {setting[form.kind]}]]
    /\ UNCHANGED <<setting, listed>>

CheckForm(p) ==
    LET row == Mixed(FormOf(p), RowOf(p)) IN
    /\ page[p].step = "read" /\ Complete(row)
    /\ page' = [page EXCEPT ![p].step = "checked", ![p].row = {row}]
    /\ UNCHANGED <<setting, listed>>

\* What is listed of a directory.
Listed(row) == [on |-> row.on, has |-> row.secret[row.mode] # NoSecret]

\* Mutant: the statement itself leaves a secret that the form does not have.
StoreSetting_Mixes(p) ==
    LET k == FormOf(p).kind
        row == Mixed(FormOf(p), [setting[k] EXCEPT !.mode = RowOf(p).mode])
    IN  /\ page[p].step = "checked"
        /\ setting' = [setting EXCEPT ![k] = row]
        /\ listed' = IF k = Directory THEN Listed(RowOf(p)) ELSE listed
        /\ page' = [page EXCEPT ![p] = IdlePage]

\* The UPDATE of the whole row; of the directory, of both tables in a transaction.
StoreSetting(p) ==
    LET k == FormOf(p).kind IN
    /\ page[p].step = "checked"
    /\ setting' = [setting EXCEPT ![k] = RowOf(p)]
    /\ listed' = IF k = Directory THEN Listed(RowOf(p)) ELSE listed
    /\ page' = [page EXCEPT ![p] = IdlePage]

\* The form is refused, or a statement fails.
SaveFails(p) ==
    /\ page[p].step # "idle"
    /\ page' = [page EXCEPT ![p] = IdlePage]
    /\ UNCHANGED <<setting, listed>>

SettingsNext ==
    \E p \in Page :
        \/ \E form \in Form : ReadSetting(p, form)
        \/ CheckForm(p) \/ StoreSetting(p) \/ SaveFails(p)

SettingsSpec == SettingsInit /\ [][SettingsNext]_settingVars

-----------------------------------------------------------------------------
\* Every variable has its range, and a save under way its form and its row.
SettingsTypeOK ==
    /\ setting \in [Kind -> SettingRow]
    /\ listed \in [on : BOOLEAN, has : BOOLEAN]
    /\ page \in [Page -> PageState]
    /\ \A p \in Page : page[p].step # "idle" =>
          \E form \in Form, row \in SettingRow : page[p].form = {form} /\ page[p].row = {row}

\* Though a save takes its secret from a row that others have cleared since, what is
\* in use is never without the secret of its mode, and the list of providers never
\* says anything else of the directory than the settings do.
EnabledComplete ==
    /\ \A k \in Kind : Complete(setting[k])
    /\ listed = Listed(setting[Directory])
=============================================================================
