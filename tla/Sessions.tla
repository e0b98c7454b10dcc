------------------------------- MODULE Sessions -------------------------------
(***************************************************************************)
(* Who may sign in, and the sessions that come of it: the count of failed  *)
(* passwords that locks a name, the login, the rows of user_sessions that  *)
(* make a token valid, logging out, changing a password and resetting it.  *)
(*                                                                         *)
(* Handlers run concurrently.  Each statement is a step of its own: none   *)
(* of these handlers opens a transaction.  A client that goes away, or the *)
(* time limit of the router, cancels a handler's context, and every later  *)
(* statement of it fails (Abandon).                                        *)
(*                                                                         *)
(* Time passes in ticks.  A failure is as many ticks old as have passed    *)
(* since; after Day ticks the code tells no difference.  When a session's  *)
(* time is over is left open.  The built-in admin, whose failures are not  *)
(* counted, is not one of the names.                                       *)
(***************************************************************************)
EXTENDS FiniteSets, Integers, Sequences

CONSTANTS
    Name,         \* user names people type, with or without an account
    Word,         \* passwords
    Jti,          \* session ids, random and never drawn twice
    Proc,         \* handlers that may run at the same time
    MaxFailures,  \* LoginMaxFailures of the base settings
    Lock,         \* LoginLockoutMinutes, in ticks
    Day,          \* the age after which a failure is purged, in ticks
    NoName, NoWord

ASSUME SessionsAssumption ==
    /\ NoName \notin Name /\ NoWord \notin Word
    /\ MaxFailures \in Nat \ {0} /\ Lock \in Nat \ {0} /\ Day \in Nat
    /\ Lock <= Day
    /\ IsFiniteSet(Proc) /\ Proc # {}

VARIABLES
    account,   \* what users and settings_user_profiles say of a name
    pass,      \* the stored password, and whether in an old form
    failures,  \* login_failure_log: the ages of a name's rows, oldest first
    session,   \* user_sessions: whose each session is, and what became of it
    req        \* where each handler is

sessionsVars == <<account, pass, failures, session, req>>

Age == 0..Day
Account == {"enabled", "disabled", "absent"}
LoginStep ==
    {"expired", "admitted", "failed", "purged", "rehash", "verified", "stored",
     "swept"}
ResetStep == {"resetting", "reset", "unlocked", "revoked"}
WordStep == {"expired", "admitted", "rehash", "changing", "resetting"}
Step == {"idle", "changing"} \cup LoginStep \cup ResetStep
Request ==
    [step : Step, user : Name \cup {NoName}, word : Word \cup {NoWord},
     enabled : BOOLEAN,     \* what the login read of the account
     throttled : BOOLEAN,   \* the login's failures count
     seen : SUBSET Jti]     \* sessions the user had when a reset replaced
                            \* the password: history, no code reads it
Idle ==
    [step |-> "idle", user |-> NoName, word |-> NoWord, enabled |-> FALSE,
     throttled |-> FALSE, seen |-> {}]
SessionState == {"undrawn", "live", "expired", "deleted"}

Stored(j) == session[j].state \in {"live", "expired"}
SessionsOf(u) == {j \in Jti : session[j].user = u /\ Stored(j)}

\* The newest failure decides: ensureLoginAllowed.
Locked(u) ==
    /\ Len(failures[u]) >= MaxFailures
    /\ failures[u][Len(failures[u])] < Lock

\* Handler p starts, goes on with what the password was needed for behind it, or
\* ends.
Begin(p, fields) == req[p].step = "idle" /\ req' = [req EXCEPT ![p] = fields]
Goto(p, step) ==
    req' = [req EXCEPT ![p].step = step, ![p].word = NoWord, ![p].enabled = FALSE]
End(p) == req' = [req EXCEPT ![p] = Idle]
At(p, step) == req[p].step = step

-----------------------------------------------------------------------------
SessionsInit ==
    /\ account \in [Name -> Account]
    /\ pass \in [Name -> [word : Word, legacy : BOOLEAN]]
    /\ failures = [u \in Name |-> <<>>]
    /\ session = [j \in Jti |-> [user |-> NoName, state |-> "undrawn"]]
    /\ req = [p \in Proc |-> Idle]

-----------------------------------------------------------------------------
\* Login.

Attempt(u, w, step) ==
    [Idle EXCEPT !.step = step, !.user = u, !.word = w, !.throttled = TRUE]

\* Mutants: the threshold is off by one; an attempt that is refused starts the
\* lock's time anew.
CountFailures_Past(p, u, w) ==
    /\ ~Locked(u)
    /\ Begin(p, Attempt(u, w,
                  IF Len(failures[u]) <= MaxFailures THEN "admitted" ELSE "expired"))
    /\ UNCHANGED <<account, pass, failures, session>>

CountFailures_Renews(p, u, w) ==
    \/ /\ Locked(u) /\ req[p].step = "idle"
       /\ failures' = [failures EXCEPT ![u][Len(failures[u])] = 0]
       /\ UNCHANGED <<account, pass, session, req>>
    \/ /\ ~Locked(u)
       /\ Begin(p, Attempt(u, w,
                     IF Len(failures[u]) < MaxFailures THEN "admitted" ELSE "expired"))
       /\ UNCHANGED <<account, pass, failures, session>>

\* The count of ensureLoginAllowed.  A locked name is refused: nothing changes.
CountFailures(p, u, w) ==
    /\ ~Locked(u)
    /\ Begin(p, Attempt(u, w,
                  IF Len(failures[u]) < MaxFailures THEN "admitted" ELSE "expired"))
    /\ UNCHANGED <<account, pass, failures, session>>

\* Its DELETE, for a lock that had ended when the failures were counted.
ForgetExpiredLock(p) ==
    /\ At(p, "expired")
    /\ failures' = [failures EXCEPT ![req[p].user] = <<>>]
    /\ req' = [req EXCEPT ![p].step = "admitted"]
    /\ UNCHANGED <<account, pass, session>>

\* FindAuthUser and VerifyPassword of a local login.
VerifyPassword(p) ==
    LET u == req[p].user IN
    /\ At(p, "admitted")
    /\ \/ /\ account[u] = "absent" \/ pass[u].word # req[p].word
          /\ Goto(p, "failed")
       \/ /\ account[u] # "absent" /\ pass[u].word = req[p].word
          /\ pass[u].legacy
          /\ req' = [req EXCEPT ![p].step = "rehash",
                                ![p].enabled = account[u] = "enabled"]
       \/ /\ account[u] = "enabled" /\ pass[u] = [word |-> req[p].word, legacy |-> FALSE]
          /\ Goto(p, "verified")
       \/ /\ account[u] = "disabled" /\ pass[u] = [word |-> req[p].word, legacy |-> FALSE]
          /\ End(p)
    /\ UNCHANGED <<account, pass, failures, session>>

\* UpdateAuthPassword: the word that was right when it was read is stored anew.
\* Then the account as it was read decides.
Rehash(p) ==
    LET u == req[p].user IN
    /\ At(p, "rehash")
    /\ pass' = IF account[u] = "absent" THEN pass
               ELSE [pass EXCEPT ![u] = [word |-> req[p].word, legacy |-> FALSE]]
    /\ IF req[p].enabled THEN Goto(p, "verified") ELSE End(p)
    /\ UNCHANGED <<account, failures, session>>

\* An LDAP login, whose password the directory accepted: no row of a name that
\* has none, or a disabled one, gets a session, and neither is a failure.
VerifyByDirectory(p) ==
    /\ At(p, "admitted")
    /\ IF account[req[p].user] = "enabled" THEN Goto(p, "verified") ELSE End(p)
    /\ UNCHANGED <<account, pass, failures, session>>

\* LoginByWecom: the member is bound to u.  Failures are neither counted nor
\* cleared.
VerifyByWecom(p, u) ==
    /\ account[u] = "enabled"
    /\ Begin(p, [Idle EXCEPT !.step = "verified", !.user = u])
    /\ UNCHANGED <<account, pass, failures, session>>

\* CreateSession, with a new id: which one does not matter.
FreshJti == CHOOSE j \in Jti : session[j].state = "undrawn"

StoreSession(p) ==
    /\ At(p, "verified")
    /\ \E j \in Jti : session[j].state = "undrawn"
    /\ session' = [session EXCEPT ![FreshJti] = [user |-> req[p].user, state |-> "live"]]
    /\ Goto(p, "stored")
    /\ UNCHANGED <<account, pass, failures>>

\* DeleteExpiredSessions.  After it the response is put together and the time of
\* the login is noted, which change nothing here.
SweepSessions(p) ==
    /\ At(p, "stored")
    /\ session' = [j \in Jti |->
                      IF session[j].state = "expired"
                      THEN [session[j] EXCEPT !.state = "deleted"] ELSE session[j]]
    /\ IF req[p].throttled THEN Goto(p, "swept") ELSE End(p)
    /\ UNCHANGED <<account, pass, failures>>

\* clearLoginFailures of handleLogin, and the answer.
ClearFailures(p) ==
    /\ At(p, "swept")
    /\ failures' = [failures EXCEPT ![req[p].user] = <<>>]
    /\ End(p)
    /\ UNCHANGED <<account, pass, session>>

\* recordLoginFailure, its purge.  Ages fall along a sequence: the oldest go.
Purged(ages) ==
    SubSeq(ages, 1 + Cardinality({i \in DOMAIN ages : ages[i] >= Day}), Len(ages))

PurgeFailures(p) ==
    /\ At(p, "failed")
    /\ failures' = [u \in Name |-> Purged(failures[u])]
    /\ Goto(p, "purged")
    /\ UNCHANGED <<account, pass, session>>

\* recordLoginFailure, its INSERT, and the answer.
RecordFailure(p) ==
    /\ At(p, "purged")
    /\ failures' = [failures EXCEPT ![req[p].user] = Append(@, 0)]
    /\ End(p)
    /\ UNCHANGED <<account, pass, session>>

-----------------------------------------------------------------------------
\* Sessions and passwords of those who are in.

\* handleLogout behind authMiddleware, which lets a live session in.
Logout(j) ==
    /\ session[j].state = "live"
    /\ session' = [session EXCEPT ![j].state = "deleted"]
    /\ UNCHANGED <<account, pass, failures, req>>

\* handleChangePassword up to HashPassword: a session lets the user in, the old
\* password is right.
BeginChange(p, u, old, w) ==
    /\ \E j \in Jti : session[j] = [user |-> u, state |-> "live"]
    /\ account[u] # "absent" /\ pass[u].word = old
    /\ Begin(p, [Idle EXCEPT !.step = "changing", !.user = u, !.word = w])
    /\ UNCHANGED <<account, pass, failures, session>>

\* UPDATE users SET pass, which may hit no row.
StorePassword(u, w) ==
    pass' = IF account[u] = "absent" THEN pass
            ELSE [pass EXCEPT ![u] = [word |-> w, legacy |-> FALSE]]

FinishChange(p) ==
    /\ At(p, "changing")
    /\ StorePassword(req[p].user, req[p].word)
    /\ End(p)
    /\ UNCHANGED <<account, failures, session>>

\* handlePasswordResetConfirm, whose token is good: PasswordReset says when.
BeginReset(p, u, w) ==
    /\ account[u] # "absent"
    /\ Begin(p, [Idle EXCEPT !.step = "resetting", !.user = u, !.word = w])
    /\ UNCHANGED <<account, pass, failures, session>>

ResetPassword(p) ==
    LET u == req[p].user IN
    /\ At(p, "resetting")
    /\ StorePassword(u, req[p].word)
    /\ req' = [req EXCEPT ![p].step = "reset", ![p].word = NoWord,
                          ![p].seen = SessionsOf(u)]
    /\ UNCHANGED <<account, failures, session>>

Unlock(p) ==
    /\ At(p, "reset")
    /\ failures' = [failures EXCEPT ![req[p].user] = <<>>]
    /\ Goto(p, "unlocked")
    /\ UNCHANGED <<account, pass, session>>

\* Mutant: the user's sessions are looked for among the expired ones.
RevokeSessions_Expired(p) ==
    /\ At(p, "unlocked")
    /\ session' = [j \in Jti |->
                      IF j \in SessionsOf(req[p].user) /\ session[j].state = "expired"
                      THEN [session[j] EXCEPT !.state = "deleted"] ELSE session[j]]
    /\ Goto(p, "revoked")
    /\ UNCHANGED <<account, pass, failures>>

RevokeSessions(p) ==
    /\ At(p, "unlocked")
    /\ session' = [j \in Jti |->
                      IF j \in SessionsOf(req[p].user)
                      THEN [session[j] EXCEPT !.state = "deleted"] ELSE session[j]]
    /\ Goto(p, "revoked")
    /\ UNCHANGED <<account, pass, failures>>

\* The token is marked used, the answer is written.
FinishReset(p) ==
    /\ At(p, "revoked")
    /\ End(p)
    /\ UNCHANGED <<account, pass, failures, session>>

-----------------------------------------------------------------------------
\* What goes on around them.

\* The context of p is cancelled: what is left of it fails.
Abandon(p) ==
    /\ req[p].step # "idle"
    /\ End(p)
    /\ UNCHANGED <<account, pass, failures, session>>

\* handleSettingsUserDisabled; Access has the rest of a user's life.
SetDisabled(u, disabled) ==
    /\ account[u] # "absent"
    /\ account' = [account EXCEPT ![u] = IF disabled THEN "disabled" ELSE "enabled"]
    /\ UNCHANGED <<pass, failures, session, req>>

Older(age) == IF age < Day THEN age + 1 ELSE Day

Tick ==
    /\ failures' = [u \in Name |->
                       [i \in DOMAIN failures[u] |-> Older(failures[u][i])]]
    /\ UNCHANGED <<account, pass, session, req>>

ExpireSession(j) ==
    /\ session[j].state = "live"
    /\ session' = [session EXCEPT ![j].state = "expired"]
    /\ UNCHANGED <<account, pass, failures, req>>

-----------------------------------------------------------------------------
LoginNext(p) ==
    \/ \E u \in Name, w \in Word : CountFailures(p, u, w)
    \/ ForgetExpiredLock(p) \/ VerifyPassword(p) \/ Rehash(p)
    \/ VerifyByDirectory(p) \/ (\E u \in Name : VerifyByWecom(p, u))
    \/ StoreSession(p) \/ SweepSessions(p) \/ ClearFailures(p)
    \/ PurgeFailures(p) \/ RecordFailure(p)

ResetNext(p) ==
    ResetPassword(p) \/ Unlock(p) \/ RevokeSessions(p) \/ FinishReset(p)

SessionsNext ==
    \/ \E p \in Proc :
          \/ LoginNext(p) \/ ResetNext(p) \/ Abandon(p) \/ FinishChange(p)
          \/ \E u \in Name, w \in Word :
                \/ BeginReset(p, u, w)
                \/ \E old \in Word : BeginChange(p, u, old, w)
    \/ \E j \in Jti : Logout(j) \/ ExpireSession(j)
    \/ \E u \in Name, disabled \in BOOLEAN : SetDisabled(u, disabled)
    \/ Tick

\* Nothing is assumed of the handlers, only that time passes.
SessionsSpec ==
    SessionsInit /\ [][SessionsNext]_sessionsVars /\ WF_sessionsVars(Tick)

-----------------------------------------------------------------------------
\* Every variable has its range, a handler that runs has a user, and one that may
\* still store a password has it.
SessionsTypeOK ==
    /\ account \in [Name -> Account]
    /\ pass \in [Name -> [word : Word, legacy : BOOLEAN]]
    /\ failures \in [Name -> Seq(Age)]
    /\ session \in [Jti -> [user : Name \cup {NoName}, state : SessionState]]
    /\ req \in [Proc -> Request]
    /\ \A p \in Proc : /\ req[p].step # "idle" => req[p].user \in Name
                       /\ req[p].step \in WordStep => req[p].word \in Word

\* However attempts interleave, a name never has more failures on record than
\* the threshold and the attempts that may be under way when it is reached.
FailuresBounded ==
    \A u \in Name : Len(failures[u]) < MaxFailures + Cardinality(Proc)

\* A lock ends: attempts made while it lasts do not prolong it.
LocksEnd == \A u \in Name : Locked(u) ~> ~Locked(u)

\* When a reset is about to answer, every session the user had at the moment
\* the password was replaced is gone, whoever logged in or out since.
ResetRevokes ==
    \A p \in Proc : req[p].step = "revoked" =>
        \A j \in req[p].seen : session[j].state = "deleted"
=============================================================================
