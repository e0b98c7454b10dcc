---------------------------- MODULE PasswordReset ----------------------------
(***************************************************************************)
(* How a forgotten password is replaced: a captcha buys a token for an     *)
(* account, the token has a code mailed to the account's address, token    *)
(* and code set a new password.  Composed with Sessions, where the last of *)
(* these handlers does its work.                                           *)
(*                                                                         *)
(* Nothing here runs in a transaction.  Captcha, token and the log of what *)
(* was mailed are looked at in one statement and changed in another, with  *)
(* the mail server in between.                                             *)
(*                                                                         *)
(* A row of the log that is older than the window is never counted again   *)
(* and is left out; deleting such rows is then nothing to see.  Captchas   *)
(* and tokens run out, and the pause between two mails ends, at any time.  *)
(* Each account is local and has an address of its own.                    *)
(***************************************************************************)
EXTENDS Sessions

CONSTANTS
    Captcha, Token,   \* random ids, never drawn twice
    Flow,             \* verify and send handlers that may run at once
    MaxSends,         \* defaultResetRateLimitMax
    Window,           \* PasswordResetRateLimitMinutes, in ticks
    NoCaptcha, NoToken, NoRow

\* A row of password_reset_requests.
TokenRow ==
    [user : Name, sent : BOOLEAN, used : BOOLEAN, expired : BOOLEAN, pausing : BOOLEAN]

ASSUME PasswordResetAssumption ==
    /\ NoCaptcha \notin Captcha /\ NoToken \notin Token /\ NoRow \notin TokenRow
    /\ MaxSends \in Nat \ {0} /\ Window \in Nat \ {0}
    /\ IsFiniteSet(Flow) /\ Flow # {}

VARIABLES
    captcha,   \* password_reset_captchas: what may be answered
    token,     \* password_reset_requests
    sends,     \* password_reset_send_log: ages of an account's rows, oldest first
    flow,      \* where each verify or send handler is
    spending,  \* the token each confirmation came with
    answers    \* confirmations answered with each token: history, no code reads it

resetVars == <<captcha, token, sends, flow, spending, answers>>
passwordResetVars == <<sessionsVars, resetVars>>

IdleFlow == [step |-> "idle", user |-> NoName, captcha |-> NoCaptcha, token |-> NoToken]
FlowStep == {"idle", "solved", "consumed", "checked", "allowed", "noted"}
FlowRequest ==
    [step : FlowStep, user : Name \cup {NoName},
     captcha : Captcha \cup {NoCaptcha}, token : Token \cup {NoToken}]

Usable(t) == token[t] # NoRow /\ ~token[t].used /\ ~token[t].expired

FlowAt(f, step) == flow[f].step = step
FlowGoto(f, step) == flow' = [flow EXCEPT ![f].step = step]
FlowEnd(f) == flow' = [flow EXCEPT ![f] = IdleFlow]

PasswordResetInit ==
    /\ SessionsInit
    /\ captcha = [c \in Captcha |-> "undrawn"]
    /\ token = [t \in Token |-> NoRow]
    /\ sends = [u \in Name |-> <<>>]
    /\ flow = [f \in Flow |-> IdleFlow]
    /\ spending = [p \in Proc |-> NoToken]
    /\ answers = [t \in Token |-> 0]

-----------------------------------------------------------------------------
\* Captcha and token.

\* handlePasswordResetCaptcha; what it deletes has run out.
IssueCaptcha(c) ==
    /\ captcha[c] = "undrawn"
    /\ captcha' = [captcha EXCEPT ![c] = "live"]
    /\ UNCHANGED <<token, sends, flow, spending, answers>>

\* handlePasswordResetVerify up to the right answer.
SolveCaptcha(f, c, u) ==
    /\ FlowAt(f, "idle") /\ captcha[c] = "live"
    /\ flow' = [flow EXCEPT ![f] =
                   [step |-> "solved", user |-> u, captcha |-> c, token |-> NoToken]]
    /\ UNCHANGED <<captcha, token, sends, spending, answers>>

\* Its DELETE.
ConsumeCaptcha(f) ==
    /\ FlowAt(f, "solved")
    /\ captcha' = [captcha EXCEPT ![flow[f].captcha] = "gone"]
    /\ FlowGoto(f, "consumed")
    /\ UNCHANGED <<token, sends, spending, answers>>

\* The rest of handlePasswordResetVerify: an enabled account gets a token.
CreateToken(f, t) ==
    /\ FlowAt(f, "consumed")
    /\ account[flow[f].user] = "enabled" /\ token[t] = NoRow
    /\ token' = [token EXCEPT ![t] =
                    [user |-> flow[f].user, sent |-> FALSE, used |-> FALSE,
                     expired |-> FALSE, pausing |-> FALSE]]
    /\ FlowEnd(f)
    /\ UNCHANGED <<captcha, sends, spending, answers>>

-----------------------------------------------------------------------------
\* handlePasswordResetSend.

\* The token is good and its last mail long enough ago.
BeginSend(f, t) ==
    /\ FlowAt(f, "idle") /\ Usable(t) /\ ~token[t].pausing
    /\ flow' = [flow EXCEPT ![f] = [step |-> "checked", user |-> token[t].user,
                                    captcha |-> NoCaptcha, token |-> t]]
    /\ UNCHANGED <<captcha, token, sends, spending, answers>>

\* Mutant: what was sent is only counted for the threshold afterwards.
CountSends_Anyway(f) ==
    /\ FlowAt(f, "checked")
    /\ FlowGoto(f, "allowed")
    /\ UNCHANGED <<captcha, token, sends, spending, answers>>

\* ensureResetCodeSendAllowed; over the threshold the handler ends.
CountSends(f) ==
    /\ FlowAt(f, "checked")
    /\ IF Len(sends[flow[f].user]) < MaxSends THEN FlowGoto(f, "allowed")
       ELSE FlowEnd(f)
    /\ UNCHANGED <<captcha, token, sends, spending, answers>>

\* The mail went out, which took its time: the code is stored, the token lives
\* longer, whatever became of it meanwhile.
RememberCode(f) ==
    /\ FlowAt(f, "allowed")
    /\ token' = [token EXCEPT ![flow[f].token].sent = TRUE,
                              ![flow[f].token].expired = FALSE,
                              ![flow[f].token].pausing = TRUE]
    /\ FlowGoto(f, "noted")
    /\ UNCHANGED <<captcha, sends, spending, answers>>

\* recordResetCodeSent, and the answer.
LogSend(f) ==
    /\ FlowAt(f, "noted")
    /\ sends' = [sends EXCEPT ![flow[f].user] = Append(@, 0)]
    /\ FlowEnd(f)
    /\ UNCHANGED <<captcha, token, spending, answers>>

\* A statement or the mail fails, the context is cancelled, or the account is no
\* longer one that may go on.
FlowFails(f) ==
    /\ ~FlowAt(f, "idle")
    /\ FlowEnd(f)
    /\ UNCHANGED <<captcha, token, sends, spending, answers>>

-----------------------------------------------------------------------------
\* handlePasswordResetConfirm around what Sessions says of it.

ConfirmToken(p, t, w) ==
    /\ Usable(t) /\ token[t].sent
    /\ BeginReset(p, token[t].user, w)
    /\ spending' = [spending EXCEPT ![p] = t]
    /\ UNCHANGED <<captcha, token, sends, flow, answers>>

\* Mutant: the token is not marked.
SpendToken_Leaves(p) ==
    /\ FinishReset(p)
    /\ answers' = [answers EXCEPT ![spending[p]] = @ + 1]
    /\ spending' = [spending EXCEPT ![p] = NoToken]
    /\ UNCHANGED <<captcha, token, sends, flow>>

SpendToken(p) ==
    /\ FinishReset(p)
    /\ token' = [token EXCEPT ![spending[p]].used = TRUE]
    /\ answers' = [answers EXCEPT ![spending[p]] = @ + 1]
    /\ spending' = [spending EXCEPT ![p] = NoToken]
    /\ UNCHANGED <<captcha, sends, flow>>

\* Abandon of Sessions, for a confirmation too: the token stays as it is.
AbandonConfirmation(p) ==
    /\ Abandon(p)
    /\ spending' = [spending EXCEPT ![p] = NoToken]
    /\ UNCHANGED <<captcha, token, sends, flow, answers>>

-----------------------------------------------------------------------------
\* Time.

\* Mutant: the rows are counted without the window.
Aged_Everything(ages) == [i \in DOMAIN ages |-> ages[i] + 1]

\* A row leaves the window: counted as gone.
Aged(ages) ==
    SubSeq([i \in DOMAIN ages |-> ages[i] + 1],
           1 + Cardinality({i \in DOMAIN ages : ages[i] + 1 >= Window}), Len(ages))

TickBoth ==
    /\ Tick
    /\ sends' = [u \in Name |-> Aged(sends[u])]
    /\ token' = [t \in Token |-> IF token[t] = NoRow THEN NoRow
                                 ELSE [token[t] EXCEPT !.pausing = FALSE]]
    /\ UNCHANGED <<captcha, flow, spending, answers>>

RunOut ==
    /\ \/ \E c \in Captcha : /\ captcha[c] = "live"
                             /\ captcha' = [captcha EXCEPT ![c] = "gone"]
                             /\ UNCHANGED token
       \/ \E t \in Token : /\ token[t] # NoRow
                           /\ token' = [token EXCEPT ![t].expired = TRUE]
                           /\ UNCHANGED captcha
    /\ UNCHANGED <<sends, flow, spending, answers>>

-----------------------------------------------------------------------------
FlowNext ==
    \/ \E c \in Captcha : IssueCaptcha(c)
    \/ \E f \in Flow :
          \/ \E c \in Captcha, u \in Name : SolveCaptcha(f, c, u)
          \/ \E t \in Token : CreateToken(f, t) \/ BeginSend(f, t)
          \/ ConsumeCaptcha(f) \/ CountSends(f) \/ RememberCode(f) \/ LogSend(f)
          \/ FlowFails(f)
    \/ RunOut

ConfirmNext(p, w) ==
    \/ \E t \in Token : ConfirmToken(p, t, w)
    \/ SpendToken(p) \/ AbandonConfirmation(p)
    \/ /\ ResetPassword(p) \/ Unlock(p) \/ RevokeSessions(p)
       /\ UNCHANGED resetVars

\* The handlers of this module and the clock.
ResetHandlersNext ==
    \/ FlowNext /\ UNCHANGED sessionsVars
    \/ \E p \in Proc, w \in Word : ConfirmNext(p, w)
    \/ TickBoth

\* Those, with everybody else's logins and sessions.
PasswordResetNext ==
    \/ ResetHandlersNext
    \/ /\ \/ \E p \in Proc : \/ LoginNext(p) \/ FinishChange(p)
                             \/ \E u \in Name, old, w \in Word : BeginChange(p, u, old, w)
          \/ \E j \in Jti : Logout(j) \/ ExpireSession(j)
          \/ \E u \in Name, disabled \in BOOLEAN : SetDisabled(u, disabled)
       /\ UNCHANGED resetVars

PasswordResetSpec == PasswordResetInit /\ [][PasswordResetNext]_passwordResetVars

-----------------------------------------------------------------------------
\* Every variable has its range, and a confirmation that runs has a token.
PasswordResetTypeOK ==
    /\ SessionsTypeOK
    /\ captcha \in [Captcha -> {"undrawn", "live", "gone"}]
    /\ token \in [Token -> TokenRow \cup {NoRow}]
    /\ sends \in [Name -> Seq(0..Window)]
    /\ flow \in [Flow -> FlowRequest]
    /\ spending \in [Proc -> Token \cup {NoToken}]
    /\ answers \in [Token -> Nat]
    /\ \A p \in Proc : req[p].step \in ResetStep => spending[p] # NoToken

\* However sends interleave with one another and with the mail server, an address
\* has fewer rows in the window than the limit and the handlers under way.
SendsBounded ==
    \A u \in Name : Len(sends[u]) < MaxSends + Cardinality(Flow)

\* A token is answered by confirmations that ran at the same time at most: not
\* by one that began after another's answer.
TokenAnswersFew == \A t \in Token : answers[t] <= Cardinality(Proc)
=============================================================================
