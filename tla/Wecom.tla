-------------------------------- MODULE Wecom --------------------------------
(***************************************************************************)
(* Signing in with WeCom.  A call turns the code of a scan into a member   *)
(* of the company, by an access token that the process keeps in a cache    *)
(* and every request may read, replace or drop; the member is then bound   *)
(* to a user, or the user bound to it is signed in (Sessions).             *)
(*                                                                         *)
(* The mutex of the cache is held for a read or a write of it only, never  *)
(* while WeCom is asked, so that calls overtake one another.  WeCom may    *)
(* revoke a token at any time; it is modelled by how wecom.go takes its    *)
(* answers.  The configuration, and with it the cache's key, stays.        *)
(***************************************************************************)
EXTENDS Sessions

CONSTANTS
    Key,       \* access tokens
    Member,    \* userids of WeCom
    NoKey, NoMember

ASSUME WecomAssumption == NoKey \notin Key /\ NoMember \notin Member

VARIABLES
    accepted,  \* the access tokens that WeCom takes
    cached,    \* wecomTokenCache
    binding,   \* settings_user_wecom
    call       \* where each exchange is

wecomVars == <<accepted, cached, binding, call>>

CallStep ==
    {"idle", "fetching", "storing", "asking", "dropping", "refetching",
     "insisting", "failing", "refused", "known", "binding"}
Call ==
    [step : CallStep, key : Key \cup {NoKey}, member : Member \cup {NoMember},
     user : Name \cup {NoName},   \* who binds; NoName: somebody signs in
     revoked : BOOLEAN]           \* the key was, since the call got it from
                                  \* WeCom or the cache: history
IdleCall ==
    [step |-> "idle", key |-> NoKey, member |-> NoMember, user |-> NoName,
     revoked |-> FALSE]

CallAt(p, step) == call[p].step = step
CallGoto(p, step) == call' = [call EXCEPT ![p].step = step]
CallEnd(p) == call' = [call EXCEPT ![p] = IdleCall]
Take(p, key, step) ==
    call' = [call EXCEPT ![p].key = key, ![p].step = step, ![p].revoked = FALSE]

WecomInit ==
    /\ SessionsInit
    /\ accepted = {}
    /\ cached = NoKey
    /\ binding = [u \in Name |-> NoMember]
    /\ call = [p \in Proc |-> IdleCall]

-----------------------------------------------------------------------------
\* Codes for members.

\* A callback begins: cachedAccessToken looks into the cache.  Who is NoName for a
\* login.
ReadCache(p, who) ==
    /\ CallAt(p, "idle") /\ req[p].step = "idle"
    /\ call' = [call EXCEPT ![p] =
                   [IdleCall EXCEPT !.user = who, !.key = cached,
                        !.step = IF cached = NoKey THEN "fetching" ELSE "asking"]]
    /\ UNCHANGED <<accepted, cached, binding>>

\* fetchAccessToken.  WeCom hands out a token it takes, an old or a new one.
FetchKey(p, key) ==
    /\ CallAt(p, "fetching") \/ CallAt(p, "refetching")
    /\ accepted' = accepted \cup {key}
    /\ Take(p, key, IF CallAt(p, "fetching") THEN "storing" ELSE "insisting")
    /\ UNCHANGED <<cached, binding>>

\* The end of cachedAccessToken: by now the cache may hold another one, and WeCom
\* may not take this one any more.
StoreKey(p) ==
    /\ CallAt(p, "storing")
    /\ cached' = call[p].key
    /\ CallGoto(p, "asking")
    /\ UNCHANGED <<accepted, binding>>

\* requestUserInfo, when WeCom takes the token and knows the code.
AskTaken(p, m) ==
    /\ CallAt(p, "asking") \/ CallAt(p, "insisting")
    /\ call[p].key \in accepted
    /\ call' = [call EXCEPT ![p].step = "known", ![p].member = m]
    /\ UNCHANGED <<accepted, cached, binding>>

\* requestUserInfo, when it does not: 40014 or 42001.
AskRefused(p) ==
    /\ CallAt(p, "asking") \/ CallAt(p, "insisting")
    /\ call[p].key \notin accepted
    /\ CallGoto(p, IF CallAt(p, "asking") THEN "dropping" ELSE "failing")
    /\ UNCHANGED <<accepted, cached, binding>>

\* Mutant: after the refusal the cache is asked first, as at the beginning.
DropKey_Rereads(p) ==
    /\ CallAt(p, "dropping") \/ CallAt(p, "failing")
    /\ IF CallAt(p, "failing") THEN CallGoto(p, "refused") /\ cached' = NoKey
       ELSE IF cached = NoKey \/ cached = call[p].key
       THEN CallGoto(p, "refetching") /\ cached' = NoKey
       ELSE /\ call' = [call EXCEPT ![p].key = cached, ![p].step = "insisting",
                                    ![p].revoked = FALSE]
            /\ UNCHANGED cached
    /\ UNCHANGED <<accepted, binding>>

\* The cache is emptied, whatever it holds by now.  exchangeCode then fetches a
\* token for itself, once, which nobody else gets to see.
DropKey(p) ==
    /\ CallAt(p, "dropping") \/ CallAt(p, "failing")
    /\ cached' = NoKey
    /\ CallGoto(p, IF CallAt(p, "dropping") THEN "refetching" ELSE "refused")
    /\ UNCHANGED <<accepted, binding>>

\* verifyWecomSSOTicket: the member comes from the single sign-on instead.
VerifyTicket(p, who, m) ==
    /\ CallAt(p, "idle") /\ req[p].step = "idle"
    /\ call' = [call EXCEPT ![p] =
                   [IdleCall EXCEPT !.user = who, !.member = m, !.step = "known"]]
    /\ UNCHANGED <<accepted, cached, binding>>

\* The call ends with an error: WeCom refused it or cannot be reached, the member
\* is bound to another user or to none, the context is cancelled.
CallFails(p) ==
    /\ ~CallAt(p, "idle")
    /\ CallEnd(p)
    /\ UNCHANGED <<accepted, cached, binding>>

\* The time of a cached token is over.
CacheExpires ==
    /\ cached # NoKey
    /\ cached' = NoKey
    /\ UNCHANGED <<accepted, binding, call>>

Revoke(key) ==
    /\ key \in accepted
    /\ accepted' = accepted \ {key}
    /\ call' = [p \in Proc |-> IF call[p].key = key
                               THEN [call[p] EXCEPT !.revoked = TRUE] ELSE call[p]]
    /\ UNCHANGED <<cached, binding>>

-----------------------------------------------------------------------------
\* Members for users.

BoundTo(m) == {u \in Name : binding[u] = m}

\* completeWecomLogin: FindAuthUserByWecom, and on with the session.
LoginBound(p) ==
    /\ CallAt(p, "known") /\ call[p].user = NoName
    /\ \E u \in BoundTo(call[p].member) : VerifyByWecom(p, u)
    /\ CallEnd(p)
    /\ UNCHANGED <<accepted, cached, binding>>

\* completeWecomBind, its SELECT.
BeginBind(p) ==
    /\ CallAt(p, "known") /\ call[p].user # NoName
    /\ BoundTo(call[p].member) \subseteq {call[p].user}
    /\ CallGoto(p, "binding")
    /\ UNCHANGED <<accepted, cached, binding>>

\* Its INSERT ... ON CONFLICT(user_id), which UNIQUE(wecom_userid) still stops.
FinishBind(p) ==
    /\ CallAt(p, "binding")
    /\ BoundTo(call[p].member) \subseteq {call[p].user}
    /\ binding' = [binding EXCEPT ![call[p].user] = call[p].member]
    /\ CallEnd(p)
    /\ UNCHANGED <<accepted, cached>>

\* handleWecomUnbind.
Unbind(u) ==
    /\ binding' = [binding EXCEPT ![u] = NoMember]
    /\ UNCHANGED <<accepted, cached, call>>

-----------------------------------------------------------------------------
ExchangeNext(p) ==
    \/ \E who \in Name \cup {NoName} :
          \/ ReadCache(p, who)
          \/ \E m \in Member : VerifyTicket(p, who, m)
    \/ \E key \in Key : FetchKey(p, key)
    \/ StoreKey(p) \/ AskRefused(p) \/ DropKey(p) \/ CallFails(p)
    \/ \E m \in Member : AskTaken(p, m)
    \/ BeginBind(p) \/ FinishBind(p)

\* The steps that are WeCom's alone.
WecomOwnNext ==
    \/ \E p \in Proc : ExchangeNext(p)
    \/ CacheExpires \/ (\E key \in Key : Revoke(key)) \/ (\E u \in Name : Unbind(u))

WecomNext ==
    \/ WecomOwnNext /\ UNCHANGED sessionsVars
    \/ \E p \in Proc : LoginBound(p)
    \/ SessionsNext /\ UNCHANGED wecomVars

WecomSpec == WecomInit /\ [][WecomNext]_<<sessionsVars, wecomVars>>

-----------------------------------------------------------------------------
\* Every variable has its range, and a call that asks has a token.
WecomTypeOK ==
    /\ accepted \subseteq Key
    /\ cached \in Key \cup {NoKey}
    /\ binding \in [Name -> Member \cup {NoMember}]
    /\ call \in [Proc -> Call]
    /\ \A p \in Proc :
          call[p].step \in {"storing", "asking", "insisting"} => call[p].key \in Key

\* What others leave in the cache fails nobody: a call gives up over its token
\* only if WeCom revoked the one it had just fetched for itself.
OwnKeyRefused ==
    \A p \in Proc :
        call[p].step \in {"failing", "refused"} => call[p].revoked
=============================================================================
