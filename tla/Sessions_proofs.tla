--------------------------- MODULE Sessions_proofs ---------------------------
(***************************************************************************)
(* Sessions, and what is composed with it, for any names, passwords and    *)
(* numbers of handlers.  That the failures on record are bounded needs the *)
(* attempts that may still add one: those that were let past the count.    *)
(* The mails of an address and the answers of a token are counted alike;   *)
(* every step of the reset is one of Sessions or leaves its variables      *)
(* alone, so that what is proved of Sessions holds there too.              *)
(***************************************************************************)
EXTENDS PasswordReset, Wecom, NaturalFacts, SequenceTheorems

USE SessionsAssumption

\* Attempts on u that were let in and may yet record a failure.
InFlight(u) ==
    {p \in Proc : req[p].user = u /\ req[p].step \in {"admitted", "failed", "purged"}}

Counted ==
    \A u \in Name :
        Len(failures[u]) + Cardinality(InFlight(u)) < MaxFailures + Cardinality(Proc)

\* What a reset saw are sessions of its user, and gone once it revoked them.
SeenSessions ==
    \A p \in Proc : \A j \in req[p].seen :
        /\ req[p].step \in {"reset", "unlocked"} =>
              session[j].user = req[p].user /\ session[j].state # "undrawn"
        /\ req[p].step = "revoked" => session[j].state = "deleted"

SessionsInv == SessionsTypeOK /\ Counted /\ SeenSessions

-----------------------------------------------------------------------------
\* A purge leaves a sequence of ages, no longer than it was.
LEMMA PurgedType ==
    ASSUME NEW ages \in Seq(Age)
    PROVE  Purged(ages) \in Seq(Age) /\ Len(Purged(ages)) <= Len(ages)
<1> DEFINE old == {i \in DOMAIN ages : ages[i] >= Day}
<1>1. Len(ages) \in Nat /\ DOMAIN ages = 1 .. Len(ages)
  BY LenProperties
<1>2. IsFiniteSet(old) /\ Cardinality(old) \in Nat
  <2>1. old \subseteq 1 .. Len(ages)
    BY <1>1
  <2> HIDE DEF old
  <2>2. IsFiniteSet(1 .. Len(ages))
    BY <1>1, FS_Interval
  <2>3. IsFiniteSet(old)
    BY <2>1, <2>2, FS_Subset
  <2> QED
    BY <2>3, FS_CardinalityType
<1>3. \A i \in 1 + Cardinality(old) .. Len(ages) : ages[i] \in Age
  BY <1>1, <1>2, ElementOfSeq
<1> HIDE DEF old
<1>4. /\ SubSeq(ages, 1 + Cardinality(old), Len(ages)) \in Seq(Age)
      /\ Len(SubSeq(ages, 1 + Cardinality(old), Len(ages))) <= Len(ages)
  BY <1>1, <1>2, <1>3, SubSeqProperties
<1> QED
  BY <1>4 DEF Purged, old

\* A tick makes every age of a sequence older.
LEMMA OlderType ==
    ASSUME NEW ages \in Seq(Age)
    PROVE  /\ [i \in DOMAIN ages |-> Older(ages[i])] \in Seq(Age)
           /\ Len([i \in DOMAIN ages |-> Older(ages[i])]) = Len(ages)
<1>1. Len(ages) \in Nat /\ DOMAIN ages = 1 .. Len(ages)
  BY LenProperties
<1>2. \A i \in 1 .. Len(ages) : Older(ages[i]) \in Age
  BY ElementOfSeq DEF Age, Older
<1> QED
  BY <1>1, <1>2

\* The attempts in flight are some of the handlers.
LEMMA InFlightFinite ==
    /\ Cardinality(Proc) \in Nat \ {0}
    /\ \A u : /\ IsFiniteSet(InFlight(u)) /\ Cardinality(InFlight(u)) \in Nat
              /\ Cardinality(InFlight(u)) <= Cardinality(Proc)
    /\ \A u : /\ IsFiniteSet(InFlight(u)') /\ Cardinality(InFlight(u)') \in Nat
              /\ Cardinality(InFlight(u)') <= Cardinality(Proc)
<1>1. Cardinality(Proc) \in Nat \ {0}
  BY FS_CardinalityType, FS_EmptySet
<1>2. ASSUME NEW S \in SUBSET Proc
      PROVE  IsFiniteSet(S) /\ Cardinality(S) \in Nat /\ Cardinality(S) <= Cardinality(Proc)
  BY FS_Subset, FS_CardinalityType
<1>3. \A u : InFlight(u) \in SUBSET Proc /\ InFlight(u)' \in SUBSET Proc
  BY DEF InFlight
<1> QED
  BY <1>1, <1>2, <1>3

\* A step with which nothing grows keeps the count.
LEMMA CountedShrinks ==
    ASSUME SessionsTypeOK, SessionsTypeOK', Counted,
           \A u \in Name : /\ Len(failures'[u]) <= Len(failures[u])
                           /\ InFlight(u)' \subseteq InFlight(u)
    PROVE  Counted'
<1> SUFFICES ASSUME NEW u \in Name
             PROVE  Len(failures'[u]) + Cardinality(InFlight(u)')
                        < MaxFailures + Cardinality(Proc)
  BY DEF Counted
<1>1. Cardinality(InFlight(u)') <= Cardinality(InFlight(u))
  BY InFlightFinite, FS_Subset
<1>2. Len(failures'[u]) \in Nat /\ Len(failures[u]) \in Nat
  BY LenProperties DEF SessionsTypeOK
<1> HIDE DEF InFlight
<1> QED
  BY <1>1, <1>2, InFlightFinite DEF Counted

-----------------------------------------------------------------------------
\* What TypeOK says of the handlers.
ReqOK ==
    /\ req \in [Proc -> Request]
    /\ \A p \in Proc : /\ req[p].step # "idle" => req[p].user \in Name
                       /\ req[p].step \in WordStep => req[p].word \in Word

DataOK ==
    /\ account \in [Name -> Account]
    /\ pass \in [Name -> [word : Word, legacy : BOOLEAN]]
    /\ failures \in [Name -> Seq(Age)]
    /\ session \in [Jti -> [user : Name \cup {NoName}, state : SessionState]]

LEMMA TypeParts ==
    /\ SessionsTypeOK <=> (DataOK /\ ReqOK)
    /\ SessionsTypeOK' <=> (DataOK' /\ ReqOK')
BY DEF SessionsTypeOK, DataOK, ReqOK

LEMMA IdleType == Idle \in Request
BY DEF Idle, Request, Step

LEMMA GotoType ==
    ASSUME ReqOK, NEW p \in Proc, req[p].step # "idle",
           NEW step \in Step \ WordStep, Goto(p, step)
    PROVE  ReqOK'
<1>1. [req[p] EXCEPT !.step = step, !.word = NoWord, !.enabled = FALSE] \in Request
  BY DEF ReqOK, Request
<1> QED
  BY <1>1 DEF ReqOK, Goto, Request

LEMMA EndType ==
    ASSUME ReqOK, NEW p \in Proc, End(p) PROVE ReqOK'
BY IdleType DEF ReqOK, End, Idle, WordStep

LEMMA BeginType ==
    ASSUME ReqOK, NEW p \in Proc, NEW fields \in Request, fields.user \in Name,
           fields.step \in WordStep => fields.word \in Word, Begin(p, fields)
    PROVE  ReqOK'
BY DEF ReqOK, Begin

-----------------------------------------------------------------------------
LEMMA InitInv == SessionsInit => SessionsInv
<1> SUFFICES ASSUME SessionsInit PROVE SessionsInv
  OBVIOUS
<1>1. SessionsTypeOK
  BY DEF SessionsInit, SessionsTypeOK, Idle, Request, Step, SessionState, Age, WordStep
<1>2. \A u \in Name : InFlight(u) = {}
  BY DEF SessionsInit, InFlight, Idle
<1>3. Counted
  BY <1>2, FS_EmptySet, InFlightFinite DEF SessionsInit, Counted
<1>4. SeenSessions
  BY DEF SessionsInit, SeenSessions, Idle
<1> QED
  BY <1>1, <1>3, <1>4 DEF SessionsInv

\* Type correctness, action by action.
LEMMA TypeStep ==
    ASSUME SessionsTypeOK, SessionsNext PROVE SessionsTypeOK'
<1> USE DEF At
<1>0. DataOK /\ ReqOK /\ (DataOK' /\ ReqOK' => SessionsTypeOK')
  BY TypeParts
<1>u. \A p \in Proc : /\ req[p] \in Request
                      /\ req[p].step # "idle" => req[p].user \in Name
                      /\ req[p].step \in WordStep => req[p].word \in Word
  BY <1>0 DEF ReqOK
<1>s. /\ Step = {"idle", "changing", "expired", "admitted", "failed", "purged", "rehash",
                 "verified", "stored", "swept", "resetting", "reset", "unlocked", "revoked"}
      /\ WordStep = {"expired", "admitted", "rehash", "changing", "resetting"}
  BY DEF Step, LoginStep, ResetStep, WordStep
<1>1. ASSUME NEW p \in Proc, NEW u \in Name, NEW w \in Word, CountFailures(p, u, w)
      PROVE  SessionsTypeOK'
  <2>1. Attempt(u, w, "admitted") \in Request /\ Attempt(u, w, "expired") \in Request
    BY DEF Attempt, Idle, Request, Step, LoginStep
  <2>2. /\ Attempt(u, w, "admitted").user = u /\ Attempt(u, w, "expired").user = u
        /\ Attempt(u, w, "admitted").word = w /\ Attempt(u, w, "expired").word = w
    BY DEF Attempt, Idle
  <2>3. ReqOK'
    BY <1>0, <1>1, <2>1, <2>2, BeginType DEF CountFailures
  <2> QED
    BY <1>0, <1>1, <2>3 DEF CountFailures, DataOK
<1>2. ASSUME NEW p \in Proc, ForgetExpiredLock(p) PROVE SessionsTypeOK'
  <2>1. [req[p] EXCEPT !.step = "admitted"] \in Request
    BY <1>u, <1>s DEF Request
  <2>2. ReqOK'
    BY <1>0, <1>u, <1>s, <1>2, <2>1 DEF ForgetExpiredLock, ReqOK, Request
  <2>3. DataOK'
    <3>1. req[p].user \in Name
      BY <1>u, <1>2 DEF ForgetExpiredLock
    <3>2. failures' = [failures EXCEPT ![req[p].user] = <<>>]
      BY <1>2 DEF ForgetExpiredLock
    <3>3. UNCHANGED <<account, pass, session>>
      BY <1>2 DEF ForgetExpiredLock
    <3> QED
      BY <1>0, <3>1, <3>2, <3>3 DEF DataOK
  <2> QED
    BY <1>0, <2>2, <2>3
<1>3. ASSUME NEW p \in Proc, VerifyPassword(p) PROVE SessionsTypeOK'
  <2>1. [req[p] EXCEPT !.step = "rehash", !.enabled = account[req[p].user] = "enabled"]
            \in Request
    BY <1>u, <1>s DEF Request
  <2>2. ReqOK'
    <3>1. CASE Goto(p, "failed") \/ Goto(p, "verified")
      BY <1>0, <1>s, <1>3, <3>1, GotoType DEF VerifyPassword
    <3>2. CASE End(p)
      BY <1>0, <3>2, EndType
    <3>3. CASE req' = [req EXCEPT ![p].step = "rehash",
                                  ![p].enabled = account[req[p].user] = "enabled"]
      BY <1>0, <1>u, <1>s, <1>3, <2>1, <3>3 DEF VerifyPassword, ReqOK, Request
    <3> QED
      BY <1>3, <3>1, <3>2, <3>3 DEF VerifyPassword
  <2> QED
    BY <1>0, <1>3, <2>2 DEF VerifyPassword, DataOK
<1>4. ASSUME NEW p \in Proc, Rehash(p) PROVE SessionsTypeOK'
  <2>1. ReqOK'
    BY <1>0, <1>s, <1>4, GotoType, EndType DEF Rehash
  <2>2. req[p].user \in Name /\ req[p].word \in Word
    BY <1>4, <1>u, <1>s DEF Rehash
  <2> QED
    BY <1>0, <1>4, <2>1, <2>2 DEF Rehash, DataOK
<1>5. ASSUME NEW p \in Proc, VerifyByDirectory(p) PROVE SessionsTypeOK'
  <2>1. ReqOK'
    BY <1>0, <1>s, <1>5, GotoType, EndType DEF VerifyByDirectory
  <2> QED
    BY <1>0, <1>5, <2>1 DEF VerifyByDirectory, DataOK
<1>6. ASSUME NEW p \in Proc, NEW u \in Name, VerifyByWecom(p, u)
      PROVE  SessionsTypeOK'
  <2>1. /\ [Idle EXCEPT !.step = "verified", !.user = u] \in Request
        /\ [Idle EXCEPT !.step = "verified", !.user = u].user = u
        /\ [Idle EXCEPT !.step = "verified", !.user = u].step \notin WordStep
    BY <1>s DEF Idle, Request
  <2>2. ReqOK'
    BY <1>0, <1>6, <2>1, BeginType DEF VerifyByWecom
  <2> QED
    BY <1>0, <1>6, <2>2 DEF VerifyByWecom, DataOK
<1>j. \A j \in Jti, state \in SessionState :
         [session[j] EXCEPT !.state = state]
             \in [user : Name \cup {NoName}, state : SessionState]
  BY <1>0 DEF DataOK
<1>7. ASSUME NEW p \in Proc, StoreSession(p) PROVE SessionsTypeOK'
  <2>1. ReqOK'
    BY <1>0, <1>s, <1>7, GotoType DEF StoreSession
  <2>2. [user |-> req[p].user, state |-> "live"]
            \in [user : Name \cup {NoName}, state : SessionState]
    BY <1>7, <1>u DEF StoreSession, SessionState
  <2>3. session' \in [Jti -> [user : Name \cup {NoName}, state : SessionState]]
    BY <1>0, <1>7, <2>2 DEF StoreSession, DataOK
  <2> QED
    BY <1>0, <1>7, <2>1, <2>3 DEF StoreSession, DataOK
<1>8. ASSUME NEW p \in Proc, SweepSessions(p) PROVE SessionsTypeOK'
  <2>1. ReqOK'
    BY <1>0, <1>s, <1>8, GotoType, EndType DEF SweepSessions
  <2>2. session' \in [Jti -> [user : Name \cup {NoName}, state : SessionState]]
    BY <1>0, <1>j, <1>8 DEF SweepSessions, DataOK, SessionState
  <2> QED
    BY <1>0, <1>8, <2>1, <2>2 DEF SweepSessions, DataOK
<1>9. ASSUME NEW p \in Proc, ClearFailures(p) PROVE SessionsTypeOK'
  BY <1>0, <1>u, <1>9, EndType DEF ClearFailures, DataOK
<1>10. ASSUME NEW p \in Proc, PurgeFailures(p) PROVE SessionsTypeOK'
  <2>1. ReqOK'
    BY <1>0, <1>s, <1>10, GotoType DEF PurgeFailures
  <2>2. failures' \in [Name -> Seq(Age)]
    BY <1>0, <1>10, PurgedType DEF PurgeFailures, DataOK
  <2> QED
    BY <1>0, <1>10, <2>1, <2>2 DEF PurgeFailures, DataOK
<1>11. ASSUME NEW p \in Proc, RecordFailure(p) PROVE SessionsTypeOK'
  <2>1. ReqOK'
    BY <1>0, <1>11, EndType DEF RecordFailure
  <2>2. \A ages \in Seq(Age) : Append(ages, 0) \in Seq(Age)
    BY AppendProperties DEF Age
  <2>3. failures' \in [Name -> Seq(Age)]
    BY <1>0, <1>u, <1>11, <2>2 DEF RecordFailure, DataOK
  <2> QED
    BY <1>0, <1>11, <2>1, <2>3 DEF RecordFailure, DataOK
<1>p. ASSUME NEW p \in Proc, req[p].step \in WordStep,
             StorePassword(req[p].user, req[p].word)
      PROVE  pass' \in [Name -> [word : Word, legacy : BOOLEAN]]
  <2>1. req[p].user \in Name /\ req[p].word \in Word
    BY <1>p, <1>u, <1>s
  <2> QED
    BY <1>0, <1>p, <2>1 DEF StorePassword, DataOK
<1>12. ASSUME NEW p \in Proc, ResetPassword(p) PROVE SessionsTypeOK'
  <2>1. [req[p] EXCEPT !.step = "reset", !.word = NoWord,
                       !.seen = SessionsOf(req[p].user)] \in Request
    BY <1>u, <1>s DEF Request, SessionsOf
  <2>2. ReqOK'
    BY <1>0, <1>u, <1>s, <1>12, <2>1 DEF ResetPassword, ReqOK, Request
  <2> QED
    BY <1>0, <1>p, <1>s, <1>12, <2>2 DEF ResetPassword, DataOK
<1>13. ASSUME NEW p \in Proc, Unlock(p) PROVE SessionsTypeOK'
  <2>1. ReqOK'
    BY <1>0, <1>s, <1>13, GotoType DEF Unlock
  <2> QED
    BY <1>0, <1>u, <1>13, <2>1 DEF Unlock, DataOK
<1>14. ASSUME NEW p \in Proc, RevokeSessions(p) PROVE SessionsTypeOK'
  <2>1. ReqOK'
    BY <1>0, <1>s, <1>14, GotoType DEF RevokeSessions
  <2>2. session' \in [Jti -> [user : Name \cup {NoName}, state : SessionState]]
    BY <1>0, <1>j, <1>14 DEF RevokeSessions, DataOK, SessionState
  <2> QED
    BY <1>0, <1>14, <2>1, <2>2 DEF RevokeSessions, DataOK
<1>15. ASSUME NEW p \in Proc, FinishReset(p) \/ Abandon(p) PROVE SessionsTypeOK'
  BY <1>0, <1>15, EndType DEF FinishReset, Abandon, DataOK
<1>16. ASSUME NEW p \in Proc, FinishChange(p) PROVE SessionsTypeOK'
  <2>1. ReqOK'
    BY <1>0, <1>16, EndType DEF FinishChange
  <2> QED
    BY <1>0, <1>p, <1>s, <1>16, <2>1 DEF FinishChange, DataOK
<1>17. ASSUME NEW p \in Proc, NEW u \in Name, NEW w \in Word, NEW old \in Word,
              BeginReset(p, u, w) \/ BeginChange(p, u, old, w)
       PROVE  SessionsTypeOK'
  <2>1. ASSUME NEW step \in {"resetting", "changing"}
        PROVE  /\ [Idle EXCEPT !.step = step, !.user = u, !.word = w] \in Request
               /\ [Idle EXCEPT !.step = step, !.user = u, !.word = w].user = u
               /\ [Idle EXCEPT !.step = step, !.user = u, !.word = w].word = w
    BY <1>s DEF Idle, Request
  <2>2. ReqOK'
    BY <1>0, <1>17, <2>1, BeginType DEF BeginReset, BeginChange
  <2> QED
    BY <1>0, <1>17, <2>2 DEF BeginReset, BeginChange, DataOK
<1>18. ASSUME NEW j \in Jti, Logout(j) \/ ExpireSession(j) PROVE SessionsTypeOK'
  <2>1. session' \in [Jti -> [user : Name \cup {NoName}, state : SessionState]]
    BY <1>0, <1>j, <1>18 DEF Logout, ExpireSession, DataOK, SessionState
  <2> QED
    BY <1>0, <1>18, <2>1 DEF Logout, ExpireSession, DataOK, ReqOK
<1>19. ASSUME NEW u \in Name, NEW disabled \in BOOLEAN, SetDisabled(u, disabled)
       PROVE  SessionsTypeOK'
  BY <1>0, <1>19 DEF SetDisabled, DataOK, ReqOK, Account
<1>20. ASSUME Tick PROVE SessionsTypeOK'
  <2>1. failures' \in [Name -> Seq(Age)]
    BY <1>0, <1>20, OlderType DEF Tick, DataOK
  <2> QED
    BY <1>0, <1>20, <2>1 DEF Tick, DataOK, ReqOK
<1> QED
  BY <1>1, <1>2, <1>3, <1>4, <1>5, <1>6, <1>7, <1>8, <1>9, <1>10, <1>11, <1>12, <1>13,
     <1>14, <1>15, <1>16, <1>17, <1>18, <1>19, <1>20
     DEF SessionsNext, LoginNext, ResetNext

\* The count, action by action.
LEMMA CountedStep ==
    ASSUME SessionsInv, SessionsTypeOK', SessionsNext PROVE Counted'
<1> USE DEF At
<1>0. SessionsTypeOK /\ Counted
  BY DEF SessionsInv
<1>u. \A p \in Proc : req[p].step # "idle" => req[p].user \in Name
  BY <1>0 DEF SessionsTypeOK
<1>n. \A u \in Name : Len(failures[u]) \in Nat /\ Len(failures'[u]) \in Nat
  BY <1>0, LenProperties DEF SessionsTypeOK
<1>f. req \in [Proc -> Request]
  BY <1>0 DEF SessionsTypeOK
<1> DEFINE Fewer(p) ==    \* handler p does not become an attempt in flight
              /\ \A q \in Proc \ {p} : req'[q] = req[q]
              /\ req'[p].step \in {"admitted", "failed", "purged"} =>
                    /\ req[p].step \in {"admitted", "failed", "purged"}
                    /\ req'[p].user = req[p].user
<1>a. ASSUME NEW p \in Proc, Fewer(p),
             \A u \in Name : Len(failures'[u]) <= Len(failures[u])
      PROVE  Counted'
  <2>1. \A u \in Name : InFlight(u)' \subseteq InFlight(u)
    BY <1>a DEF InFlight
  <2> QED
    BY <1>0, <1>a, <2>1, CountedShrinks
<1>g. ASSUME NEW p \in Proc, NEW step \in Step \ {"admitted"}, Goto(p, step),
             step \in {"failed", "purged"} => req[p].step \in {"admitted", "failed"}
      PROVE  Fewer(p)
  BY <1>f, <1>g DEF Goto, Request
<1>e. ASSUME NEW p \in Proc, End(p) PROVE Fewer(p)
  BY <1>f, <1>e DEF End, Idle
<1>b. ASSUME NEW p \in Proc, NEW fields, Begin(p, fields),
             fields.step \notin {"admitted", "failed", "purged"}
      PROVE  Fewer(p)
  BY <1>f, <1>b DEF Begin
<1>s. Step = {"idle", "changing", "expired", "admitted", "failed", "purged", "rehash",
              "verified", "stored", "swept", "resetting", "reset", "unlocked", "revoked"}
  BY DEF Step, LoginStep, ResetStep
<1>c. \A u \in Name : /\ Cardinality(InFlight(u)) \in Nat
                      /\ Cardinality(InFlight(u)') \in Nat
                      /\ Cardinality(InFlight(u)') <= Cardinality(Proc)
                      /\ Cardinality(Proc) \in Nat /\ MaxFailures \in Nat \ {0}
                      /\ Len(failures[u]) + Cardinality(InFlight(u))
                           < MaxFailures + Cardinality(Proc)
  BY <1>0, InFlightFinite DEF Counted
<1>1. ASSUME NEW p \in Proc, NEW u \in Name, NEW w \in Word, CountFailures(p, u, w)
      PROVE  Counted'
  <2>1. failures' = failures /\ \A q \in Proc \ {p} : req'[q] = req[q]
    BY <1>f, <1>1 DEF CountFailures, Begin
  <2>2. CASE Len(failures[u]) < MaxFailures
    <3>1. req'[p].user = u
      BY <1>f, <1>1 DEF CountFailures, Begin, Attempt, Idle
    <3>2. \A v \in Name \ {u} : InFlight(v)' \subseteq InFlight(v)
      BY <2>1, <3>1 DEF InFlight
    <3>3. \A v \in Name \ {u} : Cardinality(InFlight(v)') <= Cardinality(InFlight(v))
      BY <3>2, InFlightFinite, FS_Subset
    <3> HIDE DEF InFlight
    <3> QED
      BY <1>c, <1>n, <2>1, <2>2, <3>3, SMTT(60) DEF Counted
  <2>3. CASE ~(Len(failures[u]) < MaxFailures)
    <3>1. req'[p].step = "expired"
      BY <1>f, <1>1, <2>3 DEF CountFailures, Begin, Attempt, Idle
    <3> QED
      BY <1>a, <1>n, <2>1, <3>1
  <2> QED
    BY <2>2, <2>3
<1>2. ASSUME NEW p \in Proc, ForgetExpiredLock(p) PROVE Counted'
  <2> DEFINE u == req[p].user
  <2>1. /\ u \in Name /\ failures' = [failures EXCEPT ![u] = <<>>]
        /\ \A q \in Proc \ {p} : req'[q] = req[q]
        /\ req'[p].user = u
    BY <1>f, <1>u, <1>2 DEF ForgetExpiredLock, Request
  <2>2. Len(failures'[u]) = 0 /\ \A v \in Name \ {u} : failures'[v] = failures[v]
    BY <1>0, <2>1 DEF SessionsTypeOK
  <2> HIDE DEF u
  <2>3. \A v \in Name \ {u} : InFlight(v)' \subseteq InFlight(v)
    BY <2>1 DEF InFlight
  <2>4. \A v \in Name \ {u} : Cardinality(InFlight(v)') <= Cardinality(InFlight(v))
    BY <2>3, InFlightFinite, FS_Subset
  <2> HIDE DEF InFlight
  <2> QED
    BY <1>c, <1>n, <2>2, <2>4 DEF Counted
<1>3. ASSUME NEW p \in Proc, VerifyPassword(p) PROVE Counted'
  <2>1. failures' = failures /\ Fewer(p)
    BY <1>f, <1>s, <1>e, <1>g, <1>3 DEF VerifyPassword, Request
  <2> QED
    BY <1>a, <1>n, <2>1
<1>4. ASSUME NEW p \in Proc, Rehash(p) \/ VerifyByDirectory(p) PROVE Counted'
  <2>1. failures' = failures /\ Fewer(p)
    BY <1>s, <1>e, <1>g, <1>4 DEF Rehash, VerifyByDirectory
  <2> QED
    BY <1>a, <1>n, <2>1
<1>5. ASSUME NEW p \in Proc, NEW u \in Name, VerifyByWecom(p, u) PROVE Counted'
  <2>1. failures' = failures /\ Fewer(p)
    BY <1>b, <1>5 DEF VerifyByWecom, Idle
  <2> QED
    BY <1>a, <1>n, <2>1
<1>6. ASSUME NEW p \in Proc, StoreSession(p) \/ SweepSessions(p) PROVE Counted'
  <2>1. failures' = failures /\ Fewer(p)
    BY <1>s, <1>e, <1>g, <1>6 DEF StoreSession, SweepSessions
  <2> QED
    BY <1>a, <1>n, <2>1
<1>7. ASSUME NEW p \in Proc, ClearFailures(p) PROVE Counted'
  <2>1. Fewer(p)
    BY <1>e, <1>7 DEF ClearFailures
  <2>2. \A u \in Name : failures'[u] = failures[u] \/ failures'[u] = <<>>
    BY <1>0, <1>7 DEF ClearFailures, SessionsTypeOK
  <2> QED
    BY <1>a, <1>n, <2>1, <2>2
<1>8. ASSUME NEW p \in Proc, PurgeFailures(p) PROVE Counted'
  <2>1. Fewer(p)
    BY <1>s, <1>g, <1>8 DEF PurgeFailures
  <2>2. \A u \in Name : Len(failures'[u]) <= Len(failures[u])
    BY <1>0, <1>8, PurgedType DEF PurgeFailures, SessionsTypeOK
  <2> QED
    BY <1>a, <2>1, <2>2
<1>9. ASSUME NEW p \in Proc, RecordFailure(p) PROVE Counted'
  <2>1. PICK u \in Name :
        /\ failures' = [failures EXCEPT ![u] = Append(@, 0)]
        /\ p \in InFlight(u)
        /\ \A q \in Proc \ {p} : req'[q] = req[q]
        /\ req'[p].step = "idle"
    BY <1>f, <1>u, <1>9 DEF RecordFailure, End, Idle, InFlight
  <2>2. /\ Len(failures'[u]) = Len(failures[u]) + 1
        /\ \A v \in Name \ {u} : failures'[v] = failures[v]
    <3>1. failures[u] \in Seq(Age) /\ failures'[u] = Append(failures[u], 0)
      BY <1>0, <2>1 DEF SessionsTypeOK
    <3> QED
      BY <1>0, <2>1, <3>1, AppendProperties DEF SessionsTypeOK, Age
  <2>3. InFlight(u)' \subseteq InFlight(u) \ {p}
    BY <2>1 DEF InFlight
  <2>4. \A v \in Name \ {u} : InFlight(v)' \subseteq InFlight(v)
    BY <2>1 DEF InFlight
  <2>5. \A v \in Name \ {u} : Cardinality(InFlight(v)') <= Cardinality(InFlight(v))
    BY <2>4, InFlightFinite, FS_Subset
  <2> HIDE DEF InFlight
  <2>6. /\ IsFiniteSet(InFlight(u) \ {p})
        /\ Cardinality(InFlight(u) \ {p}) = Cardinality(InFlight(u)) - 1
    BY <2>1, InFlightFinite, FS_RemoveElement
  <2>7. Cardinality(InFlight(u)') <= Cardinality(InFlight(u)) - 1
    BY <2>3, <2>6, FS_Subset
  <2> QED
    BY <1>c, <1>n, <2>1, <2>2, <2>5, <2>7, SMTT(60) DEF Counted
<1>10. ASSUME NEW p \in Proc, ResetPassword(p) PROVE Counted'
  <2>1. failures' = failures /\ Fewer(p)
    BY <1>f, <1>10 DEF ResetPassword, Request
  <2> QED
    BY <1>a, <1>n, <2>1
<1>11. ASSUME NEW p \in Proc, Unlock(p) PROVE Counted'
  <2>1. Fewer(p)
    BY <1>s, <1>g, <1>11 DEF Unlock
  <2>2. \A u \in Name : failures'[u] = failures[u] \/ failures'[u] = <<>>
    BY <1>0, <1>11 DEF Unlock, SessionsTypeOK
  <2> QED
    BY <1>a, <1>n, <2>1, <2>2
<1>12. ASSUME NEW p \in Proc, RevokeSessions(p) PROVE Counted'
  <2>1. failures' = failures /\ Fewer(p)
    BY <1>s, <1>g, <1>12 DEF RevokeSessions
  <2> QED
    BY <1>a, <1>n, <2>1
<1>13. ASSUME NEW p \in Proc, FinishReset(p) \/ Abandon(p) \/ FinishChange(p)
       PROVE  Counted'
  <2>1. failures' = failures /\ Fewer(p)
    BY <1>e, <1>13 DEF FinishReset, Abandon, FinishChange
  <2> QED
    BY <1>a, <1>n, <2>1
<1>14. ASSUME NEW p \in Proc, NEW u \in Name, NEW w \in Word, NEW old \in Word,
              BeginReset(p, u, w) \/ BeginChange(p, u, old, w)
       PROVE  Counted'
  <2>1. failures' = failures /\ Fewer(p)
    BY <1>b, <1>14 DEF BeginReset, BeginChange, Idle
  <2> QED
    BY <1>a, <1>n, <2>1
<1>15. ASSUME UNCHANGED req, \A u \in Name : Len(failures'[u]) <= Len(failures[u])
       PROVE  Counted'
  BY <1>0, <1>15, CountedShrinks DEF InFlight
<1>16. ASSUME NEW j \in Jti, Logout(j) \/ ExpireSession(j) PROVE Counted'
  BY <1>n, <1>15, <1>16 DEF Logout, ExpireSession
<1>17. ASSUME NEW u \in Name, NEW disabled \in BOOLEAN, SetDisabled(u, disabled)
       PROVE  Counted'
  BY <1>n, <1>15, <1>17 DEF SetDisabled
<1>18. ASSUME Tick PROVE Counted'
  <2>1. \A u \in Name : Len(failures'[u]) <= Len(failures[u])
    BY <1>0, <1>n, <1>18, OlderType DEF Tick, SessionsTypeOK
  <2> QED
    BY <1>15, <1>18, <2>1 DEF Tick
<1> QED
  BY <1>1, <1>2, <1>3, <1>4, <1>5, <1>6, <1>7, <1>8, <1>9, <1>10, <1>11, <1>12, <1>13,
     <1>14, <1>16, <1>17, <1>18 DEF SessionsNext, LoginNext, ResetNext

\* What resets saw, action by action.
LEMMA SeenStep ==
    ASSUME SessionsInv, SessionsTypeOK', SessionsNext PROVE SeenSessions'
<1> USE DEF At
<1>0. SessionsTypeOK /\ SeenSessions
  BY DEF SessionsInv
<1>f. req \in [Proc -> Request] /\ req' \in [Proc -> Request]
  BY <1>0 DEF SessionsTypeOK
<1>j. session \in [Jti -> [user : Name \cup {NoName}, state : SessionState]]
  BY <1>0 DEF SessionsTypeOK
<1>s. Step = {"idle", "changing", "expired", "admitted", "failed", "purged", "rehash",
              "verified", "stored", "swept", "resetting", "reset", "unlocked", "revoked"}
  BY DEF Step, LoginStep, ResetStep
<1> DEFINE Keeps ==   \* no session changes hands or comes back
              \A j \in Jti :
                 /\ session[j].state # "undrawn" =>
                       session'[j].user = session[j].user /\ session'[j].state # "undrawn"
                 /\ session[j].state = "deleted" => session'[j].state = "deleted"
           Quiet(p) ==   \* handler p has nothing to answer for
              /\ \A q \in Proc \ {p} : req'[q] = req[q]
              /\ req'[p].step \notin {"reset", "unlocked", "revoked"}
<1>a. ASSUME NEW p \in Proc, Keeps, Quiet(p) PROVE SeenSessions'
  <2> SUFFICES ASSUME NEW q \in Proc, NEW j \in req'[q].seen
               PROVE  /\ req'[q].step \in {"reset", "unlocked"} =>
                            /\ session'[j].user = req'[q].user
                            /\ session'[j].state # "undrawn"
                      /\ req'[q].step = "revoked" => session'[j].state = "deleted"
    BY DEF SeenSessions
  <2>1. CASE q = p
    BY <1>a, <2>1
  <2>2. CASE q # p
    <3>1. req'[q] = req[q] /\ j \in req[q].seen /\ j \in Jti
      BY <1>a, <1>f, <2>2 DEF Request
    <3> QED
      BY <1>0, <1>a, <3>1 DEF SeenSessions
  <2> QED
    BY <2>1, <2>2
<1>b. ASSUME Keeps, UNCHANGED req PROVE SeenSessions'
  <2> SUFFICES ASSUME NEW q \in Proc, NEW j \in req[q].seen
               PROVE  /\ req[q].step \in {"reset", "unlocked"} =>
                            /\ session'[j].user = req[q].user
                            /\ session'[j].state # "undrawn"
                      /\ req[q].step = "revoked" => session'[j].state = "deleted"
    BY <1>b DEF SeenSessions
  <2>1. j \in Jti
    BY <1>f DEF Request
  <2> QED
    BY <1>0, <1>b, <2>1 DEF SeenSessions
<1>k. UNCHANGED session => Keeps
  OBVIOUS
<1>g. ASSUME NEW p \in Proc, NEW step \in Step \ {"reset", "unlocked", "revoked"},
             Goto(p, step)
      PROVE  Quiet(p)
  BY <1>f, <1>g DEF Goto, Request
<1>e. ASSUME NEW p \in Proc, End(p) PROVE Quiet(p)
  BY <1>f, <1>e DEF End, Idle
<1>h. ASSUME NEW p \in Proc, NEW fields, Begin(p, fields),
             fields.step \notin {"reset", "unlocked", "revoked"}
      PROVE  Quiet(p)
  BY <1>f, <1>h DEF Begin
<1>1. ASSUME NEW p \in Proc, NEW u \in Name, NEW w \in Word, CountFailures(p, u, w)
      PROVE  SeenSessions'
  <2>1. Quiet(p)
    BY <1>h, <1>1 DEF CountFailures, Attempt, Idle
  <2> QED
    BY <1>a, <1>k, <1>1, <2>1 DEF CountFailures
<1>2. ASSUME NEW p \in Proc, ForgetExpiredLock(p) PROVE SeenSessions'
  <2>1. Quiet(p)
    BY <1>f, <1>2 DEF ForgetExpiredLock, Request
  <2> QED
    BY <1>a, <1>k, <1>2, <2>1 DEF ForgetExpiredLock
<1>3. ASSUME NEW p \in Proc, VerifyPassword(p) PROVE SeenSessions'
  <2>1. Quiet(p)
    BY <1>f, <1>s, <1>e, <1>g, <1>3 DEF VerifyPassword, Request
  <2> QED
    BY <1>a, <1>k, <1>3, <2>1 DEF VerifyPassword
<1>4. ASSUME NEW p \in Proc, Rehash(p) \/ VerifyByDirectory(p) PROVE SeenSessions'
  <2>1. Quiet(p)
    BY <1>s, <1>e, <1>g, <1>4 DEF Rehash, VerifyByDirectory
  <2> QED
    BY <1>a, <1>k, <1>4, <2>1 DEF Rehash, VerifyByDirectory
<1>5. ASSUME NEW p \in Proc, NEW u \in Name, VerifyByWecom(p, u) PROVE SeenSessions'
  <2>1. Quiet(p)
    BY <1>h, <1>5 DEF VerifyByWecom, Idle
  <2> QED
    BY <1>a, <1>k, <1>5, <2>1 DEF VerifyByWecom
<1>6. ASSUME NEW p \in Proc, StoreSession(p) PROVE SeenSessions'
  <2>1. Quiet(p)
    BY <1>s, <1>g, <1>6 DEF StoreSession
  <2>2. session[FreshJti].state = "undrawn"
    BY <1>6 DEF StoreSession, FreshJti
  <2>3. Keeps
    BY <1>j, <1>6, <2>2 DEF StoreSession
  <2> QED
    BY <1>a, <2>1, <2>3
<1>7. ASSUME NEW p \in Proc, SweepSessions(p) PROVE SeenSessions'
  <2>1. Quiet(p)
    BY <1>s, <1>e, <1>g, <1>7 DEF SweepSessions
  <2>2. Keeps
    BY <1>j, <1>7 DEF SweepSessions
  <2> QED
    BY <1>a, <2>1, <2>2
<1>8. ASSUME NEW p \in Proc, ClearFailures(p) \/ RecordFailure(p) PROVE SeenSessions'
  BY <1>a, <1>e, <1>k, <1>8 DEF ClearFailures, RecordFailure
<1>9. ASSUME NEW p \in Proc, PurgeFailures(p) PROVE SeenSessions'
  <2>1. Quiet(p)
    BY <1>s, <1>g, <1>9 DEF PurgeFailures
  <2> QED
    BY <1>a, <1>k, <1>9, <2>1 DEF PurgeFailures
<1>10. ASSUME NEW p \in Proc, ResetPassword(p) PROVE SeenSessions'
  <2>1. PICK u : u = req[p].user
    OBVIOUS
  <2>2. /\ \A q \in Proc \ {p} : req'[q] = req[q]
        /\ req'[p].step = "reset" /\ req'[p].user = u
        /\ req'[p].seen = SessionsOf(u)
    BY <1>f, <1>10, <2>1 DEF ResetPassword, Request
  <2>3. UNCHANGED session
    BY <1>10 DEF ResetPassword
  <2> SUFFICES ASSUME NEW q \in Proc, NEW j \in req'[q].seen
               PROVE  /\ req'[q].step \in {"reset", "unlocked"} =>
                            session[j].user = req'[q].user /\ session[j].state # "undrawn"
                      /\ req'[q].step = "revoked" => session[j].state = "deleted"
    BY <2>3 DEF SeenSessions
  <2>4. CASE q = p
    BY <2>2, <2>4 DEF SessionsOf, Stored
  <2>5. CASE q # p
    BY <1>0, <2>2, <2>5 DEF SeenSessions
  <2> QED
    BY <2>4, <2>5
<1>11. ASSUME NEW p \in Proc, Unlock(p) PROVE SeenSessions'
  <2>1. /\ \A q \in Proc \ {p} : req'[q] = req[q]
        /\ req'[p].step = "unlocked" /\ req'[p].user = req[p].user
        /\ req'[p].seen = req[p].seen /\ req[p].step = "reset"
    BY <1>f, <1>11 DEF Unlock, Goto, Request
  <2>2. UNCHANGED session
    BY <1>11 DEF Unlock
  <2>3. \A q \in Proc : req'[q].seen = req[q].seen /\ req'[q].user = req[q].user
    BY <2>1
  <2> QED
    BY <1>0, <2>1, <2>2, <2>3 DEF SeenSessions
<1>12. ASSUME NEW p \in Proc, RevokeSessions(p) PROVE SeenSessions'
  <2>1. /\ \A q \in Proc \ {p} : req'[q] = req[q]
        /\ req'[p].step = "revoked" /\ req[p].step = "unlocked"
        /\ req'[p].seen = req[p].seen
    BY <1>f, <1>12 DEF RevokeSessions, Goto, Request
  <2>2. \A j \in Jti : /\ session'[j].user = session[j].user
                       /\ session'[j].state = IF j \in SessionsOf(req[p].user)
                                              THEN "deleted" ELSE session[j].state
    BY <1>j, <1>12 DEF RevokeSessions
  <2> SUFFICES ASSUME NEW q \in Proc, NEW j \in req'[q].seen
               PROVE  /\ req'[q].step \in {"reset", "unlocked"} =>
                            /\ session'[j].user = req'[q].user
                            /\ session'[j].state # "undrawn"
                      /\ req'[q].step = "revoked" => session'[j].state = "deleted"
    BY DEF SeenSessions
  <2>3. j \in Jti
    BY <1>f DEF Request
  <2>4. CASE q = p
    <3>1. session[j].user = req[p].user /\ session[j].state # "undrawn"
      BY <1>0, <2>1, <2>4 DEF SeenSessions
    <3>2. session'[j].state = "deleted"
      BY <1>j, <2>2, <2>3, <3>1 DEF SessionsOf, Stored, SessionState
    <3> QED
      BY <2>1, <2>4, <3>2
  <2>5. CASE q # p
    BY <1>0, <2>1, <2>2, <2>3, <2>5 DEF SeenSessions
  <2> QED
    BY <2>4, <2>5
<1>13. ASSUME NEW p \in Proc, FinishReset(p) \/ Abandon(p) \/ FinishChange(p)
       PROVE  SeenSessions'
  BY <1>a, <1>e, <1>k, <1>13 DEF FinishReset, Abandon, FinishChange
<1>14. ASSUME NEW p \in Proc, NEW u \in Name, NEW w \in Word, NEW old \in Word,
              BeginReset(p, u, w) \/ BeginChange(p, u, old, w)
       PROVE  SeenSessions'
  <2>1. Quiet(p)
    BY <1>h, <1>14 DEF BeginReset, BeginChange, Idle
  <2> QED
    BY <1>a, <1>k, <1>14, <2>1 DEF BeginReset, BeginChange
<1>15. ASSUME NEW j \in Jti, Logout(j) \/ ExpireSession(j) PROVE SeenSessions'
  <2>1. Keeps
    BY <1>j, <1>15 DEF Logout, ExpireSession
  <2> QED
    BY <1>b, <1>15, <2>1 DEF Logout, ExpireSession
<1>16. ASSUME NEW u \in Name, NEW disabled \in BOOLEAN, SetDisabled(u, disabled)
       PROVE  SeenSessions'
  BY <1>b, <1>k, <1>16 DEF SetDisabled
<1>17. ASSUME Tick PROVE SeenSessions'
  BY <1>b, <1>k, <1>17 DEF Tick
<1> QED
  BY <1>1, <1>2, <1>3, <1>4, <1>5, <1>6, <1>7, <1>8, <1>9, <1>10, <1>11, <1>12, <1>13,
     <1>14, <1>15, <1>16, <1>17 DEF SessionsNext, LoginNext, ResetNext

-----------------------------------------------------------------------------
LEMMA StepInv == SessionsInv /\ [SessionsNext]_sessionsVars => SessionsInv'
<1>1. ASSUME SessionsInv, SessionsNext PROVE SessionsInv'
  <2>1. SessionsTypeOK'
    BY <1>1, TypeStep DEF SessionsInv
  <2> QED
    BY <1>1, <2>1, CountedStep, SeenStep DEF SessionsInv
<1>2. ASSUME SessionsInv, UNCHANGED sessionsVars PROVE SessionsInv'
  BY <1>2 DEF SessionsInv, SessionsTypeOK, Counted, InFlight, SeenSessions, sessionsVars
<1> QED
  BY <1>1, <1>2

LEMMA Invariance == SessionsSpec => []SessionsInv
BY InitInv, StepInv, PTL DEF SessionsSpec

LEMMA SessionsInvImplies == SessionsInv => FailuresBounded /\ ResetRevokes
<1> SUFFICES ASSUME SessionsInv PROVE FailuresBounded /\ ResetRevokes
  OBVIOUS
<1>1. ASSUME NEW u \in Name PROVE Len(failures[u]) < MaxFailures + Cardinality(Proc)
  <2>1. Len(failures[u]) \in Nat
    BY LenProperties DEF SessionsInv, SessionsTypeOK
  <2> HIDE DEF InFlight
  <2> QED
    BY <2>1, InFlightFinite DEF SessionsInv, Counted
<1>2. ResetRevokes
  BY DEF SessionsInv, SeenSessions, ResetRevokes
<1> QED
  BY <1>1, <1>2 DEF FailuresBounded

\* Every variable of the sign-in keeps its range, and a handler that will store a
\* password has it: auth_workflow.go, password_change.go, password_reset.go.
THEOREM SessionsTypeCorrect == SessionsSpec => []SessionsTypeOK
<1>1. SessionsInv => SessionsTypeOK
  BY DEF SessionsInv
<1> QED
  BY <1>1, Invariance, PTL

\* However many handlers record failures of a name between another's count and its
\* INSERT (login_throttle.go), fewer are on record than the threshold and the
\* handlers.
THEOREM FailuresStayBounded == SessionsSpec => []FailuresBounded
<1>1. SessionsInv => FailuresBounded
  BY SessionsInvImplies
<1> QED
  BY <1>1, Invariance, PTL

\* When a reset answers, the sessions there were when it replaced the password
\* are gone (password_reset.go).
THEOREM ResetsRevoke == SessionsSpec => []ResetRevokes
<1>1. SessionsInv => ResetRevokes
  BY SessionsInvImplies
<1> QED
  BY <1>1, Invariance, PTL

-----------------------------------------------------------------------------
(* PasswordReset: the mails of an address, the answers of a token.         *)

FlowOK ==
    /\ flow \in [Flow -> FlowRequest]
    /\ \A f \in Flow :
          /\ flow[f].step # "idle" => flow[f].user \in Name
          /\ flow[f].step \in {"solved", "consumed"} => flow[f].captcha \in Captcha
          /\ flow[f].step \in {"checked", "allowed", "noted"} =>
                flow[f].token \in Token /\ token[flow[f].token] # NoRow

ResetRanges ==
    /\ captcha \in [Captcha -> {"undrawn", "live", "gone"}]
    /\ token \in [Token -> TokenRow \cup {NoRow}]
    /\ sends \in [Name -> Seq(Nat)]
    /\ FlowOK
    /\ spending \in [Proc -> Token \cup {NoToken}]
    /\ answers \in [Token -> Nat]
    /\ \A p \in Proc : /\ req[p].step \in ResetStep => spending[p] # NoToken
                       /\ spending[p] # NoToken => token[spending[p]] # NoRow

\* Handlers on u that were let past the count and may yet log a mail.
Mailing(u) == {f \in Flow : flow[f].user = u /\ flow[f].step \in {"allowed", "noted"}}

SendsCounted ==
    \A u \in Name : Len(sends[u]) + Cardinality(Mailing(u)) < MaxSends + Cardinality(Flow)

\* Mails that are counted: oldest first, and none has left the window.
InWindow(ages) ==
    /\ \A i \in DOMAIN ages : ages[i] < Window
    /\ \A i, j \in DOMAIN ages : i <= j => ages[j] <= ages[i]

SendsInWindow == \A u \in Name : InWindow(sends[u])

\* Confirmations that came with token t.
Spending(t) == {p \in Proc : spending[p] = t}

\* A token that was answered is used, so that no confirmation comes to those under way.
AnswersCounted ==
    \A t \in Token :
        /\ answers[t] > 0 => token[t] # NoRow /\ token[t].used
        /\ answers[t] + Cardinality(Spending(t)) <= Cardinality(Proc)

PasswordResetInv ==
    SessionsInv /\ ResetRanges /\ SendsCounted /\ SendsInWindow /\ AnswersCounted

\* Every step of the composition is one of Sessions or leaves its variables alone.
LEMMA ResetStepsAreSessions ==
    ASSUME ResetRanges, PasswordResetNext PROVE [SessionsNext]_sessionsVars
<1>1. CASE FlowNext /\ UNCHANGED sessionsVars
  BY <1>1
<1>2. ASSUME NEW p \in Proc, NEW w \in Word, ConfirmNext(p, w) PROVE SessionsNext
  <2>1. ASSUME NEW t \in Token, ConfirmToken(p, t, w) PROVE SessionsNext
    <3>1. token[t].user \in Name /\ BeginReset(p, token[t].user, w)
      BY <2>1 DEF ConfirmToken, Usable, ResetRanges, TokenRow
    <3> QED
      BY <3>1 DEF SessionsNext
  <2> QED
    BY <1>2, <2>1 DEF ConfirmNext, SpendToken, AbandonConfirmation, SessionsNext, ResetNext
<1>3. CASE TickBoth
  BY <1>3 DEF TickBoth, SessionsNext
<1>4. CASE \/ \E p \in Proc : \/ LoginNext(p) \/ FinishChange(p)
                              \/ \E u \in Name, old, w \in Word : BeginChange(p, u, old, w)
           \/ \E j \in Jti : Logout(j) \/ ExpireSession(j)
           \/ \E u \in Name, disabled \in BOOLEAN : SetDisabled(u, disabled)
  BY <1>4 DEF SessionsNext
<1> QED
  BY <1>1, <1>2, <1>3, <1>4 DEF PasswordResetNext, ResetHandlersNext

\* Steps of others start no confirmation and move none on.
LEMMA OthersConfirmNothing ==
    ASSUME SessionsTypeOK,
           \/ \E p \in Proc : \/ LoginNext(p) \/ FinishChange(p)
                              \/ \E u \in Name, old, w \in Word : BeginChange(p, u, old, w)
           \/ \E j \in Jti : Logout(j) \/ ExpireSession(j)
           \/ \E u \in Name, disabled \in BOOLEAN : SetDisabled(u, disabled)
           \/ Tick
    PROVE  \A p \in Proc : req'[p].step \in ResetStep => req[p].step \in ResetStep
<1> USE DEF At, ResetStep
<1>0. req \in [Proc -> Request]
  BY DEF SessionsTypeOK
<1>1. ASSUME NEW p \in Proc, NEW u \in Name, NEW w \in Word, CountFailures(p, u, w)
      PROVE  \A q \in Proc : req'[q].step \in ResetStep => req[q].step \in ResetStep
  BY <1>0, <1>1 DEF CountFailures, Begin, Attempt, Idle
<1>2. ASSUME NEW p \in Proc, ForgetExpiredLock(p)
      PROVE  \A q \in Proc : req'[q].step \in ResetStep => req[q].step \in ResetStep
  BY <1>0, <1>2 DEF ForgetExpiredLock, Request
<1>3. ASSUME NEW p \in Proc, VerifyPassword(p) \/ Rehash(p) \/ VerifyByDirectory(p)
      PROVE  \A q \in Proc : req'[q].step \in ResetStep => req[q].step \in ResetStep
  BY <1>0, <1>3 DEF VerifyPassword, Rehash, VerifyByDirectory, Goto, End, Idle, Request
<1>4. ASSUME NEW p \in Proc, NEW u \in Name, VerifyByWecom(p, u)
      PROVE  \A q \in Proc : req'[q].step \in ResetStep => req[q].step \in ResetStep
  BY <1>0, <1>4 DEF VerifyByWecom, Begin, Idle
<1>5. ASSUME NEW p \in Proc, \/ StoreSession(p) \/ SweepSessions(p) \/ ClearFailures(p)
                             \/ PurgeFailures(p) \/ RecordFailure(p) \/ FinishChange(p)
      PROVE  \A q \in Proc : req'[q].step \in ResetStep => req[q].step \in ResetStep
  BY <1>0, <1>5 DEF StoreSession, SweepSessions, ClearFailures, PurgeFailures, RecordFailure,
     FinishChange, Goto, End, Idle, Request
<1>6. ASSUME NEW p \in Proc, NEW u \in Name, NEW old \in Word, NEW w \in Word,
             BeginChange(p, u, old, w)
      PROVE  \A q \in Proc : req'[q].step \in ResetStep => req[q].step \in ResetStep
  <2> DEFINE fields == [Idle EXCEPT !.step = "changing", !.user = u, !.word = w]
  <2>1. req' = [req EXCEPT ![p] = fields]
    <3>1. Begin(p, fields)
      BY <1>6, Zenon DEF BeginChange
    <3> QED
      BY <3>1 DEF Begin
  <2>2. fields.step = "changing"
    BY DEF Idle
  <2> HIDE DEF fields
  <2> QED
    BY <1>0, <2>1, <2>2
<1>7. ASSUME UNCHANGED req
      PROVE  \A q \in Proc : req'[q].step \in ResetStep => req[q].step \in ResetStep
  BY <1>7
<1> QED
  BY <1>1, <1>2, <1>3, <1>4, <1>5, <1>6, <1>7
     DEF LoginNext, Logout, ExpireSession, SetDisabled, Tick

\* A sequence of ages stays one and gets no longer when rows leave the window.
LEMMA AgedType ==
    ASSUME NEW ages \in Seq(Nat)
    PROVE  Aged(ages) \in Seq(Nat) /\ Len(Aged(ages)) <= Len(ages)
<1> DEFINE older == [i \in DOMAIN ages |-> ages[i] + 1]
           gone == {i \in DOMAIN ages : ages[i] + 1 >= Window}
<1>1. Len(ages) \in Nat /\ DOMAIN ages = 1 .. Len(ages)
  BY LenProperties
<1>2. older \in Seq(Nat) /\ Len(older) = Len(ages)
  <2>1. \A i \in 1 .. Len(ages) : ages[i] + 1 \in Nat
    BY ElementOfSeq
  <2> QED
    BY <1>1, <2>1
<1>3. IsFiniteSet(gone) /\ Cardinality(gone) \in Nat
  <2>1. gone \subseteq 1 .. Len(ages)
    BY <1>1
  <2> HIDE DEF gone
  <2>2. IsFiniteSet(1 .. Len(ages))
    BY <1>1, FS_Interval
  <2> QED
    BY <2>1, <2>2, FS_Subset, FS_CardinalityType
<1> HIDE DEF older, gone
<1>4. \A i \in 1 + Cardinality(gone) .. Len(ages) : older[i] \in Nat
  BY <1>1, <1>2, <1>3, ElementOfSeq
<1>5. /\ SubSeq(older, 1 + Cardinality(gone), Len(ages)) \in Seq(Nat)
      /\ Len(SubSeq(older, 1 + Cardinality(gone), Len(ages))) <= Len(ages)
  BY <1>1, <1>2, <1>3, <1>4, SubSeqProperties
<1> QED
  BY <1>5 DEF Aged, older, gone

\* The rows that leave the window are the first ones, as many as there are of them:
\* what is left is what a count of the window finds.
LEMMA AgedInWindow ==
    ASSUME NEW ages \in Seq(Nat), InWindow(ages)
    PROVE  InWindow(Aged(ages))
<1> USE PasswordResetAssumption
<1> DEFINE older == [i \in DOMAIN ages |-> ages[i] + 1]
           gone == {i \in DOMAIN ages : ages[i] + 1 >= Window}
           k == Cardinality(gone)
<1>1. /\ Len(ages) \in Nat /\ DOMAIN ages = 1 .. Len(ages)
      /\ \A i \in DOMAIN ages : ages[i] \in Nat
  BY LenProperties, ElementOfSeq
<1>2. \A i, j \in DOMAIN ages : i <= j /\ j \in gone => i \in gone
  <2> SUFFICES ASSUME NEW i \in DOMAIN ages, NEW j \in DOMAIN ages, i <= j,
                      ages[j] + 1 >= Window
               PROVE  ages[i] + 1 >= Window
    OBVIOUS
  <2>1. ages[j] <= ages[i] /\ ages[i] \in Nat /\ ages[j] \in Nat
    BY <1>1 DEF InWindow
  <2> QED
    BY <2>1
<1>3. gone \in SUBSET Nat /\ \A i \in gone : i \in 1 .. Len(ages)
  BY <1>1
<1>4. /\ older \in Seq(Nat) /\ Len(older) = Len(ages)
      /\ \A i \in 1 .. Len(ages) : older[i] = ages[i] + 1
  <2>1. \A i \in 1 .. Len(ages) : ages[i] + 1 \in Nat
    BY <1>1
  <2> QED
    BY <1>1, <2>1
<1>5. \A i \in DOMAIN ages : i \notin gone => ages[i] + 1 < Window
  BY <1>1
<1> HIDE DEF older, gone
<1>6. k \in Nat /\ gone = 1 .. k
  <2>1. CASE gone = {}
    BY <2>1, FS_EmptySet
  <2>2. CASE gone # {}
    <3>0. Len(ages) \in Nat /\ \A i \in gone : i <= Len(ages)
      BY <1>1, <1>3
    <3>1. PICK m \in gone : \A i \in gone : i <= m
      BY <1>3, <2>2, <3>0, GreatestNatural
    <3>2. m \in 1 .. Len(ages)
      BY <1>3, <3>1
    <3>3. \A i \in gone : i \in 1 .. m
      BY <1>3, <3>1, <3>2
    <3>4. \A i \in 1 .. m : i \in DOMAIN ages /\ i <= m
      BY <1>1, <3>2
    <3>5. \A i \in 1 .. m : i \in gone
      BY <1>1, <1>2, <3>1, <3>2, <3>4
    <3>6. gone = 1 .. m
      BY <3>3, <3>5
    <3>7. Cardinality(1 .. m) = m
      BY <3>2, FS_Interval
    <3> QED
      BY <3>2, <3>6, <3>7
  <2> QED
    BY <2>1, <2>2
<1> HIDE DEF k
<1>7. k <= Len(ages)
  BY <1>1, <1>3, <1>6
<1> DEFINE left == SubSeq(older, 1 + k, Len(ages))
<1>8. /\ DOMAIN left = 1 .. (Len(ages) - k)
      /\ \A i \in 1 .. (Len(ages) - k) : left[i] = ages[k + i] + 1 /\ k + i \in DOMAIN ages
  <2>1. \A i \in 1 + k .. Len(ages) : older[i] \in Nat
    BY <1>1, <1>4, <1>6
  <2>2. /\ left \in Seq(Nat)
        /\ Len(left) = IF 1 + k <= Len(ages) THEN Len(ages) - (1 + k) + 1 ELSE 0
        /\ \A i \in 1 .. (Len(ages) - (1 + k) + 1) : left[i] = older[1 + k + i - 1]
    BY <1>1, <1>6, <2>1, SubSeqProperties
  <2> HIDE DEF left
  <2>3. Len(left) = Len(ages) - k
    <3>1. \A m, n \in Nat : m <= n => (IF 1 + m <= n THEN n - (1 + m) + 1 ELSE 0) = n - m
      OBVIOUS
    <3>2. Len(ages) \in Nat /\ k \in Nat
      BY <1>1, <1>6
    <3> QED
      BY <1>7, <2>2, <3>1, <3>2
  <2>4. DOMAIN left = 1 .. (Len(ages) - k)
    BY <2>2, <2>3, LenProperties
  <2>5. ASSUME NEW i \in 1 .. (Len(ages) - k)
        PROVE  left[i] = ages[k + i] + 1 /\ k + i \in DOMAIN ages
    <3>1. Len(ages) \in Nat /\ k \in Nat
      BY <1>1, <1>6
    <3>2. i \in 1 .. (Len(ages) - (1 + k) + 1) /\ 1 + k + i - 1 = k + i
      BY <3>1
    <3>3. left[i] = older[k + i]
      BY <2>2, <3>2
    <3>4. k + i \in 1 .. Len(ages)
      BY <1>7, <3>1
    <3> QED
      BY <1>1, <1>4, <3>3, <3>4
  <2> QED
    BY <2>4, <2>5
<1> HIDE DEF left
<1>9. ASSUME NEW i \in DOMAIN left
      PROVE  left[i] < Window
  <2>1. k + i \in DOMAIN ages /\ k + i \notin gone /\ left[i] = ages[k + i] + 1
    BY <1>1, <1>6, <1>7, <1>8
  <2> QED
    BY <1>5, <2>1
<1>10. ASSUME NEW i \in DOMAIN left, NEW j \in DOMAIN left, i <= j
       PROVE  left[j] <= left[i]
  <2>0. k + i <= k + j
    BY <1>1, <1>6, <1>8, <1>10
  <2>1. /\ k + i \in DOMAIN ages /\ k + j \in DOMAIN ages /\ k + i <= k + j
        /\ left[i] = ages[k + i] + 1 /\ left[j] = ages[k + j] + 1
    BY <1>8, <2>0
  <2>2. ages[k + j] <= ages[k + i] /\ ages[k + i] \in Nat /\ ages[k + j] \in Nat
    BY <1>1, <2>1 DEF InWindow
  <2> QED
    BY <2>1, <2>2
<1> QED
  BY <1>9, <1>10 DEF InWindow, Aged, left, older, gone, k

\* A row that is written now is the youngest.
LEMMA LoggedInWindow ==
    ASSUME NEW ages \in Seq(Nat), InWindow(ages)
    PROVE  InWindow(Append(ages, 0))
<1> USE PasswordResetAssumption
<1> DEFINE new == Append(ages, 0)
<1>1. /\ Len(ages) \in Nat /\ DOMAIN ages = 1 .. Len(ages)
      /\ \A i \in DOMAIN ages : ages[i] \in Nat
  BY LenProperties, ElementOfSeq
<1>2. /\ DOMAIN new = 1 .. (Len(ages) + 1) /\ new[Len(ages) + 1] = 0
      /\ \A i \in 1 .. Len(ages) : new[i] = ages[i]
  <2>1. 0 \in Nat
    OBVIOUS
  <2>2. /\ new \in Seq(Nat) /\ Len(new) = Len(ages) + 1
        /\ \A i \in 1 .. Len(ages) : new[i] = ages[i]
        /\ new[Len(ages) + 1] = 0
    BY <2>1, AppendProperties
  <2> HIDE DEF new
  <2> QED
    BY <2>2, LenProperties
<1> HIDE DEF new
<1>3. \A i \in DOMAIN new : new[i] \in Nat /\ new[i] < Window
  BY <1>1, <1>2 DEF InWindow
<1>4. ASSUME NEW i \in DOMAIN new, NEW j \in DOMAIN new, i <= j
      PROVE  new[j] <= new[i]
  <2>1. CASE j = Len(ages) + 1
    BY <1>2, <1>3, <2>1
  <2>2. CASE j # Len(ages) + 1
    BY <1>1, <1>2, <1>4, <2>2 DEF InWindow
  <2> QED
    BY <2>1, <2>2
<1> QED
  BY <1>3, <1>4 DEF InWindow, new

\* Mails are logged and grow older; nothing else touches them.
LEMMA SendsInWindowStep ==
    ASSUME ResetRanges, SendsInWindow, PasswordResetNext PROVE SendsInWindow'
<1>1. ASSUME UNCHANGED sends PROVE SendsInWindow'
  BY <1>1 DEF SendsInWindow, InWindow
<1>2. ASSUME NEW f \in Flow, LogSend(f) PROVE SendsInWindow'
  <2> SUFFICES ASSUME NEW u \in Name PROVE InWindow(sends'[u])
    BY DEF SendsInWindow, InWindow
  <2>1. sends[u] \in Seq(Nat) /\ InWindow(sends[u])
    BY DEF ResetRanges, SendsInWindow
  <2>2. sends'[u] = sends[u] \/ sends'[u] = Append(sends[u], 0)
    BY <1>2 DEF LogSend, ResetRanges
  <2> QED
    BY <2>1, <2>2, LoggedInWindow
<1>3. CASE TickBoth
  <2> SUFFICES ASSUME NEW u \in Name PROVE InWindow(sends'[u])
    BY DEF SendsInWindow, InWindow
  <2>1. sends[u] \in Seq(Nat) /\ InWindow(sends[u]) /\ sends'[u] = Aged(sends[u])
    BY <1>3 DEF ResetRanges, SendsInWindow, TickBoth
  <2> QED
    BY <2>1, AgedInWindow
<1>4. CASE FlowNext
  BY <1>1, <1>2, <1>4 DEF FlowNext, IssueCaptcha, SolveCaptcha, CreateToken, BeginSend,
     ConsumeCaptcha, CountSends, RememberCode, FlowFails, RunOut
<1>5. ASSUME NEW p \in Proc, NEW w \in Word, ConfirmNext(p, w) PROVE SendsInWindow'
  BY <1>1, <1>5 DEF ConfirmNext, ConfirmToken, SpendToken, AbandonConfirmation, resetVars
<1>6. CASE UNCHANGED resetVars
  BY <1>1, <1>6 DEF resetVars
<1> QED
  BY <1>3, <1>4, <1>5, <1>6 DEF PasswordResetNext, ResetHandlersNext

\* The tables and handlers of this module keep their ranges, action by action.
LEMMA ResetRangesStep ==
    ASSUME SessionsTypeOK, ResetRanges, PasswordResetNext PROVE ResetRanges'
<1> USE PasswordResetAssumption DEF FlowAt
<1>f. \A f \in Flow :
         /\ flow[f] \in FlowRequest
         /\ flow[f].step # "idle" => flow[f].user \in Name
         /\ flow[f].step \in {"solved", "consumed"} => flow[f].captcha \in Captcha
         /\ flow[f].step \in {"checked", "allowed", "noted"} =>
               flow[f].token \in Token /\ token[flow[f].token] # NoRow
  BY DEF ResetRanges, FlowOK
<1>s. FlowStep = {"idle", "solved", "consumed", "checked", "allowed", "noted"}
  BY DEF FlowStep
<1>i. IdleFlow \in FlowRequest /\ IdleFlow.step = "idle"
  BY <1>s DEF IdleFlow, FlowRequest
<1>e. ASSUME NEW f \in Flow, FlowEnd(f), \A t \in Token : token'[t] = NoRow => token[t] = NoRow
      PROVE  FlowOK'
  BY <1>f, <1>i, <1>e DEF FlowEnd, FlowOK, ResetRanges
<1>g. ASSUME NEW f \in Flow, NEW step \in FlowStep, FlowGoto(f, step), step # "idle",
             flow[f].step # "idle",
             step \in {"solved", "consumed"} => flow[f].step \in {"solved", "consumed"},
             step \in {"checked", "allowed", "noted"}
                => flow[f].step \in {"checked", "allowed", "noted"},
             \A t \in Token : token'[t] = NoRow => token[t] = NoRow
      PROVE  FlowOK'
  <2>1. [flow[f] EXCEPT !.step = step] \in FlowRequest
    BY <1>f DEF FlowRequest
  <2>2. flow' = [flow EXCEPT ![f] = [flow[f] EXCEPT !.step = step]]
    BY <1>g DEF FlowGoto
  <2>3. \A h \in Flow : h # f => flow'[h] = flow[h]
    BY <2>2 DEF ResetRanges, FlowOK
  <2>4. /\ flow'[f].step = step /\ flow'[f].user = flow[f].user
        /\ flow'[f].captcha = flow[f].captcha /\ flow'[f].token = flow[f].token
    BY <1>f, <2>2 DEF ResetRanges, FlowOK, FlowRequest
  <2>5. flow' \in [Flow -> FlowRequest]
    BY <2>1, <2>2 DEF ResetRanges, FlowOK
  <2> QED
    BY <1>f, <1>g, <2>3, <2>4, <2>5 DEF FlowOK
<1>1. ASSUME NEW c \in Captcha, IssueCaptcha(c), UNCHANGED sessionsVars PROVE ResetRanges'
  BY <1>1 DEF IssueCaptcha, ResetRanges, FlowOK, sessionsVars
<1>2. ASSUME NEW f \in Flow, NEW c \in Captcha, NEW u \in Name, SolveCaptcha(f, c, u),
             UNCHANGED sessionsVars
      PROVE  ResetRanges'
  <2>1. [step |-> "solved", user |-> u, captcha |-> c, token |-> NoToken] \in FlowRequest
    BY <1>s DEF FlowRequest
  <2>2. FlowOK'
    BY <1>f, <1>2, <2>1 DEF SolveCaptcha, FlowOK, ResetRanges
  <2> QED
    BY <1>2, <2>2 DEF SolveCaptcha, ResetRanges, sessionsVars
<1>3. ASSUME NEW f \in Flow, ConsumeCaptcha(f), UNCHANGED sessionsVars PROVE ResetRanges'
  <2>1. FlowOK'
    BY <1>f, <1>g, <1>s, <1>3 DEF ConsumeCaptcha
  <2>2. captcha' \in [Captcha -> {"undrawn", "live", "gone"}]
    BY <1>f, <1>3 DEF ConsumeCaptcha, ResetRanges
  <2> QED
    BY <1>3, <2>1, <2>2 DEF ConsumeCaptcha, ResetRanges, sessionsVars
<1>4. ASSUME NEW f \in Flow, NEW t \in Token, CreateToken(f, t), UNCHANGED sessionsVars
      PROVE  ResetRanges'
  <2>1. [user |-> flow[f].user, sent |-> FALSE, used |-> FALSE,
         expired |-> FALSE, pausing |-> FALSE] \in TokenRow
    BY <1>f, <1>4 DEF CreateToken, TokenRow
  <2>2. /\ token' \in [Token -> TokenRow \cup {NoRow}]
        /\ \A s \in Token : token'[s] = NoRow => token[s] = NoRow
    BY <1>4, <2>1 DEF CreateToken, ResetRanges
  <2>3. FlowOK'
    BY <1>4, <1>e, <2>2 DEF CreateToken
  <2> QED
    BY <1>4, <2>2, <2>3 DEF CreateToken, ResetRanges, sessionsVars
<1>5. ASSUME NEW f \in Flow, NEW t \in Token, BeginSend(f, t), UNCHANGED sessionsVars
      PROVE  ResetRanges'
  <2>1. /\ token[t] # NoRow /\ token[t].user \in Name
        /\ [step |-> "checked", user |-> token[t].user, captcha |-> NoCaptcha, token |-> t]
             \in FlowRequest
    BY <1>s, <1>5 DEF BeginSend, Usable, ResetRanges, TokenRow, FlowRequest
  <2>2. FlowOK'
    BY <1>f, <1>5, <2>1 DEF BeginSend, FlowOK, ResetRanges
  <2> QED
    BY <1>5, <2>2 DEF BeginSend, ResetRanges, sessionsVars
<1>6. ASSUME NEW f \in Flow, CountSends(f), UNCHANGED sessionsVars PROVE ResetRanges'
  <2>1. FlowOK'
    BY <1>e, <1>g, <1>s, <1>6 DEF CountSends
  <2> QED
    BY <1>6, <2>1 DEF CountSends, ResetRanges, sessionsVars
<1>7. ASSUME NEW f \in Flow, RememberCode(f), UNCHANGED sessionsVars PROVE ResetRanges'
  <2> DEFINE t == flow[f].token
             row == [token[t] EXCEPT !.sent = TRUE, !.expired = FALSE, !.pausing = TRUE]
  <2>1. t \in Token /\ token[t] \in TokenRow
    BY <1>f, <1>7 DEF RememberCode, ResetRanges
  <2>2. row \in TokenRow /\ row # NoRow
    BY <2>1 DEF TokenRow
  <2>3. token' = [token EXCEPT ![t] = row]
    BY <1>7, <2>1 DEF RememberCode, ResetRanges, TokenRow
  <2>4. /\ token' \in [Token -> TokenRow \cup {NoRow}]
        /\ \A s \in Token : token'[s] = NoRow => token[s] = NoRow
    BY <2>1, <2>2, <2>3 DEF ResetRanges
  <2>5. flow[f].step = "allowed" /\ FlowGoto(f, "noted")
    BY <1>7 DEF RememberCode
  <2>6. FlowOK'
    BY <1>g, <1>s, <2>4, <2>5
  <2> QED
    BY <1>7, <2>4, <2>6 DEF RememberCode, ResetRanges, sessionsVars
<1>8. ASSUME NEW f \in Flow, LogSend(f), UNCHANGED sessionsVars PROVE ResetRanges'
  <2>1. flow[f].user \in Name /\ sends[flow[f].user] \in Seq(Nat)
    BY <1>f, <1>8 DEF LogSend, ResetRanges
  <2>2. sends' \in [Name -> Seq(Nat)]
    BY <1>8, <2>1, AppendProperties DEF LogSend, ResetRanges
  <2>3. FlowOK'
    BY <1>e, <1>8 DEF LogSend
  <2> QED
    BY <1>8, <2>2, <2>3 DEF LogSend, ResetRanges, sessionsVars
<1>9. ASSUME NEW f \in Flow, FlowFails(f), UNCHANGED sessionsVars PROVE ResetRanges'
  <2>1. FlowOK'
    BY <1>e, <1>9 DEF FlowFails
  <2> QED
    BY <1>9, <2>1 DEF FlowFails, ResetRanges, sessionsVars
<1>10. ASSUME RunOut, UNCHANGED sessionsVars PROVE ResetRanges'
  <2>1. /\ captcha' \in [Captcha -> {"undrawn", "live", "gone"}]
        /\ token' \in [Token -> TokenRow \cup {NoRow}]
        /\ \A s \in Token : token'[s] = NoRow => token[s] = NoRow
    <3>1. ASSUME NEW t \in Token, token[t] # NoRow
          PROVE  /\ [token[t] EXCEPT !.expired = TRUE] \in TokenRow
                 /\ [token[t] EXCEPT !.expired = TRUE] # NoRow
      <4>1. token[t] \in TokenRow
        BY <3>1 DEF ResetRanges
      <4> QED
        BY <4>1 DEF TokenRow
    <3>2. ASSUME NEW c \in Captcha, captcha' = [captcha EXCEPT ![c] = "gone"], UNCHANGED token
          PROVE  <2>1!1 /\ <2>1!2 /\ <2>1!3
      BY <3>2 DEF ResetRanges
    <3>3. ASSUME NEW t \in Token, token[t] # NoRow,
                 token' = [token EXCEPT ![t] = [token[t] EXCEPT !.expired = TRUE]],
                 UNCHANGED captcha
          PROVE  <2>1!1 /\ <2>1!2 /\ <2>1!3
      BY <3>1, <3>3 DEF ResetRanges
    <3> QED
      BY <1>10, <3>2, <3>3 DEF RunOut
  <2>2. FlowOK'
    BY <1>f, <1>10, <2>1 DEF RunOut, FlowOK, ResetRanges
  <2> QED
    BY <1>10, <2>1, <2>2 DEF RunOut, ResetRanges, sessionsVars
<1>r. req \in [Proc -> Request]
  BY DEF SessionsTypeOK
<1>11. ASSUME NEW p \in Proc, NEW t \in Token, NEW w \in Word, ConfirmToken(p, t, w)
       PROVE  ResetRanges'
  <2>1. \A q \in Proc \ {p} : req'[q] = req[q]
    BY <1>r, <1>11 DEF ConfirmToken, BeginReset, Begin
  <2>2. /\ spending' \in [Proc -> Token \cup {NoToken}]
        /\ spending'[p] = t /\ t # NoToken /\ token[t] # NoRow
        /\ \A q \in Proc \ {p} : spending'[q] = spending[q]
    BY <1>11 DEF ConfirmToken, Usable, ResetRanges
  <2>3. FlowOK'
    BY <1>11 DEF ConfirmToken, ResetRanges, FlowOK
  <2> QED
    BY <1>11, <2>1, <2>2, <2>3 DEF ConfirmToken, ResetRanges
<1>12. ASSUME NEW p \in Proc, SpendToken(p) PROVE ResetRanges'
  <2> DEFINE t == spending[p]
             row == [token[t] EXCEPT !.used = TRUE]
  <2>1. t \in Token /\ answers[t] \in Nat
    BY <1>12 DEF SpendToken, FinishReset, At, ResetRanges, ResetStep
  <2>2. \A q \in Proc : req'[q] = req[q] \/ req'[q].step = "idle"
    BY <1>r, <1>12 DEF SpendToken, FinishReset, End, Idle
  <2>3. /\ spending' \in [Proc -> Token \cup {NoToken}]
        /\ \A q \in Proc \ {p} : spending'[q] = spending[q]
        /\ req'[p].step = "idle"
    BY <1>r, <1>12 DEF SpendToken, FinishReset, End, Idle, ResetRanges
  <2>4. /\ token' \in [Token -> TokenRow \cup {NoRow}]
        /\ \A s \in Token : token'[s] = NoRow => token[s] = NoRow
    <3>1. token' = [token EXCEPT ![t] = row] /\ token[t] \in TokenRow
      BY <1>12, <2>1 DEF SpendToken, ResetRanges
    <3>2. row \in TokenRow /\ row # NoRow
      BY <3>1 DEF TokenRow
    <3> QED
      BY <2>1, <3>1, <3>2 DEF ResetRanges
  <2>5. answers' \in [Token -> Nat]
    BY <1>12, <2>1 DEF SpendToken, ResetRanges
  <2>6. FlowOK'
    BY <1>f, <1>12, <2>4 DEF SpendToken, FlowOK, ResetRanges
  <2> QED
    BY <1>12, <2>2, <2>3, <2>4, <2>5, <2>6 DEF SpendToken, ResetRanges, ResetStep
<1>13. ASSUME NEW p \in Proc, AbandonConfirmation(p) PROVE ResetRanges'
  <2>1. /\ req'[p].step = "idle" /\ \A q \in Proc \ {p} : req'[q] = req[q]
        /\ spending' \in [Proc -> Token \cup {NoToken}]
        /\ \A q \in Proc \ {p} : spending'[q] = spending[q]
    BY <1>r, <1>13 DEF AbandonConfirmation, Abandon, End, Idle, ResetRanges
  <2> QED
    BY <1>13, <2>1 DEF AbandonConfirmation, ResetRanges, FlowOK, ResetStep
<1>14. ASSUME NEW p \in Proc, ResetPassword(p) \/ Unlock(p) \/ RevokeSessions(p),
              UNCHANGED resetVars
       PROVE  ResetRanges'
  <2>1. \A q \in Proc : req'[q].step \in ResetStep => req[q].step \in ResetStep
    BY <1>r, <1>14
       DEF ResetPassword, Unlock, RevokeSessions, Goto, At, Request, ResetStep
  <2> QED
    BY <1>14, <2>1 DEF resetVars, ResetRanges, FlowOK
<1>15. CASE TickBoth
  <2>1. \A q \in Proc : req'[q].step \in ResetStep => req[q].step \in ResetStep
    BY <1>15, OthersConfirmNothing DEF TickBoth
  <2>2. sends' \in [Name -> Seq(Nat)]
    BY <1>15, AgedType DEF TickBoth, ResetRanges
  <2>3. /\ token' \in [Token -> TokenRow \cup {NoRow}]
        /\ \A s \in Token : token'[s] = NoRow => token[s] = NoRow
    <3>1. ASSUME NEW t \in Token, token[t] # NoRow
          PROVE  /\ [token[t] EXCEPT !.pausing = FALSE] \in TokenRow
                 /\ [token[t] EXCEPT !.pausing = FALSE] # NoRow
      <4>1. token[t] \in TokenRow
        BY <3>1 DEF ResetRanges
      <4> QED
        BY <4>1 DEF TokenRow
    <3> QED
      BY <1>15, <3>1 DEF TickBoth
  <2>4. FlowOK'
    BY <1>f, <1>15, <2>3 DEF TickBoth, FlowOK, ResetRanges
  <2> QED
    BY <1>15, <2>1, <2>2, <2>3, <2>4 DEF TickBoth, ResetRanges
<1>16. ASSUME UNCHANGED resetVars,
              \A q \in Proc : req'[q].step \in ResetStep => req[q].step \in ResetStep
       PROVE  ResetRanges'
  BY <1>16 DEF resetVars, ResetRanges, FlowOK
<1>17. CASE /\ \/ \E p \in Proc : \/ LoginNext(p) \/ FinishChange(p)
                                  \/ \E u \in Name, old, w \in Word : BeginChange(p, u, old, w)
               \/ \E j \in Jti : Logout(j) \/ ExpireSession(j)
               \/ \E u \in Name, disabled \in BOOLEAN : SetDisabled(u, disabled)
            /\ UNCHANGED resetVars
  BY <1>16, <1>17, OthersConfirmNothing
<1> QED
  BY <1>1, <1>2, <1>3, <1>4, <1>5, <1>6, <1>7, <1>8, <1>9, <1>10, <1>11, <1>12, <1>13,
     <1>14, <1>15, <1>17 DEF PasswordResetNext, ResetHandlersNext, FlowNext, ConfirmNext

\* The handlers in flight are some of all; so are the confirmations of a token.
LEMMA MailingFinite ==
    /\ Cardinality(Flow) \in Nat \ {0}
    /\ \A u : /\ IsFiniteSet(Mailing(u)) /\ Cardinality(Mailing(u)) \in Nat
              /\ Cardinality(Mailing(u)) <= Cardinality(Flow)
    /\ \A u : /\ IsFiniteSet(Mailing(u)') /\ Cardinality(Mailing(u)') \in Nat
              /\ Cardinality(Mailing(u)') <= Cardinality(Flow)
<1>1. IsFiniteSet(Flow) /\ Flow # {}
  BY PasswordResetAssumption
<1>2. Cardinality(Flow) \in Nat \ {0}
  BY <1>1, FS_CardinalityType, FS_EmptySet
<1>3. ASSUME NEW S \in SUBSET Flow
      PROVE  IsFiniteSet(S) /\ Cardinality(S) \in Nat /\ Cardinality(S) <= Cardinality(Flow)
  BY <1>1, FS_Subset, FS_CardinalityType
<1>4. \A u : Mailing(u) \in SUBSET Flow /\ Mailing(u)' \in SUBSET Flow
  BY DEF Mailing
<1> QED
  BY <1>2, <1>3, <1>4

LEMMA SpendingFinite ==
    /\ Cardinality(Proc) \in Nat \ {0}
    /\ \A t : /\ IsFiniteSet(Spending(t)) /\ Cardinality(Spending(t)) \in Nat
              /\ Cardinality(Spending(t)) <= Cardinality(Proc)
    /\ \A t : /\ IsFiniteSet(Spending(t)') /\ Cardinality(Spending(t)') \in Nat
              /\ Cardinality(Spending(t)') <= Cardinality(Proc)
<1>1. Cardinality(Proc) \in Nat \ {0}
  BY FS_CardinalityType, FS_EmptySet
<1>2. ASSUME NEW S \in SUBSET Proc
      PROVE  IsFiniteSet(S) /\ Cardinality(S) \in Nat /\ Cardinality(S) <= Cardinality(Proc)
  BY FS_Subset, FS_CardinalityType
<1>3. \A t : Spending(t) \in SUBSET Proc /\ Spending(t)' \in SUBSET Proc
  BY DEF Spending
<1> QED
  BY <1>1, <1>2, <1>3

\* A step with which nothing grows keeps the count of mails.
LEMMA SendsShrink ==
    ASSUME ResetRanges, ResetRanges', SendsCounted,
           \A u \in Name : /\ Len(sends'[u]) <= Len(sends[u])
                           /\ Mailing(u)' \subseteq Mailing(u)
    PROVE  SendsCounted'
<1> SUFFICES ASSUME NEW u \in Name
             PROVE  Len(sends'[u]) + Cardinality(Mailing(u)') < MaxSends + Cardinality(Flow)
  BY DEF SendsCounted
<1>1. Cardinality(Mailing(u)') <= Cardinality(Mailing(u))
  BY MailingFinite, FS_Subset
<1>2. Len(sends'[u]) \in Nat /\ Len(sends[u]) \in Nat
  BY LenProperties DEF ResetRanges
<1>3. MaxSends \in Nat
  BY PasswordResetAssumption
<1> HIDE DEF Mailing
<1>4. /\ Cardinality(Mailing(u)) \in Nat /\ Cardinality(Mailing(u)') \in Nat
      /\ Cardinality(Flow) \in Nat
  BY MailingFinite
<1>5. Len(sends[u]) + Cardinality(Mailing(u)) < MaxSends + Cardinality(Flow)
  BY DEF SendsCounted
<1> QED
  BY <1>1, <1>2, <1>3, <1>4, <1>5

\* The count of mails, action by action.
LEMMA SendsStep ==
    ASSUME ResetRanges, ResetRanges', SendsCounted, PasswordResetNext PROVE SendsCounted'
<1> USE DEF FlowAt
<1>f. flow \in [Flow -> FlowRequest]
  BY DEF ResetRanges, FlowOK
<1>n. \A u \in Name : Len(sends[u]) \in Nat /\ Len(sends'[u]) \in Nat
  BY LenProperties DEF ResetRanges
<1>c. \A u \in Name : /\ Cardinality(Mailing(u)) \in Nat
                      /\ Cardinality(Mailing(u)') \in Nat
                      /\ Cardinality(Mailing(u)') <= Cardinality(Flow)
                      /\ Cardinality(Flow) \in Nat /\ MaxSends \in Nat \ {0}
                      /\ Len(sends[u]) + Cardinality(Mailing(u)) < MaxSends + Cardinality(Flow)
  BY MailingFinite, PasswordResetAssumption DEF SendsCounted
<1>a. ASSUME NEW f \in Flow, \A g \in Flow \ {f} : flow'[g] = flow[g],
             flow'[f].step \in {"allowed", "noted"} =>
                flow[f].step \in {"allowed", "noted"} /\ flow'[f].user = flow[f].user,
             UNCHANGED sends
      PROVE  SendsCounted'
  <2>1. \A u \in Name : Mailing(u)' \subseteq Mailing(u)
    BY <1>a DEF Mailing
  <2> QED
    BY <1>a, <1>n, <2>1, SendsShrink
<1>e. ASSUME NEW f \in Flow, FlowEnd(f), UNCHANGED sends PROVE SendsCounted'
  BY <1>a, <1>e, <1>f DEF FlowEnd, IdleFlow
<1>u. ASSUME UNCHANGED flow, \A u \in Name : Len(sends'[u]) <= Len(sends[u])
      PROVE  SendsCounted'
  BY <1>u, SendsShrink DEF Mailing
<1>1. ASSUME NEW c \in Captcha, IssueCaptcha(c) PROVE SendsCounted'
  BY <1>1, <1>n, <1>u DEF IssueCaptcha
<1>2. ASSUME NEW f \in Flow, NEW c \in Captcha, NEW u \in Name, SolveCaptcha(f, c, u)
      PROVE  SendsCounted'
  BY <1>2, <1>a, <1>f DEF SolveCaptcha
<1>3. ASSUME NEW f \in Flow, ConsumeCaptcha(f) PROVE SendsCounted'
  BY <1>3, <1>a, <1>f DEF ConsumeCaptcha, FlowGoto, FlowRequest
<1>4. ASSUME NEW f \in Flow, NEW t \in Token, CreateToken(f, t) PROVE SendsCounted'
  BY <1>4, <1>e DEF CreateToken
<1>5. ASSUME NEW f \in Flow, NEW t \in Token, BeginSend(f, t) PROVE SendsCounted'
  BY <1>5, <1>a, <1>f DEF BeginSend
<1>6. ASSUME NEW f \in Flow, CountSends(f) PROVE SendsCounted'
  <2> DEFINE u == flow[f].user
  <2>1. CASE ~(Len(sends[u]) < MaxSends)
    BY <1>6, <1>e, <2>1 DEF CountSends
  <2>2. CASE Len(sends[u]) < MaxSends
    <3>1. /\ u \in Name /\ UNCHANGED sends
          /\ \A g \in Flow \ {f} : flow'[g] = flow[g]
          /\ flow'[f].user = u
      BY <1>6, <1>f, <2>2 DEF CountSends, FlowGoto, FlowRequest, ResetRanges, FlowOK
    <3> HIDE DEF u
    <3>2. \A v \in Name \ {u} : Mailing(v)' \subseteq Mailing(v)
      BY <3>1 DEF Mailing
    <3>3. \A v \in Name \ {u} : Cardinality(Mailing(v)') <= Cardinality(Mailing(v))
      BY <3>2, MailingFinite, FS_Subset
    <3> HIDE DEF Mailing
    <3> QED
      BY <1>c, <1>n, <2>2, <3>1, <3>3, SMTT(60) DEF SendsCounted
  <2> QED
    BY <2>1, <2>2
<1>7. ASSUME NEW f \in Flow, RememberCode(f) PROVE SendsCounted'
  BY <1>7, <1>a, <1>f DEF RememberCode, FlowGoto, FlowRequest
<1>8. ASSUME NEW f \in Flow, LogSend(f) PROVE SendsCounted'
  <2>1. PICK u \in Name :
        /\ sends' = [sends EXCEPT ![u] = Append(@, 0)]
        /\ f \in Mailing(u)
        /\ \A g \in Flow \ {f} : flow'[g] = flow[g]
        /\ flow'[f].step = "idle"
    BY <1>8, <1>f DEF LogSend, FlowEnd, IdleFlow, Mailing, ResetRanges, FlowOK
  <2>2. /\ Len(sends'[u]) = Len(sends[u]) + 1
        /\ \A v \in Name \ {u} : sends'[v] = sends[v]
    <3>1. sends[u] \in Seq(Nat) /\ sends'[u] = Append(sends[u], 0)
      BY <2>1 DEF ResetRanges
    <3> QED
      BY <2>1, <3>1, AppendProperties DEF ResetRanges
  <2>3. Mailing(u)' \subseteq Mailing(u) \ {f}
    BY <2>1 DEF Mailing
  <2>4. \A v \in Name \ {u} : Mailing(v)' \subseteq Mailing(v)
    BY <2>1 DEF Mailing
  <2>5. \A v \in Name \ {u} : Cardinality(Mailing(v)') <= Cardinality(Mailing(v))
    BY <2>4, MailingFinite, FS_Subset
  <2> HIDE DEF Mailing
  <2>6. /\ IsFiniteSet(Mailing(u) \ {f})
        /\ Cardinality(Mailing(u) \ {f}) = Cardinality(Mailing(u)) - 1
    BY <2>1, MailingFinite, FS_RemoveElement
  <2>7. Cardinality(Mailing(u)') <= Cardinality(Mailing(u)) - 1
    BY <2>3, <2>6, FS_Subset
  <2> QED
    BY <1>c, <1>n, <2>1, <2>2, <2>5, <2>7, SMTT(60) DEF SendsCounted
<1>9. ASSUME NEW f \in Flow, FlowFails(f) PROVE SendsCounted'
  BY <1>9, <1>e DEF FlowFails
<1>10. CASE TickBoth
  <2>1. \A u \in Name : Len(sends'[u]) <= Len(sends[u])
    BY <1>10, AgedType DEF TickBoth, ResetRanges
  <2> QED
    BY <1>10, <1>u, <2>1 DEF TickBoth
<1>11. ASSUME UNCHANGED <<flow, sends>> PROVE SendsCounted'
  BY <1>11, <1>n, <1>u
<1>12. ASSUME NEW p \in Proc, NEW w \in Word, ConfirmNext(p, w) PROVE SendsCounted'
  BY <1>11, <1>12 DEF ConfirmNext, ConfirmToken, SpendToken, AbandonConfirmation, resetVars
<1>13. CASE RunOut \/ UNCHANGED resetVars
  BY <1>11, <1>13 DEF RunOut, resetVars
<1> QED
  BY <1>1, <1>2, <1>3, <1>4, <1>5, <1>6, <1>7, <1>8, <1>9, <1>10, <1>12, <1>13
     DEF PasswordResetNext, ResetHandlersNext, FlowNext

\* A step that answers nothing keeps the count: what is used stays so.
LEMMA AnswersShrink ==
    ASSUME ResetRanges, AnswersCounted, UNCHANGED answers,
           \A t \in Token : /\ Spending(t)' \subseteq Spending(t)
                            /\ token[t] # NoRow /\ token[t].used =>
                                  token'[t] # NoRow /\ token'[t].used
    PROVE  AnswersCounted'
<1> SUFFICES ASSUME NEW t \in Token
             PROVE  /\ answers'[t] > 0 => token'[t] # NoRow /\ token'[t].used
                    /\ answers'[t] + Cardinality(Spending(t)') <= Cardinality(Proc)
  BY DEF AnswersCounted
<1>1. Cardinality(Spending(t)') <= Cardinality(Spending(t))
  BY SpendingFinite, FS_Subset
<1>2. answers[t] \in Nat
  BY DEF ResetRanges
<1> HIDE DEF Spending
<1>3. /\ Cardinality(Spending(t)) \in Nat /\ Cardinality(Spending(t)') \in Nat
      /\ Cardinality(Proc) \in Nat
  BY SpendingFinite
<1>4. /\ answers[t] > 0 => token[t] # NoRow /\ token[t].used
      /\ answers[t] + Cardinality(Spending(t)) <= Cardinality(Proc)
  BY DEF AnswersCounted
<1> QED
  BY <1>1, <1>2, <1>3, <1>4

\* The answers of a token, action by action.
LEMMA AnswersStep ==
    ASSUME ResetRanges, ResetRanges', AnswersCounted, PasswordResetNext
    PROVE  AnswersCounted'
<1> USE PasswordResetAssumption
<1>r. /\ \A t \in Token : token[t] # NoRow => token[t] \in TokenRow
      /\ token \in [Token -> TokenRow \cup {NoRow}]
      /\ spending \in [Proc -> Token \cup {NoToken}]
      /\ answers \in [Token -> Nat]
  BY DEF ResetRanges
<1>u. ASSUME UNCHANGED <<token, spending, answers>> PROVE AnswersCounted'
  BY <1>u, AnswersShrink DEF Spending
<1>k. ASSUME UNCHANGED <<spending, answers>>,
             \A t \in Token : token[t] # NoRow /\ token[t].used =>
                                 token'[t] # NoRow /\ token'[t].used
      PROVE  AnswersCounted'
  BY <1>k, AnswersShrink DEF Spending
<1>1. ASSUME NEW c \in Captcha, IssueCaptcha(c) PROVE AnswersCounted'
  BY <1>1, <1>u DEF IssueCaptcha
<1>2. ASSUME NEW f \in Flow, NEW c \in Captcha, NEW u \in Name, NEW t \in Token,
             \/ SolveCaptcha(f, c, u) \/ ConsumeCaptcha(f) \/ BeginSend(f, t)
             \/ CountSends(f) \/ LogSend(f) \/ FlowFails(f)
      PROVE  AnswersCounted'
  BY <1>2, <1>u DEF SolveCaptcha, ConsumeCaptcha, BeginSend, CountSends, LogSend, FlowFails
<1>3. ASSUME NEW f \in Flow, NEW t \in Token, CreateToken(f, t) PROVE AnswersCounted'
  <2>1. \A s \in Token : token[s] # NoRow => token'[s] = token[s]
    BY <1>3, <1>r DEF CreateToken
  <2> QED
    BY <1>3, <1>k, <2>1 DEF CreateToken
<1>4. ASSUME NEW f \in Flow, RememberCode(f) PROVE AnswersCounted'
  <2> DEFINE t == flow[f].token
             row == [token[t] EXCEPT !.sent = TRUE, !.expired = FALSE, !.pausing = TRUE]
  <2>1. t \in Token /\ token[t] \in TokenRow
    BY <1>4 DEF RememberCode, FlowAt, ResetRanges, FlowOK
  <2>2. row \in TokenRow /\ row # NoRow /\ row.used = token[t].used
    BY <2>1 DEF TokenRow
  <2>3. token' = [token EXCEPT ![t] = row]
    BY <1>4, <2>1 DEF RememberCode, ResetRanges, TokenRow
  <2> HIDE DEF t, row
  <2>4. \A s \in Token : token[s] # NoRow /\ token[s].used =>
           token'[s] # NoRow /\ token'[s].used
    BY <1>r, <2>1, <2>2, <2>3
  <2> QED
    BY <1>4, <1>k, <2>4 DEF RememberCode
<1>5. CASE RunOut
  <2>1. \A s \in Token : token[s] # NoRow /\ token[s].used =>
           token'[s] # NoRow /\ token'[s].used
    <3>1. ASSUME NEW t \in Token, token[t] # NoRow
          PROVE  /\ [token[t] EXCEPT !.expired = TRUE] # NoRow
                 /\ [token[t] EXCEPT !.expired = TRUE].used = token[t].used
      BY <1>r, <3>1 DEF TokenRow
    <3>2. ASSUME NEW t \in Token, token[t] # NoRow,
                 token' = [token EXCEPT ![t] = [token[t] EXCEPT !.expired = TRUE]]
          PROVE  <2>1
      BY <1>r, <3>1, <3>2
    <3> QED
      BY <1>5, <3>2 DEF RunOut
  <2> QED
    BY <1>5, <1>k, <2>1 DEF RunOut
<1>6. CASE TickBoth
  <2>1. \A s \in Token : token[s] # NoRow =>
           token'[s] # NoRow /\ token'[s].used = token[s].used
    BY <1>6, <1>r DEF TickBoth, TokenRow
  <2> QED
    BY <1>6, <1>k, <2>1 DEF TickBoth
<1>7. ASSUME NEW p \in Proc, NEW t \in Token, NEW w \in Word, ConfirmToken(p, t, w)
      PROVE  AnswersCounted'
  <2>1. ~token[t].used /\ UNCHANGED <<token, answers>>
    BY <1>7 DEF ConfirmToken, Usable
  <2>2. ~(answers[t] > 0)
    BY <2>1 DEF AnswersCounted
  <2>3. \A s \in Token \ {t} : Spending(s)' \subseteq Spending(s)
    BY <1>7, <1>r DEF ConfirmToken, Spending
  <2>4. \A s \in Token \ {t} : Cardinality(Spending(s)') <= Cardinality(Spending(s))
    BY <2>3, SpendingFinite, FS_Subset
  <2> HIDE DEF Spending
  <2>5. \A s \in Token :
           /\ Cardinality(Spending(s)) \in Nat /\ Cardinality(Spending(s)') \in Nat
           /\ Cardinality(Spending(s)') <= Cardinality(Proc) /\ Cardinality(Proc) \in Nat
    BY SpendingFinite
  <2>6. ASSUME NEW s \in Token
        PROVE  answers[s] + Cardinality(Spending(s)') <= Cardinality(Proc)
    BY <1>r, <2>2, <2>4, <2>5, <2>6 DEF AnswersCounted
  <2> QED
    BY <2>1, <2>6 DEF AnswersCounted
<1>8. ASSUME NEW p \in Proc, SpendToken(p) PROVE AnswersCounted'
  <2>1. PICK t \in Token :
        /\ t = spending[p] /\ token[t] \in TokenRow
        /\ token' = [token EXCEPT ![t].used = TRUE]
        /\ answers' = [answers EXCEPT ![t] = @ + 1]
        /\ spending' = [spending EXCEPT ![p] = NoToken]
    <3>1. req[p].step \in ResetStep
      BY <1>8 DEF SpendToken, FinishReset, At, ResetStep
    <3>2. spending[p] \in Token /\ token[spending[p]] \in TokenRow
      BY <3>1 DEF ResetRanges
    <3> QED
      BY <1>8, <3>2 DEF SpendToken
  <2>2. p \in Spending(t) /\ Spending(t)' \subseteq Spending(t) \ {p}
    BY <1>r, <2>1 DEF Spending
  <2>3. \A s \in Token : Spending(s)' \subseteq Spending(s)
    BY <1>r, <2>1 DEF Spending
  <2>4. \A s \in Token : Cardinality(Spending(s)') <= Cardinality(Spending(s))
    BY <2>3, SpendingFinite, FS_Subset
  <2>5. /\ token'[t].used /\ token'[t] # NoRow
        /\ \A s \in Token \ {t} : token'[s] = token[s] /\ answers'[s] = answers[s]
        /\ answers'[t] = answers[t] + 1
    <3>1. /\ token'[t] = [token[t] EXCEPT !.used = TRUE]
          /\ \A s \in Token \ {t} : token'[s] = token[s]
      BY <1>r, <2>1
    <3>2. token'[t] \in TokenRow /\ token'[t].used
      <4> DEFINE row == [token[t] EXCEPT !.used = TRUE]
      <4>1. token[t] \in TokenRow
        BY <2>1
      <4>2. row \in TokenRow /\ row.used
        BY <4>1 DEF TokenRow
      <4> QED
        BY <3>1, <4>2
    <3>3. /\ \A s \in Token \ {t} : answers'[s] = answers[s]
          /\ answers'[t] = answers[t] + 1
      BY <1>r, <2>1
    <3>4. token'[t] # NoRow
      BY <3>2
    <3> QED
      BY <3>1, <3>2, <3>3, <3>4
  <2> HIDE DEF Spending
  <2>6. /\ IsFiniteSet(Spending(t) \ {p})
        /\ Cardinality(Spending(t) \ {p}) = Cardinality(Spending(t)) - 1
    BY <2>2, SpendingFinite, FS_RemoveElement
  <2>7. Cardinality(Spending(t)') <= Cardinality(Spending(t)) - 1
    BY <2>2, <2>6, FS_Subset
  <2>8. \A s \in Token :
           /\ Cardinality(Spending(s)) \in Nat /\ Cardinality(Spending(s)') \in Nat
           /\ Cardinality(Proc) \in Nat
    BY SpendingFinite
  <2>9. ASSUME NEW s \in Token
        PROVE  answers'[s] + Cardinality(Spending(s)') <= Cardinality(Proc)
    BY <1>r, <2>4, <2>5, <2>7, <2>8 DEF AnswersCounted
  <2> QED
    BY <2>5, <2>9 DEF AnswersCounted
<1>9. ASSUME NEW p \in Proc, AbandonConfirmation(p) PROVE AnswersCounted'
  <2>1. \A s \in Token : Spending(s)' \subseteq Spending(s)
    BY <1>9, <1>r DEF AbandonConfirmation, Spending
  <2> QED
    BY <1>9, <2>1, AnswersShrink DEF AbandonConfirmation
<1>10. ASSUME UNCHANGED resetVars PROVE AnswersCounted'
  BY <1>10, <1>u DEF resetVars
<1>11. ASSUME NEW p \in Proc, NEW w \in Word, ConfirmNext(p, w) PROVE AnswersCounted'
  BY <1>7, <1>8, <1>9, <1>10, <1>11 DEF ConfirmNext
<1>12. ASSUME FlowNext PROVE AnswersCounted'
  <2>1. ASSUME NEW f \in Flow,
               \/ \E c \in Captcha, u \in Name : SolveCaptcha(f, c, u)
               \/ \E t \in Token : CreateToken(f, t) \/ BeginSend(f, t)
               \/ ConsumeCaptcha(f) \/ CountSends(f) \/ RememberCode(f) \/ LogSend(f)
               \/ FlowFails(f)
        PROVE  AnswersCounted'
    BY <1>u, <1>3, <1>4, <2>1 DEF SolveCaptcha, ConsumeCaptcha, BeginSend, CountSends,
       LogSend, FlowFails
  <2> QED
    BY <1>1, <1>5, <1>12, <2>1 DEF FlowNext
<1> QED
  BY <1>6, <1>10, <1>11, <1>12 DEF PasswordResetNext, ResetHandlersNext

LEMMA PasswordResetInitInv == PasswordResetInit => PasswordResetInv
<1> SUFFICES ASSUME PasswordResetInit PROVE PasswordResetInv
  OBVIOUS
<1> USE PasswordResetAssumption DEF PasswordResetInit
<1>1. SessionsInv
  BY InitInv
<1>2. ResetRanges
  <2>1. IdleFlow \in FlowRequest /\ IdleFlow.step = "idle"
    BY DEF IdleFlow, FlowRequest, FlowStep
  <2>2. FlowOK
    BY <2>1 DEF FlowOK
  <2>3. sends \in [Name -> Seq(Nat)]
    OBVIOUS
  <2>4. \A p \in Proc : req[p].step \notin ResetStep
    BY DEF SessionsInit, Idle, ResetStep
  <2> QED
    BY <2>2, <2>3, <2>4 DEF ResetRanges
<1>3. SendsCounted
  <2>1. \A u \in Name : Mailing(u) = {} /\ Len(sends[u]) = 0
    BY DEF Mailing, IdleFlow
  <2>2. Cardinality(Flow) \in Nat \ {0} /\ MaxSends \in Nat \ {0}
    BY MailingFinite
  <2>3. \A u \in Name : Cardinality(Mailing(u)) = 0
    BY <2>1, FS_EmptySet
  <2> HIDE DEF Mailing
  <2> QED
    BY <2>1, <2>2, <2>3 DEF SendsCounted
<1>4. AnswersCounted
  <2>1. \A t \in Token : Spending(t) = {} /\ answers[t] = 0
    BY DEF Spending
  <2>2. Cardinality(Proc) \in Nat
    BY SpendingFinite
  <2>3. \A t \in Token : Cardinality(Spending(t)) = 0
    BY <2>1, FS_EmptySet
  <2> HIDE DEF Spending
  <2> QED
    BY <2>1, <2>2, <2>3 DEF AnswersCounted
<1>5. SendsInWindow
  BY DEF SendsInWindow, InWindow
<1> QED
  BY <1>1, <1>2, <1>3, <1>4, <1>5 DEF PasswordResetInv

LEMMA PasswordResetStepInv ==
    PasswordResetInv /\ [PasswordResetNext]_passwordResetVars => PasswordResetInv'
<1>1. ASSUME PasswordResetInv, PasswordResetNext PROVE PasswordResetInv'
  <2>1. /\ SessionsTypeOK /\ ResetRanges /\ SendsCounted /\ SendsInWindow
        /\ AnswersCounted /\ SessionsInv
    BY <1>1 DEF PasswordResetInv, SessionsInv
  <2>2. SessionsInv'
    BY <1>1, <2>1, ResetStepsAreSessions, StepInv
  <2>3. ResetRanges'
    BY <1>1, <2>1, ResetRangesStep
  <2> QED
    BY <1>1, <2>1, <2>2, <2>3, SendsStep, SendsInWindowStep, AnswersStep DEF PasswordResetInv
<1>2. ASSUME PasswordResetInv, UNCHANGED passwordResetVars PROVE PasswordResetInv'
  <2>1. SessionsInv'
    BY <1>2, StepInv DEF PasswordResetInv, passwordResetVars
  <2> QED
    BY <1>2, <2>1 DEF PasswordResetInv, passwordResetVars, resetVars, sessionsVars, ResetRanges,
       FlowOK, SendsCounted, SendsInWindow, InWindow, Mailing, AnswersCounted, Spending
<1> QED
  BY <1>1, <1>2

LEMMA ResetInvariance == PasswordResetSpec => []PasswordResetInv
BY PasswordResetInitInv, PasswordResetStepInv, PTL DEF PasswordResetSpec

LEMMA PasswordResetInvTypes == PasswordResetInv => PasswordResetTypeOK
<1> SUFFICES ASSUME PasswordResetInv PROVE PasswordResetTypeOK
  OBVIOUS
<1>1. ASSUME NEW u \in Name
      PROVE  sends[u] \in Seq(0..Window)
  <2>1. sends[u] \in Seq(Nat) /\ InWindow(sends[u])
    BY DEF PasswordResetInv, ResetRanges, SendsInWindow
  <2>2. /\ Len(sends[u]) \in Nat /\ DOMAIN sends[u] = 1 .. Len(sends[u])
        /\ sends[u] = [i \in 1 .. Len(sends[u]) |-> sends[u][i]]
    BY <2>1, LenProperties
  <2>3. ASSUME NEW i \in 1 .. Len(sends[u]) PROVE sends[u][i] \in 0..Window
    <3>1. sends[u][i] \in Nat /\ sends[u][i] < Window
      BY <2>1, <2>2, ElementOfSeq DEF InWindow
    <3>2. Window \in Nat
      BY PasswordResetAssumption
    <3> QED
      BY <3>1, <3>2
  <2>4. sends[u] \in [1 .. Len(sends[u]) -> 0..Window]
    BY <2>2, <2>3
  <2> QED
    BY <2>2, <2>4, SeqDef
<1>2. sends \in [Name -> Seq(0..Window)]
  BY <1>1 DEF PasswordResetInv, ResetRanges
<1> QED
  BY <1>2 DEF PasswordResetInv, SessionsInv, ResetRanges, FlowOK, PasswordResetTypeOK

\* Every variable keeps its range; of the log of mails that is that the rows counted
\* are those of the window, whichever way the ticks fall between them.
THEOREM PasswordResetTypeCorrect == PasswordResetSpec => []PasswordResetTypeOK
BY PasswordResetInvTypes, ResetInvariance, PTL

\* However sends interleave with one another and with the mail server, an address
\* has fewer mails in the window than the limit and the handlers: password_reset.go.
THEOREM SendsStayBounded == PasswordResetSpec => []SendsBounded
<1>1. PasswordResetInv => SendsBounded
  <2> SUFFICES ASSUME PasswordResetInv, NEW u \in Name
               PROVE  Len(sends[u]) < MaxSends + Cardinality(Flow)
    BY DEF SendsBounded
  <2>1. Len(sends[u]) \in Nat
    BY LenProperties DEF PasswordResetInv, ResetRanges
  <2>2. Len(sends[u]) + Cardinality(Mailing(u)) < MaxSends + Cardinality(Flow)
    BY DEF PasswordResetInv, SendsCounted
  <2> HIDE DEF Mailing
  <2>3. /\ Cardinality(Mailing(u)) \in Nat /\ Cardinality(Flow) \in Nat
        /\ MaxSends \in Nat
    BY MailingFinite, PasswordResetAssumption
  <2> QED
    BY <2>1, <2>2, <2>3
<1> QED
  BY <1>1, ResetInvariance, PTL

\* A token is answered by confirmations that ran at the same time at most; one that
\* begins after an answer is refused: password_reset.go.
THEOREM TokensAnswerFew == PasswordResetSpec => []TokenAnswersFew
<1>1. PasswordResetInv => TokenAnswersFew
  <2> SUFFICES ASSUME PasswordResetInv, NEW t \in Token
               PROVE  answers[t] <= Cardinality(Proc)
    BY DEF TokenAnswersFew
  <2>1. /\ answers[t] \in Nat
        /\ answers[t] + Cardinality(Spending(t)) <= Cardinality(Proc)
    BY DEF PasswordResetInv, ResetRanges, AnswersCounted
  <2> HIDE DEF Spending
  <2>2. Cardinality(Spending(t)) \in Nat /\ Cardinality(Proc) \in Nat
    BY SpendingFinite
  <2> QED
    BY <2>1, <2>2
<1> QED
  BY <1>1, ResetInvariance, PTL

\* What Sessions promises of failures and revoked sessions, it promises with the
\* whole of the reset around it: login_throttle.go, password_reset.go.
THEOREM ResetsKeepSessions == PasswordResetSpec => [](FailuresBounded /\ ResetRevokes)
<1>1. PasswordResetInv => FailuresBounded /\ ResetRevokes
  BY SessionsInvImplies DEF PasswordResetInv
<1> QED
  BY <1>1, ResetInvariance, PTL

-----------------------------------------------------------------------------
(* Wecom: whose fault it is that a call gives up.                          *)

\* A call that insists fetched its token: WeCom takes it, or revoked it since.
CallsOK ==
    /\ cached \in Key \cup {NoKey}
    /\ call \in [Proc -> Call]
    /\ \A p \in Proc :
          /\ call[p].step = "insisting" => call[p].key \in accepted \/ call[p].revoked
          /\ call[p].step \in {"failing", "refused"} => call[p].revoked

LEMMA CallsStep == CallsOK /\ [WecomNext]_<<sessionsVars, wecomVars>> => CallsOK'
<1> SUFFICES ASSUME CallsOK, [WecomNext]_<<sessionsVars, wecomVars>> PROVE CallsOK'
  OBVIOUS
<1> USE WecomAssumption DEF CallAt, CallStep
<1>i. IdleCall \in Call /\ IdleCall.step = "idle"
  BY DEF IdleCall, Call
<1>c. \A p \in Proc : call[p] \in Call
  BY DEF CallsOK
<1>e. ASSUME NEW p \in Proc, CallEnd(p), UNCHANGED <<accepted, cached>> PROVE CallsOK'
  BY <1>i, <1>e DEF CallEnd, CallsOK
<1>g. ASSUME NEW p \in Proc, NEW step \in CallStep, CallGoto(p, step),
             UNCHANGED accepted, cached' \in {cached, NoKey} \cup Key,
             step # "insisting", step \in {"failing", "refused"} => call[p].revoked
      PROVE  CallsOK'
  <2>1. [call[p] EXCEPT !.step = step] \in Call
    BY <1>c DEF Call
  <2>2. call' = [call EXCEPT ![p] = [call[p] EXCEPT !.step = step]]
    BY <1>g DEF CallGoto
  <2>3. call'[p].step = step /\ call'[p].revoked = call[p].revoked
    BY <1>c, <2>2 DEF CallsOK, Call
  <2>4. call' \in [Proc -> Call] /\ \A q \in Proc \ {p} : call'[q] = call[q]
    BY <2>1, <2>2 DEF CallsOK
  <2> QED
    BY <1>g, <2>3, <2>4 DEF CallsOK
<1>1. ASSUME NEW p \in Proc, NEW who \in Name \cup {NoName}, ReadCache(p, who)
      PROVE  CallsOK'
  <2> DEFINE fields == [IdleCall EXCEPT !.user = who, !.key = cached,
                           !.step = IF cached = NoKey THEN "fetching" ELSE "asking"]
  <2>1. fields \in Call /\ fields.step \in {"fetching", "asking"}
    BY DEF IdleCall, Call, CallsOK
  <2>2. call' = [call EXCEPT ![p] = fields] /\ UNCHANGED <<accepted, cached>>
    BY <1>1 DEF ReadCache
  <2> HIDE DEF fields
  <2> QED
    BY <2>1, <2>2 DEF CallsOK
<1>2. ASSUME NEW p \in Proc, NEW key \in Key, FetchKey(p, key) PROVE CallsOK'
  <2> DEFINE step == IF CallAt(p, "fetching") THEN "storing" ELSE "insisting"
             fields == [call[p] EXCEPT !.key = key, !.step = step, !.revoked = FALSE]
  <2>1. /\ fields \in Call /\ fields.key = key
        /\ fields.step \in {"storing", "insisting"}
    BY <1>c DEF Call
  <2>2. /\ call' = [call EXCEPT ![p] = fields]
        /\ accepted' = accepted \cup {key} /\ UNCHANGED cached
    BY <1>2 DEF FetchKey, Take
  <2> HIDE DEF fields, step
  <2> QED
    BY <2>1, <2>2 DEF CallsOK
<1>3. ASSUME NEW p \in Proc, StoreKey(p) PROVE CallsOK'
  <2>1. cached' \in {cached, NoKey} \cup Key
    BY <1>3, <1>c DEF StoreKey, Call
  <2> QED
    BY <1>3, <1>g, <2>1 DEF StoreKey
<1>4. ASSUME NEW p \in Proc, NEW m \in Member, AskTaken(p, m) PROVE CallsOK'
  <2> DEFINE fields == [call[p] EXCEPT !.step = "known", !.member = m]
  <2>1. fields \in Call /\ fields.step = "known"
    BY <1>c DEF Call
  <2>2. call' = [call EXCEPT ![p] = fields] /\ UNCHANGED <<accepted, cached>>
    BY <1>4 DEF AskTaken
  <2> HIDE DEF fields
  <2> QED
    BY <2>1, <2>2 DEF CallsOK
<1>5. ASSUME NEW p \in Proc, AskRefused(p) PROVE CallsOK'
  <2>1. call[p].step = "insisting" => call[p].revoked
    BY <1>5 DEF AskRefused, CallsOK
  <2>2. CASE CallAt(p, "asking")
    BY <1>5, <1>g, <2>2 DEF AskRefused
  <2>3. CASE ~CallAt(p, "asking")
    BY <1>5, <1>g, <2>1, <2>3 DEF AskRefused
  <2> QED
    BY <2>2, <2>3
<1>6. ASSUME NEW p \in Proc, DropKey(p) PROVE CallsOK'
  <2>1. CASE CallAt(p, "dropping")
    BY <1>6, <1>g, <2>1 DEF DropKey
  <2>2. CASE ~CallAt(p, "dropping")
    <3>1. call[p].revoked
      BY <1>6, <2>2 DEF DropKey, CallsOK
    <3> QED
      BY <1>6, <1>g, <2>2, <3>1 DEF DropKey
  <2> QED
    BY <2>1, <2>2
<1>7. ASSUME NEW p \in Proc, NEW who \in Name \cup {NoName}, NEW m \in Member,
             VerifyTicket(p, who, m)
      PROVE  CallsOK'
  <2> DEFINE fields == [IdleCall EXCEPT !.user = who, !.member = m, !.step = "known"]
  <2>1. fields \in Call /\ fields.step = "known"
    BY DEF IdleCall, Call
  <2>2. call' = [call EXCEPT ![p] = fields] /\ UNCHANGED <<accepted, cached>>
    BY <1>7 DEF VerifyTicket
  <2> HIDE DEF fields
  <2> QED
    BY <2>1, <2>2 DEF CallsOK
<1>8. ASSUME NEW p \in Proc, CallFails(p) \/ LoginBound(p) \/ FinishBind(p) PROVE CallsOK'
  BY <1>8, <1>e DEF CallFails, LoginBound, FinishBind
<1>9. ASSUME NEW p \in Proc, BeginBind(p) PROVE CallsOK'
  BY <1>9, <1>g DEF BeginBind
<1>10. ASSUME UNCHANGED <<accepted, call>>, cached' \in {cached, NoKey} PROVE CallsOK'
  BY <1>10 DEF CallsOK
<1>11. ASSUME NEW key \in Key, Revoke(key) PROVE CallsOK'
  <2>1. \A p \in Proc : /\ call'[p] \in Call
                        /\ call'[p].step = call[p].step /\ call'[p].key = call[p].key
                        /\ call[p].revoked \/ call[p].key = key => call'[p].revoked
    <3> SUFFICES ASSUME NEW p \in Proc
                 PROVE  /\ call'[p] \in Call
                        /\ call'[p].step = call[p].step /\ call'[p].key = call[p].key
                        /\ call[p].revoked \/ call[p].key = key => call'[p].revoked
      OBVIOUS
    <3>1. call'[p] = IF call[p].key = key THEN [call[p] EXCEPT !.revoked = TRUE] ELSE call[p]
      BY <1>11 DEF Revoke
    <3> QED
      BY <1>c, <3>1 DEF Call
  <2>2. /\ DOMAIN call' = Proc /\ call' = [p \in Proc |-> call'[p]]
        /\ accepted' = accepted \ {key} /\ UNCHANGED cached
    BY <1>11 DEF Revoke
  <2>3. call' \in [Proc -> Call]
    BY <2>1, <2>2
  <2> QED
    BY <2>1, <2>2, <2>3 DEF CallsOK
<1>12. ASSUME UNCHANGED wecomVars PROVE CallsOK'
  BY <1>10, <1>12 DEF wecomVars
<1> QED
  BY <1>1, <1>2, <1>3, <1>4, <1>5, <1>6, <1>7, <1>8, <1>9, <1>10, <1>11, <1>12
     DEF WecomNext, WecomOwnNext, ExchangeNext, CacheExpires, Unbind

\* A call that asks has a token, and no bind writes what is not a member.
KeysOK ==
    /\ accepted \subseteq Key
    /\ binding \in [Name -> Member \cup {NoMember}]
    /\ \A p \in Proc :
          /\ call[p].step \in {"storing", "asking", "insisting"} => call[p].key \in Key
          /\ call[p].step \in {"known", "binding"} => call[p].member \in Member
          /\ call[p].step = "binding" => call[p].user \in Name

LEMMA KeysStep ==
    ASSUME CallsOK, KeysOK, [WecomNext]_<<sessionsVars, wecomVars>> PROVE KeysOK'
<1> USE WecomAssumption DEF CallAt
<1>c. call \in [Proc -> Call] /\ \A p \in Proc : call[p] \in Call
  BY DEF CallsOK
<1>o. ASSUME NEW p \in Proc, NEW fields, call' = [call EXCEPT ![p] = fields],
             fields.step \in {"storing", "asking", "insisting"} => fields.key \in Key,
             fields.step \in {"known", "binding"} => fields.member \in Member,
             fields.step = "binding" => fields.user \in Name,
             accepted' \subseteq Key, binding' \in [Name -> Member \cup {NoMember}]
      PROVE  KeysOK'
  BY <1>c, <1>o DEF KeysOK
<1>g. ASSUME NEW p \in Proc, NEW step \in CallStep, CallGoto(p, step),
             step \in {"storing", "asking", "insisting"} => call[p].key \in Key,
             step \in {"known", "binding"} => call[p].member \in Member,
             step = "binding" => call[p].user \in Name,
             UNCHANGED <<accepted, binding>>
      PROVE  KeysOK'
  <2> DEFINE fields == [call[p] EXCEPT !.step = step]
  <2>1. /\ fields.step = step /\ fields.key = call[p].key /\ fields.member = call[p].member
        /\ fields.user = call[p].user
    BY <1>c DEF Call
  <2>2. call' = [call EXCEPT ![p] = fields]
    BY <1>g DEF CallGoto
  <2> HIDE DEF fields
  <2>3. accepted' \subseteq Key /\ binding' \in [Name -> Member \cup {NoMember}]
    BY <1>g DEF KeysOK
  <2> QED
    BY <1>g, <1>o, <2>1, <2>2, <2>3
<1>e. ASSUME NEW p \in Proc, CallEnd(p), accepted' \subseteq Key,
             binding' \in [Name -> Member \cup {NoMember}]
      PROVE  KeysOK'
  <2>1. IdleCall.step = "idle"
    BY DEF IdleCall
  <2> QED
    BY <1>e, <1>o, <2>1 DEF CallEnd
<1>1. ASSUME NEW p \in Proc, NEW who \in Name \cup {NoName}, ReadCache(p, who)
      PROVE  KeysOK'
  <2> DEFINE fields == [IdleCall EXCEPT !.user = who, !.key = cached,
                           !.step = IF cached = NoKey THEN "fetching" ELSE "asking"]
  <2>1. /\ fields.step \in {"fetching", "asking"}
        /\ fields.step = "asking" => fields.key \in Key
    BY DEF IdleCall, CallsOK
  <2>2. call' = [call EXCEPT ![p] = fields] /\ UNCHANGED <<accepted, binding>>
    BY <1>1 DEF ReadCache
  <2> HIDE DEF fields
  <2> QED
    BY <1>o, <2>1, <2>2 DEF KeysOK
<1>2. ASSUME NEW p \in Proc, NEW key \in Key, FetchKey(p, key) PROVE KeysOK'
  <2> DEFINE step == IF CallAt(p, "fetching") THEN "storing" ELSE "insisting"
             fields == [call[p] EXCEPT !.key = key, !.step = step, !.revoked = FALSE]
  <2>1. fields.key = key /\ fields.step \in {"storing", "insisting"}
    BY <1>c DEF Call
  <2>2. /\ call' = [call EXCEPT ![p] = fields]
        /\ accepted' = accepted \cup {key} /\ UNCHANGED binding
    BY <1>2 DEF FetchKey, Take
  <2> HIDE DEF fields, step
  <2> QED
    BY <1>o, <2>1, <2>2 DEF KeysOK
<1>3. ASSUME NEW p \in Proc, StoreKey(p) PROVE KeysOK'
  <2>1. call[p].key \in Key /\ "asking" \in CallStep
    BY <1>3 DEF StoreKey, KeysOK, CallStep
  <2> QED
    BY <1>3, <1>g, <2>1 DEF StoreKey
<1>4. ASSUME NEW p \in Proc, NEW m \in Member, AskTaken(p, m) PROVE KeysOK'
  <2> DEFINE fields == [call[p] EXCEPT !.step = "known", !.member = m]
  <2>1. fields.step = "known" /\ fields.member = m
    BY <1>c DEF Call
  <2>2. call' = [call EXCEPT ![p] = fields] /\ UNCHANGED <<accepted, binding>>
    BY <1>4 DEF AskTaken
  <2> HIDE DEF fields
  <2> QED
    BY <1>o, <2>1, <2>2 DEF KeysOK
<1>5. ASSUME NEW p \in Proc, AskRefused(p) \/ DropKey(p) PROVE KeysOK'
  <2>1. PICK step \in {"dropping", "failing", "refetching", "refused"} :
           CallGoto(p, step) /\ UNCHANGED <<accepted, binding>>
    BY <1>5 DEF AskRefused, DropKey
  <2> QED
    BY <1>g, <2>1 DEF CallStep
<1>6. ASSUME NEW p \in Proc, NEW who \in Name \cup {NoName}, NEW m \in Member,
             VerifyTicket(p, who, m)
      PROVE  KeysOK'
  <2> DEFINE fields == [IdleCall EXCEPT !.user = who, !.member = m, !.step = "known"]
  <2>1. fields.step = "known" /\ fields.member = m
    BY DEF IdleCall
  <2>2. call' = [call EXCEPT ![p] = fields] /\ UNCHANGED <<accepted, binding>>
    BY <1>6 DEF VerifyTicket
  <2> HIDE DEF fields
  <2> QED
    BY <1>o, <2>1, <2>2 DEF KeysOK
<1>7. ASSUME NEW p \in Proc, CallFails(p) \/ LoginBound(p) PROVE KeysOK'
  BY <1>7, <1>e DEF CallFails, LoginBound, KeysOK
<1>8. ASSUME NEW p \in Proc, BeginBind(p) PROVE KeysOK'
  <2>1. call[p].member \in Member /\ call[p].user \in Name /\ "binding" \in CallStep
    BY <1>8, <1>c DEF BeginBind, KeysOK, Call, CallStep
  <2> QED
    BY <1>8, <1>g, <2>1 DEF BeginBind
<1>9. ASSUME NEW p \in Proc, FinishBind(p) PROVE KeysOK'
  <2>1. binding' \in [Name -> Member \cup {NoMember}]
    BY <1>9 DEF FinishBind, KeysOK
  <2> QED
    BY <1>9, <1>e, <2>1 DEF FinishBind, KeysOK
<1>10. ASSUME NEW u \in Name, Unbind(u) PROVE KeysOK'
  BY <1>10 DEF Unbind, KeysOK
<1>11. ASSUME NEW key \in Key, Revoke(key) PROVE KeysOK'
  <2>1. \A p \in Proc : /\ call'[p].step = call[p].step /\ call'[p].key = call[p].key
                        /\ call'[p].member = call[p].member /\ call'[p].user = call[p].user
    <3> SUFFICES ASSUME NEW p \in Proc
                 PROVE  /\ call'[p].step = call[p].step /\ call'[p].key = call[p].key
                        /\ call'[p].member = call[p].member /\ call'[p].user = call[p].user
      OBVIOUS
    <3>1. call'[p] = IF call[p].key = key THEN [call[p] EXCEPT !.revoked = TRUE] ELSE call[p]
      BY <1>11 DEF Revoke
    <3> QED
      BY <1>c, <3>1 DEF Call
  <2> QED
    BY <1>11, <2>1 DEF Revoke, KeysOK
<1>12. ASSUME UNCHANGED <<accepted, binding, call>> PROVE KeysOK'
  BY <1>12 DEF KeysOK
<1> QED
  BY <1>1, <1>2, <1>3, <1>4, <1>5, <1>6, <1>7, <1>8, <1>9, <1>10, <1>11, <1>12
     DEF WecomNext, WecomOwnNext, ExchangeNext, CacheExpires, wecomVars

WecomInv == CallsOK /\ KeysOK

LEMMA WecomInitInv == WecomInit => WecomInv
BY DEF WecomInit, WecomInv, CallsOK, KeysOK, IdleCall, Call, CallStep

LEMMA WecomInvTypes == WecomInv => WecomTypeOK
BY DEF WecomInv, CallsOK, KeysOK, WecomTypeOK

\* The tokens, the bindings and the calls keep their ranges: wecom.go.
THEOREM WecomTypeCorrect == WecomSpec => []WecomTypeOK
<1>1. WecomInv /\ [WecomNext]_<<sessionsVars, wecomVars>> => WecomInv'
  BY CallsStep, KeysStep DEF WecomInv
<1> QED
  BY WecomInitInv, <1>1, WecomInvTypes, PTL DEF WecomSpec

LEMMA WecomStepsAreSessions ==
    SessionsInv /\ [WecomNext]_<<sessionsVars, wecomVars>> => SessionsInv'
<1> SUFFICES ASSUME SessionsInv, [WecomNext]_<<sessionsVars, wecomVars>> PROVE SessionsInv'
  OBVIOUS
<1>1. [SessionsNext]_sessionsVars
  <2>1. ASSUME NEW p \in Proc, LoginBound(p) PROVE SessionsNext
    <3>1. PICK u \in Name : VerifyByWecom(p, u)
      BY <2>1 DEF LoginBound, BoundTo
    <3> QED
      BY <3>1 DEF SessionsNext, LoginNext
  <2> QED
    BY <2>1 DEF WecomNext
<1> QED
  BY <1>1, StepInv

\* What Sessions promises of failures and revoked sessions, it promises with logins
\* by WeCom, which count no failure: wecom.go, login_throttle.go.
THEOREM WecomKeepsSessions == WecomSpec => [](FailuresBounded /\ ResetRevokes)
<1>1. WecomInit => SessionsInv
  BY InitInv DEF WecomInit
<1> QED
  BY <1>1, WecomStepsAreSessions, SessionsInvImplies, PTL DEF WecomSpec

\* However calls overtake one another between reading, replacing and dropping the
\* cached token, one gives up only over a token it fetched for itself: wecom.go.
THEOREM OwnKeysOnlyRefused == WecomSpec => []OwnKeyRefused
<1>1. WecomInit => CallsOK
  BY WecomInitInv DEF WecomInv
<1>2. CallsOK => OwnKeyRefused
  BY DEF CallsOK, OwnKeyRefused
<1> QED
  BY <1>1, <1>2, CallsStep, PTL DEF WecomSpec

HIDE SessionsAssumption
=============================================================================
