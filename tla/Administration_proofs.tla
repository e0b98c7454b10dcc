------------------------- MODULE Administration_proofs -------------------------
(***************************************************************************)
(* Theorems about Access, LegacyConversion and the run that shows them     *)
(* with the other components of MCAdministration.                          *)
(*                                                                         *)
(* Access: what overlapping, interrupted saves and deletes of users,       *)
(* groups and roles leave.  The invariant says of each handler what it may *)
(* still do to the default administrator, and that every other user may be *)
(* renamed, demoted, disabled and deleted.  That normalizePermissions      *)
(* reaches what its keys imply is an induction over its rounds.  It is     *)
(* done with the least round that would be a counterexample: Nat is        *)
(* well-founded.                                                           *)
(*                                                                         *)
(* LegacyConversion: what each phase has kept of users, states and item    *)
(* types of the file, and what the loops below it rely on.                 *)
(***************************************************************************)
EXTENDS MCAdministration, Sessions_proofs, Records_proofs

AccessRanges ==
    /\ user \in [Uid -> UserRow \cup {Undrawn, Gone}]
    /\ disabled \subseteq Uid
    /\ role \in [Role -> {"none", "on", "off"}]
    /\ userRole \subseteq Uid \X Role
    /\ group \in [Group -> {"undrawn", "on", "off", "gone"}]
    /\ member \subseteq Group \X Uid
    /\ groupRole \subseteq Group \X Role
    /\ holder \in [Item -> Uid \cup {NoUid}]
    /\ late \subseteq Item /\ cut \subseteq Uid /\ undone \subseteq Uid

GrantRange == grant \in [Role -> SUBSET (Permission \cup Legacy)]

\* A handler has what its next step needs.
JobRanges ==
    /\ job \in [Worker -> Job]
    /\ \A p \in Worker :
          /\ job[p].step \notin {"idle", "counted", "grouped"} => job[p].user \in Uid
          /\ job[p].step \in {"counted", "inserted", "undoing", "read", "unique",
                              "stored", "profiled"} => job[p].uform # {}
          /\ JobAt(p, "grouped") => job[p].gform # {}

\* The row of the default administrator, the only one of that name.
Keeper ==
    /\ user[AdminId] = [name |-> Admin, type |-> 0]
    /\ AdminId \notin disabled
    /\ \A v \in Uid : (IsUser(v) /\ user[v].name = Admin) => v = AdminId

\* What handlers under way may still do to that row, and to another.
JobsInOrder ==
    \A p \in Worker :
        /\ (job[p].step \in {"inserted", "undoing", "unprofiling", "disabled", "unused"}
               \/ job[p].step \in CleanStep)
              => job[p].user # AdminId
        /\ (job[p].step \in {"read", "unique", "stored"} /\ job[p].user = AdminId)
              => (UForm(p).name = Admin /\ ~UForm(p).disabled)
        /\ (job[p].step = "counted" \/ (job[p].step = "unique" /\ job[p].user # AdminId))
              => UForm(p).name # Admin

AccessInv ==
    /\ AccessRanges /\ GrantRange /\ JobRanges
    /\ Keeper /\ JobsInOrder
    /\ RolesKnown /\ MembersKnown /\ ItemsHandedOver

-----------------------------------------------------------------------------
\* f is what n rounds of normalizePermissions do to keys.
IsRounds(f, keys, n) ==
  /\ DOMAIN f = 0..n
  /\ f[0] = keys \cap Permission
  /\ \A i \in 1..n : f[i] = WithImplied(f[i - 1])

\* The recursion has a solution, for each number of rounds.
LEMMA RoundsExist ==
    ASSUME NEW keys, NEW n \in Nat
    PROVE  \E f : f = [i \in 0..n |-> f[i]] /\ IsRounds(f, keys, n)
<1> DEFINE none == {m \in Nat : ~ \E f : f = [i \in 0..m |-> f[i]] /\ IsRounds(f, keys, m)}
<1> SUFFICES ASSUME none # {} PROVE FALSE
  OBVIOUS
<1>1. PICK m \in none : \A k \in none : m <= k
  BY LeastNatural
<1>2. CASE m = 0
  <2> DEFINE f == [i \in 0..0 |-> keys \cap Permission]
  <2>1. f = [i \in 0..m |-> f[i]] /\ IsRounds(f, keys, m)
    BY <1>2 DEF IsRounds
  <2> QED
    BY <1>1, <2>1
<1>3. CASE m # 0
  <2>1. m - 1 \in Nat /\ m - 1 \notin none
    BY <1>1, <1>3
  <2>2. PICK g : g = [i \in 0..(m - 1) |-> g[i]] /\ IsRounds(g, keys, m - 1)
    BY <2>1
  <2> DEFINE f == [i \in 0..m |-> IF i = m THEN WithImplied(g[m - 1]) ELSE g[i]]
  <2>3. IsRounds(f, keys, m)
    <3>1. f[0] = keys \cap Permission
      BY <1>3, <2>2 DEF IsRounds
    <3>2. ASSUME NEW i \in 1..m PROVE f[i] = WithImplied(f[i - 1])
      <4>1. CASE i = m
        BY <2>1, <4>1
      <4>2. CASE i # m
        <5>1. i \in 1..(m - 1) /\ i - 1 \in 0..m /\ i - 1 # m /\ i \in 0..m
          BY <2>1, <4>2
        <5>2. g[i] = WithImplied(g[i - 1])
          BY <2>2, <5>1 DEF IsRounds
        <5>3. f[i] = g[i] /\ f[i - 1] = g[i - 1]
          BY <4>2, <5>1
        <5> QED
          BY <5>2, <5>3
      <4> QED
        BY <4>1, <4>2
    <3> QED
      BY <3>1, <3>2 DEF IsRounds
  <2>4. f = [i \in 0..m |-> f[i]]
    OBVIOUS
  <2> QED
    BY <1>1, <2>3, <2>4
<1> QED
  BY <1>2, <1>3

LEMMA NormalizedIsARound ==
    ASSUME NEW keys
    PROVE  \E f : /\ IsRounds(f, keys, Cardinality(Permission))
                  /\ Normalized(keys) = f[Cardinality(Permission)]
<1> DEFINE N == Cardinality(Permission)
           Eq(f) == f = [n \in 0..N |-> IF n = 0 THEN keys \cap Permission
                                        ELSE WithImplied(f[n - 1])]
           R == CHOOSE f : Eq(f)
<1>0. N \in Nat
  BY AccessAssumption, FS_CardinalityType
<1>1. \E f : Eq(f)
  <2>1. PICK f : f = [i \in 0..N |-> f[i]] /\ IsRounds(f, keys, N)
    BY <1>0, RoundsExist
  <2> HIDE DEF N
  <2>2. ASSUME NEW n \in 0..N
        PROVE  f[n] = IF n = 0 THEN keys \cap Permission ELSE WithImplied(f[n - 1])
    <3>1. n # 0 => n \in 1..N
      BY <1>0
    <3> QED
      BY <2>1, <3>1 DEF IsRounds
  <2>3. f = [n \in 0..N |-> IF n = 0 THEN keys \cap Permission ELSE WithImplied(f[n - 1])]
    BY <2>1, <2>2
  <2> QED
    BY <2>3
<1>2. Eq(R)
  <2> HIDE DEF Eq
  <2> QED
    BY <1>1
<1>3. Normalized(keys) = R[N]
  BY DEF Normalized
<1> HIDE DEF R, N
<1>4. IsRounds(R, keys, N)
  <2>1. 0 \in 0..N /\ DOMAIN R = 0..N
    BY <1>0, <1>2
  <2>2. R[0] = keys \cap Permission
    BY <1>2, <2>1
  <2>3. ASSUME NEW i \in 1..N PROVE R[i] = WithImplied(R[i - 1])
    <3>1. i \in 0..N /\ i # 0
      BY <1>0
    <3> QED
      BY <1>2, <3>1
  <2> QED
    BY <2>1, <2>2, <2>3 DEF IsRounds
<1> QED
  BY <1>3, <1>4 DEF N


\* Rounds stay within the catalogue, and grow until nothing is implied any more.
LEMMA RoundsGrow ==
    ASSUME NEW keys, NEW f, NEW n \in Nat, IsRounds(f, keys, n)
    PROVE  \A i \in 0..n : /\ f[i] \subseteq Permission /\ keys \cap Permission \subseteq f[i]
                           /\ Closed(f[i]) \/ Cardinality(f[i]) >= i
<1> DEFINE Good(i) == /\ f[i] \subseteq Permission /\ keys \cap Permission \subseteq f[i]
                      /\ Closed(f[i]) \/ Cardinality(f[i]) >= i
           bad == {i \in 0..n : ~Good(i)}
<1> SUFFICES ASSUME bad # {} PROVE FALSE
  OBVIOUS
<1>1. PICK m \in bad : \A k \in bad : m <= k
  <2>1. bad \in SUBSET Nat
    OBVIOUS
  <2> HIDE DEF bad
  <2> QED
    BY <2>1, LeastNatural
<1>2. CASE m = 0
  <2>1. f[0] = keys \cap Permission
    BY DEF IsRounds
  <2>2. IsFiniteSet(f[0])
    BY <2>1, AccessAssumption, FS_Subset
  <2>3. Cardinality(f[0]) \in Nat
    BY <2>2, FS_CardinalityType
  <2> QED
    BY <1>1, <1>2, <2>1, <2>3
<1>3. CASE m # 0
  <2> DEFINE g == f[m - 1]
  <2>1. m \in 1..n /\ m - 1 \in 0..n /\ f[m] = WithImplied(g)
    BY <1>1, <1>3 DEF IsRounds
  <2>2. Good(m - 1)
    BY <1>1, <2>1
  <2>3. g \subseteq f[m] /\ f[m] \subseteq Permission
    BY <2>1, <2>2, AccessAssumption DEF WithImplied
  <2>4. IsFiniteSet(f[m]) /\ IsFiniteSet(g) /\ Cardinality(f[m]) \in Nat /\ Cardinality(g) \in Nat
    BY <2>2, <2>3, AccessAssumption, FS_Subset, FS_CardinalityType
  <2>5. CASE Closed(g)
    <3>1. f[m] = g
      BY <2>1, <2>5 DEF WithImplied, Closed
    <3> QED
      BY <1>1, <2>2, <2>5, <3>1
  <2>6. CASE ~Closed(g)
    <3>1. f[m] # g
      BY <2>1, <2>6 DEF WithImplied, Closed
    <3>2. Cardinality(g) < Cardinality(f[m])
      BY <2>3, <2>4, <3>1, FS_Subset
    <3>3. Cardinality(g) >= m - 1
      BY <2>2, <2>6
    <3>4. Cardinality(f[m]) >= m
      BY <2>1, <2>4, <3>2, <3>3
    <3> QED
      BY <1>1, <2>2, <2>3, <3>4
  <2> QED
    BY <2>5, <2>6
<1> QED
  BY <1>2, <1>3

\* Nothing comes that is not implied.
LEMMA RoundsFollow ==
    ASSUME NEW keys, NEW f, NEW n \in Nat, IsRounds(f, keys, n),
           NEW set, Closed(set), keys \cap Permission \subseteq set
    PROVE  \A i \in 0..n : f[i] \subseteq set
<1> DEFINE bad == {i \in 0..n : ~(f[i] \subseteq set)}
<1> SUFFICES ASSUME bad # {} PROVE FALSE
  OBVIOUS
<1>1. PICK m \in bad : \A k \in bad : m <= k
  <2>1. bad \in SUBSET Nat
    OBVIOUS
  <2> HIDE DEF bad
  <2> QED
    BY <2>1, LeastNatural
<1>2. CASE m = 0
  BY <1>1, <1>2 DEF IsRounds
<1>3. CASE m # 0
  <2>1. m \in 1..n /\ m - 1 \in 0..n /\ f[m] = WithImplied(f[m - 1])
    BY <1>1, <1>3 DEF IsRounds
  <2>2. f[m - 1] \subseteq set
    BY <1>1, <2>1
  <2>3. f[m] \subseteq set
    BY <2>1, <2>2 DEF WithImplied, Closed
  <2> QED
    BY <1>1, <2>3
<1> QED
  BY <1>2, <1>3

\* normalizePermissions gives the least set of permissions that has the keys it knows
\* and all that these imply.
LEMMA NormalizedCloses ==
    ASSUME NEW keys
    PROVE  /\ Normalized(keys) \subseteq Permission
           /\ keys \cap Permission \subseteq Normalized(keys)
           /\ Closed(Normalized(keys))
           /\ \A set : Closed(set) /\ keys \cap Permission \subseteq set =>
                    Normalized(keys) \subseteq set
<1> DEFINE N == Cardinality(Permission)
<1>0. N \in Nat
  BY AccessAssumption, FS_CardinalityType
<1>1. PICK f : IsRounds(f, keys, N) /\ Normalized(keys) = f[N]
  BY NormalizedIsARound
<1>2. /\ f[N] \subseteq Permission /\ keys \cap Permission \subseteq f[N]
      /\ Closed(f[N]) \/ Cardinality(f[N]) >= N
  BY <1>0, <1>1, RoundsGrow
<1>3. Closed(f[N])
  <2>1. CASE Cardinality(f[N]) >= N
    <3>1. f[N] = Permission
      <4> DEFINE last == f[N]
      <4>1. last \in SUBSET Permission
        BY <1>2
      <4> HIDE DEF last
      <4>2. /\ IsFiniteSet(last) /\ Cardinality(last) <= N
            /\ N = Cardinality(last) => Permission = last
        BY <4>1, AccessAssumption, FS_Subset
      <4>3. Cardinality(last) \in Nat
        BY <4>2, FS_CardinalityType
      <4>4. Cardinality(last) >= N
        BY <2>1 DEF last
      <4>5. last = Permission
        BY <1>0, <4>2, <4>3, <4>4
      <4> QED
        BY <4>5 DEF last
    <3> QED
      BY <3>1, AccessAssumption DEF Closed
  <2> QED
    BY <1>2, <2>1
<1>4. ASSUME NEW set, Closed(set), keys \cap Permission \subseteq set
      PROVE  f[N] \subseteq set
  BY <1>0, <1>1, <1>4, RoundsFollow
<1> QED
  BY <1>1, <1>2, <1>3, <1>4

\* A start leaves a role the permissions of the catalogues.
LEMMA AtStartType ==
    ASSUME NEW r \in Role, NEW keys \in SUBSET (Permission \cup Legacy)
    PROVE  AtStart(r, keys) \in SUBSET (Permission \cup Legacy)
<1>1. \A set : Normalized(set) \in SUBSET (Permission \cup Legacy)
  BY NormalizedCloses
<1> QED
  BY <1>1, AccessAssumption DEF AtStart

-----------------------------------------------------------------------------
\* A handler with a form takes it from those there are.
LEMMA FormTaken ==
    ASSUME job \in [Worker -> Job], NEW p \in Worker
    PROVE  /\ job[p].uform # {} =>
                 /\ UForm(p) \in UserForm
                 /\ UForm(p).name \in Username /\ UForm(p).roles \subseteq Role
                 /\ [name |-> UForm(p).name, type |-> TypeOf(UForm(p))] \in UserRow
                 /\ [name |-> UForm(p).name, type |-> 0] \in UserRow
           /\ job[p].gform # {} =>
                 /\ GForm(p) \in GroupForm
                 /\ GForm(p).members \subseteq Uid /\ GForm(p).roles \subseteq Role
<1>1. job[p].uform # {} => UForm(p) \in UserForm
  BY DEF Job, UForm
<1>2. job[p].gform # {} => GForm(p) \in GroupForm
  BY DEF Job, GForm
<1>3. \A form \in UserForm :
        /\ form.name \in Username /\ form.roles \subseteq Role
        /\ TypeOf(form) \in 0..1
  BY AccessAssumption DEF TypeOf
<1>4. \A form \in GroupForm : form.members \subseteq Uid /\ form.roles \subseteq Role
  BY AccessAssumption
<1> QED
  BY <1>1, <1>2, <1>3, <1>4 DEF UserRow

\* What the end of a handler, a step of it, and a new form in its hands come to.
LEMMA JobEnds ==
    ASSUME job \in [Worker -> Job], NEW p \in Worker, JobEnd(p)
    PROVE  /\ job' \in [Worker -> Job] /\ job'[p].step = "idle"
           /\ \A q \in Worker \ {p} : job'[q] = job[q] /\ UForm(q)' = UForm(q)
<1>1. job' = [job EXCEPT ![p] = IdleJob]
  BY DEF JobEnd
<1>2. IdleJob \in Job /\ IdleJob.step = "idle"
  BY DEF IdleJob, Job, JobStep
<1>3. \A q \in Worker \ {p} : job'[q] = job[q]
  BY <1>1
<1>4. \A q \in Worker \ {p} : UForm(q)' = UForm(q)
  BY <1>3 DEF UForm
<1> QED
  BY <1>1, <1>2, <1>3, <1>4

LEMMA JobGoes ==
    ASSUME job \in [Worker -> Job], NEW p \in Worker, NEW step \in JobStep, JobGoto(p, step)
    PROVE  /\ job' \in [Worker -> Job]
           /\ job'[p].step = step /\ job'[p].user = job[p].user
           /\ job'[p].uform = job[p].uform /\ job'[p].gform = job[p].gform
           /\ \A q \in Worker \ {p} : job'[q] = job[q]
           /\ \A q \in Worker : UForm(q)' = UForm(q)
<1>1. job' = [job EXCEPT ![p].step = step] /\ job[p] \in Job
  BY DEF JobGoto
<1>2. job'[p] = [step |-> step, user |-> job[p].user, group |-> job[p].group,
                 uform |-> job[p].uform, gform |-> job[p].gform]
  BY <1>1 DEF Job
<1>3. job'[p] \in Job
  BY <1>1, <1>2 DEF Job
<1>4. \A q \in Worker \ {p} : job'[q] = job[q]
  BY <1>1
<1>5. job' = [q \in Worker |-> job'[q]]
  BY <1>1
<1>6. job' \in [Worker -> Job]
  BY <1>3, <1>4, <1>5
<1>7. \A q \in Worker : job'[q].uform = job[q].uform
  BY <1>2, <1>4
<1>8. \A q \in Worker : UForm(q)' = UForm(q)
  BY <1>7 DEF UForm
<1> QED
  BY <1>2, <1>4, <1>6, <1>8

LEMMA JobSaves ==
    ASSUME job \in [Worker -> Job], NEW p \in Worker, NEW step \in JobStep,
           NEW u \in Uid \cup {NoUid}, NEW form \in UserForm,
           job' = [job EXCEPT ![p] = SavingUser(step, u, form)]
    PROVE  /\ job' \in [Worker -> Job]
           /\ job'[p].step = step /\ job'[p].user = u /\ job'[p].uform # {}
           /\ UForm(p)' = form
           /\ \A q \in Worker \ {p} : job'[q] = job[q] /\ UForm(q)' = UForm(q)
<1>1. SavingUser(step, u, form) \in Job
  BY DEF SavingUser, Job
<1>2. job'[p] = SavingUser(step, u, form) /\ job' \in [Worker -> Job]
  BY <1>1
<1>3. \A q \in Worker \ {p} : job'[q] = job[q]
  OBVIOUS
<1>4. \A q \in Worker \ {p} : UForm(q)' = UForm(q)
  BY <1>3 DEF UForm
<1>5. UForm(p)' = form
  BY <1>2 DEF UForm, SavingUser
<1> QED
  BY <1>2, <1>3, <1>4, <1>5 DEF SavingUser

\* Every step keeps the ranges.
LEMMA AccessRangesStep ==
    ASSUME AccessRanges, JobRanges, [AccessNext]_accessVars
    PROVE  AccessRanges'
<1> USE AccessAssumption DEF AccessRanges, JobRanges, JobAt, CleanStep, tables, history
<1>1. CASE UNCHANGED <<user, disabled, role, userRole, group, member, groupRole, holder, late,
                       cut, undone>>
  BY <1>1
<1>2. ASSUME NEW p \in Worker, NEW u \in Uid, InsertUser(p, u) PROVE AccessRanges'
  <2>1. [name |-> UForm(p).name, type |-> TypeOf(UForm(p))] \in UserRow
    BY <1>2, FormTaken DEF InsertUser
  <2> QED
    BY <1>2, <2>1 DEF InsertUser
<1>3. ASSUME NEW p \in Worker, StoreProfile(p) PROVE AccessRanges'
  BY <1>3 DEF StoreProfile
<1>4. ASSUME NEW p \in Worker, ReplaceUserRoles(p) PROVE AccessRanges'
  <2>1. job[p].user \in Uid /\ UForm(p).roles \subseteq Role
    BY <1>4, FormTaken DEF ReplaceUserRoles
  <2> QED
    BY <1>4, <2>1 DEF ReplaceUserRoles
<1>5. ASSUME NEW p \in Worker, RefuseUserRoles(p) PROVE AccessRanges'
  BY <1>5 DEF RefuseUserRoles
<1>6. ASSUME NEW p \in Worker, RemoveNewUser(p) PROVE AccessRanges'
  BY <1>6 DEF RemoveNewUser
<1>7. ASSUME NEW p \in Worker, StoreUser(p) PROVE AccessRanges'
  <2>1. /\ job[p].user \in Uid
        /\ [name |-> UForm(p).name, type |-> TypeOf(UForm(p))] \in UserRow
        /\ [name |-> UForm(p).name, type |-> 0] \in UserRow
    BY <1>7, FormTaken DEF StoreUser
  <2> QED
    BY <1>7, <2>1 DEF StoreUser
<1>8. ASSUME NEW p \in Worker, DeleteUserRow(p) PROVE AccessRanges'
  BY <1>8 DEF DeleteUserRow
<1>9. ASSUME NEW p \in Worker, CleanProfile(p) PROVE AccessRanges'
  BY <1>9 DEF CleanProfile
<1>10. ASSUME NEW p \in Worker, CleanRoles(p) PROVE AccessRanges'
  BY <1>10 DEF CleanRoles
<1>11. ASSUME NEW p \in Worker, CleanMembers(p) PROVE AccessRanges'
  BY <1>11 DEF CleanMembers
<1>12. ASSUME NEW p \in Worker, NEW g \in Group, NEW form \in GroupForm, StoreGroup(p, g,
             form)
      PROVE  AccessRanges'
  BY <1>12 DEF StoreGroup
<1>13. ASSUME NEW p \in Worker, ReplaceRelations(p) PROVE AccessRanges'
  <2>1. /\ GForm(p).members \subseteq Uid /\ GForm(p).roles \subseteq Role
        /\ job[p].group \subseteq Group
    BY <1>13, FormTaken DEF ReplaceRelations, Job
  <2> QED
    BY <1>13, <2>1 DEF ReplaceRelations
<1>14. ASSUME NEW p \in Worker, CutShort(p) PROVE AccessRanges'
  <2>1. \A q \in Worker : job[q].step \in CleanStep => job[q].user \in Uid
    OBVIOUS
  <2> QED
    BY <1>14, <2>1 DEF CutShort, CutBehind
<1>15. ASSUME NEW r \in Role, NEW keys \in Grant, CreateRole(r, keys) PROVE AccessRanges'
  BY <1>15 DEF CreateRole
<1>16. ASSUME NEW r \in Role, NEW off \in BOOLEAN, SwitchRole(r, off) PROVE AccessRanges'
  BY <1>16 DEF SwitchRole
<1>17. ASSUME NEW r \in Role, DeleteRole(r) PROVE AccessRanges'
  BY <1>17 DEF DeleteRole
<1>18. ASSUME NEW u \in Uid, NEW off \in BOOLEAN, SwitchUser(u, off) PROVE AccessRanges'
  BY <1>18 DEF SwitchUser
<1>19. ASSUME NEW g \in Group, DeleteGroup(g) PROVE AccessRanges'
  BY <1>19 DEF DeleteGroup
<1>20. ASSUME NEW i \in Item, NEW u \in Uid, GiveItem(i, u) PROVE AccessRanges'
  BY <1>20 DEF GiveItem
<1>21. ASSUME Restart PROVE AccessRanges'
  <2>1. \A q \in Worker : job[q].step \in CleanStep => job[q].user \in Uid
    OBVIOUS
  <2> QED
    BY <1>21, <2>1 DEF Restart, CutBehind
<1>22. ASSUME NEW p \in Worker, UserHandlersNext(p) PROVE AccessRanges'
  BY <1>1, <1>22, <1>2, <1>3, <1>4, <1>5, <1>6, <1>7, <1>8, <1>9, <1>10, <1>11 DEF
     UserHandlersNext, tables, history, CountName, ReadUser, CheckName, BeginDeleteUser,
     CountUsage
<1>23. CASE RolesNext
  BY <1>1, <1>23, <1>15, <1>16, <1>17 DEF RolesNext, tables, history, UpdateRole
<1>24. ASSUME NEW p \in Worker, GroupHandlersNext(p) \/ CutShort(p) PROVE AccessRanges'
  BY <1>1, <1>24, <1>12, <1>13, <1>14 DEF GroupHandlersNext, tables, history
<1> QED
  BY <1>1, <1>22, <1>23, <1>24, <1>18, <1>19, <1>20, <1>21 DEF AccessNext, accessVars,
     tables, history

\* Roles are created, updated and started anew with permissions of the catalogues.
LEMMA GrantStep ==
    ASSUME GrantRange, [AccessNext]_accessVars PROVE GrantRange'
<1> USE DEF GrantRange
<1>1. CASE UNCHANGED grant
  BY <1>1
<1>2. ASSUME NEW r \in Role, NEW keys \in Grant, CreateRole(r, keys) \/ UpdateRole(r, keys)
      PROVE  GrantRange'
  <2>1. Normalized(keys) \in SUBSET (Permission \cup Legacy)
    BY NormalizedCloses
  <2> QED
    BY <1>2, <2>1 DEF CreateRole, UpdateRole
<1>3. ASSUME NEW r \in Role, DeleteRole(r) PROVE GrantRange'
  BY <1>3 DEF DeleteRole
<1>4. ASSUME Restart PROVE GrantRange'
  BY <1>4, AtStartType DEF Restart
<1>5. ASSUME NEW p \in Worker, UserHandlersNext(p) \/ GroupHandlersNext(p) \/ CutShort(p)
      PROVE  UNCHANGED grant
  BY <1>5 DEF UserHandlersNext, GroupHandlersNext, CutShort, tables, history, CountName,
     ReadUser, CheckName, BeginDeleteUser, CountUsage, InsertUser, StoreProfile,
     ReplaceUserRoles, RefuseUserRoles, RemoveNewUser, StoreUser, DeleteUserRow, CleanProfile,
     CleanRoles, CleanMembers, StoreGroup, ReplaceRelations
<1>6. CASE RolesNext
  BY <1>1, <1>2, <1>3, <1>6 DEF RolesNext, SwitchRole
<1> QED
  BY <1>1, <1>4, <1>5, <1>6 DEF AccessNext, SwitchUser, DeleteGroup, GiveItem, accessVars,
     tables

\* A handler gets what it will need.
LEMMA JobRangesStep ==
    ASSUME JobRanges, [AccessNext]_accessVars
    PROVE  JobRanges'
<1> USE AccessAssumption DEF JobRanges, JobAt, CleanStep, tables, history
<1>1. CASE UNCHANGED job
  BY <1>1
<1>2. ASSUME NEW p \in Worker, NEW form \in UserForm, CountName(p, form) PROVE JobRanges'
  <2>2. job' = [job EXCEPT ![p] = SavingUser("counted", NoUid, form)]
    BY <1>2 DEF CountName
  <2>3. "counted" \in JobStep /\ NoUid \in Uid \cup {NoUid}
    BY DEF JobStep
  <2>4. /\ job' \in [Worker -> Job] /\ job'[p].step = "counted"
        /\ job'[p].user = NoUid /\ job'[p].uform # {} /\ UForm(p)' = form
        /\ \A q \in Worker \ {p} : job'[q] = job[q] /\ UForm(q)' = UForm(q)
    BY ONLY <2>2, <2>3, JobSaves, job \in [Worker -> Job], p \in Worker, form \in UserForm
  <2> QED
    BY <1>2, <2>4 DEF CountName
<1>3. ASSUME NEW p \in Worker, NEW u \in Uid, InsertUser(p, u) PROVE JobRanges'
  <2>1. UForm(p) \in UserForm
    BY <1>3, FormTaken DEF InsertUser
  <2>2. job' = [job EXCEPT ![p] = SavingUser("inserted", u, UForm(p))]
    BY <1>3 DEF InsertUser
  <2>3. "inserted" \in JobStep /\ u \in Uid \cup {NoUid}
    BY DEF JobStep
  <2>4. /\ job' \in [Worker -> Job] /\ job'[p].step = "inserted"
        /\ job'[p].user = u /\ job'[p].uform # {} /\ UForm(p)' = UForm(p)
        /\ \A q \in Worker \ {p} : job'[q] = job[q] /\ UForm(q)' = UForm(q)
    BY ONLY <2>1, <2>2, <2>3, JobSaves, job \in [Worker -> Job], p \in Worker
  <2> QED
    BY <1>3, <2>1, <2>4 DEF InsertUser
<1>4. ASSUME NEW p \in Worker, StoreProfile(p) PROVE JobRanges'
  <2>1. CASE JobAt(p, "inserted")
    <3>1. JobGoto(p, "undoing")
      BY <1>4, <2>1 DEF StoreProfile
    <3> QED
      BY <1>4, <2>1, <3>1, JobGoes DEF StoreProfile, JobStep
  <2>2. CASE ~JobAt(p, "inserted")
    <3>1. JobGoto(p, "profiled")
      BY <1>4, <2>2 DEF StoreProfile
    <3> QED
      BY <1>4, <2>2, <3>1, JobGoes DEF StoreProfile, JobStep
  <2> QED
    BY <2>1, <2>2
<1>5. ASSUME NEW p \in Worker, ReplaceUserRoles(p) PROVE JobRanges'
  <2>1. JobEnd(p)
    BY <1>5 DEF ReplaceUserRoles
  <2> QED
    BY <1>5, <2>1, JobEnds DEF ReplaceUserRoles
<1>6. ASSUME NEW p \in Worker, RefuseUserRoles(p) PROVE JobRanges'
  <2>1. CASE JobAt(p, "profiled")
    <3>1. JobEnd(p)
      BY <1>6, <2>1 DEF RefuseUserRoles
    <3> QED
      BY <1>6, <2>1, <3>1, JobEnds DEF RefuseUserRoles
  <2>2. CASE ~JobAt(p, "profiled")
    <3>1. JobGoto(p, "unprofiling")
      BY <1>6, <2>2 DEF RefuseUserRoles
    <3> QED
      BY <1>6, <2>2, <3>1, JobGoes DEF RefuseUserRoles, JobStep
  <2> QED
    BY <2>1, <2>2
<1>7. ASSUME NEW p \in Worker, RemoveNewUser(p) PROVE JobRanges'
  <2>1. JobEnd(p)
    BY <1>7 DEF RemoveNewUser
  <2> QED
    BY <1>7, <2>1, JobEnds DEF RemoveNewUser
<1>8. ASSUME NEW p \in Worker, NEW u \in Uid, NEW form \in UserForm, ReadUser(p, u, form)
      PROVE  JobRanges'
  <2>2. job' = [job EXCEPT ![p] = SavingUser("read", u, form)]
    BY <1>8 DEF ReadUser
  <2>3. "read" \in JobStep /\ u \in Uid \cup {NoUid}
    BY DEF JobStep
  <2>4. /\ job' \in [Worker -> Job] /\ job'[p].step = "read"
        /\ job'[p].user = u /\ job'[p].uform # {} /\ UForm(p)' = form
        /\ \A q \in Worker \ {p} : job'[q] = job[q] /\ UForm(q)' = UForm(q)
    BY ONLY <2>2, <2>3, JobSaves, job \in [Worker -> Job], p \in Worker, form \in UserForm
  <2> QED
    BY <1>8, <2>4 DEF ReadUser
<1>9. ASSUME NEW p \in Worker, CheckName(p) PROVE JobRanges'
  <2>1. JobGoto(p, "unique")
    BY <1>9 DEF CheckName
  <2> QED
    BY <1>9, <2>1, JobGoes DEF CheckName, JobStep
<1>10. ASSUME NEW p \in Worker, StoreUser(p) PROVE JobRanges'
  <2>1. JobGoto(p, "stored")
    BY <1>10 DEF StoreUser
  <2> QED
    BY <1>10, <2>1, JobGoes DEF StoreUser, JobStep
<1>11. ASSUME NEW p \in Worker, NEW u \in Uid, BeginDeleteUser(p, u) PROVE JobRanges'
  BY <1>11 DEF BeginDeleteUser, Job, JobStep
<1>12. ASSUME NEW p \in Worker, CountUsage(p) PROVE JobRanges'
  <2>1. JobGoto(p, "unused")
    BY <1>12 DEF CountUsage
  <2> QED
    BY <1>12, <2>1, JobGoes DEF CountUsage, JobStep
<1>13. ASSUME NEW p \in Worker, DeleteUserRow(p) PROVE JobRanges'
  <2>1. JobGoto(p, "deleted")
    BY <1>13 DEF DeleteUserRow
  <2> QED
    BY <1>13, <2>1, JobGoes DEF DeleteUserRow, JobStep
<1>14. ASSUME NEW p \in Worker, CleanProfile(p) PROVE JobRanges'
  <2>1. JobGoto(p, "unprofiled")
    BY <1>14 DEF CleanProfile
  <2> QED
    BY <1>14, <2>1, JobGoes DEF CleanProfile, JobStep
<1>15. ASSUME NEW p \in Worker, CleanRoles(p) PROVE JobRanges'
  <2>1. JobGoto(p, "unroled")
    BY <1>15 DEF CleanRoles
  <2> QED
    BY <1>15, <2>1, JobGoes DEF CleanRoles, JobStep
<1>16. ASSUME NEW p \in Worker, CleanMembers(p) PROVE JobRanges'
  <2>1. JobEnd(p)
    BY <1>16 DEF CleanMembers
  <2> QED
    BY <1>16, <2>1, JobEnds DEF CleanMembers
<1>17. ASSUME NEW p \in Worker, NEW g \in Group, NEW form \in GroupForm, StoreGroup(p, g,
             form)
      PROVE  JobRanges'
  BY <1>17 DEF StoreGroup, Job, JobStep
<1>18. ASSUME NEW p \in Worker, ReplaceRelations(p) PROVE JobRanges'
  <2>1. JobEnd(p)
    BY <1>18 DEF ReplaceRelations
  <2> QED
    BY <1>18, <2>1, JobEnds DEF ReplaceRelations
<1>19. ASSUME NEW p \in Worker, CutShort(p) PROVE JobRanges'
  <2>1. JobEnd(p)
    BY <1>19 DEF CutShort
  <2> QED
    BY <1>19, <2>1, JobEnds DEF CutShort
<1>20. ASSUME Restart PROVE JobRanges'
  BY <1>20 DEF Restart, Job, JobStep, IdleJob
<1>21. ASSUME NEW p \in Worker, UserHandlersNext(p) PROVE JobRanges'
  BY <1>1, <1>21, <1>2, <1>3, <1>4, <1>5, <1>6, <1>7, <1>8, <1>9, <1>10, <1>11, <1>12,
     <1>13, <1>14, <1>15, <1>16 DEF UserHandlersNext, tables, history
<1>22. CASE RolesNext
  BY <1>1, <1>22 DEF RolesNext, tables, history, CreateRole, UpdateRole, SwitchRole,
     DeleteRole
<1>23. ASSUME NEW p \in Worker, GroupHandlersNext(p) \/ CutShort(p) PROVE JobRanges'
  BY <1>1, <1>23, <1>17, <1>18, <1>19 DEF GroupHandlersNext, tables, history
<1> QED
  BY <1>1, <1>21, <1>22, <1>23, <1>20 DEF AccessNext, accessVars, tables, history,
     SwitchUser, DeleteGroup, GiveItem

\* The default administrator keeps its row.
LEMMA KeeperStep ==
    ASSUME AccessRanges, JobRanges, Keeper, JobsInOrder, [AccessNext]_accessVars
    PROVE  Keeper'
<1> USE AccessAssumption DEF Keeper, AccessRanges, JobRanges, JobsInOrder, IsUser, UserRow,
       JobAt
<1>1. CASE UNCHANGED <<user, disabled>>
  BY <1>1
<1>2. ASSUME NEW p \in Worker, NEW u \in Uid, InsertUser(p, u) PROVE Keeper'
  BY <1>2 DEF InsertUser
<1>3. ASSUME NEW p \in Worker, StoreProfile(p) PROVE Keeper'
  BY <1>3 DEF StoreProfile
<1>4. ASSUME NEW p \in Worker, RefuseUserRoles(p) PROVE Keeper'
  BY <1>4 DEF RefuseUserRoles
<1>5. ASSUME NEW p \in Worker, RemoveNewUser(p) PROVE Keeper'
  BY <1>5 DEF RemoveNewUser
<1>6. ASSUME NEW p \in Worker, StoreUser(p) PROVE Keeper'
  BY <1>6 DEF StoreUser
<1>7. ASSUME NEW p \in Worker, DeleteUserRow(p) PROVE Keeper'
  BY <1>7 DEF DeleteUserRow
<1>8. ASSUME NEW p \in Worker, CleanProfile(p) PROVE Keeper'
  BY <1>8 DEF CleanProfile
<1>9. ASSUME NEW u \in Uid, NEW off \in BOOLEAN, SwitchUser(u, off) PROVE Keeper'
  BY <1>9 DEF SwitchUser
<1>10. ASSUME NEW p \in Worker, UserHandlersNext(p) PROVE Keeper'
  BY <1>1, <1>10, <1>2, <1>3, <1>4, <1>5, <1>6, <1>7, <1>8 DEF UserHandlersNext, tables,
     history, CountName, ReplaceUserRoles, ReadUser, CheckName, BeginDeleteUser, CountUsage,
     CleanRoles, CleanMembers
<1>11. CASE RolesNext
  BY <1>1, <1>11 DEF RolesNext, tables, history, CreateRole, UpdateRole, SwitchRole,
     DeleteRole
<1>12. ASSUME NEW p \in Worker, GroupHandlersNext(p) \/ CutShort(p) PROVE Keeper'
  BY <1>1, <1>12 DEF GroupHandlersNext, tables, history, StoreGroup, ReplaceRelations,
     CutShort
<1> QED
  BY <1>1, <1>10, <1>11, <1>12, <1>9 DEF AccessNext, accessVars, tables, history,
     DeleteGroup, GiveItem, Restart

\* Handlers stay harmless to it.
LEMMA JobsStep ==
    ASSUME AccessRanges, JobRanges, Keeper, JobsInOrder, [AccessNext]_accessVars
    PROVE  JobsInOrder'
<1> USE AccessAssumption DEF Keeper, AccessRanges, JobRanges, JobsInOrder, IsUser, UserRow,
       JobAt, CleanStep, tables, history
<1>1. CASE UNCHANGED job
  <2>1. \A q \in Worker : UForm(q)' = UForm(q)
    BY <1>1 DEF UForm
  <2> QED
    BY <1>1, <2>1
<1>2. ASSUME NEW p \in Worker, NEW form \in UserForm, CountName(p, form)
      PROVE  JobsInOrder'
  <2>2. job' = [job EXCEPT ![p] = SavingUser("counted", NoUid, form)]
    BY <1>2 DEF CountName
  <2>3. "counted" \in JobStep /\ NoUid \in Uid \cup {NoUid}
    BY DEF JobStep
  <2>4. /\ job' \in [Worker -> Job] /\ job'[p].step = "counted"
        /\ job'[p].user = NoUid /\ job'[p].uform # {} /\ UForm(p)' = form
        /\ \A q \in Worker \ {p} : job'[q] = job[q] /\ UForm(q)' = UForm(q)
    BY ONLY <2>2, <2>3, JobSaves, job \in [Worker -> Job], p \in Worker, form \in UserForm
  <2> QED
    BY <1>2, <2>4 DEF CountName, NameTaken
<1>3. ASSUME NEW p \in Worker, NEW u \in Uid, InsertUser(p, u) PROVE JobsInOrder'
  <2>1. UForm(p) \in UserForm
    BY <1>3, FormTaken DEF InsertUser
  <2>2. job' = [job EXCEPT ![p] = SavingUser("inserted", u, UForm(p))]
    BY <1>3 DEF InsertUser
  <2>3. "inserted" \in JobStep /\ u \in Uid \cup {NoUid}
    BY DEF JobStep
  <2>4. /\ job' \in [Worker -> Job] /\ job'[p].step = "inserted"
        /\ job'[p].user = u /\ job'[p].uform # {} /\ UForm(p)' = UForm(p)
        /\ \A q \in Worker \ {p} : job'[q] = job[q] /\ UForm(q)' = UForm(q)
    BY ONLY <2>1, <2>2, <2>3, JobSaves, job \in [Worker -> Job], p \in Worker
  <2> QED
    BY <1>3, <2>1, <2>4 DEF InsertUser
<1>4. ASSUME NEW p \in Worker, StoreProfile(p) PROVE JobsInOrder'
  <2>1. CASE JobAt(p, "inserted")
    <3>1. JobGoto(p, "undoing")
      BY <1>4, <2>1 DEF StoreProfile
    <3> QED
      BY <1>4, <2>1, <3>1, JobGoes DEF StoreProfile, JobStep
  <2>2. CASE ~JobAt(p, "inserted")
    <3>1. JobGoto(p, "profiled")
      BY <1>4, <2>2 DEF StoreProfile
    <3> QED
      BY <1>4, <2>2, <3>1, JobGoes DEF StoreProfile, JobStep
  <2> QED
    BY <2>1, <2>2
<1>5. ASSUME NEW p \in Worker, ReplaceUserRoles(p) PROVE JobsInOrder'
  <2>1. JobEnd(p)
    BY <1>5 DEF ReplaceUserRoles
  <2> QED
    BY <1>5, <2>1, JobEnds DEF ReplaceUserRoles
<1>6. ASSUME NEW p \in Worker, RefuseUserRoles(p) PROVE JobsInOrder'
  <2>1. CASE JobAt(p, "profiled")
    <3>1. JobEnd(p)
      BY <1>6, <2>1 DEF RefuseUserRoles
    <3> QED
      BY <1>6, <2>1, <3>1, JobEnds DEF RefuseUserRoles
  <2>2. CASE ~JobAt(p, "profiled")
    <3>1. JobGoto(p, "unprofiling")
      BY <1>6, <2>2 DEF RefuseUserRoles
    <3> QED
      BY <1>6, <2>2, <3>1, JobGoes DEF RefuseUserRoles, JobStep
  <2> QED
    BY <2>1, <2>2
<1>7. ASSUME NEW p \in Worker, RemoveNewUser(p) PROVE JobsInOrder'
  <2>1. JobEnd(p)
    BY <1>7 DEF RemoveNewUser
  <2> QED
    BY <1>7, <2>1, JobEnds DEF RemoveNewUser
<1>8. ASSUME NEW p \in Worker, NEW u \in Uid, NEW form \in UserForm, ReadUser(p, u, form)
      PROVE  JobsInOrder'
  <2>2. job' = [job EXCEPT ![p] = SavingUser("read", u, form)]
    BY <1>8 DEF ReadUser
  <2>3. "read" \in JobStep /\ u \in Uid \cup {NoUid}
    BY DEF JobStep
  <2>4. /\ job' \in [Worker -> Job] /\ job'[p].step = "read"
        /\ job'[p].user = u /\ job'[p].uform # {} /\ UForm(p)' = form
        /\ \A q \in Worker \ {p} : job'[q] = job[q] /\ UForm(q)' = UForm(q)
    BY ONLY <2>2, <2>3, JobSaves, job \in [Worker -> Job], p \in Worker, form \in UserForm
  <2> QED
    BY <1>8, <2>4 DEF ReadUser
<1>9. ASSUME NEW p \in Worker, CheckName(p) PROVE JobsInOrder'
  <2>1. JobGoto(p, "unique")
    BY <1>9 DEF CheckName
  <2> QED
    BY <1>9, <2>1, JobGoes DEF CheckName, JobStep, NameTaken
<1>10. ASSUME NEW p \in Worker, StoreUser(p) PROVE JobsInOrder'
  <2>1. JobGoto(p, "stored")
    BY <1>10 DEF StoreUser
  <2> QED
    BY <1>10, <2>1, JobGoes DEF StoreUser, JobStep
<1>11. ASSUME NEW p \in Worker, NEW u \in Uid, BeginDeleteUser(p, u) PROVE JobsInOrder'
  BY <1>11 DEF BeginDeleteUser, UForm
<1>12. ASSUME NEW p \in Worker, CountUsage(p) PROVE JobsInOrder'
  <2>1. JobGoto(p, "unused")
    BY <1>12 DEF CountUsage
  <2> QED
    BY <1>12, <2>1, JobGoes DEF CountUsage, JobStep
<1>13. ASSUME NEW p \in Worker, DeleteUserRow(p) PROVE JobsInOrder'
  <2>1. JobGoto(p, "deleted")
    BY <1>13 DEF DeleteUserRow
  <2> QED
    BY <1>13, <2>1, JobGoes DEF DeleteUserRow, JobStep
<1>14. ASSUME NEW p \in Worker, CleanProfile(p) PROVE JobsInOrder'
  <2>1. JobGoto(p, "unprofiled")
    BY <1>14 DEF CleanProfile
  <2> QED
    BY <1>14, <2>1, JobGoes DEF CleanProfile, JobStep
<1>15. ASSUME NEW p \in Worker, CleanRoles(p) PROVE JobsInOrder'
  <2>1. JobGoto(p, "unroled")
    BY <1>15 DEF CleanRoles
  <2> QED
    BY <1>15, <2>1, JobGoes DEF CleanRoles, JobStep
<1>16. ASSUME NEW p \in Worker, CleanMembers(p) PROVE JobsInOrder'
  <2>1. JobEnd(p)
    BY <1>16 DEF CleanMembers
  <2> QED
    BY <1>16, <2>1, JobEnds DEF CleanMembers
<1>17. ASSUME NEW p \in Worker, NEW g \in Group, NEW form \in GroupForm, StoreGroup(p, g,
             form)
      PROVE  JobsInOrder'
  <2>1. job'[p].step = "grouped"
    BY <1>17 DEF StoreGroup
  <2>2. \A q \in Worker \ {p} : job'[q] = job[q]
    BY <1>17 DEF StoreGroup
  <2>3. \A q \in Worker \ {p} : UForm(q)' = UForm(q)
    BY <2>2 DEF UForm
  <2> QED
    BY <2>1, <2>2, <2>3
<1>18. ASSUME NEW p \in Worker, ReplaceRelations(p) PROVE JobsInOrder'
  <2>1. JobEnd(p)
    BY <1>18 DEF ReplaceRelations
  <2> QED
    BY <1>18, <2>1, JobEnds DEF ReplaceRelations
<1>19. ASSUME NEW p \in Worker, CutShort(p) PROVE JobsInOrder'
  <2>1. JobEnd(p)
    BY <1>19 DEF CutShort
  <2> QED
    BY <1>19, <2>1, JobEnds DEF CutShort
<1>20. ASSUME Restart PROVE JobsInOrder'
  BY <1>20 DEF Restart, IdleJob
<1>21. ASSUME NEW p \in Worker, UserHandlersNext(p) PROVE JobsInOrder'
  BY <1>1, <1>21, <1>2, <1>3, <1>4, <1>5, <1>6, <1>7, <1>8, <1>9, <1>10, <1>11, <1>12,
     <1>13, <1>14, <1>15, <1>16 DEF UserHandlersNext, tables, history
<1>22. CASE RolesNext
  BY <1>1, <1>22 DEF RolesNext, tables, history, CreateRole, UpdateRole, SwitchRole,
     DeleteRole
<1>23. ASSUME NEW p \in Worker, GroupHandlersNext(p) \/ CutShort(p) PROVE JobsInOrder'
  BY <1>1, <1>23, <1>17, <1>18, <1>19 DEF GroupHandlersNext, tables, history
<1> QED
  BY <1>1, <1>21, <1>22, <1>23, <1>20 DEF AccessNext, accessVars, tables, history,
     SwitchUser, DeleteGroup, GiveItem

\* Roles are looked up where they are written.
LEMMA RolesStep ==
    ASSUME AccessRanges, RolesKnown, [AccessNext]_accessVars
    PROVE  RolesKnown'
<1> USE AccessAssumption DEF AccessRanges, RolesKnown, IsRole
<1>1. CASE UNCHANGED <<role, userRole, groupRole>>
  BY <1>1
<1>2. ASSUME NEW p \in Worker, ReplaceUserRoles(p) PROVE RolesKnown'
  BY <1>2 DEF ReplaceUserRoles
<1>3. ASSUME NEW p \in Worker, CleanRoles(p) PROVE RolesKnown'
  BY <1>3 DEF CleanRoles
<1>4. ASSUME NEW p \in Worker, ReplaceRelations(p) PROVE RolesKnown'
  BY <1>4 DEF ReplaceRelations
<1>5. ASSUME NEW r \in Role, NEW keys \in Grant, CreateRole(r, keys) PROVE RolesKnown'
  BY <1>5 DEF CreateRole
<1>6. ASSUME NEW r \in Role, NEW off \in BOOLEAN, SwitchRole(r, off) PROVE RolesKnown'
  BY <1>6 DEF SwitchRole
<1>7. ASSUME NEW r \in Role, DeleteRole(r) PROVE RolesKnown'
  BY <1>7 DEF DeleteRole
<1>8. ASSUME NEW g \in Group, DeleteGroup(g) PROVE RolesKnown'
  BY <1>8 DEF DeleteGroup
<1>9. ASSUME NEW p \in Worker, UserHandlersNext(p) PROVE RolesKnown'
  BY <1>1, <1>9, <1>2, <1>3 DEF UserHandlersNext, tables, history, CountName, InsertUser,
     StoreProfile, RefuseUserRoles, RemoveNewUser, ReadUser, CheckName, StoreUser,
     BeginDeleteUser, CountUsage, DeleteUserRow, CleanProfile, CleanMembers
<1>10. CASE RolesNext
  BY <1>1, <1>10, <1>5, <1>6, <1>7 DEF RolesNext, tables, history, UpdateRole
<1>11. ASSUME NEW p \in Worker, GroupHandlersNext(p) \/ CutShort(p) PROVE RolesKnown'
  BY <1>1, <1>11, <1>4 DEF GroupHandlersNext, tables, history, StoreGroup, CutShort
<1> QED
  BY <1>1, <1>9, <1>10, <1>11, <1>8 DEF AccessNext, accessVars, tables, history, SwitchUser,
     GiveItem, Restart

\* Members go with their user, or it is on record that they did not.
LEMMA MembersStep ==
    ASSUME AccessRanges, JobRanges, MembersKnown, [AccessNext]_accessVars
    PROVE  MembersKnown'
<1> USE AccessAssumption DEF AccessRanges, JobRanges, MembersKnown, IsUser, JobAt,
       CleanStep, tables, history
<1>1. CASE UNCHANGED <<user, member, cut, undone, job>>
  BY <1>1
<1>2. ASSUME NEW p \in Worker, NEW form \in UserForm, CountName(p, form)
      PROVE  MembersKnown'
  <2>2. job' = [job EXCEPT ![p] = SavingUser("counted", NoUid, form)]
    BY <1>2 DEF CountName
  <2>3. "counted" \in JobStep /\ NoUid \in Uid \cup {NoUid}
    BY DEF JobStep
  <2>4. /\ job' \in [Worker -> Job] /\ job'[p].step = "counted"
        /\ job'[p].user = NoUid /\ job'[p].uform # {} /\ UForm(p)' = form
        /\ \A q \in Worker \ {p} : job'[q] = job[q] /\ UForm(q)' = UForm(q)
    BY ONLY <2>2, <2>3, JobSaves, job \in [Worker -> Job], p \in Worker, form \in UserForm
  <2> QED
    BY <1>2, <2>4 DEF CountName
<1>3. ASSUME NEW p \in Worker, NEW u \in Uid, InsertUser(p, u) PROVE MembersKnown'
  <2>1. UForm(p) \in UserForm
    BY <1>3, FormTaken DEF InsertUser
  <2>2. job' = [job EXCEPT ![p] = SavingUser("inserted", u, UForm(p))]
    BY <1>3 DEF InsertUser
  <2>3. "inserted" \in JobStep /\ u \in Uid \cup {NoUid}
    BY DEF JobStep
  <2>4. /\ job' \in [Worker -> Job] /\ job'[p].step = "inserted"
        /\ job'[p].user = u /\ job'[p].uform # {} /\ UForm(p)' = UForm(p)
        /\ \A q \in Worker \ {p} : job'[q] = job[q] /\ UForm(q)' = UForm(q)
    BY ONLY <2>1, <2>2, <2>3, JobSaves, job \in [Worker -> Job], p \in Worker
  <2> QED
    BY <1>3, <2>1, <2>4 DEF InsertUser
<1>4. ASSUME NEW p \in Worker, StoreProfile(p) PROVE MembersKnown'
  <2>1. CASE JobAt(p, "inserted")
    <3>1. JobGoto(p, "undoing")
      BY <1>4, <2>1 DEF StoreProfile
    <3> QED
      BY <1>4, <2>1, <3>1, JobGoes DEF StoreProfile, JobStep
  <2>2. CASE ~JobAt(p, "inserted")
    <3>1. JobGoto(p, "profiled")
      BY <1>4, <2>2 DEF StoreProfile
    <3> QED
      BY <1>4, <2>2, <3>1, JobGoes DEF StoreProfile, JobStep
  <2> QED
    BY <2>1, <2>2
<1>5. ASSUME NEW p \in Worker, ReplaceUserRoles(p) PROVE MembersKnown'
  <2>1. JobEnd(p)
    BY <1>5 DEF ReplaceUserRoles
  <2> QED
    BY <1>5, <2>1, JobEnds DEF ReplaceUserRoles
<1>6. ASSUME NEW p \in Worker, RefuseUserRoles(p) PROVE MembersKnown'
  <2>1. CASE JobAt(p, "profiled")
    <3>1. JobEnd(p)
      BY <1>6, <2>1 DEF RefuseUserRoles
    <3> QED
      BY <1>6, <2>1, <3>1, JobEnds DEF RefuseUserRoles
  <2>2. CASE ~JobAt(p, "profiled")
    <3>1. JobGoto(p, "unprofiling")
      BY <1>6, <2>2 DEF RefuseUserRoles
    <3> QED
      BY <1>6, <2>2, <3>1, JobGoes DEF RefuseUserRoles, JobStep
  <2> QED
    BY <2>1, <2>2
<1>7. ASSUME NEW p \in Worker, RemoveNewUser(p) PROVE MembersKnown'
  <2>1. JobEnd(p)
    BY <1>7 DEF RemoveNewUser
  <2> QED
    BY <1>7, <2>1, JobEnds DEF RemoveNewUser
<1>8. ASSUME NEW p \in Worker, NEW u \in Uid, NEW form \in UserForm, ReadUser(p, u, form)
      PROVE  MembersKnown'
  <2>2. job' = [job EXCEPT ![p] = SavingUser("read", u, form)]
    BY <1>8 DEF ReadUser
  <2>3. "read" \in JobStep /\ u \in Uid \cup {NoUid}
    BY DEF JobStep
  <2>4. /\ job' \in [Worker -> Job] /\ job'[p].step = "read"
        /\ job'[p].user = u /\ job'[p].uform # {} /\ UForm(p)' = form
        /\ \A q \in Worker \ {p} : job'[q] = job[q] /\ UForm(q)' = UForm(q)
    BY ONLY <2>2, <2>3, JobSaves, job \in [Worker -> Job], p \in Worker, form \in UserForm
  <2> QED
    BY <1>8, <2>4 DEF ReadUser
<1>9. ASSUME NEW p \in Worker, CheckName(p) PROVE MembersKnown'
  <2>1. JobGoto(p, "unique")
    BY <1>9 DEF CheckName
  <2> QED
    BY <1>9, <2>1, JobGoes DEF CheckName, JobStep
<1>10. ASSUME NEW p \in Worker, StoreUser(p) PROVE MembersKnown'
  <2>1. JobGoto(p, "stored")
    BY <1>10 DEF StoreUser
  <2>2. /\ job[p].user \in Uid
        /\ [name |-> UForm(p).name, type |-> TypeOf(UForm(p))] \in UserRow
        /\ [name |-> UForm(p).name, type |-> 0] \in UserRow
    BY <1>10, FormTaken DEF StoreUser
  <2>3. \A v \in Uid : IsUser(v) => IsUser(v)'
    BY <1>10, <2>2 DEF StoreUser
  <2> QED
    BY <1>10, <2>1, <2>3, JobGoes DEF StoreUser, JobStep
<1>11. ASSUME NEW p \in Worker, NEW u \in Uid, BeginDeleteUser(p, u) PROVE MembersKnown'
  BY <1>11 DEF BeginDeleteUser, Job
<1>12. ASSUME NEW p \in Worker, CountUsage(p) PROVE MembersKnown'
  <2>1. JobGoto(p, "unused")
    BY <1>12 DEF CountUsage
  <2> QED
    BY <1>12, <2>1, JobGoes DEF CountUsage, JobStep
<1>13. ASSUME NEW p \in Worker, DeleteUserRow(p) PROVE MembersKnown'
  <2>1. JobGoto(p, "deleted")
    BY <1>13 DEF DeleteUserRow
  <2> QED
    BY <1>13, <2>1, JobGoes DEF DeleteUserRow, JobStep
<1>14. ASSUME NEW p \in Worker, CleanProfile(p) PROVE MembersKnown'
  <2>1. JobGoto(p, "unprofiled")
    BY <1>14 DEF CleanProfile
  <2> QED
    BY <1>14, <2>1, JobGoes DEF CleanProfile, JobStep
<1>15. ASSUME NEW p \in Worker, CleanRoles(p) PROVE MembersKnown'
  <2>1. JobGoto(p, "unroled")
    BY <1>15 DEF CleanRoles
  <2> QED
    BY <1>15, <2>1, JobGoes DEF CleanRoles, JobStep
<1>16. ASSUME NEW p \in Worker, CleanMembers(p) PROVE MembersKnown'
  <2>1. JobEnd(p)
    BY <1>16 DEF CleanMembers
  <2> QED
    BY <1>16, <2>1, JobEnds DEF CleanMembers
<1>17. ASSUME NEW p \in Worker, NEW g \in Group, NEW form \in GroupForm, StoreGroup(p, g,
             form)
      PROVE  MembersKnown'
  BY <1>17 DEF StoreGroup, Job
<1>18. ASSUME NEW p \in Worker, ReplaceRelations(p) PROVE MembersKnown'
  <2>1. JobEnd(p)
    BY <1>18 DEF ReplaceRelations
  <2> QED
    BY <1>18, <2>1, JobEnds DEF ReplaceRelations
<1>19. ASSUME NEW p \in Worker, CutShort(p) PROVE MembersKnown'
  <2>1. JobEnd(p)
    BY <1>19 DEF CutShort
  <2> QED
    BY <1>19, <2>1, JobEnds DEF CutShort, CutBehind
<1>20. ASSUME NEW g \in Group, DeleteGroup(g) PROVE MembersKnown'
  BY <1>20 DEF DeleteGroup
<1>21. ASSUME Restart PROVE MembersKnown'
  BY <1>21 DEF Restart, CutBehind, IdleJob
<1>22. ASSUME NEW p \in Worker, UserHandlersNext(p) PROVE MembersKnown'
  BY <1>1, <1>22, <1>2, <1>3, <1>4, <1>5, <1>6, <1>7, <1>8, <1>9, <1>10, <1>11, <1>12,
     <1>13, <1>14, <1>15, <1>16 DEF UserHandlersNext, tables, history
<1>23. CASE RolesNext
  BY <1>1, <1>23 DEF RolesNext, tables, history, CreateRole, UpdateRole, SwitchRole,
     DeleteRole
<1>24. ASSUME NEW p \in Worker, GroupHandlersNext(p) \/ CutShort(p) PROVE MembersKnown'
  BY <1>1, <1>24, <1>17, <1>18, <1>19 DEF GroupHandlersNext, tables, history
<1> QED
  BY <1>1, <1>22, <1>23, <1>24, <1>20, <1>21 DEF AccessNext, accessVars, tables, history,
     SwitchUser, GiveItem

\* Items go to the default administrator.
LEMMA ItemsStep ==
    ASSUME AccessRanges, JobRanges, Keeper, JobsInOrder, ItemsHandedOver, [AccessNext]_accessVars
    PROVE  ItemsHandedOver'
<1> USE AccessAssumption DEF AccessRanges, JobRanges, Keeper, JobsInOrder, ItemsHandedOver,
       IsUser, JobAt
<1>1. CASE UNCHANGED <<user, holder, late, undone>>
  BY <1>1
<1>2. ASSUME NEW p \in Worker, NEW u \in Uid, InsertUser(p, u) PROVE ItemsHandedOver'
  <2>1. [name |-> UForm(p).name, type |-> TypeOf(UForm(p))] \in UserRow
    BY <1>2, FormTaken DEF InsertUser
  <2>2. \A v \in Uid : IsUser(v) => IsUser(v)'
    BY <1>2, <2>1 DEF InsertUser
  <2> QED
    BY <1>2, <2>2 DEF InsertUser, history
<1>3. ASSUME NEW p \in Worker, RemoveNewUser(p) PROVE ItemsHandedOver'
  BY <1>3 DEF RemoveNewUser
<1>4. ASSUME NEW p \in Worker, StoreUser(p) PROVE ItemsHandedOver'
  <2>1. /\ job[p].user \in Uid
        /\ [name |-> UForm(p).name, type |-> TypeOf(UForm(p))] \in UserRow
        /\ [name |-> UForm(p).name, type |-> 0] \in UserRow
    BY <1>4, FormTaken DEF StoreUser
  <2>2. \A v \in Uid : IsUser(v) => IsUser(v)'
    BY <1>4, <2>1 DEF StoreUser
  <2> QED
    BY <1>4, <2>2 DEF StoreUser, history
<1>5. ASSUME NEW p \in Worker, DeleteUserRow(p) PROVE ItemsHandedOver'
  <2> DEFINE heir == CHOOSE v \in Uid : IsUser(v) /\ user[v].name = Admin
  <2>1. AdminId \in Uid /\ IsUser(AdminId) /\ user[AdminId].name = Admin
    BY DEF UserRow
  <2>2. heir \in Uid /\ IsUser(heir) /\ user[heir].name = Admin
    BY <2>1
  <2>3. heir = AdminId
    BY <2>2
  <2>4. job[p].user # AdminId /\ job[p].user \in Uid
    BY <1>5 DEF DeleteUserRow
  <2>5. /\ user' = [user EXCEPT ![job[p].user] = Gone]
        /\ holder' = [i \in Item |-> IF holder[i] = job[p].user THEN heir ELSE holder[i]]
        /\ late' = late /\ undone' = undone
    BY ONLY <1>5 DEF DeleteUserRow, history
  <2> HIDE DEF heir
  <2>8. holder' = [i \in Item |-> IF holder[i] = job[p].user THEN AdminId ELSE holder[i]]
    BY ONLY <2>3, <2>5
  <2>6. \A v \in Uid \ {job[p].user} : IsUser(v) => IsUser(v)'
    BY <2>5
  <2>7. IsUser(AdminId)'
    BY <2>1, <2>4, <2>6
  <2> QED
    BY <2>4, <2>5, <2>6, <2>7, <2>8
<1>6. ASSUME NEW i \in Item, NEW u \in Uid, GiveItem(i, u) PROVE ItemsHandedOver'
  BY <1>6 DEF GiveItem
<1>7. ASSUME NEW p \in Worker, UserHandlersNext(p) PROVE ItemsHandedOver'
  BY <1>1, <1>7, <1>2, <1>3, <1>4, <1>5 DEF UserHandlersNext, tables, history, CountName,
     StoreProfile, ReplaceUserRoles, RefuseUserRoles, ReadUser, CheckName, BeginDeleteUser,
     CountUsage, CleanProfile, CleanRoles, CleanMembers
<1>8. CASE RolesNext
  BY <1>1, <1>8 DEF RolesNext, tables, history, CreateRole, UpdateRole, SwitchRole,
     DeleteRole
<1>9. ASSUME NEW p \in Worker, GroupHandlersNext(p) \/ CutShort(p) PROVE ItemsHandedOver'
  BY <1>1, <1>9 DEF GroupHandlersNext, tables, history, StoreGroup, ReplaceRelations,
     CutShort
<1> QED
  BY <1>1, <1>7, <1>8, <1>9, <1>6 DEF AccessNext, accessVars, tables, history, SwitchUser,
     DeleteGroup, Restart

LEMMA AccessInitInv == AccessInit => AccessInv
<1> SUFFICES ASSUME AccessInit PROVE AccessInv
  OBVIOUS
<1> USE AccessAssumption DEF AccessInit
<1>1. IdleJob \in Job /\ IdleJob.step = "idle"
  BY DEF IdleJob, Job, JobStep
<1>2. [name |-> Admin, type |-> 0] \in UserRow
  BY DEF UserRow
<1>3. AccessRanges
  <2>1. user \in [Uid -> UserRow \cup {Undrawn, Gone}]
    BY <1>2
  <2>2. role \in [Role -> {"none", "on", "off"}]
    OBVIOUS
  <2>3. userRole \subseteq Uid \X Role
    OBVIOUS
  <2> QED
    BY <2>1, <2>2, <2>3 DEF AccessRanges
<1>g. GrantRange
  <2>1. PICK old \in SUBSET (Role \ Builtin), keys \in Grant :
           grant = [r \in Role |-> IF r \in Builtin \cup old THEN AtStart(r, keys) ELSE {}]
    OBVIOUS
  <2>2. keys \in SUBSET (Permission \cup Legacy)
    OBVIOUS
  <2> QED
    BY <2>1, <2>2, AtStartType DEF GrantRange
<1>4. JobRanges
  BY <1>1 DEF JobRanges, JobAt
<1>5. Keeper
  BY <1>2 DEF Keeper, IsUser
<1>6. JobsInOrder
  BY <1>1 DEF JobsInOrder, CleanStep
<1>7. RolesKnown
  BY DEF RolesKnown, IsRole
<1>8. MembersKnown /\ ItemsHandedOver
  BY DEF MembersKnown, ItemsHandedOver
<1> QED
  BY <1>3, <1>g, <1>4, <1>5, <1>6, <1>7, <1>8 DEF AccessInv

LEMMA AccessStepInv == AccessInv /\ [AccessNext]_accessVars => AccessInv'
<1> SUFFICES ASSUME AccessInv, [AccessNext]_accessVars PROVE AccessInv'
  OBVIOUS
<1> USE DEF AccessInv
<1>1. AccessRanges'
  BY AccessRangesStep
<1>g. GrantRange'
  BY GrantStep
<1>2. JobRanges'
  BY JobRangesStep
<1>3. Keeper'
  BY KeeperStep
<1>4. JobsInOrder'
  BY JobsStep
<1>5. RolesKnown'
  BY RolesStep
<1>6. MembersKnown'
  BY MembersStep
<1>7. ItemsHandedOver'
  BY ItemsStep
<1> QED
  BY <1>1, <1>g, <1>2, <1>3, <1>4, <1>5, <1>6, <1>7

LEMMA AccessInvTypes == AccessInv => AccessTypeOK
BY DEF AccessInv, AccessRanges, GrantRange, JobRanges, AccessTypeOK

LEMMA AccessInvariance == AccessSpec => []AccessInv
BY AccessInitInv, AccessStepInv, PTL DEF AccessSpec

\* The default administrator is never lost, renamed, demoted or disabled, however many
\* handlers of UserWorkflow.Update, handleSettingsUserDisabled and UserWorkflow.Delete
\* overlap, are cut short or cut off by a restart.
THEOREM AnAdministratorStays == AccessSpec => []AdminKept
<1>1. AccessInv => AdminKept
  <2> SUFFICES ASSUME AccessInv PROVE AdminKept
    OBVIOUS
  <2>1. AdminId \in Uid /\ user[AdminId] = [name |-> Admin, type |-> 0] /\ AdminId \notin disabled
    BY AccessAssumption DEF AccessInv, Keeper
  <2>2. IsUser(AdminId)
    BY <2>1, AccessAssumption DEF IsUser, UserRow
  <2> QED
    BY <2>1, <2>2 DEF AdminKept
<1> QED
  BY <1>1, AccessInvariance, PTL

\* No user and no group is left with a role that was deleted while they were saved.
THEOREM AssignedRolesAreKnown == AccessSpec => []RolesKnown
<1>1. AccessInv => RolesKnown
  BY DEF AccessInv
<1> QED
  BY <1>1, AccessInvariance, PTL

\* A member of a group is a user, unless the clean-up behind its deletion is still under
\* way or was cut short.
THEOREM GroupMembersAreKnown == AccessSpec => []MembersKnown
<1>1. AccessInv => MembersKnown
  BY DEF AccessInv
<1> QED
  BY <1>1, AccessInvariance, PTL

\* Deleting a user hands its items over, those it got after they were counted, too.
THEOREM ItemsAreHandedOver == AccessSpec => []ItemsHandedOver
<1>1. AccessInv => ItemsHandedOver
  BY DEF AccessInv
<1> QED
  BY <1>1, AccessInvariance, PTL

\* Every table and handler keeps its range: nothing but permissions of the catalogue gets
\* into a role, whatever its form or an older version says (normalizePermissions).
THEOREM AccessTypeCorrect == AccessSpec => []AccessTypeOK
BY AccessInvTypes, AccessInvariance, PTL

\* Any users, groups, roles and catalogue: UserAccess and HasPermission give a user what its
\* enabled roles grant and all that follows from it, however indirectly, and nothing else.
THEOREM PermissionsAreExact == AccessSpec => []PermissionsFollow
<1>1. AccessInv => PermissionsFollow
  <2> SUFFICES ASSUME AccessInv, NEW u \in Uid, IsUser(u), user[u].type = 1
               PROVE  LET granted ==
                              Permission \cap UNION {grant[r] : r \in EffectiveRoles(u)}
                      IN  Permissions(u) =
                              {k \in Permission :
                                  \A keys \in SUBSET Permission :
                                     (granted \subseteq keys /\ Closed(keys)) => k \in keys}
    BY DEF PermissionsFollow
  <2> DEFINE roles == EffectiveRoles(u)
             granted == Permission \cap UNION {grant[r] : r \in roles}
             collected == UNION {Normalized(grant[r]) : r \in roles}
             got == Normalized(collected)
  <2>1. Permissions(u) = got
    <3>1. user[u].name # Admin
      BY DEF AccessInv, Keeper
    <3> QED
      BY <3>1 DEF Permissions
  <2> HIDE DEF roles
  <2>2. \A r \in roles : /\ Normalized(grant[r]) \subseteq Permission
                         /\ grant[r] \cap Permission \subseteq Normalized(grant[r])
    BY NormalizedCloses
  <2>3. granted \subseteq collected /\ collected \subseteq Permission
    BY <2>2
  <2>4. ASSUME NEW keys \in SUBSET Permission, granted \subseteq keys, Closed(keys)
        PROVE  collected \subseteq keys
    <3>1. ASSUME NEW r \in roles PROVE Normalized(grant[r]) \subseteq keys
      <4>1. grant[r] \cap Permission \subseteq keys
        BY <2>4
      <4> QED
        BY <2>4, <4>1, NormalizedCloses
    <3> QED
      BY <3>1
  <2> HIDE DEF granted, collected
  <2>5. /\ got \subseteq Permission /\ collected \subseteq got /\ Closed(got)
        /\ \A keys : Closed(keys) /\ collected \cap Permission \subseteq keys => got \subseteq keys
    BY <2>3, NormalizedCloses
  <2> HIDE DEF got
  <2>6. got = {k \in Permission : \A keys \in SUBSET Permission :
                                     (granted \subseteq keys /\ Closed(keys)) => k \in keys}
    BY <2>3, <2>4, <2>5
  <2> QED
    BY <2>1, <2>6 DEF granted, roles
<1> QED
  BY <1>1, AccessInvariance, PTL

-----------------------------------------------------------------------------
\* The conversion of a legacy database: what each phase relies on.

Early == {"attached", "copied", "usersCopied"}
Copied == {"copied", "usersCopied", "merging"}
InLoops == {"statesOut", "statesIn", "statesNumbered", "typesOut", "typesIn"}
Late == {"normalized", "restored", "done"}
LegacyPhase == Early \cup {"merging", "failed"} \cup InLoops \cup Late

IsUsers(users) == DOMAIN users \subseteq 1..MaxUser /\ \A id \in DOMAIN users : users[id] \in Login

UsersTyped ==
    /\ source \in LegacyFile
    /\ IsUsers(running) /\ IsUsers(merged) /\ IsUsers(before)
    /\ runningRole \subseteq (1..MaxUser) \X Roles
    /\ mergedRole \subseteq (1..MaxUser) \X Roles
    /\ mine \subseteq Login /\ taken \subseteq 1..MaxUser /\ pending \subseteq source.users
    /\ imported \subseteq [id : 1..MaxUser, type : 0..1]

\* A row of the file that was looked at is of a name that is there already, or its
\* user is among the imported, with an id that no copied user has.
UsersInOrder ==
    /\ DOMAIN before \subseteq DOMAIN merged
    /\ \A id \in DOMAIN before : merged[id] = before[id]
    /\ phase \notin Early \cup {"failed"} =>
          \A row \in source.users \ pending : row.name \in mine \/
              \E u \in imported : /\ u.id \in DOMAIN merged \ DOMAIN before
                                  /\ merged[u.id] = row.name /\ u.type = row.type
    /\ phase \in InLoops \cup Late => pending = {}
    /\ phase = "done" => \A u \in imported : <<u.id, RoleOfType(u.type)>> \in mergedRole

UsersInv == phase \in LegacyPhase /\ UsersTyped /\ UsersInOrder

\* Ids are natural numbers, and few.
FewIds(f) == DOMAIN f \subseteq Nat /\ IsFiniteSet(DOMAIN f)

RecordsTyped ==
    /\ source \in LegacyFile /\ phase \in LegacyPhase
    /\ FewIds(types) /\ FewIds(states)
    /\ DOMAIN moving \subseteq Nat /\ \A i \in DOMAIN moving : moving[i] \in Nat
    /\ todo \subseteq DOMAIN moving
    /\ records \in [Record -> [type : Nat, state : Nat]]

\* moving leads from the ids of some in old to ids of the same name in new.
Leads(some, old, new) ==
    /\ DOMAIN moving = some
    /\ \A i \in some : moving[i] \in DOMAIN new /\ moving[i] < Offset /\ new[moving[i]] = old[i]

\* The tables are copied once.
TablesCopied ==
    /\ (phase \in Copied /\ source.states # NoRows) => states = source.states
    /\ (phase \in Copied \cup {"statesOut", "statesIn", "statesNumbered"} /\ source.types # NoRows)
          => types = source.types

\* Where an item is whose state was w.
StateFollows(w, is) ==
    /\ phase \in {"attached"} \cup Copied => is = w
    /\ phase \in {"statesOut", "statesIn"} => Leads(DOMAIN source.states, source.states, states)
    /\ phase = "statesOut" => is = IF w \in todo THEN w ELSE w + Offset
    /\ phase = "statesIn" => is = IF w \in todo THEN w + Offset ELSE moving[w]
    /\ phase \in {"statesNumbered", "typesOut", "typesIn"} \cup Late =>
          is \in DOMAIN states /\ states[is] = source.states[w]

\* Where an item is whose type was w.  Items of a type that keeps its id stay.
TypeFollows(w, is) ==
    /\ phase \in {"attached", "statesOut", "statesIn", "statesNumbered"} \cup Copied => is = w
    /\ phase \in {"typesOut", "typesIn"} =>
          /\ Leads(Named(source.types), source.types, types)
          /\ \A i \in todo : moving[i] # i
    /\ phase = "typesOut" => is = IF w \in todo \/ moving[w] = w THEN w ELSE w + Offset
    /\ phase = "typesIn" => is = IF w \in todo THEN w + Offset ELSE moving[w]
    /\ phase \in Late => is \in DOMAIN types /\ types[is] = source.types[w]

RecordsInOrder ==
    \A x \in Record :
        /\ source.records[x].state \in DOMAIN source.states =>
              StateFollows(source.records[x].state, records[x].state)
        /\ source.records[x].type \in Named(source.types) =>
              TypeFollows(source.records[x].type, records[x].type)

RecordsInv == RecordsTyped /\ TablesCopied /\ RecordsInOrder

\* What a file of an old version holds.
LEMMA RecordsOfFile ==
    ASSUME NEW legacy \in LegacyFile
    PROVE  /\ legacy.records \in [Record -> [type : OldIds, state : OldIds]]
           /\ legacy.records \in [Record -> [type : Nat, state : Nat]]
           /\ DOMAIN legacy.types \subseteq OldIds /\ DOMAIN legacy.states \subseteq OldIds
<1> USE LegacyAssumption
<1>1. legacy.records \in [Record -> [type : OldIds, state : OldIds]]
  OBVIOUS
<1>2. OldIds \subseteq Nat
  BY DEF OldIds
<1>3. \A f \in OldDictionary : DOMAIN f \subseteq OldIds
  BY DEF OldDictionary
<1> QED
  BY <1>1, <1>2, <1>3

LEMMA LegacyInitInv == ASSUME LegacyInit PROVE UsersInv /\ RecordsInv
<1> USE LegacyAssumption
<1>1. source \in LegacyFile /\ phase = "attached"
  BY DEF LegacyInit
<1>2. /\ pending = {} /\ pending \subseteq source.users /\ imported = {} /\ mine = {} /\ taken = {}
      /\ DOMAIN merged = {} /\ DOMAIN before = {} /\ mergedRole = {}
  BY DEF LegacyInit, NoRows
<1>3. IsUsers(running) /\ IsUsers(merged) /\ IsUsers(before)
  BY <1>2 DEF LegacyInit, IsUsers
<1>4. runningRole \subseteq (1..MaxUser) \X Roles
  BY DEF LegacyInit
<1>5. UsersTyped
  BY <1>1, <1>2, <1>3, <1>4 DEF UsersTyped
<1>6. UsersInv
  BY <1>1, <1>2, <1>5 DEF UsersInv, UsersInOrder, LegacyPhase, Early, InLoops, Late
<1>7. FewIds(types) /\ FewIds(states)
  <2>1. DOMAIN types = 1..Len(BuiltinType) /\ DOMAIN states = 1..Len(SeedState)
    BY DEF LegacyInit
  <2>2. Len(BuiltinType) \in Nat /\ Len(SeedState) \in Nat
    OBVIOUS
  <2>3. ASSUME NEW n \in Nat PROVE 1..n \subseteq Nat /\ IsFiniteSet(1..n)
    <3>1. 1 \in Int /\ n \in Int
      OBVIOUS
    <3>2. IsFiniteSet(1..n)
      BY <3>1, FS_Interval, Zenon
    <3> QED
      BY <3>2
  <2> QED
    BY <2>1, <2>2, <2>3 DEF FewIds
<1>8. records = source.records /\ records \in [Record -> [type : Nat, state : Nat]]
  BY <1>1, RecordsOfFile DEF LegacyInit
<1>9. DOMAIN moving = {} /\ todo = {}
  BY DEF LegacyInit, NoRows
<1>10. RecordsTyped
  BY <1>1, <1>7, <1>8, <1>9 DEF RecordsTyped, LegacyPhase, Early
<1>11. TablesCopied
  BY <1>1 DEF TablesCopied, Copied
<1>12. RecordsInOrder
  BY <1>1, <1>8 DEF RecordsInOrder, StateFollows, TypeFollows, Copied, Late
<1> QED
  BY <1>6, <1>10, <1>11, <1>12 DEF RecordsInv

-----------------------------------------------------------------------------
\* Users.

\* The id that AUTOINCREMENT draws is new.
LEMMA NextUserIsNew ==
    ASSUME IsUsers(merged)
    PROVE  NextUser \in Nat \ {0} /\ NextUser \notin DOMAIN merged
<1> USE LegacyAssumption
<1> DEFINE ids == DOMAIN merged \cup {1}
<1>1. PICK n \in ids : \A id \in ids : id <= n
  <2>1. ids \in SUBSET Nat /\ ids # {} /\ \A n \in ids : n <= MaxUser
    BY DEF IsUsers
  <2> HIDE DEF ids
  <2> QED
    BY <2>1, GreatestNatural
<1>2. n \in 1..MaxUser
  BY DEF IsUsers
<1>3. \E m \in 1..MaxUser : m \in DOMAIN merged \cup {1} /\ \A id \in DOMAIN merged : id <= m
  BY <1>1, <1>2
<1> DEFINE last == CHOOSE m \in 1..MaxUser :
                      m \in DOMAIN merged \cup {1} /\ \A id \in DOMAIN merged : id <= m
<1>4. last \in 1..MaxUser /\ \A id \in DOMAIN merged : id <= last
  BY <1>3, Zenon
<1>5. NextUser = 1 + last
  BY DEF NextUser
<1> HIDE DEF last
<1> QED
  BY <1>4, <1>5

\* A new user beside those that are there.
LEMMA InsertedInOrder ==
    ASSUME UsersInv, phase = "merging", NEW row \in pending, NEW id \in 1..MaxUser,
           id \notin DOMAIN merged, Inserted(row, id), taken' \subseteq 1..MaxUser,
           UNCHANGED <<source, phase, theRunning, mergedRole, mine, before>>
    PROVE  UsersInv'
<1> USE LegacyAssumption
<1>1. /\ row \in source.users /\ row.name \in Login /\ row.type \in 0..1
      /\ source' = source /\ phase' = phase /\ mine' = mine /\ before' = before
      /\ DOMAIN merged' = DOMAIN merged \cup {id}
      /\ merged'[id] = row.name /\ \A i \in DOMAIN merged : merged'[i] = merged[i]
      /\ imported' = imported \cup {[id |-> id, type |-> row.type]}
      /\ pending' = pending \ {row}
  BY DEF UsersInv, UsersTyped, OldUser, Inserted
<1>2. IsUsers(merged)'
  BY <1>1 DEF UsersInv, UsersTyped, IsUsers
<1>3. UsersTyped'
  BY <1>1, <1>2 DEF UsersInv, UsersTyped, IsUsers, theRunning
<1>4. \A r \in source.users \ pending' : r.name \in mine \/
         \E u \in imported' : /\ u.id \in DOMAIN merged' \ DOMAIN before
                              /\ merged'[u.id] = r.name /\ u.type = r.type
  <2> SUFFICES ASSUME NEW r \in source.users \ pending', r.name \notin mine
               PROVE  \E u \in imported' : /\ u.id \in DOMAIN merged' \ DOMAIN before
                                           /\ merged'[u.id] = r.name /\ u.type = r.type
    OBVIOUS
  <2>1. CASE r = row
    <3> DEFINE u == [id |-> id, type |-> row.type]
    <3>1. u \in imported' /\ u.id = id /\ u.type = row.type
      BY <1>1
    <3>2. id \in DOMAIN merged' \ DOMAIN before
      BY <1>1 DEF UsersInv, UsersInOrder
    <3> QED
      BY <1>1, <2>1, <3>1, <3>2
  <2>2. CASE r # row
    <3>1. r \in source.users \ pending
      BY <1>1, <2>2
    <3>2. PICK u \in imported : /\ u.id \in DOMAIN merged \ DOMAIN before
                                /\ merged[u.id] = r.name /\ u.type = r.type
      BY <3>1 DEF UsersInv, UsersInOrder, Early
    <3> QED
      BY <1>1, <3>2
  <2> QED
    BY <2>1, <2>2
<1>5. UsersInOrder'
  BY <1>1, <1>4 DEF UsersInv, UsersInOrder, Early, InLoops, Late
<1> QED
  BY <1>1, <1>3, <1>5 DEF UsersInv

\* What does not touch users leaves them in order, wherever the conversion goes
\* after they are mixed.
LEMMA UsersLeftAlone ==
    ASSUME UsersInv, UNCHANGED <<source, theRunning, theUsers>>,
           \/ phase' = phase
           \/ phase' = "failed"
           \/ phase = "attached" /\ phase' = "copied"
           \/ pending = {} /\ phase \notin Early \cup {"failed"} /\ phase' \in InLoops \cup {"normalized"}
    PROVE  UsersInv'
<1>1. UsersTyped'
  BY DEF UsersInv, UsersTyped, IsUsers, theRunning, theUsers
<1>2. UsersInOrder'
  BY DEF UsersInv, UsersInOrder, theUsers, Early, InLoops, Late
<1>3. phase' \in LegacyPhase
  BY DEF UsersInv, LegacyPhase, Early, InLoops, Late
<1> QED
  BY <1>1, <1>2, <1>3 DEF UsersInv

LEMMA UsersStep ==
    ASSUME UsersInv, [LegacyNext]_legacyVars PROVE UsersInv'
<1> USE LegacyAssumption
<1>1. CASE UNCHANGED legacyVars
  BY <1>1, UsersLeftAlone DEF legacyVars, theRunning, theUsers
<1>2. CASE CopyTables
  BY <1>2, UsersLeftAlone DEF CopyTables, Goes
<1>3. CASE CopyUsers
  <2>1. /\ merged' = running /\ before' = running /\ phase' = "usersCopied"
        /\ UNCHANGED <<source, theRunning, mergedRole, mine, taken, pending, imported>>
    BY <1>3 DEF CopyUsers, Goes
  <2>2. UsersTyped'
    BY <2>1 DEF UsersInv, UsersTyped, IsUsers, theRunning
  <2>3. UsersInOrder'
    BY <2>1 DEF UsersInOrder, Early, InLoops, Late
  <2> QED
    BY <2>1, <2>2, <2>3 DEF UsersInv, LegacyPhase, Early
<1>4. CASE CollectNames
  <2>1. /\ mine' = {running[id] : id \in DOMAIN running} /\ taken' = DOMAIN merged
        /\ pending' = source.users /\ phase' = "merging"
        /\ UNCHANGED <<source, theRunning, merged, mergedRole, imported, before>>
    BY <1>4 DEF CollectNames, Goes
  <2>2. UsersTyped'
    BY <2>1 DEF UsersInv, UsersTyped, IsUsers, theRunning
  <2>3. UsersInOrder'
    BY <2>1 DEF UsersInv, UsersInOrder, Early, InLoops, Late
  <2> QED
    BY <2>1, <2>2, <2>3 DEF UsersInv, LegacyPhase, Early
<1>5. ASSUME NEW row \in pending, SkipUser(row)
      PROVE  UsersInv'
  <2>1. /\ phase = "merging" /\ phase' = phase /\ row.name \in mine /\ pending' = pending \ {row}
        /\ UNCHANGED <<source, theRunning, merged, mergedRole, mine, taken, imported, before>>
    BY <1>5 DEF SkipUser
  <2>2. UsersTyped'
    BY <2>1 DEF UsersInv, UsersTyped, IsUsers, theRunning
  <2>3. \A r \in source.users \ pending' : r = row \/ r \in source.users \ pending
    BY <2>1
  <2>4. UsersInOrder'
    BY <2>1, <2>3 DEF UsersInv, UsersInOrder, Early, InLoops, Late
  <2> QED
    BY <2>1, <2>2, <2>4 DEF UsersInv
<1>6. ASSUME NEW row \in pending, ImportUser(row)
      PROVE  UsersInv'
  <2>1. /\ phase = "merging" /\ row.id \in 1..MaxUser
        /\ UNCHANGED <<source, theRunning, mergedRole, mine, before>>
    BY <1>6 DEF ImportUser, UsersInv, UsersTyped, OldUser
  <2>2. CASE Inserted(row, NextUser) /\ NextUser <= MaxUser /\ UNCHANGED <<taken, phase>>
    <3>1. NextUser \in 1..MaxUser /\ NextUser \notin DOMAIN merged
      BY <2>2, NextUserIsNew DEF UsersInv, UsersTyped
    <3> QED
      BY <2>1, <2>2, <3>1, InsertedInOrder DEF UsersInv, UsersTyped
  <2>3. CASE /\ row.id \notin taken \cup DOMAIN merged
             /\ Inserted(row, row.id) /\ taken' = taken \cup {row.id} /\ UNCHANGED phase
    BY <2>1, <2>3, InsertedInOrder DEF UsersInv, UsersTyped
  <2>4. CASE phase' = "failed" /\ UNCHANGED <<merged, imported, pending, taken>>
    BY <2>1, <2>4, UsersLeftAlone DEF theUsers
  <2> QED
    BY <1>6, <2>2, <2>3, <2>4 DEF ImportUser
<1>7. CASE RenumberStates
  BY <1>7, UsersLeftAlone DEF RenumberStates, Early, InLoops
<1>8. CASE RebuildTypes
  BY <1>8, UsersLeftAlone DEF RebuildTypes, Goes, UsersInv, UsersInOrder, Early, InLoops, Late
<1>9. ASSUME NEW old \in todo, MoveOut(old) \/ MoveIn(old)
      PROVE  UsersInv'
  BY <1>9, UsersLeftAlone DEF MoveOut, MoveIn
<1>10. CASE LoopEnds
  BY <1>10, UsersLeftAlone DEF LoopEnds, Goes, UsersInv, UsersInOrder, Early, InLoops, Late
<1>11. CASE RestoreRoles
  <2>1. /\ phase = "normalized" /\ phase' = "restored" /\ mergedRole' = runningRole
        /\ UNCHANGED <<source, theRunning, merged, mine, taken, pending, imported, before>>
    BY <1>11 DEF RestoreRoles, Goes
  <2>2. UsersTyped'
    BY <2>1 DEF UsersInv, UsersTyped, IsUsers, theRunning
  <2>3. UsersInOrder'
    BY <2>1 DEF UsersInv, UsersInOrder, Early, InLoops, Late
  <2> QED
    BY <2>1, <2>2, <2>3 DEF UsersInv, LegacyPhase, Late
<1>12. CASE AssignRoles
  <2>1. /\ phase = "restored" /\ phase' = "done"
        /\ mergedRole' = mergedRole \cup {<<u.id, RoleOfType(u.type)>> : u \in imported}
        /\ UNCHANGED <<source, theRunning, merged, mine, taken, pending, imported, before>>
    BY <1>12 DEF AssignRoles, Goes
  <2>2. mergedRole' \subseteq (1..MaxUser) \X Roles
    BY <2>1 DEF UsersInv, UsersTyped, RoleOfType
  <2>3. UsersTyped'
    BY <2>1, <2>2 DEF UsersInv, UsersTyped, IsUsers, theRunning
  <2>4. UsersInOrder'
    BY <2>1 DEF UsersInv, UsersInOrder, Early, InLoops, Late
  <2> QED
    BY <2>1, <2>3, <2>4 DEF UsersInv, LegacyPhase, Late
<1>13. CASE ConversionFails
  BY <1>13, UsersLeftAlone DEF ConversionFails
<1>14. ASSUME NEW id \in 1..MaxUser, NEW name \in Login, NEW r \in Roles,
              RunningAdds(id, name, r)
       PROVE  UsersInv'
  <2>1. /\ running' = [i \in DOMAIN running \cup {id} |-> IF i = id THEN name ELSE running[i]]
        /\ runningRole' = runningRole \cup {<<id, r>>}
        /\ UNCHANGED <<source, phase, theUsers>>
    BY <1>14 DEF RunningAdds
  <2>2. UsersTyped'
    BY <2>1 DEF UsersInv, UsersTyped, IsUsers, theUsers
  <2>3. UsersInOrder'
    BY <2>1 DEF UsersInv, UsersInOrder, theUsers
  <2> QED
    BY <2>1, <2>2, <2>3 DEF UsersInv
<1>15. ASSUME NEW id \in 1..MaxUser, RunningDrops(id)
       PROVE  UsersInv'
  <2>1. /\ running' = [i \in DOMAIN running \ {id} |-> running[i]]
        /\ runningRole' \subseteq runningRole
        /\ UNCHANGED <<source, phase, theUsers>>
    BY <1>15 DEF RunningDrops
  <2>2. UsersTyped'
    BY <2>1 DEF UsersInv, UsersTyped, IsUsers, theUsers
  <2>3. UsersInOrder'
    BY <2>1 DEF UsersInv, UsersInOrder, theUsers
  <2> QED
    BY <2>1, <2>2, <2>3 DEF UsersInv
<1> QED
  BY <1>1, <1>2, <1>3, <1>4, <1>5, <1>6, <1>7, <1>8, <1>9, <1>10, <1>11, <1>12, <1>13,
     <1>14, <1>15 DEF LegacyNext, ConversionNext, RunningNext

-----------------------------------------------------------------------------
\* States and item types.

\* ROW_NUMBER leads every state to one of its name.
LEMMA StatesRenumbered ==
    ASSUME FewIds(states), NEW i \in DOMAIN states, NEW new,
           new = [n \in 1..Cardinality(DOMAIN states) |->
                     states[CHOOSE j \in DOMAIN states : StateId(j) = n]]
    PROVE  StateId(i) \in DOMAIN new /\ new[StateId(i)] = states[i]
<1> DEFINE first == CHOOSE j \in DOMAIN states : StateId(j) = StateId(i)
<1>1. \A j \in DOMAIN states : StateId(j) = Rank(DOMAIN states, j)
  BY DEF StateId, Rank
<1>2. StateId(i) \in 1..Cardinality(DOMAIN states)
  BY <1>1, RankRange DEF FewIds
<1>3. first \in DOMAIN states /\ StateId(first) = StateId(i)
  BY Zenon
<1>4. first = i
  <2> HIDE DEF first
  <2> QED
    BY <1>1, <1>3, RankTells DEF FewIds
<1>5. new[StateId(i)] = states[first]
  BY <1>2
<1> HIDE DEF first
<1> QED
  BY <1>2, <1>4, <1>5

\* The first row of a name is one, and the first of its own name.
LEMMA FirstOfName ==
    ASSUME NEW f, FewIds(f), NEW i \in Named(f)
    PROVE  /\ FirstOf(f, i) \in Named(f) /\ f[FirstOf(f, i)] = f[i]
           /\ FirstOf(f, FirstOf(f, i)) = FirstOf(f, i)
<1> DEFINE Same == {h \in Named(f) : f[h] = f[i]}
           First(h) == /\ h \in Named(f) /\ f[h] = f[i]
                       /\ \A j \in Named(f) : f[j] = f[i] => h <= j
<1>1. Named(f) \in SUBSET Nat
  BY DEF Named, FewIds
<1>2. \E h \in Named(f) : f[h] = f[i] /\ \A j \in Named(f) : f[j] = f[i] => h <= j
  <2>1. Same \in SUBSET Nat /\ i \in Same
    BY <1>1
  <2>2. PICK h \in Same : \A j \in Same : h <= j
    <3> HIDE DEF Same
    <3> QED
      BY <2>1, LeastNatural
  <2> QED
    BY <2>2
<1>3. /\ FirstOf(f, i) \in Named(f) /\ f[FirstOf(f, i)] = f[i]
      /\ \A j \in Named(f) : f[j] = f[i] => FirstOf(f, i) <= j
  BY <1>2, Zenon DEF FirstOf
<1>4. FirstOf(f, FirstOf(f, i)) = FirstOf(f, i)
  BY <1>3, Zenon DEF FirstOf
<1> QED
  BY <1>3, <1>4

\* Rows without a name and later ones of a name only make them fewer.
LEMMA AppendedAreFew ==
    ASSUME FewIds(types)
    PROVE  /\ Appended(types) \in SUBSET DOMAIN types
           /\ Appended(types) \in SUBSET Nat /\ IsFiniteSet(Appended(types))
           /\ Cardinality(Appended(types)) \in Nat
<1>1. Appended(types) \in SUBSET DOMAIN types
  BY DEF Appended, Named
<1> QED
  BY <1>1, FS_Subset, FS_CardinalityType DEF FewIds

\* The ids of the types that are appended count on from those built in.
LEMMA AppendedTypes ==
    ASSUME FewIds(types), NEW i \in Named(types), ~IsBuiltin(types[i])
    PROVE  /\ FirstOf(types, i) \in Appended(types)
           /\ TypeId(i) = Len(BuiltinType) + Rank(Appended(types), FirstOf(types, i))
           /\ Rank(Appended(types), FirstOf(types, i)) \in 1..Cardinality(Appended(types))
           /\ Cardinality(Appended(types)) \in Nat
<1>1. FirstOf(types, i) \in Appended(types)
  BY FirstOfName DEF Appended
<1>2. TypeId(i) = Len(BuiltinType) + Rank(Appended(types), FirstOf(types, i))
  BY DEF TypeId, Rank
<1>3. /\ Appended(types) \in SUBSET Nat /\ IsFiniteSet(Appended(types))
      /\ Cardinality(Appended(types)) \in Nat
  BY AppendedAreFew
<1> QED
  BY <1>1, <1>2, <1>3, RankRange

\* rebuildLegacyItemTypes leads every item type with a name to one of that name.
LEMMA TypesRebuilt ==
    ASSUME FewIds(types), NEW i \in Named(types), NEW new,
           new = [n \in 1..(Len(BuiltinType) + Cardinality(Appended(types))) |->
                     IF n \in DOMAIN BuiltinType THEN BuiltinType[n]
                     ELSE types[CHOOSE j \in Appended(types) : TypeId(j) = n]]
    PROVE  TypeId(i) \in DOMAIN new /\ new[TypeId(i)] = types[i]
<1> USE LegacyAssumption
<1>1. /\ DOMAIN BuiltinType = 1..Len(BuiltinType) /\ Len(BuiltinType) \in Nat
      /\ Cardinality(Appended(types)) \in Nat
  BY AppendedAreFew
<1>2. CASE IsBuiltin(types[i])
  <2>1. /\ TypeId(i) \in DOMAIN BuiltinType
        /\ BuiltinType[TypeId(i)] = types[i]
    BY <1>2, Zenon DEF TypeId, IsBuiltin
  <2> QED
    BY <1>1, <2>1
<1>3. CASE ~IsBuiltin(types[i])
  <2> DEFINE h == FirstOf(types, i)
             at == CHOOSE j \in Appended(types) : TypeId(j) = TypeId(i)
  <2>1. /\ h \in Appended(types) /\ types[h] = types[i]
        /\ TypeId(i) = Len(BuiltinType) + Rank(Appended(types), h)
        /\ Rank(Appended(types), h) \in 1..Cardinality(Appended(types))
    BY <1>3, AppendedTypes, FirstOfName
  <2>2. ASSUME NEW j \in Appended(types)
        PROVE  TypeId(j) = Len(BuiltinType) + Rank(Appended(types), j)
    BY <2>2, AppendedTypes DEF Appended
  <2>3. at \in Appended(types) /\ TypeId(at) = TypeId(i)
    <3>1. TypeId(h) = TypeId(i)
      BY <2>1, <2>2
    <3> HIDE DEF h
    <3> QED
      BY <2>1, <3>1, Zenon
  <2>4. TypeId(i) \in DOMAIN new /\ TypeId(i) \notin DOMAIN BuiltinType
    <3> HIDE DEF h
    <3> QED
      BY <1>1, <2>1
  <2>5. new[TypeId(i)] = types[at]
    BY <2>4
  <2> HIDE DEF h, at
  <2>6. Rank(Appended(types), at) = Rank(Appended(types), h)
    <3>1. Rank(Appended(types), at) \in Nat
      BY <2>3, RankRange, AppendedAreFew
    <3> QED
      BY <1>1, <2>1, <2>2, <2>3, <3>1
  <2>7. at = h
    BY <2>1, <2>3, <2>6, RankTells, AppendedAreFew
  <2> QED
    BY <2>1, <2>4, <2>5, <2>7
<1> QED
  BY <1>2, <1>3

\* What touches neither dictionaries nor items leaves them in order while the
\* users are mixed, and once the loops are through.
LEMMA RecordsLeftAlone ==
    ASSUME RecordsInv, UNCHANGED <<source, theRecords>>,
           \/ phase' = phase
           \/ phase' = "failed"
           \/ phase \in Copied /\ phase' \in Copied
           \/ phase \in Late /\ phase' \in Late
    PROVE  RecordsInv'
<1> USE DEF Copied, Late
<1>1. /\ source' = source /\ types' = types /\ states' = states /\ records' = records
      /\ moving' = moving /\ todo' = todo
  BY DEF theRecords
<1>2. RecordsTyped'
  BY <1>1 DEF RecordsInv, RecordsTyped, LegacyPhase, FewIds, Early
<1>3. TablesCopied'
  BY <1>1 DEF RecordsInv, TablesCopied
<1>4. ASSUME NEW w, NEW is, StateFollows(w, is)
      PROVE  StateFollows(w, is)'
  BY <1>1, <1>4 DEF StateFollows, Leads
<1>5. ASSUME NEW w, NEW is, TypeFollows(w, is)
      PROVE  TypeFollows(w, is)'
  BY <1>1, <1>5 DEF TypeFollows, Leads
<1>6. RecordsInOrder'
  BY <1>1, <1>4, <1>5 DEF RecordsInv, RecordsInOrder, StateFollows, TypeFollows, Leads
<1> QED
  BY <1>2, <1>3, <1>6 DEF RecordsInv

\* What the invariant says of one item.
LEMMA ItemInOrder ==
    ASSUME RecordsInv, NEW x \in Record
    PROVE  /\ source.records[x].state \in OldIds /\ source.records[x].type \in OldIds
           /\ records[x].state \in Nat /\ records[x].type \in Nat
           /\ records[x] = [type |-> records[x].type, state |-> records[x].state]
           /\ source.records[x].state \in DOMAIN source.states =>
                 StateFollows(source.records[x].state, records[x].state)
           /\ source.records[x].type \in Named(source.types) =>
                 TypeFollows(source.records[x].type, records[x].type)
<1>1. source.records \in [Record -> [type : OldIds, state : OldIds]]
  BY RecordsOfFile DEF RecordsInv, RecordsTyped
<1>2. records \in [Record -> [type : Nat, state : Nat]]
  BY DEF RecordsInv, RecordsTyped
<1> QED
  BY <1>1, <1>2 DEF RecordsInv, RecordsInOrder

LEMMA CopyTablesKeeps ==
    ASSUME RecordsInv, CopyTables PROVE RecordsInv'
<1>1. /\ phase = "attached" /\ phase' = "copied"
      /\ types' = IF source.types = NoRows THEN types ELSE source.types
      /\ states' = IF source.states = NoRows THEN states ELSE source.states
      /\ source' = source /\ records' = records /\ moving' = moving /\ todo' = todo
  BY DEF CopyTables, Goes
<1>2. FewIds(source.types) /\ FewIds(source.states)
  <2>1. MaxOld \in Nat
    BY LegacyAssumption
  <2>2. IsFiniteSet(OldIds) /\ OldIds \subseteq Nat
    BY <2>1, FS_Interval DEF OldIds
  <2> QED
    BY <2>2, RecordsOfFile, FS_Subset DEF RecordsInv, RecordsTyped, FewIds
<1>3. RecordsTyped'
  BY <1>1, <1>2 DEF RecordsInv, RecordsTyped, LegacyPhase, Early, FewIds
<1>4. TablesCopied'
  BY <1>1 DEF TablesCopied, Copied
<1>5. RecordsInOrder'
  BY <1>1 DEF RecordsInv, RecordsInOrder, StateFollows, TypeFollows, Copied, Late
<1> QED
  BY <1>3, <1>4, <1>5 DEF RecordsInv

\* If there is an id in the dictionary of the file, it is not empty.
LEMMA SomeRow ==
    ASSUME NEW f, NEW i \in DOMAIN f PROVE f # NoRows
BY DEF NoRows

LEMMA RenumberStatesKeeps ==
    ASSUME RecordsInv, RenumberStates PROVE RecordsInv'
<1> DEFINE new == [n \in 1..Cardinality(DOMAIN states) |->
                      states[CHOOSE i \in DOMAIN states : StateId(i) = n]]
<1>1. /\ phase = "merging" /\ source' = source /\ types' = types /\ records' = records
  BY DEF RenumberStates
<1>2. FewIds(types) /\ FewIds(states) /\ Cardinality(DOMAIN states) \in Nat
  BY FS_CardinalityType DEF RecordsInv, RecordsTyped, FewIds
<1>3. CASE phase' = "statesNumbered" /\ UNCHANGED <<states, moving, todo>>
  <2>1. RecordsTyped'
    BY <1>1, <1>3 DEF RecordsInv, RecordsTyped, LegacyPhase, InLoops, FewIds
  <2>2. TablesCopied'
    BY <1>1, <1>3 DEF RecordsInv, TablesCopied, Copied
  <2>3. RecordsInOrder'
    BY <1>1, <1>3, SomeRow
       DEF RecordsInv, RecordsInOrder, TablesCopied, StateFollows, TypeFollows, Copied, Late
  <2> QED
    BY <2>1, <2>2, <2>3 DEF RecordsInv
<1>4. CASE /\ phase' = "statesOut" /\ states' = new
           /\ moving' = [i \in DOMAIN states |-> StateId(i)] /\ todo' = DOMAIN states
  <2>1. ASSUME NEW i \in DOMAIN states
        PROVE  /\ StateId(i) \in DOMAIN new /\ new[StateId(i)] = states[i]
               /\ StateId(i) \in 1..Cardinality(DOMAIN states)
    BY <1>2, StatesRenumbered
  <2>2. FewIds(states)'
    <3>1. DOMAIN states' = 1..Cardinality(DOMAIN states)
      BY <1>4
    <3> HIDE DEF new
    <3> QED
      BY <1>2, <3>1, FS_Interval DEF FewIds
  <2>3. DOMAIN moving' = DOMAIN states /\ \A i \in DOMAIN states : moving'[i] = StateId(i)
    BY <1>4
  <2> HIDE DEF new
  <2>4. RecordsTyped'
    BY <1>1, <1>2, <1>4, <2>1, <2>2, <2>3
       DEF RecordsInv, RecordsTyped, LegacyPhase, InLoops, FewIds
  <2>5. TablesCopied'
    BY <1>1, <1>4 DEF RecordsInv, TablesCopied, Copied
  <2>6. ASSUME NEW x \in Record, source.records[x].state \in DOMAIN source.states
        PROVE  StateFollows(source.records[x].state, records[x].state)'
    <3>1. states = source.states
      BY <1>1, <2>6, SomeRow DEF RecordsInv, TablesCopied, Copied
    <3>2. Cardinality(DOMAIN states) < Offset
      <4>1. DOMAIN states \subseteq OldIds
        BY <3>1, RecordsOfFile DEF RecordsInv, RecordsTyped
      <4>2. \A i \in DOMAIN states : i <= MaxOld
        BY <4>1 DEF OldIds
      <4>3. MaxOld \in Nat /\ DOMAIN states \in SUBSET Nat
        BY <1>2, LegacyAssumption DEF FewIds
      <4>4. Cardinality(DOMAIN states) <= MaxOld + 1
        BY <4>2, <4>3, FS_BoundedSetOfNaturals
      <4>5. Len(BuiltinType) \in Nat /\ Offset \in Nat /\ Offset > MaxOld + Len(BuiltinType) + 1
        BY LegacyAssumption
      <4> QED
        BY <1>2, <4>3, <4>4, <4>5
    <3>3. ASSUME NEW i \in DOMAIN states
          PROVE  moving'[i] \in DOMAIN states' /\ moving'[i] < Offset /\ states'[moving'[i]] = states[i]
      <4>1. Offset \in Nat
        BY LegacyAssumption
      <4> QED
        BY <1>2, <1>4, <2>1, <2>3, <3>2, <4>1
    <3>4. Leads(DOMAIN source.states, source.states, states)'
      BY <1>1, <2>3, <3>1, <3>3 DEF Leads
    <3>5. records[x].state = source.records[x].state
      BY <1>1, <2>6, ItemInOrder DEF StateFollows, Copied
    <3> QED
      BY <1>1, <1>4, <2>6, <3>1, <3>4, <3>5 DEF StateFollows, Copied, Late
  <2>7. ASSUME NEW x \in Record, source.records[x].type \in Named(source.types)
        PROVE  TypeFollows(source.records[x].type, records[x].type)'
    BY <1>1, <1>4, <2>7, ItemInOrder DEF TypeFollows, Copied, Late
  <2>8. RecordsInOrder'
    BY <1>1, <2>6, <2>7 DEF RecordsInOrder
  <2> QED
    BY <2>4, <2>5, <2>8 DEF RecordsInv
<1> QED
  BY <1>3, <1>4 DEF RenumberStates

LEMMA RebuildTypesKeeps ==
    ASSUME RecordsInv, RebuildTypes PROVE RecordsInv'
<1> DEFINE new == [n \in 1..(Len(BuiltinType) + Cardinality(Appended(types))) |->
                      IF n \in DOMAIN BuiltinType THEN BuiltinType[n]
                      ELSE types[CHOOSE j \in Appended(types) : TypeId(j) = n]]
<1>1. /\ phase = "statesNumbered" /\ phase' = "typesOut" /\ types' = new
      /\ moving' = [i \in Named(types) |-> TypeId(i)]
      /\ todo' = {i \in Named(types) : TypeId(i) # i}
      /\ source' = source /\ states' = states /\ records' = records
  BY DEF RebuildTypes, Goes
<1>2. /\ FewIds(types) /\ FewIds(states) /\ Cardinality(Appended(types)) \in Nat
      /\ Len(BuiltinType) \in Nat /\ Named(types) \subseteq Nat
  BY AppendedAreFew, LegacyAssumption DEF RecordsInv, RecordsTyped, FewIds, Named
<1>3. ASSUME NEW i \in Named(types)
      PROVE  /\ TypeId(i) \in DOMAIN new /\ new[TypeId(i)] = types[i]
             /\ TypeId(i) \in 1..(Len(BuiltinType) + Cardinality(Appended(types)))
  <2>1. TypeId(i) \in DOMAIN new /\ new[TypeId(i)] = types[i]
    BY <1>2, TypesRebuilt, Zenon
  <2>2. DOMAIN new = 1..(Len(BuiltinType) + Cardinality(Appended(types)))
    OBVIOUS
  <2> HIDE DEF new
  <2> QED
    BY <2>1, <2>2
<1>4. FewIds(types)'
  <2>1. DOMAIN types' = 1..(Len(BuiltinType) + Cardinality(Appended(types)))
    BY <1>1
  <2> HIDE DEF new
  <2> QED
    BY <1>2, <2>1, FS_Interval DEF FewIds
<1>5. DOMAIN moving' = Named(types) /\ \A i \in Named(types) : moving'[i] = TypeId(i)
  BY <1>1
<1> HIDE DEF new
<1>6. RecordsTyped'
  <2>1. \A i \in Named(types) : TypeId(i) \in Nat
    BY <1>2, <1>3
  <2>2. todo' \subseteq DOMAIN moving' /\ phase' \in LegacyPhase
    BY <1>1, <1>5 DEF LegacyPhase, InLoops
  <2> QED
    BY <1>1, <1>2, <1>4, <1>5, <2>1, <2>2 DEF RecordsInv, RecordsTyped, FewIds
<1>7. TablesCopied'
  BY <1>1 DEF TablesCopied, Copied
<1>8. ASSUME NEW x \in Record, source.records[x].state \in DOMAIN source.states
      PROVE  StateFollows(source.records[x].state, records[x].state)'
  BY <1>1, <1>8, ItemInOrder DEF StateFollows, Copied, Late
<1>9. ASSUME NEW x \in Record, source.records[x].type \in Named(source.types)
      PROVE  TypeFollows(source.records[x].type, records[x].type)'
  <2>1. types = source.types
    BY <1>1, <1>9, SomeRow DEF RecordsInv, TablesCopied, Named
  <2>2. Len(BuiltinType) + Cardinality(Appended(types)) < Offset /\ Offset \in Nat
    <3>1. DOMAIN types \subseteq OldIds
      BY <2>1, RecordsOfFile DEF RecordsInv, RecordsTyped
    <3>2. Appended(types) \in SUBSET Nat /\ \A i \in Appended(types) : i <= MaxOld
      BY <1>2, <3>1, AppendedAreFew DEF OldIds
    <3>3. MaxOld \in Nat /\ Offset \in Nat /\ Offset > MaxOld + Len(BuiltinType) + 1
      BY LegacyAssumption
    <3>4. Cardinality(Appended(types)) <= MaxOld + 1
      BY <3>2, <3>3, FS_BoundedSetOfNaturals
    <3> QED
      BY <1>2, <3>3, <3>4
  <2>3. ASSUME NEW i \in Named(types)
        PROVE  /\ moving'[i] \in DOMAIN types' /\ moving'[i] < Offset
               /\ types'[moving'[i]] = types[i]
    BY <1>1, <1>2, <1>3, <1>5, <2>2
  <2>4. Leads(Named(source.types), source.types, types)'
    BY <1>1, <1>5, <2>1, <2>3 DEF Leads
  <2>5. \A i \in todo' : moving'[i] # i
    BY <1>1, <1>5
  <2>6. source.records[x].type \in todo' \/
           moving'[source.records[x].type] = source.records[x].type
    BY <1>1, <1>5, <1>9, <2>1
  <2>7. records[x].type = source.records[x].type
    BY <1>1, <1>9, ItemInOrder DEF TypeFollows
  <2> QED
    BY <1>1, <2>4, <2>5, <2>6, <2>7 DEF TypeFollows, Copied, Late
<1>10. RecordsInOrder'
  BY <1>1, <1>8, <1>9 DEF RecordsInOrder
<1> QED
  BY <1>6, <1>7, <1>10 DEF RecordsInv

\* An update touches the items at one id, and of each one column.
LEMMA MovedItem ==
    ASSUME RecordsInv, NEW old \in Nat, NEW new \in Nat, MoveRecords(old, new)
    PROVE  /\ records' \in [Record -> [type : Nat, state : Nat]]
           /\ \A x \in Record :
                 /\ phase \in {"statesOut", "statesIn"} =>
                       /\ records'[x].type = records[x].type
                       /\ records'[x].state = IF records[x].state = old THEN new
                                              ELSE records[x].state
                 /\ phase \notin {"statesOut", "statesIn"} =>
                       /\ records'[x].state = records[x].state
                       /\ records'[x].type = IF records[x].type = old THEN new
                                             ELSE records[x].type
<1> DEFINE row(x) == IF phase \in {"statesOut", "statesIn"}
                     THEN [records[x] EXCEPT !.state = IF @ = old THEN new ELSE @]
                     ELSE [records[x] EXCEPT !.type = IF @ = old THEN new ELSE @]
<1>1. records' = [x \in Record |-> row(x)]
  BY DEF MoveRecords
<1>2. ASSUME NEW x \in Record
      PROVE  /\ row(x) \in [type : Nat, state : Nat]
             /\ phase \in {"statesOut", "statesIn"} =>
                   /\ row(x).type = records[x].type
                   /\ row(x).state = IF records[x].state = old THEN new ELSE records[x].state
             /\ phase \notin {"statesOut", "statesIn"} =>
                   /\ row(x).state = records[x].state
                   /\ row(x).type = IF records[x].type = old THEN new ELSE records[x].type
  <2>1. records[x] \in [type : Nat, state : Nat]
    BY DEF RecordsInv, RecordsTyped
  <2> QED
    BY <2>1
<1> HIDE DEF row
<1> QED
  BY <1>1, <1>2

LEMMA MoveOutKeeps ==
    ASSUME RecordsInv, NEW old \in todo, MoveOut(old) PROVE RecordsInv'
<1> USE LegacyAssumption
<1>1. /\ phase \in {"statesOut", "typesOut"} /\ MoveRecords(old, old + Offset)
      /\ todo' = todo \ {old} /\ source' = source /\ phase' = phase
      /\ types' = types /\ states' = states /\ moving' = moving
  BY DEF MoveOut
<1>2. old \in Nat /\ old + Offset \in Nat /\ Offset \in Nat /\ MaxOld \in Nat /\ MaxOld < Offset
  <2>1. Len(BuiltinType) \in Nat
    OBVIOUS
  <2> QED
    BY <2>1 DEF RecordsInv, RecordsTyped
<1>3. records' \in [Record -> [type : Nat, state : Nat]]
  BY <1>1, <1>2, MovedItem
<1>4. RecordsTyped'
  BY <1>1, <1>3 DEF RecordsInv, RecordsTyped, FewIds
<1>5. TablesCopied'
  BY <1>1 DEF RecordsInv, TablesCopied
<1>6. ASSUME NEW x \in Record, source.records[x].state \in DOMAIN source.states
      PROVE  StateFollows(source.records[x].state, records[x].state)'
  <2> DEFINE w == source.records[x].state
  <2>1. w \in 0..MaxOld /\ StateFollows(w, records[x].state)
    BY <1>6, ItemInOrder DEF OldIds
  <2>2. CASE phase = "typesOut"
    <3>1. records'[x].state = records[x].state
      BY <1>1, <1>2, <2>2, MovedItem
    <3> QED
      BY <1>1, <2>1, <2>2, <3>1 DEF StateFollows, Copied, Late
  <2>3. CASE phase = "statesOut"
    <3>1. records'[x].state = IF records[x].state = old THEN old + Offset ELSE records[x].state
      BY <1>1, <1>2, <2>3, MovedItem
    <3>2. records[x].state = IF w \in todo THEN w ELSE w + Offset
      BY <2>1, <2>3 DEF StateFollows
    <3>3. old \in 0..MaxOld
      BY <2>1, <2>3, RecordsOfFile
         DEF StateFollows, Leads, RecordsInv, RecordsTyped, OldIds
    <3>4. records'[x].state = IF w \in todo' THEN w ELSE w + Offset
      <4> HIDE DEF w
      <4> QED
        BY <1>1, <1>2, <2>1, <3>1, <3>2, <3>3
    <3>5. Leads(DOMAIN source.states, source.states, states)'
      BY <1>1, <2>1, <2>3 DEF StateFollows, Leads
    <3> QED
      BY <1>1, <2>3, <3>4, <3>5 DEF StateFollows, Copied, Late
  <2> QED
    BY <1>1, <2>2, <2>3
<1>7. ASSUME NEW x \in Record, source.records[x].type \in Named(source.types)
      PROVE  TypeFollows(source.records[x].type, records[x].type)'
  <2> DEFINE w == source.records[x].type
  <2>1. w \in 0..MaxOld /\ TypeFollows(w, records[x].type)
    BY <1>7, ItemInOrder DEF OldIds
  <2>2. CASE phase = "statesOut"
    <3>1. records'[x].type = records[x].type
      BY <1>1, <1>2, <2>2, MovedItem
    <3> QED
      BY <1>1, <2>1, <2>2, <3>1 DEF TypeFollows, Copied, Late
  <2>3. CASE phase = "typesOut"
    <3>1. records'[x].type = IF records[x].type = old THEN old + Offset ELSE records[x].type
      BY <1>1, <1>2, <2>3, MovedItem
    <3>2. records[x].type = IF w \in todo \/ moving[w] = w THEN w ELSE w + Offset
      BY <2>1, <2>3 DEF TypeFollows
    <3>3. old \in 0..MaxOld /\ moving[old] # old
      BY <2>1, <2>3, RecordsOfFile
         DEF TypeFollows, Leads, RecordsInv, RecordsTyped, OldIds, Named
    <3>4. records'[x].type = IF w \in todo' \/ moving[w] = w THEN w ELSE w + Offset
      <4> HIDE DEF w
      <4> QED
        BY <1>1, <1>2, <2>1, <3>1, <3>2, <3>3
    <3>5. /\ Leads(Named(source.types), source.types, types)'
          /\ \A i \in todo' : moving'[i] # i
      BY <1>1, <2>1, <2>3 DEF TypeFollows, Leads
    <3> QED
      BY <1>1, <2>3, <3>4, <3>5 DEF TypeFollows, Copied, Late
  <2> QED
    BY <1>1, <2>2, <2>3
<1>8. RecordsInOrder'
  BY <1>1, <1>6, <1>7 DEF RecordsInOrder
<1> QED
  BY <1>4, <1>5, <1>8 DEF RecordsInv

LEMMA MoveInKeeps ==
    ASSUME RecordsInv, NEW old \in todo, MoveIn(old) PROVE RecordsInv'
<1> USE LegacyAssumption
<1>1. /\ phase \in {"statesIn", "typesIn"} /\ MoveRecords(old + Offset, moving[old])
      /\ todo' = todo \ {old} /\ source' = source /\ phase' = phase
      /\ types' = types /\ states' = states /\ moving' = moving
  BY DEF MoveIn
<1>2. old \in Nat /\ old + Offset \in Nat /\ Offset \in Nat /\ moving[old] \in Nat
  BY DEF RecordsInv, RecordsTyped
<1>3. records' \in [Record -> [type : Nat, state : Nat]]
  BY <1>1, <1>2, MovedItem
<1>4. RecordsTyped'
  BY <1>1, <1>3 DEF RecordsInv, RecordsTyped, FewIds
<1>5. TablesCopied'
  BY <1>1 DEF RecordsInv, TablesCopied
<1>6. ASSUME NEW x \in Record, source.records[x].state \in DOMAIN source.states
      PROVE  StateFollows(source.records[x].state, records[x].state)'
  <2> DEFINE w == source.records[x].state
  <2>1. w \in Nat /\ StateFollows(w, records[x].state)
    <3>1. w \in OldIds /\ StateFollows(w, records[x].state)
      BY <1>6, ItemInOrder
    <3>2. OldIds \subseteq Nat
      BY DEF OldIds
    <3> QED
      BY <3>1, <3>2
  <2>2. CASE phase = "typesIn"
    <3>1. records'[x].state = records[x].state
      BY <1>1, <1>2, <2>2, MovedItem
    <3> QED
      BY <1>1, <2>1, <2>2, <3>1 DEF StateFollows, Copied, Late
  <2>3. CASE phase = "statesIn"
    <3>1. records'[x].state = IF records[x].state = old + Offset THEN moving[old]
                              ELSE records[x].state
      BY <1>1, <1>2, <2>3, MovedItem
    <3>2. records[x].state = IF w \in todo THEN w + Offset ELSE moving[w]
      BY <2>1, <2>3 DEF StateFollows
    <3>3. moving[w] \in Nat /\ moving[w] < Offset
      BY <1>6, <2>1, <2>3 DEF StateFollows, Leads, RecordsInv, RecordsTyped
    <3>4. records'[x].state = IF w \in todo' THEN w + Offset ELSE moving[w]
      <4> HIDE DEF w
      <4> QED
        BY <1>1, <1>2, <2>1, <3>1, <3>2, <3>3
    <3>5. Leads(DOMAIN source.states, source.states, states)'
      BY <1>1, <2>1, <2>3 DEF StateFollows, Leads
    <3> QED
      BY <1>1, <2>3, <3>4, <3>5 DEF StateFollows, Copied, Late
  <2> QED
    BY <1>1, <2>2, <2>3
<1>7. ASSUME NEW x \in Record, source.records[x].type \in Named(source.types)
      PROVE  TypeFollows(source.records[x].type, records[x].type)'
  <2> DEFINE w == source.records[x].type
  <2>1. w \in Nat /\ TypeFollows(w, records[x].type)
    <3>1. w \in OldIds /\ TypeFollows(w, records[x].type)
      BY <1>7, ItemInOrder
    <3>2. OldIds \subseteq Nat
      BY DEF OldIds
    <3> QED
      BY <3>1, <3>2
  <2>2. CASE phase = "statesIn"
    <3>1. records'[x].type = records[x].type
      BY <1>1, <1>2, <2>2, MovedItem
    <3> QED
      BY <1>1, <2>1, <2>2, <3>1 DEF TypeFollows, Copied, Late
  <2>3. CASE phase = "typesIn"
    <3>1. records'[x].type = IF records[x].type = old + Offset THEN moving[old]
                             ELSE records[x].type
      BY <1>1, <1>2, <2>3, MovedItem
    <3>2. records[x].type = IF w \in todo THEN w + Offset ELSE moving[w]
      BY <2>1, <2>3 DEF TypeFollows
    <3>3. moving[w] \in Nat /\ moving[w] < Offset
      BY <1>7, <2>1, <2>3 DEF TypeFollows, Leads, RecordsInv, RecordsTyped
    <3>4. records'[x].type = IF w \in todo' THEN w + Offset ELSE moving[w]
      <4> HIDE DEF w
      <4> QED
        BY <1>1, <1>2, <2>1, <3>1, <3>2, <3>3
    <3>5. /\ Leads(Named(source.types), source.types, types)'
          /\ \A i \in todo' : moving'[i] # i
      BY <1>1, <2>1, <2>3 DEF TypeFollows, Leads
    <3> QED
      BY <1>1, <2>3, <3>4, <3>5 DEF TypeFollows, Copied, Late
  <2> QED
    BY <1>1, <2>2, <2>3
<1>8. RecordsInOrder'
  BY <1>1, <1>6, <1>7 DEF RecordsInOrder
<1> QED
  BY <1>4, <1>5, <1>8 DEF RecordsInv

\* When a loop is through every item is where the next one looks for it.
LEMMA LoopEndsKeeps ==
    ASSUME RecordsInv, LoopEnds PROVE RecordsInv'
<1>1. /\ todo = {} /\ source' = source /\ types' = types /\ states' = states
      /\ records' = records /\ moving' = moving
  BY DEF LoopEnds
<1>2. \/ phase = "statesOut" /\ phase' = "statesIn" /\ todo' = DOMAIN moving
      \/ /\ phase = "typesOut" /\ phase' = "typesIn"
         /\ todo' = {i \in DOMAIN moving : moving[i] # i}
      \/ phase = "statesIn" /\ phase' = "statesNumbered" /\ todo' = todo
      \/ phase = "typesIn" /\ phase' = "normalized" /\ todo' = todo
  BY DEF LoopEnds, Goes
<1>3. RecordsTyped'
  BY <1>1, <1>2 DEF RecordsInv, RecordsTyped, FewIds, LegacyPhase, InLoops, Late
<1>4. TablesCopied'
  BY <1>1, <1>2 DEF RecordsInv, TablesCopied, Copied
<1>5. ASSUME NEW x \in Record, source.records[x].state \in DOMAIN source.states
      PROVE  StateFollows(source.records[x].state, records[x].state)'
  <2> DEFINE w == source.records[x].state
  <2>1. StateFollows(w, records[x].state)
    BY <1>5, ItemInOrder
  <2> QED
    BY <1>1, <1>2, <1>5, <2>1 DEF StateFollows, Leads, Copied, Late
<1>6. ASSUME NEW x \in Record, source.records[x].type \in Named(source.types)
      PROVE  TypeFollows(source.records[x].type, records[x].type)'
  <2> DEFINE w == source.records[x].type
  <2>1. TypeFollows(w, records[x].type)
    BY <1>6, ItemInOrder
  <2> QED
    BY <1>1, <1>2, <1>6, <2>1 DEF TypeFollows, Leads, Copied, Late
<1>7. RecordsInOrder'
  BY <1>1, <1>5, <1>6 DEF RecordsInOrder
<1> QED
  BY <1>3, <1>4, <1>7 DEF RecordsInv

LEMMA RecordsStep ==
    ASSUME RecordsInv, [LegacyNext]_legacyVars PROVE RecordsInv'
<1>1. CASE UNCHANGED legacyVars
  BY <1>1, RecordsLeftAlone DEF legacyVars, theRecords
<1>2. CASE CopyUsers
  BY <1>2, RecordsLeftAlone DEF CopyUsers, Goes, Copied
<1>3. CASE CollectNames
  BY <1>3, RecordsLeftAlone DEF CollectNames, Goes, Copied
<1>4. ASSUME NEW row \in pending, SkipUser(row) \/ ImportUser(row)
      PROVE  RecordsInv'
  BY <1>4, RecordsLeftAlone DEF SkipUser, ImportUser
<1>5. CASE RestoreRoles
  BY <1>5, RecordsLeftAlone DEF RestoreRoles, Goes, Late
<1>6. CASE AssignRoles
  BY <1>6, RecordsLeftAlone DEF AssignRoles, Goes, Late
<1>7. CASE ConversionFails
  BY <1>7, RecordsLeftAlone DEF ConversionFails
<1>8. CASE RunningNext
  BY <1>8, RecordsLeftAlone DEF RunningNext, RunningAdds, RunningDrops
<1> QED
  BY <1>1, <1>2, <1>3, <1>4, <1>5, <1>6, <1>7, <1>8, CopyTablesKeeps, RenumberStatesKeeps,
     RebuildTypesKeeps, MoveOutKeeps, MoveInKeeps, LoopEndsKeeps DEF LegacyNext, ConversionNext

LegacyInv == UsersInv /\ RecordsInv

LEMMA LegacyInvHolds == LegacySpec => []LegacyInv
<1>1. LegacyInit => LegacyInv
  BY LegacyInitInv DEF LegacyInv
<1>2. LegacyInv /\ [LegacyNext]_legacyVars => LegacyInv'
  BY UsersStep, RecordsStep DEF LegacyInv
<1> QED
  BY <1>1, <1>2, PTL DEF LegacySpec

LEMMA LegacyInvTypes == LegacyInv => LegacyTypeOK
BY DEF LegacyInv, UsersInv, UsersTyped, IsUsers, RecordsInv, RecordsTyped, LegacyTypeOK,
       LegacyPhase, Early, InLoops, Late

\* The variables of a conversion keep their ranges.
THEOREM LegacyTypeCorrect == LegacySpec => []LegacyTypeOK
BY LegacyInvTypes, LegacyInvHolds, PTL

\* renumberLegacyStatusTypes and rebuildLegacyItemTypes: whatever ids the dictionaries of
\* the file have and in whatever order the loops go, an item ends up with its names.
THEOREM LegacyNamesAreKept == LegacySpec => []LegacyNamesKept
<1>1. LegacyInv => LegacyNamesKept
  BY DEF LegacyInv, RecordsInv, RecordsInOrder, StateFollows, TypeFollows, LegacyNamesKept, Late
<1> QED
  BY <1>1, LegacyInvHolds, PTL

\* mergeLegacyUsers: no user that was copied is overwritten, and none of the file whose
\* name was free is missing or without its role, whatever requests run beside it.
THEOREM LegacyUsersAreKept == LegacySpec => []LegacyUsersKept
<1>1. LegacyInv => LegacyUsersKept
  <2> SUFFICES ASSUME UsersInv, phase = "done"
               PROVE  /\ \A id \in DOMAIN before : id \in DOMAIN merged /\ merged[id] = before[id]
                      /\ \A row \in source.users : row.name \in mine \/
                            \E u \in imported : /\ u.id \in DOMAIN merged \ DOMAIN before
                                                /\ merged[u.id] = row.name
                                                /\ <<u.id, RoleOfType(row.type)>> \in mergedRole
    BY DEF LegacyInv, LegacyUsersKept
  <2>1. pending = {}
    BY DEF UsersInv, UsersInOrder, Late
  <2>2. ASSUME NEW row \in source.users, row.name \notin mine
        PROVE  \E u \in imported : /\ u.id \in DOMAIN merged \ DOMAIN before
                                   /\ merged[u.id] = row.name
                                   /\ <<u.id, RoleOfType(row.type)>> \in mergedRole
    <3>1. PICK u \in imported : /\ u.id \in DOMAIN merged \ DOMAIN before
                                /\ merged[u.id] = row.name /\ u.type = row.type
      BY <2>1, <2>2 DEF UsersInv, UsersInOrder, Early
    <3>2. <<u.id, RoleOfType(u.type)>> \in mergedRole
      BY DEF UsersInv, UsersInOrder
    <3> QED
      BY <3>1, <3>2
  <2> QED
    BY <2>2 DEF UsersInv, UsersInOrder
<1> QED
  BY <1>1, LegacyInvHolds, PTL

-----------------------------------------------------------------------------
(* The run of MCAdministration: each of its parts takes only steps of its  *)
(* component, and so the invariant of that component is one of the part.   *)

LEMMA ResetPartSteps == ResetPart => PasswordResetNext
<1>1. \A p \in Proc : ConfirmNext(p, w2) => ResetHandlersNext
  BY AdministrationAssumption DEF ResetHandlersNext
<1> QED
  BY <1>1 DEF ResetPart, ResetHandlersNext, PasswordResetNext

LEMMA WecomPartSteps == WecomPart => WecomNext
<1>1. \A p \in Proc : Abandon(p) => SessionsNext
  BY DEF SessionsNext
<1> QED
  BY <1>1 DEF WecomPart, WecomNext

LEMMA UsersPartSteps == UsersPart => AccessNext
<1>1. ASSUME NEW r \in Role,
             (\E keys \in Grant : CreateRole(r, keys)) \/ SwitchRole(r, TRUE) \/ DeleteRole(r)
      PROVE  AccessNext
  BY <1>1 DEF AccessNext, RolesNext
<1> QED
  BY <1>1 DEF UsersPart, AccessNext

LEMMA GroupsPartSteps == GroupsPart => AccessNext
<1> DEFINE UserSteps(p) ==
               \/ \E form \in UserForm : CountName(p, form)
               \/ \E u \in Uid : InsertUser(p, u) \/ BeginDeleteUser(p, u)
               \/ StoreProfile(p) \/ ReplaceUserRoles(p) \/ RefuseUserRoles(p)
               \/ RemoveNewUser(p) \/ CountUsage(p) \/ DeleteUserRow(p) \/ CleanProfile(p)
               \/ CleanRoles(p) \/ CleanMembers(p)
<1>1. \A p \in Worker : UserSteps(p) => UserHandlersNext(p)
  BY DEF UserHandlersNext
<1>2. GroupsPart => \/ \E p \in Worker : GroupHandlersNext(p) \/ CutShort(p) \/ UserSteps(p)
                    \/ RolesNext \/ Restart \/ \E g \in Group : DeleteGroup(g)
  BY DEF GroupsPart
<1> HIDE DEF UserSteps
<1> QED
  BY <1>1, <1>2 DEF AccessNext

LEMMA ContractsPartSteps == ContractsPart => DictionariesNext
<1> SUFFICES ASSUME ContractsPart PROVE ContractsNext
  BY DEF DictionariesNext
<1>1. ASSUME NEW s \in Subtype, NEW t \in MCTwo,
             CreateSubtype(s, red, t) \/ UpdateSubtype(s, red, t)
      PROVE  ContractsNext
  BY <1>1, AdministrationAssumption DEF MCTwo, ContractsNext
<1>2. ASSUME NEW c \in {u1, u2}, NEW row \in ContractRow, SaveContract(c, row)
      PROVE  ContractsNext
  BY <1>2, AdministrationAssumption DEF ContractsNext
<1>3. ASSUME NEW t \in MCTwo, NEW s \in Subtype \cup {NoRef}, NEW d \in Contract \cup {NoRef}
      PROVE  [type |-> t, subtype |-> s, parent |-> d] \in ContractRow
  BY AdministrationAssumption DEF MCTwo, ContractRow
<1>4. ASSUME NEW d \in {u1, NoRef}
      PROVE  [type |-> basic, subtype |-> NoRef, parent |-> d] \in ContractRow
  BY AdministrationAssumption DEF ContractRow
<1>5. CASE \E t \in MCTwo, s \in Subtype \cup {NoRef}, d \in Contract \cup {NoRef} :
             SaveContract(u1, [type |-> t, subtype |-> s, parent |-> d])
  BY <1>2, <1>3, <1>5
<1>6. CASE \E d \in {u1, NoRef} :
             SaveContract(u2, [type |-> basic, subtype |-> NoRef, parent |-> d])
  BY <1>2, <1>4, <1>6
<1> QED
  BY <1>1, <1>5, <1>6 DEF ContractsPart, ContractsNext

LEMMA TagsPartSteps == TagsPart => DictionariesNext
<1> SUFFICES ASSUME TagsPart PROVE TagsNext
  BY DEF DictionariesNext
<1>1. ASSUME NEW g \in Tag, NEW x \in {red, green}, NEW padded \in BOOLEAN,
             CreateTag(g, x, padded) \/ RenameTag(g, x, padded)
      PROVE  TagsNext
  BY <1>1, AdministrationAssumption DEF TagsNext
<1>2. ASSUME NEW p \in Tagger, NEW add \in BOOLEAN, LookTag(p, z1, red, add) PROVE TagsNext
  BY <1>2, AdministrationAssumption DEF TagsNext
<1>3. CASE AddThing(z1) \/ EraseThing(z1)
  BY <1>3, AdministrationAssumption DEF TagsNext
<1> QED
  BY <1>1, <1>2, <1>3 DEF TagsPart, TagsNext

LEMMA PlacesPartSteps == PlacesPart => LocationsNext
BY DEF PlacesPart, LocationsNext, FloorplansNext

LEMMA LegacyPartSteps == LegacyPart => LegacyNext
BY DEF LegacyPart, LegacyNext

\* What is invariant of the part that moves.
AdministrationInv ==
    /\ part = "reset" => PasswordResetInv
    /\ part = "wecom" => SessionsInv /\ WecomInv
    /\ part \in {"users", "groups"} => AccessInv
    /\ part \in {"contracts", "tags"} => DictionariesInv
    /\ part = "agents" => AgentsInv
    /\ part \in {"floorplans", "places"} => LocationsInv
    /\ part = "settings" => SettingsInv
    /\ part = "legacy" => LegacyInv

LEMMA AdministrationSteps ==
    ASSUME AdministrationInv, AdministrationNext PROVE AdministrationInv'
<1>0. part' = part
  BY DEF AdministrationNext
<1>1. ASSUME part = "reset" PROVE PasswordResetInv'
  BY <1>1, ResetPartSteps, PasswordResetStepInv DEF AdministrationInv, AdministrationNext
<1>2. ASSUME part = "wecom" PROVE SessionsInv' /\ WecomInv'
  <2>1. SessionsInv /\ WecomInv /\ WecomNext
    BY <1>2, WecomPartSteps DEF AdministrationInv, AdministrationNext
  <2> QED
    BY <2>1, WecomStepsAreSessions, CallsStep, KeysStep DEF WecomInv
<1>3. ASSUME part \in {"users", "groups"} PROVE AccessInv'
  BY <1>3, UsersPartSteps, GroupsPartSteps, AccessStepInv DEF AdministrationInv, AdministrationNext
<1>4. ASSUME part \in {"contracts", "tags"} PROVE DictionariesInv'
  BY <1>4, ContractsPartSteps, TagsPartSteps, DictionariesStepInv
     DEF AdministrationInv, AdministrationNext
<1>5. ASSUME part = "agents" PROVE AgentsInv'
  BY <1>5, AgentsStepInv DEF AdministrationInv, AdministrationNext
<1>6. ASSUME part \in {"floorplans", "places"} PROVE LocationsInv'
  <2>1. LocationsInv /\ LocationsNext
    BY <1>6, PlacesPartSteps DEF AdministrationInv, AdministrationNext, LocationsNext
  <2> QED
    BY <2>1, LocationsStepInv
<1>7. ASSUME part = "settings" PROVE SettingsInv'
  BY <1>7, SettingsStep DEF AdministrationInv, AdministrationNext
<1>8. ASSUME part = "legacy" PROVE LegacyInv'
  BY <1>8, LegacyPartSteps, UsersStep, RecordsStep
     DEF AdministrationInv, AdministrationNext, LegacyInv
<1> QED
  BY <1>0, <1>1, <1>2, <1>3, <1>4, <1>5, <1>6, <1>7, <1>8 DEF AdministrationInv

\* Whatever values the parts choose among those of their components, every variable of
\* the part that moves has its range.
THEOREM AdministrationTypesHold == AdministrationSpec => []AdministrationTypeOK
<1> DEFINE all == <<part, passwordResetVars, wecomVars, accessVars, dictionaryVars, agentVars,
                    locationVars, settingVars, legacyVars>>
<1>1. AdministrationInit => AdministrationInv
  <2> SUFFICES ASSUME AdministrationInit PROVE AdministrationInv
    OBVIOUS
  <2>1. PasswordResetInv /\ SessionsInv /\ WecomInv
    BY PasswordResetInitInv, WecomInitInv, InitInv DEF AdministrationInit, WecomInit
  <2>2. AccessInv /\ DictionariesInv /\ AgentsInv
    BY AccessInitInv, DictionariesInitInv, AgentsInitInv DEF AdministrationInit
  <2>3. LocationsInv /\ SettingsInv /\ LegacyInv
    BY LocationsInitInv, SettingsInitInv, LegacyInitInv DEF AdministrationInit, LegacyInv
  <2> QED
    BY <2>1, <2>2, <2>3 DEF AdministrationInv
<1>2. AdministrationInv /\ [AdministrationNext]_all => AdministrationInv'
  <2> SUFFICES ASSUME AdministrationInv, UNCHANGED all PROVE AdministrationInv'
    BY AdministrationSteps
  <2>1. /\ UNCHANGED <<part, passwordResetVars, wecomVars, accessVars>>
        /\ UNCHANGED <<dictionaryVars, agentVars, locationVars, settingVars, legacyVars>>
    OBVIOUS
  <2>2. UNCHANGED sessionsVars
    BY <2>1 DEF passwordResetVars, sessionsVars
  <2> QED
    BY <2>1, <2>2, PasswordResetStepInv, StepInv, CallsStep, KeysStep, AccessStepInv,
       DictionariesStepInv, AgentsStepInv, LocationsStepInv, SettingsStep, UsersStep, RecordsStep
       DEF AdministrationInv, WecomInv, LegacyInv
<1>3. AdministrationInv => AdministrationTypeOK
  BY PasswordResetInvTypes, WecomInvTypes, AccessInvTypes, LegacyInvTypes
     DEF AdministrationInv, AdministrationTypeOK, SessionsInv, DictionariesInv, AgentsInv,
         LocationsInv, SettingsInv
<1> QED
  BY <1>1, <1>2, <1>3, PTL DEF AdministrationSpec
=============================================================================
