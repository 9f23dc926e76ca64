------------------------- MODULE ExportTokensProofs -------------------------
(***************************************************************************)
(* Theorems about ExportTokens, for any sets of profiles, tokens and       *)
(* requests, any even grace window, and any configuration file.            *)
(***************************************************************************)
EXTENDS ExportTokens, TLAPS

(***************************************************************************)
(* Comparing timestamps as text decides as time does as soon as they are a *)
(* second apart, and never calls a moment before itself.                   *)
(***************************************************************************)
LEMMA TextOrder ==
  ASSUME NEW a \in Int, NEW b \in Int
  PROVE  /\ a + 2 <= b => TextBefore(a, b)
         /\ b + 2 <= a => ~ TextBefore(a, b)
         /\ ~ TextBefore(a, b) => b <= a + 1
         /\ ~ TextBefore(a, a)
BY DEF TextBefore, Second

(***************************************************************************)
(* Every variable has its type at the start.                               *)
(***************************************************************************)
LEMMA TypeInit == Init => TypeOK
BY DEF Init, TypeOK, Stages, ProfileStates, Idle

(***************************************************************************)
(* Every step keeps the types of what it assigns.                          *)
(***************************************************************************)
LEMMA TypeStep == TypeOK /\ [Next]_vars => TypeOK'
<1> SUFFICES ASSUME TypeOK, [Next]_vars PROVE TypeOK'
  OBVIOUS
<1> USE DEF TypeOK, Stages, ProfileStates, Idle
<1>1. ASSUME NEW p \in Profile, NEW t \in Token, CreateProfile(p, t)
      PROVE TypeOK'
  BY <1>1 DEF CreateProfile
<1>2. ASSUME NEW r \in Request, NEW p \in Profile, NEW t \in Token,
             StartRotation(r, p, t)
      PROVE TypeOK'
  BY <1>2 DEF StartRotation
<1>3. ASSUME NEW r \in Request, CommitRotation(r) PROVE TypeOK'
  <2>1. rot[r].profile \in Profile \cup {NoProfile}
        /\ rot[r].token \in Token \cup {NoToken}
        /\ rot[r].at + Grace \in Int
    BY GraceAssumption
  <2>2. owner' \in [Token -> Profile \cup {NoProfile}]
        /\ expires' \in [Token -> Int \cup {Never}]
        /\ promised' \in [Token -> Int \cup {Never}]
    BY <1>3, <2>1 DEF CommitRotation, RotatePrimary, Retired
  <2> QED
    BY <1>3, <2>2 DEF CommitRotation
<1>4. ASSUME NEW p \in Profile, DeleteProfile(p) PROVE TypeOK'
  BY <1>4 DEF DeleteProfile
<1>5. CASE Crash
  BY <1>5 DEF Crash
<1>6. CASE Restart
  BY <1>6 DEF Restart
<1>7. CASE BootProfile
  BY <1>7 DEF BootProfile, Unused
<1>8. CASE BootToken
  <2>1. owner' \in [Token -> Profile \cup {NoProfile}]
        /\ expires' \in [Token -> Int \cup {Never}]
    BY <1>8 DEF BootToken, InsertToken, RotatePrimary, Retired
  <2>2. issued' \subseteq Token /\ stage' \in Stages
    BY <1>8 DEF BootToken, Fresh
  <2> QED
    BY <1>8, <2>1, <2>2 DEF BootToken
<1>9. CASE Tick
  BY <1>9 DEF Tick
<1>10. CASE UNCHANGED vars
  BY <1>10 DEF vars
<1> HIDE DEF TypeOK, Stages, ProfileStates, Idle
<1> QED
  BY <1>1, <1>2, <1>3, <1>4, <1>5, <1>6, <1>7, <1>8, <1>9, <1>10 DEF Next

(***************************************************************************)
(* Type correctness of every reachable state.                              *)
(***************************************************************************)
THEOREM TypeCorrect == Spec => []TypeOK
BY TypeInit, TypeStep, PTL DEF Spec

----------------------------------------------------------------------------
(***************************************************************************)
(* Who can hold which token.  A row of export_tokens belongs to a live     *)
(* profile (the foreign key and its cascade) and its token is a random one *)
(* that was drawn or the configured one; a token drawn by a rotation under *)
(* way is in no row and in no other rotation.                              *)
(***************************************************************************)
Rotates(r) == rot[r] # Idle

RowsInv ==
  /\ configured \notin issued
  /\ \A t \in Token : owner[t] # NoProfile =>
       prof[owner[t]] = "live" /\ t \in issued \cup {configured}
  /\ \A t \in Token : owner[t] = NoProfile => expires[t] = Never

RotationsInv ==
  /\ \A r \in Request : Rotates(r) =>
       /\ stage = "up"
       /\ rot[r].profile \in Profile /\ rot[r].at <= now
       /\ rot[r].token \in issued /\ owner[rot[r].token] = NoProfile
  /\ \A q, r \in Request :
       Rotates(q) /\ Rotates(r) /\ rot[q].token = rot[r].token => q = r

(***************************************************************************)
(* The boot's two statements: between them the headless profile, and only  *)
(* it, may be without an active token; that is also how a crash between    *)
(* them, or a start that was refused, leaves it.                           *)
(***************************************************************************)
BootInv ==
  /\ named # NoProfile => prof[named] = "live"
  /\ stage = "token" => named # NoProfile
  /\ \A p \in Profile : prof[p] = "live" /\ (stage = "up" \/ p # named) =>
       \E t \in Token : t \in Active(p)

UniqueInv == \A p \in Profile : \A t, u \in Active(p) : t = u

PrimaryInv == RowsInv /\ RotationsInv /\ BootInv /\ UniqueInv

(***************************************************************************)
(* The deadlines.  Only a row that a response promised a deadline for has  *)
(* one, and it is the promised one; a promised token loses its row only    *)
(* when the deadline has come, to within the second; and only the          *)
(* configured token can be without a deadline again.                       *)
(***************************************************************************)
DeadlineInv ==
  \A t \in Token :
    /\ expires[t] \in {Never, promised[t]}
    /\ promised[t] # Never =>
         /\ t \in issued \cup {configured}
         /\ \A r \in Request : Rotates(r) => rot[r].token # t
         /\ owner[t] = NoProfile => promised[t] <= now + 1
         /\ t # configured /\ owner[t] # NoProfile => expires[t] # Never

(***************************************************************************)
(* What the rotation's transaction does to each row: the new token becomes *)
(* the profile's, without a deadline; an active row gets the deadline or   *)
(* goes; a row whose deadline has come may go; nothing else changes.       *)
(***************************************************************************)
LEMMA RotateEffect ==
  ASSUME TypeOK, NEW p \in Profile, NEW new \in Token, NEW grace \in Int,
         NEW at \in Int, RotatePrimary(p, new, grace, at)
  PROVE  /\ owner[new] = NoProfile /\ prof[p] = "live"
         /\ owner'[new] = p /\ expires'[new] = Never
         /\ \A t \in Token \ {new} :
              \/ /\ owner'[t] = owner[t] /\ expires'[t] = expires[t]
                 /\ t \notin Active(p)
              \/ /\ t \in Active(p)
                 /\ owner'[t] = p /\ expires'[t] = grace
              \/ /\ owner[t] = p
                 /\ owner'[t] = NoProfile /\ expires'[t] = Never
                 /\ t \in Active(p) => ~ TextBefore(at, grace)
                 /\ t \notin Active(p) => ~ TextBefore(at, expires[t])
<1>1. owner[new] = NoProfile /\ prof[p] = "live"
  BY DEF RotatePrimary, CanInsert
<1>2. owner'[new] = p /\ expires'[new] = Never
  BY DEF RotatePrimary
<1>3. ASSUME NEW t \in Token \ {new}, t \notin Expired(p, grace, at)
      PROVE  owner'[t] = owner[t] /\ expires'[t] = Retired(p, grace)[t]
  BY <1>3 DEF RotatePrimary
<1>4. ASSUME NEW t \in Token \ {new}, t \in Expired(p, grace, at)
      PROVE  /\ owner[t] = p /\ owner'[t] = NoProfile /\ expires'[t] = Never
             /\ ~ TextBefore(at, Retired(p, grace)[t])
  BY <1>4 DEF RotatePrimary, Expired
<1>5. ASSUME NEW t \in Token
      PROVE  /\ t \in Active(p) => Retired(p, grace)[t] = grace /\ owner[t] = p
             /\ t \notin Active(p) => Retired(p, grace)[t] = expires[t]
  BY DEF Retired, Active
<1> QED
  BY <1>1, <1>2, <1>3, <1>4, <1>5

(***************************************************************************)
(* After it the new token is the profile's only active one, and the active *)
(* tokens of the other profiles are what they were.                        *)
(***************************************************************************)
LEMMA RotateKeepsOne ==
  ASSUME TypeOK, RowsInv, UniqueInv, NEW p \in Profile, NEW new \in Token,
         NEW grace \in Int, NEW at \in Int, RotatePrimary(p, new, grace, at)
  PROVE  /\ Active(p)' = {new}
         /\ \A q \in Profile \ {p} : Active(q)' = Active(q)
<1>1. grace # Never
  BY NeverAssumption
<1>2. owner' \in [Token -> Profile \cup {NoProfile}]
  BY DEF RotatePrimary, TypeOK
<1>3. \A t \in Token \ {new} : t \notin Active(p)'
  BY <1>1, RotateEffect, NoProfileAssumption DEF Active, TypeOK
<1>4. new \in Active(p)'
  BY RotateEffect DEF Active
<1>5. \A q \in Profile \ {p} : Active(q)' = Active(q)
  BY RotateEffect, NoProfileAssumption DEF Active, TypeOK
<1> QED
  BY <1>3, <1>4, <1>5 DEF Active

(***************************************************************************)
(* At the start there is no profile and no token.                          *)
(***************************************************************************)
LEMMA PrimaryInit == Init => PrimaryInv
BY ConfigurationsAssumption, NoProfileAssumption
DEF Init, PrimaryInv, RowsInv, RotationsInv, BootInv, UniqueInv, Rotates, Active

(***************************************************************************)
(* Every step keeps PrimaryInv.                                            *)
(***************************************************************************)
LEMMA PrimaryStep == TypeOK /\ PrimaryInv /\ [Next]_vars => PrimaryInv'
<1> SUFFICES ASSUME TypeOK, PrimaryInv, [Next]_vars PROVE PrimaryInv'
  OBVIOUS
<1> USE NoProfileAssumption DEF PrimaryInv
<1>1. ASSUME NEW p \in Profile, NEW t \in Token, CreateProfile(p, t)
      PROVE PrimaryInv'
  <2>1. /\ t \notin issued /\ t # configured /\ owner[t] = NoProfile
        /\ prof[p] = "absent"
    BY <1>1 DEF CreateProfile, Fresh, Unused, RowsInv, TypeOK
  <2>2. \A u \in Token : owner[u] # p
    BY <2>1 DEF RowsInv, TypeOK
  <2>3. RowsInv'
    BY <1>1, <2>1 DEF CreateProfile, RowsInv, TypeOK
  <2>4. RotationsInv'
    BY <1>1, <2>1 DEF CreateProfile, RotationsInv, Rotates, TypeOK, Idle
  <2>5. BootInv'
    BY <1>1, <2>1, <2>2 DEF CreateProfile, BootInv, TypeOK, Active
  <2>6. UniqueInv'
    BY <1>1, <2>1, <2>2 DEF CreateProfile, UniqueInv, TypeOK, Active
  <2> QED
    BY <2>3, <2>4, <2>5, <2>6
<1>2. ASSUME NEW r \in Request, NEW p \in Profile, NEW t \in Token,
             StartRotation(r, p, t)
      PROVE PrimaryInv'
  <2>1. t \notin issued /\ t # configured /\ owner[t] = NoProfile
    BY <1>2 DEF StartRotation, Fresh, RowsInv, TypeOK
  <2>2. RowsInv'
    BY <1>2, <2>1 DEF StartRotation, RowsInv, TypeOK
  <2>3. RotationsInv'
    BY <1>2, <2>1 DEF StartRotation, RotationsInv, Rotates, TypeOK, Idle
  <2>4. BootInv' /\ UniqueInv'
    BY <1>2 DEF StartRotation, BootInv, UniqueInv, Active
  <2> QED
    BY <2>2, <2>3, <2>4
<1>3. ASSUME NEW r \in Request, CommitRotation(r) PROVE PrimaryInv'
  <2> DEFINE p == rot[r].profile
             new == rot[r].token
             grace == rot[r].at + Grace
  <2>1. /\ stage = "up" /\ p \in Profile /\ new \in issued
        /\ grace \in Int /\ rot[r].at \in Int
    BY <1>3, GraceAssumption DEF CommitRotation, RotationsInv, Rotates, TypeOK
  <2>2. new \in Token
    BY <2>1 DEF TypeOK
  <2>3. /\ rot' = [rot EXCEPT ![r] = Idle]
        /\ UNCHANGED <<configured, now, stage, prof, named, issued>>
    BY <1>3 DEF CommitRotation
  <2>4. CASE RotatePrimary(p, new, grace, rot[r].at)
    <3>1. RowsInv'
      <4>1. \A t \in Token : owner'[t] # NoProfile =>
              owner'[t] = owner[t] \/ (t = new /\ owner'[t] = p)
        BY <2>1, <2>2, <2>4, RotateEffect DEF Active
      <4>2. \A t \in Token : owner'[t] = NoProfile => expires'[t] = Never
        BY <2>1, <2>2, <2>4, RotateEffect DEF RowsInv
      <4> QED
        BY <2>1, <2>2, <2>3, <2>4, <4>1, <4>2, RotateEffect DEF RowsInv
    <3>2. RotationsInv'
      <4>1. ASSUME NEW q \in Request, Rotates(q)'
            PROVE  /\ q # r /\ rot'[q] = rot[q] /\ Rotates(q)
                   /\ owner'[rot[q].token] = NoProfile
        <5>1. q # r /\ rot'[q] = rot[q] /\ Rotates(q)
          BY <2>3, <4>1 DEF Rotates, TypeOK, Idle
        <5>2. rot[q].token \in Token \ {new} /\ owner[rot[q].token] = NoProfile
          BY <1>3, <5>1 DEF RotationsInv, CommitRotation, Rotates, TypeOK
        <5>3. owner'[rot[q].token] = NoProfile
          BY <2>1, <2>2, <2>4, <5>2, RotateEffect DEF Active
        <5> QED
          BY <5>1, <5>3
      <4> QED
        BY <2>3, <4>1 DEF RotationsInv
    <3>3. BootInv'
      BY <2>1, <2>2, <2>3, <2>4, RotateKeepsOne DEF BootInv
    <3>4. UniqueInv'
      BY <2>1, <2>2, <2>4, RotateKeepsOne DEF UniqueInv
    <3> QED
      BY <3>1, <3>2, <3>3, <3>4
  <2>5. CASE UNCHANGED <<owner, expires, promised>>
    <3>1. RowsInv' /\ BootInv' /\ UniqueInv'
      BY <2>3, <2>5 DEF RowsInv, BootInv, UniqueInv, Active
    <3>2. RotationsInv'
      BY <2>3, <2>5 DEF RotationsInv, Rotates, TypeOK, Idle
    <3> QED
      BY <3>1, <3>2
  <2> QED
    BY <1>3, <2>4, <2>5 DEF CommitRotation
<1>4. ASSUME NEW p \in Profile, DeleteProfile(p) PROVE PrimaryInv'
  <2>1. RowsInv'
    BY <1>4 DEF DeleteProfile, RowsInv, TypeOK
  <2>2. RotationsInv'
    BY <1>4 DEF DeleteProfile, RotationsInv, Rotates, TypeOK
  <2>3. BootInv'
    BY <1>4 DEF DeleteProfile, BootInv, Active, TypeOK
  <2>4. UniqueInv'
    BY <1>4 DEF DeleteProfile, UniqueInv, Active, TypeOK
  <2> QED
    BY <2>1, <2>2, <2>3, <2>4
<1>5. CASE Crash
  BY <1>5 DEF Crash, RowsInv, RotationsInv, BootInv, UniqueInv, Rotates, Active
<1>6. CASE Restart
  BY <1>6 DEF Restart, RowsInv, RotationsInv, BootInv, UniqueInv, Rotates, Active
<1>7. CASE BootProfile
  <2>1. RowsInv' /\ UniqueInv' /\ RotationsInv'
    BY <1>7 DEF BootProfile, Unused, RowsInv, UniqueInv, RotationsInv, Rotates,
                Active, TypeOK
  <2>2. BootInv'
    BY <1>7 DEF BootProfile, Unused, BootInv, Active, TypeOK
  <2> QED
    BY <2>1, <2>2
<1>8. CASE BootToken
  <2>1. /\ named \in Profile /\ prof[named] = "live"
        /\ UNCHANGED <<configured, now, prof, named, rot, promised>>
        /\ \A r \in Request : ~ Rotates(r)
    BY <1>8 DEF BootToken, BootInv, RotationsInv, TypeOK
  <2>2. RotationsInv'
    BY <2>1 DEF RotationsInv, Rotates
  <2>3. CASE /\ Active(named) # {} \/ stage' # "up"
             /\ stage' # "token"
             /\ UNCHANGED <<owner, expires, issued>>
    BY <2>1, <2>2, <2>3 DEF RowsInv, BootInv, UniqueInv, Active
  <2>4. ASSUME NEW t \in Token, InsertToken(named, t), Active(named) = {},
               stage' = "up",
               \/ t \in Fresh /\ issued' = issued \cup {t}
               \/ t = configured /\ UNCHANGED issued
        PROVE  PrimaryInv'
    <3>1. /\ owner[t] = NoProfile
          /\ owner' = [owner EXCEPT ![t] = named]
          /\ expires' = [expires EXCEPT ![t] = Never]
      BY <2>4 DEF InsertToken, CanInsert
    <3>2. RowsInv'
      BY <2>1, <2>4, <3>1 DEF RowsInv, Fresh, TypeOK
    <3>3. BootInv'
      BY <2>1, <2>4, <3>1 DEF BootInv, Active, TypeOK
    <3>4. UniqueInv'
      BY <2>1, <2>4, <3>1 DEF UniqueInv, Active, TypeOK
    <3> QED
      BY <2>2, <3>2, <3>3, <3>4
  <2>5. CASE /\ configured # NoToken /\ RotatePrimary(named, configured, now, now)
             /\ stage' = "up" /\ UNCHANGED issued
    <3>1. configured \in Token /\ now \in Int
      BY <2>5, ConfigurationsAssumption DEF TypeOK
    <3>2. RowsInv'
      <4>1. \A t \in Token : owner'[t] # NoProfile =>
              owner'[t] = owner[t] \/ (t = configured /\ owner'[t] = named)
        BY <2>1, <2>5, <3>1, RotateEffect DEF Active
      <4>2. \A t \in Token : owner'[t] = NoProfile => expires'[t] = Never
        BY <2>1, <2>5, <3>1, RotateEffect DEF RowsInv
      <4> QED
        BY <2>1, <2>5, <4>1, <4>2 DEF RowsInv
    <3>3. BootInv'
      BY <2>1, <2>5, <3>1, RotateKeepsOne DEF BootInv
    <3>4. UniqueInv'
      BY <2>1, <2>5, <3>1, RotateKeepsOne DEF UniqueInv
    <3> QED
      BY <2>2, <3>2, <3>3, <3>4
  <2>6. configured \in Token \cup {NoToken}
    BY ConfigurationsAssumption DEF TypeOK
  <2> QED
    BY <1>8, <2>3, <2>4, <2>5, <2>6 DEF BootToken, Fresh
<1>9. CASE Tick
  BY <1>9 DEF Tick, RowsInv, RotationsInv, BootInv, UniqueInv, Rotates, Active,
              TypeOK
<1>10. CASE UNCHANGED vars
  BY <1>10 DEF vars, RowsInv, RotationsInv, BootInv, UniqueInv, Rotates, Active
<1> QED
  BY <1>1, <1>2, <1>3, <1>4, <1>5, <1>6, <1>7, <1>8, <1>9, <1>10 DEF Next

(***************************************************************************)
(* While the core serves, every live profile has exactly one primary       *)
(* token, whatever rotations, starts and deletions interleave.             *)
(***************************************************************************)
THEOREM OnePrimaryHolds == Spec => []OnePrimary
<1>1. TypeOK /\ PrimaryInv => OnePrimary
  BY DEF PrimaryInv, UniqueInv, BootInv, OnePrimary
<1> QED
  BY <1>1, TypeInit, TypeStep, PrimaryInit, PrimaryStep, PTL DEF Spec

(***************************************************************************)
(* A link never moves to another profile: a row's profile changes only by  *)
(* the row going, or by the first use of a token that was just drawn.      *)
(***************************************************************************)
THEOREM TokenNeverMovesHolds == Spec => TokenNeverMoves
<1> DEFINE Moves(t) == owner'[t] # owner[t] => owner'[t] = NoProfile
                         \/ t \notin issued \/ \E r \in Request : rot[r].token = t
           Step == \A t \in Token \ {configured} : Moves(t)
<1>1. TypeOK /\ PrimaryInv /\ [Next]_vars => [Step]_vars
  <2> SUFFICES ASSUME TypeOK, PrimaryInv, Next PROVE Step
    BY DEF vars
  <2>1. ASSUME NEW p \in Profile, NEW t \in Token, CreateProfile(p, t)
        PROVE Step
    BY <2>1 DEF CreateProfile, Fresh, TypeOK
  <2>2. ASSUME NEW r \in Request, NEW p \in Profile, NEW t \in Token,
               StartRotation(r, p, t)
        PROVE Step
    BY <2>2 DEF StartRotation
  <2>3. ASSUME NEW r \in Request, CommitRotation(r) PROVE Step
    <3>1. /\ rot[r].profile \in Profile /\ rot[r].token \in Token
          /\ rot[r].at + Grace \in Int /\ rot[r].at \in Int
      BY <2>3, GraceAssumption
      DEF CommitRotation, PrimaryInv, RotationsInv, Rotates, TypeOK
    <3>2. CASE UNCHANGED owner
      BY <3>2
    <3>3. CASE RotatePrimary(rot[r].profile, rot[r].token,
                             rot[r].at + Grace, rot[r].at)
      BY <3>1, <3>3, RotateEffect DEF Active
    <3> QED
      BY <2>3, <3>2, <3>3 DEF CommitRotation
  <2>4. ASSUME NEW p \in Profile, DeleteProfile(p) PROVE Step
    BY <2>4 DEF DeleteProfile, TypeOK
  <2>5. CASE BootToken
    <3>1. named \in Profile
      BY <2>5 DEF BootToken, PrimaryInv, BootInv, TypeOK
    <3>2. CASE UNCHANGED owner
      BY <3>2
    <3>3. ASSUME NEW t \in Fresh \cup {configured}, InsertToken(named, t)
          PROVE  Step
      BY <3>3 DEF InsertToken, Fresh, TypeOK
    <3>4. CASE RotatePrimary(named, configured, now, now) /\ configured # NoToken
      <4>1. configured \in Token /\ now \in Int
        BY <3>4, ConfigurationsAssumption DEF TypeOK
      <4> QED
        BY <3>1, <3>4, <4>1, RotateEffect DEF Active
    <3> QED
      BY <2>5, <3>2, <3>3, <3>4 DEF BootToken
  <2>6. CASE Crash \/ Restart \/ BootProfile \/ Tick
    BY <2>6 DEF Crash, Restart, BootProfile, Tick
  <2> QED
    BY <2>1, <2>2, <2>3, <2>4, <2>5, <2>6 DEF Next
<1> QED
  BY <1>1, TypeInit, TypeStep, PrimaryInit, PrimaryStep, PTL
  DEF Spec, TokenNeverMoves

----------------------------------------------------------------------------
(***************************************************************************)
(* No promise is outstanding at the start.                                 *)
(***************************************************************************)
LEMMA DeadlineInit == Init => DeadlineInv
BY DEF Init, DeadlineInv

(***************************************************************************)
(* Every step keeps the deadlines.                                         *)
(***************************************************************************)
LEMMA DeadlineStep ==
  TypeOK /\ PrimaryInv /\ DeadlineInv /\ [Next]_vars => DeadlineInv'
<1> SUFFICES ASSUME TypeOK, PrimaryInv, DeadlineInv, [Next]_vars
             PROVE DeadlineInv'
  OBVIOUS
<1> USE NoProfileAssumption DEF DeadlineInv
<1>1. ASSUME NEW p \in Profile, NEW t \in Token, CreateProfile(p, t)
      PROVE DeadlineInv'
  BY <1>1 DEF CreateProfile, Fresh, Rotates, TypeOK
<1>2. ASSUME NEW r \in Request, NEW p \in Profile, NEW t \in Token,
             StartRotation(r, p, t)
      PROVE DeadlineInv'
  BY <1>2 DEF StartRotation, Fresh, Rotates, TypeOK
<1>3. ASSUME NEW r \in Request, CommitRotation(r) PROVE DeadlineInv'
  <2> DEFINE p == rot[r].profile
             new == rot[r].token
             grace == rot[r].at + Grace
  <2>0. Grace \in Nat /\ Grace >= 2
    BY GraceAssumption
  <2>1. /\ p \in Profile /\ new \in Token /\ Rotates(r)
        /\ grace \in Int /\ rot[r].at \in Int /\ now \in Int
        /\ rot[r].at <= now /\ rot[r].at + 2 <= grace
    BY <1>3, <2>0
    DEF CommitRotation, PrimaryInv, RotationsInv, Rotates, TypeOK
  <2>2. /\ rot' = [rot EXCEPT ![r] = Idle]
        /\ UNCHANGED <<configured, now, stage, prof, named, issued>>
    BY <1>3 DEF CommitRotation
  <2>3. \A q \in Request : Rotates(q)' =>
          /\ Rotates(q) /\ rot'[q] = rot[q]
          /\ rot[q].token # new /\ owner[rot[q].token] = NoProfile
    BY <1>3, <2>2
    DEF PrimaryInv, RotationsInv, CommitRotation, Rotates, TypeOK, Idle
  <2>4. CASE UNCHANGED <<owner, expires, promised>>
    BY <2>2, <2>3, <2>4
  <2>5. CASE /\ RotatePrimary(p, new, grace, rot[r].at)
             /\ promised' = [t \in Token |->
                               IF t = new THEN Never
                               ELSE IF t \in Active(p) THEN grace
                               ELSE promised[t]]
    <3>1. ~ (\E t \in Token : t \in Active(p) /\ ~ TextBefore(rot[r].at, grace))
      BY <2>1, TextOrder
    <3> SUFFICES ASSUME NEW t \in Token
                 PROVE  /\ expires'[t] \in {Never, promised'[t]}
                        /\ promised'[t] # Never =>
                             /\ t \in issued \cup {configured}
                             /\ \A q \in Request : Rotates(q)' => rot'[q].token # t
                             /\ owner'[t] = NoProfile => promised'[t] <= now + 1
                             /\ t # configured /\ owner'[t] # NoProfile =>
                                  expires'[t] # Never
      BY <2>2
    <3>2. CASE t = new
      BY <2>1, <2>5, <3>2, RotateEffect
    <3>3. CASE t # new /\ t \in Active(p)
      <4>1. owner[t] = p /\ owner'[t] = p /\ expires'[t] = grace
            /\ promised'[t] = grace
        BY <2>1, <2>5, <3>1, <3>3, RotateEffect DEF Active
      <4> QED
        BY <2>1, <2>3, <4>1, NeverAssumption DEF PrimaryInv, RowsInv
    <3>4. CASE t # new /\ t \notin Active(p)
      <4>1. promised'[t] = promised[t]
        BY <2>5, <3>4
      <4>2. \/ owner'[t] = owner[t] /\ expires'[t] = expires[t]
            \/ /\ owner[t] = p /\ owner'[t] = NoProfile /\ expires'[t] = Never
               /\ ~ TextBefore(rot[r].at, expires[t])
        BY <2>1, <2>5, <3>4, RotateEffect
      <4>3. owner'[t] = NoProfile /\ promised[t] # Never => promised[t] <= now + 1
        <5>1. CASE owner[t] = NoProfile
          BY <5>1
        <5>2. CASE owner[t] = p /\ ~ TextBefore(rot[r].at, expires[t])
          <6>1. expires[t] \in Int
            BY <3>4, <5>2 DEF Active, TypeOK
          <6> QED
            BY <2>1, <5>2, <6>1, TextOrder, NeverAssumption
        <5> QED
          BY <4>2, <5>1, <5>2
      <4> QED
        BY <2>1, <2>3, <4>1, <4>2, <4>3
    <3> QED
      BY <3>2, <3>3, <3>4
  <2> QED
    BY <1>3, <2>4, <2>5 DEF CommitRotation
<1>4. ASSUME NEW p \in Profile, DeleteProfile(p) PROVE DeadlineInv'
  BY <1>4 DEF DeleteProfile, Rotates, TypeOK
<1>5. CASE Crash
  BY <1>5 DEF Crash, Rotates
<1>6. CASE Restart
  BY <1>6 DEF Restart, Rotates
<1>7. CASE BootProfile
  BY <1>7 DEF BootProfile, Rotates
<1>8. CASE BootToken
  <2>1. /\ named \in Profile /\ now \in Int
        /\ UNCHANGED <<configured, now, rot, promised>>
        /\ \A r \in Request : ~ Rotates(r)
        /\ issued \subseteq issued'
    BY <1>8 DEF BootToken, PrimaryInv, BootInv, RotationsInv, TypeOK
  <2>2. CASE UNCHANGED <<owner, expires>>
    BY <2>1, <2>2 DEF Rotates
  <2>3. ASSUME NEW t \in Token, t \in Fresh \cup {configured},
               InsertToken(named, t)
        PROVE  DeadlineInv'
    BY <2>1, <2>3 DEF InsertToken, Fresh, Rotates, TypeOK
  <2>4. CASE configured \in Token /\ RotatePrimary(named, configured, now, now)
    <3> SUFFICES ASSUME NEW t \in Token
                 PROVE  /\ expires'[t] \in {Never, promised[t]}
                        /\ promised[t] # Never =>
                             /\ t \in issued \cup {configured}
                             /\ owner'[t] = NoProfile => promised[t] <= now + 1
                             /\ t # configured /\ owner'[t] # NoProfile =>
                                  expires'[t] # Never
      BY <2>1 DEF Rotates
    <3>1. CASE t = configured
      BY <2>1, <2>4, <3>1, RotateEffect
    <3>2. CASE t # configured /\ t \in Active(named)
      <4>1. t \in Active(named) => expires[t] = Never /\ owner[t] = named
        BY DEF Active
      <4>2. promised[t] = Never
        BY <2>1, <3>2, <4>1
      <4>3. owner'[t] = NoProfile /\ expires'[t] = Never
        <5>1. RotatePrimary(named, configured, now, now) => t \in Expired(named, now, now)
          BY <2>1, <3>2, <4>1, TextOrder, NeverAssumption
          DEF Expired, Retired
        <5> QED
          BY <2>4, <3>2, <5>1 DEF RotatePrimary
      <4> QED
        BY <4>2, <4>3
    <3>3. CASE t # configured /\ t \notin Active(named)
      <4>1. \/ owner'[t] = owner[t] /\ expires'[t] = expires[t]
            \/ /\ owner[t] = named /\ owner'[t] = NoProfile /\ expires'[t] = Never
               /\ ~ TextBefore(now, expires[t])
        BY <2>1, <2>4, <3>3, RotateEffect
      <4>2. owner'[t] = NoProfile /\ promised[t] # Never => promised[t] <= now + 1
        <5>1. CASE owner[t] = NoProfile
          BY <5>1
        <5>2. CASE owner[t] = named /\ ~ TextBefore(now, expires[t])
          <6>1. expires[t] \in Int
            BY <3>3, <5>2 DEF Active, TypeOK
          <6> QED
            BY <2>1, <5>2, <6>1, TextOrder, NeverAssumption
        <5> QED
          BY <2>1, <4>1, <5>1, <5>2
      <4> QED
        BY <2>1, <4>1, <4>2
    <3> QED
      BY <3>1, <3>2, <3>3
  <2>5. configured \in Token \cup {NoToken}
    BY ConfigurationsAssumption DEF TypeOK
  <2> QED
    BY <1>8, <2>2, <2>3, <2>4, <2>5 DEF BootToken, Fresh
<1>9. CASE Tick
  BY <1>9 DEF Tick, Rotates, TypeOK
<1>10. CASE UNCHANGED vars
  BY <1>10 DEF vars, Rotates
<1> QED
  BY <1>1, <1>2, <1>3, <1>4, <1>5, <1>6, <1>7, <1>8, <1>9, <1>10 DEF Next

(***************************************************************************)
(* The grace window is kept to within a second: a replaced token works     *)
(* until the deadline it was promised, and a replaced random token is      *)
(* refused from a second after it.                                         *)
(***************************************************************************)
THEOREM GraceExactHolds == Spec => []GraceExact
<1>1. TypeOK /\ PrimaryInv /\ DeadlineInv => GraceExact
  <2> SUFFICES ASSUME TypeOK, PrimaryInv, DeadlineInv, NEW t \in Token,
                      promised[t] # Never
               PROVE  /\ now + 2 <= promised[t] =>
                           owner[t] # NoProfile /\ IsValid(owner[t], t, now)
                      /\ t # configured =>
                           /\ expires[t] \in {Never, promised[t]}
                           /\ now >= promised[t] + 2 =>
                                \A p \in Profile : ~ IsValid(p, t, now)
    BY DEF GraceExact
  <2>1. now \in Int /\ promised[t] \in Int
    BY DEF TypeOK
  <2>2. /\ expires[t] \in {Never, promised[t]}
        /\ owner[t] = NoProfile => promised[t] <= now + 1
        /\ t # configured /\ owner[t] # NoProfile => expires[t] # Never
    BY DEF DeadlineInv
  <2>3. now + 2 <= promised[t] =>
          owner[t] # NoProfile /\ IsValid(owner[t], t, now)
    BY <2>1, <2>2, TextOrder DEF IsValid
  <2>4. t # configured /\ now >= promised[t] + 2 =>
          \A p \in Profile : ~ IsValid(p, t, now)
    BY <2>1, <2>2, TextOrder, NoProfileAssumption DEF IsValid
  <2> QED
    BY <2>2, <2>3, <2>4
<1> QED
  BY <1>1, TypeInit, TypeStep, PrimaryInit, PrimaryStep, DeadlineInit,
     DeadlineStep, PTL
  DEF Spec
=============================================================================
