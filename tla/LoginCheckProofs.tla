-------------------------- MODULE LoginCheckProofs --------------------------
(* LoginCheck closes the sessions it should, and never one in CheckSlice + 1. *)
EXTENDS LoginCheck, TLAPS

(* Every check begins at a multiple of CheckSlice + 1. *)
AtSlice == \E k \in Nat : FirstChecked = k * (CheckSlice + 1)

LoginInv == TypeOK /\ AtSlice

(* Multiples of m that differ are at least m apart. *)
LEMMA MultiplesApart ==
  ASSUME NEW a \in Nat, NEW b \in Nat, NEW m \in Nat \ {0}, a < b
  PROVE  a * m + m <= b * m
<1>1. PICK d \in Nat : b = a + 1 + d
  <2>1. b - a - 1 \in Nat /\ b = a + 1 + (b - a - 1)
    OBVIOUS
  <2> QED BY <2>1
<1>2. b * m = a * m + m + d * m
  BY <1>1
<1>3. d * m \in Nat /\ a * m \in Nat
  OBVIOUS
<1> QED BY <1>2, <1>3

(* What a check looks at, seen from a session that is passed over. *)
LEMMA PassedOverNotChecked ==
  ASSUME TypeOK, AtSlice, NEW s \in FirstChecked..(LastChecked - 1)
  PROVE  ~PassedOver(s)
<1> SUFFICES ASSUME NEW k \in 0..SessionCount, s = k * (CheckSlice + 1) + CheckSlice
             PROVE  FALSE
  BY DEF PassedOver
<1>1. PICK j \in Nat : FirstChecked = j * (CheckSlice + 1)
  BY DEF AtSlice
<1>2. PICK m \in Nat \ {0} : m = CheckSlice + 1
  BY LoginCheckAssumption
<1>3. /\ k \in Nat /\ CheckSlice \in Nat /\ SessionCount \in Nat
      /\ k * m \in Nat /\ j * m \in Nat
  BY LoginCheckAssumption
<1>4. FirstChecked = j * m /\ s = k * m + CheckSlice
  BY <1>1, <1>2
<1>5. LastChecked <= j * m + CheckSlice
  BY <1>3, <1>4 DEF LastChecked
<1>6. j * m <= s /\ s < j * m + CheckSlice
  <2>1. LastChecked \in Int
    BY <1>3, <1>4 DEF LastChecked
  <2> QED BY <1>3, <1>4, <1>5, <2>1
<1>7. j * m < k * m + m /\ k * m < j * m
  BY <1>2, <1>3, <1>4, <1>6
<1>8. CASE j <= k
  <2>1. CASE j = k
    BY <1>7, <2>1
  <2>2. CASE j < k
    BY <1>2, <1>3, <1>7, <2>2, MultiplesApart
  <2> QED BY <1>8, <2>1, <2>2
<1>9. CASE k < j
  <2>1. k * m + m <= j * m
    BY <1>2, <1>3, <1>9, MultiplesApart
  <2> QED BY <1>3, <1>7, <2>1
<1> QED BY <1>3, <1>8, <1>9

(* The first check begins at session 0. *)
LEMMA InitLoginInv == Init => LoginInv
<1> SUFFICES ASSUME Init PROVE LoginInv
  OBVIOUS
<1>1. TypeOK
  <2>1. waited \in [Sessions -> -1..LoginLimit]
    BY LoginCheckAssumption DEF Init, NotConnected
  <2>2. checkIndex \in -1..SessionCount
    BY LoginCheckAssumption DEF Init
  <2>3. loginOK \in [Sessions -> BOOLEAN] /\ checkDue \in BOOLEAN
    BY DEF Init
  <2> QED BY <2>1, <2>2, <2>3 DEF TypeOK
<1>2. FirstChecked = 0
  BY LoginCheckAssumption DEF Init, FirstChecked
<1>3. 0 \in Nat /\ 0 = 0 * (CheckSlice + 1)
  BY LoginCheckAssumption
<1> QED BY <1>1, <1>2, <1>3 DEF LoginInv, AtSlice

(* Every step keeps LoginInv. *)
LEMMA StepLoginInv ==
  ASSUME LoginInv, [Next]_vars
  PROVE  LoginInv'
<1> USE LoginCheckAssumption
<1>1. TypeOK /\ AtSlice
  BY DEF LoginInv
<1>2. ASSUME checkIndex' = checkIndex PROVE AtSlice'
  BY <1>1, <1>2 DEF AtSlice, FirstChecked
<1>3. ASSUME NEW s \in Sessions, SetConnectSession(s) PROVE LoginInv'
  <2>1. TypeOK'
    BY <1>1, <1>3 DEF SetConnectSession, TypeOK
  <2> QED BY <1>2, <1>3, <2>1 DEF SetConnectSession, LoginInv
<1>4. ASSUME NEW s \in Sessions, SetLogin(s) PROVE LoginInv'
  <2>1. TypeOK'
    BY <1>1, <1>4 DEF SetLogin, TypeOK
  <2> QED BY <1>2, <1>4, <2>1 DEF SetLogin, LoginInv
<1>5. ASSUME NEW s \in Sessions, SetDisConnectSession(s) PROVE LoginInv'
  <2>1. TypeOK'
    BY <1>1, <1>5 DEF SetDisConnectSession, TypeOK, NotConnected
  <2> QED BY <1>2, <1>5, <2>1 DEF SetDisConnectSession, LoginInv
<1>6. CASE MomentPasses
  <2>1. TypeOK'
    BY <1>1, <1>6 DEF MomentPasses, TypeOK
  <2> QED BY <1>2, <1>6, <2>1 DEF MomentPasses, LoginInv
<1>7. CASE SecondPasses
  <2>1. TypeOK'
    BY <1>1, <1>7 DEF SecondPasses, TypeOK
  <2> QED BY <1>2, <1>7, <2>1 DEF SecondPasses, LoginInv
<1>8. CASE LoginCheck
  <2>1. FirstChecked \in 0..SessionCount
    BY <1>1 DEF FirstChecked, TypeOK
  <2>2. LastChecked \in 0..SessionCount
    BY <2>1 DEF LastChecked
  <2>3. checkIndex' = LastChecked /\ checkDue' = FALSE /\ loginOK' = loginOK
    BY <1>8 DEF LoginCheck
  <2>4. waited' \in [Sessions -> -1..LoginLimit]
    BY <1>1, <1>8 DEF LoginCheck, TypeOK, NotConnected
  <2>5. TypeOK'
    <3>1. checkIndex' \in -1..SessionCount
      BY <2>2, <2>3
    <3>2. loginOK' \in [Sessions -> BOOLEAN] /\ checkDue' \in BOOLEAN
      BY <1>1, <2>3 DEF TypeOK
    <3> QED BY <2>4, <3>1, <3>2 DEF TypeOK
  <2>6. AtSlice'
    <3>1. CASE LastChecked = SessionCount
      <4>1. FirstChecked' = 0
        BY <2>3, <3>1 DEF FirstChecked
      <4>2. 0 \in Nat /\ 0 = 0 * (CheckSlice + 1)
        OBVIOUS
      <4> QED BY <4>1, <4>2 DEF AtSlice
    <3>2. CASE LastChecked # SessionCount
      <4>1. LastChecked = FirstChecked + CheckSlice
        BY <3>2 DEF LastChecked
      <4>2. FirstChecked' = FirstChecked + (CheckSlice + 1)
        <5>1. LastChecked < SessionCount
          BY <2>2, <3>2
        <5>2. FirstChecked' = LastChecked + 1
          BY <2>2, <2>3, <5>1 DEF FirstChecked
        <5> QED BY <2>1, <4>1, <5>2
      <4>3. PICK k \in Nat : FirstChecked = k * (CheckSlice + 1)
        BY <1>1 DEF AtSlice
      <4>4. FirstChecked' = (k + 1) * (CheckSlice + 1)
        BY <4>2, <4>3
      <4>5. k + 1 \in Nat
        OBVIOUS
      <4> QED BY <4>4, <4>5 DEF AtSlice
    <3> QED BY <3>1, <3>2
  <2> QED BY <2>5, <2>6 DEF LoginInv
<1>9. CASE UNCHANGED vars
  <2>1. TypeOK'
    BY <1>1, <1>9 DEF vars, TypeOK
  <2> QED BY <1>2, <1>9, <2>1 DEF vars, LoginInv
<1> QED
  BY <1>3, <1>4, <1>5, <1>6, <1>7, <1>8, <1>9 DEF Next

(* ConnectedUserManager keeps its types and its place in the sessions. *)
THEOREM LoginTypesCorrect == Spec => []TypeOK
<1>1. LoginInv => TypeOK
  BY DEF LoginInv
<1> QED BY <1>1, InitLoginInv, StepLoginInv, PTL DEF Spec

(* LoginCheck closes none but sessions that are late and not logged in, and *)
(* never one of the sessions that are passed over, for any number of them.  *)
THEOREM ClosesOnlyLate == Spec => ClosesOnlyLateSessions
<1>1. ASSUME LoginInv, LoginCheck, NEW s \in Sessions, waited'[s] # waited[s]
      PROVE  waited[s] = LoginLimit /\ ~loginOK[s] /\ ~PassedOver(s)
  <2>1. s \in FirstChecked..(LastChecked - 1) /\ Overdue(s)
    BY <1>1 DEF LoginCheck
  <2> QED BY <1>1, <2>1, PassedOverNotChecked DEF LoginInv, Overdue
<1>2. LoginInv => [LoginCheck => \A s \in Sessions : waited'[s] # waited[s] =>
                     waited[s] = LoginLimit /\ ~loginOK[s] /\ ~PassedOver(s)]_vars
  BY <1>1
<1> QED BY <1>2, InitLoginInv, StepLoginInv, PTL DEF Spec, ClosesOnlyLateSessions
=============================================================================
