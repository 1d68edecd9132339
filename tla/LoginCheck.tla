----------------------------- MODULE LoginCheck -----------------------------
(***************************************************************************)
(* ConnectedUserManager with its clock: the check that closes the sessions *)
(* which have not logged in in time.  Each LoginCheck looks at one slice   *)
(* of the sessions and goes on from there 60 ms later at the earliest.     *)
(*                                                                         *)
(* A close is handled before the next LoginCheck: both run on one thread,  *)
(* which empties the packet queue in between (ServerLoop!LogicTracksNetwork *)
(* and RequestsHandledInTime), so closing and Clear are one step here.     *)
(***************************************************************************)
EXTENDS Integers

CONSTANTS
  SessionCount,  \* ConnectedUserList.size()
  CheckSlice,    \* sessions looked at in one check, 100 in the code
  LoginLimit     \* seconds a session may wait before it logs in, 20 in the code

ASSUME LoginCheckAssumption ==
  /\ SessionCount \in Nat \ {0}
  /\ CheckSlice \in Nat \ {0}
  /\ LoginLimit \in Nat \ {0}

VARIABLES
  waited,      \* seconds since m_ConnectedTime, up to LoginLimit; NotConnected if it is 0
  loginOK,     \* m_IsLoginSuccess
  checkIndex,  \* m_LatestLogincheckIndex
  checkDue     \* 60 ms have passed since m_LatestLoginCheckTime

vars == <<waited, loginOK, checkIndex, checkDue>>

Sessions     == 0..(SessionCount - 1)
NotConnected == -1

InitOneSessionMore ==   \* a plausible slip: "<=" in the loop of ConnectedUserManager::Init
  /\ waited = [s \in 0..SessionCount |-> NotConnected]
  /\ loginOK = [s \in 0..SessionCount |-> FALSE]
  /\ checkIndex = -1
  /\ checkDue = FALSE

Init ==
  /\ waited = [s \in Sessions |-> NotConnected]
  /\ loginOK = [s \in Sessions |-> FALSE]
  /\ checkIndex = -1
  /\ checkDue = FALSE

SetConnectSession(s) ==
  /\ waited[s] = NotConnected
  /\ waited' = [waited EXCEPT ![s] = 0]
  /\ UNCHANGED <<loginOK, checkIndex, checkDue>>

SetLogin(s) ==
  /\ waited[s] # NotConnected
  /\ loginOK' = [loginOK EXCEPT ![s] = TRUE]
  /\ UNCHANGED <<waited, checkIndex, checkDue>>

SetDisConnectSession(s) ==
  /\ waited[s] # NotConnected
  /\ waited' = [waited EXCEPT ![s] = NotConnected]
  /\ loginOK' = [loginOK EXCEPT ![s] = FALSE]
  /\ UNCHANGED <<checkIndex, checkDue>>

(* The clock: 60 ms pass, or a second does. *)
MomentPasses ==
  /\ checkDue' = TRUE
  /\ UNCHANGED <<waited, loginOK, checkIndex>>

SecondPasses ==
  /\ checkDue' = TRUE
  /\ waited' = [s \in Sessions |->
                  IF waited[s] \in 0..(LoginLimit - 1) THEN waited[s] + 1 ELSE waited[s]]
  /\ UNCHANGED <<loginOK, checkIndex>>

OverdueOrLoggedIn(s) == waited[s] = LoginLimit   \* a dropped m_IsLoginSuccess

Overdue(s) == waited[s] = LoginLimit /\ ~loginOK[s]

(* Where a check begins and where it ends. *)
FirstChecked == IF checkIndex >= SessionCount THEN 0 ELSE checkIndex + 1

LastChecked ==
  IF FirstChecked + CheckSlice > SessionCount THEN SessionCount ELSE FirstChecked + CheckSlice

LoginCheckStuck ==   \* a restart from -1 that is forgotten
  /\ checkDue
  /\ checkDue' = FALSE
  /\ checkIndex' = IF checkIndex >= SessionCount THEN checkIndex ELSE LastChecked
  /\ LET closed == IF checkIndex >= SessionCount THEN {}
                   ELSE {s \in FirstChecked..(LastChecked - 1) : Overdue(s)} IN
       waited' = [s \in Sessions |-> IF s \in closed THEN NotConnected ELSE waited[s]]
  /\ UNCHANGED loginOK

(* The loop leaves the index one past the last session it has looked at,    *)
(* and the next check increments it before it begins.                      *)
LoginCheck ==
  /\ checkDue
  /\ checkDue' = FALSE
  /\ checkIndex' = LastChecked
  /\ LET closed == {s \in FirstChecked..(LastChecked - 1) : Overdue(s)} IN
       waited' = [s \in Sessions |-> IF s \in closed THEN NotConnected ELSE waited[s]]
  /\ UNCHANGED loginOK

Next ==
  \/ \E s \in Sessions : SetConnectSession(s) \/ SetLogin(s) \/ SetDisConnectSession(s)
  \/ MomentPasses \/ SecondPasses
  \/ LoginCheck

Spec == Init /\ [][Next]_vars

(* The thread calls StateCheck in every round of Main::Run, and each round   *)
(* takes time; nothing is asked of the clients.                             *)
FairSpec == Spec /\ WF_vars(MomentPasses) /\ WF_vars(SecondPasses) /\ WF_vars(LoginCheck)

-----------------------------------------------------------------------------
(* Properties *)

(* The type of every variable. *)
TypeOK ==
  /\ waited \in [Sessions -> -1..LoginLimit]
  /\ loginOK \in [Sessions -> BOOLEAN]
  /\ checkIndex \in -1..SessionCount
  /\ checkDue \in BOOLEAN

(* The sessions the check passes over, round after round: the one behind    *)
(* each slice, whose index the increment uses up.                           *)
PassedOver(s) == \E k \in 0..SessionCount : s = k * (CheckSlice + 1) + CheckSlice

(* A client that connects logs in, leaves or is closed: true of the sessions *)
(* that are not passed over.                                                *)
LateSessionsAreClosed ==
  \A s \in Sessions : ~PassedOver(s) =>
    (waited[s] # NotConnected ~> loginOK[s] \/ waited[s] = NotConnected)

(* The check closes no session before its time is over or once it has logged *)
(* in, not even the next client of a slot another client has just left.      *)
ClosesOnlyLateSessions ==
  [][LoginCheck => \A s \in Sessions : waited'[s] # waited[s] =>
       waited[s] = LoginLimit /\ ~loginOK[s] /\ ~PassedOver(s)]_vars
=============================================================================
