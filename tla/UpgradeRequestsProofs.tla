------------------------ MODULE UpgradeRequestsProofs ------------------------
(***************************************************************************)
(* Theorems about the console half, for every number of accounts, handlers  *)
(* and requests.                                                           *)
(***************************************************************************)
EXTENDS UpgradeRequests, TLAPS

(* Whatever word the updater sends, its request is closed by it. *)
LEMMA OutcomesClose == \A word : StatusForOutcome(word) \in Terminal
  BY DEF StatusForOutcome, Terminal

(* The three ways a handler's own state moves. *)
LEMMA SessionsTyped ==
  ASSUME TypeOK, NEW s \in AllSessions
  PROVE  /\ \A call \in Session : Open(s, call) => sess' \in [AllSessions -> Session]
         /\ Close(s) => sess' \in [AllSessions -> Session]
         /\ \A a \in Answers : Answer(s, a) => sess' \in [AllSessions -> Session]
<1>1. IdleSession \in Session
  BY DEF IdleSession, Session, Actions
<1>2. \A a \in Answers : [IdleSession EXCEPT !.op = a] \in Session
  BY DEF IdleSession, Session, Answers, Actions
<1> QED BY <1>1, <1>2 DEF TypeOK, Open, Close, Answer

(* One UPDATE of one row keeps the table well formed. *)
LEMMA UpdateTyped ==
  ASSUME TypeOK, NEW r, NEW row, r \in Ids => row \in Row, Update(r, row)
  PROVE  requests' \in [Ids -> Row]
  BY DEF TypeOK, Update

(* Every action keeps the types of the table, the handlers and the settings. *)
THEOREM TypeCorrect == Spec => []TypeOK
<1> USE NoUserIsNoUser, SessionsAreApart, BoundsAreNat
<1>1. Init => TypeOK
  BY DEF Init, TypeOK, AbsentRow, Row, IdleSession, Session, ConsoleOutcomes, Actions
<1>2. TypeOK /\ [Next]_consoleVars => TypeOK'
  <2> SUFFICES ASSUME TypeOK, [Next]_consoleVars PROVE TypeOK'
    OBVIOUS
  <2>s. AdminSessions \subseteq AllSessions /\ UpdaterSessions \subseteq AllSessions
    BY DEF AllSessions
  <2>t. \A s \in AllSessions : sess[s] \in Session
    BY DEF TypeOK
  <2>r. \A s \in AllSessions : sess[s].id \in Ids => Target(s) \in Row
    BY DEF TypeOK, Target
  <2>1. ASSUME NEW s \in AdminSessions, NEW u \in Users, NEW act \in Actions, NEW due \in BOOLEAN,
               CreateCheck(s, u, act, due)
        PROVE TypeOK'
    <3>1. [IdleSession EXCEPT !.op = "create", !.user = u, !.two = twoPerson,
                              !.action = act, !.due = due] \in Session
      BY DEF IdleSession, Session, AdminOps, Actions, TypeOK
    <3> QED BY <2>1, <2>s, <3>1, SessionsTyped DEF CreateCheck, TypeOK, Settings
  <2>2. ASSUME NEW s \in AdminSessions, CreateWrite(s)
        PROVE TypeOK'
    <3>1. NewRow(sess[s]) \in Row
      BY <2>s, <2>t DEF NewRow, NeedsSecond, AbsentRow, Row, Session, Active, Cancellable, ConsoleOutcomes
    <3>2. requests' \in [Ids -> Row]
      BY <2>2, <3>1, UpdateTyped DEF CreateWrite, Unused
    <3> QED BY <2>2, <2>s, <3>2, SessionsTyped DEF CreateWrite, TypeOK, Settings
  <2>3. ASSUME NEW s \in AdminSessions, NEW u \in Users, NEW r \in Ids,
               ApproveCheck(s, u, r) \/ CancelCheck(s, u, r) \/ FailCheck(s, u, r)
        PROVE TypeOK'
    <3>1. /\ [IdleSession EXCEPT !.op = "approve", !.id = r, !.user = u, !.two = twoPerson] \in Session
          /\ [IdleSession EXCEPT !.op = "cancel", !.id = r, !.user = u] \in Session
          /\ [IdleSession EXCEPT !.op = "fail", !.id = r, !.user = u] \in Session
      BY DEF IdleSession, Session, AdminOps, Actions, TypeOK
    <3> QED BY <2>3, <2>s, <3>1, SessionsTyped DEF ApproveCheck, CancelCheck, FailCheck, TypeOK, Settings
  <2>4. ASSUME NEW s \in AdminSessions, ApproveWrite(s) \/ CancelWrite(s) \/ FailWrite(s)
        PROVE TypeOK'
    <3> DEFINE row == Target(s)
    <3>1. sess[s].id \in Ids =>
            /\ [row EXCEPT !.status = "approved", !.approver = sess[s].user] \in Row
            /\ [row EXCEPT !.status = "cancelled"] \in Row
            /\ [row EXCEPT !.status = "failed", !.outcome = "marked_failed"] \in Row
      BY <2>s, <2>t, <2>r DEF Row, Session, Active, Cancellable, Terminal, ConsoleOutcomes
    <3>2. requests' \in [Ids -> Row]
      BY <2>4, <3>1, UpdateTyped DEF ApproveWrite, CancelWrite, FailWrite, TypeOK
    <3> QED BY <2>4, <2>s, <3>2, SessionsTyped DEF ApproveWrite, CancelWrite, FailWrite, TypeOK, Settings
  <2>5. ASSUME NEW s \in AllSessions, Expiry(s)
        PROVE TypeOK'
    <3>1. ASSUME NEW r \in Ids, ExpireCheck(s, r)
          PROVE TypeOK'
      <4>1. [IdleSession EXCEPT !.op = "expire", !.id = r, !.seen = requests[r].report] \in Session
        BY DEF IdleSession, Session, Actions, TypeOK, Row
      <4> QED BY <3>1, <4>1, SessionsTyped DEF ExpireCheck, TypeOK, Settings
    <3>2. ASSUME ExpireWrite(s)
          PROVE TypeOK'
      <4>1. sess[s].id \in Ids => Expired(Target(s)) \in Row
        BY <2>r DEF Row, Expired, Terminal, ConsoleOutcomes
      <4>2. requests' \in [Ids -> Row]
        BY <3>2, <4>1, UpdateTyped DEF ExpireWrite, TypeOK
      <4> QED BY <3>2, <4>2, SessionsTyped DEF ExpireWrite, TypeOK, Settings
    <3> QED BY <2>5, <3>1, <3>2 DEF Expiry
  <2>6. ASSUME NEW s \in UpdaterSessions, NEW r \in Ids, RefuseCheck(s, r) \/ ClaimCheck(s, r)
        PROVE TypeOK'
    <3>1. \A op \in {"refuse", "claim"} : [IdleSession EXCEPT !.op = op, !.id = r] \in Session
      BY DEF IdleSession, Session, UpdaterOps, Actions
    <3>2. \E op \in {"refuse", "claim"} : Open(s, [IdleSession EXCEPT !.op = op, !.id = r])
      BY <2>6 DEF RefuseCheck, ClaimCheck, IdleSession
    <3> QED BY <2>6, <2>s, <3>1, <3>2, SessionsTyped DEF RefuseCheck, ClaimCheck, TypeOK, Settings
  <2>7. ASSUME NEW s \in UpdaterSessions, NEW op \in ReportOps, NEW r \in Ids,
               NEW out \in RunOutcomes \cup {"none"}, ReportCheck(s, op, r, out)
        PROVE TypeOK'
    <3>1. \A o \in ReportOps \cup {"conflict"} :
            [IdleSession EXCEPT !.op = o, !.id = r, !.outcome = out] \in Session
      BY DEF IdleSession, Session, UpdaterOps, ReportOps, Answers, Actions
    <3>2. \E o \in ReportOps \cup {"conflict"} :
            Open(s, [IdleSession EXCEPT !.op = o, !.id = r, !.outcome = out])
      BY <2>7 DEF ReportCheck
    <3>3. Expired(requests[r]) \in Row
      BY DEF Row, Expired, Terminal, ConsoleOutcomes, TypeOK
    <3>4. requests' \in [Ids -> Row]
      BY <2>7, <3>3, UpdateTyped DEF ReportCheck, TypeOK
    <3> QED BY <2>7, <2>s, <3>1, <3>2, <3>4, SessionsTyped DEF ReportCheck, TypeOK, Settings
  <2>8. ASSUME NEW s \in UpdaterSessions, UpdaterWrites(s) \/ HangUp(s)
        PROVE TypeOK'
    <3> DEFINE row == Target(s)
    <3>1. sess[s].id \in Ids =>
            /\ [row EXCEPT !.status = "refused", !.outcome = "actor_not_admin"] \in Row
            /\ [Renewed(row) EXCEPT !.status = "claimed"] \in Row
            /\ sess[s].op \in ReportOps => Reported(row, sess[s]) \in Row
      <4> SUFFICES ASSUME sess[s].id \in Ids
                   PROVE  /\ [row EXCEPT !.status = "refused", !.outcome = "actor_not_admin"] \in Row
                          /\ [Renewed(row) EXCEPT !.status = "claimed"] \in Row
                          /\ sess[s].op \in ReportOps => Reported(row, sess[s]) \in Row
        OBVIOUS
      <4>1. row \in Row /\ Renewed(row) \in Row
        <5>1. row \in Row
          BY <2>s, <2>r
        <5>2. row.report + 1 \in Nat
          BY <5>1 DEF Row
        <5> QED BY <5>1, <5>2 DEF Row, Renewed
      <4>2. [row EXCEPT !.status = "refused", !.outcome = "actor_not_admin"] \in Row
        BY <4>1 DEF Row, Terminal, ConsoleOutcomes
      <4>3. [Renewed(row) EXCEPT !.status = "claimed"] \in Row
        BY <4>1 DEF Row, Active, InFlight
      <4>4. ASSUME sess[s].op \in ReportOps PROVE Reported(row, sess[s]) \in Row
        <5>1. CASE sess[s].op = "step"
          BY <4>1, <5>1 DEF Row, Active, InFlight, Reported
        <5>2. CASE sess[s].op = "beat"
          BY <4>1, <5>2 DEF Reported
        <5>3. CASE sess[s].op = "outcome"
          <6>1. sess[s].outcome \in {"none"} \cup RunOutcomes
            BY <2>s, <2>t DEF Session
          <6> QED BY <4>1, <5>3, <6>1, OutcomesClose DEF Row, Reported, ConsoleOutcomes
        <5> QED BY <4>4, <5>1, <5>2, <5>3 DEF ReportOps
      <4> QED BY <4>2, <4>3, <4>4
    <3>2. requests' \in [Ids -> Row]
      BY <2>8, <3>1, UpdateTyped DEF UpdaterWrites, RefuseWrite, ClaimWrite, ReportWrite, HangUp, TypeOK
    <3> QED BY <2>8, <2>s, <3>2, SessionsTyped
            DEF UpdaterWrites, RefuseWrite, ClaimWrite, ReportWrite, HangUp, TypeOK, Settings, Answers
  <2>9. ASSUME Environment
        PROVE TypeOK'
    <3>1. ASSUME NEW r \in Ids, LeaseRunsOut(r) \/ ComesDue(r)
          PROVE TypeOK'
      <4>1. [requests[r] EXCEPT !.stale = TRUE] \in Row /\ [requests[r] EXCEPT !.due = TRUE] \in Row
        BY DEF TypeOK, Row
      <4> QED BY <3>1, <4>1, UpdateTyped DEF LeaseRunsOut, ComesDue, TypeOK, Settings
    <3> QED BY <2>9, <3>1 DEF Environment, UpdateSettings, UpdateUser, TypeOK
  <2>10. CASE UNCHANGED consoleVars
    BY <2>10 DEF consoleVars, TypeOK
  <2> QED BY <2>1, <2>2, <2>3, <2>4, <2>5, <2>6, <2>7, <2>8, <2>9, <2>10
          DEF Next, AdminNext, UpdaterNext, ReportOps
<1> QED BY <1>1, <1>2, PTL DEF Spec

-----------------------------------------------------------------------------
(* Everything a step can do to one row of the table.                         *)

Filed(r) ==
  /\ requests[r].status = "absent"
  /\ \E s \in AdminSessions :
       Doing(s, "create") /\ requests'[r] = NewRow(sess[s]) /\ sess'[s] = IdleSession

Approved(r) ==
  /\ requests[r].status = "pending_approval"
  /\ \E s \in AdminSessions :
       /\ Doing(s, "approve") /\ sess[s].id = r
       /\ requests'[r] = [requests[r] EXCEPT !.status = "approved", !.approver = sess[s].user]

Dropped(r) ==
  \/ /\ requests[r].status \in Cancellable
     /\ requests'[r] = [requests[r] EXCEPT !.status = "cancelled"]
  \/ /\ requests[r].status = "approved"
     /\ requests'[r] = [requests[r] EXCEPT !.status = "refused", !.outcome = "actor_not_admin"]

Claimed(r) ==
  /\ requests[r].status = "approved"
  /\ requests'[r] = [Renewed(requests[r]) EXCEPT !.status = "claimed"]
  /\ \E s \in UpdaterSessions : Doing(s, "claim") /\ sess[s].id = r

LeaseTaken(r) ==
  /\ requests[r].status \in InFlight
  /\ requests'[r] = Expired(requests[r])
  /\ \/ requests[r].stale
     \/ \E s \in AllSessions : Doing(s, "expire") /\ sess[s].id = r /\ sess[s].seen = requests[r].report

MarkedFailed(r) ==
  /\ requests[r].status \in InFlight
  /\ requests'[r] = [requests[r] EXCEPT !.status = "failed", !.outcome = "marked_failed"]

ReportApplied(r) ==
  /\ requests[r].status \in InFlight
  /\ \E s \in UpdaterSessions :
       /\ sess[s].op \in ReportOps /\ sess[s].id = r
       /\ requests'[r] = Reported(requests[r], sess[s])

TimePassed(r) ==
  \/ /\ requests[r].status \in InFlight
     /\ requests'[r] = [requests[r] EXCEPT !.stale = TRUE]
  \/ /\ requests[r].status \in Cancellable
     /\ requests'[r] = [requests[r] EXCEPT !.due = TRUE]

RowStep(r) ==
  \/ requests'[r] = requests[r]
  \/ Filed(r) \/ Approved(r) \/ Dropped(r) \/ Claimed(r)
  \/ LeaseTaken(r) \/ MarkedFailed(r) \/ ReportApplied(r) \/ TimePassed(r)

(* Whatever step is taken, a row stays, or one of eight things happens to it. *)
LEMMA RowSteps ==
  ASSUME TypeOK, [Next]_consoleVars, NEW r \in Ids
  PROVE  RowStep(r)
<1>t. \A q \in Ids : \A row : Update(q, row) => requests'[r] = IF q = r THEN row ELSE requests[r]
  BY DEF TypeOK, Update
<1>u. \A s \in AllSessions : \A row : Update(sess[s].id, row) =>
        requests'[r] = IF sess[s].id = r THEN row ELSE requests[r]
  BY DEF TypeOK, Update
<1>s. AdminSessions \subseteq AllSessions /\ UpdaterSessions \subseteq AllSessions
  BY DEF AllSessions
<1>1. ASSUME NEW s \in AdminSessions, CreateWrite(s)
      PROVE  RowStep(r)
  <2>1. sess'[s] = IdleSession
    BY <1>1, <1>s DEF CreateWrite, Close, TypeOK
  <2> QED BY <1>1, <1>t, <2>1 DEF CreateWrite, Unused, RowStep, Filed
<1>2. ASSUME NEW s \in AdminSessions, ApproveWrite(s)
      PROVE  RowStep(r)
  BY <1>2, <1>u, <1>s DEF ApproveWrite, Target, RowStep, Approved
<1>3. ASSUME NEW s \in AdminSessions, CancelWrite(s)
      PROVE  RowStep(r)
  BY <1>3, <1>u, <1>s DEF CancelWrite, Target, StillCancellable, RowStep, Dropped
<1>4. ASSUME NEW s \in AdminSessions, FailWrite(s)
      PROVE  RowStep(r)
  BY <1>4, <1>u, <1>s DEF FailWrite, Target, StillInFlight, RowStep, MarkedFailed
<1>5. ASSUME NEW s \in AllSessions, ExpireWrite(s)
      PROVE  RowStep(r)
  BY <1>5, <1>u DEF ExpireWrite, Target, StillInFlight, SameReport, RowStep, LeaseTaken
<1>6. ASSUME NEW s \in UpdaterSessions, RefuseWrite(s)
      PROVE  RowStep(r)
  BY <1>6, <1>u, <1>s DEF RefuseWrite, Target, RowStep, Dropped
<1>7. ASSUME NEW s \in UpdaterSessions, ClaimWrite(s)
      PROVE  RowStep(r)
  BY <1>7, <1>u, <1>s DEF ClaimWrite, Target, RowStep, Claimed
<1>8. ASSUME NEW s \in UpdaterSessions, ReportWrite(s)
      PROVE  RowStep(r)
  BY <1>8, <1>u, <1>s DEF ReportWrite, Target, StillInFlight, RowStep, ReportApplied
<1>9. ASSUME NEW s \in UpdaterSessions, NEW q \in Ids, NEW op, NEW out, ReportCheck(s, op, q, out)
      PROVE  RowStep(r)
  BY <1>9, <1>t DEF ReportCheck, LeaseRanOut, RowStep, LeaseTaken
<1>10. ASSUME Environment
       PROVE  RowStep(r)
  BY <1>10, <1>t DEF Environment, LeaseRunsOut, ComesDue, UpdateSettings, UpdateUser, RowStep, TimePassed
<1>11. CASE UNCHANGED requests
  BY <1>11 DEF RowStep
<1> QED
  BY <1>1, <1>2, <1>3, <1>4, <1>5, <1>6, <1>7, <1>8, <1>9, <1>10, <1>11
  DEF Next, AdminNext, UpdaterNext, UpdaterWrites, Expiry, consoleVars, HangUp, CreateCheck,
      ApproveCheck, CancelCheck, FailCheck, ExpireCheck, RefuseCheck, ClaimCheck

(* A closed request keeps its whole row, whichever handlers still hold it.   *)
THEOREM ClosedStaysClosed == Spec => ClosedIsFinal
<1>1. TypeOK /\ [Next]_consoleVars
        => [\A r \in Ids : requests[r].status \in Terminal => requests'[r] = requests[r]]_consoleVars
  <2> SUFFICES ASSUME TypeOK, [Next]_consoleVars, NEW r \in Ids, requests[r].status \in Terminal
               PROVE  requests'[r] = requests[r]
    OBVIOUS
  <2> QED BY RowSteps DEF RowStep, Filed, Approved, Dropped, Claimed, LeaseTaken, MarkedFailed,
             ReportApplied, TimePassed, Terminal, InFlight, Cancellable
<1> QED BY <1>1, TypeCorrect, PTL DEF Spec, ClosedIsFinal

-----------------------------------------------------------------------------
(* What a step can do to a handler that later writes from what it has read.  *)

CreateOpens(s) ==
  /\ sess'[s].op = "create" /\ sess'[s].two = twoPerson
  /\ \A r \in Ids : ~ Clashes(requests[r], sess'[s].action)

ApproveOpens(s) ==
  \E u \in Users, r \in Ids :
    /\ ~ ApprovalBlock(u, r)
    /\ sess'[s] = [IdleSession EXCEPT !.op = "approve", !.id = r, !.user = u, !.two = twoPerson]

ExpireOpens(s) ==
  \E r \in Ids :
    /\ LeaseRanOut(requests[r])
    /\ sess'[s] = [IdleSession EXCEPT !.op = "expire", !.id = r, !.seen = requests[r].report]

ClaimOpens(s) ==
  \E r \in Ids :
    /\ ~ (requests[r].status = "approved" /\ ActorGone(requests[r]))
    /\ sess'[s].op = "claim" /\ sess'[s].id = r

Reads == {"create", "approve", "expire", "claim"}

SessionStep(s) ==
  \/ sess'[s] = sess[s]
  \/ sess'[s].op \notin Reads
  \/ requests' = requests /\ (CreateOpens(s) \/ ApproveOpens(s) \/ ExpireOpens(s) \/ ClaimOpens(s))

(* Whatever step is taken, a handler that will write from what it read either *)
(* stays as it was or has just read it, with the table unchanged.             *)
LEMMA SessionSteps ==
  ASSUME TypeOK, [Next]_consoleVars, NEW s \in AllSessions
  PROVE  SessionStep(s)
<1>o. \A t, call : Open(t, call) => sess'[s] = IF t = s THEN call ELSE sess[s]
  BY DEF TypeOK, Open
<1>c. \A t : Close(t) => sess'[s] = sess[s] \/ sess'[s].op \notin Reads
  BY DEF TypeOK, Close, IdleSession, Reads
<1>a. \A t : \A a \in Answers : Answer(t, a) => sess'[s] = sess[s] \/ sess'[s].op \notin Reads
  BY DEF TypeOK, Answer, IdleSession, Reads, Answers
<1>1. ASSUME NEW t \in AdminSessions, NEW u \in Users, NEW act \in Actions, NEW due \in BOOLEAN,
             CreateCheck(t, u, act, due)
      PROVE  SessionStep(s)
  <2> DEFINE call == [IdleSession EXCEPT !.op = "create", !.user = u, !.two = twoPerson,
                                         !.action = act, !.due = due]
  <2>1. call.op = "create" /\ call.two = twoPerson /\ call.action = act
    BY DEF IdleSession
  <2>2. Open(t, call) /\ requests' = requests /\ \A r \in Ids : ~ Clashes(requests[r], act)
    BY <1>1 DEF CreateCheck
  <2> HIDE DEF call
  <2> QED BY <2>1, <2>2, <1>o DEF SessionStep, CreateOpens
<1>2. ASSUME NEW t \in AdminSessions, NEW u \in Users, NEW r \in Ids, ApproveCheck(t, u, r)
      PROVE  SessionStep(s)
  BY <1>2, <1>o DEF ApproveCheck, SessionStep, ApproveOpens
<1>3. ASSUME NEW t \in AllSessions, NEW r \in Ids, ExpireCheck(t, r)
      PROVE  SessionStep(s)
  BY <1>3, <1>o DEF ExpireCheck, SessionStep, ExpireOpens
<1>n. \A t, call : Open(t, call) /\ call.op \notin Reads => SessionStep(s)
  BY <1>o DEF SessionStep
<1>4. ASSUME NEW t, NEW u, NEW r, CancelCheck(t, u, r) \/ FailCheck(t, u, r) \/ RefuseCheck(t, r)
      PROVE  SessionStep(s)
  <2>1. \A op : /\ [IdleSession EXCEPT !.op = op, !.id = r].op = op
                /\ [IdleSession EXCEPT !.op = op, !.id = r, !.user = u].op = op
    BY DEF IdleSession
  <2>2. {"cancel", "fail", "refuse"} \cap Reads = {}
    BY DEF Reads
  <2> QED BY <1>4, <1>n, <2>1, <2>2 DEF CancelCheck, FailCheck, RefuseCheck
<1>9. ASSUME NEW t, NEW r \in Ids, ClaimCheck(t, r)
      PROVE  SessionStep(s)
  <2> DEFINE gone == requests[r].status = "approved" /\ ActorGone(requests[r])
             call == [IdleSession EXCEPT !.id = r, !.op = IF gone THEN "refuse" ELSE "claim"]
  <2>1. call.id = r /\ call.op = IF gone THEN "refuse" ELSE "claim"
    BY DEF IdleSession
  <2>2. Open(t, call) /\ requests' = requests
    BY <1>9 DEF ClaimCheck
  <2>3. sess'[s] = IF t = s THEN call ELSE sess[s]
    BY <2>2, <1>o
  <2>4. CASE gone
    BY <2>1, <2>3, <2>4 DEF SessionStep, Reads
  <2>5. CASE ~ gone
    BY <2>1, <2>2, <2>3, <2>5 DEF SessionStep, ClaimOpens
  <2> QED BY <2>4, <2>5
<1>5. ASSUME NEW t, NEW op \in ReportOps, NEW r, NEW out, ReportCheck(t, op, r, out)
      PROVE  SessionStep(s)
  <2>1. \A o : [IdleSession EXCEPT !.op = o, !.id = r, !.outcome = out].op = o
    BY DEF IdleSession
  <2>2. PICK o \in ReportOps \cup {"conflict"} :
          Open(t, [IdleSession EXCEPT !.op = o, !.id = r, !.outcome = out])
    BY <1>5 DEF ReportCheck
  <2> QED BY <1>n, <2>1, <2>2 DEF ReportOps, Reads
<1>6. ASSUME NEW t, CreateWrite(t) \/ ApproveWrite(t) \/ CancelWrite(t) \/ FailWrite(t) \/ ExpireWrite(t) \/ HangUp(t)
      PROVE  SessionStep(s)
  BY <1>6, <1>c DEF CreateWrite, ApproveWrite, CancelWrite, FailWrite, ExpireWrite, HangUp, SessionStep
<1>7. ASSUME NEW t, UpdaterWrites(t)
      PROVE  SessionStep(s)
  BY <1>7, <1>a DEF UpdaterWrites, RefuseWrite, ClaimWrite, ReportWrite, SessionStep, Answers
<1>8. CASE Environment \/ UNCHANGED consoleVars
  BY <1>8 DEF Environment, LeaseRunsOut, ComesDue, UpdateSettings, UpdateUser, consoleVars, SessionStep
<1> QED
  BY <1>1, <1>2, <1>3, <1>4, <1>9, <1>5, <1>6, <1>7, <1>8 DEF Next, AdminNext, UpdaterNext, Expiry, ReportOps

-----------------------------------------------------------------------------
(* The lease.  A sweep that has read a silent row still describes it, unless *)
(* a report has moved last_report_at past what it read.                      *)
SweepsAreFresh ==
  \A s \in AllSessions : Doing(s, "expire") =>
    /\ sess[s].id \in Ids
    /\ Target(s).status \notin {"absent"} \cup Cancellable
    /\ sess[s].seen <= Target(s).report
    /\ Target(s).status \in InFlight /\ Target(s).report = sess[s].seen => Target(s).stale

(* A lease sweep holds the id of a request that was taken, and if no report   *)
(* came since its read then that request is still stale.                      *)
THEOREM SweepsStayFresh == Spec => []SweepsAreFresh
<1>1. Init => SweepsAreFresh
  BY DEF Init, SweepsAreFresh, Doing, IdleSession
<1>2. TypeOK /\ TypeOK' /\ SweepsAreFresh /\ [Next]_consoleVars => SweepsAreFresh'
  <2> SUFFICES ASSUME TypeOK, TypeOK', SweepsAreFresh, [Next]_consoleVars,
                      NEW s \in AllSessions, sess'[s].op = "expire"
               PROVE  /\ sess'[s].id \in Ids
                      /\ requests'[sess'[s].id].status \notin {"absent"} \cup Cancellable
                      /\ sess'[s].seen <= requests'[sess'[s].id].report
                      /\ requests'[sess'[s].id].status \in InFlight /\ requests'[sess'[s].id].report = sess'[s].seen
                           => requests'[sess'[s].id].stale
    BY DEF SweepsAreFresh, Doing, Target
  <2>1. CASE requests' = requests /\ ExpireOpens(s)
    BY <2>1 DEF ExpireOpens, LeaseRanOut, IdleSession, TypeOK, Row, InFlight, Cancellable
  <2>2. CASE sess'[s] = sess[s]
    <3> DEFINE r == sess[s].id  row == requests[r]
    <3>1. /\ r \in Ids /\ row.status \notin {"absent"} \cup Cancellable
          /\ sess[s].seen <= row.report
          /\ row.status \in InFlight /\ row.report = sess[s].seen => row.stale
      BY <2>2 DEF SweepsAreFresh, Doing, Target
    <3>2. row \in Row /\ sess[s].seen \in Nat
      BY <3>1 DEF TypeOK, Session
    <3>3. RowStep(r)
      BY <3>1, RowSteps
    <3>4. CASE requests'[r] = row
      BY <2>2, <3>1, <3>4
    <3>5. CASE Filed(r) \/ Approved(r) \/ Dropped(r) \/ Claimed(r)
      BY <3>1, <3>5 DEF Filed, Approved, Dropped, Claimed, Cancellable
    <3>6. CASE LeaseTaken(r) \/ MarkedFailed(r)
      <4>1. requests'[r].status = "failed" /\ requests'[r].report = row.report
        BY <3>2, <3>6 DEF LeaseTaken, MarkedFailed, Expired, Row
      <4> QED BY <2>2, <3>1, <4>1 DEF InFlight, Cancellable
    <3>7. CASE ReportApplied(r)
      <4>1. PICK t \in UpdaterSessions : sess[t].op \in ReportOps /\ requests'[r] = Reported(row, sess[t])
        BY <3>7 DEF ReportApplied
      <4>2. requests'[r].report = row.report + 1
        BY <3>2, <4>1 DEF Reported, Renewed, ReportOps, Row
      <4>3. requests'[r].status \notin {"absent"} \cup Cancellable
        <5>1. CASE sess[t].op = "step" \/ sess[t].op = "beat"
          BY <3>1, <3>2, <4>1, <5>1 DEF Reported, Renewed, Row, Cancellable
        <5>2. CASE sess[t].op = "outcome"
          <6>1. requests'[r].status = StatusForOutcome(sess[t].outcome)
            BY <3>2, <4>1, <5>2 DEF Reported, Renewed, Row
          <6> QED BY <6>1, OutcomesClose DEF Cancellable, Terminal
        <5> QED BY <4>1, <5>1, <5>2 DEF ReportOps
      <4>4. row.report \in Nat
        BY <3>2 DEF Row
      <4> QED BY <2>2, <3>1, <3>2, <4>2, <4>3, <4>4
    <3>8. CASE TimePassed(r)
      BY <2>2, <3>1, <3>2, <3>8 DEF TimePassed, Row, InFlight, Cancellable
    <3> QED BY <3>3, <3>4, <3>5, <3>6, <3>7, <3>8 DEF RowStep
  <2> QED BY <2>1, <2>2, SessionSteps DEF SessionStep, CreateOpens, ApproveOpens, ClaimOpens, IdleSession, Reads
<1> QED BY <1>1, <1>2, TypeCorrect, PTL DEF Spec

(* Only a closed request has an outcome. *)
OutcomesAreLast == \A r \in Ids : requests[r].status \notin Terminal => requests[r].outcome = "none"

(* No handler writes an outcome on a request it leaves open. *)
THEOREM OutcomesComeLast == Spec => []OutcomesAreLast
<1>1. Init => OutcomesAreLast
  BY DEF Init, OutcomesAreLast, AbsentRow
<1>2. TypeOK /\ OutcomesAreLast /\ [Next]_consoleVars => OutcomesAreLast'
  <2> SUFFICES ASSUME TypeOK, OutcomesAreLast, [Next]_consoleVars, NEW r \in Ids
               PROVE  requests'[r].status \notin Terminal => requests'[r].outcome = "none"
    BY DEF OutcomesAreLast
  <2> DEFINE row == requests[r]
  <2>1. row \in Row /\ (row.status \notin Terminal => row.outcome = "none")
    BY DEF TypeOK, OutcomesAreLast
  <2>2. CASE Filed(r)
    BY <2>2 DEF Filed, NewRow, NeedsSecond, AbsentRow
  <2>3. CASE Approved(r) \/ Claimed(r) \/ TimePassed(r)
    BY <2>1, <2>3 DEF Approved, Claimed, TimePassed, Renewed, Row, Terminal, InFlight, Cancellable
  <2>4. CASE Dropped(r) \/ LeaseTaken(r) \/ MarkedFailed(r)
    BY <2>1, <2>4 DEF Dropped, LeaseTaken, MarkedFailed, Expired, Row, Terminal
  <2>5. CASE ReportApplied(r)
    <3>1. PICK t \in UpdaterSessions : sess[t].op \in ReportOps /\ requests'[r] = Reported(row, sess[t])
      BY <2>5 DEF ReportApplied
    <3>2. row.outcome = "none"
      BY <2>1, <2>5 DEF ReportApplied, InFlight, Terminal
    <3>3. CASE sess[t].op = "step" \/ sess[t].op = "beat"
      BY <2>1, <3>1, <3>2, <3>3 DEF Reported, Renewed, Row
    <3>4. CASE sess[t].op = "outcome"
      <4>1. requests'[r].status = StatusForOutcome(sess[t].outcome)
        BY <2>1, <3>1, <3>4 DEF Reported, Renewed, Row
      <4> QED BY <4>1, OutcomesClose
    <3> QED BY <3>1, <3>3, <3>4 DEF ReportOps
  <2> QED BY <2>1, <2>2, <2>3, <2>4, <2>5, RowSteps DEF RowStep
<1> QED BY <1>1, <1>2, TypeCorrect, PTL DEF Spec

(* The lease closes a request only while its updater is silent: a report     *)
(* that lands between the sweep's read and its UPDATE always wins.           *)
THEOREM LeaseNeedsSilence == Spec => ExpiryNeedsSilence
<1>1. TypeOK /\ SweepsAreFresh /\ OutcomesAreLast /\ [Next]_consoleVars
        => [\A r \in Ids : requests'[r].outcome = "lease_expired" /\ requests[r].status \in InFlight
                             => requests[r].stale]_consoleVars
  <2> SUFFICES ASSUME TypeOK, SweepsAreFresh, OutcomesAreLast, [Next]_consoleVars,
                      NEW r \in Ids, requests'[r].outcome = "lease_expired", requests[r].status \in InFlight
               PROVE  requests[r].stale
    OBVIOUS
  <2> DEFINE row == requests[r]
  <2>1. row \in Row /\ row.outcome = "none"
    BY DEF TypeOK, OutcomesAreLast, InFlight, Terminal
  <2>2. ~ (requests'[r] = row \/ Filed(r) \/ Approved(r) \/ Dropped(r) \/ Claimed(r) \/ MarkedFailed(r) \/ TimePassed(r))
    BY <2>1 DEF Filed, Approved, Dropped, Claimed, MarkedFailed, TimePassed, InFlight, Cancellable, Row
  <2>3. ~ ReportApplied(r)
    <3> SUFFICES ASSUME NEW t \in UpdaterSessions, sess[t].op \in ReportOps,
                        requests'[r] = Reported(row, sess[t])
                 PROVE  FALSE
      BY DEF ReportApplied
    <3>1. sess[t].outcome # "lease_expired"
      BY WordsAreTheUpdaters DEF TypeOK, Session, AllSessions
    <3> QED BY <2>1, <3>1 DEF Reported, Renewed, Row, ReportOps
  <2>4. LeaseTaken(r)
    BY <2>2, <2>3, RowSteps DEF RowStep
  <2> QED BY <2>4 DEF LeaseTaken, SweepsAreFresh, Target
<1> QED BY <1>1, TypeCorrect, SweepsStayFresh, OutcomesComeLast, PTL DEF Spec, ExpiryNeedsSilence

-----------------------------------------------------------------------------
(* A row that was filed keeps its action, its requester and, but for an       *)
(* approval, its approver.                                                   *)
FiledRowKept(r) ==
  /\ requests'[r].status # "absent"
  /\ requests'[r].by = requests[r].by
  /\ requests'[r].action = requests[r].action
  /\ requests'[r].approver = requests[r].approver \/ Approved(r)

LEMMA FiledRowsKeep ==
  ASSUME TypeOK, [Next]_consoleVars, NEW r \in Ids, requests[r].status # "absent"
  PROVE  FiledRowKept(r)
<1> DEFINE row == requests[r]
<1>1. row \in Row
  BY DEF TypeOK
<1>2. CASE ReportApplied(r)
  <2>1. PICK t \in UpdaterSessions : sess[t].op \in ReportOps /\ requests'[r] = Reported(row, sess[t])
    BY <1>2 DEF ReportApplied
  <2>2. CASE sess[t].op # "outcome"
    BY <1>1, <2>1, <2>2 DEF Reported, Renewed, Row, ReportOps, FiledRowKept
  <2>3. CASE sess[t].op = "outcome"
    <3>1. /\ requests'[r].status = StatusForOutcome(sess[t].outcome)
          /\ requests'[r].by = row.by /\ requests'[r].action = row.action
          /\ requests'[r].approver = row.approver
      BY <1>1, <2>1, <2>3 DEF Reported, Renewed, Row
    <3> QED BY <3>1, OutcomesClose DEF Terminal, FiledRowKept
  <2> QED BY <2>2, <2>3
<1>3. CASE Approved(r) \/ Claimed(r) \/ TimePassed(r)
  BY <1>1, <1>3 DEF Approved, Claimed, TimePassed, Renewed, Row, FiledRowKept
<1>4. CASE Dropped(r) \/ LeaseTaken(r) \/ MarkedFailed(r)
  BY <1>1, <1>4 DEF Dropped, LeaseTaken, MarkedFailed, Expired, Row, FiledRowKept
<1> QED BY <1>2, <1>3, <1>4, RowSteps DEF RowStep, Filed, FiledRowKept

(* Two-person approval.  A handler that is about to create or approve has    *)
(* read the setting as on, and an approver is not the requester.             *)
HandlersKeepTheRule ==
  \A s \in AllSessions :
    /\ Doing(s, "create") => sess[s].two
    /\ Doing(s, "approve") => /\ sess[s].id \in Ids
                              /\ Target(s).status # "absent"
                              /\ Target(s).by # sess[s].user

TwoPersonInv == SecondPerson /\ HandlersKeepTheRule

(* While two-person approval is on, no upgrade or rollback gets past         *)
(* approval on the word of the admin who filed it.                           *)
THEOREM SecondPersonNeeded == Spec => TwoPersonHolds
<1>1. Init => TwoPersonInv
  BY DEF Init, TwoPersonInv, SecondPerson, HandlersKeepTheRule, Doing, IdleSession, AbsentRow
<1>2. TypeOK /\ twoPerson /\ TwoPersonInv /\ [Next]_consoleVars => TwoPersonInv'
  <2> SUFFICES ASSUME TypeOK, twoPerson, TwoPersonInv, [Next]_consoleVars
               PROVE  TwoPersonInv'
    OBVIOUS
  <2>1. \A r \in Ids : requests[r].status # "absent" => FiledRowKept(r)
    BY FiledRowsKeep
  <2>2. SecondPerson'
    <3> SUFFICES ASSUME NEW r \in Ids, requests'[r].approver # NoUser, requests'[r].action # "restart"
                 PROVE  requests'[r].approver # requests'[r].by
      BY DEF SecondPerson
    <3>1. CASE Approved(r)
      <4>1. PICK s \in AdminSessions :
              /\ Doing(s, "approve") /\ sess[s].id = r
              /\ requests'[r] = [requests[r] EXCEPT !.status = "approved", !.approver = sess[s].user]
        BY <3>1 DEF Approved
      <4>2. requests[r].by # sess[s].user
        BY <4>1 DEF TwoPersonInv, HandlersKeepTheRule, AllSessions, Target
      <4> QED BY <4>1, <4>2 DEF TypeOK, Row
    <3>2. CASE Filed(r)
      <4>1. PICK s \in AdminSessions : Doing(s, "create") /\ requests'[r] = NewRow(sess[s])
        BY <3>2 DEF Filed
      <4>2. sess[s].two
        BY <4>1 DEF TwoPersonInv, HandlersKeepTheRule, AllSessions
      <4> QED BY <4>1, <4>2 DEF NewRow, NeedsSecond, AbsentRow
    <3>3. CASE requests[r].status # "absent" /\ ~ Approved(r)
      BY <2>1, <3>3 DEF TwoPersonInv, SecondPerson, FiledRowKept
    <3>4. CASE requests[r].status = "absent" /\ requests'[r] = requests[r]
      BY <3>4 DEF TwoPersonInv, SecondPerson
    <3>5. requests[r].status = "absent" => requests'[r] = requests[r] \/ Filed(r)
      BY RowSteps DEF RowStep, Approved, Dropped, Claimed, LeaseTaken, MarkedFailed, ReportApplied,
                      TimePassed, InFlight, Cancellable
    <3> QED BY <3>1, <3>2, <3>3, <3>4, <3>5
  <2>3. HandlersKeepTheRule'
    <3> SUFFICES ASSUME NEW s \in AllSessions
                 PROVE  /\ sess'[s].op = "create" => sess'[s].two
                        /\ sess'[s].op = "approve" =>
                             /\ sess'[s].id \in Ids
                             /\ requests'[sess'[s].id].status # "absent"
                             /\ requests'[sess'[s].id].by # sess'[s].user
      BY DEF HandlersKeepTheRule, Doing, Target
    <3>1. CASE sess'[s] = sess[s]
      BY <2>1, <3>1 DEF TwoPersonInv, HandlersKeepTheRule, Doing, Target, FiledRowKept
    <3>2. CASE requests' = requests /\ (CreateOpens(s) \/ ExpireOpens(s) \/ ClaimOpens(s))
      BY <3>2 DEF CreateOpens, ExpireOpens, ClaimOpens, IdleSession
    <3>3. CASE requests' = requests /\ ApproveOpens(s)
      BY <3>3 DEF ApproveOpens, ApprovalBlock, IdleSession
    <3> QED BY <3>1, <3>2, <3>3, SessionSteps DEF SessionStep, Reads
  <2> QED BY <2>2, <2>3 DEF TwoPersonInv
<1>3. TwoPersonInv => SecondPerson
  BY DEF TwoPersonInv
<1> QED BY <1>1, <1>2, <1>3, TypeCorrect, PTL DEF Spec, TwoPersonHolds

-----------------------------------------------------------------------------
(* The lifecycle.  A step touches one row at most, and each thing it can do  *)
(* to that row is one move of the abstract request or none.                  *)
LEMMA OneRowAtATime ==
  ASSUME TypeOK, [Next]_consoleVars
  PROVE  requests' = requests \/ \E r \in Ids : \A q \in Ids : q # r => requests'[q] = requests[q]
<1> DEFINE Goal == requests' = requests \/ \E r \in Ids : \A q \in Ids : q # r => requests'[q] = requests[q]
<1>u. \A r, row : Update(r, row) => Goal
  <2> SUFFICES ASSUME NEW r, NEW row, Update(r, row) PROVE Goal
    OBVIOUS
  <2>1. CASE r \in Ids
    BY <2>1 DEF TypeOK, Update
  <2>2. CASE r \notin Ids
    BY <2>2 DEF TypeOK, Update
  <2> QED BY <2>1, <2>2
<1> HIDE DEF Goal
<1>n. requests' = requests => Goal
  BY DEF Goal
<1>1. ASSUME NEW s, CreateWrite(s) \/ ApproveWrite(s) \/ CancelWrite(s) \/ FailWrite(s) \/ ExpireWrite(s) \/ UpdaterWrites(s)
      PROVE  Goal
  <2>1. CASE CreateWrite(s)
    BY <2>1, <1>u, <1>n DEF CreateWrite
  <2>2. CASE ApproveWrite(s) \/ CancelWrite(s) \/ FailWrite(s) \/ ExpireWrite(s)
    BY <2>2, <1>u, <1>n DEF ApproveWrite, CancelWrite, FailWrite, ExpireWrite
  <2>3. CASE UpdaterWrites(s)
    BY <2>3, <1>u, <1>n DEF UpdaterWrites, RefuseWrite, ClaimWrite, ReportWrite
  <2> QED BY <1>1, <2>1, <2>2, <2>3
<1>2. ASSUME NEW s, NEW op, NEW r, NEW out, ReportCheck(s, op, r, out)
      PROVE  Goal
  <2>1. requests' = requests \/ Update(r, Expired(requests[r]))
    BY <1>2 DEF ReportCheck
  <2> QED BY <2>1, <1>u, <1>n
<1>3. ASSUME Environment
      PROVE  Goal
  BY <1>3, <1>u, <1>n DEF Environment, LeaseRunsOut, ComesDue, UpdateSettings, UpdateUser
<1>4. CASE UNCHANGED requests
  BY <1>4, <1>n
<1> QED
  BY <1>1, <1>2, <1>3, <1>4 DEF Goal, Next, AdminNext, UpdaterNext, Expiry, consoleVars, HangUp, CreateCheck,
     ApproveCheck, CancelCheck, FailCheck, ExpireCheck, RefuseCheck, ClaimCheck

(* The phase each status stands for. *)
LEMMA Phases ==
  ASSUME NEW row
  PROVE  /\ row.status = "absent" => Phase(row) = "absent"
         /\ row.status = "pending_approval" => Phase(row) = "waiting"
         /\ row.status = "approved" => Phase(row) = "ready"
         /\ row.status \in InFlight => Phase(row) = "taken"
         /\ row.status = "cancelled" => Phase(row) = "dropped"
         /\ row.status = "refused" /\ row.outcome = "actor_not_admin" => Phase(row) = "dropped"
         /\ row.status \in Terminal \ {"cancelled"} /\ row.outcome # "actor_not_admin"
              => Phase(row) = "finished"
<1>1. row.status = "absent" => Phase(row) = "absent"
  BY DEF Phase, InFlight
<1>2. row.status = "pending_approval" => Phase(row) = "waiting"
  BY DEF Phase, InFlight
<1>3. row.status = "approved" => Phase(row) = "ready"
  BY DEF Phase, InFlight
<1>4. row.status \in InFlight => Phase(row) = "taken"
  BY DEF Phase, InFlight
<1>5. row.status = "cancelled" => Phase(row) = "dropped"
  BY DEF Phase, InFlight
<1>6. row.status = "refused" /\ row.outcome = "actor_not_admin" => Phase(row) = "dropped"
  BY DEF Phase, InFlight
<1>7. row.status \in Terminal \ {"cancelled"} /\ row.outcome # "actor_not_admin" => Phase(row) = "finished"
  BY DEF Phase, InFlight, Terminal
<1> QED BY <1>1, <1>2, <1>3, <1>4, <1>5, <1>6, <1>7

(* A verdict is there exactly when the request is finished. *)
LEMMA VerdictsOf ==
  ASSUME NEW row
  PROVE  /\ Phase(row) # "finished" => Verdict(row) = "none"
         /\ Phase(row) = "finished" => Verdict(row) \in {"success", "failure"}
  BY DEF Verdict

(* One row's step is a move of its abstract request. *)
LEMMA RowStepMoves ==
  ASSUME TypeOK, OutcomesAreLast, [Next]_consoleVars, NEW r \in Ids
  PROVE  LET p == Phase(requests[r])  v == Verdict(requests[r])
             p1 == Phase(requests'[r])  v1 == Verdict(requests'[r])
         IN  \/ p1 = p /\ v1 = v
             \/ p = "absent" /\ p1 \in {"waiting", "ready"} /\ v1 = v
             \/ p = "waiting" /\ p1 = "ready" /\ v1 = v
             \/ p \in {"waiting", "ready"} /\ p1 = "dropped" /\ v1 = v
             \/ p = "ready" /\ p1 = "taken" /\ v1 = v
             \/ p = "taken" /\ p1 = "finished" /\ v1 \in {"success", "failure"}
<1> DEFINE row == requests[r]  row1 == requests'[r]
<1>1. row \in Row /\ (row.status \notin Terminal => row.outcome = "none")
  BY DEF TypeOK, OutcomesAreLast
<1>2. CASE row1 = row
  BY <1>2
<1>3. CASE Filed(r)
  <2>1. row1.status \in {"pending_approval", "approved"}
    BY <1>3 DEF Filed, NewRow, AbsentRow
  <2> QED BY <1>3, <2>1, Phases, VerdictsOf DEF Filed
<1>4. CASE Approved(r)
  <2>1. row1.status = "approved"
    BY <1>1, <1>4 DEF Approved, Row
  <2> QED BY <1>4, <2>1, Phases, VerdictsOf DEF Approved
<1>5. CASE Dropped(r)
  <2>1. row1.status = "cancelled" \/ (row1.status = "refused" /\ row1.outcome = "actor_not_admin")
    BY <1>1, <1>5 DEF Dropped, Row
  <2>2. row.status \in {"pending_approval", "approved"}
    BY <1>5 DEF Dropped, Cancellable
  <2>3. Phase(row1) = "dropped" /\ Phase(row) \in {"waiting", "ready"}
    BY <2>1, <2>2, Phases
  <2> QED BY <2>3, VerdictsOf
<1>6. CASE Claimed(r)
  <2>1. row1.status = "claimed"
    BY <1>1, <1>6 DEF Claimed, Renewed, Row
  <2> QED BY <1>6, <2>1, Phases, VerdictsOf DEF Claimed, InFlight
<1>7. ASSUME row.status \in InFlight, row1.status \in Terminal \ {"cancelled"}, row1.outcome # "actor_not_admin"
      PROVE  Phase(row) = "taken" /\ Phase(row1) = "finished" /\ Verdict(row1) \in {"success", "failure"}
  BY <1>7, Phases, VerdictsOf
<1>8. CASE LeaseTaken(r) \/ MarkedFailed(r)
  <2>1. row1.status = "failed" /\ row1.outcome # "actor_not_admin"
    BY <1>1, <1>8 DEF LeaseTaken, MarkedFailed, Expired, Row
  <2> QED BY <1>7, <1>8, <2>1 DEF LeaseTaken, MarkedFailed, Terminal
<1>9. CASE ReportApplied(r)
  <2>1. PICK t \in UpdaterSessions : sess[t].op \in ReportOps /\ row1 = Reported(row, sess[t])
    BY <1>9 DEF ReportApplied
  <2>2. CASE sess[t].op # "outcome"
    <3>1. row1.status \in InFlight
      BY <1>1, <1>9, <2>1, <2>2 DEF ReportApplied, Reported, Renewed, Row, ReportOps, InFlight
    <3> QED BY <1>9, <3>1, Phases, VerdictsOf DEF ReportApplied
  <2>3. CASE sess[t].op = "outcome"
    <3>1. row1.status = StatusForOutcome(sess[t].outcome) /\ row1.outcome = sess[t].outcome
      BY <1>1, <2>1, <2>3 DEF Reported, Renewed, Row
    <3>2. sess[t].outcome # "actor_not_admin"
      BY WordsAreTheUpdaters DEF TypeOK, Session, AllSessions
    <3>3. row1.status # "cancelled"
      BY <3>1 DEF StatusForOutcome
    <3> QED BY <1>7, <1>9, <3>1, <3>2, <3>3, OutcomesClose DEF ReportApplied
  <2> QED BY <2>2, <2>3
<1>10. CASE TimePassed(r)
  <2>1. row1.status = row.status
    BY <1>1, <1>10 DEF TimePassed, Row
  <2>2. row.status \in {"pending_approval", "approved"} \cup InFlight
    BY <1>10 DEF TimePassed, Cancellable
  <2> QED BY <2>1, <2>2, Phases, VerdictsOf
<1> QED BY <1>2, <1>3, <1>4, <1>5, <1>6, <1>8, <1>9, <1>10, <1>7, RowSteps DEF RowStep

(* The console keeps the promise of RequestLifecycle: one claim, from ready  *)
(* only, nothing after a drop, one verdict.                                  *)
THEOREM LifecycleKept == Spec => KeepsLifecycle
<1> DEFINE phase == [r \in Ids |-> Phase(requests[r])]
           verdict == [r \in Ids |-> Verdict(requests[r])]
<1>1. Init => Lifecycle!Init
  <2> SUFFICES ASSUME Init, NEW r \in Ids
               PROVE  Phase(requests[r]) = "absent" /\ Verdict(requests[r]) = "none"
    BY DEF Lifecycle!Init
  <2>1. requests[r].status = "absent"
    BY DEF Init, AbsentRow
  <2> QED BY <2>1, Phases, VerdictsOf
<1>2. TypeOK /\ OutcomesAreLast /\ [Next]_consoleVars => [Lifecycle!Next]_(Lifecycle!vars)
  <2> SUFFICES ASSUME TypeOK, OutcomesAreLast, [Next]_consoleVars
               PROVE  Lifecycle!Next \/ UNCHANGED <<phase, verdict>>
    BY DEF Lifecycle!vars
  <2>1. CASE requests' = requests
    BY <2>1
  <2>2. ASSUME NEW r \in Ids, \A q \in Ids : q # r => requests'[q] = requests[q]
        PROVE  Lifecycle!Next \/ UNCHANGED <<phase, verdict>>
    <3> DEFINE p1 == Phase(requests'[r])  v1 == Verdict(requests'[r])
    <3>1. phase' = [phase EXCEPT ![r] = p1] /\ verdict' = [verdict EXCEPT ![r] = v1]
      BY <2>2
    <3>2. phase[r] = Phase(requests[r]) /\ verdict[r] = Verdict(requests[r])
      OBVIOUS
    <3>3. verdict[r] = v1 => verdict' = verdict
      BY <3>1
    <3>4. ASSUME NEW from, NEW to, phase[r] \in from, p1 = to
          PROVE  Lifecycle!Move(r, from, to)
      BY <3>1, <3>4 DEF Lifecycle!Move
    <3>5. CASE p1 = phase[r] /\ v1 = verdict[r]
      BY <3>1, <3>5
    <3>6. CASE phase[r] = "absent" /\ p1 \in {"waiting", "ready"} /\ v1 = verdict[r]
      BY <3>3, <3>4, <3>6 DEF Lifecycle!Next, Lifecycle!File
    <3>7. CASE phase[r] = "waiting" /\ p1 = "ready" /\ v1 = verdict[r]
      BY <3>3, <3>4, <3>7 DEF Lifecycle!Next, Lifecycle!Approve
    <3>8. CASE phase[r] \in {"waiting", "ready"} /\ p1 = "dropped" /\ v1 = verdict[r]
      BY <3>3, <3>4, <3>8 DEF Lifecycle!Next, Lifecycle!Drop
    <3>9. CASE phase[r] = "ready" /\ p1 = "taken" /\ v1 = verdict[r]
      BY <3>3, <3>4, <3>9 DEF Lifecycle!Next, Lifecycle!Take
    <3>10. CASE phase[r] = "taken" /\ p1 = "finished" /\ v1 \in {"success", "failure"}
      <4>1. Lifecycle!Move(r, {"taken"}, "finished")
        BY <3>4, <3>10
      <4>2. v1 \in Lifecycle!Verdicts
        BY <3>10 DEF Lifecycle!Verdicts
      <4>3. \E v \in Lifecycle!Verdicts : verdict' = [verdict EXCEPT ![r] = v]
        BY <3>1, <4>2
      <4>4. Lifecycle!Finish(r)
        BY <4>1, <4>3 DEF Lifecycle!Finish
      <4> QED BY <4>4 DEF Lifecycle!Next
    <3> QED BY <3>2, <3>5, <3>6, <3>7, <3>8, <3>9, <3>10, RowStepMoves
  <2> QED BY <2>1, <2>2, OneRowAtATime
<1> QED BY <1>1, <1>2, TypeCorrect, OutcomesComeLast, PTL DEF Spec, KeepsLifecycle, Lifecycle!Spec
-----------------------------------------------------------------------------
(* Demotion.  An approved request can leave KeptOut only through a claim,     *)
(* and a claim is opened only on a row whose actors are admins.              *)
(* A request whose requester or approver was demoted before a claim passed    *)
(* its check is not started while they stay demoted.                         *)
THEOREM DemotedKeptOut == Spec => DemotedNeverStarts
<1>1. TypeOK /\ [Next]_consoleVars
        => [\A r \in Ids : KeptOut(r) /\ ActorGone(requests[r])'
              => KeptOut(r)' \/ requests'[r].status \in {"refused", "cancelled"}]_consoleVars
  <2> SUFFICES ASSUME TypeOK, [Next]_consoleVars, NEW r \in Ids, KeptOut(r), ActorGone(requests[r])'
               PROVE  KeptOut(r)' \/ requests'[r].status \in {"refused", "cancelled"}
    OBVIOUS
  <2>1. requests[r] \in Row /\ requests[r].status = "approved"
    BY DEF TypeOK, KeptOut
  <2>2. ~ (Filed(r) \/ Approved(r) \/ Claimed(r) \/ LeaseTaken(r) \/ MarkedFailed(r) \/ ReportApplied(r))
    BY <2>1 DEF KeptOut, Filed, Approved, Claimed, LeaseTaken, MarkedFailed, ReportApplied, InFlight
  <2>3. requests'[r].status \in {"approved", "refused", "cancelled"}
    BY <2>1, <2>2, RowSteps DEF RowStep, Dropped, TimePassed, Row
  <2>4. ASSUME NEW s \in UpdaterSessions, sess'[s].op = "claim", sess'[s].id = r
        PROVE  FALSE
    <3>1. s \in AllSessions
      BY DEF AllSessions
    <3>2. CASE sess'[s] = sess[s]
      BY <2>4, <3>2 DEF KeptOut, Doing
    <3>3. CASE ClaimOpens(s)
      BY <2>1, <2>4, <3>3 DEF KeptOut, ClaimOpens
    <3> QED BY <2>4, <3>1, <3>2, <3>3, SessionSteps
            DEF SessionStep, CreateOpens, ApproveOpens, ExpireOpens, IdleSession, Reads
  <2> QED BY <2>3, <2>4 DEF KeptOut, Doing
<1> QED BY <1>1, TypeCorrect, PTL DEF Spec, DemotedNeverStarts

-----------------------------------------------------------------------------
(* One change at a time, for creates that do not overlap.  A create that is   *)
(* about to insert still clashes with nothing open: requests that were there *)
(* when it looked only move on.                                              *)
CreatesStayApart ==
  \A s \in AdminSessions : Doing(s, "create") =>
    \A r \in Ids : requests[r].status \in Active => (requests[r].action = "restart") # (sess[s].action = "restart")

OneChangeInv == OneChangeAtATime /\ CreatesStayApart

(* A row that is open after a step was open before it, or was just filed.     *)
LEMMA OpenRowsWereOpen ==
  ASSUME TypeOK, [Next]_consoleVars, NEW r \in Ids, requests'[r].status \in Active, ~ Filed(r)
  PROVE  requests[r].status \in Active /\ requests'[r].action = requests[r].action
<1>1. requests[r] \in Row
  BY DEF TypeOK
<1>2. requests[r].status \in Active
  BY <1>1, RowSteps DEF RowStep, Approved, Claimed, TimePassed, Dropped, LeaseTaken, MarkedFailed,
                        ReportApplied, Expired, Row, Active, Cancellable, InFlight
<1> QED BY <1>2, FiledRowsKeep DEF FiledRowKept, Active, Cancellable, InFlight

(* Two open requests are always a restart and something else, when one admin  *)
(* handler at a time creates: no other handler, no updater and no lease can   *)
(* bring a second change in.                                                 *)
THEOREM OneAtATime ==
  ASSUME \A s, t \in AdminSessions : s = t
  PROVE  Spec => []OneChangeAtATime
<1>1. Init => OneChangeInv
  BY DEF Init, OneChangeInv, OneChangeAtATime, CreatesStayApart, AbsentRow, IdleSession, Doing,
         Active, Cancellable, InFlight
<1>2. TypeOK /\ OneChangeInv /\ [Next]_consoleVars => OneChangeInv'
  <2> SUFFICES ASSUME TypeOK, OneChangeInv, [Next]_consoleVars
               PROVE  OneChangeInv'
    OBVIOUS
  <2>1. ASSUME NEW r \in Ids, NEW q \in Ids, r # q, Filed(r), requests'[q].status \in Active
        PROVE  (requests'[r].action = "restart") # (requests'[q].action = "restart")
    <3>1. PICK s \in AdminSessions : Doing(s, "create") /\ requests'[r] = NewRow(sess[s])
      BY <2>1 DEF Filed
    <3>2. requests'[r].action = sess[s].action
      BY <3>1 DEF NewRow, AbsentRow
    <3>3. requests'[q] = requests[q]
      <4>1. requests'[r] # requests[r]
        BY <2>1, <3>1 DEF Filed, NewRow, AbsentRow
      <4> QED BY <2>1, <4>1, OneRowAtATime
    <3> QED BY <2>1, <3>1, <3>2, <3>3 DEF OneChangeInv, CreatesStayApart
  <2>2. OneChangeAtATime'
    <3> SUFFICES ASSUME NEW r \in Ids, NEW q \in Ids, r # q,
                        requests'[r].status \in Active, requests'[q].status \in Active
                 PROVE  (requests'[r].action = "restart") # (requests'[q].action = "restart")
      BY DEF OneChangeAtATime
    <3>1. CASE Filed(r) \/ Filed(q)
      BY <2>1, <3>1
    <3>2. CASE ~ Filed(r) /\ ~ Filed(q)
      BY <3>2, OpenRowsWereOpen DEF OneChangeInv, OneChangeAtATime
    <3> QED BY <3>1, <3>2
  <2>3. CreatesStayApart'
    <3> SUFFICES ASSUME NEW s \in AdminSessions, sess'[s].op = "create",
                        NEW r \in Ids, requests'[r].status \in Active
                 PROVE  (requests'[r].action = "restart") # (sess'[s].action = "restart")
      BY DEF CreatesStayApart, Doing
    <3>1. s \in AllSessions
      BY DEF AllSessions
    <3>2. CASE sess'[s] = sess[s]
      <4>1. ~ Filed(r)
        BY DEF Filed, IdleSession
      <4> QED BY <3>2, <4>1, OpenRowsWereOpen DEF OneChangeInv, CreatesStayApart, Doing
    <3>3. CASE requests' = requests /\ CreateOpens(s)
      BY <3>3 DEF CreateOpens, Clashes, Active
    <3> QED BY <3>1, <3>2, <3>3, SessionSteps
            DEF SessionStep, ApproveOpens, ExpireOpens, ClaimOpens, IdleSession, Reads
  <2> QED BY <2>2, <2>3 DEF OneChangeInv
<1> QED BY <1>1, <1>2, TypeCorrect, PTL DEF Spec, OneChangeInv
=============================================================================
