------------------------ MODULE UpdaterChannelProofs ------------------------
(***************************************************************************)
(* Theorems about poll passes and the console they talk to, for every       *)
(* number of passes, handlers, accounts and requests, and of lost calls.    *)
(***************************************************************************)
EXTENDS UpdaterChannel, UpgradeRequestsProofs

(* What a client's own fields say of each other.                             *)
Shape(c) ==
  /\ c \in Client
  /\ c.pc \notin {"idle", "next"} => c.id \in Ids
  /\ c.pc \in {"report", "closing"} => c.word # "none"
  /\ c.pc = "claim" => c.kind = "claim"
  /\ c.kind = "claim" => c.pc = "claim"
  /\ c.kind = "none" => c.call = NoSession
  /\ c.call = NoSession => c.kind = "none"
  /\ c.kind \in {"step", "beat"} => c.pc \in {"check", "run", "report", "closing"}
  /\ c.kind = "outcome" => c.pc = "report" /\ c.tries > 0 /\ (c.lost => c.tries # Retries)

ClientsInv ==
  /\ ChannelTypeOK
  /\ \A p \in Pollers : Shape(client[p])
  /\ twoPerson \in BOOLEAN

LEMMA IdleShape == Shape(IdleClient)
  BY RetriesPositive DEF Shape, IdleClient, Client

(* One client moves at a time. *)
LEMMA OneClientMoves ==
  ASSUME ClientsInv, NEW p \in Pollers, NEW c, Become(p, c)
  PROVE  client'[p] = c /\ \A q \in Pollers : q # p => client'[q] = client[q]
  BY DEF ClientsInv, ChannelTypeOK, Become

(* An answer is taken in one of four ways. *)
LEMMA AnswersTaken ==
  ASSUME ClientsInv, NEW p \in Pollers, Receive(p)
  PROVE  LET answer == sess[client[p].call].op
             heard  == [client[p] EXCEPT !.call = NoSession, !.kind = "none"]
         IN  /\ ~ Free(p) /\ HangUp(client[p].call) /\ answer \in Answers
             /\ \/ client[p].kind = "claim" /\ answer = "ok" /\ Become(p, [heard EXCEPT !.pc = "start"])
                \/ client[p].kind = "claim" /\ Leave(p)
                \/ \E b \in BOOLEAN :
                     /\ answer = "conflict" \/ client[p].lost => b
                     /\ \/ client[p].kind \in {"step", "beat"} /\ Become(p, [heard EXCEPT !.lost = b])
                        \/ /\ client[p].kind = "outcome"
                           /\ Become(p, [heard EXCEPT !.lost = b, !.pc = "closing"])
<1> DEFINE answer == sess[client[p].call].op
           heard == [client[p] EXCEPT !.call = NoSession, !.kind = "none"]
<1>1. ~ Free(p) /\ HangUp(client[p].call) /\ answer \in Answers
  BY DEF Receive, HangUp
<1>2. client[p].kind \in {"claim", "step", "beat", "outcome"}
  BY <1>1 DEF ClientsInv, Shape, Client, Free, ReportOps
<1>3. CASE client[p].kind = "claim"
  <2>1. IF ClaimWon(answer) THEN Become(p, [heard EXCEPT !.pc = "start"]) ELSE Leave(p)
    BY <1>3 DEF Receive
  <2> QED BY <1>1, <1>3, <2>1 DEF ClaimWon
<1>4. LostAfter(p, answer) \in BOOLEAN
  BY DEF LostAfter
<1>5. PICK b \in BOOLEAN : b = LostAfter(p, answer)
  BY <1>4, Zenon
<1>6. answer = "conflict" \/ client[p].lost => b
  BY <1>5, Zenon DEF LostAfter
<1>7. CASE client[p].kind \in {"step", "beat"}
  <2>1. Become(p, [heard EXCEPT !.lost = LostAfter(p, answer)])
    BY <1>7 DEF Receive
  <2>2. Become(p, [heard EXCEPT !.lost = b])
    BY <1>5, <2>1, Zenon
  <2> QED BY <1>1, <1>6, <1>7, <2>2
<1>8. CASE client[p].kind = "outcome"
  <2>1. Become(p, [heard EXCEPT !.lost = LostAfter(p, answer), !.pc = "closing"])
    BY <1>8 DEF Receive
  <2>2. Become(p, [heard EXCEPT !.lost = b, !.pc = "closing"])
    BY <1>5, <2>1, Zenon
  <2> QED BY <1>1, <1>6, <1>8, <2>2
<1> QED BY <1>2, <1>3, <1>7, <1>8

(* A client's record after each of its own moves keeps its shape.            *)
LEMMA LeftShape ==
  ASSUME ClientsInv, NEW p \in Pollers
  PROVE  Shape([IdleClient EXCEPT !.pc = "next", !.todo = client[p].todo, !.strict = client[p].strict])
  BY IdleShape DEF ClientsInv, Shape, IdleClient, Client

-----------------------------------------------------------------------------
(* Every step of a pass and of the console keeps the clients' shape.          *)
LEMMA ClientsStep ==
  ASSUME ClientsInv, [ChannelNext]_channelVars
  PROVE  ClientsInv'
<1> USE RetriesPositive
<1>m. ASSUME NEW p \in Pollers, NEW c, Shape(c), Become(p, c), twoPerson' \in BOOLEAN,
             started' \in [Ids -> Nat], result' \in [Ids -> {"none"} \cup RunOutcomes]
      PROVE  ClientsInv'
  <2>1. client'[p] = c /\ \A q \in Pollers : q # p => client'[q] = client[q]
    BY <1>m, OneClientMoves
  <2>2. client' \in [Pollers -> Client]
    BY <1>m DEF Become, ClientsInv, ChannelTypeOK, Shape
  <2>3. \A q \in Pollers : Shape(client'[q])
    BY <1>m, <2>1 DEF ClientsInv
  <2> QED BY <1>m, <2>2, <2>3 DEF ClientsInv, ChannelTypeOK
<1>h. UNCHANGED History => started' \in [Ids -> Nat] /\ result' \in [Ids -> {"none"} \cup RunOutcomes]
  BY DEF History, ClientsInv, ChannelTypeOK
<1>c. UNCHANGED consoleVars => twoPerson' \in BOOLEAN
  BY DEF consoleVars, ClientsInv
<1>s. UNCHANGED Settings => twoPerson' \in BOOLEAN
  BY DEF Settings, ClientsInv
<1>p. \A p \in Pollers : client[p] \in Client /\ Shape(client[p])
  BY DEF ClientsInv, Shape
<1>r. ASSUME NEW p \in Pollers, client[p].id \in Ids, NEW word \in RunOutcomes, client[p].pc \in {"start", "check", "run"},
             client[p].kind # "outcome", client[p].kind # "claim", Ended(p, word), UNCHANGED consoleVars, UNCHANGED started
      PROVE  ClientsInv'
  <2>1. Shape([client[p] EXCEPT !.pc = "report", !.word = word])
    BY <1>p, <1>r, WordsAreTheUpdaters DEF Shape, Client
  <2>2. result' \in [Ids -> {"none"} \cup RunOutcomes] /\ started' \in [Ids -> Nat]
    BY <1>r DEF Ended, ClientsInv, ChannelTypeOK
  <2> QED BY <1>m, <1>c, <1>r, <2>1, <2>2 DEF Ended
<1>1. ASSUME NEW p \in Pollers, Poll(p) PROVE ClientsInv'
  <2>1. Shape([IdleClient EXCEPT !.pc = "next", !.todo = {r \in Ids : Listed(r)}, !.strict = twoPerson])
    BY IdleShape DEF ClientsInv, Shape, IdleClient, Client
  <2> QED BY <1>1, <1>m, <1>h, <1>c, <2>1 DEF Poll
<1>2. ASSUME NEW p \in Pollers, EndPass(p) \/ Die(p) PROVE ClientsInv'
  BY <1>2, <1>m, <1>h, <1>c, IdleShape DEF EndPass, Die
<1>3. ASSUME NEW p \in Pollers, NEW s \in UpdaterSessions, Claim(p, s) PROVE ClientsInv'
  <2>1. PICK r \in Ids : ClaimCheck(s, r) /\ Become(p, [client[p] EXCEPT !.pc = "claim", !.todo = @ \ {r}, !.id = r,
                                         !.call = s, !.kind = "claim"])
    BY <1>3 DEF Claim
  <2>2. Shape([client[p] EXCEPT !.pc = "claim", !.todo = @ \ {r}, !.id = r, !.call = s, !.kind = "claim"])
    BY <1>p, NoSessionIsNone DEF Shape, Client, AllSessions
  <2> QED BY <1>3, <1>m, <1>h, <1>s, <2>1, <2>2 DEF Claim, ClaimCheck
<1>4. ASSUME NEW p \in Pollers, Start(p) PROVE ClientsInv'
  <2>1. client[p].pc = "start" /\ client[p].id \in Ids /\ client[p].kind \notin {"outcome", "claim", "step", "beat"}
    BY <1>4, <1>p DEF Start, At, Shape
  <2>2. CASE Ended(p, "locked")
    BY <1>4, <1>r, <2>1, <2>2, EngineWords DEF Start
  <2>3. CASE Proceed(p, "check") /\ UNCHANGED result
    <3>1. Shape([client[p] EXCEPT !.pc = "check"])
      BY <1>p, <2>1 DEF Shape, Client
    <3> QED BY <1>4, <1>m, <1>h, <1>c, <2>3, <3>1 DEF Start, Proceed, History
  <2> QED BY <1>4, <2>2, <2>3 DEF Start
<1>5. ASSUME NEW p \in Pollers, NothingToDo(p) \/ EndRun(p) PROVE ClientsInv'
  <2>1. client[p].pc \in {"check", "run"} /\ client[p].id \in Ids /\ client[p].kind \notin {"outcome", "claim"}
    BY <1>5, <1>p DEF NothingToDo, EndRun, Working, At, Shape
  <2>2. PICK word \in RunOutcomes : Ended(p, word)
    BY <1>5 DEF NothingToDo, EndRun
  <2> QED BY <1>5, <1>r, <2>1, <2>2 DEF NothingToDo, EndRun
<1>6. ASSUME NEW p \in Pollers, Approve(p) PROVE ClientsInv'
  <2>1. client[p].pc = "check" /\ client[p].id \in Ids /\ client[p].kind \notin {"outcome", "claim"}
    BY <1>6, <1>p DEF Approve, Working, At, Shape
  <2>2. CASE Ended(p, "not_confirmed") /\ UNCHANGED started
    BY <1>6, <1>r, <2>1, <2>2, EngineWords DEF Approve
  <2>3. CASE Proceed(p, "run") /\ started' = [started EXCEPT ![client[p].id] = @ + 1] /\ UNCHANGED result
    <3>1. Shape([client[p] EXCEPT !.pc = "run"])
      BY <1>p, <2>1 DEF Shape, Client
    <3>2. started' \in [Ids -> Nat] /\ result' \in [Ids -> {"none"} \cup RunOutcomes]
      BY <2>1, <2>3 DEF ClientsInv, ChannelTypeOK
    <3> QED BY <1>6, <1>m, <1>c, <2>3, <3>1, <3>2 DEF Approve, Proceed
  <2> QED BY <1>6, <2>2, <2>3 DEF Approve
<1>7. ASSUME NEW p \in Pollers, NEW s \in UpdaterSessions, PostStep(p, s) \/ Beat(p, s) PROVE ClientsInv'
  <2>1. PICK op \in {"step", "beat"} : CallOut(p, s, op, "none")
    BY <1>7 DEF PostStep, Beat
  <2>2. client[p].pc \in {"check", "run", "report", "closing"}
    BY <1>7 DEF PostStep, Beat
  <2>3. Shape([client[p] EXCEPT !.call = s, !.kind = op])
    BY <1>p, <2>2, NoSessionIsNone DEF Shape, Client, AllSessions, ReportOps
  <2> QED BY <1>m, <1>h, <1>s, <2>1, <2>3 DEF CallOut, ReportCheck
<1>8. ASSUME NEW p \in Pollers, NEW s \in UpdaterSessions, PostOutcome(p, s) PROVE ClientsInv'
  <2>1. Shape([client[p] EXCEPT !.call = s, !.kind = "outcome"])
    BY <1>8, <1>p, NoSessionIsNone DEF PostOutcome, At, Silenced, Shape, Client, AllSessions, ReportOps
  <2> QED BY <1>8, <1>m, <1>h, <1>s, <2>1 DEF PostOutcome, CallOut, ReportCheck
<1>9. ASSUME NEW p \in Pollers, StopPosting(p) PROVE ClientsInv'
  <2>1. Shape([client[p] EXCEPT !.pc = "closing"])
    BY <1>9, <1>p DEF StopPosting, At, Silenced, Shape, Client
  <2> QED BY <1>9, <1>m, <1>h, <1>c, <2>1 DEF StopPosting, Proceed
<1>10. ASSUME NEW p \in Pollers, LeaveRun(p) PROVE ClientsInv'
  BY <1>10, <1>m, <1>h, <1>c, LeftShape DEF LeaveRun, Leave
<1>11. ASSUME NEW p \in Pollers, Receive(p) PROVE ClientsInv'
  <2> DEFINE heard == [client[p] EXCEPT !.call = NoSession, !.kind = "none"]
  <2>0. UNCHANGED History /\ UNCHANGED Settings
    BY <1>11, AnswersTaken DEF Receive, HangUp
  <2>1. CASE client[p].kind = "claim" /\ Become(p, [heard EXCEPT !.pc = "start"])
    <3>1. Shape([heard EXCEPT !.pc = "start"])
      BY <1>p, <2>1 DEF Shape, Client
    <3> QED BY <1>m, <1>h, <1>s, <2>0, <2>1, <3>1
  <2>2. CASE Leave(p)
    BY <1>m, <1>h, <1>s, <2>0, <2>2, LeftShape DEF Leave
  <2>3. ASSUME NEW b \in BOOLEAN, client[p].kind \in {"step", "beat"}, Become(p, [heard EXCEPT !.lost = b])
        PROVE  ClientsInv'
    <3>1. Shape([heard EXCEPT !.lost = b])
      BY <1>p, <2>3 DEF Shape, Client
    <3> QED BY <1>m, <1>h, <1>s, <2>0, <2>3, <3>1
  <2>4. ASSUME NEW b \in BOOLEAN, client[p].kind = "outcome", Become(p, [heard EXCEPT !.lost = b, !.pc = "closing"])
        PROVE  ClientsInv'
    <3>1. Shape([heard EXCEPT !.lost = b, !.pc = "closing"])
      BY <1>p, <2>4 DEF Shape, Client
    <3> QED BY <1>m, <1>h, <1>s, <2>0, <2>4, <3>1
  <2> HIDE DEF heard
  <2> QED BY <1>11, <2>1, <2>2, <2>3, <2>4, AnswersTaken DEF heard
<1>12. ASSUME NEW p \in Pollers, GiveUp(p) PROVE ClientsInv'
  <2>1. CASE Leave(p)
    BY <1>12, <1>m, <1>h, <1>c, <2>1, LeftShape DEF GiveUp, Leave
  <2>2. CASE client[p].kind # "claim"
    <3>1. OneTryLess(p) \in 0..Retries
      BY <1>p DEF OneTryLess, Shape, Client
    <3>2. Shape([client[p] EXCEPT !.call = NoSession, !.kind = "none", !.tries = OneTryLess(p)])
      BY <1>p, <2>2, <3>1 DEF Shape, Client
    <3> QED BY <1>12, <1>m, <1>h, <1>c, <2>2, <3>2 DEF GiveUp
  <2> QED BY <1>12, <2>1, <2>2 DEF GiveUp
<1>13. ASSUME NEW p \in Pollers, Unreached(p) PROVE ClientsInv'
  <2>1. \A r \in Ids : Shape([client[p] EXCEPT !.todo = @ \ {r}])
    BY <1>p DEF Shape, Client
  <2>2. ASSUME client[p].tries > 0, Free(p) PROVE Shape([client[p] EXCEPT !.tries = @ - 1])
    BY <1>p, <2>2 DEF Shape, Client, Free
  <2> QED BY <1>13, <1>m, <1>h, <1>c, <2>1, <2>2 DEF Unreached
<1>14. ASSUME UNCHANGED <<client, History>>, twoPerson' \in BOOLEAN PROVE ClientsInv'
  BY <1>14, <1>h DEF ClientsInv, ChannelTypeOK
<1>15. ASSUME NEW s, Forgotten(s) PROVE ClientsInv'
  BY <1>15, <1>14, <1>s DEF Forgotten, HangUp
<1>16. ASSUME ConsoleNext PROVE ClientsInv'
  <2>1. UNCHANGED Settings \/ UNCHANGED twoPerson \/ \E on \in BOOLEAN : twoPerson' = on
    BY <1>16 DEF ConsoleNext, AdminNext, UpdaterWrites, Expiry, Environment, CreateCheck, CreateWrite,
       ApproveCheck, ApproveWrite, CancelCheck, CancelWrite, FailCheck, FailWrite, ExpireCheck,
       ExpireWrite, RefuseCheck, RefuseWrite, ClaimWrite, ReportWrite, LeaseRunsOut, ComesDue,
       UpdateSettings, UpdateUser
  <2> QED BY <1>16, <1>14, <1>s, <2>1 DEF ConsoleNext, ClientsInv
<1>17. ASSUME UNCHANGED channelVars PROVE ClientsInv'
  BY <1>17, <1>14, <1>c DEF channelVars, History
<1> QED BY <1>1, <1>2, <1>3, <1>4, <1>5, <1>6, <1>7, <1>8, <1>9, <1>10, <1>11, <1>12, <1>13, <1>15, <1>16, <1>17
        DEF ChannelNext, PollerNext, Calls, Posting, Answered

(* The clients and the histories keep their types.                           *)
THEOREM ChannelTyped == ChannelSpec => []ClientsInv
<1>1. ChannelInit => ClientsInv
  BY IdleShape DEF ChannelInit, Init, ClientsInv, ChannelTypeOK, Shape
<1>2. ClientsInv /\ [ChannelNext]_channelVars => ClientsInv'
  BY ClientsStep
<1> QED BY <1>1, <1>2, PTL DEF ChannelSpec
-----------------------------------------------------------------------------
(* Every step of the passes is, for the console, a step any holder of a token *)
(* may take.                                                                 *)
LEMMA ConsoleStep ==
  ASSUME ClientsInv, [ChannelNext]_channelVars
  PROVE  [Next]_consoleVars
<1>s. UpdaterSessions \subseteq AllSessions /\ Sweeper \in AllSessions
  BY DEF AllSessions
<1>1. ASSUME NEW p \in Pollers, NEW s \in UpdaterSessions, Claim(p, s) PROVE Next
  BY <1>1 DEF Claim, Next, UpdaterNext
<1>2. ASSUME NEW p \in Pollers, NEW s \in UpdaterSessions, PostStep(p, s) \/ Beat(p, s) PROVE Next
  <2>1. client[p].id \in Ids
    BY <1>2 DEF PostStep, Beat, ClientsInv, Shape
  <2>2. PICK op \in {"step", "beat"} : ReportCheck(s, op, client[p].id, "none")
    BY <1>2 DEF PostStep, Beat, CallOut
  <2>3. requests[client[p].id].report < MaxReports
    BY <1>2 DEF PostStep, Beat, Request
  <2> QED BY <2>1, <2>2, <2>3 DEF Next, UpdaterNext
<1>3. ASSUME NEW p \in Pollers, NEW s \in UpdaterSessions, PostOutcome(p, s) PROVE Next
  <2>1. client[p].id \in Ids /\ client[p].word \in RunOutcomes
    BY <1>3 DEF PostOutcome, At, ClientsInv, Shape, Client
  <2> QED BY <1>3, <2>1 DEF PostOutcome, CallOut, Next, UpdaterNext
<1>4. ASSUME NEW p \in Pollers, Receive(p) PROVE Next
  <2>1. client[p].call \in UpdaterSessions /\ HangUp(client[p].call)
    BY <1>4 DEF Receive, Free, ClientsInv, Shape, Client
  <2> QED BY <2>1 DEF Next
<1>5. ASSUME NEW s \in UpdaterSessions, Forgotten(s) PROVE Next
  BY <1>5 DEF Forgotten, Next
<1>6. ASSUME ConsoleNext PROVE Next
  BY <1>6, <1>s DEF ConsoleNext, Next, UpdaterNext
<1>7. ASSUME NEW p \in Pollers,
             \/ Poll(p) \/ EndPass(p) \/ Start(p) \/ NothingToDo(p) \/ Approve(p) \/ EndRun(p)
             \/ StopPosting(p) \/ LeaveRun(p) \/ GiveUp(p) \/ Unreached(p) \/ Die(p)
      PROVE  UNCHANGED consoleVars
  BY <1>7 DEF Poll, EndPass, Start, NothingToDo, Approve, EndRun, StopPosting, LeaveRun, GiveUp, Unreached, Die
<1>8. ASSUME UNCHANGED channelVars PROVE UNCHANGED consoleVars
  BY <1>8 DEF channelVars
<1> QED BY <1>1, <1>2, <1>3, <1>4, <1>5, <1>6, <1>7, <1>8
        DEF ChannelNext, PollerNext, Calls, Posting, Answered

(* The console of UpgradeRequests is not changed by who calls it: whatever    *)
(* holds of it holds while passes claim, die, repeat themselves and give up. *)
THEOREM ConsoleInChannel == ChannelSpec => Spec
<1>1. ChannelInit => Init
  BY DEF ChannelInit
<1>2. ClientsInv /\ [ChannelNext]_channelVars => [Next]_consoleVars
  BY ConsoleStep
<1> QED BY <1>1, <1>2, ChannelTyped, PTL DEF ChannelSpec, Spec

-----------------------------------------------------------------------------
(* Calls.  No two clients wait for one handler, and a handler that is waited  *)
(* for does, or has answered, what its client called.                        *)
Fits(c, h) ==
  /\ c.kind = "claim" => /\ h.op \in {"claim", "refuse"} \cup Answers
                         /\ h.op = "claim" => h.id = c.id
  /\ c.kind = "outcome" => /\ h.op \in {"outcome"} \cup Answers
                           /\ h.op = "outcome" => h.id = c.id /\ h.outcome = c.word
  /\ c.kind \in {"step", "beat"} => h.op \in {"step", "beat"} \cup Answers

CallsInv ==
  /\ \A p, q \in Pollers : p # q /\ client[p].call # NoSession => client[p].call # client[q].call
  /\ \A p \in Pollers : Fits(client[p], sess[client[p].call])

(* What one step of the console does to the handlers of updater calls.        *)
ClaimWins(s) ==
  /\ sess[s].op = "claim" /\ requests[sess[s].id].status = "approved"
  /\ requests' = [requests EXCEPT ![sess[s].id] = [Renewed(requests[sess[s].id]) EXCEPT !.status = "claimed"]]
  /\ sess'[s] = [IdleSession EXCEPT !.op = "ok"]

ReportLands(s) ==
  /\ sess[s].op \in ReportOps /\ requests[sess[s].id].status \in InFlight
  /\ requests' = [requests EXCEPT ![sess[s].id] = Reported(requests[sess[s].id], sess[s])]
  /\ sess'[s] = [IdleSession EXCEPT !.op = "ok"]

HandlerMoves(s) ==
  \/ sess[s].op = "idle" /\ sess'[s].op = "refuse"
  \/ sess[s].op \in UpdaterOps /\ sess'[s] = [IdleSession EXCEPT !.op = "conflict"]
  \/ ClaimWins(s)
  \/ ReportLands(s)

OnlyHandler(s) ==
  s \in UpdaterSessions /\ HandlerMoves(s) /\ \A t \in UpdaterSessions : t # s => sess'[t] = sess[t]

LEMMA HandlerSteps ==
  ASSUME TypeOK, ConsoleNext
  PROVE  (\A s \in UpdaterSessions : sess'[s] = sess[s]) \/ \E s \in UpdaterSessions : OnlyHandler(s)
<1> DEFINE Quiet == \A s \in UpdaterSessions : sess'[s] = sess[s]
<1>s. UpdaterSessions \subseteq AllSessions
  BY DEF AllSessions
<1>o. \A t, call : Open(t, call) \/ (sess' = [sess EXCEPT ![t] = call])
                     => \A s \in UpdaterSessions : sess'[s] = IF s = t THEN call ELSE sess[s]
  BY <1>s DEF Open, TypeOK
<1>1. ASSUME NEW t, t \notin UpdaterSessions, (\E call : Open(t, call)) \/ Close(t)
      PROVE  Quiet
  BY <1>1, <1>o DEF Close
<1>2. ASSUME NEW s \in AdminSessions, AdminNext(s) PROVE Quiet
  <2>1. s \notin UpdaterSessions
    BY SessionsAreApart
  <2>2. (\E call : Open(s, call)) \/ Close(s)
    BY <1>2 DEF AdminNext, CreateCheck, ApproveCheck, CancelCheck, FailCheck, CreateWrite, ApproveWrite,
                CancelWrite, FailWrite
  <2> QED BY <2>1, <2>2, <1>1
<1>3. ASSUME Expiry(Sweeper) PROVE Quiet
  <2>1. Sweeper \notin UpdaterSessions
    BY SessionsAreApart
  <2>2. (\E call : Open(Sweeper, call)) \/ Close(Sweeper)
    BY <1>3 DEF Expiry, ExpireCheck, ExpireWrite
  <2> QED BY <2>1, <2>2, <1>1
<1>4. ASSUME Environment PROVE Quiet
  BY <1>4 DEF Environment, LeaseRunsOut, ComesDue, UpdateSettings, UpdateUser
<1>5. ASSUME NEW s \in UpdaterSessions, NEW r \in Ids, RefuseCheck(s, r) PROVE OnlyHandler(s)
  <2>1. [IdleSession EXCEPT !.op = "refuse", !.id = r].op = "refuse"
    BY DEF IdleSession
  <2>2. sess[s].op = "idle" /\ Open(s, [IdleSession EXCEPT !.op = "refuse", !.id = r])
    BY <1>5 DEF RefuseCheck, Idle
  <2> QED BY <2>1, <2>2, <1>o DEF OnlyHandler, HandlerMoves
<1>a. ASSUME NEW s \in UpdaterSessions, NEW a, Answer(s, a)
      PROVE  /\ sess'[s] = [IdleSession EXCEPT !.op = a]
             /\ \A t \in UpdaterSessions : t # s => sess'[t] = sess[t]
  BY <1>a, <1>s DEF Answer, TypeOK
<1>6. ASSUME NEW s \in UpdaterSessions, RefuseWrite(s) PROVE OnlyHandler(s)
  BY <1>6, <1>a DEF RefuseWrite, OnlyHandler, HandlerMoves, Doing, UpdaterOps
<1>7. ASSUME NEW s \in UpdaterSessions, ClaimWrite(s) PROVE OnlyHandler(s)
  BY <1>7, <1>a DEF ClaimWrite, OnlyHandler, HandlerMoves, ClaimWins, Doing, UpdaterOps, Target, Update
<1>8. ASSUME NEW s \in UpdaterSessions, ReportWrite(s) PROVE OnlyHandler(s)
  BY <1>8, <1>a DEF ReportWrite, OnlyHandler, HandlerMoves, ReportLands, UpdaterOps, Target, Update, StillInFlight
<1> HIDE DEF Quiet
<1>9. Quiet \/ \E s \in UpdaterSessions : OnlyHandler(s)
  BY <1>2, <1>3, <1>4, <1>5, <1>6, <1>7, <1>8 DEF ConsoleNext, UpdaterWrites
<1> QED BY <1>9 DEF Quiet

(* A client that calls finds an idle handler, and nobody else waits for it.   *)
LEMMA IdleIsNobodys ==
  ASSUME ClientsInv, CallsInv, NEW p \in Pollers, client[p].call # NoSession
  PROVE  ~ Idle(client[p].call)
<1>1. client[p].kind \in {"claim", "outcome", "step", "beat"}
  BY DEF ClientsInv, Shape, Client, ReportOps
<1> QED BY <1>1 DEF CallsInv, Fits, Idle, Answers

(* One client moves, and with it at most the handlers of its old and its new  *)
(* call.                                                                     *)
LEMMA CallsMove ==
  ASSUME ClientsInv, CallsInv, NEW p \in Pollers, NEW c, Become(p, c),
         c.call \notin {NoSession, client[p].call} => \A q \in Pollers : client[q].call # c.call,
         \A t \in UpdaterSessions \ {c.call, client[p].call} : sess'[t] = sess[t],
         Fits(c, sess'[c.call])
  PROVE  CallsInv'
<1>1. client'[p] = c /\ \A q \in Pollers : q # p => client'[q] = client[q]
  BY OneClientMoves
<1>2. \A q \in Pollers : client[q].call \in UpdaterSessions \cup {NoSession}
  BY DEF ClientsInv, Shape, Client
<1>3. ASSUME NEW q \in Pollers, q # p, client[q].call # NoSession
      PROVE  client[q].call # c.call /\ client[q].call # client[p].call
  BY <1>3 DEF CallsInv
<1>4. ASSUME NEW q \in Pollers, q # p PROVE Fits(client'[q], sess'[client'[q].call])
  <2>1. CASE client[q].call = NoSession
    <3>1. client[q].kind = "none"
      BY <2>1 DEF ClientsInv, Shape
    <3> QED BY <1>1, <1>4, <3>1 DEF Fits
  <2>2. CASE client[q].call # NoSession
    BY <1>1, <1>2, <1>3, <1>4, <2>2 DEF CallsInv
  <2> QED BY <2>1, <2>2
<1>5. \A q, o \in Pollers : q # o /\ client'[q].call # NoSession => client'[q].call # client'[o].call
  BY <1>1, <1>3 DEF CallsInv
<1> QED BY <1>1, <1>4, <1>5 DEF CallsInv

(* Every step keeps the calls matched with their handlers.                    *)
LEMMA CallsStep ==
  ASSUME TypeOK, ClientsInv, CallsInv, [ChannelNext]_channelVars
  PROVE  CallsInv'
<1>s. UpdaterSessions \subseteq AllSessions
  BY DEF AllSessions
<1>p. \A p \in Pollers : Shape(client[p]) /\ client[p] \in Client
  BY DEF ClientsInv, Shape
<1>q. ASSUME NEW p \in Pollers, NEW c, Become(p, c), c.kind = "none" \/ (c.kind = client[p].kind /\ c.call = client[p].call /\ c.id = client[p].id /\ c.word = client[p].word),
             c.call \in {NoSession, client[p].call},
             \A t \in UpdaterSessions \ {client[p].call} : sess'[t] = sess[t],
             c.kind # "none" => sess'[c.call] = sess[c.call]
      PROVE  CallsInv'
  <2>1. Fits(c, sess'[c.call])
    BY <1>q DEF CallsInv, Fits
  <2> QED BY <1>q, <2>1, CallsMove
<1>u. UNCHANGED consoleVars => \A t : sess'[t] = sess[t]
  BY DEF consoleVars
<1>i. IdleClient.kind = "none" /\ IdleClient.call = NoSession
  BY DEF IdleClient
<1>l. ASSUME NEW p \in Pollers, NEW c, c.kind = "none", c.call = NoSession, Become(p, c),
             \A t \in UpdaterSessions \ {client[p].call} : sess'[t] = sess[t]
      PROVE  CallsInv'
  BY <1>l, <1>q
<1>k. ASSUME NEW p \in Pollers, NEW c, Become(p, c), c.kind = client[p].kind, c.call = client[p].call,
             c.id = client[p].id, c.word = client[p].word, UNCHANGED consoleVars
      PROVE  CallsInv'
  BY <1>k, <1>q, <1>u
<1>v. ASSUME NEW p \in Pollers, Leave(p), \A t \in UpdaterSessions \ {client[p].call} : sess'[t] = sess[t]
      PROVE  CallsInv'
  <2> DEFINE c == [IdleClient EXCEPT !.pc = "next", !.todo = client[p].todo, !.strict = client[p].strict]
  <2>1. c.kind = "none" /\ c.call = NoSession
    BY DEF IdleClient
  <2>2. Become(p, c)
    BY <1>v DEF Leave
  <2> HIDE DEF c
  <2> QED BY <1>v, <1>l, <2>1, <2>2
<1>e. ASSUME NEW p \in Pollers, NEW word, client[p].kind # "outcome", Ended(p, word), UNCHANGED consoleVars
      PROVE  CallsInv'
  <2> DEFINE c == [client[p] EXCEPT !.pc = "report", !.word = word]
  <2>1. Become(p, c) /\ c.kind = client[p].kind /\ c.call = client[p].call /\ c.id = client[p].id
    BY <1>e, <1>p DEF Ended, Client
  <2> HIDE DEF c
  <2>2. Fits(c, sess'[c.call])
    BY <1>e, <1>u, <2>1 DEF CallsInv, Fits
  <2> QED BY <1>e, <1>u, <2>1, <2>2, CallsMove
<1>1. ASSUME NEW p \in Pollers, Poll(p) PROVE CallsInv'
  <2> DEFINE c == [IdleClient EXCEPT !.pc = "next", !.todo = {r \in Ids : Listed(r)}, !.strict = twoPerson]
  <2>1. c.kind = "none" /\ c.call = NoSession
    BY DEF IdleClient
  <2>2. Become(p, c) /\ UNCHANGED consoleVars
    BY <1>1 DEF Poll
  <2> HIDE DEF c
  <2> QED BY <1>l, <1>u, <2>1, <2>2
<1>2. ASSUME NEW p \in Pollers, EndPass(p) \/ Die(p) PROVE CallsInv'
  BY <1>2, <1>i, <1>l, <1>u DEF EndPass, Die
<1>3. ASSUME NEW p \in Pollers, NEW s \in UpdaterSessions, Claim(p, s) PROVE CallsInv'
  <2>1. PICK r \in Ids : ClaimCheck(s, r) /\ Become(p, [client[p] EXCEPT !.pc = "claim", !.todo = @ \ {r}, !.id = r,
                                         !.call = s, !.kind = "claim"])
    BY <1>3 DEF Claim
  <2> DEFINE c == [client[p] EXCEPT !.pc = "claim", !.todo = @ \ {r}, !.id = r, !.call = s, !.kind = "claim"]
  <2>2. PICK op \in {"claim", "refuse"} : Open(s, [IdleSession EXCEPT !.id = r, !.op = op])
    BY <2>1 DEF ClaimCheck
  <2>3. sess'[s].op = op /\ sess'[s].id = r /\ \A t \in UpdaterSessions : t # s => sess'[t] = sess[t]
    BY <1>s, <2>2 DEF Open, TypeOK, IdleSession
  <2>4. c.call = s /\ c.kind = "claim" /\ c.id = r
    BY <1>p DEF Client
  <2>5. \A q \in Pollers : client[q].call # s
    BY <2>1, <1>s, NoSessionIsNone, IdleIsNobodys DEF ClaimCheck
  <2>6. Become(p, c)
    BY <2>1
  <2> HIDE DEF c
  <2>7. Fits(c, sess'[c.call])
    BY <2>3, <2>4 DEF Fits, Answers
  <2> QED BY <2>3, <2>4, <2>5, <2>6, <2>7, CallsMove
<1>4. ASSUME NEW p \in Pollers, Start(p) \/ NothingToDo(p) \/ Approve(p) \/ EndRun(p) PROVE CallsInv'
  <2>1. client[p].kind # "outcome"
    BY <1>4, <1>p DEF Start, NothingToDo, Approve, EndRun, Working, At, Shape
  <2>2. UNCHANGED consoleVars
    BY <1>4 DEF Start, NothingToDo, Approve, EndRun
  <2>3. (\E word : Ended(p, word)) \/ \E pc : Proceed(p, pc)
    BY <1>4 DEF Start, NothingToDo, Approve, EndRun
  <2>4. ASSUME NEW pc, Proceed(p, pc) PROVE CallsInv'
    <3> DEFINE c == [client[p] EXCEPT !.pc = pc]
    <3>1. c.kind = client[p].kind /\ c.call = client[p].call /\ c.id = client[p].id /\ c.word = client[p].word
      BY <1>p DEF Client
    <3>2. Become(p, c)
      BY <2>4 DEF Proceed
    <3> HIDE DEF c
    <3> QED BY <3>1, <3>2, <1>k, <2>2
  <2> QED BY <1>e, <2>1, <2>2, <2>3, <2>4
<1>5. ASSUME NEW p \in Pollers, NEW s \in UpdaterSessions, NEW op \in ReportOps, NEW word,
             op = "outcome" => word = client[p].word, CallOut(p, s, op, word)
      PROVE  CallsInv'
  <2> DEFINE c == [client[p] EXCEPT !.call = s, !.kind = op]
  <2>1. Become(p, c) /\ ReportCheck(s, op, client[p].id, word)
    BY <1>5 DEF CallOut
  <2>2. PICK o \in {op, "conflict"} : Open(s, [IdleSession EXCEPT !.op = o, !.id = client[p].id, !.outcome = word])
    BY <2>1 DEF ReportCheck
  <2>3. /\ sess'[s].op = o /\ sess'[s].id = client[p].id /\ sess'[s].outcome = word
        /\ \A t \in UpdaterSessions : t # s => sess'[t] = sess[t]
    BY <1>s, <2>2 DEF Open, TypeOK, IdleSession
  <2>4. c.call = s /\ c.kind = op /\ c.id = client[p].id /\ c.word = client[p].word
    BY <1>p DEF Client
  <2>5. \A q \in Pollers : client[q].call # s
    BY <2>1, <1>s, NoSessionIsNone, IdleIsNobodys DEF ReportCheck
  <2> HIDE DEF c
  <2>6. Fits(c, sess'[c.call])
    BY <1>5, <2>3, <2>4 DEF Fits, Answers, ReportOps
  <2> QED BY <2>1, <2>3, <2>4, <2>5, <2>6, CallsMove
<1>6. ASSUME NEW p \in Pollers, StopPosting(p) PROVE CallsInv'
  <2> DEFINE c == [client[p] EXCEPT !.pc = "closing"]
  <2>1. c.kind = client[p].kind /\ c.call = client[p].call /\ c.id = client[p].id /\ c.word = client[p].word
    BY <1>p DEF Client
  <2>2. Become(p, c) /\ UNCHANGED consoleVars
    BY <1>6 DEF StopPosting, Proceed
  <2> HIDE DEF c
  <2> QED BY <2>1, <2>2, <1>k
<1>7. ASSUME NEW p \in Pollers, LeaveRun(p) PROVE CallsInv'
  BY <1>7, <1>u, <1>v DEF LeaveRun
<1>8. ASSUME NEW p \in Pollers, Receive(p) PROVE CallsInv'
  <2> DEFINE heard == [client[p] EXCEPT !.call = NoSession, !.kind = "none"]
  <2>1. \A t \in UpdaterSessions \ {client[p].call} : sess'[t] = sess[t]
    BY <1>8, <1>s, AnswersTaken DEF HangUp, Close, TypeOK
  <2>2. heard.kind = "none" /\ heard.call = NoSession
    BY <1>p DEF Client
  <2>3. \A b, pc : /\ [heard EXCEPT !.pc = pc].kind = "none" /\ [heard EXCEPT !.pc = pc].call = NoSession
                   /\ [heard EXCEPT !.lost = b].kind = "none" /\ [heard EXCEPT !.lost = b].call = NoSession
                   /\ [heard EXCEPT !.lost = b, !.pc = pc].kind = "none"
                   /\ [heard EXCEPT !.lost = b, !.pc = pc].call = NoSession
    BY <1>p DEF Client
  <2>4. \/ Leave(p) \/ Become(p, [heard EXCEPT !.pc = "start"])
        \/ \E b \in BOOLEAN : Become(p, [heard EXCEPT !.lost = b]) \/ Become(p, [heard EXCEPT !.lost = b, !.pc = "closing"])
    BY <1>8, AnswersTaken
  <2> HIDE DEF heard
  <2>5. ASSUME NEW c, c.kind = "none", c.call = NoSession, Become(p, c) PROVE CallsInv'
    BY <1>l, <2>1, <2>5
  <2>6. CASE Leave(p)
    BY <1>v, <2>1, <2>6
  <2>7. CASE Become(p, [heard EXCEPT !.pc = "start"])
    BY <2>3, <2>5, <2>7
  <2>8. ASSUME NEW b \in BOOLEAN, Become(p, [heard EXCEPT !.lost = b]) PROVE CallsInv'
    BY <2>3, <2>5, <2>8
  <2>9. ASSUME NEW b \in BOOLEAN, Become(p, [heard EXCEPT !.lost = b, !.pc = "closing"]) PROVE CallsInv'
    BY <2>3, <2>5, <2>9
  <2> QED BY <2>4, <2>6, <2>7, <2>8, <2>9
<1>9. ASSUME NEW p \in Pollers, GiveUp(p) PROVE CallsInv'
  <2>1. CASE Leave(p)
    BY <1>9, <1>u, <1>v, <2>1 DEF GiveUp
  <2>2. CASE Become(p, [client[p] EXCEPT !.call = NoSession, !.kind = "none", !.tries = OneTryLess(p)])
    <3> DEFINE c == [client[p] EXCEPT !.call = NoSession, !.kind = "none", !.tries = OneTryLess(p)]
    <3>1. c.kind = "none" /\ c.call = NoSession
      BY <1>p DEF Client
    <3>2. Become(p, c) /\ UNCHANGED consoleVars
      BY <1>9, <2>2 DEF GiveUp
    <3> HIDE DEF c
    <3> QED BY <1>l, <1>u, <3>1, <3>2
  <2> QED BY <1>9, <2>1, <2>2 DEF GiveUp
<1>10. ASSUME NEW p \in Pollers, Unreached(p) PROVE CallsInv'
  <2>1. PICK c : Become(p, c) /\ (c.kind = client[p].kind /\ c.call = client[p].call /\ c.id = client[p].id /\ c.word = client[p].word)
    <3>1. \A r : LET c == [client[p] EXCEPT !.todo = @ \ {r}]
                 IN c.kind = client[p].kind /\ c.call = client[p].call /\ c.id = client[p].id /\ c.word = client[p].word
      BY <1>p DEF Client
    <3>2. LET c == [client[p] EXCEPT !.tries = @ - 1]
          IN c.kind = client[p].kind /\ c.call = client[p].call /\ c.id = client[p].id /\ c.word = client[p].word
      BY <1>p DEF Client
    <3> QED BY <1>10, <3>1, <3>2 DEF Unreached
  <2> QED BY <1>10, <1>k, <2>1 DEF Unreached
<1>11. ASSUME NEW s \in UpdaterSessions, Forgotten(s) PROVE CallsInv'
  <2>1. \A t \in UpdaterSessions : t # s => sess'[t] = sess[t]
    BY <1>11, <1>s DEF Forgotten, HangUp, Close, TypeOK
  <2>2. client' = client /\ \A p \in Pollers : client[p].call # s
    BY <1>11 DEF Forgotten
  <2>3. ASSUME NEW p \in Pollers PROVE Fits(client[p], sess'[client[p].call])
    <3>1. CASE client[p].call = NoSession
      BY <1>p, <3>1 DEF Shape, Fits
    <3>2. CASE client[p].call \in UpdaterSessions
      BY <2>1, <2>2, <3>2 DEF CallsInv
    <3> QED BY <1>p, <3>1, <3>2 DEF Client
  <2> QED BY <2>2, <2>3 DEF CallsInv
<1>12. ASSUME ConsoleNext PROVE CallsInv'
  <2>1. client' = client
    BY <1>12 DEF ConsoleNext
  <2>2. ASSUME NEW p \in Pollers PROVE Fits(client[p], sess'[client[p].call])
    <3>1. CASE client[p].call = NoSession
      BY <1>p, <3>1 DEF Shape, Fits
    <3>2. CASE client[p].call \in UpdaterSessions /\ sess'[client[p].call] = sess[client[p].call]
      BY <3>2 DEF CallsInv
    <3>3. CASE client[p].call \in UpdaterSessions /\ HandlerMoves(client[p].call)
      <4>1. ~ Idle(client[p].call)
        BY <1>s, <3>3, NoSessionIsNone, IdleIsNobodys
      <4>2. sess'[client[p].call].op \in Answers
        BY <3>3, <4>1 DEF HandlerMoves, ClaimWins, ReportLands, Idle, IdleSession, Answers
      <4> QED BY <4>2 DEF Fits, Answers
    <3> QED BY <1>12, <1>p, <3>1, <3>2, <3>3, HandlerSteps DEF OnlyHandler, Client
  <2> QED BY <2>1, <2>2 DEF CallsInv
<1>13. ASSUME UNCHANGED channelVars PROVE CallsInv'
  BY <1>13 DEF channelVars, consoleVars, CallsInv
<1>14. ASSUME NEW p \in Pollers, NEW s \in UpdaterSessions, PostStep(p, s) \/ Beat(p, s) \/ PostOutcome(p, s)
       PROVE CallsInv'
  <2>1. \E op \in ReportOps : \E word : (op = "outcome" => word = client[p].word) /\ CallOut(p, s, op, word)
    BY <1>14 DEF PostStep, Beat, PostOutcome, ReportOps
  <2> QED BY <1>5, <2>1
<1> QED BY <1>1, <1>2, <1>3, <1>4, <1>6, <1>7, <1>8, <1>9, <1>10, <1>11, <1>12, <1>13, <1>14
        DEF ChannelNext, PollerNext, Calls, Posting, Answered

(* Whatever is lost, delayed or abandoned, the answer a client takes is the   *)
(* answer to its own call.                                                   *)
THEOREM CallsStayMatched == ChannelSpec => []CallsInv
<1>1. ChannelInit => CallsInv
  BY DEF ChannelInit, CallsInv, Fits, IdleClient
<1>2. TypeOK /\ ClientsInv /\ CallsInv /\ [ChannelNext]_channelVars => CallsInv'
  BY CallsStep
<1> QED BY <1>1, <1>2, ChannelTyped, ConsoleInChannel, TypeCorrect, PTL DEF ChannelSpec
-----------------------------------------------------------------------------
(* Runs.  A pass may act on a request from the moment the console answers its *)
(* claim, acts on it, and tells how it ended.                                *)
May(p, r) ==
  /\ client[p].id = r
  /\ client[p].pc \in {"start", "check"} \/ (client[p].pc = "claim" /\ sess[client[p].call].op = "ok")
Acts(p, r) == client[p].id = r /\ client[p].pc = "run"
Tells(p, r) == client[p].id = r /\ client[p].pc \in {"report", "closing"}

(* The four things a step can be to the runs.                                *)
SameClients(p) == \A q \in Pollers : q # p => client'[q] = client[q]

QuietStep ==
  /\ UNCHANGED History
  /\ \A p \in Pollers, r \in Ids :
       /\ May(p, r)' => May(p, r)
       /\ Acts(p, r)' => Acts(p, r)
       /\ Tells(p, r)' => Tells(p, r) /\ client'[p].word = client[p].word

ClaimStep(p, r) ==
  /\ requests[r].status = "approved" /\ requests'[r].status = "claimed"
  /\ UNCHANGED <<client, History>>
  /\ \A q \in Pollers, o \in Ids : May(q, o)' => May(q, o) \/ (q = p /\ o = r)

RunStarts(p, r) ==
  /\ client[p].id = r /\ May(p, r) /\ Confirmed(p) /\ Acts(p, r)' /\ SameClients(p)
  /\ started' = [started EXCEPT ![r] = @ + 1] /\ UNCHANGED <<consoleVars, result>>

RunEnds(p, r) ==
  /\ May(p, r) \/ Acts(p, r)
  /\ Tells(p, r)' /\ SameClients(p) /\ client'[p].word \in RunOutcomes
  /\ result' = [result EXCEPT ![r] = client'[p].word] /\ UNCHANGED <<consoleVars, started>>

RunStep ==
  \/ QuietStep
  \/ \E p \in Pollers, r \in Ids : ClaimStep(p, r) \/ RunStarts(p, r) \/ RunEnds(p, r)

LEMMA QuietMoves ==
  ASSUME ClientsInv, CallsInv, NEW p \in Pollers, NEW c, Become(p, c), UNCHANGED History,
         \A q \in Pollers : q # p /\ client[q].call # NoSession => sess'[client[q].call] = sess[client[q].call],
         c.pc \in {"start", "check"} \/ (c.pc = "claim" /\ sess'[c.call].op = "ok")
           => /\ c.id = client[p].id
              /\ client[p].pc \in {"start", "check"} \/ (client[p].pc = "claim" /\ sess[client[p].call].op = "ok"),
         c.pc = "run" => c.id = client[p].id /\ client[p].pc = "run",
         c.pc \in {"report", "closing"}
           => c.id = client[p].id /\ c.word = client[p].word /\ client[p].pc \in {"report", "closing"}
  PROVE  QuietStep
<1>1. client'[p] = c /\ \A q \in Pollers : q # p => client'[q] = client[q]
  BY OneClientMoves
<1>2. \A q \in Pollers : client[q].pc = "claim" => client[q].call # NoSession
  BY DEF ClientsInv, Shape
<1>3. ASSUME NEW q \in Pollers, q # p, NEW r \in Ids
      PROVE  /\ May(q, r)' => May(q, r)
             /\ Acts(q, r)' => Acts(q, r)
             /\ Tells(q, r)' => Tells(q, r) /\ client'[q].word = client[q].word
  BY <1>1, <1>2, <1>3 DEF May, Acts, Tells
<1>4. ASSUME NEW r \in Ids
      PROVE  /\ May(p, r)' => May(p, r)
             /\ Acts(p, r)' => Acts(p, r)
             /\ Tells(p, r)' => Tells(p, r) /\ client'[p].word = client[p].word
  BY <1>1 DEF May, Acts, Tells
<1> QED BY <1>3, <1>4 DEF QuietStep

(* Every step is one of the four.                                            *)
LEMMA RunSteps ==
  ASSUME TypeOK, ClientsInv, CallsInv, [ChannelNext]_channelVars
  PROVE  RunStep
<1>s. UpdaterSessions \subseteq AllSessions
  BY DEF AllSessions
<1>p. \A p \in Pollers : Shape(client[p]) /\ client[p] \in Client
  BY DEF ClientsInv, Shape
<1>u. UNCHANGED consoleVars => \A t : sess'[t] = sess[t]
  BY DEF consoleVars
<1>q. ASSUME NEW p \in Pollers, NEW c, Become(p, c), UNCHANGED <<consoleVars, History>>,
             \/ c.pc \in {"idle", "next"}
             \/ c.pc = client[p].pc /\ c.id = client[p].id /\ c.word = client[p].word /\ c.call = client[p].call
             \/ c.pc = client[p].pc /\ c.pc # "claim" /\ c.id = client[p].id /\ c.word = client[p].word
             \/ c.pc = "check" /\ client[p].pc = "start" /\ c.id = client[p].id
             \/ c.pc = "closing" /\ client[p].pc = "report" /\ c.id = client[p].id /\ c.word = client[p].word
      PROVE  QuietStep
  BY <1>q, <1>u, QuietMoves
<1>l. ASSUME NEW p \in Pollers
      PROVE  /\ [IdleClient EXCEPT !.pc = "next", !.todo = client[p].todo, !.strict = client[p].strict].pc = "next"
             /\ \A set, b : [IdleClient EXCEPT !.pc = "next", !.todo = set, !.strict = b].pc = "next"
             /\ IdleClient.pc = "idle"
  BY DEF IdleClient
<1>i. ASSUME NEW s \in UpdaterSessions, Idle(s), NEW q \in Pollers, client[q].call # NoSession
      PROVE  client[q].call # s
  BY <1>i, IdleIsNobodys
<1>1. ASSUME NEW p \in Pollers, Poll(p) \/ EndPass(p) \/ Die(p) \/ LeaveRun(p) PROVE QuietStep
  BY <1>1, <1>q, <1>l DEF Poll, EndPass, Die, LeaveRun, Leave
<1>2. ASSUME NEW p \in Pollers, NEW s \in UpdaterSessions, Claim(p, s) PROVE QuietStep
  <2>1. PICK r \in Ids : ClaimCheck(s, r) /\ Become(p, [client[p] EXCEPT !.pc = "claim", !.todo = @ \ {r}, !.id = r,
                                         !.call = s, !.kind = "claim"])
    BY <1>2 DEF Claim
  <2> DEFINE c == [client[p] EXCEPT !.pc = "claim", !.todo = @ \ {r}, !.id = r, !.call = s, !.kind = "claim"]
  <2>2. PICK op \in {"claim", "refuse"} : Open(s, [IdleSession EXCEPT !.id = r, !.op = op])
    BY <2>1 DEF ClaimCheck
  <2>3. sess'[s].op = op /\ \A t : t # s => sess'[t] = sess[t]
    BY <1>s, <2>2 DEF Open, TypeOK, IdleSession
  <2>4. c.call = s /\ c.pc = "claim"
    BY <1>p DEF Client
  <2>5. Become(p, c) /\ UNCHANGED History /\ Idle(s)
    BY <1>2, <2>1 DEF Claim, ClaimCheck
  <2> HIDE DEF c
  <2> QED BY <1>i, <2>3, <2>4, <2>5, QuietMoves
<1>3. ASSUME NEW p \in Pollers, NEW s \in UpdaterSessions, NEW op \in ReportOps, NEW word,
             client[p].pc # "claim", CallOut(p, s, op, word)
      PROVE  QuietStep
  <2> DEFINE c == [client[p] EXCEPT !.call = s, !.kind = op]
  <2>1. Become(p, c) /\ ReportCheck(s, op, client[p].id, word) /\ UNCHANGED History
    BY <1>3 DEF CallOut
  <2>2. \E call : Open(s, call)
    BY <2>1 DEF ReportCheck
  <2>3. Idle(s) /\ \A t : t # s => sess'[t] = sess[t]
    BY <1>s, <2>1, <2>2 DEF Open, TypeOK, ReportCheck
  <2>4. c.pc = client[p].pc /\ c.id = client[p].id /\ c.word = client[p].word
    BY <1>p DEF Client
  <2> HIDE DEF c
  <2> QED BY <1>3, <1>i, <2>1, <2>3, <2>4, QuietMoves
<1>4. ASSUME NEW p \in Pollers, NEW s \in UpdaterSessions, PostStep(p, s) \/ Beat(p, s) \/ PostOutcome(p, s)
      PROVE  QuietStep
  <2>1. \E op \in ReportOps : \E word : CallOut(p, s, op, word)
    BY <1>4 DEF PostStep, Beat, PostOutcome, ReportOps
  <2>2. client[p].pc # "claim"
    BY <1>4 DEF PostStep, Beat, PostOutcome, At
  <2> QED BY <1>3, <2>1, <2>2
<1>e. ASSUME NEW p \in Pollers, NEW word \in RunOutcomes, Ended(p, word), UNCHANGED <<consoleVars, started>>,
             client[p].pc \in {"start", "check", "run"}
      PROVE  \E r \in Ids : RunEnds(p, r)
  <2> DEFINE c == [client[p] EXCEPT !.pc = "report", !.word = word]
  <2>1. c.pc = "report" /\ c.word = word /\ c.id = client[p].id
    BY <1>p DEF Client
  <2>2. Become(p, c) /\ result' = [result EXCEPT ![client[p].id] = word]
    BY <1>e DEF Ended
  <2> HIDE DEF c
  <2>3. client'[p] = c /\ SameClients(p)
    BY <2>2, OneClientMoves DEF SameClients
  <2>4. client[p].id \in Ids
    BY <1>e, <1>p DEF Shape
  <2> QED BY <1>e, <2>1, <2>2, <2>3, <2>4 DEF RunEnds, May, Acts, Tells
<1>5. ASSUME NEW p \in Pollers, Start(p) PROVE RunStep
  <2>1. CASE Ended(p, "locked")
    BY <1>5, <1>e, <2>1, EngineWords DEF Start, At, RunStep
  <2>2. CASE Proceed(p, "check") /\ UNCHANGED result
    <3> DEFINE c == [client[p] EXCEPT !.pc = "check"]
    <3>1. c.pc = "check" /\ c.id = client[p].id
      BY <1>p DEF Client
    <3>2. Become(p, c) /\ UNCHANGED <<consoleVars, History>> /\ client[p].pc = "start"
      BY <1>5, <2>2 DEF Start, At, Proceed, History
    <3> HIDE DEF c
    <3> QED BY <1>q, <3>1, <3>2 DEF RunStep
  <2> QED BY <1>5, <2>1, <2>2 DEF Start
<1>6. ASSUME NEW p \in Pollers, NothingToDo(p) \/ EndRun(p) PROVE RunStep
  <2>1. PICK word \in RunOutcomes : Ended(p, word)
    BY <1>6 DEF NothingToDo, EndRun
  <2> QED BY <1>6, <1>e, <2>1 DEF NothingToDo, EndRun, Working, At, RunStep
<1>7. ASSUME NEW p \in Pollers, Approve(p) PROVE RunStep
  <2>1. CASE Ended(p, "not_confirmed") /\ UNCHANGED started
    BY <1>7, <1>e, <2>1, EngineWords DEF Approve, Working, At, RunStep
  <2>2. CASE Confirmed(p)
    <3> DEFINE c == [client[p] EXCEPT !.pc = "run"]  r == client[p].id
    <3>1. c.pc = "run" /\ c.id = r
      BY <1>p DEF Client
    <3>2. Become(p, c) /\ started' = [started EXCEPT ![r] = @ + 1] /\ UNCHANGED <<consoleVars, result>>
      BY <1>7, <2>2 DEF Approve, Proceed
    <3> HIDE DEF c
    <3>3. client'[p] = c /\ SameClients(p)
      BY <3>2, OneClientMoves DEF SameClients
    <3>4. r \in Ids /\ May(p, r)
      BY <1>7, <1>p DEF Approve, Working, At, Shape, May
    <3>5. RunStarts(p, r)
      BY <2>2, <3>1, <3>2, <3>3, <3>4 DEF RunStarts, Acts
    <3> QED BY <3>4, <3>5 DEF RunStep
  <2> QED BY <1>7, <2>1, <2>2 DEF Approve
<1>8. ASSUME NEW p \in Pollers, StopPosting(p) PROVE QuietStep
  <2> DEFINE c == [client[p] EXCEPT !.pc = "closing"]
  <2>1. c.pc = "closing" /\ c.id = client[p].id /\ c.word = client[p].word
    BY <1>p DEF Client
  <2>2. Become(p, c) /\ UNCHANGED <<consoleVars, History>> /\ client[p].pc = "report"
    BY <1>8 DEF StopPosting, Proceed, At
  <2> HIDE DEF c
  <2> QED BY <1>q, <2>1, <2>2
<1>9. ASSUME NEW p \in Pollers, Receive(p) PROVE QuietStep
  <2> DEFINE heard == [client[p] EXCEPT !.call = NoSession, !.kind = "none"]
             answer == sess[client[p].call].op
  <2>h. ~ Free(p) /\ HangUp(client[p].call) /\ client[p].call \in UpdaterSessions
    BY <1>9, <1>p, AnswersTaken DEF Shape, Client, Free
  <2>o. \A t \in UpdaterSessions : t # client[p].call => sess'[t] = sess[t]
    BY <2>h, <1>s DEF HangUp, Close, TypeOK
  <2>1. UNCHANGED History
    BY <1>9 DEF Receive
  <2>2. \A q \in Pollers : q # p /\ client[q].call # NoSession => sess'[client[q].call] = sess[client[q].call]
    BY <2>h, <2>o, <1>p DEF CallsInv, Client, Free
  <2>3. CASE Leave(p)
    BY <2>1, <2>2, <2>3, <1>l, QuietMoves DEF Leave
  <2>4. CASE client[p].kind = "claim" /\ answer = "ok" /\ Become(p, [heard EXCEPT !.pc = "start"])
    <3>1. [heard EXCEPT !.pc = "start"].pc = "start" /\ [heard EXCEPT !.pc = "start"].id = client[p].id
      BY <1>p DEF Client
    <3>2. client[p].pc = "claim"
      BY <1>p, <2>4 DEF Shape
    <3> HIDE DEF heard
    <3> QED BY <2>1, <2>2, <2>4, <3>1, <3>2, QuietMoves
  <2>5. ASSUME NEW b \in BOOLEAN, client[p].kind \in {"step", "beat"}, Become(p, [heard EXCEPT !.lost = b])
        PROVE  QuietStep
    <3> DEFINE c == [heard EXCEPT !.lost = b]
    <3>1. c.pc = client[p].pc /\ c.id = client[p].id /\ c.word = client[p].word
      BY <1>p DEF Client
    <3>2. client[p].pc # "claim"
      BY <1>p, <2>5 DEF Shape
    <3>3. Become(p, c)
      BY <2>5
    <3> HIDE DEF c
    <3> QED BY <2>1, <2>2, <3>1, <3>2, <3>3, QuietMoves
  <2>6. ASSUME NEW b \in BOOLEAN, client[p].kind = "outcome", Become(p, [heard EXCEPT !.lost = b, !.pc = "closing"])
        PROVE  QuietStep
    <3> DEFINE c == [heard EXCEPT !.lost = b, !.pc = "closing"]
    <3>1. c.pc = "closing" /\ c.id = client[p].id /\ c.word = client[p].word
      BY <1>p DEF Client
    <3>2. client[p].pc = "report"
      BY <1>p, <2>6 DEF Shape
    <3>3. Become(p, c)
      BY <2>6
    <3> HIDE DEF c
    <3> QED BY <2>1, <2>2, <3>1, <3>2, <3>3, QuietMoves
  <2>7. \/ Leave(p)
        \/ client[p].kind = "claim" /\ answer = "ok" /\ Become(p, [heard EXCEPT !.pc = "start"])
        \/ \E b \in BOOLEAN :
             \/ client[p].kind \in {"step", "beat"} /\ Become(p, [heard EXCEPT !.lost = b])
             \/ client[p].kind = "outcome" /\ Become(p, [heard EXCEPT !.lost = b, !.pc = "closing"])
    BY <1>9, AnswersTaken
  <2> HIDE DEF heard, answer
  <2> QED BY <2>3, <2>4, <2>5, <2>6, <2>7
<1>10. ASSUME NEW p \in Pollers, GiveUp(p) PROVE QuietStep
  <2>1. CASE Leave(p)
    BY <1>10, <1>q, <1>l, <2>1 DEF GiveUp, Leave
  <2>2. CASE client[p].kind # "claim"
    <3> DEFINE c == [client[p] EXCEPT !.call = NoSession, !.kind = "none", !.tries = OneTryLess(p)]
    <3>1. c.pc = client[p].pc /\ c.id = client[p].id /\ c.word = client[p].word /\ c.pc # "claim"
      BY <1>p, <2>2 DEF Client, Shape
    <3>2. Become(p, c) /\ UNCHANGED <<consoleVars, History>>
      BY <1>10, <2>2 DEF GiveUp
    <3> HIDE DEF c
    <3> QED BY <1>q, <3>1, <3>2
  <2> QED BY <1>10, <2>1, <2>2 DEF GiveUp
<1>11. ASSUME NEW p \in Pollers, Unreached(p) PROVE QuietStep
  <2>1. PICK c : Become(p, c) /\ c.pc = client[p].pc /\ c.id = client[p].id /\ c.word = client[p].word /\ c.call = client[p].call
    <3>1. \A r : LET c == [client[p] EXCEPT !.todo = @ \ {r}]
                 IN c.pc = client[p].pc /\ c.id = client[p].id /\ c.word = client[p].word /\ c.call = client[p].call
      BY <1>p DEF Client
    <3>2. LET c == [client[p] EXCEPT !.tries = @ - 1]
          IN c.pc = client[p].pc /\ c.id = client[p].id /\ c.word = client[p].word /\ c.call = client[p].call
      BY <1>p DEF Client
    <3> QED BY <1>11, <3>1, <3>2 DEF Unreached
  <2>2. UNCHANGED <<consoleVars, History>>
    BY <1>11 DEF Unreached
  <2> QED BY <1>q, <2>1, <2>2
<1>12. ASSUME NEW s \in UpdaterSessions, Forgotten(s) PROVE QuietStep
  <2>1. \A t : t # s => sess'[t] = sess[t]
    BY <1>12, <1>s DEF Forgotten, HangUp, Close, TypeOK
  <2>2. UNCHANGED <<client, History>> /\ \A p \in Pollers : client[p].call # s
    BY <1>12 DEF Forgotten
  <2> QED BY <2>1, <2>2 DEF QuietStep, May, Acts, Tells
<1>13. ASSUME ConsoleNext PROVE RunStep
  <2>1. UNCHANGED <<client, History>>
    BY <1>13 DEF ConsoleNext
  <2>2. \A p \in Pollers : client[p].pc = "claim" => client[p].kind = "claim" /\ client[p].call \in UpdaterSessions
    BY <1>p DEF Shape, Client
  <2>3. CASE \A s \in UpdaterSessions : sess'[s] = sess[s]
    BY <2>1, <2>2, <2>3 DEF QuietStep, May, Acts, Tells, RunStep
  <2>4. ASSUME NEW s \in UpdaterSessions, OnlyHandler(s) PROVE RunStep
    <3>1. CASE \A p \in Pollers : client[p].pc = "claim" /\ client[p].call = s => sess'[s].op # "ok"
      <4>1. \A p \in Pollers, r \in Ids : May(p, r)' => May(p, r)
        BY <2>1, <2>2, <2>4, <3>1 DEF OnlyHandler, May
      <4> QED BY <2>1, <4>1 DEF QuietStep, Acts, Tells, RunStep
    <3>2. ASSUME NEW p \in Pollers, client[p].pc = "claim", client[p].call = s, sess'[s].op = "ok"
          PROVE  RunStep
      <4>1. sess[s].op \in {"claim", "refuse"} \cup Answers /\ (sess[s].op = "claim" => sess[s].id = client[p].id)
        BY <2>2, <3>2 DEF CallsInv, Fits
      <4>2. ClaimWins(s)
        BY <2>4, <3>2, <4>1 DEF OnlyHandler, HandlerMoves, ReportLands, IdleSession, ReportOps, Answers
      <4>3. client[p].id \in Ids
        BY <1>p, <3>2 DEF Shape
      <4> DEFINE r == client[p].id
      <4>4. requests[r].status = "approved" /\ requests'[r] = [Renewed(requests[r]) EXCEPT !.status = "claimed"]
        BY <4>1, <4>2, <4>3 DEF ClaimWins, TypeOK
      <4>5. requests'[r].status = "claimed"
        BY <4>3, <4>4 DEF TypeOK, Row, Renewed
      <4>6. \A q \in Pollers, o \in Ids : May(q, o)' => May(q, o) \/ (q = p /\ o = r)
        <5>1. \A q \in Pollers : q # p => client[q].call # s
          BY <3>2, <1>s, NoSessionIsNone DEF CallsInv
        <5> QED BY <2>1, <2>2, <2>4, <5>1 DEF OnlyHandler, May
      <4> QED BY <2>1, <4>3, <4>4, <4>5, <4>6 DEF ClaimStep, RunStep
    <3> QED BY <3>1, <3>2
  <2> QED BY <1>13, <2>3, <2>4, HandlerSteps
<1>14. ASSUME UNCHANGED channelVars PROVE QuietStep
  BY <1>14 DEF channelVars, consoleVars, History, QuietStep, May, Acts, Tells
<1> QED BY <1>1, <1>2, <1>4, <1>5, <1>6, <1>7, <1>8, <1>9, <1>10, <1>11, <1>12, <1>13, <1>14
        DEF RunStep, ChannelNext, PollerNext, Calls, Posting, Answered

-----------------------------------------------------------------------------
(* Who holds a request, and what its history says then.  A request the        *)
(* console has not given away is nobody's and has no history; one that it has *)
(* given away has one holder at most, whose place tells whether the run acted *)
(* and ended.                                                                *)
Holds(p, r) == May(p, r) \/ Acts(p, r) \/ Tells(p, r)
GivenAway(r) == Phase(requests[r]) \in {"taken", "finished"}

Untouched(r) == ~ GivenAway(r) => /\ started[r] = 0 /\ result[r] = "none"
                                  /\ \A p \in Pollers : ~ Holds(p, r)
OneHolder(r) == \A p, q \in Pollers : Holds(p, r) /\ Holds(q, r) => p = q
HolderKnows(r) ==
  \A p \in Pollers :
    /\ May(p, r) => started[r] = 0
    /\ May(p, r) \/ Acts(p, r) => result[r] = "none"
    /\ Tells(p, r) => result[r] = client[p].word
FloorKept(r) ==
  Floor /\ started[r] > 0 /\ requests[r].action # "restart" => requests[r].approver # requests[r].by

RunInvOf(r) ==
  /\ started[r] \in {0, 1}
  /\ Untouched(r) /\ OneHolder(r) /\ HolderKnows(r) /\ FloorKept(r)

RunInv == \A r \in Ids : RunInvOf(r)

(* What the console does to a request it gave away: it stays given away, and  *)
(* keeps its action, its requester and its approver.                         *)
LEMMA GivenAwayStays ==
  ASSUME TypeOK, OutcomesAreLast, [Next]_consoleVars, NEW r \in Ids
  PROVE  /\ GivenAway(r) => GivenAway(r)'
         /\ GivenAway(r) => /\ requests'[r].action = requests[r].action
                            /\ requests'[r].by = requests[r].by
                            /\ requests'[r].approver = requests[r].approver
<1>1. GivenAway(r) => GivenAway(r)'
  BY RowStepMoves DEF GivenAway
<1>2. ASSUME GivenAway(r) PROVE FiledRowKept(r) /\ ~ Approved(r)
  <2>1. requests[r].status # "absent" /\ requests[r].status # "pending_approval"
    BY <1>2, Phases DEF GivenAway
  <2> QED BY <2>1, FiledRowsKeep DEF Approved
<1> QED BY <1>1, <1>2 DEF FiledRowKept

(* The floor, across whatever the console does to the row. *)
LEMMA FloorStays ==
  ASSUME TypeOK, OutcomesAreLast, [Next]_consoleVars, NEW r \in Ids, RunInvOf(r), started'[r] = started[r]
  PROVE  FloorKept(r)'
<1>1. started[r] > 0 => GivenAway(r)
  BY DEF RunInvOf, Untouched
<1> QED BY <1>1, GivenAwayStays DEF RunInvOf, FloorKept

LEMMA RunInvStep ==
  ASSUME TypeOK, OutcomesAreLast, ClientsInv, CallsInv, RunInv, [ChannelNext]_channelVars
  PROVE  RunInv'
<1>n. [Next]_consoleVars
  BY ConsoleStep
<1>t. started \in [Ids -> Nat] /\ result \in [Ids -> {"none"} \cup RunOutcomes]
  BY DEF ClientsInv, ChannelTypeOK
<1>g. \A r \in Ids : GivenAway(r) => GivenAway(r)'
  BY <1>n, GivenAwayStays
<1>f. \A r \in Ids : started'[r] = started[r] => FloorKept(r)'
  BY <1>n, FloorStays DEF RunInv
<1>h. \A r \in Ids : RunInvOf(r)
  BY DEF RunInv
<1>1. ASSUME QuietStep, NEW r \in Ids PROVE RunInvOf(r)'
  <2>1. started'[r] = started[r] /\ result'[r] = result[r]
    BY <1>1 DEF QuietStep, History
  <2>2. \A p \in Pollers : /\ May(p, r)' => May(p, r)
                           /\ Acts(p, r)' => Acts(p, r)
                           /\ Tells(p, r)' => Tells(p, r) /\ client'[p].word = client[p].word
    BY <1>1 DEF QuietStep
  <2>3. \A p \in Pollers : Holds(p, r)' => Holds(p, r)
    BY <2>2 DEF Holds
  <2>4. Untouched(r)'
    BY <1>g, <1>h, <2>1, <2>3 DEF RunInvOf, Untouched
  <2>5. OneHolder(r)'
    BY <1>h, <2>3 DEF RunInvOf, OneHolder
  <2>6. HolderKnows(r)'
    BY <1>h, <2>1, <2>2 DEF RunInvOf, HolderKnows
  <2> QED BY <1>f, <1>h, <2>1, <2>4, <2>5, <2>6 DEF RunInvOf
<1>2. ASSUME NEW p \in Pollers, NEW w \in Ids, ClaimStep(p, w), NEW r \in Ids PROVE RunInvOf(r)'
  <2>1. started'[r] = started[r] /\ result'[r] = result[r] /\ client' = client
    BY <1>2 DEF ClaimStep, History
  <2>2. \A q \in Pollers : /\ May(q, r)' => May(q, r) \/ (q = p /\ r = w)
                           /\ Acts(q, r)' => Acts(q, r)
                           /\ Tells(q, r)' => Tells(q, r) /\ client'[q].word = client[q].word
    BY <1>2, <2>1 DEF ClaimStep, Acts, Tells
  <2>3. \A q \in Pollers : Holds(q, r)' => Holds(q, r) \/ (q = p /\ r = w)
    BY <2>2 DEF Holds
  <2>4. r = w => ~ GivenAway(r) /\ GivenAway(r)'
    BY <1>2, Phases DEF ClaimStep, GivenAway, InFlight
  <2>5. Untouched(r)'
    BY <1>g, <1>h, <2>1, <2>3, <2>4 DEF RunInvOf, Untouched
  <2>6. OneHolder(r)'
    BY <1>h, <2>3, <2>4 DEF RunInvOf, OneHolder, Untouched
  <2>7. HolderKnows(r)'
    BY <1>h, <2>1, <2>2, <2>4 DEF RunInvOf, HolderKnows, Untouched
  <2> QED BY <1>f, <1>h, <2>1, <2>5, <2>6, <2>7 DEF RunInvOf
<1>o. ASSUME NEW p \in Pollers, SameClients(p), UNCHANGED consoleVars, NEW q \in Pollers, q # p, NEW r \in Ids
      PROVE  /\ May(q, r)' => May(q, r)
             /\ Acts(q, r)' => Acts(q, r)
             /\ Tells(q, r)' => Tells(q, r) /\ client'[q].word = client[q].word
  BY <1>o DEF SameClients, consoleVars, May, Acts, Tells
<1>3. ASSUME NEW p \in Pollers, NEW w \in Ids, RunStarts(p, w), NEW r \in Ids PROVE RunInvOf(r)'
  <2>1. client[p].id = w /\ Acts(p, w)' /\ May(p, w) /\ Confirmed(p) /\ UNCHANGED <<consoleVars, result>> /\ SameClients(p)
    BY <1>3 DEF RunStarts
  <2>2. started'[r] = IF r = w THEN started[r] + 1 ELSE started[r]
    BY <1>3, <1>t DEF RunStarts
  <2>3. \A q \in Pollers : q # p => /\ May(q, r)' => May(q, r)
                                    /\ Acts(q, r)' => Acts(q, r)
                                    /\ Tells(q, r)' => Tells(q, r) /\ client'[q].word = client[q].word
    BY <1>o, <2>1
  <2>4. ~ May(p, r)' /\ ~ Tells(p, r)' /\ (Acts(p, r)' => r = w)
    BY <2>1 DEF May, Acts, Tells
  <2>5. \A q \in Pollers : Holds(q, r)' => Holds(q, r) \/ (q = p /\ r = w)
    BY <2>3, <2>4 DEF Holds
  <2>6. r = w => Holds(p, r) /\ started[r] = 0 /\ result[r] = "none" /\ GivenAway(r)
    BY <1>h, <2>1 DEF RunInvOf, HolderKnows, Untouched, Holds
  <2>7. requests' = requests /\ result'[r] = result[r]
    BY <2>1 DEF consoleVars
  <2>8. Untouched(r)'
    BY <1>g, <1>h, <2>2, <2>5, <2>6, <2>7 DEF RunInvOf, Untouched
  <2>9. OneHolder(r)'
    BY <1>h, <2>5, <2>6 DEF RunInvOf, OneHolder
  <2>10. HolderKnows(r)'
    <3> SUFFICES ASSUME NEW q \in Pollers
                 PROVE  /\ May(q, r)' => started'[r] = 0
                        /\ May(q, r)' \/ Acts(q, r)' => result'[r] = "none"
                        /\ Tells(q, r)' => result'[r] = client'[q].word
      BY DEF HolderKnows
    <3>1. CASE q = p
      BY <2>4, <2>6, <2>7, <3>1
    <3>2. CASE q # p
      <4>1. May(q, r)' => r # w
        BY <1>h, <2>1, <2>3, <3>2 DEF RunInvOf, OneHolder, Holds
      <4> QED BY <1>h, <2>2, <2>3, <2>7, <3>2, <4>1 DEF RunInvOf, HolderKnows
    <3> QED BY <3>1, <3>2
  <2>11. FloorKept(r)'
    <3>1. CASE r # w
      BY <1>f, <2>2, <3>1
    <3>2. CASE r = w
      <4>1. Floor /\ requests[r].action # "restart" => requests[r].approver # requests[r].by
        BY <2>1, <3>2 DEF Confirmed, Request
      <4> QED BY <2>7, <4>1 DEF FloorKept
    <3> QED BY <3>1, <3>2
  <2> QED BY <1>h, <2>2, <2>6, <2>8, <2>9, <2>10, <2>11 DEF RunInvOf
<1>4. ASSUME NEW p \in Pollers, NEW w \in Ids, RunEnds(p, w), NEW r \in Ids PROVE RunInvOf(r)'
  <2>1. Tells(p, w)' /\ (May(p, w) \/ Acts(p, w)) /\ UNCHANGED <<consoleVars, started>> /\ SameClients(p)
    BY <1>4 DEF RunEnds
  <2>2. result'[r] = IF r = w THEN client'[p].word ELSE result[r]
    BY <1>4, <1>t DEF RunEnds
  <2>3. \A q \in Pollers : q # p => /\ May(q, r)' => May(q, r)
                                    /\ Acts(q, r)' => Acts(q, r)
                                    /\ Tells(q, r)' => Tells(q, r) /\ client'[q].word = client[q].word
    BY <1>o, <2>1
  <2>4. ~ May(p, r)' /\ ~ Acts(p, r)' /\ (Tells(p, r)' => r = w)
    BY <2>1 DEF May, Acts, Tells
  <2>5. \A q \in Pollers : Holds(q, r)' => Holds(q, r) \/ (q = p /\ r = w)
    BY <2>3, <2>4 DEF Holds
  <2>6. r = w => Holds(p, r) /\ GivenAway(r)
    BY <1>h, <2>1 DEF RunInvOf, Untouched, Holds
  <2>7. requests' = requests /\ started'[r] = started[r]
    BY <2>1 DEF consoleVars
  <2>8. Untouched(r)'
    BY <1>g, <1>h, <2>2, <2>5, <2>6, <2>7 DEF RunInvOf, Untouched
  <2>9. OneHolder(r)'
    BY <1>h, <2>5, <2>6 DEF RunInvOf, OneHolder
  <2>10. HolderKnows(r)'
    <3> SUFFICES ASSUME NEW q \in Pollers
                 PROVE  /\ May(q, r)' => started'[r] = 0
                        /\ May(q, r)' \/ Acts(q, r)' => result'[r] = "none"
                        /\ Tells(q, r)' => result'[r] = client'[q].word
      BY DEF HolderKnows
    <3>1. CASE q = p
      BY <2>2, <2>4, <3>1
    <3>2. CASE q # p
      <4>1. Holds(q, r)' => r # w
        BY <1>h, <2>5, <2>6, <3>2 DEF RunInvOf, OneHolder
      <4> QED BY <1>h, <2>2, <2>3, <2>7, <3>2, <4>1 DEF RunInvOf, HolderKnows, Holds
    <3> QED BY <3>1, <3>2
  <2> QED BY <1>f, <1>h, <2>7, <2>8, <2>9, <2>10 DEF RunInvOf
<1>5. RunStep
  BY RunSteps
<1> QED BY <1>1, <1>2, <1>3, <1>4, <1>5 DEF RunStep, RunInv

THEOREM RunsAreCounted == ChannelSpec => []RunInv
<1>1. ChannelInit => RunInv
  <2> SUFFICES ASSUME ChannelInit, NEW r \in Ids PROVE RunInvOf(r)
    BY DEF RunInv
  <2>1. started[r] = 0 /\ result[r] = "none"
    BY DEF ChannelInit
  <2>2. \A p \in Pollers : client[p].pc = "idle"
    BY DEF ChannelInit, IdleClient
  <2>3. \A p \in Pollers : ~ May(p, r) /\ ~ Acts(p, r) /\ ~ Tells(p, r)
    BY <2>2 DEF May, Acts, Tells
  <2> QED BY <2>1, <2>3 DEF RunInvOf, Untouched, OneHolder, HolderKnows, FloorKept, Holds
<1>2. TypeOK /\ OutcomesAreLast /\ ClientsInv /\ CallsInv /\ RunInv /\ [ChannelNext]_channelVars => RunInv'
  BY RunInvStep
<1> QED BY <1>1, <1>2, ConsoleInChannel, TypeCorrect, OutcomesComeLast, ChannelTyped, CallsStayMatched, PTL
        DEF ChannelSpec

(* A request is acted on once at most, and only by a pass whose claim won it, *)
(* whatever answers were lost and however many passes share the token.        *)
THEOREM ActedOnOnce == ChannelSpec => []RunsOnce
<1>1. ClientsInv /\ RunInv => RunsOnce
  <2> SUFFICES ASSUME RunInv, NEW r \in Ids, started[r] > 0
               PROVE  started[r] = 1 /\ Phase(requests[r]) \in {"taken", "finished"}
    BY DEF RunsOnce
  <2>1. RunInvOf(r)
    BY DEF RunInv
  <2> QED BY <2>1 DEF RunInvOf, Untouched, GivenAway
<1> QED BY <1>1, ChannelTyped, RunsAreCounted, PTL

(* With the host's floor, no upgrade or rollback acts on the approval of its  *)
(* own requester, whatever the console's setting was meanwhile.              *)
THEOREM FloorIsKept == ChannelSpec => []FloorHolds
<1>1. RunInv => FloorHolds
  BY DEF RunInv, RunInvOf, FloorKept, FloorHolds
<1> QED BY <1>1, RunsAreCounted, PTL

-----------------------------------------------------------------------------
(* The words on their way.  A post in a handler carries the word the run of   *)
(* its request ended with, and so does every row that shows one.              *)
PostsTellTheRun ==
  \A s \in UpdaterSessions :
    sess[s].op = "outcome" => /\ sess[s].id \in Ids
                              /\ sess[s].outcome = result[sess[s].id]
                              /\ sess[s].outcome # "none"

VerdictInv == VerdictIsTheRuns /\ PostsTellTheRun

(* A post is a client's word on the request it ran. *)
PostOpens(s) ==
  /\ sess'[s].id \in Ids
  /\ \E p \in Pollers : Tells(p, sess'[s].id) /\ sess'[s].outcome = client[p].word

LEMMA PostSteps ==
  ASSUME TypeOK, ClientsInv, CallsInv, [ChannelNext]_channelVars,
         NEW s \in UpdaterSessions, sess'[s].op = "outcome"
  PROVE  sess'[s] = sess[s] \/ PostOpens(s)
<1>s. UpdaterSessions \subseteq AllSessions
  BY DEF AllSessions
<1>p. \A p \in Pollers : Shape(client[p])
  BY DEF ClientsInv
<1>u. UNCHANGED consoleVars => sess'[s] = sess[s]
  BY DEF consoleVars
<1>o. \A t \in UpdaterSessions : \A call : Open(t, call) => sess'[s] = IF s = t THEN call ELSE sess[s]
  BY <1>s DEF Open, TypeOK
<1>1. ASSUME NEW p \in Pollers,
             \/ Poll(p) \/ EndPass(p) \/ Start(p) \/ NothingToDo(p) \/ Approve(p) \/ EndRun(p)
             \/ StopPosting(p) \/ LeaveRun(p) \/ GiveUp(p) \/ Unreached(p) \/ Die(p)
      PROVE  sess'[s] = sess[s]
  BY <1>1, <1>u DEF Poll, EndPass, Start, NothingToDo, Approve, EndRun, StopPosting, LeaveRun, GiveUp, Unreached, Die
<1>2. ASSUME NEW p \in Pollers, NEW t \in UpdaterSessions, Claim(p, t) PROVE sess'[s] = sess[s]
  <2>1. PICK op \in {"claim", "refuse"} : \E r : Open(t, [IdleSession EXCEPT !.id = r, !.op = op])
    BY <1>2 DEF Claim, ClaimCheck
  <2>2. \A r : [IdleSession EXCEPT !.id = r, !.op = op].op = op
    BY DEF IdleSession
  <2> QED BY <1>o, <2>1, <2>2
<1>3. ASSUME NEW p \in Pollers, NEW t \in UpdaterSessions, NEW op, NEW word, CallOut(p, t, op, word)
      PROVE  \/ sess'[s] = sess[s]
             \/ op = "outcome" /\ sess'[s].id = client[p].id /\ sess'[s].outcome = word
  <2>1. PICK o \in {op, "conflict"} : Open(t, [IdleSession EXCEPT !.op = o, !.id = client[p].id, !.outcome = word])
    BY <1>3 DEF CallOut, ReportCheck
  <2> DEFINE call == [IdleSession EXCEPT !.op = o, !.id = client[p].id, !.outcome = word]
  <2>2. call.op = o /\ call.id = client[p].id /\ call.outcome = word
    BY DEF IdleSession
  <2>3. Open(t, call)
    BY <2>1
  <2> HIDE DEF call
  <2> QED BY <1>o, <2>2, <2>3
<1>4. ASSUME NEW p \in Pollers, NEW t \in UpdaterSessions, PostStep(p, t) \/ Beat(p, t) PROVE sess'[s] = sess[s]
  BY <1>3, <1>4 DEF PostStep, Beat
<1>5. ASSUME NEW p \in Pollers, NEW t \in UpdaterSessions, PostOutcome(p, t)
      PROVE  sess'[s] = sess[s] \/ PostOpens(s)
  <2>1. At(p, "report") /\ CallOut(p, t, "outcome", client[p].word)
    BY <1>5 DEF PostOutcome
  <2>2. client[p].id \in Ids /\ Tells(p, client[p].id)
    BY <1>p, <2>1 DEF At, Shape, Tells
  <2> QED BY <1>3, <2>1, <2>2 DEF PostOpens
<1>6. ASSUME NEW t, HangUp(t) PROVE sess'[s] = sess[s]
  <2>1. sess'[s] = sess[s] \/ sess'[s] = IdleSession
    BY <1>6, <1>s DEF HangUp, Close, TypeOK
  <2> QED BY <2>1 DEF IdleSession
<1>7. ASSUME NEW p \in Pollers, Receive(p) PROVE sess'[s] = sess[s]
  BY <1>6, <1>7, AnswersTaken
<1>8. ASSUME NEW t \in UpdaterSessions, Forgotten(t) PROVE sess'[s] = sess[s]
  BY <1>6, <1>8 DEF Forgotten
<1>9. ASSUME ConsoleNext PROVE sess'[s] = sess[s]
  <2>1. ~ HandlerMoves(s)
    BY DEF HandlerMoves, ClaimWins, ReportLands, IdleSession
  <2> QED BY <1>9, <2>1, HandlerSteps DEF OnlyHandler
<1> QED BY <1>1, <1>2, <1>4, <1>5, <1>7, <1>8, <1>9, <1>u
        DEF channelVars, ChannelNext, PollerNext, Calls, Posting, Answered

(* A row shows an engine's word from then on, or has just been posted it. *)
LEMMA RowWords ==
  ASSUME TypeOK, [Next]_consoleVars, NEW r \in Ids, requests'[r].outcome \in RunOutcomes
  PROVE  \/ requests'[r].outcome = requests[r].outcome
         \/ \E s \in UpdaterSessions :
              sess[s].op = "outcome" /\ sess[s].id = r /\ requests'[r].outcome = sess[s].outcome
<1> DEFINE row == requests[r]
<1>1. row \in Row
  BY DEF TypeOK
<1>2. RunOutcomes \cap {"none", "lease_expired", "marked_failed", "actor_not_admin"} = {}
  BY WordsAreTheUpdaters
<1>3. CASE Filed(r)
  BY <1>2, <1>3 DEF Filed, NewRow, AbsentRow
<1>4. CASE Approved(r) \/ Claimed(r) \/ TimePassed(r)
  BY <1>1, <1>4 DEF Approved, Claimed, TimePassed, Renewed, Row
<1>5. CASE Dropped(r) \/ LeaseTaken(r) \/ MarkedFailed(r)
  BY <1>1, <1>2, <1>5 DEF Dropped, LeaseTaken, MarkedFailed, Expired, Row
<1>6. CASE ReportApplied(r)
  <2>1. PICK s \in UpdaterSessions : sess[s].op \in ReportOps /\ sess[s].id = r /\ requests'[r] = Reported(row, sess[s])
    BY <1>6 DEF ReportApplied
  <2>2. CASE sess[s].op # "outcome"
    BY <1>1, <2>1, <2>2 DEF Reported, Renewed, Row, ReportOps
  <2>3. CASE sess[s].op = "outcome"
    <3>1. requests'[r].outcome = sess[s].outcome
      BY <1>1, <2>1, <2>3 DEF Reported, Renewed, Row
    <3> QED BY <2>1, <2>3, <3>1
  <2> QED BY <2>2, <2>3
<1> QED BY <1>3, <1>4, <1>5, <1>6, RowSteps DEF RowStep

(* A run's word is not taken back. *)
LEMMA ResultsStay ==
  ASSUME TypeOK, ClientsInv, CallsInv, RunInv, [ChannelNext]_channelVars, NEW r \in Ids, result[r] # "none"
  PROVE  result'[r] = result[r]
<1>1. \A p \in Pollers : ~ (May(p, r) \/ Acts(p, r))
  BY DEF RunInv, RunInvOf, HolderKnows
<1>2. result \in [Ids -> {"none"} \cup RunOutcomes]
  BY DEF ClientsInv, ChannelTypeOK
<1> QED BY <1>1, <1>2, RunSteps DEF RunStep, QuietStep, ClaimStep, RunStarts, RunEnds, History

LEMMA VerdictStep ==
  ASSUME TypeOK, ClientsInv, CallsInv, RunInv, VerdictInv, [ChannelNext]_channelVars
  PROVE  VerdictInv'
<1>w. "none" \notin RunOutcomes
  BY WordsAreTheUpdaters
<1>1. ASSUME NEW r \in Ids, requests'[r].outcome \in RunOutcomes
      PROVE  requests'[r].outcome = result'[r]
  <2>1. requests'[r].outcome = result[r]
    BY <1>1, RowWords, ConsoleStep DEF VerdictInv, VerdictIsTheRuns, PostsTellTheRun
  <2> QED BY <1>1, <1>w, <2>1, ResultsStay
<1>2. ASSUME NEW s \in UpdaterSessions, sess'[s].op = "outcome"
      PROVE  sess'[s].id \in Ids /\ sess'[s].outcome = result'[sess'[s].id] /\ sess'[s].outcome # "none"
  <2>1. sess'[s].id \in Ids /\ sess'[s].outcome = result[sess'[s].id] /\ sess'[s].outcome # "none"
    <3>1. CASE sess'[s] = sess[s]
      BY <1>2, <3>1 DEF VerdictInv, PostsTellTheRun
    <3>2. CASE PostOpens(s)
      <4>1. PICK p \in Pollers : Tells(p, sess'[s].id) /\ sess'[s].outcome = client[p].word
        BY <3>2 DEF PostOpens
      <4>2. client[p].word # "none"
        BY <4>1 DEF Tells, ClientsInv, Shape
      <4>3. result[sess'[s].id] = client[p].word
        BY <3>2, <4>1 DEF PostOpens, RunInv, RunInvOf, HolderKnows
      <4> QED BY <3>2, <4>1, <4>2, <4>3 DEF PostOpens
    <3> QED BY <1>2, <3>1, <3>2, PostSteps
  <2> QED BY <2>1, ResultsStay
<1> QED BY <1>1, <1>2 DEF VerdictInv, VerdictIsTheRuns, PostsTellTheRun

(* What the console shows as a run's outcome is the word that run ended with, *)
(* however often it was posted and whichever post landed.                    *)
THEOREM VerdictsAreTrue == ChannelSpec => []VerdictIsTheRuns
<1>1. ChannelInit => VerdictInv
  BY WordsAreTheUpdaters DEF ChannelInit, Init, VerdictInv, VerdictIsTheRuns, PostsTellTheRun, AbsentRow,
     IdleSession, AllSessions
<1>2. TypeOK /\ ClientsInv /\ CallsInv /\ RunInv /\ VerdictInv /\ [ChannelNext]_channelVars => VerdictInv'
  BY VerdictStep
<1>3. VerdictInv => VerdictIsTheRuns
  BY DEF VerdictInv
<1> QED BY <1>1, <1>2, <1>3, ConsoleInChannel, TypeCorrect, ChannelTyped, CallsStayMatched, RunsAreCounted, PTL
        DEF ChannelSpec

-----------------------------------------------------------------------------
(* Leaving a run behind.  An outcome that was answered "ok" is in the row,    *)
(* and a closed row keeps it.                                                *)
NotLost(c, h, row) ==
  /\ c.kind = "outcome" /\ h.op = "ok" => row.outcome = c.word
  /\ c.pc = "closing" => row.outcome = c.word \/ c.lost \/ c.tries = 0

LostInv == \A p \in Pollers : NotLost(client[p], sess[client[p].call], requests[client[p].id])

(* A row that shows a word other than "none" is closed and stays as it is. *)
LEMMA WordsStay ==
  ASSUME TypeOK, OutcomesAreLast, [Next]_consoleVars, NEW r \in Ids, requests[r].outcome # "none"
  PROVE  requests'[r] = requests[r]
<1>1. requests[r].status \in Terminal
  BY DEF OutcomesAreLast
<1> QED BY <1>1, RowSteps DEF RowStep, Filed, Approved, Dropped, Claimed, LeaseTaken, MarkedFailed,
           ReportApplied, TimePassed, Terminal, InFlight, Cancellable

(* Whoever does not move, and whose handler does not move, loses nothing. *)
LEMMA StillNotLost ==
  ASSUME TypeOK, OutcomesAreLast, ClientsInv, LostInv, [Next]_consoleVars, NEW p \in Pollers, NEW c,
         c.id = client[p].id, c.word = client[p].word,
         c.kind = "outcome" /\ sess'[c.call].op = "ok"
           => /\ client[p].kind = "outcome" /\ sess[client[p].call].op = "ok"
              /\ client[p].pc = "report",
         c.pc = "closing" => \/ c.lost
                             \/ client[p].pc = "closing" /\ ((client[p].lost \/ client[p].tries = 0) => (c.lost \/ c.tries = 0))
                             \/ client[p].kind = "outcome" /\ sess[client[p].call].op = "ok" /\ client[p].pc = "report"
                             \/ client[p].pc = "report" /\ c.tries = 0
  PROVE  NotLost(c, sess'[c.call], requests'[c.id])
<1>1. NotLost(client[p], sess[client[p].call], requests[client[p].id]) /\ Shape(client[p])
  BY DEF LostInv, ClientsInv
<1>2. ASSUME client[p].pc \in {"report", "closing"}, requests[client[p].id].outcome = client[p].word
      PROVE  requests'[c.id].outcome = c.word
  <2>1. client[p].id \in Ids /\ client[p].word # "none"
    BY <1>1, <1>2 DEF Shape
  <2> QED BY <1>2, <2>1, WordsStay
<1> QED BY <1>1, <1>2 DEF NotLost

(* One client moves, and the handlers of the others' calls do not. *)
LEMMA LostMoves ==
  ASSUME TypeOK, OutcomesAreLast, ClientsInv, LostInv, [Next]_consoleVars, NEW p \in Pollers, NEW c, Become(p, c),
         \A q \in Pollers : q # p /\ client[q].call # NoSession => sess'[client[q].call] = sess[client[q].call],
         NotLost(c, sess'[c.call], requests'[c.id])
  PROVE  LostInv'
<1>1. client'[p] = c /\ \A q \in Pollers : q # p => client'[q] = client[q]
  BY OneClientMoves
<1>2. ASSUME NEW q \in Pollers, q # p
      PROVE  NotLost(client[q], sess'[client[q].call], requests'[client[q].id])
  <2>1. Shape(client[q])
    BY DEF ClientsInv
  <2>2. client[q].kind = "outcome" => sess'[client[q].call] = sess[client[q].call] /\ client[q].pc = "report"
    <3>1. client[q].kind = "outcome" => client[q].call # NoSession
      BY <2>1 DEF Shape
    <3> QED BY <1>2, <2>1, <3>1 DEF Shape
  <2> QED BY <2>2, StillNotLost
<1> QED BY <1>1, <1>2 DEF LostInv

LEMMA LostStep ==
  ASSUME TypeOK, OutcomesAreLast, ClientsInv, CallsInv, LostInv, [ChannelNext]_channelVars
  PROVE  LostInv'
<1>n. [Next]_consoleVars
  BY ConsoleStep
<1>s. UpdaterSessions \subseteq AllSessions
  BY DEF AllSessions
<1>p. \A p \in Pollers : Shape(client[p]) /\ client[p] \in Client
  BY DEF ClientsInv, Shape
<1>u. UNCHANGED consoleVars => \A t : sess'[t] = sess[t]
  BY DEF consoleVars
<1>m. ASSUME NEW p \in Pollers, NEW c, Become(p, c), UNCHANGED consoleVars,
             NotLost(c, sess'[c.call], requests'[c.id])
      PROVE  LostInv'
  BY <1>m, <1>n, <1>u, LostMoves
(* The pass is on its way to something else, or was not near its end. *)
<1>a. ASSUME NEW p \in Pollers, NEW c, Become(p, c), UNCHANGED consoleVars, c.kind # "outcome", c.pc # "closing"
      PROVE  LostInv'
  BY <1>a, <1>m DEF NotLost
<1>l. /\ \A set, b : LET c == [IdleClient EXCEPT !.pc = "next", !.todo = set, !.strict = b]
                     IN c.pc = "next" /\ c.kind = "none"
      /\ IdleClient.pc = "idle" /\ IdleClient.kind = "none"
  BY DEF IdleClient
<1>1. ASSUME NEW p \in Pollers, Poll(p) \/ EndPass(p) \/ Die(p) \/ LeaveRun(p) PROVE LostInv'
  BY <1>1, <1>a, <1>l DEF Poll, EndPass, Die, LeaveRun, Leave
<1>i. ASSUME NEW s \in UpdaterSessions, Idle(s), NEW q \in Pollers, client[q].call # NoSession
      PROVE  client[q].call # s
  BY <1>i, IdleIsNobodys
<1>2. ASSUME NEW p \in Pollers, NEW s \in UpdaterSessions, Claim(p, s) PROVE LostInv'
  <2>1. PICK r \in Ids : ClaimCheck(s, r) /\ Become(p, [client[p] EXCEPT !.pc = "claim", !.todo = @ \ {r}, !.id = r,
                                         !.call = s, !.kind = "claim"])
    BY <1>2 DEF Claim
  <2> DEFINE c == [client[p] EXCEPT !.pc = "claim", !.todo = @ \ {r}, !.id = r, !.call = s, !.kind = "claim"]
  <2>2. Idle(s) /\ \E call : Open(s, call)
    BY <2>1 DEF ClaimCheck
  <2>3. \A t : t # s => sess'[t] = sess[t]
    BY <1>s, <2>2 DEF Open, TypeOK
  <2>4. c.pc = "claim" /\ c.kind = "claim"
    BY <1>p DEF Client
  <2>5. Become(p, c)
    BY <2>1
  <2> HIDE DEF c
  <2> QED BY <1>i, <1>n, <2>2, <2>3, <2>4, <2>5, LostMoves DEF NotLost
<1>3. ASSUME NEW p \in Pollers, NEW s \in UpdaterSessions, NEW op \in ReportOps, NEW word, CallOut(p, s, op, word)
      PROVE  LostInv'
  <2> DEFINE c == [client[p] EXCEPT !.call = s, !.kind = op]
  <2>1. Become(p, c) /\ ReportCheck(s, op, client[p].id, word)
    BY <1>3 DEF CallOut
  <2>2. PICK o \in {op, "conflict"} : Open(s, [IdleSession EXCEPT !.op = o, !.id = client[p].id, !.outcome = word])
    BY <2>1 DEF ReportCheck
  <2>h. Idle(s) /\ \A t : t # s => sess'[t] = sess[t]
    BY <1>s, <2>1, <2>2 DEF Open, TypeOK, ReportCheck
  <2>3. sess'[s].op = o
    BY <1>s, <2>2 DEF Open, TypeOK, IdleSession
  <2>4. /\ c.pc = client[p].pc /\ c.id = client[p].id /\ c.word = client[p].word
        /\ c.lost = client[p].lost /\ c.tries = client[p].tries /\ c.call = s
    BY <1>p DEF Client
  <2>5. o # "ok"
    BY <2>2 DEF ReportOps
  <2> HIDE DEF c
  <2>6. NotLost(c, sess'[c.call], requests'[c.id])
    BY <1>n, <2>3, <2>4, <2>5, StillNotLost
  <2> QED BY <1>i, <1>n, <2>1, <2>h, <2>6, LostMoves
<1>4. ASSUME NEW p \in Pollers, NEW s \in UpdaterSessions, PostStep(p, s) \/ Beat(p, s) \/ PostOutcome(p, s)
      PROVE  LostInv'
  BY <1>3, <1>4 DEF PostStep, Beat, PostOutcome, ReportOps
<1>5. ASSUME NEW p \in Pollers, Start(p) \/ NothingToDo(p) \/ Approve(p) \/ EndRun(p) PROVE LostInv'
  <2>1. client[p].kind # "outcome" /\ UNCHANGED consoleVars
    BY <1>5, <1>p DEF Start, NothingToDo, Approve, EndRun, Working, At, Shape
  <2>2. \/ \E word : Become(p, [client[p] EXCEPT !.pc = "report", !.word = word])
        \/ \E pc \in {"check", "run"} : Become(p, [client[p] EXCEPT !.pc = pc])
    BY <1>5 DEF Start, NothingToDo, Approve, EndRun, Ended, Proceed
  <2>3. /\ \A word : LET c == [client[p] EXCEPT !.pc = "report", !.word = word] IN c.kind = client[p].kind /\ c.pc = "report"
        /\ \A pc \in {"check", "run"} : LET c == [client[p] EXCEPT !.pc = pc] IN c.kind = client[p].kind /\ c.pc = pc
    BY <1>p DEF Client
  <2>4. ASSUME NEW word, Become(p, [client[p] EXCEPT !.pc = "report", !.word = word]) PROVE LostInv'
    BY <1>a, <2>1, <2>3, <2>4
  <2>5. ASSUME NEW pc \in {"check", "run"}, Become(p, [client[p] EXCEPT !.pc = pc]) PROVE LostInv'
    BY <1>a, <2>1, <2>3, <2>5
  <2> QED BY <2>2, <2>4, <2>5
<1>6. ASSUME NEW p \in Pollers, StopPosting(p) PROVE LostInv'
  <2> DEFINE c == [client[p] EXCEPT !.pc = "closing"]
  <2>1. /\ c.pc = "closing" /\ c.id = client[p].id /\ c.word = client[p].word /\ c.lost = client[p].lost
        /\ c.tries = client[p].tries /\ c.kind = client[p].kind /\ c.call = client[p].call
    BY <1>p DEF Client
  <2>2. Become(p, c) /\ UNCHANGED consoleVars /\ client[p].pc = "report" /\ (client[p].lost \/ client[p].tries = 0)
    BY <1>6 DEF StopPosting, Proceed, At, Silenced
  <2> HIDE DEF c
  <2>3. NotLost(c, sess'[c.call], requests'[c.id])
    BY <1>n, <1>u, <2>1, <2>2, StillNotLost
  <2> QED BY <1>m, <2>2, <2>3
<1>7. ASSUME NEW p \in Pollers, Receive(p) PROVE LostInv'
  <2> DEFINE heard == [client[p] EXCEPT !.call = NoSession, !.kind = "none"]
             answer == sess[client[p].call].op
  <2>1. ~ Free(p) /\ HangUp(client[p].call) /\ client[p].call \in UpdaterSessions /\ answer \in Answers
    BY <1>7, <1>p, AnswersTaken DEF Shape, Client, Free
  <2>2. \A t \in UpdaterSessions : t # client[p].call => sess'[t] = sess[t]
    BY <1>s, <2>1 DEF HangUp, Close, TypeOK
  <2>3. \A q \in Pollers : q # p /\ client[q].call # NoSession => sess'[client[q].call] = sess[client[q].call]
    BY <2>1, <2>2, <1>p DEF CallsInv, Client, Free
  <2>4. ASSUME NEW c, Become(p, c), NotLost(c, sess'[c.call], requests'[c.id]) PROVE LostInv'
    BY <1>n, <2>3, <2>4, LostMoves
  <2>5. CASE Leave(p)
    BY <1>l, <2>4, <2>5 DEF Leave, NotLost
  <2>6. CASE Become(p, [heard EXCEPT !.pc = "start"])
    <3>1. [heard EXCEPT !.pc = "start"].pc = "start" /\ [heard EXCEPT !.pc = "start"].kind = "none"
      BY <1>p DEF Client
    <3> HIDE DEF heard
    <3> QED BY <2>4, <2>6, <3>1 DEF NotLost
  <2>7. ASSUME NEW b \in BOOLEAN, client[p].lost => b, client[p].kind \in {"step", "beat"}, Become(p, [heard EXCEPT !.lost = b])
        PROVE  LostInv'
    <3> DEFINE c == [heard EXCEPT !.lost = b]
    <3>1. /\ c.pc = client[p].pc /\ c.id = client[p].id /\ c.word = client[p].word
          /\ c.kind = "none" /\ c.tries = client[p].tries /\ c.lost = b
      BY <1>p DEF Client
    <3>2. Become(p, c)
      BY <2>7
    <3> HIDE DEF c
    <3>3. NotLost(c, sess'[c.call], requests'[c.id])
      BY <1>n, <2>7, <3>1, StillNotLost
    <3> QED BY <2>4, <3>2, <3>3
  <2>8. ASSUME NEW b \in BOOLEAN, answer = "conflict" => b, client[p].kind = "outcome",
               Become(p, [heard EXCEPT !.lost = b, !.pc = "closing"])
        PROVE  LostInv'
    <3> DEFINE c == [heard EXCEPT !.lost = b, !.pc = "closing"]
    <3>1. c.pc = "closing" /\ c.id = client[p].id /\ c.word = client[p].word /\ c.kind = "none" /\ c.lost = b
      BY <1>p DEF Client
    <3>2. client[p].pc = "report" /\ answer \in {"ok", "conflict"}
      BY <1>p, <2>1, <2>8 DEF Shape, Answers
    <3>3. Become(p, c)
      BY <2>8
    <3> HIDE DEF c
    <3>4. NotLost(c, sess'[c.call], requests'[c.id])
      BY <1>n, <2>8, <3>1, <3>2, StillNotLost
    <3> QED BY <2>4, <3>3, <3>4
  <2>9. \/ Leave(p)
        \/ Become(p, [heard EXCEPT !.pc = "start"])
        \/ \E b \in BOOLEAN :
             /\ answer = "conflict" \/ client[p].lost => b
             /\ \/ client[p].kind \in {"step", "beat"} /\ Become(p, [heard EXCEPT !.lost = b])
                \/ client[p].kind = "outcome" /\ Become(p, [heard EXCEPT !.lost = b, !.pc = "closing"])
    BY <1>7, AnswersTaken
  <2> HIDE DEF heard, answer
  <2> QED BY <2>5, <2>6, <2>7, <2>8, <2>9
<1>8. ASSUME NEW p \in Pollers, GiveUp(p) PROVE LostInv'
  <2>1. CASE Leave(p)
    BY <1>8, <1>a, <1>l, <2>1 DEF GiveUp, Leave
  <2>2. CASE client[p].kind # "claim"
    <3> DEFINE c == [client[p] EXCEPT !.call = NoSession, !.kind = "none", !.tries = OneTryLess(p)]
    <3>1. /\ c.pc = client[p].pc /\ c.id = client[p].id /\ c.word = client[p].word /\ c.kind = "none"
          /\ c.lost = client[p].lost /\ c.tries = OneTryLess(p)
      BY <1>p DEF Client
    <3>2. Become(p, c) /\ UNCHANGED consoleVars
      BY <1>8, <2>2 DEF GiveUp
    <3>3. client[p].pc = "closing" => c.tries = client[p].tries
      BY <1>p, <3>1 DEF OneTryLess, Shape
    <3> HIDE DEF c
    <3>4. NotLost(c, sess'[c.call], requests'[c.id])
      BY <1>n, <3>1, <3>3, StillNotLost
    <3> QED BY <1>m, <3>2, <3>4
  <2> QED BY <1>8, <2>1, <2>2 DEF GiveUp
<1>9. ASSUME NEW p \in Pollers, Unreached(p) PROVE LostInv'
  <2>1. client[p].kind = "none" /\ client[p].pc \in {"next", "report"} /\ UNCHANGED consoleVars
    BY <1>9, <1>p DEF Unreached, Free, At, Shape
  <2>2. PICK c : Become(p, c) /\ c.pc = client[p].pc /\ c.kind = client[p].kind
    <3>1. \A r : LET c == [client[p] EXCEPT !.todo = @ \ {r}] IN c.pc = client[p].pc /\ c.kind = client[p].kind
      BY <1>p DEF Client
    <3>2. LET c == [client[p] EXCEPT !.tries = @ - 1] IN c.pc = client[p].pc /\ c.kind = client[p].kind
      BY <1>p DEF Client
    <3> QED BY <1>9, <3>1, <3>2 DEF Unreached
  <2> QED BY <1>a, <2>1, <2>2
<1>c. ASSUME client' = client,
             \A p \in Pollers : client[p].kind = "outcome" /\ sess'[client[p].call].op = "ok" /\ sess[client[p].call].op # "ok"
               => requests'[client[p].id].outcome = client[p].word
      PROVE  LostInv'
  <2>1. ASSUME NEW p \in Pollers PROVE NotLost(client[p], sess'[client[p].call], requests'[client[p].id])
    <3>1. Shape(client[p])
      BY <1>p
    <3>2. CASE client[p].kind = "outcome" /\ sess'[client[p].call].op = "ok" /\ sess[client[p].call].op # "ok"
      BY <1>c, <3>1, <3>2 DEF NotLost, Shape
    <3>3. CASE ~ (client[p].kind = "outcome" /\ sess'[client[p].call].op = "ok" /\ sess[client[p].call].op # "ok")
      BY <1>n, <3>1, <3>3, StillNotLost DEF Shape
    <3> QED BY <3>2, <3>3
  <2> QED BY <1>c, <2>1 DEF LostInv
<1>10. ASSUME NEW s \in UpdaterSessions, Forgotten(s) PROVE LostInv'
  <2>1. \A t : t # s => sess'[t] = sess[t]
    BY <1>10, <1>s DEF Forgotten, HangUp, Close, TypeOK
  <2>2. UNCHANGED client /\ \A p \in Pollers : client[p].call # s
    BY <1>10 DEF Forgotten
  <2> QED BY <1>c, <2>1, <2>2
<1>11. ASSUME ConsoleNext PROVE LostInv'
  <2>1. UNCHANGED client
    BY <1>11 DEF ConsoleNext
  <2>2. ASSUME NEW p \in Pollers, client[p].kind = "outcome", sess'[client[p].call].op = "ok", sess[client[p].call].op # "ok"
        PROVE  requests'[client[p].id].outcome = client[p].word
    <3> DEFINE s == client[p].call
    <3>1. s \in UpdaterSessions /\ client[p].pc = "report" /\ client[p].id \in Ids
      BY <2>2, <1>p DEF Shape, Client
    <3>2. OnlyHandler(s)
      BY <1>11, <2>2, <3>1, HandlerSteps DEF OnlyHandler
    <3>3. sess[s].op \in {"outcome"} \cup Answers /\ (sess[s].op = "outcome" => sess[s].id = client[p].id /\ sess[s].outcome = client[p].word)
      BY <2>2 DEF CallsInv, Fits
    <3>4. ReportLands(s) /\ sess[s].op = "outcome"
      BY <2>2, <3>2, <3>3 DEF OnlyHandler, HandlerMoves, ClaimWins, ReportLands, Answers, IdleSession, UpdaterOps, ReportOps
    <3>5. requests'[client[p].id] = Reported(requests[client[p].id], sess[s])
      BY <3>1, <3>3, <3>4 DEF ReportLands, TypeOK
    <3>6. requests[client[p].id] \in Row
      BY <3>1 DEF TypeOK
    <3>7. requests'[client[p].id].outcome = sess[s].outcome
      BY <3>4, <3>5, <3>6 DEF Reported, Renewed, Row
    <3> QED BY <3>3, <3>4, <3>7
  <2> QED BY <1>c, <2>1, <2>2
<1>12. ASSUME UNCHANGED channelVars PROVE LostInv'
  BY <1>12, <1>c, <1>u DEF channelVars, consoleVars
<1> QED BY <1>1, <1>2, <1>4, <1>5, <1>6, <1>7, <1>8, <1>9, <1>10, <1>11, <1>12
        DEF ChannelNext, PollerNext, Calls, Posting, Answered

(* When a pass leaves a run behind, the console shows the run's word, or the  *)
(* pass knows that the console closed the request, or every post failed.     *)
THEOREM NothingIsLost == ChannelSpec => []NothingLostSilently
<1>1. ChannelInit => LostInv
  BY DEF ChannelInit, LostInv, NotLost, IdleClient
<1>2. TypeOK /\ OutcomesAreLast /\ ClientsInv /\ CallsInv /\ LostInv /\ [ChannelNext]_channelVars => LostInv'
  BY LostStep
<1>3. LostInv => NothingLostSilently
  BY DEF LostInv, NotLost, NothingLostSilently, At, Request
<1> QED BY <1>1, <1>2, <1>3, ConsoleInChannel, TypeCorrect, OutcomesComeLast, ChannelTyped, CallsStayMatched, PTL
        DEF ChannelSpec
=============================================================================
