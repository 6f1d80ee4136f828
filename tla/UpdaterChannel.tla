---------------------------- MODULE UpdaterChannel ----------------------------
(***************************************************************************)
(* The updater's poll pass (updater/pinpoint_updater/cli.py _poll_instance,  *)
(* request_source.py) against the console of UpgradeRequests: pollers list,  *)
(* claim, run and report over HTTP, with a heartbeat thread beside the run.  *)
(*                                                                         *)
(* A call is a handler of UpgradeRequests in a session; the client waits for *)
(* its answer or gives up, and then the handler goes on without it.  The     *)
(* calls of one client are serialised by its lock, the heartbeat's included. *)
(* What the engine does to the instance is in UpdaterEngine; here a run takes *)
(* the flock, passes the approval or not, and ends with one of the engine's  *)
(* words, which it posts before it gives the flock back.                    *)
(***************************************************************************)
EXTENDS UpgradeRequests

CONSTANTS
  Pollers,        \* poll passes that may run at once, with the same token
  NoSession,      \* the client is in no call
  Floor,          \* instances.yml: require_two_person_approval
  Retries         \* how often an outcome is posted

ASSUME NoSessionIsNone == NoSession \notin AllSessions
ASSUME EngineWords == {"locked", "not_confirmed"} \subseteq RunOutcomes
ASSUME FloorIsBoolean == Floor \in BOOLEAN
ASSUME RetriesPositive == Retries \in Nat \ {0}

Client == [ pc     : {"idle", "next", "claim", "start", "check", "run", "report", "closing"},
            todo   : SUBSET Ids,                  \* what GET /requests listed
            strict : BOOLEAN,                     \* the policy it stated
            id     : Ids \cup {0},
            call   : UpdaterSessions \cup {NoSession},
            kind   : {"none", "claim"} \cup ReportOps,
            lost   : BOOLEAN,                     \* console_lost
            tries  : 0..Retries,                  \* posts of the outcome left
            word   : {"none"} \cup RunOutcomes ]

IdleClient == [ pc |-> "idle", todo |-> {}, strict |-> TRUE, id |-> 0, call |-> NoSession,
                kind |-> "none", lost |-> FALSE, tries |-> Retries,
                word |-> "none" ]

VARIABLES
  client,     \* what each poll pass is doing
  started,    \* history: how often a run of the request got past approval
  result      \* history: the word with which a run of the request ended

channelVars == <<consoleVars, client, started, result>>
History == <<started, result>>

(* Clients stay in their type; an outcome is posted Retries times at most.    *)
ChannelTypeOK ==
  /\ client \in [Pollers -> Client]
  /\ started \in [Ids -> Nat]
  /\ result \in [Ids -> {"none"} \cup RunOutcomes]

ChannelInit ==
  /\ Init
  /\ client = [p \in Pollers |-> IdleClient]
  /\ started = [r \in Ids |-> 0]
  /\ result = [r \in Ids |-> "none"]

At(p, pc) == client[p].pc = pc
Free(p) == client[p].call = NoSession
Request(p) == requests[client[p].id]
Become(p, c) == client' = [client EXCEPT ![p] = c]
Proceed(p, pc) == Become(p, [client[p] EXCEPT !.pc = pc])

(* The request is over for this pass; the next one starts afresh. *)
Leave(p) == Become(p, [IdleClient EXCEPT !.pc = "next", !.todo = client[p].todo,
                                         !.strict = client[p].strict])

-----------------------------------------------------------------------------
(* The pass: list, then one request after the other, oldest first.           *)

Poll(p) ==
  /\ At(p, "idle")
  /\ \E r \in Ids : Listed(r)
  /\ Become(p, [IdleClient EXCEPT !.pc = "next", !.todo = {r \in Ids : Listed(r)}, !.strict = twoPerson])
  /\ UNCHANGED <<consoleVars, History>>

EndPass(p) ==
  /\ At(p, "next") /\ client[p].todo = {}
  /\ Become(p, IdleClient)
  /\ UNCHANGED <<consoleVars, History>>

Oldest(p, r) == r \in client[p].todo /\ \A q \in client[p].todo : r <= q

Claim(p, s) ==
  /\ At(p, "next")
  /\ \E r \in Ids :
       /\ Oldest(p, r)
       /\ ClaimCheck(s, r)
       /\ Become(p, [client[p] EXCEPT !.pc = "claim", !.todo = @ \ {r}, !.id = r,
                                         !.call = s, !.kind = "claim"])
  /\ UNCHANGED History

-----------------------------------------------------------------------------
(* The run.                                                                  *)

(* approval_policy_for and the policies' check, with the host's floor. *)
ConfirmedMutant(p) == Request(p).action = "restart" \/ ~ client[p].strict \/ Request(p).approver # Request(p).by
Confirmed(p) ==
  \/ Request(p).action = "restart"
  \/ ~ (Floor \/ client[p].strict)
  \/ Request(p).approver # Request(p).by

Ended(p, word) ==
  /\ Become(p, [client[p] EXCEPT !.pc = "report", !.word = word])
  /\ result' = [result EXCEPT ![client[p].id] = word]

(* A step is posted before the run goes on; a beat is not waited for. *)
Working(p, pc) == At(p, pc) /\ client[p].kind # "step"

HoldsFlock(p) ==
  \/ client[p].pc \in {"check", "run"}
  \/ At(p, "report") /\ client[p].word # "locked"

(* The flock, without waiting for it. *)
Start(p) ==
  /\ At(p, "start")
  /\ IF \E q \in Pollers : HoldsFlock(q)
       THEN Ended(p, "locked")
       ELSE Proceed(p, "check") /\ UNCHANGED result
  /\ UNCHANGED <<consoleVars, started>>

(* What upgrade and rollback look at before the approval may end the run.    *)
NothingToDo(p) ==
  /\ Working(p, "check") /\ Request(p).action # "restart"
  /\ \E word \in RunOutcomes \cap {"refused", "noop"} : Ended(p, word)
  /\ UNCHANGED <<consoleVars, started>>

(* From here on the run acts. *)
Approve(p) ==
  /\ Working(p, "check")
  /\ IF Confirmed(p)
       THEN /\ Proceed(p, "run")
            /\ started' = [started EXCEPT ![client[p].id] = @ + 1]
            /\ UNCHANGED result
       ELSE Ended(p, "not_confirmed") /\ UNCHANGED started
  /\ UNCHANGED consoleVars

EndRun(p) ==
  /\ Working(p, "run")
  /\ \E word \in RunOutcomes \ {"locked", "not_confirmed"} : Ended(p, word)
  /\ UNCHANGED <<consoleVars, started>>

-----------------------------------------------------------------------------
(* The calls beside and after the run.                                       *)

CallOut(p, s, op, word) ==
  /\ Free(p)
  /\ ReportCheck(s, op, client[p].id, word)
  /\ Become(p, [client[p] EXCEPT !.call = s, !.kind = op])
  /\ UNCHANGED History

PostStep(p, s) ==
  /\ client[p].pc \in {"check", "run"}
  /\ ~ client[p].lost /\ Request(p).report < MaxReports
  /\ CallOut(p, s, "step", "none")

(* The heartbeat thread runs beside the steps, the outcome's posts included,  *)
(* until the run is left.                                                    *)
Beat(p, s) ==
  /\ client[p].pc \in {"check", "run", "report", "closing"}
  /\ ~ client[p].lost /\ Request(p).report < MaxReports
  /\ CallOut(p, s, "beat", "none")

(* post looks at console_lost before its first attempt only. *)
Silenced(p) == client[p].lost /\ client[p].tries = Retries

PostOutcome(p, s) ==
  /\ At(p, "report") /\ client[p].tries > 0 /\ ~ Silenced(p)
  /\ CallOut(p, s, "outcome", client[p].word)

StopPostingMutant(p) ==
  /\ At(p, "report") /\ Silenced(p)
  /\ Proceed(p, "closing")
  /\ UNCHANGED <<consoleVars, History>>

StopPosting(p) ==
  /\ At(p, "report")
  /\ Silenced(p) \/ client[p].tries = 0
  /\ Proceed(p, "closing")
  /\ UNCHANGED <<consoleVars, History>>

(* The heartbeat is stopped and the next request's turn comes. *)
LeaveRun(p) ==
  /\ At(p, "closing")
  /\ Leave(p)
  /\ UNCHANGED <<consoleVars, History>>

-----------------------------------------------------------------------------
(* Answers, and calls without one.                                           *)

ClaimWonMutant(answer) == answer \in Answers
ClaimWon(answer) == answer = "ok"

(* A 409 to a report: the console closed the request, and the pass knows. *)
LostAfterMutant(p, answer) == client[p].lost \/ (answer = "conflict" /\ client[p].kind = "beat")
LostAfter(p, answer) == client[p].lost \/ answer = "conflict"

Receive(p) ==
  /\ ~ Free(p)
  /\ LET answer == sess[client[p].call].op
         heard  == [client[p] EXCEPT !.call = NoSession, !.kind = "none"]
     IN  /\ HangUp(client[p].call)
         /\ CASE client[p].kind = "claim" ->
                   IF ClaimWon(answer) THEN Become(p, [heard EXCEPT !.pc = "start"]) ELSE Leave(p)
              [] client[p].kind \in {"step", "beat"} ->
                   Become(p, [heard EXCEPT !.lost = LostAfter(p, answer)])
              [] client[p].kind = "outcome" ->
                   Become(p, [heard EXCEPT !.lost = LostAfter(p, answer), !.pc = "closing"])
  /\ UNCHANGED History

(* Timed out, refused or answered by an error: a claim is taken for lost, a   *)
(* step or beat is dropped, an outcome has its retries.                      *)
OneTryLess(p) == IF client[p].kind = "outcome" THEN client[p].tries - 1 ELSE client[p].tries

GiveUp(p) ==
  /\ ~ Free(p)
  /\ IF client[p].kind = "claim"
       THEN Leave(p)
       ELSE Become(p, [client[p] EXCEPT !.call = NoSession, !.kind = "none", !.tries = OneTryLess(p)])
  /\ UNCHANGED <<consoleVars, History>>

(* A call that never reaches the console; a step or a beat is just not sent.  *)
Unreached(p) ==
  /\ Free(p)
  /\ \/ /\ At(p, "next")
        /\ \E r \in Ids : Oldest(p, r) /\ Become(p, [client[p] EXCEPT !.todo = @ \ {r}])
     \/ /\ At(p, "report") /\ client[p].tries > 0 /\ ~ Silenced(p)
        /\ Become(p, [client[p] EXCEPT !.tries = @ - 1])
  /\ UNCHANGED <<consoleVars, History>>

(* The handler of a call nobody waits for any more. *)
Forgotten(s) ==
  /\ \A p \in Pollers : client[p].call # s
  /\ HangUp(s)
  /\ UNCHANGED <<client, History>>

(* The pass ends without a word: killed, or an exception that is not its own. *)
Die(p) ==
  /\ ~ At(p, "idle")
  /\ Become(p, IdleClient)
  /\ UNCHANGED <<consoleVars, History>>

-----------------------------------------------------------------------------
Answered(p) == Receive(p) \/ GiveUp(p)
Posting(p) == \E s \in UpdaterSessions : PostOutcome(p, s)
Calls(p) == \E s \in UpdaterSessions : Claim(p, s) \/ PostStep(p, s) \/ Beat(p, s)

PollerNext(p) ==
  \/ Poll(p) \/ EndPass(p) \/ Start(p) \/ NothingToDo(p) \/ Approve(p) \/ EndRun(p)
  \/ StopPosting(p) \/ LeaveRun(p) \/ Calls(p) \/ Posting(p) \/ Answered(p) \/ Unreached(p) \/ Die(p)

ConsoleNext ==
  /\ \/ \E s \in AdminSessions : AdminNext(s)
     \/ \E s \in UpdaterSessions : UpdaterWrites(s) \/ \E r \in Ids : RefuseCheck(s, r)
     \/ Expiry(Sweeper)
     \/ Environment
  /\ UNCHANGED <<client, History>>

ChannelNext ==
  \/ \E p \in Pollers : PollerNext(p)
  \/ \E s \in UpdaterSessions : Forgotten(s)
  \/ ConsoleNext

ChannelSpec == ChannelInit /\ [][ChannelNext]_channelVars

(* A run has its own timeouts and finitely many steps to post; a call has its *)
(* timeout, and the console's handlers end.  The heartbeat's minute is longer *)
(* than a call may take, so a post or a claim is not kept from the client's   *)
(* lock for ever.                                                            *)
PollerFairness(p) ==
  /\ WF_channelVars(EndPass(p)) /\ WF_channelVars(Start(p))
  /\ SF_channelVars(Approve(p) \/ EndRun(p))
  /\ WF_channelVars(StopPosting(p)) /\ WF_channelVars(LeaveRun(p))
  /\ WF_channelVars(Answered(p))
  /\ SF_channelVars(\E s \in UpdaterSessions : Claim(p, s))
  /\ SF_channelVars(Posting(p))

FairChannelSpec ==
  /\ ChannelSpec
  /\ \A p \in Pollers : PollerFairness(p)
  /\ \A s \in UpdaterSessions :
       /\ WF_channelVars(UpdaterWrites(s) /\ UNCHANGED <<client, History>>)
       /\ WF_channelVars(Forgotten(s))

-----------------------------------------------------------------------------
(* Properties                                                                *)

(* A request is acted on once at most, by a pass whose claim won it, whatever *)
(* answers were lost and however many passes share the token; one that was    *)
(* cancelled, refused or never approved is not acted on at all.              *)
RunsOnce ==
  \A r \in Ids : started[r] > 0 => started[r] = 1 /\ Phase(requests[r]) \in {"taken", "finished"}

(* An outcome the console shows for a request is the word its run ended with, *)
(* however often it was posted and whichever post landed.                    *)
VerdictIsTheRuns ==
  \A r \in Ids : requests[r].outcome \in RunOutcomes => requests[r].outcome = result[r]

(* With the host's floor no upgrade or rollback acts on the approval of its   *)
(* requester, wherever the console's setting was switched meanwhile.         *)
FloorHolds ==
  Floor => \A r \in Ids : started[r] > 0 /\ requests[r].action # "restart"
                            => requests[r].approver # requests[r].by

(* When a pass leaves a run behind, the console has the run's word, or the    *)
(* pass knows that the console closed the request, or every post failed.     *)
NothingLostSilently ==
  \A p \in Pollers :
    At(p, "closing") => Request(p).outcome = client[p].word \/ client[p].lost \/ client[p].tries = 0

(* Every pass ends, whatever answers it loses: the next one can start.        *)
PassEnds == \A p \in Pollers : ~ At(p, "idle") ~> At(p, "idle")

(* A pass that believes the console lost track of its request is right: the   *)
(* console shows the request failed.                                         *)
LostMeansFailed ==
  \A p \in Pollers : client[p].lost => Request(p).status = "failed"
=============================================================================
