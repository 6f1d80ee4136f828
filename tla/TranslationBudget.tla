--------------------------- MODULE TranslationBudget ---------------------------
(***************************************************************************)
(* The ceiling on billed characters (services/translation_budget.py) with   *)
(* its callers (services/translation.py): reserve against the day's and the *)
(* month's counters, call the provider, refund what it did not bill.  The   *)
(* counters are Redis's, one command at a time, or one process's memory     *)
(* while that process holds Redis for down; any command may raise, having   *)
(* taken effect or not, and the whole operation then runs in memory.        *)
(* One day and one month: the keys of another period are other counters.    *)
(***************************************************************************)
EXTENDS Integers, FiniteSets

CONSTANTS
  Requests,     \* translations
  Hosts,        \* processes that translate, each with its own _memory
  Redis, NoHost,
  Sizes,        \* characters a request may have
  Daily, Monthly,
  MaxTroubles   \* bound: Redis commands that raise

ASSUME HostsAreNoRedis == IsFiniteSet(Hosts) /\ Redis \notin Hosts /\ NoHost \notin Hosts
ASSUME SizesArePositive == Sizes \subseteq Nat \ {0} /\ Daily \in Nat /\ Monthly \in Nat
ASSUME TroublesAreNat == MaxTroubles \in Nat

VARIABLES
  count,     \* characters counted: [day, month] of each store
  away,      \* processes within _REDIS_RETRY_SECONDS of a Redis error
  ask,       \* what each translation is doing
  billed,    \* characters the provider billed
  troubles,
  givenBack  \* history: [day, month] characters refunded though billed, or twice

budgetVars == <<count, away, ask, billed, troubles, givenBack>>

Stores == Hosts \cup {Redis}
NewAsk == [at |-> "new", host |-> NoHost, size |-> 0]
InRedis == {"day", "month", "undoMonth", "undoDay", "refuse", "refundDay", "refundMonth"}

(* Values stay in their types.                                               *)
BudgetTypeOK ==
  /\ count \in [Stores -> [day : Int, month : Int]] /\ away \subseteq Hosts /\ billed \in Nat
  /\ ask \in [Requests -> [at : InRedis \cup {"new", "reserve", "call", "refund", "done"},
                           host : Hosts \cup {NoHost}, size : Sizes \cup {0}]]
  /\ troubles \in 0..MaxTroubles /\ givenBack \in [day : Nat, month : Nat]

BudgetInit ==
  /\ count = [s \in Stores |-> [day |-> 0, month |-> 0]] /\ away = {}
  /\ ask = [t \in Requests |-> NewAsk] /\ billed = 0 /\ troubles = 0
  /\ givenBack = [day |-> 0, month |-> 0]

AskAt(t, at) == ask[t].at = at
Asks(t, at) == ask' = [ask EXCEPT ![t].at = at]
Size(t) == ask[t].size

PastBudgetMutant(total, chars, limit) == total - chars >= limit
PastBudget(total, chars, limit) == total > limit

(* _run: Redis, unless this process gave it up lately.                       *)
Begins(t, inRedis, inMemory) ==
  Asks(t, IF ask[t].host \in away THEN inMemory ELSE inRedis)

-----------------------------------------------------------------------------
StartAsk(t, h, chars) ==
  /\ AskAt(t, "new")
  /\ ask' = [ask EXCEPT ![t] = [at |-> IF h \in away THEN "reserve" ELSE "day", host |-> h,
                                size |-> chars]]
  /\ UNCHANGED <<count, away, billed, troubles, givenBack>>

(* INCRBY and the test of its answer; past the budget it is taken back.      *)
AddDay(t) ==
  /\ AskAt(t, "day") /\ count' = [count EXCEPT ![Redis].day = @ + Size(t)]
  /\ Asks(t, IF PastBudget(count'[Redis].day, Size(t), Daily) THEN "undoDay" ELSE "month")
  /\ UNCHANGED <<away, billed, troubles, givenBack>>

AddMonth(t) ==
  /\ AskAt(t, "month") /\ count' = [count EXCEPT ![Redis].month = @ + Size(t)]
  /\ Asks(t, IF PastBudget(count'[Redis].month, Size(t), Monthly) THEN "undoMonth" ELSE "call")
  /\ UNCHANGED <<away, billed, troubles, givenBack>>

UndoMonth(t) ==
  /\ AskAt(t, "undoMonth") /\ count' = [count EXCEPT ![Redis].month = @ - Size(t)]
  /\ Asks(t, "undoDay") /\ UNCHANGED <<away, billed, troubles, givenBack>>

UndoDay(t) ==
  /\ AskAt(t, "undoDay") /\ count' = [count EXCEPT ![Redis].day = @ - Size(t)]
  /\ Asks(t, "refuse") /\ UNCHANGED <<away, billed, troubles, givenBack>>

(* The mark that the budget is exhausted is one more command.                *)
RefuseAsk(t) ==
  /\ AskAt(t, "refuse") /\ Asks(t, "done")
  /\ UNCHANGED <<count, away, billed, troubles, givenBack>>

(* The same in memory: nothing in it waits, so it is one step.               *)
ReserveInMemory(t) ==
  /\ AskAt(t, "reserve")
  /\ LET h == ask[t].host
         fits == /\ ~PastBudget(count[h].day + Size(t), Size(t), Daily)
                 /\ ~PastBudget(count[h].month + Size(t), Size(t), Monthly)
     IN  IF fits THEN /\ Asks(t, "call")
                      /\ count' = [count EXCEPT ![h] = [day |-> @.day + Size(t), month |-> @.month + Size(t)]]
         ELSE Asks(t, "done") /\ UNCHANGED count
  /\ UNCHANGED <<away, billed, troubles, givenBack>>

-----------------------------------------------------------------------------
(* The provider translates and bills; or nothing is billed; or it billed and *)
(* the call, or saving its answer, raised.  The last two are refunded.       *)
Translated(t) ==
  /\ AskAt(t, "call") /\ billed' = billed + Size(t) /\ Asks(t, "done")
  /\ UNCHANGED <<count, away, troubles, givenBack>>

NotBilled(t) ==
  /\ AskAt(t, "call") /\ Begins(t, "refundDay", "refund")
  /\ UNCHANGED <<count, away, billed, troubles, givenBack>>

BilledAndRaised(t) ==
  /\ AskAt(t, "call") /\ billed' = billed + Size(t)
  /\ Begins(t, "refundDay", "refund")
  /\ givenBack' = [day |-> givenBack.day + Size(t), month |-> givenBack.month + Size(t)]
  /\ UNCHANGED <<count, away, troubles>>

(* Cancelled between reserve and refund: the characters stay counted.        *)
AskCancelled(t) ==
  /\ AskAt(t, "call") /\ Asks(t, "done") /\ UNCHANGED <<count, away, billed, troubles, givenBack>>

RefundDay(t) ==
  /\ AskAt(t, "refundDay") /\ count' = [count EXCEPT ![Redis].day = @ - Size(t)]
  /\ Asks(t, "refundMonth") /\ UNCHANGED <<away, billed, troubles, givenBack>>

RefundMonth(t) ==
  /\ AskAt(t, "refundMonth") /\ count' = [count EXCEPT ![Redis].month = @ - Size(t)]
  /\ Asks(t, "done") /\ UNCHANGED <<away, billed, troubles, givenBack>>

RefundInMemory(t) ==
  /\ AskAt(t, "refund") /\ Asks(t, "done")
  /\ count' = [count EXCEPT ![ask[t].host] = [day |-> @.day - Size(t), month |-> @.month - Size(t)]]
  /\ UNCHANGED <<away, billed, troubles, givenBack>>

-----------------------------------------------------------------------------
(* What the command at hand does to Redis's counters.                        *)
Effect(t) ==
  LET c == count[Redis]
  IN  CASE AskAt(t, "day") -> [c EXCEPT !.day = @ + Size(t)]
        [] AskAt(t, "month") -> [c EXCEPT !.month = @ + Size(t)]
        [] AskAt(t, "undoMonth") \/ AskAt(t, "refundMonth") -> [c EXCEPT !.month = @ - Size(t)]
        [] AskAt(t, "undoDay") \/ AskAt(t, "refundDay") -> [c EXCEPT !.day = @ - Size(t)]
        [] OTHER -> c

(* The command raises: the process keeps off Redis for a while, and the      *)
(* operation starts over in its memory whatever it had done in Redis.  A     *)
(* refund that had reached Redis in part is given a second time.             *)
RedisCommandRaises(t) ==
  /\ ask[t].at \in InRedis /\ troubles < MaxTroubles /\ troubles' = troubles + 1
  /\ away' = away \cup {ask[t].host}
  /\ Asks(t, IF AskAt(t, "refundDay") \/ AskAt(t, "refundMonth") THEN "refund" ELSE "reserve")
  /\ \E done \in BOOLEAN :
       /\ count' = IF done THEN [count EXCEPT ![Redis] = Effect(t)] ELSE count
       /\ givenBack' =
            [day |-> givenBack.day + (IF AskAt(t, "refundMonth") \/ (AskAt(t, "refundDay") /\ done)
                                      THEN Size(t) ELSE 0),
             month |-> givenBack.month + (IF AskAt(t, "refundMonth") /\ done THEN Size(t) ELSE 0)]
  /\ UNCHANGED billed

RedisIsBack(h) ==
  /\ h \in away /\ away' = away \ {h} /\ UNCHANGED <<count, ask, billed, troubles, givenBack>>

AskStep(t) ==
  \/ \E h \in Hosts, chars \in Sizes : StartAsk(t, h, chars)
  \/ AddDay(t) \/ AddMonth(t) \/ UndoMonth(t) \/ UndoDay(t) \/ RefuseAsk(t) \/ ReserveInMemory(t)
  \/ Translated(t) \/ NotBilled(t) \/ BilledAndRaised(t) \/ AskCancelled(t)
  \/ RefundDay(t) \/ RefundMonth(t) \/ RefundInMemory(t) \/ RedisCommandRaises(t)

BudgetNext == (\E t \in Requests : AskStep(t)) \/ \E h \in Hosts : RedisIsBack(h)

BudgetSpec == BudgetInit /\ [][BudgetNext]_budgetVars

-----------------------------------------------------------------------------
(* What can be billed in a period is one budget per store, Redis and each    *)
(* process that had to count by itself, however reservations race, whichever *)
(* command of one failed and wherever its refund went; but for characters    *)
(* given back although they were billed, or given back twice.                *)
SpendIsBounded ==
  LET stores == 1 + Cardinality(Hosts)
  IN  billed <= stores * Daily + givenBack.day /\ billed <= stores * Monthly + givenBack.month
=============================================================================
