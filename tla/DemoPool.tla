-------------------------------- MODULE DemoPool --------------------------------
(***************************************************************************)
(* The demo orchestrator (demo-orchestrator/server.js): stacks of           *)
(* containers that are created on request and destroyed after a day.  Its   *)
(* registry is one JSON file.  Loading and saving it are synchronous, but   *)
(* every handler keeps the map it loaded across its awaits and writes the   *)
(* whole of it back, so a save undoes what others saved meanwhile.  The      *)
(* Caddyfile is rewritten from the map that is saved and is not kept here.   *)
(***************************************************************************)
EXTENDS Naturals, FiniteSets

CONSTANTS
  Demos,           \* the ids creates draw, numbered in the order they are drawn
  Janitors,        \* runs of cleanup and recovery, and DELETE handlers
  MaxDemos,        \* MAX_INSTANCES
  MaxDemoFaults    \* bound: restarts and failed teardowns

ASSUME DemosAreNumbered == Demos \subseteq Nat
ASSUME PoolHoldsSome == MaxDemos \in Nat \ {0} /\ MaxDemoFaults \in Nat

VARIABLES
  listed,      \* the file: a status for each demo, "none" where it has no entry
  port,        \* the port of each demo, 0 before it is created
  up,          \* demos whose containers run
  expired,     \* demos older than the TTL
  creator,     \* the create handler of each demo and the map it holds
  janitor,     \* what each of the others is doing
  savedOver,     \* history: entries that an older map was saved over
  torn,        \* history: demos a teardown was tried on
  poolFaults

poolVars == <<listed, port, up, expired, creator, janitor, savedOver, torn, poolFaults>>

DemoStates == {"none", "starting", "booting", "ready", "failed"}
Nothing == [d \in Demos |-> "none"]
In(map) == {d \in Demos : map[d] # "none"}
Ports == 0..MaxDemos
IdleJanitor == [at |-> "idle", kind |-> "cleanup", map |-> Nothing, todo |-> {}, done |-> {}]

PoolTypeOK ==
  /\ listed \in [Demos -> DemoStates] /\ port \in [Demos -> Ports]
  /\ up \subseteq Demos /\ expired \subseteq Demos
  /\ creator \in [Demos -> [at : {"idle", "spin", "health", "undo", "over"}, map : [Demos -> DemoStates]]]
  /\ janitor \in [Janitors -> [at : {"idle", "work", "save", "over"}, kind : {"cleanup", "recover", "delete"},
                               map : [Demos -> DemoStates], todo : SUBSET Demos, done : SUBSET Demos]]
  /\ savedOver \subseteq Demos /\ torn \subseteq Demos /\ poolFaults \in 0..MaxDemoFaults

PoolInit ==
  /\ listed = Nothing /\ port = [d \in Demos |-> 0] /\ up = {} /\ expired = {}
  /\ creator = [d \in Demos |-> [at |-> "idle", map |-> Nothing]]
  /\ janitor = [j \in Janitors |-> IdleJanitor]
  /\ savedOver = {} /\ torn = {} /\ poolFaults = 0

(* saveRegistry, by a handler that itself took out the entries of gone.      *)
SaveMap(map, gone) ==
  /\ listed' = map
  /\ savedOver' = (savedOver \cup (In(listed) \ gone)) \ In(map)

(* The entries a handler has taken out of the map it holds.                  *)
RemovedBy(j) == janitor[j].done \ In(janitor[j].map)

PoolFault == poolFaults < MaxDemoFaults /\ poolFaults' = poolFaults + 1

(* docker compose down: its failure is logged and passed over.               *)
Teardown(d) ==
  /\ torn' = torn \cup {d}
  /\ \/ up' = up \ {d} /\ UNCHANGED poolFaults
     \/ d \in up /\ PoolFault /\ UNCHANGED up

-----------------------------------------------------------------------------
(* POST /create: up to the answer nothing is awaited, and the entry is on    *)
(* file before anything runs.                                                *)
FreePort(map) == CHOOSE p \in 1..MaxDemos :
                   /\ \A d \in In(map) : port[d] # p
                   /\ \A q \in 1..(p - 1) : \E d \in In(map) : port[d] = q

AnnouncedMutant(map) == UNCHANGED <<listed, savedOver>>
Announced(map) == SaveMap(map, {})

CreateDemo(d) ==
  /\ creator[d].at = "idle" /\ \A e \in Demos : e < d => creator[e].at # "idle"
  /\ Cardinality(In(listed)) < MaxDemos
  /\ LET map == [listed EXCEPT ![d] = "starting"]
     IN  Announced(map) /\ creator' = [creator EXCEPT ![d] = [at |-> "spin", map |-> map]]
  /\ port' = [port EXCEPT ![d] = FreePort(listed)]
  /\ UNCHANGED <<up, expired, janitor, torn, poolFaults>>

(* docker compose up; two stacks cannot publish one port.  A stack that was  *)
(* torn down while it was being started runs on.                             *)
PortTaken(d) == \E e \in up \ {d} : port[e] = port[d]

SpinsUp(d) ==
  /\ creator[d].at = "spin" /\ ~PortTaken(d) /\ up' = up \cup {d}
  /\ LET map == [creator[d].map EXCEPT ![d] = "booting"]
     IN  SaveMap(map, {}) /\ creator' = [creator EXCEPT ![d] = [at |-> "health", map |-> map]]
  /\ UNCHANGED <<port, expired, janitor, torn, poolFaults>>

(* up fails, with its containers running or not, or the demo is not healthy  *)
(* in time.                                                                  *)
CreateTurnsBad(d) ==
  /\ creator[d].at \in {"spin", "health"}
  /\ IF creator[d].at = "spin" /\ ~PortTaken(d) THEN up' \in {up, up \cup {d}} ELSE UNCHANGED up
  /\ LET map == [creator[d].map EXCEPT ![d] = "failed"]
     IN  creator' = [creator EXCEPT ![d] = [at |-> "undo", map |-> map]]
  /\ UNCHANGED <<listed, port, expired, janitor, savedOver, torn, poolFaults>>

CreateUndone(d) ==
  /\ creator[d].at = "undo" /\ Teardown(d) /\ SaveMap(creator[d].map, {})
  /\ creator' = [creator EXCEPT ![d] = [at |-> "over", map |-> Nothing]]
  /\ UNCHANGED <<port, expired, janitor>>

(* The health probe asks whatever listens on the port.                       *)
Answers(d) == \E e \in up : port[e] = port[d]

CreateDone(d) ==
  /\ creator[d].at = "health" /\ Answers(d)
  /\ LET map == [creator[d].map EXCEPT ![d] = "ready"] IN SaveMap(map, {})
  /\ creator' = [creator EXCEPT ![d] = [at |-> "over", map |-> Nothing]]
  /\ UNCHANGED <<port, up, expired, janitor, torn, poolFaults>>

(* An instance outlives every step of its own create by hours.               *)
DemoExpires(d) ==
  /\ creator[d].at = "over" /\ expired' = expired \cup {d}
  /\ UNCHANGED <<listed, port, up, creator, janitor, savedOver, torn, poolFaults>>

-----------------------------------------------------------------------------
(* cleanupExpired, recoverStuckInstances and DELETE /demo/:id load the map,  *)
(* await something for each entry they chose, and save.                      *)
Stuck(map) == {d \in Demos : map[d] \in {"starting", "booting"}}

JanitorLoads(j, kind, todo) ==
  /\ janitor[j].at = "idle" /\ todo # {} /\ todo \subseteq In(listed)
  /\ \/ kind = "cleanup" /\ todo = In(listed) \cap expired
     \/ kind = "recover" /\ todo = Stuck(listed)
     \/ kind = "delete" /\ Cardinality(todo) = 1
  /\ janitor' = [janitor EXCEPT ![j] = [at |-> "work", kind |-> kind, map |-> listed,
                                        todo |-> todo, done |-> {}]]
  /\ UNCHANGED <<listed, port, up, expired, creator, savedOver, torn, poolFaults>>

Finished == [IdleJanitor EXCEPT !.at = "over"]
Settled(work) == IF work.todo # {} THEN work
                 ELSE IF work.done = {} THEN Finished ELSE [work EXCEPT !.at = "save"]
Left(j, d) == janitor[j].todo \ {d}
Done(j, d) == janitor[j].done \cup {d}

JanitorTears(j, d) ==
  /\ janitor[j].at = "work" /\ janitor[j].kind # "recover" /\ d \in janitor[j].todo
  /\ Teardown(d)
  /\ janitor' = [janitor EXCEPT
       ![j] = Settled([janitor[j] EXCEPT !.todo = Left(j, d), !.done = Done(j, d), !.map[d] = "none"])]
  /\ UNCHANGED <<listed, port, expired, creator, savedOver>>

JanitorProbes(j, d) ==
  /\ janitor[j].at = "work" /\ janitor[j].kind = "recover" /\ d \in janitor[j].todo
  /\ \/ /\ Answers(d)
        /\ janitor' = [janitor EXCEPT
             ![j] = Settled([janitor[j] EXCEPT !.todo = Left(j, d), !.done = Done(j, d),
                                               !.map[d] = "ready"])]
     \/ janitor' = [janitor EXCEPT ![j] = Settled([janitor[j] EXCEPT !.todo = Left(j, d)])]
  /\ UNCHANGED <<listed, port, up, expired, creator, savedOver, torn, poolFaults>>

JanitorSaves(j) ==
  /\ janitor[j].at = "save"
  /\ SaveMap(janitor[j].map, RemovedBy(j))
  /\ janitor' = [janitor EXCEPT ![j] = Finished]
  /\ UNCHANGED <<port, up, expired, creator, torn, poolFaults>>

(* The process dies with every handler in it.  docker may have finished what *)
(* it was told.  A file cut off in a save is read as an empty registry.      *)
PoolRestarts ==
  /\ PoolFault /\ \E d \in Demos : creator[d].at \notin {"idle", "over"}
  /\ \E more \in SUBSET {d \in Demos : creator[d].at = "spin" /\ ~PortTaken(d)} :
       /\ \A d, e \in more : d # e => port[d] # port[e]
       /\ up' = up \cup more
  /\ creator' = [d \in Demos |-> [at |-> IF creator[d].at = "idle" THEN "idle" ELSE "over",
                                  map |-> Nothing]]
  /\ janitor' = [j \in Janitors |-> IF janitor[j].at = "idle" THEN janitor[j] ELSE Finished]
  /\ UNCHANGED <<listed, savedOver>> \/ SaveMap(Nothing, {})
  /\ UNCHANGED <<port, expired, torn>>

PoolNext ==
  \/ \E d \in Demos : \/ CreateDemo(d) \/ SpinsUp(d) \/ CreateTurnsBad(d) \/ CreateUndone(d)
                      \/ CreateDone(d) \/ DemoExpires(d)
  \/ \E j \in Janitors :
       \/ \E kind \in {"cleanup", "recover", "delete"}, todo \in SUBSET Demos : JanitorLoads(j, kind, todo)
       \/ \E d \in Demos : JanitorTears(j, d) \/ JanitorProbes(j, d)
       \/ JanitorSaves(j)
  \/ PoolRestarts

PoolSpec == PoolInit /\ [][PoolNext]_poolVars

-----------------------------------------------------------------------------
(* Whatever is saved over what, the file always is a registry the code could *)
(* have meant, within MAX_INSTANCES and with a port for each, and a stack    *)
(* that runs with no entry, its create still under way or not, is one whose  *)
(* entry an older map was saved over or which a teardown found still         *)
(* starting, or failed to stop.                                              *)
StacksAreTracked ==
  /\ Cardinality(In(listed)) <= MaxDemos
  /\ \A d, e \in In(listed) : d # e => port[d] # port[e]
  /\ up \ In(listed) \subseteq savedOver \cup torn

(* README.md calls MAX_INSTANCES "Max concurrent demo instances": not of the *)
(* stacks that run, once an entry is saved over.                             *)
NeverMoreThanMax == Cardinality(up) <= MaxDemos
=============================================================================
