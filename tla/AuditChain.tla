------------------------------ MODULE AuditChain ------------------------------
(***************************************************************************)
(* The hash chain of the sign-in and admin log (core/audit_chain.py, the    *)
(* before_flush listener of models.py), its nightly anchor, the purge of    *)
(* addresses and the verification (services/audit_service.py), all on one   *)
(* table at the same time.                                                 *)
(*                                                                         *)
(* A hash is the sequence of the entries it covers, which is what a hash    *)
(* without collisions stands for.  An entry is the number of its sealing:   *)
(* its microsecond timestamp makes it unlike any other.                     *)
(***************************************************************************)
EXTENDS Naturals, FiniteSets, Sequences

CONSTANTS
  Writers,     \* transactions that write entries
  NoWriter,
  MaxSeals,    \* bound: entries ever sealed, and with them ids ever drawn
  MaxRemoved   \* bound: times somebody deletes the newest entries by hand

ASSUME SealsAreNat == MaxSeals \in Nat /\ MaxRemoved \in Nat /\ NoWriter \notin Writers

Ids == 1..MaxSeals

VARIABLES
  log,        \* audit_logs by id; seen: committed
  drawn,      \* last id of the sequence
  chainLock,  \* holder of pg_advisory_xact_lock(CHAIN_LOCK_KEY)
  anchors,    \* audit_anchors
  anchorTask, \* anchor_audit_chain
  verifier,   \* verify_integrity
  removed     \* history: [times, anchored]: deletions, anchored heads among them

auditVars == <<log, drawn, chainLock, anchors, anchorTask, verifier, removed>>

NoEntry == [by |-> NoWriter, seen |-> FALSE, prev |-> <<>>, hash |-> <<>>, context |-> "none", old |-> FALSE]
Seen == {i \in Ids : log[i].seen}
Newest(S) == CHOOSE i \in S : \A j \in S : j <= i
HeadHash(S) == IF S = {} THEN <<>> ELSE log[Newest(S)].hash
NoVerify == [at |-> "rest", due |-> {}, top |-> 0, last |-> 0, hash |-> <<>>, position |-> 0, missing |-> {}]
NoAnchoring == [at |-> "rest", id |-> 0, hash |-> <<>>]

(* Values stay in their types.                                               *)
AuditTypeOK ==
  /\ \A i \in Ids : /\ log[i].by \in Writers \cup {NoWriter} /\ log[i].seen \in BOOLEAN
                    /\ log[i].prev \in Seq(Ids) /\ log[i].hash \in Seq(Ids)
                    /\ log[i].context \in {"none", "kept", "purged"} /\ log[i].old \in BOOLEAN
  /\ drawn \in 0..MaxSeals /\ chainLock \in Writers \cup {NoWriter}
  /\ \A a \in anchors : a.id \in Ids /\ a.count \in 1..MaxSeals
  /\ verifier.at \in {"rest", "top", "scan", "valid", "broken"}
  /\ anchorTask.at \in {"rest", "count"} /\ removed.times \in 0..MaxRemoved

AuditInit ==
  /\ log = [i \in Ids |-> NoEntry] /\ drawn = 0 /\ chainLock = NoWriter /\ anchors = {}
  /\ anchorTask = NoAnchoring /\ verifier = NoVerify /\ removed = [times |-> 0, anchored |-> {}]

-----------------------------------------------------------------------------
(* before_flush: the lock of the transaction, the newest entry it can see,   *)
(* its own included, the seal, and the insert with the next id.              *)
ChainLockFreeMutant(w) == TRUE
ChainLockFree(w) == chainLock \in {w, NoWriter}

SealEntry(w) ==
  /\ drawn < MaxSeals /\ ChainLockFree(w) /\ chainLock' = w /\ drawn' = drawn + 1
  /\ \E context \in {"none", "kept"} :
       LET previous == HeadHash({i \in Ids : log[i].seen \/ log[i].by = w})
       IN  log' = [log EXCEPT ![drawn + 1] =
                     [NoEntry EXCEPT !.by = w, !.prev = previous, !.context = context,
                                     !.hash = Append(previous, drawn + 1)]]
  /\ UNCHANGED <<anchors, anchorTask, verifier, removed>>

Owns(w) == \E i \in Ids : log[i].by = w
Unlocked(w) == chainLock' = IF chainLock = w THEN NoWriter ELSE chainLock

CommitEntries(w) ==
  /\ Owns(w) /\ Unlocked(w)
  /\ log' = [i \in Ids |-> IF log[i].by = w THEN [log[i] EXCEPT !.by = NoWriter, !.seen = TRUE] ELSE log[i]]
  /\ UNCHANGED <<drawn, anchors, anchorTask, verifier, removed>>

(* A failed handler, a lost connection: the ids it drew stay unused.         *)
RollBackEntries(w) ==
  /\ Owns(w) /\ Unlocked(w) /\ log' = [i \in Ids |-> IF log[i].by = w THEN NoEntry ELSE log[i]]
  /\ UNCHANGED <<drawn, anchors, anchorTask, verifier, removed>>

-----------------------------------------------------------------------------
(* Ninety days pass over the oldest entries; the purge takes the address and *)
(* its salt, never the entry.                                                *)
EntriesAge(i) ==
  /\ i \in Seen /\ ~log[i].old /\ log[i].context = "kept"
  /\ \A j \in Seen : j < i => log[j].old \/ log[j].context = "none"
  /\ log' = [log EXCEPT ![i].old = TRUE]
  /\ UNCHANGED <<drawn, chainLock, anchors, anchorTask, verifier, removed>>

Purged(row) == [row EXCEPT !.context = "purged"]

PurgeAddresses ==
  /\ \E i \in Seen : log[i].old /\ log[i].context = "kept"
  /\ log' = [i \in Ids |-> IF log[i].seen /\ log[i].old /\ log[i].context = "kept"
                           THEN Purged(log[i]) ELSE log[i]]
  /\ UNCHANGED <<drawn, chainLock, anchors, anchorTask, verifier, removed>>

(* anchor_audit_chain: the head first; then the entries up to it, and the    *)
(* anchor, unless the last one says the same.                                *)
AnchorHead ==
  /\ anchorTask.at = "rest" /\ Seen # {}
  /\ anchorTask' = [at |-> "count", id |-> Newest(Seen), hash |-> HeadHash(Seen)]
  /\ UNCHANGED <<log, drawn, chainLock, anchors, verifier, removed>>

Counted == Cardinality({i \in Seen : i <= anchorTask.id})

AnchorWrite ==
  /\ anchorTask.at = "count" /\ anchorTask' = NoAnchoring
  /\ anchors' = IF Counted = 0 \/ \E a \in anchors : a.id = anchorTask.id /\ a.hash = anchorTask.hash
                THEN anchors
                ELSE anchors \cup {[id |-> anchorTask.id, hash |-> anchorTask.hash, count |-> Counted]}
  /\ UNCHANGED <<log, drawn, chainLock, verifier, removed>>

(* The newest entries are deleted by hand.  Not under the anchor's task: an  *)
(* anchor of entries that were gone before it says nothing about them.       *)
RemoveNewest ==
  /\ removed.times < MaxRemoved /\ Seen # {} /\ anchorTask.at = "rest"
  /\ removed' = [times |-> removed.times + 1,
                 anchored |-> removed.anchored \cup {a \in anchors : a.id = Newest(Seen)}]
  /\ log' = [log EXCEPT ![Newest(Seen)] = NoEntry]
  /\ UNCHANGED <<drawn, chainLock, anchors, anchorTask, verifier>>

-----------------------------------------------------------------------------
(* verify_integrity: the anchors, then the newest id, then the rows in       *)
(* batches, each a statement of its own.                                     *)
VerifyAnchors ==
  /\ verifier.at \in {"rest", "valid", "broken"}
  /\ verifier' = [NoVerify EXCEPT !.at = "top", !.due = anchors, !.missing = removed.anchored]
  /\ UNCHANGED <<log, drawn, chainLock, anchors, anchorTask, removed>>

VerifyTop ==
  /\ verifier.at = "top"
  /\ verifier' = [verifier EXCEPT !.at = "scan", !.top = IF Seen = {} THEN 0 ELSE Newest(Seen)]
  /\ UNCHANGED <<log, drawn, chainLock, anchors, anchorTask, removed>>

Ahead == {i \in Seen : verifier.last < i /\ i <= verifier.top}

(* An anchored head that was stepped over, an entry that does not match its  *)
(* hash, a link that does not meet the entry before, an anchor that says     *)
(* otherwise.                                                                *)
RowBreaks(i) ==
  LET row == log[i]
  IN  \/ \E a \in verifier.due : a.id < i
      \/ row.hash # Append(row.prev, i)
      \/ row.prev # verifier.hash
      \/ row.context = "purged" /\ ~row.old
      \/ \E a \in verifier.due : a.id = i /\ (a.hash # row.hash \/ a.count # verifier.position + 1)

ScanRow ==
  /\ verifier.at = "scan" /\ Ahead # {}
  /\ LET i == CHOOSE j \in Ahead : \A k \in Ahead : j <= k
     IN  verifier' = IF RowBreaks(i) THEN [verifier EXCEPT !.at = "broken"]
                     ELSE [verifier EXCEPT !.last = i, !.hash = log[i].hash, !.position = @ + 1,
                                           !.due = {a \in @ : a.id > i}]
  /\ UNCHANGED <<log, drawn, chainLock, anchors, anchorTask, removed>>

EndVerify ==
  /\ verifier.at = "scan" /\ Ahead = {}
  /\ verifier' = [verifier EXCEPT !.at = IF verifier.due = {} THEN "valid" ELSE "broken"]
  /\ UNCHANGED <<log, drawn, chainLock, anchors, anchorTask, removed>>

AuditNext ==
  \/ \E w \in Writers : SealEntry(w) \/ CommitEntries(w) \/ RollBackEntries(w)
  \/ \E i \in Ids : EntriesAge(i)
  \/ PurgeAddresses \/ AnchorHead \/ AnchorWrite \/ RemoveNewest
  \/ VerifyAnchors \/ VerifyTop \/ ScanRow \/ EndVerify

AuditSpec == AuditInit /\ [][AuditNext]_auditVars

-----------------------------------------------------------------------------
(* Nobody is told of tampering that did not happen: a verification that runs *)
(* beside writers, rollbacks, the purge and the anchor reports a break only  *)
(* when entries were deleted; and it does report one when an anchored entry  *)
(* had been deleted before it began.                                         *)
VerdictIsTrue ==
  /\ verifier.at = "broken" => removed.times > 0
  /\ verifier.at = "valid" => verifier.missing = {}
=============================================================================
