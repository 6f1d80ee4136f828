------------------------------ MODULE CommentSync ------------------------------
(***************************************************************************)
(* The comments of one linked report (tasks/integrations.py): ours are      *)
(* posted to the vendor by push_comment_to_integrations, all of the         *)
(* vendor's are imported by pull_integration_comments.  What keeps our own  *)
(* from coming back are the markers on the link, written after the post;    *)
(* what keeps theirs from coming twice is the reference stored with each.   *)
(* Neither task takes a lock, and a poll loads its links before it asks.    *)
(***************************************************************************)
EXTENDS Naturals, FiniteSets

CONSTANTS
  Posters,     \* Celery workers
  Comments,    \* external comments written in Pinpoint
  Replies,     \* comments written at the vendor
  MaxPostFaults \* bound: refusals, lost answers and kills

ASSUME OursAreNotTheirs == Comments \cap Replies = {}
ASSUME PostFaultsAreNat == MaxPostFaults \in Nat

VARIABLES
  written,   \* comments saved in Pinpoint
  toPost,    \* push_comment tasks in the queue
  copies,    \* how often the vendor holds each comment
  markers,   \* IntegrationLink.pushed_comment_ids
  imports,   \* how often each comment was imported from the vendor
  slip,      \* the push_comment backlog row of each comment
  post,      \* what each worker is doing
  postFaults,
  together,  \* history: two jobs overlapped
  unmarked,  \* history: comments that reached the vendor and got no marker
  forgotten  \* history: comments whose task was killed

commentVars == <<written, toPost, copies, markers, imports, slip, post, postFaults,
                 together, unmarked, forgotten>>

IdlePost == [op |-> "idle", at |-> "read", c |-> {}, seen |-> {}, got |-> {}]
SlipIsOpen(c) == slip[c] \in {"later", "due"}

(* Values stay in their types.                                               *)
CommentTypeOK ==
  /\ written \subseteq Comments \cup Replies /\ toPost \subseteq Comments
  /\ copies \in [Comments \cup Replies -> Nat] /\ imports \in [Comments \cup Replies -> Nat]
  /\ markers \subseteq Comments /\ unmarked \subseteq Comments /\ forgotten \subseteq Comments
  /\ slip \in [Comments -> {"none", "later", "due", "closed"}]
  /\ post \in [Posters -> [op : {"idle", "post", "import"},
                           at : {"read", "call", "mark", "record", "fetch", "save", "add"},
                           c : SUBSET Comments, seen : SUBSET Comments,
                           got : SUBSET (Comments \cup Replies)]]
  /\ postFaults \in 0..MaxPostFaults /\ together \in BOOLEAN

CommentInit ==
  /\ written = {} /\ toPost = {} /\ markers = {} /\ unmarked = {} /\ forgotten = {}
  /\ copies = [c \in Comments \cup Replies |-> 0]
  /\ imports = [c \in Comments \cup Replies |-> 0]
  /\ slip = [c \in Comments |-> "none"]
  /\ post = [w \in Posters |-> IdlePost]
  /\ postFaults = 0 /\ together = FALSE

Free(w) == post[w].op = "idle"
Stands(w, op, at) == post[w].op = op /\ post[w].at = at
Go(w, at) == post' = [post EXCEPT ![w].at = at]
Rest(w) == post' = [post EXCEPT ![w] = IdlePost]
PostFault == postFaults < MaxPostFaults /\ postFaults' = postFaults + 1
Joining(w) == together' = (together \/ \E x \in Posters \ {w} : ~Free(x))

-----------------------------------------------------------------------------
(* A comment is committed and its push queued; without a broker its row is   *)
(* written instead (record_unqueued_push).                                   *)
Write(c) ==
  /\ c \notin written /\ written' = written \cup {c}
  /\ \/ toPost' = toPost \cup {c} /\ UNCHANGED <<slip, postFaults>>
     \/ PostFault /\ slip' = [slip EXCEPT ![c] = "later"] /\ UNCHANGED toPost
  /\ UNCHANGED <<copies, markers, imports, post, together, unmarked, forgotten>>

Reply(r) ==
  /\ r \notin written /\ written' = written \cup {r} /\ copies' = [copies EXCEPT ![r] = 1]
  /\ UNCHANGED <<toPost, markers, imports, slip, post, postFaults, together, unmarked, forgotten>>

-----------------------------------------------------------------------------
(* A queued task, or the replay of a due row; a comment whose marker is on   *)
(* the link is skipped, and nothing else is done for it.                     *)
AlreadyMarked(c) == c \in markers

StartPost(w, c) ==
  IF AlreadyMarked(c) THEN UNCHANGED <<post, together>>
  ELSE /\ post' = [post EXCEPT ![w] = [IdlePost EXCEPT !.op = "post", !.at = "call", !.c = {c},
                                                       !.seen = markers]]
       /\ Joining(w)

TakePost(w, c) ==
  /\ Free(w) /\ c \in toPost /\ toPost' = toPost \ {c} /\ StartPost(w, c)
  /\ UNCHANGED <<written, copies, markers, imports, slip, postFaults, unmarked, forgotten>>

ReplaySlip(w, c) ==
  /\ Free(w) /\ slip[c] = "due" /\ StartPost(w, c)
  /\ UNCHANGED <<written, toPost, copies, markers, imports, slip, postFaults, unmarked, forgotten>>

Posted(w) == [c \in Comments \cup Replies |-> IF c \in post[w].c THEN copies[c] + 1 ELSE copies[c]]

PostCall(w) ==
  /\ Stands(w, "post", "call") /\ copies' = Posted(w) /\ Go(w, "mark")
  /\ UNCHANGED <<written, toPost, markers, imports, slip, postFaults, together, unmarked, forgotten>>

PostRefused(w) ==
  /\ Stands(w, "post", "call") /\ PostFault /\ Go(w, "record")
  /\ UNCHANGED <<written, toPost, copies, markers, imports, slip, together, unmarked, forgotten>>

PostAnswerLost(w) ==
  /\ Stands(w, "post", "call") /\ PostFault /\ Go(w, "record")
  /\ copies' = Posted(w) /\ unmarked' = unmarked \cup post[w].c
  /\ UNCHANGED <<written, toPost, markers, imports, slip, together, forgotten>>

(* The whole list is written back from what the session loaded, and _log     *)
(* commits it.  _clear_dead_letter follows, with the comment but without     *)
(* the report: it looks for rows whose report is NULL.                       *)
ClearedBy(c) == {}                        \* no row is recorded without its report

PostMark(w) ==
  /\ Stands(w, "post", "mark") /\ markers' = post[w].seen \cup post[w].c
  /\ slip' = [c \in Comments |-> IF c \in UNION {ClearedBy(d) : d \in post[w].c}
                                    /\ SlipIsOpen(c) THEN "closed" ELSE slip[c]]
  /\ Rest(w)
  /\ UNCHANGED <<written, toPost, copies, imports, postFaults, together, unmarked, forgotten>>

(* _record_dead_letter with report and comment: here the unique constraint   *)
(* holds, so a comment has one row at most.  A closed row (discarded) keeps  *)
(* its key: the insert is refused and the refusal swallowed.                 *)
RecordableMutant(c) == SlipIsOpen(c)
Recordable(c) == slip[c] # "closed"

PostRecord(w) ==
  /\ Stands(w, "post", "record")
  /\ slip' = [c \in Comments |-> IF c \in post[w].c /\ Recordable(c) THEN "later" ELSE slip[c]]
  /\ Rest(w)
  /\ UNCHANGED <<written, toPost, copies, markers, imports, postFaults, together, unmarked, forgotten>>

SlipDue(c) ==
  /\ slip[c] = "later" /\ slip' = [slip EXCEPT ![c] = "due"]
  /\ UNCHANGED <<written, toPost, copies, markers, imports, post, postFaults, together, unmarked, forgotten>>

DiscardSlip(c) ==
  /\ SlipIsOpen(c) /\ PostFault /\ slip' = [slip EXCEPT ![c] = "closed"]
  /\ forgotten' = forgotten \cup {c}
  /\ UNCHANGED <<written, toPost, copies, markers, imports, post, together, unmarked>>

-----------------------------------------------------------------------------
(* A poll: the link with its markers is loaded, the vendor is asked for the  *)
(* record's comments, and those neither marked nor imported before are added.*)
ImportRead(w) ==
  /\ Free(w) /\ Joining(w)
  /\ post' = [post EXCEPT ![w] = [IdlePost EXCEPT !.op = "import", !.at = "fetch", !.seen = markers]]
  /\ UNCHANGED <<written, toPost, copies, markers, imports, slip, postFaults, unmarked, forgotten>>

ImportFetch(w) ==
  /\ Stands(w, "import", "fetch")
  /\ post' = [post EXCEPT ![w] = [@ EXCEPT !.at = "save",
                                    !.got = {c \in Comments \cup Replies : copies[c] > 0}]]
  /\ UNCHANGED <<written, toPost, copies, markers, imports, slip, postFaults, together, unmarked, forgotten>>

IsNew(w, c) == c \notin post[w].seen /\ imports[c] = 0

(* The existence test and the commit are apart; two polls may pass it        *)
(* together (external_ref has an index but no constraint).                   *)
ImportCheck(w) ==
  /\ Stands(w, "import", "save")
  /\ post' = [post EXCEPT ![w] = [@ EXCEPT !.at = "add",
                                    !.got = {c \in post[w].got : IsNew(w, c)}]]
  /\ UNCHANGED <<written, toPost, copies, markers, imports, slip, postFaults, together, unmarked, forgotten>>

ImportSave(w) ==
  /\ Stands(w, "import", "add") /\ Rest(w)
  /\ imports' = [c \in Comments \cup Replies |-> IF c \in post[w].got THEN imports[c] + 1 ELSE imports[c]]
  /\ UNCHANGED <<written, toPost, copies, markers, slip, postFaults, together, unmarked, forgotten>>

(* A killed worker's task is gone, unless a row still asks for it.           *)
KillPost(w) ==
  /\ ~Free(w) /\ PostFault /\ Rest(w)
  /\ unmarked' = IF Stands(w, "post", "mark") THEN unmarked \cup post[w].c ELSE unmarked
  /\ forgotten' = forgotten \cup post[w].c
  /\ UNCHANGED <<written, toPost, copies, markers, imports, slip, together>>

PosterSteps(w) ==
  \/ \E c \in Comments : TakePost(w, c) \/ ReplaySlip(w, c)
  \/ PostCall(w) \/ PostMark(w) \/ PostRecord(w)
  \/ ImportRead(w) \/ ImportFetch(w) \/ ImportCheck(w) \/ ImportSave(w)

CommentNext ==
  \/ \E c \in Comments : Write(c) \/ SlipDue(c) \/ DiscardSlip(c)
  \/ \E r \in Replies : Reply(r)
  \/ \E w \in Posters : PosterSteps(w) \/ PostRefused(w) \/ PostAnswerLost(w) \/ KillPost(w)

CommentSpec == CommentInit /\ [][CommentNext]_commentVars

-----------------------------------------------------------------------------
(* The vendor holds one copy of a comment, and Pinpoint none of its own as   *)
(* the vendor's, unless two jobs of the report overlapped or the comment had *)
(* reached the vendor without its marker being stored: "our own comments"    *)
(* must not be re-imported, nor "the same sentence" posted again.  And a     *)
(* comment of theirs comes once, unless two polls overlapped.                *)
NoEchoAlone ==
  /\ \A c \in Comments : ~together /\ c \notin unmarked => copies[c] <= 1 /\ imports[c] = 0
  /\ \A r \in Replies : ~together => imports[r] <= 1

(* A comment that is neither queued nor being posted has its marker, or a    *)
(* row of the backlog that is still open, unless its task was killed or an   *)
(* admin discarded it, or another push wrote the link's list back over it.   *)
CommentNotDropped ==
  \A c \in Comments \cap written :
    c \in markers \/ c \in toPost \/ SlipIsOpen(c) \/ c \in forgotten \/ together
    \/ \E w \in Posters : c \in post[w].c

(* A comment crosses over, and once: both of the above.                      *)
EachCommentOnce == NoEchoAlone /\ CommentNotDropped
=============================================================================
