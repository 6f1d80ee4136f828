------------------------------ MODULE PhotoIntake ------------------------------
(***************************************************************************)
(* The photos of one report, from the moment they are picked                *)
(* (services/photo_handles.py, api/open311.py, frontend services/api.ts).   *)
(* The portal screens a photo when it is picked and gets a handle; Submit   *)
(* sends handles, which the server redeems by DELETE ... RETURNING, and the *)
(* originals of photos that have none.  A handle that is gone is a 409, and *)
(* the client sends those originals once more.  A photo the screen could    *)
(* not clear waits for staff.                                               *)
(***************************************************************************)
EXTENDS Integers, FiniteSets

CONSTANTS
  Photos,           \* what a direct client posts
  FormPhotos,       \* those the portal's form holds
  Strangers,        \* photos of other forms
  Taps,             \* presses of Submit, in their order
  Screeners,        \* /photos/screen handlers
  MaxImages,        \* MAX_IMAGES
  MaxStored,        \* MAX_STORED_PHOTOS
  MaxPhotoFaults    \* bound: lost answers and failed transactions

ASSUME FormHoldsFew == FormPhotos \subseteq Photos /\ Cardinality(FormPhotos) <= MaxImages
ASSUME PhotosAreFinite == IsFiniteSet(Photos) /\ IsFiniteSet(Screeners) /\ MaxImages \in Nat
ASSUME TapsAreNumbered == Taps \subseteq Nat \ {0}
ASSUME StoreHoldsSome == MaxStored \in Nat \ {0} /\ MaxPhotoFaults \in Nat

VARIABLES
  via,           \* "portal" or "direct"
  store,         \* screened_photos: whose photos have a row
  lapsed,        \* the rows whose hour has passed
  older,         \* pairs of photos: the transaction that stores the first began earlier
  picked,        \* the form's photos: "fresh", "handle", "inline"
  screener,      \* what each screening handler is doing
  tap,           \* each press of Submit: its place, and the request being handled
  waitsFor,      \* the press the form shows a spinner for
  finished,      \* the form shows its success page
  savedAs,       \* the report each press saved: media_urls and media_pending_review
  cutOff,        \* history: photos of each report that a full list had no room for
  photoFaults

rowVars == <<store, lapsed, older>>
photoVars == <<via, rowVars, picked, screener, tap, waitsFor, finished, savedAs, cutOff, photoFaults>>

NoTap == 0
NoPhoto == 0
ASSUME NoPhotoIsNone == NoPhoto \notin FormPhotos \cup Strangers

IdleScreener == [at |-> "idle", of |-> NoPhoto, total |-> 0, old |-> {}, oldest |-> {}]
NewTap == [at |-> "unused", again |-> FALSE, inline |-> {}, taken |-> {}, looked |-> {}, clear |-> {}]
OverTap == [NewTap EXCEPT !.at = "over"]
NoReport == [saved |-> FALSE, media |-> {}, waiting |-> {}]

Sent == IF via = "portal" THEN FormPhotos ELSE Photos
Underway == {screener[k].of : k \in Screeners} \ {NoPhoto}
Fewer(m, n) == IF m < n THEN m ELSE n

(* Rows a request has deleted and not yet committed.                         *)
Redeeming(t) == tap[t].at \in {"screen", "save"}
LockedRows == UNION {tap[t].taken : t \in {x \in Taps : Redeeming(x)}}

PhotoTypeOK ==
  /\ via \in {"portal", "direct"} /\ waitsFor \in Taps \cup {NoTap} /\ finished \in BOOLEAN
  /\ store \subseteq FormPhotos \cup Strangers /\ lapsed \subseteq store
  /\ LET known == store \cup Underway
     IN  /\ older \subseteq known \X known
         /\ \A p, q \in known : p # q => (<<p, q>> \in older <=> <<q, p>> \notin older)
  /\ picked \in [FormPhotos -> {"fresh", "handle", "inline"}]
  /\ screener \in [Screeners -> [at : {"idle", "choose", "evict", "store"}, total : Nat,
                                 of : FormPhotos \cup Strangers \cup {NoPhoto},
                                 old : SUBSET (FormPhotos \cup Strangers),
                                 oldest : SUBSET (FormPhotos \cup Strangers)]]
  /\ tap \in [Taps -> [at : {"unused", "resolve", "screen", "save", "saved", "over"}, again : BOOLEAN,
                       inline : SUBSET Photos, taken : SUBSET store, looked : SUBSET Photos,
                       clear : SUBSET Photos]]
  /\ \A t \in Taps : \A u \in Taps \ {t} : tap[t].taken \cap tap[u].taken = {}
  /\ savedAs \in [Taps -> [saved : BOOLEAN, media : SUBSET Photos, waiting : SUBSET Photos]]
  /\ \A t \in Taps : Cardinality(savedAs[t].media) <= MaxImages /\ Cardinality(savedAs[t].waiting) <= MaxImages
  /\ cutOff \in [Taps -> SUBSET Photos] /\ photoFaults \in 0..MaxPhotoFaults

PhotoInit ==
  /\ via \in {"portal", "direct"} /\ store = {} /\ lapsed = {} /\ older = {} /\ finished = FALSE /\ waitsFor = NoTap
  /\ picked = [p \in FormPhotos |-> "fresh"]
  /\ screener = [k \in Screeners |-> IdleScreener] /\ tap = [t \in Taps |-> NewTap]
  /\ savedAs = [t \in Taps |-> NoReport] /\ cutOff = [t \in Taps |-> {}] /\ photoFaults = 0

PhotoFault == photoFaults < MaxPhotoFaults /\ photoFaults' = photoFaults + 1

-----------------------------------------------------------------------------
RowsChange(gone, come) ==
  /\ store' = (store \ gone) \cup come /\ lapsed' = lapsed \ gone
  /\ older' = {e \in older : e[1] \notin gone /\ e[2] \notin gone}

(* mint: count the rows, choose what goes, delete it and store the new one.  *)
(* Each is a statement with a snapshot of its own.  Expired rows go first,   *)
(* then the oldest.  A stranger's next photo is another row.                 *)
ScreenStarts(k, p) ==
  /\ via = "portal" /\ screener[k].at = "idle"
  /\ \A x \in Screeners : p # screener[x].of /\ p \notin screener[x].old \cup screener[x].oldest
  /\ p \notin store /\ (p \in FormPhotos => picked[p] = "fresh")
  /\ LET total == Cardinality(store)
     IN  screener' = [screener EXCEPT
           ![k] = [at |-> IF total < MaxStored THEN "store" ELSE "choose", of |-> p, total |-> total,
                   old |-> {}, oldest |-> {}]]
  /\ older' = older \cup ((store \cup Underway) \X {p})
  /\ UNCHANGED <<via, store, lapsed, picked, tap, waitsFor, finished, savedAs, cutOff, photoFaults>>

OverCapMutant(total, gone) == total - gone - MaxStored
OverCap(total, gone) == total - gone - MaxStored + 1

(* reap, in the screening's own transaction.                                 *)
ScreenChooses(k) ==
  /\ screener[k].at = "choose"
  /\ LET over == OverCap(screener[k].total, Cardinality(lapsed))
     IN  screener' = [screener EXCEPT ![k].old = lapsed, ![k].at = IF over <= 0 THEN "store" ELSE "evict"]
  /\ UNCHANGED <<via, rowVars, picked, tap, waitsFor, finished, savedAs, cutOff, photoFaults>>

(* ORDER BY created_at LIMIT n: a row's created_at is when its transaction   *)
(* began.                                                                    *)
OldestOf(S, n) ==
  {first \in SUBSET S : /\ Cardinality(first) = Fewer(n, Cardinality(S))
                        /\ \A p \in first, q \in S \ first : <<p, q>> \in older}

ScreenEvicts(k) ==
  /\ screener[k].at = "evict"
  /\ \E first \in OldestOf(store \ screener[k].old, OverCap(screener[k].total, Cardinality(screener[k].old))) :
       screener' = [screener EXCEPT ![k].oldest = first, ![k].at = "store"]
  /\ UNCHANGED <<via, rowVars, picked, tap, waitsFor, finished, savedAs, cutOff, photoFaults>>

(* A photo that was cleared is sent by its handle; one that was not, or whose *)
(* answer was lost, is sent again with the report.  A DELETE waits for a     *)
(* request that is redeeming the row.                                        *)
ScreenStores(k) ==
  LET s == screener[k]
      gone == s.old \cup s.oldest
  IN  /\ s.at = "store" /\ gone \cap LockedRows = {} /\ RowsChange(gone, {s.of})
      /\ IF s.of \in FormPhotos
         THEN \E how \in {"handle", "inline"} : picked' = [picked EXCEPT ![s.of] = how]
         ELSE UNCHANGED picked
      /\ screener' = [screener EXCEPT ![k] = IdleScreener]
      /\ UNCHANGED <<via, tap, waitsFor, finished, savedAs, cutOff, photoFaults>>

(* The hour of a row passes.  It is counted from when the row was written,   *)
(* so rows need not expire in the order of created_at.                       *)
RowExpires ==
  /\ \E p \in store \ lapsed : lapsed' = lapsed \cup {p}
  /\ UNCHANGED <<via, store, older, picked, screener, tap, waitsFor, finished, savedAs, cutOff, photoFaults>>

(* The hourly task.                                                          *)
ReapRows ==
  /\ lapsed # {} /\ lapsed \cap LockedRows = {} /\ RowsChange(lapsed, {})
  /\ UNCHANGED <<via, picked, screener, tap, waitsFor, finished, savedAs, cutOff, photoFaults>>

-----------------------------------------------------------------------------
(* Submit is enabled once no photo is being checked and no press is waited   *)
(* for.  A direct client sends originals only.                               *)
PressSubmit(t) ==
  /\ tap[t].at = "unused" /\ waitsFor = NoTap /\ ~finished
  /\ \A u \in Taps : u < t => tap[u].at # "unused"
  /\ IF via = "portal" THEN \A p \in FormPhotos : picked[p] # "fresh"
     ELSE \A u \in Taps : tap[u].at = "unused"
  /\ tap' = [tap EXCEPT ![t].at = "resolve",
                        ![t].inline = {p \in Sent : via = "direct" \/ picked[p] = "inline"}]
  /\ waitsFor' = t
  /\ UNCHANGED <<via, rowVars, picked, screener, finished, savedAs, cutOff, photoFaults>>

StaleHandlesMutant(t) == {}
StaleHandles(t) == (Sent \ tap[t].inline) \ (store \ lapsed)

(* resolve: the handles' rows are deleted, or the whole request is a 409 and *)
(* they stay; a client that still waits sends the originals, once.           *)
Answered(t) == waitsFor' = IF waitsFor = t THEN NoTap ELSE waitsFor

RedeemHandles(t) ==
  /\ tap[t].at = "resolve" /\ (Sent \ tap[t].inline) \cap LockedRows = {}
  /\ IF StaleHandles(t) = {}
     THEN /\ tap' = [tap EXCEPT ![t].at = "screen", ![t].taken = (Sent \ tap[t].inline) \cap store]
          /\ UNCHANGED waitsFor
     ELSE IF waitsFor = t /\ ~tap[t].again
     THEN /\ tap' = [tap EXCEPT ![t].again = TRUE, ![t].inline = tap[t].inline \cup StaleHandles(t)]
          /\ UNCHANGED waitsFor
     ELSE tap' = [tap EXCEPT ![t] = OverTap] /\ Answered(t)
  /\ UNCHANGED <<via, rowVars, picked, screener, finished, savedAs, cutOff, photoFaults>>

(* screen_and_redact looks at the first few originals, in the client's order *)
(* of them; what it could not clear is held, and so are those past the limit. *)
ScreenOriginals(t) ==
  /\ tap[t].at = "screen"
  /\ \E looked \in SUBSET tap[t].inline : \E clear \in SUBSET looked :
       /\ Cardinality(looked) = Fewer(MaxImages, Cardinality(tap[t].inline))
       /\ tap' = [tap EXCEPT ![t].at = "save", ![t].looked = looked, ![t].clear = clear]
  /\ UNCHANGED <<via, rowVars, picked, screener, waitsFor, finished, savedAs, cutOff, photoFaults>>

Held(t) == tap[t].inline \ tap[t].clear

(* Blocked, refused, or the database failed: the transaction is rolled back. *)
SubmitFails(t) ==
  /\ Redeeming(t) /\ PhotoFault
  /\ tap' = [tap EXCEPT ![t] = OverTap] /\ Answered(t)
  /\ UNCHANGED <<via, rowVars, picked, screener, finished, savedAs, cutOff>>

(* A road another authority keeps: the redirect is recorded, and its commit  *)
(* spends the handles too.                                                   *)
RedirectSubmit(t) ==
  /\ tap[t].at = "save" /\ RowsChange(tap[t].taken, {})
  /\ tap' = [tap EXCEPT ![t] = OverTap] /\ Answered(t)
  /\ UNCHANGED <<via, picked, screener, finished, savedAs, cutOff, photoFaults>>

(* The list of those that wait has what was looked at first, and its limit.  *)
SaveReport(t) ==
  /\ tap[t].at = "save" /\ RowsChange(tap[t].taken, {})
  /\ \E waiting \in SUBSET Held(t) :
       /\ Cardinality(waiting) = Fewer(MaxImages, Cardinality(Held(t)))
       /\ tap[t].looked \ tap[t].clear \subseteq waiting
       /\ savedAs' = [savedAs EXCEPT ![t] = [saved |-> TRUE, media |-> tap[t].taken \cup tap[t].clear,
                                           waiting |-> waiting]]
       /\ cutOff' = [cutOff EXCEPT ![t] = Held(t) \ waiting]
  /\ tap' = [tap EXCEPT ![t] = [NewTap EXCEPT !.at = "saved"]]
  /\ UNCHANGED <<via, picked, screener, waitsFor, finished, photoFaults>>

(* The answer arrives, or is lost while the server goes on.                  *)
SubmitAnswered(t) ==
  /\ tap[t].at = "saved" /\ waitsFor = t /\ finished' = TRUE /\ waitsFor' = NoTap
  /\ UNCHANGED <<via, rowVars, picked, screener, tap, savedAs, cutOff, photoFaults>>

SubmitAnswerLost(t) ==
  /\ waitsFor = t /\ PhotoFault /\ waitsFor' = NoTap
  /\ UNCHANGED <<via, rowVars, picked, screener, tap, finished, savedAs, cutOff>>

-----------------------------------------------------------------------------
SubmitNext(t) ==
  \/ PressSubmit(t) \/ RedeemHandles(t) \/ ScreenOriginals(t) \/ SubmitFails(t) \/ RedirectSubmit(t)
  \/ SaveReport(t) \/ SubmitAnswered(t) \/ SubmitAnswerLost(t)

PhotoNext ==
  \/ RowExpires \/ ReapRows
  \/ \E k \in Screeners : \/ \E p \in FormPhotos \cup Strangers : ScreenStarts(k, p)
                          \/ ScreenChooses(k) \/ ScreenEvicts(k) \/ ScreenStores(k)
  \/ \E t \in Taps : SubmitNext(t)

PhotoSpec == PhotoInit /\ [][PhotoNext]_photoVars

-----------------------------------------------------------------------------
(* No photo of a saved report is silently dropped, whatever expired, was     *)
(* evicted or spent, and however often the answer was lost: it is public or  *)
(* waits for staff, unless their list was full.                              *)
PhotosAccounted ==
  \A t \in Taps : savedAs[t].saved =>
    Sent \subseteq savedAs[t].media \cup savedAs[t].waiting \cup cutOff[t]

(* However many screenings overlap with evictions, redemptions and the reap, *)
(* the table is past its cap by less than the screenings under way.          *)
StoreStaysBounded == Cardinality(store) <= MaxStored + Cardinality(Screeners) - 1
=============================================================================
