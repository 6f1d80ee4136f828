---------------------------- MODULE StaffAccounts ----------------------------
(***************************************************************************)
(* Staff accounts and their sessions (api/users.py, core/auth.py, and the   *)
(* sign-in end of api/auth.py).  A handler authenticates its caller, loads  *)
(* the target, may count the other admins, and commits: four steps with an  *)
(* await between any two, no row lock, READ COMMITTED.  A token carries the *)
(* account's generation (tv), compared with users.token_version on every    *)
(* request.                                                                *)
(***************************************************************************)
EXTENDS Naturals, FiniteSets

CONSTANTS
  Users,        \* account rows
  Desks,        \* concurrent handlers of users.py
  NoUser,       \* a handler that has no caller or target yet
  FirstAdmins,  \* active admins to begin with
  MaxEdits      \* bound: handlers started

ASSUME FirstAdminsExist == FirstAdmins # {} /\ FirstAdmins \subseteq Users /\ NoUser \notin Users
ASSUME EditsAreNat == MaxEdits \in Nat

VARIABLES
  acct,     \* users rows
  tokens,   \* generations of the session tokens minted for each account
  desk,     \* what each handler is doing
  edits,
  ended,    \* history: generations of the tokens a revocation was to end
  raced     \* history: two handlers of users.py overlapped

acctVars == <<acct, tokens, desk, edits, ended, raced>>

Roles == {"admin", "staff"}
Ops == {"update", "delete", "revoke", "logout"}
(* UserUpdate: the one field of these two that is set; "keep" is left out.   *)
Updates == [role : Roles \cup {"keep"}, active : {"keep"}] \cup [role : {"keep"}, active : {"on", "off"}]
NoUpdate == [role |-> "keep", active |-> "keep"]
NoRow == [here |-> FALSE, role |-> "staff", active |-> FALSE, gen |-> 0]
NoDesk == [op |-> "none", at |-> "auth", by |-> NoUser, on |-> NoUser, new |-> NoUpdate, row |-> NoRow]
Gens == 0..2 * MaxEdits

(* Values stay in their types.                                               *)
AccountTypeOK ==
  /\ acct \in [Users -> [here : BOOLEAN, role : Roles, active : BOOLEAN, gen : Gens]]
  /\ tokens \in [Users -> SUBSET Gens] /\ ended \in [Users -> SUBSET Gens]
  /\ desk \in [Desks -> [op : Ops \cup {"none"}, at : {"auth", "load", "count", "write"},
                         by : Users \cup {NoUser}, on : Users \cup {NoUser}, new : Updates,
                         row : [here : BOOLEAN, role : Roles, active : BOOLEAN, gen : Gens]]]
  /\ edits \in 0..MaxEdits /\ raced \in BOOLEAN

AccountInit ==
  /\ acct = [u \in Users |-> [NoRow EXCEPT !.here = u \in FirstAdmins, !.active = u \in FirstAdmins,
                                           !.role = IF u \in FirstAdmins THEN "admin" ELSE "staff"]]
  /\ tokens = [u \in Users |-> {}] /\ ended = [u \in Users |-> {}]
  /\ desk = [d \in Desks |-> NoDesk] /\ edits = 0 /\ raced = FALSE

ActiveAdmin(u) == acct[u].here /\ acct[u].active /\ acct[u].role = "admin"
(* get_current_user: the row, its is_active and session_is_current.          *)
SignedIn(u) == acct[u].here /\ acct[u].active /\ acct[u].gen \in tokens[u]
DeskAt(d, at) == desk[d].op # "none" /\ desk[d].at = at
Answer(d) == desk' = [desk EXCEPT ![d] = NoDesk]

-----------------------------------------------------------------------------
(* The exchange of a login code (OneTimeTokens has the code) reads the       *)
(* account again and mints the token in one step; onboarding and bootstrap   *)
(* mint theirs the same way.                                                 *)
SignIn(u) ==
  /\ acct[u].here /\ acct[u].active /\ tokens' = [tokens EXCEPT ![u] = @ \cup {acct[u].gen}]
  /\ UNCHANGED <<acct, desk, edits, ended, raced>>

-----------------------------------------------------------------------------
(* get_current_admin (get_current_user for a logout) lets the caller in.     *)
Authenticate(d, by, on, op, new) ==
  /\ desk[d].op = "none" /\ edits < MaxEdits /\ edits' = edits + 1
  /\ SignedIn(by) /\ (op = "logout" \/ acct[by].role = "admin")
  /\ (op = "logout" => on = by) /\ (op = "delete" => on # by)
  /\ (op = "update") = (new # NoUpdate)
  /\ desk' = [desk EXCEPT ![d] = [NoDesk EXCEPT !.op = op, !.at = "load", !.by = by, !.on = on, !.new = new]]
  /\ raced' = (raced \/ \E x \in Desks \ {d} : desk[x].op # "none")
  /\ UNCHANGED <<acct, tokens, ended>>

TakesAdminAwayMutant(row, new) == row.role = "admin" /\ row.active /\ new.role = "staff"
TakesAdminAway(row, new) ==
  row.role = "admin" /\ row.active /\ (new.role = "staff" \/ new.active = "off")

Load(d) ==
  /\ DeskAt(d, "load")
  /\ LET row == acct[desk[d].on]
         next == IF desk[d].op = "update" /\ TakesAdminAway(row, desk[d].new) THEN "count" ELSE "write"
     IN  IF row.here THEN desk' = [desk EXCEPT ![d] = [@ EXCEPT !.at = next, !.row = row]]
         ELSE Answer(d)
  /\ UNCHANGED <<acct, tokens, edits, ended, raced>>

CountAdmins(d) ==
  /\ DeskAt(d, "count")
  /\ IF \E u \in Users \ {desk[d].on} : ActiveAdmin(u)
     THEN desk' = [desk EXCEPT ![d].at = "write"] ELSE Answer(d)
  /\ UNCHANGED <<acct, tokens, edits, ended, raced>>

(* Access is narrowed: the generation moves on in SQL, not from the row that *)
(* was loaded.                                                               *)
Revokes(d) ==
  \/ desk[d].op \in {"revoke", "logout"}
  \/ desk[d].new.active = "off"
  \/ desk[d].new.role \notin {"keep", desk[d].row.role}

NextGenMutant(u, loaded) == loaded.gen + 1
NextGen(u, loaded) == acct[u].gen + 1

(* Only fields whose value differs from the loaded one reach the UPDATE; an  *)
(* UPDATE of a row that is gone raises.                                      *)
Edited(d) ==
  LET old == desk[d].row  new == desk[d].new  now == acct[desk[d].on]
  IN  [now EXCEPT
        !.role = IF new.role \in {"keep", old.role} THEN now.role ELSE new.role,
        !.active = IF new.active = "keep" \/ (new.active = "on") = old.active THEN now.active
                   ELSE new.active = "on",
        !.gen = IF Revokes(d) THEN NextGen(desk[d].on, old) ELSE now.gen]

WriteAccount(d) ==
  /\ DeskAt(d, "write") /\ Answer(d)
  /\ LET u == desk[d].on
     IN  /\ acct' = [acct EXCEPT ![u] =
              IF desk[d].op = "delete" THEN [@ EXCEPT !.here = FALSE]
              ELSE IF @.here THEN Edited(d) ELSE @]
         /\ ended' = [ended EXCEPT ![u] = IF Revokes(d) THEN @ \cup tokens[u] ELSE @]
  /\ UNCHANGED <<tokens, edits, raced>>

(* create_user: a row that did not exist.                                    *)
CreateUser(by, u, role) ==
  /\ edits < MaxEdits /\ edits' = edits + 1
  /\ SignedIn(by) /\ acct[by].role = "admin"
  /\ ~acct[u].here /\ tokens[u] = {} /\ u \notin FirstAdmins
  /\ acct' = [acct EXCEPT ![u] = [here |-> TRUE, role |-> role, active |-> TRUE, gen |-> 0]]
  /\ UNCHANGED <<tokens, desk, ended, raced>>

AccountNext ==
  \/ \E u \in Users : SignIn(u)
  \/ \E by, u \in Users, role \in Roles : CreateUser(by, u, role)
  \/ \E d \in Desks :
       \/ \E by, on \in Users, op \in Ops, new \in Updates : Authenticate(d, by, on, op, new)
       \/ Load(d) \/ CountAdmins(d) \/ WriteAccount(d)

AccountSpec == AccountInit /\ [][AccountNext]_acctVars

-----------------------------------------------------------------------------
(* A revocation (sign-out, a password reset, "sign out everywhere", a        *)
(* demotion, a deactivation) ends every token the account then held, for     *)
(* good: no later revocation of another handler brings its generation back,  *)
(* "so two concurrent revocations cannot collapse into one bump".            *)
RevocationHolds == \A u \in Users : acct[u].here => acct[u].gen \notin ended[u]

(* The town keeps an active admin as long as edits of accounts do not        *)
(* overlap; each count and each delete rests on rows another one may change. *)
TownKeepsAdmin == raced \/ \E u \in Users : ActiveAdmin(u)

(* What update_user promises: "Never leave the town without an active admin" *)
(* (api/users.py:252).                                                       *)
TownAlwaysHasAdmin == \E u \in Users : ActiveAdmin(u)
=============================================================================
