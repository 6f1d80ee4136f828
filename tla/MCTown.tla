-------------------------------- MODULE MCTown --------------------------------
(* Small instances of the modules about the town's own records, for TLC.      *)
(* They share no state, so a behaviour belongs to one of them: part says      *)
(* which, and the others rest in one of their initial states.                *)
EXTENDS SchemaMigration, StaffAccounts, OneTimeTokens, Retention, AuditChain, TranslationBudget,
        PhotoIntake, DemoPool, SecretVault, HostSecrets, PiiRewrap, TLC

CONSTANTS Parts,        \* "schema", "accounts", "tokens", "retention", "audit", "budget", "photos",
                        \* "demos", "vault", "hosts", "rewrap"
          p1, p2, clerkA, clerkB, sweep,    \* processes, handlers of the vault
          boxA, boxB, boxC, boxD    \* containers: boxC may destroy

VARIABLE part

(* Every revision adds a column, and the third drops the first one's.         *)
MCAdded == 1 :> {1} @@ 2 :> {2} @@ 3 :> {3}
MCDropped == 1 :> {} @@ 2 :> {} @@ 3 :> {1}
MCImage == boxA :> 1 @@ boxB :> 2 @@ boxC :> 3 @@ boxD :> 2

(* One clerk's requests reach the process the sweep runs in.                 *)
MCHome == clerkA :> p1 @@ clerkB :> p2 @@ sweep :> p1

TownInit ==
  /\ part \in Parts
  /\ MigrateInit /\ (part # "schema" => ~db.tables)
  /\ TokenInit /\ (part # "tokens" => kind = "code")
  /\ RetentionInit /\ (part # "retention" => \A r \in Records : dossier[r].status = "open")
  /\ PhotoInit /\ (part # "photos" => via = "portal")
  /\ AccountInit /\ AuditInit /\ BudgetInit /\ PoolInit
  /\ VaultInit /\ HostInit
  /\ RewrapInit /\ (part # "rewrap" => \A r \in Reports : details[r].wrap \in {0, NoKey})

TownNext ==
  \/ /\ part = "schema" /\ MigrateNext
     /\ UNCHANGED <<acctVars, tokenVars, retentionVars, auditVars, budgetVars,
                    photoVars, poolVars, vaultVars, hostVars, rewrapVars>>
  \/ /\ part = "accounts" /\ AccountNext
     /\ UNCHANGED <<migrateVars, tokenVars, retentionVars, auditVars, budgetVars,
                    photoVars, poolVars, vaultVars, hostVars, rewrapVars>>
  \/ /\ part = "tokens" /\ TokenNext
     /\ UNCHANGED <<migrateVars, acctVars, retentionVars, auditVars, budgetVars,
                    photoVars, poolVars, vaultVars, hostVars, rewrapVars>>
  \/ /\ part = "retention" /\ RetentionNext
     /\ UNCHANGED <<migrateVars, acctVars, tokenVars, auditVars, budgetVars,
                    photoVars, poolVars, vaultVars, hostVars, rewrapVars>>
  \/ /\ part = "audit" /\ AuditNext
     /\ UNCHANGED <<migrateVars, acctVars, tokenVars, retentionVars, budgetVars,
                    photoVars, poolVars, vaultVars, hostVars, rewrapVars>>
  \/ /\ part = "budget" /\ BudgetNext
     /\ UNCHANGED <<migrateVars, acctVars, tokenVars, retentionVars, auditVars,
                    photoVars, poolVars, vaultVars, hostVars, rewrapVars>>
  \/ /\ part = "photos" /\ PhotoNext
     /\ UNCHANGED <<migrateVars, acctVars, tokenVars, retentionVars, auditVars, budgetVars,
                    poolVars, vaultVars, hostVars, rewrapVars>>
  \/ /\ part = "demos" /\ PoolNext
     /\ UNCHANGED <<migrateVars, acctVars, tokenVars, retentionVars, auditVars, budgetVars,
                    photoVars, vaultVars, hostVars, rewrapVars>>
  \/ /\ part = "vault" /\ VaultNext
     /\ UNCHANGED <<migrateVars, acctVars, tokenVars, retentionVars, auditVars, budgetVars,
                    photoVars, poolVars, hostVars, rewrapVars>>
  \/ /\ part = "hosts" /\ HostNext
     /\ UNCHANGED <<migrateVars, acctVars, tokenVars, retentionVars, auditVars, budgetVars,
                    photoVars, poolVars, vaultVars, rewrapVars>>
  \/ /\ part = "rewrap" /\ RewrapNext
     /\ UNCHANGED <<migrateVars, acctVars, tokenVars, retentionVars, auditVars, budgetVars,
                    photoVars, poolVars, vaultVars, hostVars>>

townVars == <<migrateVars, acctVars, tokenVars, retentionVars, auditVars, budgetVars,
              photoVars, poolVars, vaultVars, hostVars, rewrapVars>>

TownSpec == TownInit /\ [][TownNext /\ UNCHANGED part]_<<part, townVars>>

(* The type invariant of the part that runs; the others rest where they began. *)
TownTypeOK ==
  /\ part = "schema" => MigrateTypeOK
  /\ part = "accounts" => AccountTypeOK
  /\ part = "tokens" => TokenTypeOK
  /\ part = "retention" => RetentionTypeOK
  /\ part = "audit" => AuditTypeOK
  /\ part = "budget" => BudgetTypeOK
  /\ part = "photos" => PhotoTypeOK
  /\ part = "demos" => PoolTypeOK
  /\ part = "vault" => VaultTypeOK
  /\ part = "hosts" => HostTypeOK
  /\ part = "rewrap" => RewrapTypeOK
=============================================================================
