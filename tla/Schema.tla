-------------------------------- MODULE Schema --------------------------------
(***************************************************************************)
(* The database as the migrations of src/backend/mizan build it: the       *)
(* tables, what they refer to, what must be unique in them, and the        *)
(* row-level security that keeps tenants apart.  A migration runs once all *)
(* it depends on have; Django is free to choose among those that may run,  *)
(* stops at one that fails, and may undo one that nothing applied depends  *)
(* on.                                                                     *)
(*                                                                         *)
(* A table is the migration that creates it, its tenant column (own, one   *)
(* that may be null, or none), its unique keys beside the primary key and  *)
(* the tables its foreign keys refer to.                                   *)
(***************************************************************************)
EXTENDS Naturals, FiniteSets, TLC

VARIABLES
  applied,  \* migrations applied
  policy,   \* the policy of each table that has one
  failed    \* a migration has failed

schemaVars == <<applied, policy, failed>>

Table(migration, tenant, keys, refs) ==
  [migration |-> migration, tenant |-> tenant, keys |-> keys, refs |-> refs]

-----------------------------------------------------------------------------
(* platform, audit                                                         *)

I18nText == Table("platform.1", "own",
  {{"tenant_id", "entity", "entity_id", "field", "locale"},
   {"tenant_id", "entity", "field", "locale", "text"}}, {})
IdempotencyKeyTable == Table("platform.1", "own", {{"tenant_id", "key"}}, {})
PeriodicJobRun == Table("platform.4", "none", {}, {})
AuditEvent == Table("audit.1", "optional", {}, {})

(* org                                                                     *)

TenantTable == Table("org.1", "none", {{"code"}}, {})
Branch == Table("org.1", "own", {{"tenant_id", "code"}}, {})
Signatory == Table("org.1", "own", {}, {"branch", "app_user"})
TreasuryAccount == Table("org.1", "own", {}, {"branch"})
Department == Table("org.1", "own", {{"branch", "code"}}, {"branch"})

(* identity                                                                *)

User == Table("identity.1", "optional", {{"idp_subject"}, {"tenant_id", "email"}}, {})
UserGroups == Table("identity.1", "none", {{"app_user", "auth_group"}}, {"app_user", "auth_group"})
UserPermissions ==
  Table("identity.1", "none", {{"app_user", "auth_permission"}}, {"app_user", "auth_permission"})
RefreshToken == Table("identity.3", "optional", {{"token_hash"}}, {"app_user"})
RoleTable == Table("identity.3", "own", {{"tenant_id", "code"}}, {})
MembershipTable == Table("identity.3", "own", {}, {"branch", "department", "app_user", "role"})
ApiKey == Table("identity.3", "own", {{"hashed_key"}}, {"role"})
GrantTable == Table("identity.3", "own", {{"role", "resource", "action", "scope"}}, {"role"})

(* config                                                                  *)

NumberingScheme == Table("config.1", "own", {{"branch", "department", "applies_to", "version"}},
  {"branch", "department", "numbering_scheme"})
NumberingCounter == Table("config.1", "own", {{"numbering_scheme", "period_key"}},
  {"numbering_scheme"})
NumberReservation == Table("config.1", "own", {{"numbering_scheme", "number"}},
  {"numbering_scheme"})
PaymentTermsTemplate == Table("config.1", "own", {{"branch", "code"}}, {"branch"})
PriceList == Table("config.1", "own", {{"branch", "code"}}, {"branch", "vocabulary_entry"})
ServiceCategory == Table("config.1", "own", {{"tenant_id", "code"}},
  {"department", "service_category"})
Service == Table("config.1", "own", {{"tenant_id", "code"}}, {"department", "service_category"})
\* Mutant: a code is unique among all tenants.
SieveSetOfAll == Table("config.1", "own", {{"code"}}, {})
SieveSet == Table("config.1", "own", {{"tenant_id", "code"}}, {})
SpecimenType == Table("config.1", "own", {{"tenant_id", "code"}}, {})
Price == Table("config.1", "own", {{"price_list", "service", "specimen_type", "min_qty"}},
  {"price_list", "service", "specimen_type"})
TaxRule == Table("config.1", "own", {{"branch", "code"}}, {"branch"})
TestDefinition == Table("config.1", "own", {{"tenant_id", "code", "version"}},
  {"service_category", "department"})
VocabularyEntry == Table("config.1", "own", {{"tenant_id", "branch", "kind", "code"}}, {"branch"})
WorkflowTable == Table("config.1", "own", {{"tenant_id", "branch", "kind", "version"}}, {"branch"})
WorkflowState == Table("config.1", "own", {{"workflow", "code"}}, {"workflow"})
WorkflowTransition == Table("config.1", "own", {}, {"workflow", "workflow_state"})

(* documents                                                               *)

VerificationAttempt == Table("documents.1", "optional", {}, {})
DocumentTemplate == Table("documents.1", "own",
  {{"tenant_id", "branch", "kind", "locale", "version"}}, {"branch"})
IssuedDocument == Table("documents.1", "own", {{"verify_token"}},
  {"branch", "signatory", "issued_document", "document_template", "signing_key"})
FraudCase == Table("documents.1", "optional", {}, {"issued_document"})
PrintProfile == Table("documents.1", "own", {{"branch", "kind"}}, {"branch"})
Rendition == Table("documents.1", "own", {}, {"issued_document"})
SigningKey == Table("documents.1", "own", {{"kid"}}, {"branch"})
TransparencyHead == Table("documents.1", "own", {}, {"signing_key"})
TransparencyLeaf == Table("documents.1", "own", {{"issued_document"}, {"tenant_id", "index"}},
  {"issued_document"})

(* notify                                                                  *)

ContactChannelPreference == Table("notify.1", "own",
  {{"tenant_id", "recipient_type", "recipient_id", "channel"}}, {})
MessageTemplate == Table("notify.1", "own", {{"tenant_id", "code", "locale", "channel"}}, {})
NotificationRule == Table("notify.1", "own", {{"tenant_id", "branch", "code"}}, {"branch"})
NotificationDelivery == Table("notify.1", "own", {{"tenant_id", "dedupe_key"}},
  {"branch", "notification_delivery", "notification_rule"})
Notification == Table("notify.1", "own", {}, {"app_user", "notification_delivery"})

\* Django's own, created by the migrations of its auth application.
AuthTable(key) == Table("auth", "none", {{key}}, {})

-----------------------------------------------------------------------------
PlatformTables ==
  "i18n_text" :> I18nText @@ "idempotency_key" :> IdempotencyKeyTable
  @@ "periodic_job_run" :> PeriodicJobRun @@ "audit_event" :> AuditEvent

OrgTables ==
  "tenant" :> TenantTable @@ "branch" :> Branch @@ "signatory" :> Signatory
  @@ "treasury_account" :> TreasuryAccount @@ "department" :> Department

IdentityTables ==
  "app_user" :> User @@ "app_user_groups" :> UserGroups
  @@ "app_user_user_permissions" :> UserPermissions @@ "refresh_token" :> RefreshToken
  @@ "role" :> RoleTable @@ "membership" :> MembershipTable @@ "api_key" :> ApiKey
  @@ "grant_" :> GrantTable
  @@ "auth_group" :> AuthTable("name") @@ "auth_permission" :> AuthTable("codename")

ConfigTables ==
  "numbering_scheme" :> NumberingScheme @@ "numbering_counter" :> NumberingCounter
  @@ "number_reservation" :> NumberReservation
  @@ "payment_terms_template" :> PaymentTermsTemplate @@ "price_list" :> PriceList
  @@ "service_category" :> ServiceCategory @@ "service" :> Service @@ "sieve_set" :> SieveSet
  @@ "specimen_type" :> SpecimenType @@ "price" :> Price @@ "tax_rule" :> TaxRule
  @@ "test_definition" :> TestDefinition @@ "vocabulary_entry" :> VocabularyEntry
  @@ "workflow" :> WorkflowTable @@ "workflow_state" :> WorkflowState
  @@ "workflow_transition" :> WorkflowTransition

DocumentTables ==
  "verification_attempt" :> VerificationAttempt @@ "document_template" :> DocumentTemplate
  @@ "issued_document" :> IssuedDocument @@ "fraud_case" :> FraudCase
  @@ "print_profile" :> PrintProfile @@ "rendition" :> Rendition @@ "signing_key" :> SigningKey
  @@ "transparency_head" :> TransparencyHead @@ "transparency_leaf" :> TransparencyLeaf

NotifyTables ==
  "contact_channel_preference" :> ContactChannelPreference @@ "message_template" :> MessageTemplate
  @@ "notification_rule" :> NotificationRule @@ "notification_delivery" :> NotificationDelivery
  @@ "notification" :> Notification

Tables == PlatformTables @@ OrgTables @@ IdentityTables @@ ConfigTables @@ DocumentTables
          @@ NotifyTables

-----------------------------------------------------------------------------
(* The row-level security migrations.                                      *)

\* enable_rls(): the tenant's rows, and those of no tenant when they are global.
EnableRls(tables, tenant) == [t \in tables |-> tenant]

PlatformRls == EnableRls({"i18n_text", "idempotency_key"}, "own")
AuditRls == EnableRls({"audit_event"}, "optional")
OrgRls == EnableRls({"branch", "department", "signatory", "treasury_account"}, "own")
UserRls == EnableRls({"app_user"}, "optional")
RolesRls == EnableRls({"role", "grant_", "membership", "api_key"}, "own")
            @@ EnableRls({"refresh_token"}, "optional")
ConfigRls == EnableRls(
  {"numbering_scheme", "numbering_counter", "number_reservation", "vocabulary_entry", "workflow",
   "workflow_state", "workflow_transition", "payment_terms_template", "service_category",
   "service", "specimen_type", "sieve_set", "test_definition", "price_list", "price",
   "tax_rule"}, "own")
\* Mutant: the signed tree heads are forgotten.
DocumentsRlsWithoutHeads ==
  EnableRls({"document_template", "print_profile", "signing_key", "issued_document", "rendition",
             "transparency_leaf"}, "own")
  @@ EnableRls({"verification_attempt", "fraud_case"}, "optional")

DocumentsRls ==
  EnableRls({"document_template", "print_profile", "signing_key", "issued_document", "rendition",
             "transparency_leaf", "transparency_head"}, "own")
  @@ EnableRls({"verification_attempt", "fraud_case"}, "optional")
NotifyRls == EnableRls({"notification_rule", "message_template", "contact_channel_preference",
                        "notification_delivery", "notification"}, "own")

Policies ==
  "platform.2" :> PlatformRls @@ "audit.2" :> AuditRls @@ "org.2" :> OrgRls
  @@ "identity.2" :> UserRls @@ "identity.4" :> RolesRls @@ "config.2" :> ConfigRls
  @@ "documents.2" :> DocumentsRls @@ "notify.2" :> NotifyRls

\* Mutant: the migration of org does not wait for the user it refers to.
OrgDependenciesWithoutUser == "org.1" :> {} @@ "org.2" :> {"org.1", "platform.2"}

\* What each migration depends on (the swappable user is identity's first).
OrgDependencies == "org.1" :> {"identity.1"} @@ "org.2" :> {"org.1", "platform.2"}
IdentityDependencies ==
  "identity.1" :> {"auth"} @@ "identity.2" :> {"identity.1", "platform.2"}
  @@ "identity.3" :> {"identity.2", "org.2"} @@ "identity.4" :> {"identity.3"}
PlatformDependencies ==
  "platform.1" :> {} @@ "platform.2" :> {"platform.1"} @@ "platform.3" :> {"platform.2"}
  @@ "platform.4" :> {"platform.3"} @@ "audit.1" :> {} @@ "audit.2" :> {"audit.1", "platform.2"}
AppDependencies ==
  "config.1" :> {"org.2"} @@ "config.2" :> {"config.1", "platform.2"}
  @@ "documents.1" :> {"org.2"} @@ "documents.2" :> {"documents.1", "platform.2"}
  @@ "notify.1" :> {"org.2", "identity.1"} @@ "notify.2" :> {"notify.1", "platform.2"}

Dependencies == "auth" :> {} @@ OrgDependencies @@ IdentityDependencies @@ PlatformDependencies
                @@ AppDependencies

Migrations == DOMAIN Dependencies

-----------------------------------------------------------------------------
Created(m) == {t \in DOMAIN Tables : Tables[t].migration = m}
TablesOf(migrations) == {t \in DOMAIN Tables : Tables[t].migration \in migrations}
PolicyOf(m) == IF m \in DOMAIN Policies THEN Policies[m] ELSE <<>>

SchemaInit == applied = {} /\ policy = <<>> /\ failed = FALSE

\* PostgreSQL accepts the migration: the tables it refers to and protects are there.
Accepted(m) ==
  LET present == TablesOf(applied \cup {m})
  IN /\ \A t \in Created(m) : Tables[t].refs \subseteq present
     /\ DOMAIN PolicyOf(m) \subseteq present

\* The migration runs in a transaction of its own.
Migrate(m) ==
  /\ ~failed /\ m \notin applied /\ Dependencies[m] \subseteq applied
  /\ IF Accepted(m)
       THEN /\ applied' = applied \cup {m}
            /\ policy' = PolicyOf(m) @@ policy
            /\ UNCHANGED failed
       ELSE failed' = TRUE /\ UNCHANGED <<applied, policy>>

\* `migrate <app> <earlier>`: disable_rls_sql(), the tables dropped.
Undo(m) ==
  /\ ~failed /\ m \in applied /\ \A n \in applied : m \notin Dependencies[n]
  /\ applied' = applied \ {m}
  /\ policy' = [t \in DOMAIN policy \ DOMAIN PolicyOf(m) |-> policy[t]]
  /\ UNCHANGED failed

SchemaNext == \E m \in Migrations : Migrate(m) \/ Undo(m)

-----------------------------------------------------------------------------
\* Whatever order the migrations are applied and undone in, none fails: each depends on those
\* that create what it refers to or protects, and nothing is undone under a table that needs it.
NoMigrationFails ==
  /\ ~failed
  /\ \A t \in TablesOf(applied) : Tables[t].refs \subseteq TablesOf(applied)
  /\ DOMAIN policy \subseteq TablesOf(applied)

\* Once the migrations of an app are applied, each of its tables with a tenant column is
\* protected by a policy that shows rows of no tenant exactly where the column may be null.
Final == {"platform.2", "audit.2", "org.2", "identity.4", "config.2", "documents.2", "notify.2"}
AppOf(m) == CASE m \in {"platform.2"} -> DOMAIN PlatformTables \ {"audit_event"}
              [] m = "audit.2" -> {"audit_event"}
              [] m = "org.2" -> DOMAIN OrgTables
              [] m = "identity.4" -> DOMAIN IdentityTables
              [] m = "config.2" -> DOMAIN ConfigTables
              [] m = "documents.2" -> DOMAIN DocumentTables
              [] m = "notify.2" -> DOMAIN NotifyTables

TenantRowsIsolated ==
  \A m \in Final \cap applied : \A t \in AppOf(m) :
    /\ Tables[t].tenant # "none" => t \in DOMAIN policy /\ policy[t] = Tables[t].tenant
    /\ Tables[t].tenant = "none" => t \notin DOMAIN policy

\* Random values and the identity provider's subject are nobody's choice; the codes, numbers
\* and names a tenant chooses never collide with those of another, whose rows it cannot see.
Opaque == {"token_hash", "hashed_key", "kid", "verify_token", "idp_subject"}

KeysStayInTenant ==
  \A t \in TablesOf(applied) : Tables[t].tenant # "none" =>
    \A key \in Tables[t].keys :
      \/ "tenant_id" \in key \/ key \subseteq Opaque
      \/ \E other \in key \cap Tables[t].refs : Tables[other].tenant = "own"
=============================================================================
