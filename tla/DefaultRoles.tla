----------------------------- MODULE DefaultRoles -----------------------------
(***************************************************************************)
(* The permission catalogue (src/backend/mizan/platform/authz/catalog.py)  *)
(* and the roles every tenant starts with (apps/identity/roles.py): a role *)
(* is a set of grants, each an action on a resource, within a scope, with  *)
(* the field groups it shows.                                              *)
(***************************************************************************)
EXTENDS Naturals

ConfigurationResources ==
  {"tenant", "branch", "department", "numbering_scheme", "vocabulary", "workflow",
   "service_category", "service", "test_definition", "specimen_type", "sieve_set", "price_list",
   "tax_rule", "document_template", "notification_rule", "integration", "phase_template",
   "treasury_account", "payment_terms_template", "signatory"}

AssetResources == {"equipment", "stock", "consumable", "rental", "sale", "outing", "transfer",
                   "maintenance", "vehicle", "fleet_document"}

Resources == ConfigurationResources \cup AssetResources \cup
  {"user", "role", "account", "contact", "project", "task", "work_item", "quote",
   "quote_revision", "acceptance", "contract", "order", "expected_intake", "intake", "specimen",
   "sample", "test_run", "measurement", "report", "invoice", "credit_note", "payment",
   "treasury_entry", "work_order", "attachment", "comment", "audit_event", "dashboard", "export"}

Actions == {"view", "create", "edit", "delete", "submit", "approve", "issue", "sign", "cancel",
            "export", "print", "configure", "assign", "reassign", "change_stage",
            "review_results", "override_computed_value", "allocate_payment", "unlock_revision",
            "impersonate_view"}

Scopes == {"ALL_BRANCHES", "OWN_BRANCH", "OWN_DEPARTMENT", "ASSIGNED_TO_ME", "OWN_RECORDS",
           "OWN_ACCOUNT"}

FieldGroups(resource) ==
  CASE resource \in {"project", "work_item", "task"} ->
         {"commercial", "financial", "client_contact"}
    [] resource = "order" -> {"commercial"}
    [] resource \in {"report", "test_run"} -> {"raw_measurements"}
    [] resource = "user" -> {"security"}
    [] resource = "account" -> {"financial", "client_contact"}
    [] OTHER -> {}

ValidGrant(g) ==
  /\ g.resource \in Resources /\ g.action \in Actions /\ g.scope \in Scopes
  /\ g.groups \subseteq FieldGroups(g.resource)

-----------------------------------------------------------------------------
View == {"view"}
VC   == {"view", "create"}
VCE  == {"view", "create", "edit"}
AllActions == VCE \cup {"delete", "submit", "approve", "issue", "cancel", "print", "export"}
CommercialGroups == {"commercial", "financial", "client_contact"}

\* _g(): the grants of one specification, with and without field groups.
Grants(resources, actions, scope, groups) ==
  {[resource |-> r, action |-> a, scope |-> scope, groups |-> groups] :
     r \in resources, a \in actions}

InBranch(resources, actions)     == Grants(resources, actions, "OWN_BRANCH", {})
InDepartment(resources, actions) == Grants(resources, actions, "OWN_DEPARTMENT", {})
ToMe(resources, actions)         == Grants(resources, actions, "ASSIGNED_TO_ME", {})
OfAccount(resources, actions)    == Grants(resources, actions, "OWN_ACCOUNT", {})
Everywhere(resources, actions)   == Grants(resources, actions, "ALL_BRANCHES", {})

Notes == {"attachment", "comment"}

CommercialGrants ==
  UNION {Grants({"account"}, VCE, "OWN_BRANCH", {"client_contact"}),
         InBranch({"contact"}, VCE),
         Grants({"project", "task", "work_item"}, VCE, "OWN_BRANCH", CommercialGroups),
         InBranch({"quote"}, VCE \cup {"submit", "print", "export"}),
         InBranch({"quote_revision"}, VCE \cup {"print", "export"}),
         InBranch({"acceptance"}, {"create"}),
         InBranch({"contract"}, VC),
         Grants({"order"}, View, "OWN_BRANCH", {"commercial"}),
         InBranch({"invoice", "expected_intake", "intake", "report", "work_order"}, View),
         InBranch(Notes, VC),
         InBranch({"dashboard"}, View)}

ClientUserGrants ==
  UNION {OfAccount({"account", "contact", "project", "task", "work_item", "quote",
                    "quote_revision", "contract", "order", "expected_intake", "intake",
                    "specimen", "sample", "test_run", "invoice", "credit_note", "payment",
                    "rental", "work_order", "comment"}, View),
         Grants({"project"}, View, "OWN_ACCOUNT", {"financial"}),
         OfAccount({"report"}, {"view", "print"}),
         OfAccount({"acceptance"}, {"create"}),
         OfAccount({"attachment"}, VC)}

CommercialManagerGrants ==
  UNION {CommercialGrants,
         InBranch({"quote"}, {"approve", "sign", "cancel"}),
         InBranch({"contract"}, {"sign", "edit"}),
         Grants({"order"}, {"edit"}, "OWN_BRANCH", {"commercial"}),
         InBranch(AssetResources, View)}

LabReceptionGrants ==
  UNION {InBranch({"account", "contact", "project", "order"}, View),
         InBranch({"task", "work_item"}, VC),
         InBranch({"expected_intake", "test_run", "report"}, View),
         InBranch({"intake"}, VCE \cup {"print"}),
         InBranch({"specimen", "sample"}, VC \cup {"change_stage", "print"}),
         InBranch(Notes, VC)}

TechnicianGrants ==
  UNION {InDepartment({"project", "expected_intake", "intake", "report"}, View),
         ToMe({"task", "work_item", "work_order"}, View),
         InDepartment({"specimen", "sample"}, {"view", "change_stage"}),
         ToMe({"test_run"}, {"view", "edit"}),
         ToMe({"measurement"}, VCE),
         InDepartment({"equipment", "stock", "consumable"}, View),
         ToMe(Notes, VC)}

LabSupervisorGrants ==
  UNION {InDepartment({"account", "contact", "project", "order"}, View),
         InDepartment({"task", "work_item"}, VC),
         InDepartment({"expected_intake", "intake"}, VCE \cup {"print"}),
         InDepartment({"specimen", "sample"}, VCE \cup {"change_stage", "print"}),
         Grants({"test_run"}, VCE \cup {"assign", "reassign", "cancel", "review_results",
                                        "override_computed_value"},
                "OWN_DEPARTMENT", {"raw_measurements"}),
         InDepartment({"measurement"}, VCE),
         Grants({"report"}, VCE \cup {"issue", "print", "export", "cancel"}, "OWN_DEPARTMENT",
                {"raw_measurements"}),
         InDepartment({"equipment", "stock", "consumable", "dashboard"}, View),
         InDepartment({"work_order"}, {"view", "edit"}),
         InDepartment(Notes, VC)}

FinanceGrants ==
  UNION {Grants({"account", "project", "task", "work_item"}, View, "OWN_BRANCH", {"financial"}),
         InBranch({"contact", "quote", "quote_revision", "contract", "order"}, View),
         InBranch({"invoice", "credit_note"}, VCE \cup {"issue", "cancel", "print", "export"}),
         InBranch({"payment"}, VC \cup {"allocate_payment", "cancel", "print"}),
         InBranch({"treasury_account", "treasury_entry"}, VCE),
         InBranch(AssetResources \cup {"dashboard"}, View),
         InBranch(Notes, VC)}

AssetsGrants ==
  UNION {InBranch({"account", "contact", "project", "task", "work_item", "order", "dashboard"},
                  View),
         InBranch(AssetResources, AllActions),
         InBranch(Notes, VC)}

BranchManagerGrants ==
  UNION {InBranch(Resources \ {"tenant"}, View),
         Grants({"project", "task", "work_item"}, View, "OWN_BRANCH", CommercialGroups),
         Grants({"account"}, View, "OWN_BRANCH", {"financial", "client_contact"}),
         Grants({"report", "test_run"}, View, "OWN_BRANCH", {"raw_measurements"}),
         Grants({"project"}, {"edit"}, "OWN_BRANCH", CommercialGroups),
         InBranch({"quote", "contract", "report", "invoice"}, {"approve", "sign", "issue"}),
         InBranch({"rental", "transfer"}, {"approve"}),
         InBranch({"work_order"}, {"edit"}),
         InBranch(Notes, VC),
         InBranch({"export"}, {"export"})}

TenantAdminGrants ==
  UNION {Everywhere(ConfigurationResources, VCE \cup {"configure"}),
         Grants({"user"}, VCE \cup {"delete", "configure"}, "ALL_BRANCHES", {"security"}),
         Everywhere({"role"}, VCE \cup {"delete", "configure"}),
         Everywhere({"user"}, {"impersonate_view"}),
         Everywhere({"contact"}, VCE),
         Everywhere({"audit_event", "dashboard"}, View),
         Everywhere({"export"}, {"export"})}

ClientAdminGrants ==
  UNION {ClientUserGrants,
         OfAccount({"contact"}, {"create", "edit"}),
         OfAccount({"user"}, VCE)}

RoleCodes == {"COMMERCIAL", "COMMERCIAL_MANAGER", "LAB_RECEPTION", "TECHNICIAN",
              "LAB_SUPERVISOR", "FINANCE", "ASSETS", "BRANCH_MANAGER", "TENANT_ADMIN",
              "CLIENT_USER", "CLIENT_ADMIN"}

Specified(role) ==
  CASE role = "COMMERCIAL" -> CommercialGrants
    [] role = "COMMERCIAL_MANAGER" -> CommercialManagerGrants
    [] role = "LAB_RECEPTION" -> LabReceptionGrants
    [] role = "TECHNICIAN" -> TechnicianGrants
    [] role = "LAB_SUPERVISOR" -> LabSupervisorGrants
    [] role = "FINANCE" -> FinanceGrants
    [] role = "ASSETS" -> AssetsGrants
    [] role = "BRANCH_MANAGER" -> BranchManagerGrants
    [] role = "TENANT_ADMIN" -> TenantAdminGrants
    [] role = "CLIENT_USER" -> ClientUserGrants
    [] role = "CLIENT_ADMIN" -> ClientAdminGrants

\* expand(): one grant for a resource, action and scope, with all the groups specified for it.
Expand(specified) ==
  {[g EXCEPT !.groups =
      UNION {h.groups : h \in {h \in specified : /\ h.resource = g.resource
                                                 /\ h.action = g.action
                                                 /\ h.scope = g.scope}}] : g \in specified}
=============================================================================
