--------------------------- MODULE DefaultWorkflows ---------------------------
(***************************************************************************)
(* The default workflow of every kind of record                            *)
(* (src/backend/mizan/apps/config/defaults/workflows.py) and the pure      *)
(* parts of the engine: what validation accepts, which transitions leave.  *)
(*                                                                         *)
(* A state's code is its semantic, as in every default.  Labels, colours   *)
(* and delays are left out.  An effect that is none of KNOWN_EFFECTS is    *)
(* the event that emit() is given; the arguments of the others are left    *)
(* out.                                                                    *)
(***************************************************************************)
EXTENDS Naturals, Sequences, FiniteSets

AnyState == "*"   \* the from_state of a transition from any state that is not terminal

T(from, to, action, guards, effects) ==
  [from |-> from, to |-> to, action |-> action, guards |-> guards, effects |-> effects]

\* Initial state, other states that are not terminal, terminal states, transitions in
\* their order.
W(initial, open, terminal, transitions) ==
  [initial |-> initial, states |-> {initial} \cup open \cup terminal,
   terminal |-> terminal, transitions |-> transitions]

-----------------------------------------------------------------------------
PROJECT == W("OPEN", {"ON_HOLD"}, {"CLOSED", "CANCELLED"}, <<
  T("OPEN", "ON_HOLD", "project.edit", <<"reason_required">>, <<>>),
  T("ON_HOLD", "OPEN", "project.edit", <<>>, <<>>),
  T("OPEN", "CLOSED", "project.edit", <<"no_open_children">>, <<"project.closed">>),
  T(AnyState, "CANCELLED", "project.cancel", <<"reason_required">>, <<>>)>>)

ACCOUNT == W("ACTIVE", {"INACTIVE", "BLOCKED"}, {}, <<
  T("ACTIVE", "INACTIVE", "account.edit", <<>>, <<>>),
  T("INACTIVE", "ACTIVE", "account.edit", <<>>, <<>>),
  T("ACTIVE", "BLOCKED", "account.edit", <<"reason_required">>, <<>>),
  T("BLOCKED", "ACTIVE", "account.edit", <<>>, <<>>)>>)

QUOTE == W("DRAFT", {"PENDING_APPROVAL", "SENT", "NEGOTIATING", "SUSPENDED"},
  {"ACCEPTED", "REFUSED", "EXPIRED", "CANCELLED"}, <<
  T("DRAFT", "PENDING_APPROVAL", "quote.submit",
    <<"has_billable_lines", "totals_computed", "not discount_within_threshold">>,
    <<"notify", "quote.approval_requested">>),
  T("DRAFT", "SENT", "quote.submit",
    <<"has_billable_lines", "totals_computed", "discount_within_threshold">>,
    <<"freeze_revision", "allocate_number", "issue_document", "notify", "quote.sent">>),
  T("PENDING_APPROVAL", "SENT", "quote.approve", <<"signatory_authorised">>,
    <<"freeze_revision", "allocate_number", "issue_document", "notify", "quote.approved",
      "quote.sent">>),
  T("PENDING_APPROVAL", "DRAFT", "quote.edit", <<>>, <<>>),
  T("SENT", "NEGOTIATING", "quote.edit", <<>>, <<"quote.negotiating">>),
  T("SENT", "DRAFT", "quote.edit", <<>>, <<"create_next_revision_on_edit">>),
  T("NEGOTIATING", "DRAFT", "quote.edit", <<>>, <<"create_next_revision_on_edit">>),
  T("SENT", "ACCEPTED", "quote.approve", <<"acceptance_evidence_attached">>,
    <<"create_order", "provision_work", "make_milestone_invoiceable", "notify", "quote.accepted">>),
  T("NEGOTIATING", "ACCEPTED", "quote.approve", <<"acceptance_evidence_attached">>,
    <<"create_order", "provision_work", "make_milestone_invoiceable", "notify", "quote.accepted">>),
  T("SENT", "REFUSED", "quote.cancel", <<"reason_required">>, <<"notify", "quote.refused">>),
  T("NEGOTIATING", "REFUSED", "quote.cancel", <<"reason_required">>, <<"notify", "quote.refused">>),
  T("SENT", "SUSPENDED", "quote.edit", <<"reason_required">>, <<"quote.suspended">>),
  T("NEGOTIATING", "SUSPENDED", "quote.edit", <<"reason_required">>, <<"quote.suspended">>),
  T("SUSPENDED", "NEGOTIATING", "quote.edit", <<>>, <<>>),
  T("SENT", "EXPIRED", "system", <<"validity_elapsed">>, <<"notify", "quote.expired">>),
  T(AnyState, "CANCELLED", "quote.cancel",
    <<"reason_required">>, <<"release_stock", "quote.cancelled">>)>>)

CONTRACT == W("DRAFT", {"SENT_FOR_SIGNATURE"}, {"SIGNED", "CANCELLED"}, <<
  T("DRAFT", "SENT_FOR_SIGNATURE", "contract.submit", <<>>,
    <<"request_signature", "contract.sent">>),
  T("SENT_FOR_SIGNATURE", "SIGNED", "contract.sign", <<"acceptance_evidence_attached">>,
    <<"issue_document", "contract.signed">>),
  T(AnyState, "CANCELLED", "contract.cancel", <<"reason_required">>, <<>>)>>)

ORDER == W("OPEN", {"AMENDED"}, {"COMPLETED", "CANCELLED"}, <<
  T("OPEN", "AMENDED", "system", <<>>, <<"order.amended">>),
  T("AMENDED", "COMPLETED", "system", <<"no_open_children">>, <<"order.completed">>),
  T("OPEN", "COMPLETED", "system", <<"no_open_children">>, <<"order.completed">>),
  T(AnyState, "CANCELLED", "order.cancel", <<"reason_required">>, <<"release_stock">>)>>)

INTAKE == W("REGISTERED", {"PARTIALLY_PROCESSED"}, {"PROCESSED", "CANCELLED"}, <<
  T("REGISTERED", "PARTIALLY_PROCESSED", "system", <<>>, <<>>),
  T("PARTIALLY_PROCESSED", "PROCESSED", "system", <<"all_runs_of_intake_reported">>, <<>>),
  T("REGISTERED", "PROCESSED", "system", <<"all_runs_of_intake_reported">>, <<>>),
  T("REGISTERED", "CANCELLED", "intake.cancel", <<"reason_required", "all_measurements_present">>,
    <<>>)>>)

TEST_RUN == W("SCHEDULED", {"IN_PROGRESS", "MEASURED", "UNDER_REVIEW", "VALIDATED"},
  {"REPORTED", "CANCELLED"}, <<
  T("SCHEDULED", "IN_PROGRESS", "test_run.edit", <<"assigned_or_can_assign">>,
    <<"test_run.started">>),
  T("IN_PROGRESS", "MEASURED", "test_run.edit", <<"all_measurements_present", "no_rule_blocking">>,
    <<"notify", "test_run.measured">>),
  T("MEASURED", "UNDER_REVIEW", "test_run.review_results", <<"actor_is_not_entrant">>, <<>>),
  T("UNDER_REVIEW", "VALIDATED", "test_run.review_results", <<>>, <<"test_run.validated">>),
  T("UNDER_REVIEW", "IN_PROGRESS", "test_run.review_results", <<"reason_required">>, <<"notify">>),
  T("VALIDATED", "REPORTED", "system", <<>>, <<"increment_delivered", "close_parent_if_complete">>),
  T(AnyState, "CANCELLED", "test_run.cancel", <<"reason_required">>,
    <<"release_specimens", "test_run.cancelled">>)>>)

REPORT == W("DRAFT", {"ISSUED"}, {"SUPERSEDED", "REVOKED"}, <<
  T("DRAFT", "ISSUED", "report.issue", <<"all_runs_validated", "signatory_authorised">>,
    <<"allocate_number", "issue_document", "notify", "make_milestone_invoiceable",
      "report.issued">>),
  T("ISSUED", "SUPERSEDED", "system", <<>>,
    <<"update_document_status", "notify", "report.superseded">>),
  T("ISSUED", "REVOKED", "report.cancel", <<"reason_required">>,
    <<"update_document_status", "notify", "decrement_delivered", "report.revoked">>)>>)

INVOICE == W("DRAFT", {}, {"ISSUED", "CANCELLED"}, <<
  T("DRAFT", "ISSUED", "invoice.issue", <<"invoice_has_lines">>,
    <<"allocate_number", "issue_document", "notify", "invoice.issued">>),
  T("DRAFT", "CANCELLED", "invoice.cancel", <<>>, <<>>)>>)

PAYMENT == W("RECORDED", {}, {"REVERSED"}, <<
  T("RECORDED", "REVERSED", "payment.cancel", <<"reason_required">>, <<"payment.reversed">>)>>)

RENTAL == W("RESERVED", {"ACTIVE", "LATE", "RETURNED"}, {"CLOSED", "CANCELLED"}, <<
  T("RESERVED", "ACTIVE", "rental.edit", <<"stock_available">>,
    <<"stock_movement", "issue_document", "rental.started">>),
  T("ACTIVE", "LATE", "system", <<>>, <<"notify", "rental.late">>),
  T("ACTIVE", "RETURNED", "rental.edit", <<"condition_recorded">>,
    <<"stock_movement", "compute_penalty", "rental.returned">>),
  T("LATE", "RETURNED", "rental.edit", <<"condition_recorded">>,
    <<"stock_movement", "compute_penalty", "rental.returned">>),
  T("RETURNED", "CLOSED", "rental.edit", <<"penalties_settled">>, <<>>),
  T("RESERVED", "CANCELLED", "rental.cancel", <<"reason_required">>, <<"release_stock">>)>>)

SALE == W("RESERVED", {}, {"DELIVERED", "CANCELLED"}, <<
  T("RESERVED", "DELIVERED", "sale.edit", <<"stock_available">>,
    <<"stock_movement", "issue_document">>),
  T("RESERVED", "CANCELLED", "sale.cancel", <<"reason_required">>, <<"release_stock">>)>>)

OUTING == W("OPEN", {"PARTIALLY_RETURNED"}, {"CLOSED"}, <<
  T("OPEN", "PARTIALLY_RETURNED", "outing.edit", <<>>, <<"stock_movement">>),
  T("OPEN", "CLOSED", "outing.edit", <<>>, <<"stock_movement">>),
  T("PARTIALLY_RETURNED", "CLOSED", "outing.edit", <<>>, <<"stock_movement">>)>>)

TRANSFER == W("DRAFT", {"VALIDATED", "IN_TRANSIT"}, {"RECEIVED", "CANCELLED"}, <<
  T("DRAFT", "VALIDATED", "transfer.approve", <<"stock_available">>, <<>>),
  T("VALIDATED", "IN_TRANSIT", "transfer.edit", <<>>, <<"stock_movement", "transfer.dispatched">>),
  T("IN_TRANSIT", "RECEIVED", "transfer.edit", <<>>, <<"stock_movement", "transfer.received">>),
  T("DRAFT", "CANCELLED", "transfer.cancel", <<"reason_required">>, <<>>),
  T("VALIDATED", "CANCELLED", "transfer.cancel", <<"reason_required">>, <<>>)>>)

MAINTENANCE == W("PLANNED", {"IN_PROGRESS"}, {"DONE", "CANCELLED"}, <<
  T("PLANNED", "IN_PROGRESS", "maintenance.edit", <<>>, <<>>),
  T("IN_PROGRESS", "DONE", "maintenance.edit", <<>>, <<"maintenance.done">>),
  T(AnyState, "CANCELLED", "maintenance.cancel", <<"reason_required">>, <<>>)>>)

WORK_ORDER == W("PLANNED", {"IN_PROGRESS", "LATE"}, {"COMPLETED", "CANCELLED"}, <<
  T("PLANNED", "IN_PROGRESS", "system", <<>>, <<>>),
  T("IN_PROGRESS", "LATE", "system", <<>>, <<"notify", "work_order.late">>),
  T("IN_PROGRESS", "COMPLETED", "system", <<>>,
    <<"increment_delivered", "make_milestone_invoiceable", "work_order.completed">>),
  T("LATE", "COMPLETED", "system", <<>>,
    <<"increment_delivered", "make_milestone_invoiceable", "work_order.completed">>),
  T(AnyState, "CANCELLED", "work_order.cancel", <<"reason_required">>, <<>>)>>)

PHASE == W("PENDING", {"IN_PROGRESS"}, {"COMPLETED"}, <<
  T("PENDING", "IN_PROGRESS", "work_order.edit", <<>>, <<>>),
  T("IN_PROGRESS", "COMPLETED", "work_order.edit", <<>>, <<"phase.completed">>)>>)

\* DEFAULT_WORKFLOWS.
Kinds == {"PROJECT", "ACCOUNT", "QUOTE", "CONTRACT", "ORDER", "INTAKE", "TEST_RUN", "REPORT",
          "INVOICE", "PAYMENT", "RENTAL", "SALE", "OUTING", "TRANSFER", "MAINTENANCE",
          "WORK_ORDER", "PHASE"}

Default ==
  [PROJECT |-> PROJECT, ACCOUNT |-> ACCOUNT, QUOTE |-> QUOTE, CONTRACT |-> CONTRACT,
   ORDER |-> ORDER, INTAKE |-> INTAKE, TEST_RUN |-> TEST_RUN, REPORT |-> REPORT,
   INVOICE |-> INVOICE, PAYMENT |-> PAYMENT, RENTAL |-> RENTAL, SALE |-> SALE,
   OUTING |-> OUTING, TRANSFER |-> TRANSFER, MAINTENANCE |-> MAINTENANCE,
   WORK_ORDER |-> WORK_ORDER, PHASE |-> PHASE]

-----------------------------------------------------------------------------
(* What the engine knows.                                                  *)

SEMANTICS ==
  [PROJECT |-> {"OPEN", "ON_HOLD", "CLOSED", "CANCELLED"},
   ACCOUNT |-> {"ACTIVE", "INACTIVE", "BLOCKED"},
   QUOTE |-> {"DRAFT", "PENDING_APPROVAL", "SENT", "NEGOTIATING", "ACCEPTED", "REFUSED",
     "SUSPENDED", "EXPIRED", "CANCELLED"},
   CONTRACT |-> {"DRAFT", "SENT_FOR_SIGNATURE", "SIGNED", "CANCELLED"},
   ORDER |-> {"OPEN", "AMENDED", "COMPLETED", "CANCELLED"},
   INTAKE |-> {"REGISTERED", "PARTIALLY_PROCESSED", "PROCESSED", "CANCELLED"},
   TEST_RUN |-> {"SCHEDULED", "IN_PROGRESS", "MEASURED", "UNDER_REVIEW", "VALIDATED",
     "REPORTED", "CANCELLED"},
   REPORT |-> {"DRAFT", "ISSUED", "SUPERSEDED", "REVOKED"},
   INVOICE |-> {"DRAFT", "ISSUED", "CANCELLED"},
   PAYMENT |-> {"RECORDED", "REVERSED"},
   RENTAL |-> {"RESERVED", "ACTIVE", "RETURNED", "LATE", "CLOSED", "CANCELLED"},
   SALE |-> {"RESERVED", "DELIVERED", "CANCELLED"},
   OUTING |-> {"OPEN", "PARTIALLY_RETURNED", "CLOSED"},
   TRANSFER |-> {"DRAFT", "VALIDATED", "IN_TRANSIT", "RECEIVED", "CANCELLED"},
   MAINTENANCE |-> {"PLANNED", "IN_PROGRESS", "DONE", "CANCELLED"},
   WORK_ORDER |-> {"PLANNED", "IN_PROGRESS", "LATE", "COMPLETED", "CANCELLED"},
   PHASE |-> {"PENDING", "IN_PROGRESS", "COMPLETED"}]

KNOWN_GUARDS ==
  {"acceptance_evidence_attached", "actor_is_not_entrant", "all_measurements_present",
   "all_runs_of_intake_reported", "all_runs_validated", "assigned_or_can_assign",
   "condition_recorded", "discount_within_threshold", "has_billable_lines",
   "invoice_has_lines", "no_open_children", "no_rule_blocking", "payment_fully_allocated",
   "penalties_settled", "reason_required", "signatory_authorised", "stock_available",
   "totals_computed", "validity_elapsed"}

KNOWN_EFFECTS ==
  {"allocate_number", "close_parent_if_complete", "compute_penalty",
   "create_next_revision_on_edit", "create_order", "decrement_delivered", "emit",
   "freeze_revision", "increment_delivered", "issue_document", "make_milestone_invoiceable",
   "notify", "provision_work", "release_specimens", "release_stock", "request_signature",
   "reserve_stock", "stock_movement", "update_document_status"}

\* parse_spec() and the prefix "not ": the guard looked up, and whether it is negated.
Negated(g) == g = "not discount_within_threshold"
GuardCode(g) == IF Negated(g) THEN "discount_within_threshold" ELSE g
EffectCode(e) == IF e \in KNOWN_EFFECTS THEN e ELSE "emit"

\* validate_workflow() reports no problem.
Valid(kind, w) ==
  /\ w.states = SEMANTICS[kind] /\ w.initial \in w.states
  /\ \A i \in DOMAIN w.transitions :
       LET t == w.transitions[i]
       IN /\ t.to \in w.states /\ t.from \in w.states \cup {AnyState}
          /\ \A j \in DOMAIN t.guards : GuardCode(t.guards[j]) \in KNOWN_GUARDS
          /\ \A j \in DOMAIN t.effects : EffectCode(t.effects[j]) \in KNOWN_EFFECTS

\* available_transitions(): the indexes of the transitions that leave a state.
Available(w, s) ==
  IF s \in w.terminal THEN {}
  ELSE {i \in DOMAIN w.transitions : /\ w.transitions[i].from \in {s, AnyState}
                                     /\ w.transitions[i].to # s}
=============================================================================
