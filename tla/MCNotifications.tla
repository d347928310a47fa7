--------------------------- MODULE MCNotifications ---------------------------
(* One event; a rule for WhatsApp and SMS, which reach the same phone, with    *)
(* e-mail behind them in the branch's fallback order.                          *)
EXTENDS Notifications

CONSTANTS wa, sms, email

MCChannel       == {wa, sms, email}
MCRuleChannels  == {wa, sms}
MCOneChannel    == {wa}
MCFallbackOrder == <<wa, sms, email>>
MCReachable     == {wa, sms, email}
MCNoSms         == {wa, email}
MCAddress       == [c \in MCChannel |-> IF c = email THEN "mailbox" ELSE "phone"]

\* Workers are interchangeable.
Symmetry == Permutations(Worker)
=============================================================================
