------------------------ MODULE MCNotificationOutbox ------------------------
(***************************************************************************)
(* A small outbox: RESULT_PUBLISHED rows and rows the recipient may opt    *)
(* out of, and the requests of two administrators.                         *)
(***************************************************************************)
EXTENDS NotificationOutbox

CONSTANTS result, reminder
=============================================================================
