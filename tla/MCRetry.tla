------------------------------ MODULE MCRetry ------------------------------
(* Instances of Retry for TLC: 400 and 404 stand for the 4xx statuses, 501 *)
(* for a 5xx the taxonomy does not name.                                   *)
EXTENDS Retry

SomeStatuses == {400, 404, 429, 500, 501, 503}

=============================================================================
