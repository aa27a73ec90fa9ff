---------------------------- MODULE MCFundingWait ----------------------------
(* Inputs for FundingWait: a wait that ends between two polls, one whose     *)
(* lookups may be longer than an interval, one without time, and no wait.    *)
EXTENDS FundingWait

Wait(on, timeout, interval, retries) ==
    [wait |-> on, timeout |-> timeout, interval |-> interval, maxRetries |-> retries]

MCWaitOptions == {Wait(TRUE, 5, 2, 1), Wait(TRUE, 4, 1, 2), Wait(TRUE, 0, 2, 0), Wait(FALSE, 4, 2, 0)}
=============================================================================
