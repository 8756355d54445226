----------------------------- MODULE MCHttpClient -----------------------------
(* Instances of HttpClient for TLC. *)
EXTENDS HttpClient

\* What getEmptyIns makes, at a time that needs all digits of a double; an instance
\* without port and lease; one whose numbers do not survive.
MCInstances ==
  {getEmptyIns(3, DoubleLimit),
   [port |-> <<>>, leaseInfo |-> <<>>, lastUpdatedTimestamp |-> 0,
    status |-> "DOWN", actionType |-> "ADDED"],
   [port |-> <<[port |-> -1, enable |-> FALSE]>>,
    leaseInfo |-> <<[renewalIntervalInSecs |-> 2 * IntLimit]>>,
    lastUpdatedTimestamp |-> -1, status |-> "UP", actionType |-> ""]}
=============================================================================
