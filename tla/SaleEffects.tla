---------------------------- MODULE SaleEffects ----------------------------
(***************************************************************************)
(* What the offline-sale pipeline promises about business effects: a       *)
(* business key is posted to the ledger by at most one fact, and a posted  *)
(* sale is reported (its insight appended) at most once, ever: only the    *)
(* request that posted it may report it, and a request that is cut short   *)
(* takes the report with it.                                               *)
(***************************************************************************)
CONSTANT LedgerRows   \* the ledger rows there may be; a row has a field key

VARIABLES posted,    \* rows on the ledger, for good
          pending,   \* posted rows whose request has not reported them yet
          reported   \* rows reported since the last restart

vars == <<posted, pending, reported>>

Init == posted = {} /\ pending = {} /\ reported = {}

\* The commit that posts the row also decides whether its request lives on.
Post(row) ==
  /\ \A other \in posted : other.key # row.key
  /\ posted' = posted \union {row}
  /\ pending' \in {pending, pending \union {row}}
  /\ UNCHANGED reported

Report(row) ==
  /\ row \in pending \ reported
  /\ pending' = pending \ {row}
  /\ reported' = reported \union {row}
  /\ UNCHANGED posted

Abandon(row) ==
  /\ row \in pending
  /\ pending' = pending \ {row}
  /\ UNCHANGED <<posted, reported>>

Restart ==
  /\ pending' = {}
  /\ reported' = {}
  /\ UNCHANGED posted

Next == (\E row \in LedgerRows : Post(row) \/ Report(row) \/ Abandon(row)) \/ Restart

Spec == Init /\ [][Next]_vars
=============================================================================
