----------------------------- MODULE AiExchange -----------------------------
(***************************************************************************)
(* What passes between the backend and the AI track, side by side: the     *)
(* hand-off of inquiries, the hand-off of the catalog, and the retrieval   *)
(* experiment on the products that the same exports hold.  One of them is  *)
(* in focus and acts while collections go on; what the others do at the    *)
(* same time touches other files.                                          *)
(***************************************************************************)
EXTENDS CommunityHandoff, ProductEvaluation

CONSTANT LabShelves   \* bound: the exports that arrive around the experiment

ASSUME LabAssumption == LabShelves \subseteq Shelves

VARIABLE exchange     \* the focus

Exchanges == {"inquiries", "catalog", "evaluation"}
exchangeVars == <<handoffVars, catalogVars, labVars, exchange>>

ExchangeInit ==
  /\ exchange \in Exchanges
  /\ HandoffInit
  /\ CatalogInit
  /\ EvaluationInit

\* Bound: an export begins when the one before it is complete.
Inquiries ==
  /\ exchange = "inquiries"
  /\ HandoffNext
  /\ \A i \in 1..Len(exports') - 1 : exports'[i].stage = "complete"
  /\ UNCHANGED <<catalogVars, labVars>>

CatalogFocus ==
  /\ exchange = "catalog"
  /\ CatalogNext
  /\ UNCHANGED <<handoffVars, labVars>>

\* Bound: no export arrives once the last snapshot was made.
Experiment ==
  /\ exchange = "evaluation"
  /\ \/ LabNext /\ UNCHANGED catalogVars
     \/ /\ Shelved
        /\ projections < MaxProjections \/ lab.pc \in {"categories", "relations"}
        /\ \A i \in DOMAIN shelf' : [kind |-> shelf'[i].kind, full |-> shelf'[i].full, rows |-> shelf'[i].rows] \in LabShelves
        /\ UNCHANGED labVars
  /\ UNCHANGED handoffVars

ExchangeNext ==
  /\ Inquiries \/ CatalogFocus \/ Experiment
  /\ UNCHANGED exchange

ExchangeSpec == ExchangeInit /\ [][ExchangeNext]_exchangeVars
=============================================================================
