-------------------------- MODULE VersionedRegister --------------------------
(***************************************************************************)
(* What the checkpoint store promises about the versions of a workflow     *)
(* thread: they are issued one after another, each to one save, and at     *)
(* most one caller is ever told that its save made a version.  A caller    *)
(* that is told nothing may still have made one.                           *)
(***************************************************************************)
EXTENDS Naturals

CONSTANT Flows

VARIABLES version,   \* the version stored of each workflow thread, 0 for none
          untold,    \* versions whose caller has not been answered yet
          told       \* versions a caller was told it made

vars == <<version, untold, told>>

Init ==
  /\ version = [f \in Flows |-> 0]
  /\ untold = [f \in Flows |-> {}]
  /\ told = [f \in Flows |-> {}]

\* Whether the caller survives the save is decided with it.
Save(f) ==
  LET new == version[f] + 1 IN
  /\ version' = [version EXCEPT ![f] = new]
  /\ \/ untold' = [untold EXCEPT ![f] = @ \union {new}]
     \/ UNCHANGED untold
  /\ UNCHANGED told

Tell(f) ==
  \E v \in untold[f] \ told[f] :
    /\ untold' = [untold EXCEPT ![f] = @ \ {v}]
    /\ told' = [told EXCEPT ![f] = @ \union {v}]
    /\ UNCHANGED version

Abandon(f) ==
  \E v \in untold[f] :
    /\ untold' = [untold EXCEPT ![f] = @ \ {v}]
    /\ UNCHANGED <<version, told>>

Next == \E f \in Flows : Save(f) \/ Tell(f) \/ Abandon(f)

Spec == Init /\ [][Next]_vars
=============================================================================
