---------------------------- MODULE AtomicAssets ----------------------------
(***************************************************************************)
(* What the coordinator promises of the asset rows, blobs left aside.      *)
(*                                                                         *)
(* An operation is opened with a change: the images it expects at some     *)
(* paths and the images it leaves there.  It is then either applied, once, *)
(* whole, and only while every expected image still holds, or rejected     *)
(* without a trace.  Nothing else changes a row, whatever crashes.         *)
(***************************************************************************)
CONSTANTS Operations, Paths, Images

VARIABLES
  view,      \* the asset rows
  change,    \* what each operation expects and what it leaves
  outcome    \* "none", "open", "applied" or "rejected"

vars == <<view, change, outcome>>

Changes == UNION {[expects : [S -> Images], leaves : [S -> Images]] : S \in SUBSET Paths}
Nothing == [expects |-> <<>>, leaves |-> <<>>]

Init ==
  /\ view \in [Paths -> Images]
  /\ change = [o \in Operations |-> Nothing]
  /\ outcome = [o \in Operations |-> "none"]

Open(o) ==
  /\ outcome[o] = "none"
  /\ outcome' = [outcome EXCEPT ![o] = "open"]
  /\ \E c \in Changes : change' = [change EXCEPT ![o] = c]
  /\ UNCHANGED view

Apply(o) ==
  LET touched == DOMAIN change[o].leaves IN
  /\ outcome[o] = "open"
  /\ \A p \in touched : view[p] = change[o].expects[p]
  /\ view' = [p \in Paths |-> IF p \in touched THEN change[o].leaves[p] ELSE view[p]]
  /\ outcome' = [outcome EXCEPT ![o] = "applied"]
  /\ UNCHANGED change

Reject(o) ==
  /\ outcome[o] = "open"
  /\ outcome' = [outcome EXCEPT ![o] = "rejected"]
  /\ UNCHANGED <<view, change>>

Next == \E o \in Operations : Open(o) \/ Apply(o) \/ Reject(o)

Spec == Init /\ [][Next]_vars
==============================================================================
