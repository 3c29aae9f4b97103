---------------------------- MODULE CommitLog ----------------------------
(***************************************************************************)
(* What the journal promises to the transaction coordinator: an append-    *)
(* only sequence of committed groups with at most one attempt whose        *)
(* outcome is open.  The attempt is either acknowledged, or resolved when  *)
(* the store is reopened - as committed, once, at the next revision, or as *)
(* never to be committed.                                                  *)
(***************************************************************************)
EXTENDS Integers, Sequences

CONSTANT MaxAttempts

VARIABLES
  committed,   \* the groups reported durable, in revision order
  open,        \* the attempt whose outcome is open, or 0
  proposed     \* the attempts made so far

vars == <<committed, open, proposed>>

Init == committed = <<>> /\ open = 0 /\ proposed = {}

\* A caller asks for an append: the attempt has a fresh identity.
Propose ==
  /\ \E a \in (1..MaxAttempts) \ proposed : proposed' = proposed \cup {a}
  /\ UNCHANGED <<committed, open>>

\* The store starts to write: from here the outcome is open.
Start ==
  /\ open = 0
  /\ open' \in proposed /\ \A r \in 1..Len(committed) : committed[r] # open'
  /\ UNCHANGED <<committed, proposed>>

\* The append returns its revision.
Acknowledge ==
  /\ open # 0
  /\ committed' = Append(committed, open) /\ open' = 0
  /\ UNCHANGED proposed

\* A reopening resolves the open outcome, if any, one way or the other.
Resolve ==
  /\ open # 0
  /\ committed' \in {committed, Append(committed, open)} /\ open' = 0
  /\ UNCHANGED proposed

Next == Propose \/ Start \/ Acknowledge \/ Resolve

Spec == Init /\ [][Next]_vars
=============================================================================
