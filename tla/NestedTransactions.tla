------------------------ MODULE NestedTransactions ------------------------
(***************************************************************************)
(* What Flash promises of its language state (bindings, environment,       *)
(* working directory, status): docs/architecture.md, "A language `try`     *)
(* adds an enclosing checkpoint".  A top-level statement is a transaction  *)
(* on the session and every `try` one inside it.  layers[1] is the         *)
(* session, layers[i] the state transaction i - 1 started from, and the    *)
(* last layer is the state the program works on.                           *)
(***************************************************************************)
EXTENDS Naturals, Sequences, SequencesExt

VARIABLES layers,   \* the session, the open checkpoints and the working state
          failed    \* has the innermost transaction failed?

vars == <<layers, failed>>

Init == Len(layers) = 1 /\ failed = FALSE

Open == Len(layers) > 1
Checkpoints == Front(layers)

\* A transaction starts from the state the program has.
Begin == /\ ~failed
         /\ Len(layers') = Len(layers) + 1 /\ Front(layers') = layers
         /\ UNCHANGED failed

\* The program changes the state it works on and no checkpoint, until it fails.
Work == /\ Open /\ ~failed
        /\ Len(layers') = Len(layers) /\ Front(layers') = Checkpoints
        /\ failed' \in BOOLEAN

\* A transaction that ends well becomes a part of the one around it.
Merge == /\ Open /\ ~failed
         /\ Len(layers') = Len(layers) - 1 /\ Front(layers') = Front(Checkpoints)
         /\ UNCHANGED failed

\* One that failed is undone: the program goes on from its checkpoint.
Undo == /\ Open /\ failed
        /\ layers' = Checkpoints
        /\ failed' = FALSE

\* Every transaction is abandoned, or (an `exit`) they all become one.
Abandon == /\ Open
           /\ layers' = <<layers[1]>>
           /\ failed' = FALSE
Unite == /\ Open /\ ~failed
         /\ Len(layers') = 2 /\ layers'[1] = layers[1]
         /\ UNCHANGED failed

\* Background work is launched between transactions and sets the session's status.
Launch == /\ ~Open
          /\ Len(layers') = 1
          /\ UNCHANGED failed

Next == Begin \/ Work \/ Merge \/ Undo \/ Abandon \/ Unite \/ Launch

Spec == Init /\ [][Next]_vars
=============================================================================
