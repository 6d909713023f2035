---------------------------- MODULE LexicalScope ----------------------------
(***************************************************************************)
(* The binding cells of a Flash program: `ScopeStack` of                   *)
(* flash-runtime/src/scope.rs.  A scope is a nonempty sequence of frames,  *)
(* the root first; a frame maps the names it declares to their cells.      *)
(***************************************************************************)
EXTENDS Naturals, Sequences, SequencesExt

Cell(mutable, value) == [mutable |-> mutable, value |-> value]
EmptyFrame == [n \in {} |-> Cell(FALSE, n)]
OneCell(name, cell) == [n \in {name} |-> cell]

Visible(scope) == UNION {DOMAIN scope[i] : i \in 1..Len(scope)}

\* `find`: the innermost frame that declares a visible name, and its cell there.
Holder(scope, name) ==
  CHOOSE i \in 1..Len(scope) :
    /\ name \in DOMAIN scope[i]
    /\ \A k \in (i + 1)..Len(scope) : name \notin DOMAIN scope[k]
Found(scope, name) == scope[Holder(scope, name)][name]

Push(scope) == Append(scope, EmptyFrame)
Pop(scope)  == Front(scope)

CanDeclare(scope, name) == name \notin DOMAIN scope[Len(scope)]
Declare(scope, name, cell) ==
  [scope EXCEPT ![Len(scope)] =
     [n \in DOMAIN scope[Len(scope)] \cup {name} |->
        IF n = name THEN cell ELSE scope[Len(scope)][n]]]

CanAssign(scope, name) == name \in Visible(scope) /\ Found(scope, name).mutable
Assign(scope, name, value) == [scope EXCEPT ![Holder(scope, name)][name].value = value]

\* What a function keeps of the scope it is defined in: every cell, by value and frozen.
Captured(scope) ==
  [i \in 1..Len(scope) |-> [n \in DOMAIN scope[i] |-> Cell(FALSE, scope[i][n].value)]]
=============================================================================
