-------------------------- MODULE EvaluatorProofs --------------------------
(***************************************************************************)
(* Proofs about the evaluator of Flash (Evaluator), for any program, any   *)
(* nesting and any limits: frames, scopes, calls and budgets match, no     *)
(* abort but an error is caught, and the language state is changed in      *)
(* nested transactions.                                                    *)
(***************************************************************************)
EXTENDS Evaluator, SequenceTheorems, FiniteSetTheorems, WellFoundedInduction, TLAPS

Loops == {"while", "for"}

\* Two frames, one directly inside the other.
Joined(outside, inside) ==
  /\ outside.kind # "catch" /\ inside.kind # "script"
  /\ outside.kind \in Loops => outside.body
  /\ inside.kind = "call"   => Len(inside.scope) = outside.inner
  /\ inside.kind = "try"    => Len(inside.scope) = outside.inner /\ inside.inner = outside.inner + 1
  /\ inside.kind = "block"  => inside.inner = outside.inner + 1
  /\ inside.kind = "catch"  => inside.inner = outside.inner
  /\ inside.kind \in Loops  => inside.inner = outside.inner + (IF inside.body THEN 1 ELSE 0)

\* A stack whose innermost statements run in a scope of `length` frames.
Stacked(stack, length) ==
  /\ \A i \in 2..Len(stack) : Joined(stack[i - 1], stack[i])
  /\ stack # <<>> => /\ stack[1].kind = "script" /\ stack[1].inner = 1
                     /\ stack[Len(stack)].inner = length

CallsOf(stack) == {i \in 1..Len(stack) : stack[i].kind = "call"}

\* Each call keeps whose code its caller was: the call below it, or the script.
Contexts(stack, current) ==
  /\ \A k \in CallsOf(stack) :
       (\A j \in CallsOf(stack) : k <= j) => stack[k].context = "script"
  /\ \A i, k \in CallsOf(stack) :
       i < k /\ (\A j \in CallsOf(stack) : j <= i \/ k <= j) => stack[k].context = stack[i].callee
  /\ \A i \in CallsOf(stack) : (\A j \in CallsOf(stack) : j <= i) => current = stack[i].callee
  /\ CallsOf(stack) = {} => current = "script"

\* What the innermost frame can be, seen from the signal.
SignalInv ==
  /\ signal \in {"idle", "ended"} <=> control = <<>>
  /\ control # <<>> =>
       /\ Top.kind = "catch" => signal = "run"
       /\ Top.kind \in Loops /\ signal \in {"done"} \cup Transfers => Top.body

\* Nothing stays behind between two statements.
SessionInv ==
  /\ Len(session.scope) = 1
  /\ control = <<>> => session = [scope |-> scope, host |-> host]

\* No budget is overdrawn.
BudgetInv ==
  /\ policy \in {"General", "PureV2"} /\ signal \in Signals /\ cancelled \in BOOLEAN
  /\ host \in Hosts /\ context \in Functions \cup {"script"}
  /\ used \in Nat /\ left \in 0..MaxTop
  /\ depth = Cardinality(CallsOf(control))
  /\ WithinLimits

StackInv == Stacked(control, Len(scope)) /\ Contexts(control, context)

\* A cell of a variable holds a datum, one of a function the scope it captured, which is
\* made of frames of the same set.
CellOf(name, cell, Frames) ==
  /\ cell = Cell(cell.mutable, cell.value) /\ cell.mutable \in BOOLEAN
  /\ name \in Names => cell.value \in Data \cup {Caught}
  /\ name \in Functions => cell.value.captured \in Seq(Frames)

FrameOf(frame, Frames) ==
  /\ frame = [n \in DOMAIN frame |-> frame[n]]
  /\ \A n \in DOMAIN frame : n \in Names \cup Functions /\ CellOf(n, frame[n], Frames)

Closed(Frames) == \A frame \in Frames : FrameOf(frame, Frames)

Depths == Nat \ {0}

\* The frames of the evaluator, over the frames of the scopes.
Control(Frames) ==
  [kind : {"script", "block"}, inner : Depths, left : Nat]
  \cup [kind : Loops, inner : Depths, items : Nat, body : BOOLEAN, left : Nat]
  \cup [kind : {"try"}, inner : Depths, left : Nat, scope : Seq(Frames), host : Hosts]
  \cup [kind : {"call"}, inner : Depths, left : Nat, callee : Functions, scope : Seq(Frames),
        context : Functions \cup {"script"}, then : Then]
  \cup [kind : {"catch"}, inner : Depths]

Typed(Frames) ==
  /\ Closed(Frames)
  /\ scope \in Seq(Frames)
  /\ session \in [scope : Seq(Frames), host : Hosts]
  /\ control \in Seq(Control(Frames))

\* The inductive invariant: the frames of the scopes are some set closed under capture.
Sound(Frames) == Typed(Frames) /\ StackInv /\ SignalInv /\ SessionInv /\ BudgetInv

IInv == \E Frames : Sound(Frames)

-----------------------------------------------------------------------------
(* Numbers. *)

Less == {pair \in Nat \X Nat : pair[1] < pair[2]}

\* Counting down in the naturals ends.
LEMMA LessIsWellFounded == IsWellFoundedOn(Less, Nat)
BY NatLessThanWellFounded, Zenon DEF Less, OpToRel

\* A nonempty set of naturals has a least element.
LEMMA LeastExists ==
  ASSUME NEW S, S \subseteq Nat, S # {}
  PROVE  \E x \in S : \A y \in S : x <= y
<1>1. PICK x \in S : \A y \in S : <<y, x>> \notin Less
  BY LessIsWellFounded, WFMin
<1>2. ASSUME NEW y \in S PROVE x <= y
  <2>1. <<y, x>> \in Nat \X Nat /\ <<y, x>>[1] = y /\ <<y, x>>[2] = x
    OBVIOUS
  <2>2. ~(y < x)
    BY <1>1, <2>1 DEF Less
  <2> QED
    BY <2>2
<1> QED
  BY <1>2

-----------------------------------------------------------------------------
(* Stacks. *)

Replaces(d, c, frame) == d = Append(Front(c), frame)
Pushes(d, c, frame)   == d = Append(c, frame)

\* The innermost frame and the others.
LEMMA StackFacts ==
  ASSUME NEW X, NEW c \in Seq(X), c # <<>>
  PROVE  /\ Len(c) \in Nat \ {0} /\ Front(c) \in Seq(X) /\ Len(Front(c)) = Len(c) - 1
         /\ \A i \in 1..(Len(c) - 1) : Front(c)[i] = c[i]
         /\ Last(c) = c[Len(c)] /\ Last(c) \in X
<1>1. Len(c) \in Nat \ {0} /\ \A i \in 1..Len(c) : c[i] \in X
  BY EmptySeq, LenProperties, ElementOfSeq
<1> DEFINE n == Len(c) - 1
           b == SubSeq(c, 1, n)
<1>2. Front(c) = b /\ Last(c) = c[Len(c)]
  BY DEF Front, Last
<1>3. n \in Nat /\ n \in Int /\ 1 \in Int /\ \A i \in 1..n : c[i] \in X
  BY <1>1
<1> HIDE DEF n
<1>4. /\ b \in Seq(X) /\ Len(b) = IF 1 <= n THEN n - 1 + 1 ELSE 0
      /\ \A i \in 1..(n - 1 + 1) : b[i] = c[1 + i - 1]
  BY <1>3, SubSeqProperties
<1> HIDE DEF b
<1>5. Len(b) = n /\ \A i \in 1..n : b[i] = c[i]
  BY <1>3, <1>4
<1> QED
  BY <1>1, <1>2, <1>4, <1>5 DEF n

\* The innermost frame is replaced.
LEMMA ReplaceFacts ==
  ASSUME NEW X, NEW c \in Seq(X), c # <<>>, NEW frame \in X, NEW d, Replaces(d, c, frame)
  PROVE  /\ d \in Seq(X) /\ d # <<>> /\ Len(d) = Len(c) /\ Front(d) = Front(c) /\ Last(d) = frame
         /\ d[Len(c)] = frame /\ \A i \in 1..(Len(c) - 1) : d[i] = c[i]
<1> DEFINE b == Front(c)
           n == Len(c)
<1>1. /\ n \in Nat \ {0} /\ b \in Seq(X) /\ Len(b) = n - 1 /\ \A i \in 1..(n - 1) : b[i] = c[i]
  BY StackFacts
<1> HIDE DEF b, n
<1>2. /\ d \in Seq(X) /\ Len(d) = n /\ d[n] = frame /\ \A i \in 1..(n - 1) : d[i] = b[i]
  BY <1>1, AppendProperties DEF b, Replaces
<1>3. d # <<>>
  BY <1>1, <1>2, EmptySeq
<1>4. /\ Front(d) \in Seq(X) /\ Len(Front(d)) = n - 1 /\ Last(d) = frame
      /\ \A i \in 1..(n - 1) : Front(d)[i] = d[i]
  BY <1>2, <1>3, StackFacts
<1>5. Front(d) = b
  <2>1. \A i \in 1..Len(b) : Front(d)[i] = b[i]
    BY <1>1, <1>2, <1>4
  <2> QED
    BY <1>1, <1>4, <2>1, SeqEqual
<1> QED
  BY <1>1, <1>2, <1>3, <1>4, <1>5 DEF b, n

\* A frame is entered.
LEMMA PushFacts ==
  ASSUME NEW X, NEW c \in Seq(X), NEW frame \in X, NEW d, Pushes(d, c, frame)
  PROVE  /\ d \in Seq(X) /\ d # <<>> /\ Len(d) = Len(c) + 1 /\ Front(d) = c /\ Last(d) = frame
         /\ d[Len(c) + 1] = frame /\ \A i \in 1..Len(c) : d[i] = c[i]
<1> DEFINE n == Len(c)
<1>1. /\ d \in Seq(X) /\ n \in Nat /\ Len(d) = n + 1 /\ d[n + 1] = frame
      /\ \A i \in 1..n : d[i] = c[i]
  BY AppendProperties, LenProperties DEF Pushes
<1> HIDE DEF n
<1>2. d # <<>>
  BY <1>1, EmptySeq
<1>3. /\ Front(d) \in Seq(X) /\ Len(Front(d)) = n /\ Last(d) = frame
      /\ \A i \in 1..n : Front(d)[i] = d[i]
  <2>1. /\ Front(d) \in Seq(X) /\ Len(Front(d)) = Len(d) - 1 /\ Last(d) = d[Len(d)]
        /\ \A i \in 1..(Len(d) - 1) : Front(d)[i] = d[i]
    BY <1>1, <1>2, StackFacts
  <2> QED
    BY <1>1, <2>1
<1>4. Front(d) = c
  <2>1. Len(Front(d)) = Len(c) /\ \A i \in 1..Len(c) : Front(d)[i] = c[i]
    BY <1>1, <1>3 DEF n
  <2> QED
    BY <1>3, <2>1, SeqEqual
<1> QED
  BY <1>1, <1>2, <1>3, <1>4 DEF n

\* What lies below the innermost frame.
LEMMA BelowFacts ==
  ASSUME NEW X, NEW c \in Seq(X), c # <<>>, NEW l, Stacked(c, l)
  PROVE  /\ Front(c) = <<>> <=> Len(c) = 1
         /\ Last(c).kind = "script" <=> Len(c) = 1
         /\ Last(c).inner = l
         /\ Len(c) > 1 => Joined(Last(Front(c)), Last(c))
         /\ Len(c) = 1 => Last(c) = c[1]
         /\ Front(c) # <<>> => Stacked(Front(c), Last(Front(c)).inner)
<1>1. /\ Len(c) \in Nat \ {0} /\ Front(c) \in Seq(X) /\ Len(Front(c)) = Len(c) - 1
      /\ \A i \in 1..(Len(c) - 1) : Front(c)[i] = c[i]
      /\ Last(c) = c[Len(c)] /\ Last(c) \in X
  BY StackFacts
<1>2. Front(c) = <<>> <=> Len(c) = 1
  BY <1>1, EmptySeq
<1>3. /\ \A i \in 2..Len(c) : Joined(c[i - 1], c[i])
      /\ c[1].kind = "script" /\ c[1].inner = 1 /\ c[Len(c)].inner = l
  BY DEF Stacked
<1>4. CASE Len(c) = 1
  BY <1>1, <1>2, <1>3, <1>4
<1>5. CASE Len(c) > 1
  <2>1. Front(c) # <<>> /\ Last(Front(c)) = Front(c)[Len(c) - 1] /\ Front(c)[Len(c) - 1] = c[Len(c) - 1]
    <3>1. Front(c) # <<>>
      BY <1>1, <1>2, <1>5
    <3>2. Last(Front(c)) = Front(c)[Len(Front(c))]
      BY <1>1, <3>1, StackFacts
    <3> QED
      BY <1>1, <1>5, <3>1, <3>2
  <2>2. Joined(c[Len(c) - 1], c[Len(c)])
    BY <1>1, <1>3, <1>5
  <2>3. Last(c).kind # "script"
    BY <1>1, <2>2 DEF Joined
  <2>4. Stacked(Front(c), Last(Front(c)).inner)
    <3>1. \A i \in 2..(Len(c) - 1) : Front(c)[i] = c[i] /\ Front(c)[i - 1] = c[i - 1] /\ Joined(c[i - 1], c[i])
      BY <1>1, <1>3, <1>5, SMTT(30)
    <3>2. Front(c)[1] = c[1]
      BY <1>1, <1>5
    <3> QED
      BY <1>1, <1>3, <2>1, <3>1, <3>2 DEF Stacked
  <2> QED
    BY <1>1, <1>2, <1>3, <1>5, <2>1, <2>2, <2>3, <2>4
<1> QED
  BY <1>1, <1>4, <1>5

\* The frames still fit when the innermost one is replaced by one that fits.
LEMMA ReplaceStacked ==
  ASSUME NEW X, NEW c \in Seq(X), c # <<>>, NEW l, Stacked(c, l),
         NEW frame \in X, NEW d, Replaces(d, c, frame),
         Len(c) = 1 => frame.kind = "script" /\ frame.inner = 1,
         Len(c) > 1 => Joined(Last(Front(c)), frame)
  PROVE  Stacked(d, frame.inner)
<1>1. /\ Len(c) \in Nat \ {0} /\ Front(c) \in Seq(X) /\ Len(Front(c)) = Len(c) - 1
      /\ \A i \in 1..(Len(c) - 1) : Front(c)[i] = c[i]
  BY StackFacts
<1>2. /\ d \in Seq(X) /\ d # <<>> /\ Len(d) = Len(c)
      /\ d[Len(c)] = frame /\ \A i \in 1..(Len(c) - 1) : d[i] = c[i]
  BY ReplaceFacts
<1>3. /\ \A i \in 2..Len(c) : Joined(c[i - 1], c[i])
      /\ c[1].kind = "script" /\ c[1].inner = 1
  BY DEF Stacked
<1>4. CASE Len(c) = 1
  BY <1>2, <1>4 DEF Stacked
<1>5. CASE Len(c) > 1
  <2>1. Front(c) # <<>> /\ Last(Front(c)) = c[Len(c) - 1]
    <3>1. Front(c) # <<>>
      BY <1>1, <1>5, EmptySeq
    <3>2. Last(Front(c)) = Front(c)[Len(Front(c))]
      BY <1>1, <3>1, StackFacts
    <3> QED
      BY <1>1, <1>5, <3>1, <3>2
  <2>2. ASSUME NEW i \in 2..Len(c) PROVE Joined(d[i - 1], d[i])
    <3>1. CASE i = Len(c)
      <4>1. d[i] = frame /\ d[i - 1] = c[Len(c) - 1]
        BY <1>1, <1>2, <1>5, <3>1
      <4> QED
        BY <1>5, <2>1, <4>1
    <3>2. CASE i # Len(c)
      <4>1. d[i] = c[i] /\ d[i - 1] = c[i - 1]
        BY <1>1, <1>2, <1>5, <3>2
      <4> QED
        BY <1>3, <4>1
    <3> QED
      BY <3>1, <3>2
  <2>3. d[1] = c[1]
    BY <1>1, <1>2, <1>5
  <2> QED
    BY <1>2, <1>3, <2>2, <2>3 DEF Stacked
<1> QED
  BY <1>1, <1>4, <1>5

\* The frames still fit when one that fits is entered.
LEMMA PushStacked ==
  ASSUME NEW X, NEW c \in Seq(X), c # <<>>, NEW l, Stacked(c, l),
         NEW frame \in X, NEW d, Pushes(d, c, frame), Joined(Last(c), frame)
  PROVE  Stacked(d, frame.inner)
<1>1. Len(c) \in Nat \ {0} /\ Last(c) = c[Len(c)]
  BY StackFacts
<1>2. /\ d # <<>> /\ Len(d) = Len(c) + 1
      /\ d[Len(c) + 1] = frame /\ \A i \in 1..Len(c) : d[i] = c[i]
  BY PushFacts
<1>3. /\ \A i \in 2..Len(c) : Joined(c[i - 1], c[i])
      /\ c[1].kind = "script" /\ c[1].inner = 1
  BY DEF Stacked
<1>4. ASSUME NEW i \in 2..(Len(c) + 1) PROVE Joined(d[i - 1], d[i])
  <2>1. CASE i = Len(c) + 1
    BY <1>1, <1>2, <2>1
  <2>2. CASE i \in 2..Len(c)
    <3>1. d[i] = c[i] /\ d[i - 1] = c[i - 1]
      BY <1>1, <1>2, <2>2
    <3> QED
      BY <1>3, <2>2, <3>1
  <2> QED
    BY <1>1, <2>1, <2>2
<1> QED
  BY <1>1, <1>2, <1>3, <1>4 DEF Stacked

\* Calls are numbers, finitely many.
LEMMA CallsFacts ==
  ASSUME NEW X, NEW c \in Seq(X)
  PROVE  /\ CallsOf(c) \subseteq 1..Len(c) /\ CallsOf(c) \subseteq Nat
         /\ IsFiniteSet(CallsOf(c)) /\ Cardinality(CallsOf(c)) \in Nat
<1>1. Len(c) \in Nat /\ CallsOf(c) \subseteq 1..Len(c)
  BY LenProperties DEF CallsOf
<1>2. IsFiniteSet(1..Len(c))
  BY <1>1, FS_Interval
<1>3. IsFiniteSet(CallsOf(c))
  BY <1>1, <1>2, FS_Subset
<1> QED
  BY <1>1, <1>3, FS_CardinalityType

\* A frame that is no call, or keeps the call it is, changes neither the calls nor their contexts.
LEMMA ReplaceContexts ==
  ASSUME NEW X, NEW c \in Seq(X), c # <<>>, NEW current, Contexts(c, current),
         NEW frame \in X, NEW d, Replaces(d, c, frame),
         frame.kind = "call" <=> Last(c).kind = "call",
         frame.kind = "call" => frame.context = Last(c).context /\ frame.callee = Last(c).callee
  PROVE  CallsOf(d) = CallsOf(c) /\ Contexts(d, current)
<1>1. Len(c) \in Nat \ {0} /\ Last(c) = c[Len(c)]
  BY StackFacts
<1>2. Len(d) = Len(c) /\ d[Len(c)] = frame /\ \A i \in 1..(Len(c) - 1) : d[i] = c[i]
  BY ReplaceFacts
<1>3. ASSUME NEW i \in 1..Len(c)
      PROVE  /\ d[i].kind = "call" <=> c[i].kind = "call"
             /\ d[i].kind = "call" => d[i].context = c[i].context /\ d[i].callee = c[i].callee
  <2>1. CASE i = Len(c)
    BY <1>1, <1>2, <2>1
  <2>2. CASE i \in 1..(Len(c) - 1)
    BY <1>2, <2>2
  <2> QED
    BY <1>1, <2>1, <2>2
<1>4. CallsOf(d) = CallsOf(c)
  BY <1>2, <1>3 DEF CallsOf
<1>5. \A i \in CallsOf(c) : d[i].context = c[i].context /\ d[i].callee = c[i].callee
  BY <1>3 DEF CallsOf
<1> QED
  BY <1>4, <1>5 DEF Contexts

\* A frame that is no call leaves the calls and their contexts as they are.
LEMMA PushContexts ==
  ASSUME NEW X, NEW c \in Seq(X), NEW current, Contexts(c, current),
         NEW frame \in X, NEW d, Pushes(d, c, frame), frame.kind # "call"
  PROVE  CallsOf(d) = CallsOf(c) /\ Contexts(d, current)
<1>1. Len(c) \in Nat
  BY LenProperties
<1>2. Len(d) = Len(c) + 1 /\ d[Len(c) + 1] = frame /\ \A i \in 1..Len(c) : d[i] = c[i]
  BY PushFacts
<1>3. CallsOf(d) = CallsOf(c)
  BY <1>1, <1>2 DEF CallsOf
<1>4. \A i \in CallsOf(c) : d[i] = c[i]
  BY <1>2 DEF CallsOf
<1> QED
  BY <1>3, <1>4 DEF Contexts

\* A call keeps whose code was running, and is one call more.
LEMMA PushCall ==
  ASSUME NEW X, NEW c \in Seq(X), NEW current, Contexts(c, current),
         NEW frame \in X, NEW d, Pushes(d, c, frame), frame.kind = "call", frame.context = current
  PROVE  /\ Cardinality(CallsOf(d)) = Cardinality(CallsOf(c)) + 1
         /\ Contexts(d, frame.callee)
<1> DEFINE n == Len(c) + 1
<1>1. Len(c) \in Nat /\ CallsOf(c) \subseteq 1..Len(c) /\ CallsOf(c) \subseteq Nat
      /\ IsFiniteSet(CallsOf(c))
  BY LenProperties, CallsFacts
<1>2. Len(d) = n /\ d[n] = frame /\ \A i \in 1..Len(c) : d[i] = c[i]
  BY PushFacts
<1>3. CallsOf(d) = CallsOf(c) \cup {n} /\ n \notin CallsOf(c) /\ n \in Nat
      /\ \A i \in CallsOf(c) : i < n /\ d[i] = c[i]
  BY <1>1, <1>2 DEF CallsOf
<1>4. Cardinality(CallsOf(d)) = Cardinality(CallsOf(c)) + 1
  BY <1>1, <1>3, FS_AddElement
<1> HIDE DEF n
<1>5. \A k \in CallsOf(d) :
        (\A j \in CallsOf(d) : k <= j) => d[k].context = "script"
  <2> SUFFICES ASSUME NEW k \in CallsOf(d), \A j \in CallsOf(d) : k <= j PROVE d[k].context = "script"
    OBVIOUS
  <2>1. CASE k \in CallsOf(c)
    BY <1>3, <2>1 DEF Contexts
  <2>2. CASE k = n
    <3>1. CallsOf(c) = {}
      BY <1>1, <1>3, <2>2
    <3> QED
      BY <1>2, <2>2, <3>1 DEF Contexts
  <2> QED
    BY <1>3, <2>1, <2>2
<1>6. \A i, k \in CallsOf(d) :
        i < k /\ (\A j \in CallsOf(d) : j <= i \/ k <= j) => d[k].context = d[i].callee
  <2> SUFFICES ASSUME NEW i \in CallsOf(d), NEW k \in CallsOf(d), i < k,
                      \A j \in CallsOf(d) : j <= i \/ k <= j
               PROVE  d[k].context = d[i].callee
    OBVIOUS
  <2>1. i \in CallsOf(c)
    BY <1>1, <1>3
  <2>2. CASE k \in CallsOf(c)
    BY <1>3, <2>1, <2>2 DEF Contexts
  <2>3. CASE k = n
    <3>1. \A j \in CallsOf(c) : j <= i
      BY <1>1, <1>3, <2>3
    <3> QED
      BY <1>2, <1>3, <2>1, <2>3, <3>1 DEF Contexts
  <2> QED
    BY <1>3, <2>2, <2>3
<1>7. \A i \in CallsOf(d) : (\A j \in CallsOf(d) : j <= i) => frame.callee = d[i].callee
  BY <1>1, <1>2, <1>3
<1> QED
  BY <1>3, <1>4, <1>5, <1>6, <1>7 DEF Contexts

\* What is left when a frame that is no call is left.
LEMMA PopContexts ==
  ASSUME NEW X, NEW c \in Seq(X), c # <<>>, NEW current, Contexts(c, current),
         Last(c).kind # "call"
  PROVE  CallsOf(Front(c)) = CallsOf(c) /\ Contexts(Front(c), current)
<1>1. /\ Len(c) \in Nat \ {0} /\ Len(Front(c)) = Len(c) - 1 /\ Last(c) = c[Len(c)]
      /\ \A i \in 1..(Len(c) - 1) : Front(c)[i] = c[i]
  BY StackFacts
<1>2. CallsOf(Front(c)) = CallsOf(c)
  BY <1>1 DEF CallsOf
<1>3. \A i \in CallsOf(c) : Front(c)[i] = c[i]
  BY <1>1, <1>2 DEF CallsOf
<1> QED
  BY <1>2, <1>3 DEF Contexts

\* A call that is left gives back the context it kept, which is its caller's.
LEMMA PopCall ==
  ASSUME NEW X, NEW c \in Seq(X), c # <<>>, NEW current, Contexts(c, current),
         Last(c).kind = "call"
  PROVE  /\ Cardinality(CallsOf(c)) = Cardinality(CallsOf(Front(c))) + 1
         /\ Contexts(Front(c), Last(c).context)
<1> DEFINE b == Front(c)
           n == Len(c)
<1>1. /\ n \in Nat \ {0} /\ Len(b) = n - 1 /\ Last(c) = c[n] /\ b \in Seq(X)
      /\ \A i \in 1..(n - 1) : b[i] = c[i]
  BY StackFacts
<1>2. CallsOf(b) \subseteq Nat /\ IsFiniteSet(CallsOf(b))
  BY <1>1, CallsFacts
<1>3. /\ CallsOf(c) = CallsOf(b) \cup {n} /\ n \notin CallsOf(b)
      /\ \A i \in CallsOf(b) : i < n /\ b[i] = c[i]
  BY <1>1 DEF CallsOf
<1>4. Cardinality(CallsOf(c)) = Cardinality(CallsOf(b)) + 1
  BY <1>2, <1>3, FS_AddElement
<1> HIDE DEF b, n
<1>5. \A k \in CallsOf(b) : (\A j \in CallsOf(b) : k <= j) => b[k].context = "script"
  BY <1>1, <1>2, <1>3 DEF Contexts
<1>6. \A i, k \in CallsOf(b) :
        i < k /\ (\A j \in CallsOf(b) : j <= i \/ k <= j) => b[k].context = b[i].callee
  BY <1>1, <1>2, <1>3 DEF Contexts
<1>7. \A i \in CallsOf(b) : (\A j \in CallsOf(b) : j <= i) => c[n].context = b[i].callee
  BY <1>1, <1>2, <1>3 DEF Contexts
<1>8. CallsOf(b) = {} => c[n].context = "script"
  BY <1>1, <1>3 DEF Contexts
<1>9. Contexts(b, c[n].context)
  BY <1>5, <1>6, <1>7, <1>8 DEF Contexts
<1> QED
  BY <1>1, <1>4, <1>9 DEF b, n

-----------------------------------------------------------------------------
(* Scopes. *)

\* More frames, more scopes.
LEMMA FramesGrow ==
  ASSUME NEW F, NEW G, F \subseteq G
  PROVE  /\ Seq(F) \subseteq Seq(G) /\ Control(F) \subseteq Control(G)
         /\ Seq(Control(F)) \subseteq Seq(Control(G))
         /\ \A frame : FrameOf(frame, F) => FrameOf(frame, G)
<1>1. Seq(F) \subseteq Seq(G)
  BY SeqMonotonic
<1>2. Control(F) \subseteq Control(G)
  BY <1>1 DEF Control
<1>3. Seq(Control(F)) \subseteq Seq(Control(G))
  BY <1>2, SeqMonotonic
<1>4. ASSUME NEW frame, FrameOf(frame, F) PROVE FrameOf(frame, G)
  BY <1>1, <1>4 DEF FrameOf, CellOf
<1> QED
  BY <1>1, <1>2, <1>3, <1>4

\* A set of frames stays closed when a frame over it is added.
LEMMA ClosedGrows ==
  ASSUME NEW F, Closed(F), NEW frame, FrameOf(frame, F)
  PROVE  Closed(F \cup {frame})
<1>1. F \subseteq F \cup {frame}
  OBVIOUS
<1>2. \A g \in F \cup {frame} : FrameOf(g, F)
  BY DEF Closed
<1> QED
  BY <1>1, <1>2, FramesGrow DEF Closed

\* A frame without names is sound, whatever its set.
LEMMA EmptyFrameOf ==
  ASSUME NEW F
  PROVE  FrameOf(EmptyFrame, F)
BY DEF FrameOf, EmptyFrame

\* Cells can be told apart by their fields.
LEMMA CellFields ==
  ASSUME NEW m, NEW v
  PROVE  Cell(m, v).mutable = m /\ Cell(m, v).value = v /\ Cell(m, v) = Cell(Cell(m, v).mutable, Cell(m, v).value)
BY DEF Cell

\* A cell that is assigned keeps its mutability.
LEMMA CellUpdated ==
  ASSUME NEW cell, cell = Cell(cell.mutable, cell.value), NEW d
  PROVE  [cell EXCEPT !.value = d] = Cell(cell.mutable, d)
<1>1. PICK m, v : cell = [mutable |-> m, value |-> v]
  BY DEF Cell
<1>2. [[mutable |-> m, value |-> v] EXCEPT !.value = d] = [mutable |-> m, value |-> d]
  OBVIOUS
<1>3. [cell EXCEPT !.value = d] = [mutable |-> m, value |-> d]
  BY <1>1, <1>2, Zenon
<1> QED
  BY <1>1, <1>3 DEF Cell

\* A cell that holds a datum or a caught error is one of a variable.
LEMMA DatumCell ==
  ASSUME NEW F, NEW n \in Names, NEW m \in BOOLEAN, NEW d \in Data \cup {Caught}
  PROVE  CellOf(n, Cell(m, d), F)
<1>1. n \notin Functions
  BY EvaluatorAssumption
<1> QED
  BY <1>1, CellFields DEF CellOf

\* A frame of one sound cell is sound: the names of match arms, items and catch blocks.
LEMMA OneCellOf ==
  ASSUME NEW F, NEW n \in Names \cup Functions, NEW cell, CellOf(n, cell, F)
  PROVE  FrameOf(OneCell(n, cell), F)
<1>1. DOMAIN OneCell(n, cell) = {n} /\ OneCell(n, cell)[n] = cell
      /\ OneCell(n, cell) = [k \in {n} |-> OneCell(n, cell)[k]]
  BY DEF OneCell
<1> QED
  BY <1>1 DEF FrameOf

\* Scopes are sequences of frames; pushing, popping, declaring and assigning keeps them so.
LEMMA PushScope ==
  ASSUME NEW F, NEW s \in Seq(F), NEW frame
  PROVE  /\ Append(s, frame) \in Seq(F \cup {frame}) /\ Len(Append(s, frame)) = Len(s) + 1
         /\ Len(s) \in Nat
<1>1. s \in Seq(F \cup {frame}) /\ Len(s) \in Nat
  BY SeqMonotonic, LenProperties
<1> QED
  BY <1>1, AppendProperties

\* The innermost frame of a scope is popped.
LEMMA PopScope ==
  ASSUME NEW F, NEW s \in Seq(F), Len(s) # 0
  PROVE  Pop(s) \in Seq(F) /\ Len(Pop(s)) = Len(s) - 1
<1>1. s # <<>>
  BY EmptySeq
<1> QED
  BY <1>1, StackFacts DEF Pop

\* A declaration (`ScopeStack::declare`) changes the innermost frame only.
LEMMA DeclareScope ==
  ASSUME NEW F, Closed(F), NEW s \in Seq(F), Len(s) # 0,
         NEW n \in Names \cup Functions, NEW cell, CellOf(n, cell, F)
  PROVE  \E frame : /\ FrameOf(frame, F)
                    /\ Declare(s, n, cell) \in Seq(F \cup {frame})
                    /\ Len(Declare(s, n, cell)) = Len(s)
<1> DEFINE l == Len(s)
           old == s[l]
           new == [k \in DOMAIN old \cup {n} |-> IF k = n THEN cell ELSE old[k]]
           G == F \cup {new}
<1>1. l \in Nat \ {0} /\ l \in 1..l /\ old \in F
  BY LenProperties, ElementOfSeq
<1>2. FrameOf(old, F)
  BY <1>1 DEF Closed
<1>3. FrameOf(new, F)
  <2>1. DOMAIN new = DOMAIN old \cup {n} /\ new = [k \in DOMAIN new |-> new[k]]
    OBVIOUS
  <2>2. ASSUME NEW k \in DOMAIN new PROVE k \in Names \cup Functions /\ CellOf(k, new[k], F)
    BY <1>2, <2>1, <2>2 DEF FrameOf
  <2> HIDE DEF new
  <2> QED
    BY <2>1, <2>2 DEF FrameOf
<1>4. Declare(s, n, cell) = [s EXCEPT ![l] = new]
  BY DEF Declare
<1> HIDE DEF new
<1>5. s \in Seq(G) /\ new \in G
  BY SeqMonotonic
<1>6. [s EXCEPT ![l] = new] \in Seq(G) /\ Len([s EXCEPT ![l] = new]) = Len(s)
  BY <1>1, <1>5, ExceptSeq
<1> QED
  BY <1>3, <1>4, <1>6

\* A name that is visible is held by the innermost frame that declares it.
LEMMA HolderFacts ==
  ASSUME NEW F, NEW s \in Seq(F), NEW n, n \in Visible(s)
  PROVE  Holder(s, n) \in 1..Len(s) /\ n \in DOMAIN s[Holder(s, n)]
<1> DEFINE P(i) == n \in DOMAIN s[i] /\ \A k \in (i + 1)..Len(s) : n \notin DOMAIN s[k]
           T == {Len(s) - i : i \in {j \in 1..Len(s) : n \in DOMAIN s[j]}}
<1>1. Len(s) \in Nat
  BY LenProperties
<1>2. T \subseteq Nat /\ T # {}
  BY <1>1 DEF Visible
<1>3. PICK m \in T : \A t \in T : m <= t
  BY <1>2, LeastExists
<1>4. PICK i \in 1..Len(s) : n \in DOMAIN s[i] /\ m = Len(s) - i
  BY <1>3
<1>5. P(i)
  <2> SUFFICES ASSUME NEW k \in (i + 1)..Len(s), n \in DOMAIN s[k] PROVE FALSE
    BY <1>4
  <2>1. k \in 1..Len(s) /\ Len(s) - k \in T
    BY <1>1, <1>4
  <2>2. m <= Len(s) - k
    BY <1>3, <2>1
  <2> QED
    BY <1>1, <1>4, <2>1, <2>2
<1>6. \E j \in 1..Len(s) : P(j)
  BY <1>5
<1>7. Holder(s, n) = CHOOSE j \in 1..Len(s) : P(j)
  BY DEF Holder
<1> QED
  BY <1>6, <1>7

\* The cell a name is found in is sound.
LEMMA FoundCell ==
  ASSUME NEW F, Closed(F), NEW s \in Seq(F), NEW n \in Names \cup Functions, n \in Visible(s)
  PROVE  CellOf(n, Found(s, n), F)
<1>1. Holder(s, n) \in 1..Len(s) /\ n \in DOMAIN s[Holder(s, n)]
  BY HolderFacts
<1>2. FrameOf(s[Holder(s, n)], F)
  BY <1>1, ElementOfSeq DEF Closed
<1> QED
  BY <1>1, <1>2 DEF FrameOf, Found

\* An assignment (`ScopeStack::assign`) changes one frame and no depth.
LEMMA AssignScope ==
  ASSUME NEW F, Closed(F), NEW s \in Seq(F), NEW n \in Names, CanAssign(s, n),
         NEW d \in Data \cup {Caught}
  PROVE  \E frame : /\ FrameOf(frame, F)
                    /\ Assign(s, n, d) \in Seq(F \cup {frame})
                    /\ Len(Assign(s, n, d)) = Len(s)
<1> DEFINE h == Holder(s, n)
           old == s[h]
           new == [old EXCEPT ![n] = Cell(old[n].mutable, d)]
           G == F \cup {new}
<1>1. h \in 1..Len(s) /\ n \in DOMAIN old
  BY HolderFacts DEF CanAssign
<1>2. old \in F /\ FrameOf(old, F)
  BY <1>1, ElementOfSeq DEF Closed
<1>3. CellOf(n, old[n], F)
  BY <1>1, <1>2 DEF FrameOf
<1>4. [old[n] EXCEPT !.value = d] = Cell(old[n].mutable, d)
  BY <1>3, CellUpdated DEF CellOf
<1>5. FrameOf(new, F)
  <2>1. DOMAIN new = DOMAIN old /\ new = [k \in DOMAIN new |-> new[k]] /\ new[n] = Cell(old[n].mutable, d)
        /\ \A k \in DOMAIN old \ {n} : new[k] = old[k]
    BY <1>1
  <2>2. CellOf(n, new[n], F)
    BY <1>3, <2>1, DatumCell DEF CellOf
  <2> HIDE DEF new
  <2>3. ASSUME NEW k \in DOMAIN new PROVE k \in Names \cup Functions /\ CellOf(k, new[k], F)
    <3>1. CASE k = n
      BY <2>2, <3>1
    <3>2. CASE k # n
      BY <1>2, <2>1, <2>3, <3>2 DEF FrameOf
    <3> QED
      BY <3>1, <3>2
  <2> QED
    BY <2>1, <2>3 DEF FrameOf
<1>6. Assign(s, n, d) = [s EXCEPT ![h] = new]
  <2>1. Assign(s, n, d) = [s EXCEPT ![h] = [old EXCEPT ![n] = [old[n] EXCEPT !.value = d]]]
    BY DEF Assign
  <2> QED
    BY <1>4, <2>1
<1> HIDE DEF new, h
<1>7. s \in Seq(G) /\ new \in G
  BY SeqMonotonic
<1>8. [s EXCEPT ![h] = new] \in Seq(G) /\ Len([s EXCEPT ![h] = new]) = Len(s)
  BY <1>1, <1>7, ExceptSeq
<1> QED
  BY <1>5, <1>6, <1>8

\* What a function captures is made of frames over the same set.
LEMMA CapturedScope ==
  ASSUME NEW F, Closed(F), NEW s \in Seq(F)
  PROVE  \E G : F \subseteq G /\ Closed(G) /\ Captured(s) \in Seq(G)
<1> DEFINE Frozen(frame) == [n \in DOMAIN frame |-> Cell(FALSE, frame[n].value)]
           new == {Frozen(s[i]) : i \in 1..Len(s)}
           G == F \cup new
<1>1. Len(s) \in Nat
  BY LenProperties
<1>2. ASSUME NEW frame \in F PROVE FrameOf(Frozen(frame), F)
  <2> DEFINE f == Frozen(frame)
  <2>1. FrameOf(frame, F)
    BY <1>2 DEF Closed
  <2>2. DOMAIN f = DOMAIN frame /\ f = [n \in DOMAIN f |-> f[n]]
        /\ \A n \in DOMAIN frame : f[n] = Cell(FALSE, frame[n].value)
    OBVIOUS
  <2> HIDE DEF f
  <2>3. ASSUME NEW n \in DOMAIN f PROVE n \in Names \cup Functions /\ CellOf(n, f[n], F)
    <3>1. n \in Names \cup Functions /\ CellOf(n, frame[n], F) /\ f[n] = Cell(FALSE, frame[n].value)
      BY <2>1, <2>2, <2>3 DEF FrameOf
    <3>2. f[n].mutable = FALSE /\ f[n].value = frame[n].value /\ f[n] = Cell(f[n].mutable, f[n].value)
      BY <3>1 DEF Cell
    <3>3. /\ n \in Names => frame[n].value \in Data \cup {Caught}
          /\ n \in Functions => frame[n].value.captured \in Seq(F)
      BY <3>1 DEF CellOf
    <3> QED
      BY <3>1, <3>2, <3>3 DEF CellOf
  <2>4. FrameOf(f, F)
    BY <2>2, <2>3 DEF FrameOf
  <2> QED
    BY <2>4 DEF f
<1> HIDE DEF Frozen
<1>3. Closed(G)
  <2>1. \A frame \in G : FrameOf(frame, F)
    BY <1>2, ElementOfSeq DEF Closed
  <2>2. F \subseteq G
    OBVIOUS
  <2> QED
    BY <2>1, <2>2, FramesGrow DEF Closed
<1>4. Captured(s) = [i \in 1..Len(s) |-> Frozen(s[i])]
  BY DEF Captured, Frozen
<1>5. Captured(s) \in Seq(G)
  <2>1. [i \in 1..Len(s) |-> Frozen(s[i])] \in [1..Len(s) -> G]
    OBVIOUS
  <2> QED
    BY <1>1, <1>4, <2>1
<1> QED
  BY <1>3, <1>5

-----------------------------------------------------------------------------
(* What the invariant says of the innermost frame. *)

\* What every frame of the evaluator has, by its kind.
LEMMA ControlFacts ==
  ASSUME NEW F, NEW frame \in Control(F)
  PROVE  /\ frame.kind \in {"script", "block", "try", "call", "catch"} \cup Loops
         /\ frame.inner \in Nat \ {0}
         /\ frame.kind # "catch" => frame.left \in Nat
         /\ frame.kind \in Loops => frame.body \in BOOLEAN /\ frame.items \in Nat
         /\ frame.kind \in {"try", "call"} => frame.scope \in Seq(F)
         /\ frame.kind = "try" => frame.host \in Hosts
         /\ frame.kind = "call" => /\ frame.callee \in Functions /\ frame.then \in Then
                                   /\ frame.context \in Functions \cup {"script"}
<1>1. CASE frame \in [kind : {"script", "block"}, inner : Depths, left : Nat]
  BY <1>1 DEF Depths, Loops
<1>2. CASE frame \in [kind : Loops, inner : Depths, items : Nat, body : BOOLEAN, left : Nat]
  BY <1>2 DEF Depths, Loops
<1>3. CASE frame \in [kind : {"try"}, inner : Depths, left : Nat, scope : Seq(F), host : Hosts]
  BY <1>3 DEF Depths, Loops
<1>4. CASE frame \in [kind : {"call"}, inner : Depths, left : Nat, callee : Functions, scope : Seq(F),
                      context : Functions \cup {"script"}, then : Then]
  BY <1>4 DEF Depths, Loops
<1>5. CASE frame \in [kind : {"catch"}, inner : Depths]
  BY <1>5 DEF Depths, Loops
<1> QED
  BY <1>1, <1>2, <1>3, <1>4, <1>5 DEF Control

\* A frame that differs only in the statements or items it has left.
Alike(f, g) ==
  /\ g.kind = f.kind /\ g.inner = f.inner
  /\ f.kind \in Loops => g.body = f.body
  /\ f.kind \in {"try", "call"} => g.scope = f.scope
  /\ f.kind = "try" => g.host = f.host
  /\ f.kind = "call" => g.callee = f.callee /\ g.context = f.context

\* A frame that differs only in what it has left fits where the other did.
LEMMA AlikeJoined ==
  ASSUME NEW f, NEW g, Alike(f, g)
  PROVE  /\ \A o : Joined(o, f) => Joined(o, g)
         /\ \A i : Joined(f, i) => Joined(g, i)
BY DEF Alike, Joined

\* A frame that counts a statement is such a frame.
LEMMA CountedFrame ==
  ASSUME NEW F, NEW frame \in Control(F), frame.kind # "catch", frame.left > 0
  PROVE  /\ [frame EXCEPT !.left = @ - 1] \in Control(F)
         /\ Alike(frame, [frame EXCEPT !.left = @ - 1])
<1> DEFINE g == [frame EXCEPT !.left = @ - 1]
<1>1. CASE frame \in [kind : {"script", "block"}, inner : Depths, left : Nat]
  <2>1. g \in [kind : {"script", "block"}, inner : Depths, left : Nat] /\ Alike(frame, g)
    BY <1>1 DEF Alike, Loops
  <2> QED
    BY <2>1 DEF Control
<1>2. CASE frame \in [kind : Loops, inner : Depths, items : Nat, body : BOOLEAN, left : Nat]
  <2>1. g \in [kind : Loops, inner : Depths, items : Nat, body : BOOLEAN, left : Nat] /\ Alike(frame, g)
    BY <1>2 DEF Alike, Loops
  <2> QED
    BY <2>1 DEF Control
<1>3. CASE frame \in [kind : {"try"}, inner : Depths, left : Nat, scope : Seq(F), host : Hosts]
  <2>1. g \in [kind : {"try"}, inner : Depths, left : Nat, scope : Seq(F), host : Hosts] /\ Alike(frame, g)
    BY <1>3 DEF Alike, Loops
  <2> QED
    BY <2>1 DEF Control
<1>4. CASE frame \in [kind : {"call"}, inner : Depths, left : Nat, callee : Functions, scope : Seq(F),
                      context : Functions \cup {"script"}, then : Then]
  <2>1. g \in [kind : {"call"}, inner : Depths, left : Nat, callee : Functions, scope : Seq(F),
               context : Functions \cup {"script"}, then : Then] /\ Alike(frame, g)
    BY <1>4 DEF Alike, Loops
  <2> QED
    BY <2>1 DEF Control
<1>5. CASE frame \in [kind : {"catch"}, inner : Depths]
  BY <1>5
<1> QED
  BY <1>1, <1>2, <1>3, <1>4, <1>5 DEF Control

\* The innermost frame runs in the whole scope; it is the script's exactly when it is alone.
LEMMA TopFacts ==
  ASSUME NEW F, Sound(F), control # <<>>
  PROVE  /\ control \in Seq(Control(F)) /\ Top \in Control(F) /\ Below \in Seq(Control(F))
         /\ Len(scope) \in Nat \ {0} /\ Top.inner = Len(scope)
         /\ Len(control) \in Nat \ {0}
         /\ Below = <<>> <=> Len(control) = 1
         /\ Top.kind = "script" <=> Below = <<>>
         /\ Below = <<>> => Top.inner = 1
         /\ Below # <<>> => /\ Last(Below) \in Control(F) /\ Joined(Last(Below), Top)
                            /\ Stacked(Below, Last(Below).inner)
                            /\ Last(Below).inner \in Nat \ {0}
<1>1. control \in Seq(Control(F)) /\ Stacked(control, Len(scope))
  BY DEF Sound, Typed, StackInv
<1>2. /\ Len(control) \in Nat \ {0} /\ Below \in Seq(Control(F)) /\ Top \in Control(F)
  BY <1>1, StackFacts DEF Top, Below
<1>3. /\ Below = <<>> <=> Len(control) = 1
      /\ Top.kind = "script" <=> Len(control) = 1
      /\ Top.inner = Len(scope)
      /\ Len(control) > 1 => Joined(Last(Below), Top)
      /\ Len(control) = 1 => Top = control[1]
      /\ Below # <<>> => Stacked(Below, Last(Below).inner)
  BY <1>1, BelowFacts DEF Top, Below
<1>4. Top.inner \in Nat \ {0}
  BY <1>2, ControlFacts
<1>5. Below # <<>> => Last(Below) \in Control(F) /\ Last(Below).inner \in Nat \ {0}
  <2> HAVE Below # <<>>
  <2>1. Last(Below) \in Control(F)
    BY <1>2, StackFacts
  <2> QED
    BY <2>1, ControlFacts
<1>6. control[1].inner = 1
  BY <1>1 DEF Stacked
<1> HIDE DEF Top, Below
<1>7. /\ Top.kind = "script" <=> Below = <<>>
      /\ Below = <<>> => Top.inner = 1
      /\ Below # <<>> => Joined(Last(Below), Top)
  <2>1. Len(control) # 1 => Len(control) > 1
    <3>1. \A m \in Nat \ {0} : m # 1 => m > 1
      OBVIOUS
    <3> QED
      BY <1>2, <3>1, Zenon
  <2> QED
    BY <1>3, <1>6, <2>1, Zenon
<1> QED
  BY <1>1, <1>2, <1>3, <1>4, <1>5, <1>7

\* A statement of the innermost frame is counted: nothing else of the stack changes.
LEMMA CountedFacts ==
  ASSUME NEW F, Sound(F), control # <<>>, InBody(Top), Top.left > 0
  PROVE  /\ Counted \in Seq(Control(F)) /\ Counted # <<>> /\ Front(Counted) = Below
         /\ Last(Counted) \in Control(F) /\ Alike(Top, Last(Counted))
         /\ Stacked(Counted, Len(scope))
         /\ CallsOf(Counted) = CallsOf(control) /\ Contexts(Counted, context)
<1> DEFINE g == [Top EXCEPT !.left = @ - 1]
<1>1. /\ control \in Seq(Control(F)) /\ Top \in Control(F) /\ Top.inner = Len(scope)
      /\ Top.kind = "script" <=> Below = <<>>
      /\ Len(control) \in Nat \ {0}
      /\ Below = <<>> <=> Len(control) = 1
      /\ Below = <<>> => Top.inner = 1
      /\ Below # <<>> => Joined(Last(Below), Top)
      /\ Stacked(control, Len(scope)) /\ Contexts(control, context)
  BY TopFacts DEF Sound, StackInv
<1>2. g \in Control(F) /\ Alike(Top, g)
  BY <1>1, CountedFrame DEF InBody
<1>3. Replaces(Counted, control, g)
  BY DEF Replaces, Counted, Below
<1> HIDE DEF g
<1>4. /\ Counted \in Seq(Control(F)) /\ Counted # <<>> /\ Front(Counted) = Below /\ Last(Counted) = g
  BY <1>1, <1>2, <1>3, ReplaceFacts DEF Below
<1>5. Stacked(Counted, g.inner)
  <2>1. Len(control) = 1 => g.kind = "script" /\ g.inner = 1
    BY <1>1, <1>2 DEF Alike
  <2>2. Len(control) > 1 => Joined(Last(Front(control)), g)
    <3> HAVE Len(control) > 1
    <3>1. Joined(Last(Below), Top)
      <4>1. Len(control) # 1
        <5>1. \A m \in Nat \ {0} : m > 1 => m # 1
          OBVIOUS
        <5> QED
          BY <1>1, <5>1, Zenon
      <4> QED
        BY <1>1, <4>1, Zenon
    <3>2. Joined(Last(Below), g)
      BY <1>2, <3>1, AlikeJoined
    <3> QED
      BY <3>2 DEF Below
  <2> QED
    BY <1>1, <1>2, <1>3, <2>1, <2>2, ReplaceStacked
<1>6. g.inner = Len(scope)
  BY <1>1, <1>2 DEF Alike
<1>7. CallsOf(Counted) = CallsOf(control) /\ Contexts(Counted, context)
  <2>1. /\ g.kind = "call" <=> Last(control).kind = "call"
        /\ g.kind = "call" => g.context = Last(control).context /\ g.callee = Last(control).callee
    BY <1>2 DEF Alike, Top
  <2> QED
    BY <1>1, <1>2, <1>3, <2>1, ReplaceContexts
<1> QED
  BY <1>2, <1>4, <1>5, <1>6, <1>7

-----------------------------------------------------------------------------
(* The kinds of step inside a statement. *)

\* The parts of the invariant after a step that neither opens nor closes a statement.
LEMMA Assemble ==
  ASSUME NEW F, Sound(F), NEW G, F \subseteq G, Closed(G),
         UNCHANGED outer, scope' \in Seq(G), host' \in Hosts,
         control' \in Seq(Control(G)), control' # <<>>, Stacked(control', Len(scope')),
         context' \in Functions \cup {"script"}, Contexts(control', context'),
         used' \in Nat, Limited => used' <= StepLimit,
         depth' = Cardinality(CallsOf(control')), Limited => depth' <= CallLimit,
         signal' \in Signals \ {"idle", "ended"},
         Last(control').kind = "catch" => signal' = "run",
         Last(control').kind \in Loops /\ signal' \in {"done"} \cup Transfers => Last(control').body
  PROVE  IInv'
<1>1. policy' = policy /\ session' = session /\ cancelled' = cancelled /\ left' = left
  BY DEF outer
<1>2. Typed(G)'
  <2>1. session \in [scope : Seq(F), host : Hosts] /\ Seq(F) \subseteq Seq(G)
    BY FramesGrow DEF Sound, Typed
  <2>2. session' \in [scope : Seq(G), host : Hosts]
    BY <1>1, <2>1
  <2> QED
    BY <2>2 DEF Typed
<1>3. StackInv'
  BY DEF StackInv
<1>4. SignalInv'
  BY DEF SignalInv, Top
<1>5. SessionInv'
  BY <1>1 DEF Sound, SessionInv
<1>6. BudgetInv'
  <2>1. /\ policy' \in {"General", "PureV2"} /\ cancelled' \in BOOLEAN /\ left' \in 0..MaxTop
    BY <1>1 DEF Sound, BudgetInv
  <2>2. WithinLimits'
    BY <1>1 DEF WithinLimits, Limited
  <2> QED
    BY <2>1, <2>2 DEF BudgetInv
<1>7. Sound(G)'
  BY <1>2, <1>3, <1>4, <1>5, <1>6 DEF Sound
<1> QED
  BY <1>7 DEF IInv

\* What the budget says while a statement runs.
LEMMA BudgetFacts ==
  ASSUME NEW F, Sound(F)
  PROVE  /\ context \in Functions \cup {"script"} /\ used \in Nat /\ host \in Hosts
         /\ depth = Cardinality(CallsOf(control)) /\ depth \in Nat
         /\ Limited => used <= StepLimit /\ depth <= CallLimit
         /\ signal \in Signals /\ StepLimit \in Nat /\ CallLimit \in Nat
         /\ scope \in Seq(F) /\ Len(scope) \in Nat /\ Closed(F)
         /\ signal \notin {"idle", "ended"} <=> control # <<>>
<1>1. depth = Cardinality(CallsOf(control)) /\ depth \in Nat
  BY CallsFacts DEF Sound, Typed, BudgetInv
<1>2. scope \in Seq(F) /\ Len(scope) \in Nat
  BY LenProperties DEF Sound, Typed
<1> QED
  BY <1>1, <1>2, EvaluatorAssumption DEF Sound, BudgetInv, WithinLimits, SignalInv, Typed

\* A statement of the innermost frame that opens no block.
LEMMA SimpleStep ==
  ASSUME NEW F, Sound(F), signal = "run", InBody(Top), Top.left > 0, Simple,
         NEW G, F \subseteq G, Closed(G), scope' \in Seq(G), Len(scope') = Len(scope), host' \in Hosts,
         used' \in Nat, Limited => used' <= StepLimit, signal' \in Signals \ {"idle", "ended"}
  PROVE  IInv'
<1>1. control # <<>>
  BY BudgetFacts
<1>2. /\ Counted \in Seq(Control(F)) /\ Counted # <<>>
      /\ Alike(Top, Last(Counted)) /\ Stacked(Counted, Len(scope))
      /\ CallsOf(Counted) = CallsOf(control) /\ Contexts(Counted, context)
  BY <1>1, CountedFacts
<1>3. control' = Counted /\ context' = context /\ depth' = depth /\ UNCHANGED outer
  BY DEF Simple
<1>4. control' \in Seq(Control(G))
  BY <1>2, <1>3, FramesGrow
<1>5. /\ Last(control').kind # "catch"
      /\ Last(control').kind \in Loops => Last(control').body
  BY <1>2, <1>3 DEF Alike, InBody, Loops
<1>6. /\ context \in Functions \cup {"script"}
      /\ depth = Cardinality(CallsOf(control))
      /\ Limited => depth <= CallLimit
  BY BudgetFacts
<1>7. Stacked(control', Len(scope')) /\ Contexts(control', context')
  BY <1>2, <1>3
<1>8. control' # <<>> /\ depth' = Cardinality(CallsOf(control')) /\ (Limited => depth' <= CallLimit)
      /\ context' \in Functions \cup {"script"}
  BY <1>2, <1>3, <1>6
<1> QED
  BY <1>3, <1>4, <1>5, <1>7, <1>8, Assemble

\* A statement of the innermost frame that opens a block, a loop or a `try`.
LEMMA EnterStep ==
  ASSUME NEW F, Sound(F), signal = "run", InBody(Top), Top.left > 0,
         NEW frame, Enter(frame), UNCHANGED <<context, depth>>, UNCHANGED outer,
         NEW G, F \subseteq G, Closed(G), frame \in Control(G), Joined(Top, frame),
         frame.kind \notin {"call", "catch"}, scope' \in Seq(G), frame.inner = Len(scope'),
         host' \in Hosts, used' \in Nat, Limited => used' <= StepLimit, signal' = "run"
  PROVE  IInv'
<1>1. control # <<>>
  BY BudgetFacts
<1>2. /\ Counted \in Seq(Control(F)) /\ Counted # <<>>
      /\ Alike(Top, Last(Counted)) /\ Stacked(Counted, Len(scope))
      /\ CallsOf(Counted) = CallsOf(control) /\ Contexts(Counted, context)
  BY <1>1, CountedFacts
<1>3. Counted \in Seq(Control(G))
  BY <1>2, FramesGrow
<1>4. Pushes(control', Counted, frame) /\ context' = context /\ depth' = depth
  BY DEF Enter, Pushes
<1>5. Joined(Last(Counted), frame)
  BY <1>2, AlikeJoined
<1>6. /\ control' \in Seq(Control(G)) /\ control' # <<>> /\ Last(control') = frame
  BY <1>3, <1>4, PushFacts
<1>7. Stacked(control', Len(scope'))
  BY <1>2, <1>3, <1>4, <1>5, PushStacked
<1>8. CallsOf(control') = CallsOf(control) /\ Contexts(control', context')
  BY <1>2, <1>3, <1>4, PushContexts
<1>9. /\ context \in Functions \cup {"script"}
      /\ depth = Cardinality(CallsOf(control))
      /\ Limited => depth <= CallLimit
  BY BudgetFacts
<1>10. /\ depth' = Cardinality(CallsOf(control')) /\ context' \in Functions \cup {"script"}
       /\ Limited => depth' <= CallLimit
  BY <1>4, <1>8, <1>9
<1>11. signal' \in Signals \ {"idle", "ended"} /\ signal' \notin {"done"} \cup Transfers
  BY DEF Signals, Transfers
<1> QED
  BY <1>6, <1>7, <1>8, <1>10, <1>11, Assemble

\* A frame other than a call is left, and the one around it goes on or is left in turn.
LEMMA LeaveStep ==
  ASSUME NEW F, Sound(F), control # <<>>, Top.kind \notin {"script", "call"},
         control' = Below, UNCHANGED <<context, depth>>, UNCHANGED outer,
         used' \in Nat, Limited => used' <= StepLimit,
         NEW G, F \subseteq G, Closed(G),
         scope' \in Seq(G), Len(scope') = Last(Below).inner, host' \in Hosts,
         signal' \in Signals \ {"idle", "ended"}
  PROVE  IInv'
<1>1. /\ control \in Seq(Control(F)) /\ Below \in Seq(Control(F)) /\ Below # <<>>
      /\ Joined(Last(Below), Top) /\ Stacked(Below, Last(Below).inner)
  BY TopFacts
<1>2. CallsOf(Below) = CallsOf(control) /\ Contexts(Below, context)
  <2>1. Contexts(control, context)
    BY DEF Sound, StackInv
  <2> QED
    BY <1>1, <2>1, PopContexts DEF Below, Top
<1>3. control' \in Seq(Control(G))
  BY <1>1, FramesGrow
<1>4. Last(control').kind # "catch" /\ (Last(control').kind \in Loops => Last(control').body)
  BY <1>1 DEF Joined
<1>5. /\ context \in Functions \cup {"script"}
      /\ depth = Cardinality(CallsOf(control))
      /\ Limited => depth <= CallLimit
  BY BudgetFacts
<1>6. /\ depth' = Cardinality(CallsOf(control')) /\ context' \in Functions \cup {"script"}
      /\ Limited => depth' <= CallLimit
      /\ Contexts(control', context') /\ Stacked(control', Len(scope')) /\ control' # <<>>
  BY <1>1, <1>2, <1>5
<1> QED
  BY <1>3, <1>4, <1>6, Assemble

\* The innermost frame becomes another one, which is no call.
LEMMA ReplaceStep ==
  ASSUME NEW F, Sound(F), control # <<>>, Top.kind \notin {"script", "call"},
         UNCHANGED <<context, depth>>, UNCHANGED outer,
         used' \in Nat, Limited => used' <= StepLimit,
         NEW G, F \subseteq G, Closed(G),
         NEW frame \in Control(G), Replaces(control', control, frame),
         frame.kind # "call", Joined(Last(Below), frame),
         scope' \in Seq(G), Len(scope') = frame.inner, host' \in Hosts, signal' = "run"
  PROVE  IInv'
<1>1. /\ control \in Seq(Control(F)) /\ Len(control) \in Nat \ {0} /\ Len(control) # 1
  BY TopFacts
<1>2. Stacked(control, Len(scope)) /\ Contexts(control, context)
  BY DEF Sound, StackInv
<1>3. control \in Seq(Control(G))
  BY <1>1, FramesGrow
<1>4. control' \in Seq(Control(G)) /\ control' # <<>> /\ Last(control') = frame
  BY <1>3, ReplaceFacts
<1>5. Stacked(control', Len(scope'))
  <2>1. (Len(control) = 1 => frame.kind = "script" /\ frame.inner = 1)
        /\ (Len(control) > 1 => Joined(Last(Front(control)), frame))
    BY <1>1 DEF Below
  <2> QED
    BY <1>2, <1>3, <2>1, ReplaceStacked
<1>6. CallsOf(control') = CallsOf(control) /\ Contexts(control', context')
  <2>1. Last(control).kind # "call"
    BY DEF Top
  <2>2. Contexts(control', context)
    BY <1>2, <1>3, <2>1, ReplaceContexts
  <2>3. CallsOf(control') = CallsOf(control)
    BY <1>2, <1>3, <2>1, ReplaceContexts
  <2> QED
    BY <2>2, <2>3
<1>7. /\ context \in Functions \cup {"script"}
      /\ depth = Cardinality(CallsOf(control))
      /\ Limited => depth <= CallLimit
  BY BudgetFacts
<1>8. /\ depth' = Cardinality(CallsOf(control')) /\ context' \in Functions \cup {"script"}
      /\ Limited => depth' <= CallLimit
  BY <1>6, <1>7
<1>9. signal' \in Signals \ {"idle", "ended"} /\ signal' \notin {"done"} \cup Transfers
  BY DEF Signals, Transfers
<1> QED
  BY <1>4, <1>5, <1>6, <1>8, <1>9, Assemble

-----------------------------------------------------------------------------
(* The statements. *)

\* The signals a running frame raises are no signals of a session that waits.
LEMMA SignalsFacts ==
  /\ {"run", "error", "done", "cancelled", "refused", "exit", "output", "stopped"} \cup Transfers
       \subseteq Signals \ {"idle", "ended"}
  /\ Transfers = {"break", "continue", "return"} /\ Loops = {"while", "for"}
BY DEF Signals, Transfers, Fatal, Dropping, Loops

\* A statement begins in a body with statements left, and is charged within the limit.
LEMMA BeginsFacts ==
  ASSUME NEW F, Sound(F), NEW k \in Nat, Begins(k)
  PROVE  /\ signal = "run" /\ InBody(Top) /\ Top.left > 0 /\ control # <<>>
         /\ used' \in Nat
         /\ Limited => used' <= StepLimit
<1>1. /\ used \in Nat /\ StepLimit \in Nat
      /\ Limited => used <= StepLimit
      /\ signal \notin {"idle", "ended"} <=> control # <<>>
  BY BudgetFacts
<1> QED
  BY <1>1 DEF Begins, Affords, Charge

\* A scope with one frame more.
LEMMA Pushed ==
  ASSUME NEW F, Closed(F), NEW s \in Seq(F), NEW frame, FrameOf(frame, F)
  PROVE  /\ Append(s, frame) \in Seq(F \cup {frame}) /\ Closed(F \cup {frame})
         /\ Len(Append(s, frame)) = Len(s) + 1 /\ Len(s) \in Nat
BY PushScope, ClosedGrows

\* `charge` fails at the limit.
LEMMA ExhaustedStep ==
  ASSUME NEW F, Sound(F), Exhausted
  PROVE  IInv'
<1>1. host \in Hosts /\ StepLimit \in Nat /\ scope \in Seq(F) /\ Closed(F)
  BY BudgetFacts
<1>2. signal = "run" /\ InBody(Top) /\ Top.left > 0 /\ Simple /\ used' = StepLimit
      /\ signal' = "error" /\ scope' = scope /\ host' = host
  BY DEF Exhausted, Raise, language
<1> QED
  BY <1>1, <1>2, SimpleStep, SignalsFacts

\* An expression fails before its statement did anything.
LEMMA FailsStep ==
  ASSUME NEW F, Sound(F), Fails
  PROVE  IInv'
<1>1. host \in Hosts /\ scope \in Seq(F) /\ Closed(F)
  BY BudgetFacts
<1>2. Begins(2) /\ Simple /\ signal' = "error" /\ scope' = scope /\ host' = host
  BY DEF Fails, Raise, language
<1> QED
  BY <1>1, <1>2, BeginsFacts, SimpleStep, SignalsFacts

\* `break`, `continue` and `return`.
LEMMA transferStep ==
  ASSUME NEW F, Sound(F), transfer
  PROVE  IInv'
<1>1. host \in Hosts /\ scope \in Seq(F) /\ Closed(F)
  BY BudgetFacts
<1>2. Begins(1) /\ Simple /\ signal' \in Transfers /\ scope' = scope /\ host' = host
  BY DEF transfer, language
<1> QED
  BY <1>1, <1>2, BeginsFacts, SimpleStep, SignalsFacts

\* A statement on the environment, or its refusal.
LEMMA environmentStep ==
  ASSUME NEW F, Sound(F), NEW e \in Entries, environment(e)
  PROVE  IInv'
<1>1. host \in Hosts /\ scope \in Seq(F) /\ Closed(F)
  BY BudgetFacts
<1>2. Begins(2) /\ Simple /\ scope' = scope
  BY DEF environment
<1>3. signal = "run"
  BY <1>2 DEF Begins
<1>4. signal' \in {"refused", "run"} /\ host' \in Hosts
  BY <1>1, <1>3 DEF environment, Raise, Hosts
<1> QED
  BY <1>1, <1>2, <1>4, BeginsFacts, SimpleStep, SignalsFacts

\* A chain of commands, or its refusal.
LEMMA chainStep ==
  ASSUME NEW F, Sound(F), chain
  PROVE  IInv'
<1>1. host \in Hosts /\ scope \in Seq(F) /\ Closed(F)
  BY BudgetFacts
<1>2. Begins(1) /\ Simple /\ scope' = scope
  BY DEF chain
<1>3. signal' \in {"refused", "exit", "run", "output", "error", "stopped", "cancelled"} /\ host' \in Hosts
  BY <1>1 DEF chain, Hosts, Statuses
<1> QED
  BY <1>1, <1>2, <1>3, BeginsFacts, SimpleStep, SignalsFacts

\* The innermost frame of the scope is changed.
LEMMA Changed ==
  ASSUME NEW F, Sound(F), signal = "run", InBody(Top), Top.left > 0, Simple, host' = host,
         used' \in Nat, Limited => used' <= StepLimit, signal' \in {"run", "error"},
         \E frame : /\ FrameOf(frame, F) /\ scope' \in Seq(F \cup {frame})
                    /\ Len(scope') = Len(scope)
  PROVE  IInv'
<1>1. PICK frame : FrameOf(frame, F) /\ scope' \in Seq(F \cup {frame}) /\ Len(scope') = Len(scope)
  OBVIOUS
<1> DEFINE G == F \cup {frame}
<1>2. F \subseteq G /\ Closed(G) /\ host \in Hosts
  BY <1>1, BudgetFacts, ClosedGrows
<1>3. scope' \in Seq(G)
  BY <1>1
<1> HIDE DEF G
<1> QED
  BY <1>1, <1>2, <1>3, SimpleStep, SignalsFacts

\* A statement of the innermost frame that leaves the scope and the host alone.
LEMMA Unchanged ==
  ASSUME NEW F, Sound(F), signal = "run", InBody(Top), Top.left > 0, Simple, host' = host,
         used' \in Nat, Limited => used' <= StepLimit, signal' \in Signals \ {"idle", "ended"},
         scope' = scope
  PROVE  IInv'
<1>1. host \in Hosts /\ scope \in Seq(F) /\ Closed(F)
  BY BudgetFacts
<1> QED
  BY <1>1, SimpleStep

\* A declaration, or a part of its pattern.
LEMMA declarationStep ==
  ASSUME NEW F, Sound(F), NEW n \in Names, declaration(n)
  PROVE  IInv'
<1>1. Begins(2) /\ Simple /\ host' = host
  BY DEF declaration
<1>2. /\ signal = "run" /\ InBody(Top) /\ Top.left > 0 /\ used' \in Nat
      /\ Limited => used' <= StepLimit
      /\ control # <<>>
  BY <1>1, BeginsFacts
<1>3. scope \in Seq(F) /\ Closed(F) /\ Len(scope) # 0
  BY <1>2, BudgetFacts, TopFacts
<1>4. signal' \in {"run", "error"}
  BY <1>2 DEF declaration, Raise
<1>5. CASE scope' = scope
  BY <1>1, <1>2, <1>4, <1>5, Unchanged, SignalsFacts
<1>6. CASE \E mutable \in BOOLEAN, d \in Data : scope' = Declare(scope, n, Cell(mutable, d))
  <2>1. PICK mutable \in BOOLEAN, d \in Data : scope' = Declare(scope, n, Cell(mutable, d))
    BY <1>6
  <2>2. CellOf(n, Cell(mutable, d), F)
    BY DatumCell
  <2>3. \E frame : /\ FrameOf(frame, F) /\ Declare(scope, n, Cell(mutable, d)) \in Seq(F \cup {frame})
                   /\ Len(Declare(scope, n, Cell(mutable, d))) = Len(scope)
    BY <1>3, <2>2, DeclareScope, SMTT(30)
  <2>4. \E frame : FrameOf(frame, F) /\ scope' \in Seq(F \cup {frame}) /\ Len(scope') = Len(scope)
    BY <2>1, <2>3
  <2> QED
    BY <1>1, <1>2, <1>4, <2>4, Changed
<1>7. \/ scope' = scope
      \/ \E mutable \in BOOLEAN, d \in Data : scope' = Declare(scope, n, Cell(mutable, d))
  BY DEF declaration
<1> QED
  BY <1>5, <1>6, <1>7

\* An assignment, or its error.
LEMMA assignmentStep ==
  ASSUME NEW F, Sound(F), NEW n \in Names, assignment(n)
  PROVE  IInv'
<1>1. Begins(2) /\ Simple /\ host' = host
  BY DEF assignment
<1>2. /\ signal = "run" /\ InBody(Top) /\ Top.left > 0 /\ used' \in Nat
      /\ Limited => used' <= StepLimit
      /\ control # <<>>
  BY <1>1, BeginsFacts
<1>3. scope \in Seq(F) /\ Closed(F)
  BY BudgetFacts
<1>4. PICK d \in Data : Assigned(scope, n, d, signal)
  BY DEF assignment
<1>5. signal' \in {"run", "error"}
  BY <1>2, <1>4 DEF Assigned, Raise
<1>6. CASE CanAssign(scope, n)
  <2>1. scope' = Assign(scope, n, d)
    BY <1>4, <1>6 DEF Assigned
  <2>2. \E frame : /\ FrameOf(frame, F) /\ Assign(scope, n, d) \in Seq(F \cup {frame})
                   /\ Len(Assign(scope, n, d)) = Len(scope)
    BY <1>3, <1>6, AssignScope
  <2>3. \E frame : FrameOf(frame, F) /\ scope' \in Seq(F \cup {frame}) /\ Len(scope') = Len(scope)
    BY <2>1, <2>2
  <2> QED
    BY <1>1, <1>2, <1>5, <2>3, Changed
<1>7. CASE ~CanAssign(scope, n)
  <2>1. scope' = scope
    BY <1>4, <1>7 DEF Assigned
  <2> QED
    BY <1>1, <1>2, <1>5, <2>1, Unchanged, SignalsFacts
<1> QED
  BY <1>6, <1>7

\* A function is defined over the scope it captures.
LEMMA function_definitionStep ==
  ASSUME NEW F, Sound(F), NEW f \in Functions, function_definition(f)
  PROVE  IInv'
<1>1. Begins(1) /\ Simple /\ host' = host /\ signal' = signal
  BY DEF function_definition
<1>2. /\ signal = "run" /\ InBody(Top) /\ Top.left > 0 /\ used' \in Nat
      /\ Limited => used' <= StepLimit
      /\ control # <<>>
  BY <1>1, BeginsFacts
<1>3. scope \in Seq(F) /\ Closed(F) /\ Len(scope) # 0 /\ host \in Hosts
  BY <1>2, BudgetFacts, TopFacts
<1> DEFINE cell == Cell(FALSE, [captured |-> Captured(scope)])
<1>4. scope' = Declare(scope, f, cell)
  BY DEF function_definition
<1>5. PICK G : F \subseteq G /\ Closed(G) /\ Captured(scope) \in Seq(G)
  BY <1>3, CapturedScope
<1>6. CellOf(f, cell, G)
  <2>1. cell.mutable = FALSE /\ cell.value = [captured |-> Captured(scope)]
        /\ cell = Cell(cell.mutable, cell.value)
    BY CellFields, ZenonT(60)
  <2>2. cell.value.captured = Captured(scope)
    <3>1. \A s : [captured |-> s].captured = s
      OBVIOUS
    <3> QED
      BY <2>1, <3>1, Zenon
  <2>3. f \notin Names
    BY EvaluatorAssumption
  <2> HIDE DEF cell
  <2> QED
    BY <1>5, <2>1, <2>2, <2>3 DEF CellOf
<1>7. scope \in Seq(G)
  BY <1>3, <1>5, SeqMonotonic
<1> HIDE DEF cell
<1>8. PICK frame : /\ FrameOf(frame, G) /\ Declare(scope, f, cell) \in Seq(G \cup {frame})
                   /\ Len(Declare(scope, f, cell)) = Len(scope)
  <2>1. f \in Names \cup Functions /\ Closed(G) /\ scope \in Seq(G) /\ Len(scope) # 0
    BY <1>3, <1>5, <1>7
  <2> QED
    BY <1>6, <2>1, DeclareScope, Zenon
<1> DEFINE H == G \cup {frame}
<1>9. F \subseteq H /\ Closed(H) /\ scope' \in Seq(H) /\ Len(scope') = Len(scope)
  BY <1>4, <1>5, <1>8, ClosedGrows
<1> HIDE DEF H
<1> QED
  BY <1>1, <1>2, <1>3, <1>9, SimpleStep, SignalsFacts

-----------------------------------------------------------------------------
(* The statements with a block. *)

\* The frame of a block.
LEMMA BlockFrameFacts ==
  ASSUME NEW F, NEW inner \in Nat \ {0}
  PROVE  /\ BlockFrame(inner) \in Control(F)
         /\ BlockFrame(inner).kind = "block" /\ BlockFrame(inner).inner = inner
<1>1. MaxStatements["block"] \in Nat
  BY EvaluatorAssumption
<1>2. BlockFrame(inner) \in [kind : {"script", "block"}, inner : Depths, left : Nat]
  BY <1>1 DEF BlockFrame, Depths
<1>3. BlockFrame(inner).kind = "block" /\ BlockFrame(inner).inner = inner
  BY DEF BlockFrame
<1> QED
  BY <1>2, <1>3 DEF Control

\* The frame of a loop that has not begun its body.
LEMMA LoopFrameFacts ==
  ASSUME NEW F, Len(scope) \in Nat \ {0}, NEW kind \in Loops, NEW items \in Nat
  PROVE  /\ LoopFrame(kind, items) \in Control(F)
         /\ LoopFrame(kind, items).kind = kind /\ LoopFrame(kind, items).inner = Len(scope)
         /\ LoopFrame(kind, items).body = FALSE
<1>1. LoopFrame(kind, items) \in [kind : Loops, inner : Depths, items : Nat, body : BOOLEAN, left : Nat]
  BY DEF LoopFrame, Depths
<1>2. /\ LoopFrame(kind, items).kind = kind /\ LoopFrame(kind, items).inner = Len(scope)
      /\ LoopFrame(kind, items).body = FALSE
  BY DEF LoopFrame
<1> QED
  BY <1>1, <1>2 DEF Control

\* The frame of a `try` keeps the state to go back to.
LEMMA TryFrameFacts ==
  ASSUME NEW F, scope \in Seq(F), Len(scope) \in Nat \ {0}, host \in Hosts
  PROVE  /\ TryFrame \in Control(F)
         /\ TryFrame.kind = "try" /\ TryFrame.inner = Len(scope) + 1
         /\ TryFrame.scope = scope /\ TryFrame.host = host
<1>1. MaxStatements["try"] \in Nat
  BY EvaluatorAssumption
<1>2. TryFrame \in [kind : {"try"}, inner : Depths, left : Nat, scope : Seq(F), host : Hosts]
  BY <1>1 DEF TryFrame, Depths
<1>3. /\ TryFrame.kind = "try" /\ TryFrame.inner = Len(scope) + 1
      /\ TryFrame.scope = scope /\ TryFrame.host = host
  BY DEF TryFrame
<1> QED
  BY <1>2, <1>3 DEF Control

\* The frame of a call keeps the scope and the context of its caller.
LEMMA CallFrameFacts ==
  ASSUME NEW F, scope \in Seq(F), context \in Functions \cup {"script"},
         NEW f \in Functions, NEW inner \in Nat \ {0}, NEW then \in Then
  PROVE  /\ CallFrame(f, inner, then) \in Control(F)
         /\ CallFrame(f, inner, then).kind = "call" /\ CallFrame(f, inner, then).inner = inner
         /\ CallFrame(f, inner, then).scope = scope /\ CallFrame(f, inner, then).context = context
         /\ CallFrame(f, inner, then).callee = f
<1>1. MaxStatements["call"] \in Nat
  BY EvaluatorAssumption
<1>2. CallFrame(f, inner, then) \in
        [kind : {"call"}, inner : Depths, left : Nat, callee : Functions, scope : Seq(F),
         context : Functions \cup {"script"}, then : Then]
  BY <1>1 DEF CallFrame, Depths
<1>3. /\ CallFrame(f, inner, then).kind = "call" /\ CallFrame(f, inner, then).inner = inner
      /\ CallFrame(f, inner, then).scope = scope /\ CallFrame(f, inner, then).context = context
      /\ CallFrame(f, inner, then).callee = f
  BY DEF CallFrame
<1> QED
  BY <1>2, <1>3 DEF Control

\* A block, a loop or a `try` fits the frame whose statement it is.
LEMMA JoinedTop ==
  ASSUME NEW F, Sound(F), control # <<>>, InBody(Top), NEW frame,
         \/ frame.kind = "block" /\ frame.inner = Len(scope) + 1
         \/ frame.kind = "try" /\ frame.inner = Len(scope) + 1 /\ frame.scope = scope
         \/ frame.kind \in Loops /\ frame.inner = Len(scope) /\ frame.body = FALSE
         \/ frame.kind = "call" /\ frame.scope = scope
  PROVE  Joined(Top, frame)
<1>1. Top.inner = Len(scope) /\ Len(scope) \in Nat
  BY TopFacts
<1>2. frame.kind \in Loops =>
        Top.inner + (IF frame.body THEN 1 ELSE 0) = (IF frame.body THEN Top.inner + 1 ELSE Top.inner)
  BY <1>1
<1> QED
  BY <1>1 DEF Joined, InBody, Loops

\* A frame with a name, or with nothing, is put on the scope.
LEMMA NewFrame ==
  ASSUME NEW F, NEW s,
         \/ s = Push(scope)
         \/ \E n \in Names, d \in Data \cup {Caught} : s = Append(scope, OneCell(n, Cell(FALSE, d)))
  PROVE  \E frame : FrameOf(frame, F) /\ Pushes(s, scope, frame)
<1>1. CASE s = Push(scope)
  BY <1>1, EmptyFrameOf DEF Push, Pushes
<1>2. CASE \E n \in Names, d \in Data \cup {Caught} : s = Append(scope, OneCell(n, Cell(FALSE, d)))
  <2>1. PICK n \in Names, d \in Data \cup {Caught} : s = Append(scope, OneCell(n, Cell(FALSE, d)))
    BY <1>2
  <2>2. FrameOf(OneCell(n, Cell(FALSE, d)), F)
    BY DatumCell, OneCellOf
  <2> QED
    BY <2>1, <2>2 DEF Pushes
<1> QED
  BY <1>1, <1>2

\* `if` and `match` enter the block they select.
LEMMA branchStep ==
  ASSUME NEW F, Sound(F), branch
  PROVE  IInv'
<1>1. Begins(2) /\ host' = host /\ signal' = signal /\ Compound /\ Enter(BlockFrame(Len(scope) + 1))
  BY DEF branch
<1>2. /\ signal = "run" /\ InBody(Top) /\ Top.left > 0 /\ used' \in Nat
      /\ Limited => used' <= StepLimit
      /\ control # <<>>
  BY <1>1, BeginsFacts
<1>3. scope \in Seq(F) /\ Closed(F) /\ Len(scope) \in Nat \ {0} /\ host \in Hosts
  BY <1>2, BudgetFacts, TopFacts
<1>4. PICK frame : FrameOf(frame, F) /\ Pushes(scope', scope, frame)
  BY NewFrame DEF branch
<1> DEFINE G == F \cup {frame}
           b == BlockFrame(Len(scope) + 1)
<1>5. F \subseteq G /\ Closed(G) /\ scope' \in Seq(G) /\ Len(scope') = Len(scope) + 1
  BY <1>3, <1>4, Pushed DEF Pushes
<1>6. b \in Control(G) /\ b.kind = "block" /\ b.inner = Len(scope) + 1
  BY <1>3, BlockFrameFacts
<1> HIDE DEF b, G
<1>7. Joined(Top, b)
  BY <1>2, <1>6, JoinedTop
<1>8. Enter(b) /\ UNCHANGED <<context, depth>> /\ UNCHANGED outer
  BY <1>1 DEF Compound, b
<1> QED
  BY <1>1, <1>2, <1>3, <1>5, <1>6, <1>7, <1>8, EnterStep

\* `while` and `for` begin.
LEMMA loopStep ==
  ASSUME NEW F, Sound(F), loop
  PROVE  IInv'
<1>1. /\ \E k \in Nat : Begins(k)
      /\ \E kind \in Loops, items \in Nat : Enter(LoopFrame(kind, items))
      /\ host' = host /\ signal' = signal /\ scope' = scope /\ Compound
  <2>1. Begins(1) \/ Begins(2)
    BY DEF loop
  <2>2. CASE Enter(LoopFrame("while", 0))
    BY <2>1, <2>2 DEF loop, Loops
  <2>3. CASE \E items \in 0..(MaxItems + 1) : Enter(LoopFrame("for", items))
    <3>1. PICK items \in 0..(MaxItems + 1) : Enter(LoopFrame("for", items))
      BY <2>3
    <3>2. items \in Nat
      BY EvaluatorAssumption
    <3> QED
      BY <2>1, <3>1, <3>2 DEF loop, Loops
  <2> QED
    BY <2>2, <2>3 DEF loop
<1>2. /\ signal = "run" /\ InBody(Top) /\ Top.left > 0 /\ used' \in Nat
      /\ Limited => used' <= StepLimit
      /\ control # <<>>
  BY <1>1, BeginsFacts
<1>3. scope \in Seq(F) /\ Closed(F) /\ Len(scope) \in Nat \ {0} /\ host \in Hosts
  BY <1>2, BudgetFacts, TopFacts
<1>4. PICK kind \in Loops, items \in Nat : Enter(LoopFrame(kind, items))
  BY <1>1
<1> DEFINE l == LoopFrame(kind, items)
<1>5. l \in Control(F) /\ l.kind = kind /\ l.inner = Len(scope) /\ l.body = FALSE
  BY <1>3, LoopFrameFacts
<1>6. Enter(l) /\ UNCHANGED <<context, depth>> /\ UNCHANGED outer
  BY <1>1, <1>4 DEF Compound
<1> HIDE DEF l
<1>7. Joined(Top, l) /\ l.kind \notin {"call", "catch"}
  BY <1>2, <1>5, JoinedTop DEF Loops
<1>8. scope' \in Seq(F) /\ l.inner = Len(scope') /\ host' \in Hosts /\ signal' = "run"
  BY <1>1, <1>2, <1>3, <1>5
<1> QED
  BY <1>2, <1>3, <1>5, <1>6, <1>7, <1>8, EnterStep

\* A `try` enters its block.
LEMMA try_statementStep ==
  ASSUME NEW F, Sound(F), try_statement
  PROVE  IInv'
<1>1. Begins(1) /\ host' = host /\ signal' = signal /\ Compound /\ Enter(TryFrame)
  BY DEF try_statement
<1>2. /\ signal = "run" /\ InBody(Top) /\ Top.left > 0 /\ used' \in Nat
      /\ Limited => used' <= StepLimit
      /\ control # <<>>
  BY <1>1, BeginsFacts
<1>3. scope \in Seq(F) /\ Closed(F) /\ Len(scope) \in Nat \ {0} /\ host \in Hosts
  BY <1>2, BudgetFacts, TopFacts
<1>4. PICK frame : FrameOf(frame, F) /\ Pushes(scope', scope, frame)
  BY NewFrame DEF try_statement
<1> DEFINE G == F \cup {frame}
           t == TryFrame
<1>5. F \subseteq G /\ Closed(G) /\ scope' \in Seq(G) /\ Len(scope') = Len(scope) + 1
  BY <1>3, <1>4, Pushed DEF Pushes
<1>6. t \in Control(F) /\ t.kind = "try" /\ t.inner = Len(scope) + 1 /\ t.scope = scope
  BY <1>3, TryFrameFacts
<1> HIDE DEF t, G
<1>7. Joined(Top, t)
  BY <1>2, <1>6, JoinedTop
<1>8. Enter(t) /\ UNCHANGED <<context, depth>> /\ UNCHANGED outer
  BY <1>1 DEF Compound, t
<1>9. t \in Control(G)
  BY <1>5, <1>6, FramesGrow
<1> QED
  BY <1>1, <1>2, <1>3, <1>5, <1>6, <1>7, <1>8, <1>9, EnterStep

\* The body of a call runs in what the function captured, under the function itself, with a
\* frame for the parameters and one for the body.
LEMMA CalleeScope ==
  ASSUME NEW F, Closed(F), scope \in Seq(F), NEW f \in Functions, f \in Visible(scope), NEW s,
         s = Push(Push(Append(Found(scope, f).value.captured, OneCell(f, Found(scope, f)))))
  PROVE  \E G : F \subseteq G /\ Closed(G) /\ s \in Seq(G)
<1> DEFINE function == Found(scope, f)
           captured == function.value.captured
           one == OneCell(f, function)
           G == F \cup {one}
           H == G \cup {EmptyFrame}
<1>1. CellOf(f, function, F)
  BY FoundCell
<1>2. captured \in Seq(F)
  BY <1>1 DEF CellOf
<1>3. FrameOf(one, F)
  BY <1>1, OneCellOf
<1>4. s = Append(Append(Append(captured, one), EmptyFrame), EmptyFrame)
  BY DEF Push
<1> HIDE DEF captured, one
<1>5. Append(captured, one) \in Seq(G) /\ Closed(G)
  BY <1>2, <1>3, Pushed
<1>6. FrameOf(EmptyFrame, G)
  BY EmptyFrameOf
<1>7. Closed(H) /\ EmptyFrame \in H /\ Append(captured, one) \in Seq(H)
  BY <1>5, <1>6, ClosedGrows, SeqMonotonic
<1>8. F \subseteq H
  OBVIOUS
<1> HIDE DEF G, H
<1>9. Append(Append(captured, one), EmptyFrame) \in Seq(H)
  BY <1>7, AppendProperties
<1>10. s \in Seq(H)
  BY <1>4, <1>7, <1>9, AppendProperties
<1> QED
  BY <1>7, <1>8, <1>10

\* A call enters its body in the captured scope, or fails, or finds the token tripped.
LEMMA callStep ==
  ASSUME NEW F, Sound(F), NEW f \in Functions, NEW then \in Then, call(f, then)
  PROVE  IInv'
<1>1. Begins(2)
  BY DEF call
<1>2. /\ signal = "run" /\ InBody(Top) /\ Top.left > 0 /\ used' \in Nat
      /\ Limited => used' <= StepLimit
      /\ control # <<>>
  BY <1>1, BeginsFacts
<1>3. /\ scope \in Seq(F) /\ Closed(F) /\ Len(scope) \in Nat \ {0} /\ host \in Hosts
      /\ context \in Functions \cup {"script"}
      /\ depth = Cardinality(CallsOf(control)) /\ depth \in Nat /\ CallLimit \in Nat
  BY <1>2, BudgetFacts, TopFacts
<1>4. CASE Trips
  <2>1. Simple /\ host' = host /\ scope' = scope /\ signal' = "cancelled"
    BY <1>4 DEF call, language, Raise
  <2> QED
    BY <1>2, <2>1, Unchanged, SignalsFacts
<1>5. CASE ~Trips /\ (f \notin Visible(scope) \/ (Limited /\ depth >= CallLimit))
  <2>1. Simple /\ host' = host /\ scope' = scope /\ signal' = "error"
    BY <1>5, Zenon DEF call, language, Raise
  <2> QED
    BY <1>2, <2>1, Unchanged, SignalsFacts
<1>6. CASE ~Trips /\ ~(f \notin Visible(scope) \/ (Limited /\ depth >= CallLimit))
  <2> DEFINE function == Found(scope, f)
             frames == Push(Append(function.value.captured, OneCell(f, function)))
             c == CallFrame(f, Len(frames) + 1, then)
  <2>1. /\ Enter(c) /\ scope' = Push(frames) /\ context' = f /\ depth' = depth + 1
        /\ signal' \in {"run", "error"} /\ host' = host /\ UNCHANGED outer
    BY <1>6, Zenon DEF call
  <2>2. PICK G : F \subseteq G /\ Closed(G) /\ scope' \in Seq(G)
    BY <1>3, <1>6, <2>1, CalleeScope
  <2>3. Len(scope') = Len(frames) + 1 /\ Len(frames) \in Nat
    <3> HIDE DEF frames
    <3>1. Pushes(scope', frames, EmptyFrame)
      BY <2>1 DEF Push, Pushes
    <3> DEFINE cap == Append(function.value.captured, OneCell(f, function))
    <3>2. function.value.captured \in Seq(F)
      <4>1. CellOf(f, function, F)
        BY <1>3, <1>6, FoundCell
      <4> QED
        BY <4>1 DEF CellOf
    <3>3. cap \in Seq(F \cup {OneCell(f, function)})
      BY <3>2, PushScope
    <3>4. frames \in Seq((F \cup {OneCell(f, function)}) \cup {EmptyFrame})
      BY <3>3, PushScope DEF frames, Push
    <3> QED
      BY <2>1, <3>4, PushScope DEF Push
  <2> HIDE DEF frames
  <2>4. /\ c \in Control(F) /\ c.kind = "call" /\ c.inner = Len(scope') /\ c.scope = scope
        /\ c.context = context /\ c.callee = f
    BY <1>3, <2>3, CallFrameFacts
  <2> HIDE DEF c
  <2>5. c \in Control(G)
    BY <2>2, <2>4, FramesGrow
  <2>6. Joined(Top, c)
    BY <1>2, <2>4, JoinedTop
  <2>7. /\ Counted \in Seq(Control(F)) /\ Counted # <<>>
        /\ Alike(Top, Last(Counted)) /\ Stacked(Counted, Len(scope))
        /\ CallsOf(Counted) = CallsOf(control) /\ Contexts(Counted, context)
    BY <1>2, CountedFacts
  <2>8. Counted \in Seq(Control(G))
    BY <2>2, <2>7, FramesGrow
  <2>9. Pushes(control', Counted, c)
    BY <2>1 DEF Enter, Pushes
  <2>10. Joined(Last(Counted), c)
    BY <2>6, <2>7, AlikeJoined
  <2>11. control' \in Seq(Control(G)) /\ control' # <<>> /\ Last(control') = c
    BY <2>5, <2>8, <2>9, PushFacts
  <2>12. Stacked(control', Len(scope'))
    BY <2>4, <2>5, <2>7, <2>8, <2>9, <2>10, PushStacked
  <2>13. Contexts(control', f)
    BY <2>4, <2>5, <2>7, <2>8, <2>9, PushCall
  <2>14. Cardinality(CallsOf(control')) = Cardinality(CallsOf(control)) + 1
    BY <2>4, <2>5, <2>7, <2>8, <2>9, PushCall
  <2>15. /\ depth' = Cardinality(CallsOf(control'))
         /\ Limited => depth' <= CallLimit
    BY <1>3, <1>6, <2>1, <2>14
  <2>16. /\ signal' \in Signals \ {"idle", "ended"}
         /\ Last(control').kind \notin Loops \cup {"catch"}
    BY <2>1, <2>4, <2>11, SignalsFacts
  <2>17. context' \in Functions \cup {"script"} /\ Contexts(control', context') /\ host' \in Hosts
    BY <1>3, <2>1, <2>13
  <2>18. UNCHANGED outer
    BY <2>1
  <2> QED
    BY <1>2, <2>2, <2>11, <2>12, <2>15, <2>16, <2>17, <2>18, Assemble
<1> QED
  BY <1>4, <1>5, <1>6

-----------------------------------------------------------------------------
(* The ends of blocks and the heads of loops. *)

\* No frame changes: only the signal does.
LEMMA StayStep ==
  ASSUME NEW F, Sound(F), control # <<>>, Top.kind # "catch",
         UNCHANGED <<control, context, depth, scope, host>>, UNCHANGED outer,
         used' \in Nat, Limited => used' <= StepLimit,
         signal' \in Signals \ {"idle", "ended"},
         Top.kind \in Loops /\ signal' \in {"done"} \cup Transfers => Top.body
  PROVE  IInv'
<1>1. /\ scope \in Seq(F) /\ Closed(F) /\ host \in Hosts /\ context \in Functions \cup {"script"}
      /\ depth = Cardinality(CallsOf(control))
      /\ Limited => depth <= CallLimit
  BY BudgetFacts
<1>2. Stacked(control, Len(scope)) /\ Contexts(control, context) /\ control \in Seq(Control(F))
  BY DEF Sound, StackInv, Typed
<1>3. /\ control' = control /\ context' = context /\ depth' = depth /\ scope' = scope /\ host' = host
  OBVIOUS
<1>4. /\ Last(control').kind # "catch"
      /\ Last(control').kind \in Loops /\ signal' \in {"done"} \cup Transfers => Last(control').body
  BY <1>3 DEF Top
<1>5. /\ scope' \in Seq(F) /\ host' \in Hosts /\ control' \in Seq(Control(F)) /\ control' # <<>>
      /\ Stacked(control', Len(scope')) /\ Contexts(control', context')
      /\ context' \in Functions \cup {"script"} /\ depth' = Cardinality(CallsOf(control'))
      /\ Limited => depth' <= CallLimit
  BY <1>1, <1>2, <1>3
<1> QED
  BY <1>1, <1>4, <1>5, Assemble

\* The statements of a block are over.
LEMMA EndBlockStep ==
  ASSUME NEW F, Sound(F), EndBlock
  PROVE  IInv'
<1>1. /\ signal = "run" /\ InBody(Top) /\ signal' = "done"
      /\ UNCHANGED <<control, context, depth, scope, host>> /\ UNCHANGED outer /\ used' = used
  BY DEF EndBlock, Raise, limits, language
<1>2. /\ control # <<>> /\ used \in Nat
      /\ Limited => used <= StepLimit
  BY <1>1, BudgetFacts
<1>3. Top.kind # "catch" /\ (Top.kind \in Loops => Top.body)
  BY <1>1 DEF InBody, Loops
<1> QED
  BY <1>1, <1>2, <1>3, StayStep, SignalsFacts

\* A loop frame whose body begins, and one whose body has ended.
Begun(g, frame, l, i) == g = [frame EXCEPT !.body = TRUE, !.left = l, !.inner = i]
Ended(g, frame, i)    == g = [frame EXCEPT !.body = FALSE, !.left = 0, !.inner = i]

\* A loop that begins or ends its body.
LEMMA LoopUpdated ==
  ASSUME NEW F, NEW frame \in Control(F), frame.kind \in Loops,
         NEW l \in Nat, NEW i \in Nat \ {0}, NEW g
  PROVE  /\ Begun(g, frame, l, i) =>
              g \in Control(F) /\ g.kind = frame.kind /\ g.inner = i /\ g.body
         /\ Ended(g, frame, i) =>
              g \in Control(F) /\ g.kind = frame.kind /\ g.inner = i /\ ~g.body
<1> DEFINE L == [kind : Loops, inner : Depths, items : Nat, body : BOOLEAN, left : Nat]
<1>1. frame \in L
  BY DEF Control, Loops
<1>2. L \subseteq Control(F)
  BY DEF Control
<1>3. Begun(g, frame, l, i) => g \in L /\ g.kind = frame.kind /\ g.inner = i /\ g.body
  BY <1>1 DEF Depths, Begun
<1>4. Ended(g, frame, i) => g \in L /\ g.kind = frame.kind /\ g.inner = i /\ ~g.body
  <2> HAVE Ended(g, frame, i)
  <2>1. g = [frame EXCEPT !.body = FALSE, !.left = 0, !.inner = i]
    BY DEF Ended
  <2>2. g \in L
    BY <1>1, <2>1 DEF Depths
  <2>3. g.kind = frame.kind /\ g.inner = i
    BY <1>1, <2>1
  <2>4. g.body = FALSE
    BY <1>1, <2>1
  <2> QED
    BY <2>2, <2>3, <2>4
<1> HIDE DEF L
<1> QED
  BY <1>2, <1>3, <1>4

\* A `for` that takes an item differs in nothing else.
LEMMA ItemTaken ==
  ASSUME NEW F, NEW frame \in Control(F), frame.kind \in Loops, frame.items > 0,
         NEW g, g = [frame EXCEPT !.items = Rest(@)]
  PROVE  g \in Control(F) /\ Alike(frame, g)
<1> DEFINE L == [kind : Loops, inner : Depths, items : Nat, body : BOOLEAN, left : Nat]
<1>1. frame \in L
  BY DEF Control, Loops
<1>2. L \subseteq Control(F)
  BY DEF Control
<1>3. g \in L /\ Alike(frame, g)
  <2>1. frame.items \in Nat
    BY <1>1
  <2>2. Rest(frame.items) \in Nat
    BY <2>1 DEF Rest
  <2> QED
    BY <1>1, <2>2 DEF Alike, Loops
<1> HIDE DEF L
<1> QED
  BY <1>2, <1>3, Zenon

\* The body of a loop begins, in a frame of its own.
LEMMA IterateStep ==
  ASSUME NEW F, Sound(F), control # <<>>, Top.kind \in Loops, ~Top.body,
         NEW head \in Control(F), Alike(Top, head), Iterate(head),
         UNCHANGED <<context, depth, host, signal>>, UNCHANGED outer, signal = "run",
         used' \in Nat, Limited => used' <= StepLimit,
         \/ scope' = Push(scope)
         \/ \E n \in Names, d \in Data \cup {Caught} : scope' = Append(scope, OneCell(n, Cell(FALSE, d)))
  PROVE  IInv'
<1>1. /\ Top \in Control(F) /\ Below # <<>> /\ Joined(Last(Below), Top)
      /\ Top.inner = Len(scope) /\ Len(scope) \in Nat \ {0} /\ Last(Below).inner \in Nat
  BY TopFacts, SignalsFacts
<1>2. scope \in Seq(F) /\ Closed(F) /\ host \in Hosts
  BY BudgetFacts
<1> DEFINE frame == [head EXCEPT !.body = TRUE, !.left = MaxStatements[head.kind], !.inner = @ + 1]
<1>3. head.kind = Top.kind /\ head.kind \in Loops /\ head.inner = Len(scope)
  BY <1>1 DEF Alike
<1>4. MaxStatements[head.kind] \in Nat /\ head.inner + 1 \in Nat \ {0}
  BY <1>1, <1>3, EvaluatorAssumption DEF Loops
<1> DEFINE l == MaxStatements[head.kind]
           i == head.inner + 1
<1>5. Begun(frame, head, l, i)
  BY Zenon DEF Begun
<1>6. Replaces(control', control, frame)
  BY DEF Replaces, Iterate, Below
<1>7. /\ frame \in Control(F) /\ frame.kind = Top.kind /\ frame.inner = Len(scope) + 1
      /\ frame.body
  <2>1. l \in Nat /\ i \in Nat \ {0} /\ i = Len(scope) + 1
    BY <1>3, <1>4
  <2> HIDE DEF frame, l, i
  <2>2. frame \in Control(F) /\ frame.kind = head.kind /\ frame.inner = i /\ frame.body
    BY <1>3, <1>5, <2>1, LoopUpdated
  <2> QED
    BY <1>3, <2>1, <2>2
<1> HIDE DEF frame, l, i
<1>8. Joined(Last(Below), frame) /\ frame.kind \notin {"call"}
  <2>1. Last(Below).inner + 0 = Last(Below).inner
    BY <1>1
  <2>2. Last(Below).inner = Len(scope)
    BY <1>1, <2>1 DEF Joined
  <2> QED
    BY <1>1, <1>7, <2>2 DEF Joined, Loops
<1>9. PICK new : FrameOf(new, F) /\ Pushes(scope', scope, new)
  BY NewFrame
<1> DEFINE G == F \cup {new}
<1>10. F \subseteq G /\ Closed(G) /\ scope' \in Seq(G) /\ Len(scope') = Len(scope) + 1
  BY <1>2, <1>9, Pushed DEF Pushes
<1>11. frame \in Control(G)
  BY <1>7, <1>10, FramesGrow
<1> HIDE DEF G
<1>12. /\ Top.kind \notin {"script", "call"} /\ UNCHANGED <<context, depth>>
       /\ Len(scope') = frame.inner /\ host' \in Hosts /\ signal' = "run" /\ frame.kind # "call"
  BY <1>2, <1>7, <1>8, <1>10 DEF Loops
<1> QED
  BY <1>6, <1>8, <1>10, <1>11, <1>12, ReplaceStep

\* The head of a `while`: the token, the budget, the condition.
LEMMA while_headStep ==
  ASSUME NEW F, Sound(F), while_head
  PROVE  IInv'
<1>1. /\ signal = "run" /\ Top.kind = "while" /\ ~Top.body
      /\ UNCHANGED <<context, depth>> /\ UNCHANGED outer
  BY DEF while_head, AtHead
<1>2. /\ control # <<>> /\ used \in Nat /\ StepLimit \in Nat
      /\ Limited => used <= StepLimit
      /\ scope \in Seq(F) /\ Closed(F) /\ host \in Hosts
  BY <1>1, BudgetFacts
<1>3. /\ Top \in Control(F) /\ Top.inner = Len(scope) /\ Below # <<>> /\ Joined(Last(Below), Top)
      /\ Last(Below).inner \in Nat
  BY <1>1, <1>2, TopFacts
<1>4. used' \in Nat /\ (Limited => used' <= StepLimit)
  <2>1. used' = used \/ (Affords(1) /\ used' = Charge(1))
    BY DEF while_head, Polled
  <2> QED
    BY <1>2, <2>1 DEF Affords, Charge
<1>5. CASE UNCHANGED <<control, language>> /\ signal' \in {"error", "cancelled"}
  <2>1. UNCHANGED <<control, context, depth, scope, host>>
    BY <1>1, <1>5 DEF language
  <2>2. signal' \in Signals \ {"idle", "ended"} /\ signal' \notin {"done"} \cup Transfers
    BY <1>5, SignalsFacts
  <2> QED
    BY <1>1, <1>2, <1>4, <2>1, <2>2, StayStep
<1>6. CASE Iterate(Top) /\ scope' = Push(scope) /\ UNCHANGED <<host, signal>>
  <2>1. Alike(Top, Top) /\ Top.kind \in Loops
    BY <1>1 DEF Alike, Loops
  <2>2. UNCHANGED <<context, depth, host, signal>> /\ UNCHANGED outer
    BY <1>1, <1>6
  <2> QED
    BY <1>1, <1>2, <1>3, <1>4, <1>6, <2>1, <2>2, IterateStep
<1>7. CASE control' = Below /\ UNCHANGED <<language, signal>>
  <2>1. scope' = scope /\ host' = host /\ signal' = "run"
    BY <1>1, <1>7 DEF language
  <2>2. Len(scope') = Last(Below).inner
    BY <1>1, <1>3, <2>1 DEF Joined, Loops
  <2>3. Top.kind \notin {"script", "call"}
    BY <1>1
  <2> QED
    BY <1>1, <1>2, <1>4, <1>7, <2>1, <2>2, <2>3, LeaveStep, SignalsFacts
<1> QED
  BY <1>5, <1>6, <1>7 DEF while_head, Polled, Raise

\* The head of a `for`: the token and the next item.
LEMMA for_headStep ==
  ASSUME NEW F, Sound(F), for_head
  PROVE  IInv'
<1>1. /\ signal = "run" /\ Top.kind = "for" /\ ~Top.body
      /\ UNCHANGED <<context, depth>> /\ UNCHANGED outer
  BY DEF for_head, AtHead
<1>2. /\ control # <<>> /\ used \in Nat
      /\ Limited => used <= StepLimit
      /\ scope \in Seq(F) /\ Closed(F) /\ host \in Hosts
  BY <1>1, BudgetFacts
<1>3. /\ Top \in Control(F) /\ Top.inner = Len(scope) /\ Below # <<>> /\ Joined(Last(Below), Top)
      /\ Last(Below).inner \in Nat
  BY <1>1, <1>2, TopFacts
<1>4. used' = used
  BY DEF for_head, Polled
<1>5. CASE Polled
  <2>1. UNCHANGED <<control, context, depth, scope, host>> /\ signal' = "cancelled"
    BY <1>1, <1>5 DEF language, Polled, Raise
  <2>2. signal' \in Signals \ {"idle", "ended"} /\ signal' \notin {"done"} \cup Transfers
    BY <2>1, SignalsFacts
  <2> QED
    BY <1>1, <1>2, <1>4, <2>1, <2>2, StayStep
<1>6. CASE /\ Top.items > 0 /\ Iterate([Top EXCEPT !.items = Rest(@)])
           /\ \E n \in Names, d \in Data : scope' = Append(scope, OneCell(n, Cell(FALSE, d)))
           /\ UNCHANGED <<host, signal>>
  <2> DEFINE head == [Top EXCEPT !.items = Rest(@)]
  <2>1. Top.kind \in Loops
    BY <1>1 DEF Loops
  <2>2. head \in Control(F) /\ Alike(Top, head)
    BY <1>3, <1>6, <2>1, ItemTaken, Zenon
  <2>3. Iterate(head)
    BY <1>6
  <2> HIDE DEF head
  <2>4. \E n \in Names, d \in Data \cup {Caught} : scope' = Append(scope, OneCell(n, Cell(FALSE, d)))
    BY <1>6
  <2>5. UNCHANGED <<context, depth, host, signal>> /\ UNCHANGED outer
    BY <1>1, <1>6
  <2> QED
    BY <1>1, <1>2, <1>4, <2>1, <2>2, <2>3, <2>4, <2>5, IterateStep
<1>7. CASE control' = Below /\ UNCHANGED <<language, signal>>
  <2>1. scope' = scope /\ host' = host /\ signal' = "run"
    BY <1>1, <1>7 DEF language
  <2>2. Len(scope') = Last(Below).inner
    BY <1>1, <1>3, <2>1 DEF Joined, Loops
  <2>3. Top.kind \notin {"script", "call"}
    BY <1>1
  <2> QED
    BY <1>1, <1>2, <1>4, <1>7, <2>1, <2>2, <2>3, LeaveStep, SignalsFacts
<1> QED
  BY <1>5, <1>6, <1>7 DEF for_head

-----------------------------------------------------------------------------
(* Unwinding. *)

\* What is known of a frame that is unwound.
LEMMA UnwindingFacts ==
  ASSUME NEW F, Sound(F), NEW kind, Unwinding(kind)
  PROVE  /\ control # <<>> /\ Top.kind = kind /\ signal \notin {"run", "idle", "ended"}
         /\ Top.kind # "catch"
         /\ Onward \in Signals \ {"idle", "ended"} /\ signal \in Signals \ {"idle", "ended"}
         /\ scope \in Seq(F) /\ Closed(F) /\ host \in Hosts /\ used \in Nat
         /\ Limited => used <= StepLimit
<1>1. /\ signal \in Signals /\ used \in Nat /\ scope \in Seq(F) /\ Closed(F) /\ host \in Hosts
      /\ Limited => used <= StepLimit
  BY BudgetFacts
<1>2. control # <<>> /\ Top.kind = kind /\ signal \notin {"run", "idle", "ended"}
  BY DEF Unwinding
<1>3. Top.kind # "catch"
  BY <1>2 DEF Sound, SignalInv
<1> QED
  BY <1>1, <1>2, <1>3, SignalsFacts DEF Onward

\* A block is left.
LEMMA blockStep ==
  ASSUME NEW F, Sound(F), block
  PROVE  IInv'
<1>1. /\ Unwinding("block") /\ scope' = Pop(scope) /\ signal' = Onward /\ host' = host
      /\ control' = Below /\ UNCHANGED <<context, depth>> /\ UNCHANGED outer /\ used' = used
  BY DEF block, Leaves, limits
<1>2. /\ control # <<>> /\ Top.kind = "block" /\ Onward \in Signals \ {"idle", "ended"}
      /\ scope \in Seq(F) /\ Closed(F) /\ host \in Hosts /\ used \in Nat
      /\ Limited => used <= StepLimit
  BY <1>1, UnwindingFacts
<1>3. /\ Top.inner = Len(scope) /\ Len(scope) \in Nat \ {0} /\ Below # <<>>
      /\ Joined(Last(Below), Top) /\ Last(Below).inner \in Nat
  BY <1>2, TopFacts
<1>4. Pop(scope) \in Seq(F) /\ Len(Pop(scope)) = Len(scope) - 1
  BY <1>2, <1>3, PopScope
<1>5. Len(scope') = Last(Below).inner
  <2>1. Top.inner = Last(Below).inner + 1
    BY <1>2, <1>3 DEF Joined
  <2> QED
    BY <1>1, <1>3, <1>4, <2>1
<1> QED
  BY <1>1, <1>2, <1>4, <1>5, LeaveStep

\* A `try` that has nothing to catch is left.
LEMMA pass_tryStep ==
  ASSUME NEW F, Sound(F), pass_try
  PROVE  IInv'
<1>1. /\ Unwinding("try") /\ scope' = Pop(scope) /\ signal' = Onward /\ host' = host
      /\ control' = Below /\ UNCHANGED <<context, depth>> /\ UNCHANGED outer /\ used' = used
  BY DEF pass_try, Leaves, limits
<1>2. /\ control # <<>> /\ Top.kind = "try" /\ Onward \in Signals \ {"idle", "ended"}
      /\ scope \in Seq(F) /\ Closed(F) /\ host \in Hosts /\ used \in Nat
      /\ Limited => used <= StepLimit
  BY <1>1, UnwindingFacts
<1>3. /\ Top.inner = Len(scope) /\ Len(scope) \in Nat \ {0} /\ Below # <<>>
      /\ Joined(Last(Below), Top) /\ Last(Below).inner \in Nat
  BY <1>2, TopFacts
<1>4. Pop(scope) \in Seq(F) /\ Len(Pop(scope)) = Len(scope) - 1
  BY <1>2, <1>3, PopScope
<1>5. Len(scope') = Last(Below).inner
  <2>1. Top.inner = Last(Below).inner + 1
    BY <1>2, <1>3 DEF Joined
  <2> QED
    BY <1>1, <1>3, <1>4, <2>1
<1> QED
  BY <1>1, <1>2, <1>4, <1>5, LeaveStep

\* A body of a loop is left, and the loop goes on or is left with it.
LEMMA iterationStep ==
  ASSUME NEW F, Sound(F), iteration
  PROVE  IInv'
<1>1. PICK kind \in Loops : Unwinding(kind)
  BY DEF iteration, Loops
<1>2. /\ control # <<>> /\ Top.kind = kind /\ signal \in Signals \ {"idle", "ended"}
      /\ scope \in Seq(F) /\ Closed(F) /\ host \in Hosts /\ used \in Nat
      /\ Limited => used <= StepLimit
  BY <1>1, UnwindingFacts
<1>3. /\ Top \in Control(F) /\ Top.inner = Len(scope) /\ Len(scope) \in Nat \ {0} /\ Below # <<>>
      /\ Joined(Last(Below), Top) /\ Last(Below).inner \in Nat \ {0}
  BY <1>1, <1>2, TopFacts, SignalsFacts
<1>4. Pop(scope) \in Seq(F) /\ Len(Pop(scope)) = Len(scope) - 1
  BY <1>2, <1>3, PopScope
<1>5. Len(scope) = Last(Below).inner + (IF Top.body THEN 1 ELSE 0)
  BY <1>1, <1>2, <1>3 DEF Joined
<1>6. scope' = (IF Top.body THEN Pop(scope) ELSE scope) /\ host' = host
  BY DEF iteration
<1>7. scope' \in Seq(F) /\ Len(scope') = Last(Below).inner
  <2>1. CASE Top.body
    BY <1>3, <1>4, <1>5, <1>6, <2>1
  <2>2. CASE ~Top.body
    BY <1>2, <1>3, <1>5, <1>6, <2>2
  <2> QED
    BY <2>1, <2>2
<1>8. CASE signal \in {"done", "continue"}
  <2> DEFINE frame == [Top EXCEPT !.body = FALSE, !.left = 0, !.inner = @ - 1]
             i == Top.inner - 1
  <2>1. /\ control' = Append(Below, frame) /\ signal' = "run" /\ used' = used
        /\ UNCHANGED <<context, depth>> /\ UNCHANGED outer
    BY <1>8, Zenon DEF iteration, limits
  <2>2. Top.body
    BY <1>1, <1>2, <1>8, SignalsFacts DEF Sound, SignalInv
  <2>3. i = Last(Below).inner /\ i \in Nat \ {0}
    BY <1>3, <1>5, <2>2
  <2>4. Ended(frame, Top, i)
    BY Zenon DEF Ended
  <2>5. Replaces(control', control, frame)
    BY <2>1, Zenon DEF Replaces, Below
  <2> HIDE DEF frame, i
  <2>6. 0 \in Nat /\ Top.kind \in Loops
    BY <1>1, <1>2
  <2>7. frame \in Control(F) /\ frame.kind = Top.kind /\ frame.inner = i /\ ~frame.body
    BY <1>3, <2>3, <2>4, <2>6, LoopUpdated
  <2>8. Joined(Last(Below), frame)
    BY <1>1, <1>2, <1>3, <2>3, <2>7 DEF Joined, Loops
  <2>9. UNCHANGED <<context, depth>> /\ UNCHANGED outer /\ used' \in Nat
        /\ (Limited => used' <= StepLimit) /\ signal' = "run"
    BY <1>2, <2>1
  <2>10. /\ Top.kind \notin {"script", "call"} /\ frame.kind # "call"
         /\ Len(scope') = frame.inner /\ host' \in Hosts
    BY <1>1, <1>2, <1>6, <1>7, <2>3, <2>7 DEF Loops
  <2> QED
    BY <1>2, <1>7, <2>5, <2>7, <2>8, <2>9, <2>10, ReplaceStep
<1>9. CASE signal \notin {"done", "continue"}
  <2>1. /\ control' = Below /\ signal' \in {"run", signal} /\ used' = used
        /\ UNCHANGED <<context, depth>> /\ UNCHANGED outer
    BY <1>9 DEF iteration, Leaves, limits
  <2>2. Top.kind \notin {"script", "call"} /\ host' \in Hosts
    BY <1>1, <1>2, <1>6 DEF Loops
  <2>3. signal' \in Signals \ {"idle", "ended"}
    BY <1>2, <2>1, SignalsFacts
  <2> QED
    BY <1>2, <1>7, <2>1, <2>2, <2>3, LeaveStep
<1> QED
  BY <1>8, <1>9

\* An error is caught.
LEMMA catchStep ==
  ASSUME NEW F, Sound(F), catch
  PROVE  IInv'
<1>1. /\ Unwinding("try") /\ scope' = Top.scope /\ host' = Top.host
      /\ signal' = "run" /\ UNCHANGED <<context, depth>> /\ UNCHANGED outer /\ used' = used
  BY DEF catch, Undoes, limits
<1>2. /\ control # <<>> /\ Top.kind = "try" /\ Closed(F) /\ used \in Nat
      /\ Limited => used <= StepLimit
  BY <1>1, UnwindingFacts
<1>3. /\ Top \in Control(F) /\ Top.inner \in Nat \ {0} /\ Below # <<>>
      /\ Joined(Last(Below), Top) /\ Last(Below).inner \in Nat \ {0}
  BY <1>2, TopFacts
<1>4. Top.scope \in Seq(F) /\ Top.host \in Hosts
  BY <1>2, <1>3, ControlFacts
<1> DEFINE frame == [kind |-> "catch", inner |-> Top.inner - 1]
           i == Top.inner - 1
<1>5. i = Last(Below).inner /\ i \in Nat \ {0} /\ Len(Top.scope) = Last(Below).inner
  BY <1>2, <1>3 DEF Joined
<1>6. frame.kind = "catch" /\ frame.inner = i /\ frame \in [kind : {"catch"}, inner : Depths]
  BY <1>5 DEF Depths
<1>7. Replaces(control', control, frame)
  BY DEF catch, Replaces, Below
<1> HIDE DEF frame, i
<1>8. frame \in Control(F)
  BY <1>6 DEF Control
<1>9. Joined(Last(Below), frame)
  BY <1>2, <1>3, <1>5, <1>6 DEF Joined, Loops
<1>10. /\ used' \in Nat
       /\ Limited => used' <= StepLimit
       /\ scope' \in Seq(F) /\ Len(scope') = frame.inner /\ host' \in Hosts
  BY <1>1, <1>2, <1>4, <1>5, <1>6
<1>11. Top.kind \notin {"script", "call"} /\ frame.kind # "call"
  BY <1>2, <1>6
<1> QED
  BY <1>1, <1>2, <1>7, <1>8, <1>9, <1>10, <1>11, ReplaceStep

\* The error is bound and the catch block begins, or its name is reserved.
LEMMA catch_bindingStep ==
  ASSUME NEW F, Sound(F), catch_binding
  PROVE  IInv'
<1>1. /\ signal = "run" /\ Top.kind = "catch" /\ host' = host /\ used' = used
      /\ UNCHANGED <<context, depth>> /\ UNCHANGED outer
  BY DEF catch_binding, limits
<1>2. /\ control # <<>> /\ used \in Nat
      /\ Limited => used <= StepLimit
      /\ scope \in Seq(F) /\ Closed(F) /\ host \in Hosts
  BY <1>1, BudgetFacts
<1>3. /\ Top \in Control(F) /\ Top.inner = Len(scope) /\ Len(scope) \in Nat \ {0} /\ Below # <<>>
      /\ Joined(Last(Below), Top) /\ Last(Below).inner \in Nat \ {0}
  BY <1>1, <1>2, TopFacts
<1>4. Len(scope) = Last(Below).inner
  BY <1>1, <1>3 DEF Joined
<1>5. CASE /\ \E n \in Names : scope' = Append(scope, OneCell(n, Cell(FALSE, Caught)))
           /\ control' = Append(Below, BlockFrame(Top.inner + 1)) /\ signal' = signal
  <2>1. \E n \in Names, d \in Data \cup {Caught} : scope' = Append(scope, OneCell(n, Cell(FALSE, d)))
    BY <1>5
  <2>2. PICK new : FrameOf(new, F) /\ Pushes(scope', scope, new)
    BY <2>1, NewFrame
  <2> DEFINE G == F \cup {new}
             b == BlockFrame(Top.inner + 1)
  <2>3. F \subseteq G /\ Closed(G) /\ scope' \in Seq(G) /\ Len(scope') = Len(scope) + 1
    BY <1>2, <2>2, Pushed DEF Pushes
  <2>4. b \in Control(G) /\ b.kind = "block" /\ b.inner = Len(scope) + 1
    BY <1>3, BlockFrameFacts
  <2>5. Replaces(control', control, b)
    BY <1>5 DEF Replaces, Below
  <2> HIDE DEF b, G
  <2>6. Joined(Last(Below), b)
    BY <1>3, <1>4, <2>4 DEF Joined, Loops
  <2>7. /\ Top.kind \notin {"script", "call"} /\ b.kind # "call" /\ host' \in Hosts /\ signal' = "run"
        /\ Len(scope') = b.inner /\ used' \in Nat
        /\ Limited => used' <= StepLimit
    BY <1>1, <1>2, <1>5, <2>3, <2>4
  <2> QED
    BY <1>1, <1>2, <2>3, <2>4, <2>5, <2>6, <2>7, ReplaceStep
<1>6. CASE control' = Below /\ signal' = "error" /\ scope' = scope
  <2>1. /\ Top.kind \notin {"script", "call"} /\ host' \in Hosts
        /\ Len(scope') = Last(Below).inner /\ used' \in Nat /\ scope' \in Seq(F)
        /\ Limited => used' <= StepLimit
    BY <1>1, <1>2, <1>4, <1>6
  <2> QED
    BY <1>1, <1>2, <1>6, <2>1, LeaveStep, SignalsFacts
<1> QED
  BY <1>5, <1>6 DEF catch_binding, Raise

\* A call is left with the scope its caller had, in which a variable may be assigned.
LEMMA ReturnedScope ==
  ASSUME NEW F, Sound(F), return
  PROVE  \E G : /\ F \subseteq G /\ Closed(G) /\ scope' \in Seq(G) /\ Len(scope') = Len(Top.scope)
                /\ signal' \in Signals \ {"idle", "ended"}
<1>1. /\ control # <<>> /\ Top.kind = "call" /\ signal \in Signals \ {"idle", "ended"} /\ Closed(F)
  BY UnwindingFacts DEF return
<1>2. Top \in Control(F)
  BY <1>1, TopFacts
<1>3. Top.scope \in Seq(F) /\ Top.then \in Then
  BY <1>1, <1>2, ControlFacts
<1>4. CASE scope' = Top.scope /\ signal' \in {"run", "return", "error", signal}
  BY <1>1, <1>3, <1>4, SignalsFacts
<1>5. CASE Top.then \notin {"drop", "return"} /\ \E d \in Data : Assigned(Top.scope, Top.then, d, "run")
  <2>1. PICK d \in Data : Assigned(Top.scope, Top.then, d, "run")
    BY <1>5
  <2>2. Top.then \in Names
    BY <1>3, <1>5 DEF Then
  <2>3. signal' \in Signals \ {"idle", "ended"}
    BY <2>1, SignalsFacts DEF Assigned, Raise
  <2>4. CASE CanAssign(Top.scope, Top.then)
    <3>1. scope' = Assign(Top.scope, Top.then, d)
      BY <2>1, <2>4 DEF Assigned
    <3>2. PICK frame : /\ FrameOf(frame, F) /\ Assign(Top.scope, Top.then, d) \in Seq(F \cup {frame})
                       /\ Len(Assign(Top.scope, Top.then, d)) = Len(Top.scope)
      BY <1>1, <1>3, <2>2, <2>4, AssignScope
    <3>3. Closed(F \cup {frame}) /\ F \subseteq F \cup {frame}
      BY <1>1, <3>2, ClosedGrows
    <3> QED
      BY <2>3, <3>1, <3>2, <3>3
  <2>5. CASE ~CanAssign(Top.scope, Top.then)
    <3>1. scope' = Top.scope
      BY <2>1, <2>5 DEF Assigned
    <3> QED
      BY <1>1, <1>3, <2>3, <3>1
  <2> QED
    BY <2>4, <2>5
<1> QED
  BY <1>4, <1>5, Zenon DEF return, Raise

\* A call is left, and the caller's scope and context are back.
LEMMA returnStep ==
  ASSUME NEW F, Sound(F), return
  PROVE  IInv'
<1>1. /\ Unwinding("call") /\ control' = Below /\ context' = Top.context /\ depth' = depth - 1
      /\ host' = host /\ used' = used /\ UNCHANGED outer
  BY DEF return, LeavesCall
<1>2. /\ control # <<>> /\ Top.kind = "call" /\ host \in Hosts /\ used \in Nat
      /\ Limited => used <= StepLimit
  BY <1>1, UnwindingFacts
<1>3. /\ Top \in Control(F) /\ control \in Seq(Control(F)) /\ Below \in Seq(Control(F)) /\ Below # <<>>
      /\ Joined(Last(Below), Top) /\ Stacked(Below, Last(Below).inner)
  BY <1>2, TopFacts
<1>4. Top.context \in Functions \cup {"script"} /\ Len(Top.scope) = Last(Below).inner
  BY <1>2, <1>3, ControlFacts DEF Joined
<1>5. Contexts(control, context)
  BY DEF Sound, StackInv
<1>6. /\ Cardinality(CallsOf(control)) = Cardinality(CallsOf(Below)) + 1
      /\ Contexts(Below, Top.context)
  BY <1>2, <1>3, <1>5, PopCall DEF Top, Below
<1>7. Cardinality(CallsOf(Below)) \in Nat
  BY <1>3, CallsFacts
<1>8. /\ depth = Cardinality(CallsOf(control)) /\ CallLimit \in Nat
      /\ Limited => depth <= CallLimit
  BY BudgetFacts
<1>9. /\ depth' = Cardinality(CallsOf(control'))
      /\ Limited => depth' <= CallLimit
  BY <1>1, <1>6, <1>7, <1>8
<1>10. PICK G : /\ F \subseteq G /\ Closed(G) /\ scope' \in Seq(G) /\ Len(scope') = Len(Top.scope)
                /\ signal' \in Signals \ {"idle", "ended"}
  BY ReturnedScope
<1>11. control' \in Seq(Control(G))
  BY <1>1, <1>3, <1>10, FramesGrow
<1>12. Stacked(control', Len(scope')) /\ Contexts(control', context') /\ control' # <<>>
  BY <1>1, <1>3, <1>4, <1>6, <1>10
<1>13. Last(control').kind # "catch" /\ (Last(control').kind \in Loops => Last(control').body)
  BY <1>1, <1>3 DEF Joined
<1>14. /\ context' \in Functions \cup {"script"} /\ host' \in Hosts /\ used' \in Nat
       /\ Limited => used' <= StepLimit
  BY <1>1, <1>2, <1>4
<1> QED
  BY <1>1, <1>9, <1>10, <1>11, <1>12, <1>13, <1>14, Assemble

-----------------------------------------------------------------------------
(* The session. *)

\* No frame is in progress.
LEMMA EmptyFacts ==
  /\ CallsOf(<<>>) = {} /\ Cardinality(CallsOf(<<>>)) = 0 /\ Contexts(<<>>, "script")
  /\ \A current : Contexts(<<>>, current) => current = "script"
  /\ \A length : Stacked(<<>>, length)
<1>1. CallsOf(<<>>) = {}
  BY DEF CallsOf
<1>2. Cardinality({}) = 0
  BY FS_EmptySet
<1>3. \A length : Stacked(<<>>, length)
  BY DEF Stacked
<1> QED
  BY <1>1, <1>2, <1>3 DEF Contexts

\* Between two statements the invariant says little: nothing is in progress.
LEMMA Outside ==
  ASSUME NEW F, Closed(F), control' = <<>>, scope' \in Seq(F), Len(scope') = 1, host' \in Hosts,
         session' = [scope |-> scope', host |-> host'], signal' \in {"idle", "ended"},
         context' = "script", depth' = 0, used' \in Nat, Limited' => used' <= StepLimit,
         left' \in 0..MaxTop, cancelled' \in BOOLEAN, policy' \in {"General", "PureV2"}
  PROVE  IInv'
<1>1. Typed(F)'
  <2>1. control' \in Seq(Control(F))
    BY EmptySeq
  <2>2. session' \in [scope : Seq(F), host : Hosts]
    OBVIOUS
  <2> QED
    BY <2>1, <2>2 DEF Typed
<1>2. StackInv'
  BY EmptyFacts DEF StackInv
<1>3. SignalInv'
  BY DEF SignalInv
<1>4. SessionInv'
  BY DEF SessionInv
<1>5. BudgetInv'
  <2>1. signal' \in Signals /\ context' \in Functions \cup {"script"}
    BY DEF Signals
  <2>2. depth' = Cardinality(CallsOf(control'))
    BY EmptyFacts
  <2>3. WithinLimits'
    BY EvaluatorAssumption DEF WithinLimits
  <2> QED
    BY <2>1, <2>2, <2>3 DEF BudgetInv
<1> QED
  BY <1>1, <1>2, <1>3, <1>4, <1>5 DEF Sound, IInv

\* What is known between two statements.
LEMMA BetweenFacts ==
  ASSUME NEW F, Sound(F), control = <<>>
  PROVE  /\ scope \in Seq(F) /\ Closed(F) /\ Len(scope) = 1 /\ host \in Hosts
         /\ session = [scope |-> scope, host |-> host]
         /\ session.scope = scope /\ session.host = host
         /\ context = "script" /\ depth = 0
         /\ signal \in {"idle", "ended"}
<1>1. /\ scope \in Seq(F) /\ Closed(F) /\ host \in Hosts
      /\ depth = Cardinality(CallsOf(control))
      /\ signal \notin {"idle", "ended"} <=> control # <<>>
  BY BudgetFacts
<1>2. session = [scope |-> scope, host |-> host] /\ Len(session.scope) = 1
  BY DEF Sound, SessionInv
<1>3. Contexts(control, context)
  BY DEF Sound, StackInv
<1> QED
  BY <1>1, <1>2, <1>3, EmptyFacts

\* What the invariant says of the session.
LEMMA SessionFacts ==
  ASSUME NEW F, Sound(F)
  PROVE  /\ session \in [scope : Seq(F), host : Hosts] /\ Len(session.scope) = 1
         /\ session.scope \in Seq(F) /\ session.host \in Hosts /\ Closed(F)
         /\ policy \in {"General", "PureV2"} /\ cancelled \in BOOLEAN /\ left \in 0..MaxTop
         /\ used \in Nat /\ MaxTop \in Nat
         /\ Limited => used <= StepLimit
<1>1. session \in [scope : Seq(F), host : Hosts] /\ Closed(F)
  BY DEF Sound, Typed
<1>2. /\ policy \in {"General", "PureV2"} /\ cancelled \in BOOLEAN /\ left \in 0..MaxTop
      /\ used \in Nat
      /\ Limited => used <= StepLimit
  BY DEF Sound, BudgetInv, WithinLimits
<1>3. Len(session.scope) = 1
  BY DEF Sound, SessionInv
<1> QED
  BY <1>1, <1>2, <1>3, EvaluatorAssumption

\* The frame of a top-level statement.
LEMMA ScriptFrame ==
  ASSUME NEW F, NEW c, c = <<[kind |-> "script", inner |-> 1, left |-> 1]>>
  PROVE  /\ c \in Seq(Control(F)) /\ c # <<>> /\ Len(c) = 1
         /\ c[1].kind = "script" /\ c[1].inner = 1 /\ Last(c) = c[1]
         /\ CallsOf(c) = {} /\ Contexts(c, "script") /\ Stacked(c, 1)
<1> DEFINE frame == [kind |-> "script", inner |-> 1, left |-> 1]
<1>1. frame \in [kind : {"script", "block"}, inner : Depths, left : Nat]
      /\ frame.kind = "script" /\ frame.inner = 1
  BY DEF Depths
<1>2. frame \in Control(F)
  BY <1>1 DEF Control
<1>3. c = <<frame>>
  OBVIOUS
<1> HIDE DEF frame
<1>4. c \in Seq(Control(F)) /\ c # <<>> /\ Len(c) = 1 /\ c[1] = frame
  BY <1>2, <1>3
<1>5. Last(c) = c[1]
  BY <1>4 DEF Last
<1>6. CallsOf(c) = {}
  BY <1>1, <1>4 DEF CallsOf
<1>7. Contexts(c, "script")
  BY <1>6 DEF Contexts
<1>8. Stacked(c, 1)
  BY <1>1, <1>4 DEF Stacked
<1> QED
  BY <1>1, <1>4, <1>5, <1>6, <1>7, <1>8

\* `submit_parsed` begins a statement of the script.
LEMMA submit_statementStep ==
  ASSUME NEW F, Sound(F), submit_statement
  PROVE  IInv'
<1>1. /\ signal = "idle" /\ left > 0 /\ left' = left - 1 /\ signal' = "run"
      /\ control' = <<[kind |-> "script", inner |-> Len(scope), left |-> 1]>>
      /\ policy' = policy /\ session' = session /\ scope' = scope /\ host' = host /\ context' = context
      /\ used' = used /\ depth' = depth /\ cancelled' = cancelled
  BY DEF submit_statement, Idle, language, limits
<1>2. control = <<>>
  BY <1>1, BudgetFacts
<1>3. /\ scope \in Seq(F) /\ Closed(F) /\ Len(scope) = 1 /\ host \in Hosts
      /\ context = "script" /\ depth = 0
  BY <1>2, BetweenFacts
<1>4. control' = <<[kind |-> "script", inner |-> 1, left |-> 1]>>
  BY <1>1, <1>3
<1> DEFINE c == control'
<1>5. /\ c \in Seq(Control(F)) /\ c # <<>> /\ c[1].kind = "script" /\ c[1].inner = 1 /\ Last(c) = c[1]
      /\ CallsOf(c) = {} /\ Contexts(c, "script") /\ Stacked(c, 1)
  BY <1>4, ScriptFrame
<1>6. /\ session \in [scope : Seq(F), host : Hosts] /\ Len(session.scope) = 1
      /\ policy \in {"General", "PureV2"} /\ cancelled \in BOOLEAN /\ left \in 0..MaxTop
      /\ used \in Nat /\ MaxTop \in Nat
      /\ Limited => used <= StepLimit
  BY SessionFacts
<1>7. Typed(F)'
  BY <1>1, <1>3, <1>5, <1>6 DEF Typed
<1>8. StackInv'
  BY <1>1, <1>3, <1>5 DEF StackInv
<1>9. SignalInv'
  BY <1>1, <1>5 DEF SignalInv, Top, Loops, Transfers
<1>10. SessionInv'
  BY <1>1, <1>5, <1>6 DEF SessionInv
<1>11. BudgetInv'
  <2>1. depth' = Cardinality(CallsOf(control'))
    BY <1>1, <1>3, <1>5, FS_EmptySet
  <2>2. WithinLimits'
    BY <1>1, <1>3, <1>6, EvaluatorAssumption DEF WithinLimits, Limited
  <2>3. left' \in 0..MaxTop /\ signal' \in Signals
    BY <1>1, <1>6 DEF Signals
  <2> QED
    BY <1>1, <1>3, <1>6, <2>1, <2>2, <2>3 DEF BudgetInv
<1> QED
  BY <1>7, <1>8, <1>9, <1>10, <1>11 DEF Sound, IInv

\* A chain is launched in the background.
LEMMA backgroundStep ==
  ASSUME NEW F, Sound(F), background
  PROVE  IInv'
<1>1. /\ signal = "idle" /\ left > 0 /\ left' = left - 1
      /\ policy' = policy /\ control' = control /\ context' = context
      /\ used' = used /\ depth' = depth /\ cancelled' = cancelled
  BY DEF background, Idle, limits
<1>2. control = <<>>
  BY <1>1, BudgetFacts
<1>3. /\ scope \in Seq(F) /\ Closed(F) /\ Len(scope) = 1 /\ host \in Hosts
      /\ session = [scope |-> scope, host |-> host]
      /\ session.scope = scope /\ session.host = host
      /\ context = "script" /\ depth = 0
  BY <1>2, BetweenFacts
<1>4. /\ policy \in {"General", "PureV2"} /\ cancelled \in BOOLEAN /\ left \in 0..MaxTop
      /\ used \in Nat /\ MaxTop \in Nat
      /\ Limited => used <= StepLimit
  BY SessionFacts
<1>5. left' \in 0..MaxTop /\ (Limited' => used' <= StepLimit)
  BY <1>1, <1>4 DEF Limited
<1>6. CASE Owns(session.scope, [session.host EXCEPT !.status = "some"]) /\ signal' = signal
  <2> DEFINE h == [session.host EXCEPT !.status = "some"]
  <2>1. h \in Hosts
    <3>1. \A g \in Hosts : [g EXCEPT !.status = "some"] \in Hosts
      BY DEF Hosts, Statuses
    <3> QED
      BY <1>3, <3>1
  <2>2. scope' = scope /\ host' = h /\ session' = [scope |-> scope, host |-> h]
    BY <1>3, <1>6 DEF Owns
  <2> HIDE DEF h
  <2>3. session' = [scope |-> scope', host |-> host'] /\ host' \in Hosts /\ scope' = scope
    BY <2>1, <2>2
  <2>4. control' = <<>> /\ signal' \in {"idle", "ended"} /\ scope' \in Seq(F) /\ Len(scope') = 1
        /\ context' = "script" /\ depth' = 0 /\ used' \in Nat /\ cancelled' \in BOOLEAN
        /\ policy' \in {"General", "PureV2"}
    BY <1>1, <1>2, <1>3, <1>4, <1>6, <2>2
  <2> QED
    BY <1>3, <1>5, <2>3, <2>4, Outside
<1>7. CASE signal' = "ended" /\ UNCHANGED <<session, language>>
  <2>1. scope' = scope /\ host' = host /\ session' = session
    BY <1>7 DEF language
  <2>2. session' = [scope |-> scope', host |-> host']
    BY <1>3, <2>1
  <2>3. control' = <<>> /\ signal' \in {"idle", "ended"} /\ scope' \in Seq(F) /\ Len(scope') = 1
        /\ context' = "script" /\ depth' = 0 /\ used' \in Nat /\ cancelled' \in BOOLEAN
        /\ policy' \in {"General", "PureV2"} /\ host' \in Hosts
    BY <1>1, <1>2, <1>3, <1>4, <1>7, <2>1
  <2> QED
    BY <1>3, <1>5, <2>2, <2>3, Outside
<1> QED
  BY <1>6, <1>7 DEF background, Raise

\* The last frame that is left is the script's.
LEMMA ScriptFacts ==
  ASSUME NEW F, Sound(F), control # <<>>, Top.kind = "script"
  PROVE  /\ Len(scope) = 1 /\ CallsOf(control) = {} /\ context = "script" /\ depth = 0
<1>1. /\ control \in Seq(Control(F)) /\ Len(control) \in Nat \ {0} /\ Len(control) = 1
      /\ Len(scope) = 1
  <2>1. Below = <<>> /\ Top.inner = 1 /\ Top.inner = Len(scope)
    BY TopFacts
  <2> QED
    BY <2>1, TopFacts
<1>2. Last(control) = control[1]
  BY <1>1, StackFacts
<1>3. CallsOf(control) = {}
  BY <1>1, <1>2 DEF CallsOf, Top
<1>4. Contexts(control, context) /\ depth = Cardinality(CallsOf(control))
  BY DEF Sound, StackInv, BudgetInv
<1> QED
  BY <1>1, <1>3, <1>4, FS_EmptySet DEF Contexts

\* `submit_parsed` keeps or drops what a statement did.
LEMMA finish_statementStep ==
  ASSUME NEW F, Sound(F), finish_statement
  PROVE  IInv'
<1>1. /\ Unwinding("script") /\ control' = <<>> /\ policy' = policy /\ context' = context
      /\ used' = used /\ depth' = depth /\ cancelled' = cancelled /\ left' = left
      /\ signal' \in {"idle", "ended"} /\ (Keeps \/ Drops)
  BY DEF finish_statement, limits, Raise
<1>2. control # <<>> /\ Top.kind = "script" /\ scope \in Seq(F) /\ host \in Hosts
  BY <1>1, UnwindingFacts
<1>3. Len(scope) = 1 /\ context = "script" /\ depth = 0
  BY <1>2, ScriptFacts
<1>4. /\ session.scope \in Seq(F) /\ session.host \in Hosts /\ Closed(F) /\ Len(session.scope) = 1
      /\ policy \in {"General", "PureV2"} /\ cancelled \in BOOLEAN /\ left \in 0..MaxTop
      /\ used \in Nat
      /\ Limited => used <= StepLimit
  BY SessionFacts
<1>5. PICK s, h : /\ s \in Seq(F) /\ Len(s) = 1 /\ h \in Hosts
                  /\ scope' = s /\ host' = h /\ session' = [scope |-> s, host |-> h]
  BY <1>1, <1>2, <1>3, <1>4 DEF Keeps, Drops, Owns
<1>6. session' = [scope |-> scope', host |-> host']
  BY <1>5
<1>7. /\ scope' \in Seq(F) /\ Len(scope') = 1 /\ host' \in Hosts
      /\ context' = "script" /\ depth' = 0 /\ used' \in Nat /\ cancelled' \in BOOLEAN
      /\ policy' \in {"General", "PureV2"} /\ left' \in 0..MaxTop
  BY <1>1, <1>3, <1>4, <1>5
<1>8. Limited' => used' <= StepLimit
  BY <1>1, <1>4 DEF Limited
<1> QED
  BY <1>1, <1>4, <1>6, <1>7, <1>8, Outside

\* A submission has no statement left.
LEMMA submission_endsStep ==
  ASSUME NEW F, Sound(F), submission_ends
  PROVE  IInv'
<1>1. /\ signal = "idle" /\ signal' = "ended" /\ left' = left
      /\ policy' = policy /\ control' = control /\ context' = context /\ session' = session
      /\ used' = used /\ depth' = depth /\ cancelled' = cancelled /\ scope' = scope /\ host' = host
  BY DEF submission_ends, limits, language, Raise
<1>2. control = <<>>
  BY <1>1, BudgetFacts
<1>3. /\ scope \in Seq(F) /\ Closed(F) /\ Len(scope) = 1 /\ host \in Hosts
      /\ session = [scope |-> scope, host |-> host]
      /\ context = "script" /\ depth = 0
  BY <1>2, BetweenFacts
<1>4. /\ policy \in {"General", "PureV2"} /\ cancelled \in BOOLEAN /\ left \in 0..MaxTop
      /\ used \in Nat /\ MaxTop \in Nat
      /\ Limited => used <= StepLimit
  BY SessionFacts
<1>5. left' \in 0..MaxTop /\ (Limited' => used' <= StepLimit)
  BY <1>1, <1>4 DEF Limited
<1>6. session' = [scope |-> scope', host |-> host']
  BY <1>1, <1>3
<1>7. control' = <<>> /\ signal' \in {"idle", "ended"} /\ scope' \in Seq(F) /\ Len(scope') = 1
      /\ context' = "script" /\ depth' = 0 /\ used' \in Nat /\ cancelled' \in BOOLEAN
      /\ policy' \in {"General", "PureV2"} /\ host' \in Hosts
  BY <1>1, <1>2, <1>3, <1>4
<1> QED
  BY <1>3, <1>5, <1>6, <1>7, Outside

\* The next submission begins, with limits of its own.
LEMMA submitStep ==
  ASSUME NEW F, Sound(F), submit
  PROVE  IInv'
<1>1. /\ signal = "ended" /\ signal' = "idle" /\ left' = MaxTop
      /\ policy' = policy /\ control' = control /\ context' = context /\ session' = session
      /\ used' = 0 /\ depth' = 0 /\ cancelled' = FALSE /\ scope' = scope /\ host' = host
  BY DEF submit, language, Raise
<1>2. control = <<>>
  BY <1>1, BudgetFacts
<1>3. /\ scope \in Seq(F) /\ Closed(F) /\ Len(scope) = 1 /\ host \in Hosts
      /\ session = [scope |-> scope, host |-> host]
      /\ context = "script" /\ depth = 0
  BY <1>2, BetweenFacts
<1>4. /\ policy \in {"General", "PureV2"} /\ MaxTop \in Nat /\ StepLimit \in Nat
  BY SessionFacts, EvaluatorAssumption
<1>5. left' \in 0..MaxTop /\ (Limited' => used' <= StepLimit)
  BY <1>1, <1>4
<1>6. session' = [scope |-> scope', host |-> host']
  BY <1>1, <1>3
<1>7. control' = <<>> /\ signal' \in {"idle", "ended"} /\ scope' \in Seq(F) /\ Len(scope') = 1
      /\ context' = "script" /\ depth' = 0 /\ used' \in Nat /\ cancelled' \in BOOLEAN
      /\ policy' \in {"General", "PureV2"} /\ host' \in Hosts
  BY <1>1, <1>2, <1>3, <1>4
<1> QED
  BY <1>3, <1>5, <1>6, <1>7, Outside

\* Nothing but the token, or nothing at all.
LEMMA StutterStep ==
  ASSUME NEW F, Sound(F), cancelled' \in BOOLEAN,
         UNCHANGED <<policy, session, scope, host, control, context, used, depth, signal, left>>
  PROVE  IInv'
<1>1. /\ policy' = policy /\ session' = session /\ scope' = scope /\ host' = host
      /\ control' = control /\ context' = context /\ used' = used /\ depth' = depth
      /\ signal' = signal /\ left' = left
  OBVIOUS
<1>2. Typed(F)'
  BY <1>1 DEF Sound, Typed
<1>3. StackInv'
  BY <1>1 DEF Sound, StackInv
<1>4. SignalInv'
  BY <1>1 DEF Sound, SignalInv, Top
<1>5. SessionInv'
  BY <1>1 DEF Sound, SessionInv
<1>6. BudgetInv'
  BY <1>1 DEF Sound, BudgetInv, WithinLimits, Limited
<1> QED
  BY <1>2, <1>3, <1>4, <1>5, <1>6 DEF Sound, IInv

-----------------------------------------------------------------------------
(* The inductive invariant. *)

\* A session that is fresh, or has a variable and a function, satisfies the invariant.
LEMMA InitIInv == Init => IInv
<1> SUFFICES ASSUME Init PROVE IInv
  OBVIOUS
<1>1. /\ policy \in {"General", "PureV2"} /\ host = [entries |-> {}, status |-> "none"]
      /\ session = [scope |-> scope, host |-> host] /\ control = <<>> /\ context = "script"
      /\ used = 0 /\ depth = 0 /\ signal = "idle" /\ cancelled = FALSE /\ left = MaxTop
      /\ scope \in {<<EmptyFrame>>} \cup {Defined(n, f) : n \in Names, f \in Functions}
  BY DEF Init
<1>2. host \in Hosts
  BY <1>1 DEF Hosts, Statuses
<1>3. \E F : Closed(F) /\ scope \in Seq(F) /\ Len(scope) = 1
  <2>1. CASE scope = <<EmptyFrame>>
    <3> DEFINE F == {EmptyFrame}
    <3>1. Closed(F)
      BY EmptyFrameOf DEF Closed
    <3>2. scope \in Seq(F) /\ Len(scope) = 1
      BY <2>1
    <3> QED
      BY <3>1, <3>2
  <2>2. ASSUME NEW n \in Names, NEW f \in Functions, scope = Defined(n, f)
        PROVE  \E F : Closed(F) /\ scope \in Seq(F) /\ Len(scope) = 1
    <3> DEFINE datum == CHOOSE d \in Data : TRUE
               variable == Cell(TRUE, datum)
               empty == <<EmptyFrame>>
               function == Cell(FALSE, [captured |-> empty])
               frame == [m \in {n, f} |-> IF m = n THEN variable ELSE function]
               F == {EmptyFrame} \cup {frame}
    <3>1. scope = <<frame>>
      BY <2>2 DEF Defined
    <3>2. datum \in Data \cup {Caught}
      BY EvaluatorAssumption
    <3>3. n # f /\ f \notin Names
      BY EvaluatorAssumption
    <3>4. empty \in Seq({EmptyFrame})
      OBVIOUS
    <3> HIDE DEF datum, empty
    <3>5. CellOf(n, variable, {EmptyFrame})
      BY <3>2, DatumCell
    <3>6. CellOf(f, function, {EmptyFrame})
      <4>1. function.mutable = FALSE /\ function.value = [captured |-> empty]
            /\ function = Cell(function.mutable, function.value)
        BY CellFields, ZenonT(60)
      <4>2. function.value.captured = empty
        <5>1. [captured |-> empty].captured = empty
          OBVIOUS
        <5> QED
          BY <4>1, <5>1, Zenon
      <4> HIDE DEF function
      <4> QED
        BY <3>3, <3>4, <4>1, <4>2 DEF CellOf
    <3> HIDE DEF variable, function
    <3>7. DOMAIN frame = {n, f} /\ frame = [m \in DOMAIN frame |-> frame[m]]
          /\ frame[n] = variable /\ frame[f] = function
      BY <3>3
    <3> HIDE DEF frame
    <3>8. FrameOf(frame, {EmptyFrame})
      BY <3>5, <3>6, <3>7 DEF FrameOf
    <3>9. Closed({EmptyFrame})
      BY EmptyFrameOf DEF Closed
    <3>10. Closed(F)
      BY <3>8, <3>9, ClosedGrows
    <3>11. scope \in Seq(F) /\ Len(scope) = 1
      BY <3>1
    <3> QED
      BY <3>10, <3>11
  <2> QED
    BY <1>1, <2>1, <2>2
<1>4. PICK F : Closed(F) /\ scope \in Seq(F) /\ Len(scope) = 1
  BY <1>3
<1>5. Typed(F)
  <2>1. session \in [scope : Seq(F), host : Hosts]
    BY <1>1, <1>2, <1>4
  <2> QED
    BY <1>1, <1>4, <2>1, EmptySeq DEF Typed
<1>6. StackInv
  BY <1>1, EmptyFacts DEF StackInv
<1>7. SignalInv
  BY <1>1 DEF SignalInv
<1>8. SessionInv
  BY <1>1, <1>4 DEF SessionInv
<1>9. BudgetInv
  <2>1. depth = Cardinality(CallsOf(control))
    BY <1>1, EmptyFacts
  <2>2. WithinLimits
    BY <1>1, EvaluatorAssumption DEF WithinLimits
  <2>3. left \in 0..MaxTop /\ signal \in Signals
    BY <1>1, EvaluatorAssumption DEF Signals
  <2> QED
    <3>1. cancelled \in BOOLEAN
      BY <1>1
    <3>2. policy \in {"General", "PureV2"} /\ context \in Functions \cup {"script"} /\ used \in Nat
      BY <1>1
    <3> QED
      BY <1>2, <2>1, <2>2, <2>3, <3>1, <3>2 DEF BudgetInv
<1> QED
  BY <1>5, <1>6, <1>7, <1>8, <1>9 DEF Sound, IInv

\* Every step of the evaluator and of the session keeps the invariant.
LEMMA NextIInv == IInv /\ [Next]_vars => IInv'
<1> SUFFICES ASSUME IInv, [Next]_vars PROVE IInv'
  OBVIOUS
<1>1. PICK F : Sound(F)
  BY DEF IInv
<1>2. cancelled \in BOOLEAN
  BY <1>1, SessionFacts
<1>3. CASE Cancel
  BY <1>1, <1>3, StutterStep DEF Cancel, language, limits
<1>4. CASE submit
  BY <1>1, <1>4, submitStep
<1>5. CASE vars' = vars
  BY <1>1, <1>2, <1>5, StutterStep DEF vars
<1>6. CASE Step
  <2>1. CASE Exhausted
    BY <1>1, <2>1, ExhaustedStep
  <2>2. CASE Fails
    BY <1>1, <2>2, FailsStep
  <2>3. CASE chain
    BY <1>1, <2>3, chainStep
  <2>4. CASE transfer
    BY <1>1, <2>4, transferStep
  <2>5. CASE \E n \in Names : declaration(n)
    BY <1>1, <2>5, declarationStep
  <2>6. CASE \E n \in Names : assignment(n)
    BY <1>1, <2>6, assignmentStep
  <2>7. CASE \E e \in Entries : environment(e)
    BY <1>1, <2>7, environmentStep
  <2>8. CASE \E f \in Functions : function_definition(f)
    BY <1>1, <2>8, function_definitionStep
  <2>9. CASE \E f \in Functions, then \in Then : call(f, then)
    BY <1>1, <2>9, callStep
  <2>10. CASE branch
    BY <1>1, <2>10, branchStep
  <2>11. CASE loop
    BY <1>1, <2>11, loopStep
  <2>12. CASE try_statement
    BY <1>1, <2>12, try_statementStep
  <2>13. CASE EndBlock
    BY <1>1, <2>13, EndBlockStep
  <2>14. CASE while_head
    BY <1>1, <2>14, while_headStep
  <2>15. CASE for_head
    BY <1>1, <2>15, for_headStep
  <2>16. CASE block
    BY <1>1, <2>16, blockStep
  <2>17. CASE iteration
    BY <1>1, <2>17, iterationStep
  <2>18. CASE catch
    BY <1>1, <2>18, catchStep
  <2>19. CASE catch_binding
    BY <1>1, <2>19, catch_bindingStep
  <2>20. CASE pass_try
    BY <1>1, <2>20, pass_tryStep
  <2>21. CASE return
    BY <1>1, <2>21, returnStep
  <2>22. CASE submit_statement
    BY <1>1, <2>22, submit_statementStep
  <2>23. CASE background
    BY <1>1, <2>23, backgroundStep
  <2>24. CASE finish_statement
    BY <1>1, <2>24, finish_statementStep
  <2>25. CASE submission_ends
    BY <1>1, <2>25, submission_endsStep
  <2> QED
    BY <1>6, <2>1, <2>2, <2>3, <2>4, <2>5, <2>6, <2>7, <2>8, <2>9, <2>10, <2>11, <2>12, <2>13,
       <2>14, <2>15, <2>16, <2>17, <2>18, <2>19, <2>20, <2>21, <2>22, <2>23, <2>24, <2>25 DEF Step
<1> QED
  BY <1>3, <1>4, <1>5, <1>6 DEF Next

\* In every state there is a set of frames, closed under what functions capture, over which
\* scope, session and control stack are well formed: the frames fit one inside the other, each
\* call keeps its caller's context, and no budget is overdrawn.
THEOREM EvaluatorInvariant == Spec => []IInv
<1>1. Init => IInv
  BY InitIInv
<1>2. IInv /\ [Next]_vars => IInv'
  BY NextIInv
<1> QED
  BY <1>1, <1>2, PTL DEF Spec

-----------------------------------------------------------------------------
(* Its consequences. *)

FirstOf(S) == CHOOSE k \in S : \A j \in S : k <= j

\* The innermost call, and the context each call inside it kept.
LEMMA ContextsHold ==
  ASSUME NEW X, NEW c \in Seq(X), NEW current, Contexts(c, current), NEW i \in CallsOf(c),
         NEW within, within = {k \in CallsOf(c) : k > i}
  PROVE  /\ within = {} => current = c[i].callee
         /\ within # {} => c[FirstOf(within)].context = c[i].callee
<1>1. CallsOf(c) \subseteq Nat /\ within \subseteq Nat
  BY CallsFacts
<1>2. CASE within = {}
  <2>1. \A j \in CallsOf(c) : j <= i
    BY <1>1, <1>2
  <2> QED
    BY <1>2, <2>1 DEF Contexts
<1>3. CASE within # {}
  <2> DEFINE k == FirstOf(within)
  <2>1. k \in within /\ \A j \in within : k <= j
    BY <1>1, <1>3, LeastExists DEF FirstOf
  <2> HIDE DEF k
  <2>2. k \in CallsOf(c) /\ i < k /\ \A j \in CallsOf(c) : j <= i \/ k <= j
    BY <1>1, <2>1
  <2>3. c[k].context = c[i].callee
    BY <2>2 DEF Contexts
  <2> QED
    BY <1>3, <2>3 DEF k
<1> QED
  BY <1>2, <1>3

\* The invariant has the type invariant in it,
LEMMA SoundTypeOK ==
  ASSUME NEW F, Sound(F)
  PROVE  TypeOK
<1>1. /\ policy \in {"General", "PureV2"} /\ signal \in Signals /\ cancelled \in BOOLEAN
      /\ host \in Hosts /\ context \in Functions \cup {"script"}
      /\ used \in Nat /\ left \in 0..MaxTop
  BY DEF Sound, BudgetInv
<1>2. session.host \in Hosts /\ depth \in Nat /\ scope \in Seq(F) /\ Closed(F)
  BY SessionFacts, BudgetFacts
<1>3. ASSUME NEW i \in 1..Len(scope), NEW n \in DOMAIN scope[i]
      PROVE  scope[i][n].mutable \in BOOLEAN /\ (n \in Names => scope[i][n].value \in Data \cup {Caught})
  <2>1. scope[i] \in F
    BY <1>2, ElementOfSeq
  <2>2. CellOf(n, scope[i][n], F)
    BY <1>2, <2>1 DEF Closed, FrameOf
  <2> QED
    BY <2>2 DEF CellOf
<1> QED
  BY <1>1, <1>2, <1>3 DEF TypeOK

\* the fit of frames and scopes,
LEMMA SoundNested ==
  ASSUME NEW F, Sound(F)
  PROVE  Nested
<1>1. control \in Seq(Control(F)) /\ Len(control) \in Nat /\ Stacked(control, Len(scope))
  BY LenProperties DEF Sound, Typed, StackInv
<1>2. /\ \A i \in 2..Len(control) : Joined(control[i - 1], control[i])
      /\ control # <<>> => control[1].kind = "script"
  BY <1>1 DEF Stacked
<1>3. control # <<>> => Top.inner = Len(scope)
  BY TopFacts
<1>4. ASSUME NEW i \in 1..Len(control)
      PROVE  control[i].kind = "script" <=> i = 1
  <2>1. CASE i = 1
    <3>1. control # <<>>
      BY <1>1, <1>4, EmptySeq
    <3> QED
      BY <1>2, <2>1, <3>1
  <2>2. CASE i # 1
    <3>1. Joined(control[i - 1], control[i])
      BY <1>1, <1>2, <2>2
    <3> QED
      BY <2>2, <3>1 DEF Joined
  <2> QED
    BY <2>1, <2>2
<1>5. ASSUME NEW i \in 2..Len(control)
      PROVE  CASE control[i].kind = "call" -> Len(control[i].scope) = control[i - 1].inner
               [] control[i].kind = "try" -> /\ Len(control[i].scope) = control[i - 1].inner
                                             /\ control[i].inner = control[i - 1].inner + 1
               [] control[i].kind = "block" -> control[i].inner = control[i - 1].inner + 1
               [] control[i].kind = "catch" -> control[i].inner = control[i - 1].inner
               [] OTHER -> control[i].inner = control[i - 1].inner + (IF control[i].body THEN 1 ELSE 0)
  <2> DEFINE a == control[i - 1]
             b == control[i]
  <2>1. Joined(a, b)
    BY <1>2
  <2>2. b.kind \in {"script", "block", "try", "call", "catch"} \cup Loops
    <3>1. b \in Control(F)
      BY <1>1, ElementOfSeq
    <3> QED
      BY <3>1, ControlFacts
  <2> HIDE DEF a, b
  <2>3. b.kind # "script"
    BY <2>1 DEF Joined
  <2> SUFFICES
        CASE b.kind = "call" -> Len(b.scope) = a.inner
          [] b.kind = "try" -> Len(b.scope) = a.inner /\ b.inner = a.inner + 1
          [] b.kind = "block" -> b.inner = a.inner + 1
          [] b.kind = "catch" -> b.inner = a.inner
          [] OTHER -> b.inner = a.inner + (IF b.body THEN 1 ELSE 0)
    BY DEF a, b
  <2>4. CASE b.kind = "call"
    BY <2>1, <2>4 DEF Joined
  <2>5. CASE b.kind = "try"
    BY <2>1, <2>5 DEF Joined
  <2>6. CASE b.kind = "block"
    BY <2>1, <2>6 DEF Joined
  <2>7. CASE b.kind = "catch"
    BY <2>1, <2>7 DEF Joined
  <2>8. CASE b.kind \in Loops
    BY <2>1, <2>8 DEF Joined, Loops
  <2> QED
    BY <2>2, <2>3, <2>4, <2>5, <2>6, <2>7, <2>8
<1> QED
  BY <1>2, <1>3, <1>4, <1>5 DEF Nested

\* and whose source is current.
LEMMA SoundInContext ==
  ASSUME NEW F, Sound(F)
  PROVE  InContext
<1>1. Calls = CallsOf(control)
  BY DEF Calls, CallsOf
<1>2. control \in Seq(Control(F)) /\ Contexts(control, context) /\ depth = Cardinality(Calls)
  BY <1>1 DEF Sound, Typed, StackInv, BudgetInv
<1>3. ASSUME NEW i \in Calls
      PROVE  LET within == {k \in Calls : k > i}
             IN (IF within = {} THEN context
                 ELSE control[CHOOSE k \in within : \A j \in within : k <= j].context)
                = control[i].callee
  <2> DEFINE within == {k \in Calls : k > i}
  <2>1. within = {k \in CallsOf(control) : k > i}
    BY <1>1
  <2> HIDE DEF within
  <2>2. /\ within = {} => context = control[i].callee
        /\ within # {} => control[FirstOf(within)].context = control[i].callee
    <3>1. i \in CallsOf(control)
      BY <1>1
    <3> QED
      BY <1>2, <2>1, <3>1, ContextsHold
  <2> QED
    BY <2>2 DEF within, FirstOf
<1>4. Calls = {} => context = "script"
  BY <1>1, <1>2 DEF Contexts
<1> QED
  BY <1>2, <1>3, <1>4 DEF InContext

\* Whatever a program nests and however it is aborted, scopes and frames match (so that no `pop`
\* and no `leave_call` of eval.rs finds nothing to undo), the code that runs is the innermost
\* call's, nothing stays behind between two statements of `submit_parsed`, and the step and call
\* limits of a Flash 2 session (`ResourceBudget`) hold.
THEOREM EvaluatorCorrect == Spec => []EvaluatorConsistent
<1>1. IInv => EvaluatorConsistent
  <2> SUFFICES ASSUME NEW F, Sound(F) PROVE EvaluatorConsistent
    BY DEF IInv
  <2>1. TypeOK /\ Nested /\ InContext
    BY SoundTypeOK, SoundNested, SoundInContext
  <2>2. Between
    BY DEF Sound, SignalInv, Between
  <2>3. Committed
    BY BetweenFacts DEF Committed
  <2>4. WithinLimits
    BY DEF Sound, BudgetInv
  <2> QED
    BY <2>1, <2>2, <2>3, <2>4 DEF EvaluatorConsistent
<1> QED
  BY <1>1, EvaluatorInvariant, PTL

-----------------------------------------------------------------------------
(* Aborts. *)

\* After a cancellation, a refusal, an exit, a stop or a failed write no frame of eval.rs runs a
\* statement, a catch block or charges a step, until the statement of the script is over.
THEOREM AbortsPass == Spec => ControlPasses
<1>1. [Next]_vars => [(signal \in Fatal) => control' = <<>> \/ (signal' = signal /\ used' = used)]_vars
  <2> SUFFICES ASSUME [Next]_vars, signal \in Fatal, ~(vars' = vars)
               PROVE  control' = <<>> \/ (signal' = signal /\ used' = used)
    OBVIOUS
  <2>1. signal \notin {"run", "idle", "ended", "done", "error"} \cup Transfers
    BY DEF Fatal, Dropping, Transfers
  <2>2. CASE Cancel
    BY <2>2 DEF Cancel, limits
  <2>3. CASE submit
    BY <2>1, <2>3 DEF submit
  <2>4. CASE Step
    <3>1. CASE Exhausted \/ Fails \/ chain \/ transfer
      BY <2>1, <3>1 DEF Exhausted, Fails, chain, transfer, Begins
    <3>2. CASE \E n \in Names : declaration(n) \/ assignment(n)
      BY <2>1, <3>2 DEF declaration, assignment, Begins
    <3>3. CASE \E e \in Entries : environment(e)
      BY <2>1, <3>3 DEF environment, Begins
    <3>4. CASE \E f \in Functions : function_definition(f)
      BY <2>1, <3>4 DEF function_definition, Begins
    <3>5. CASE \E f \in Functions, then \in Then : call(f, then)
      BY <2>1, <3>5 DEF call, Begins
    <3>6. CASE branch \/ loop \/ try_statement \/ EndBlock
      BY <2>1, <3>6 DEF branch, loop, try_statement, EndBlock, Begins
    <3>7. CASE while_head \/ for_head \/ catch_binding
      BY <2>1, <3>7 DEF while_head, for_head, catch_binding, AtHead
    <3>8. CASE block \/ pass_try
      BY <2>1, <3>8 DEF block, pass_try, Leaves, Onward, limits
    <3>9. CASE iteration
      BY <2>1, <3>9 DEF iteration, Leaves, Transfers, limits
    <3>10. CASE catch
      BY <2>1, <3>10 DEF catch, Catches
    <3>11. CASE return
      BY <2>1, <3>11 DEF return, Transfers
    <3>12. CASE submit_statement \/ background \/ submission_ends
      BY <2>1, <3>12 DEF submit_statement, background, submission_ends, Idle
    <3>13. CASE finish_statement
      BY <3>13 DEF finish_statement
    <3> QED
      BY <2>4, <3>1, <3>2, <3>3, <3>4, <3>5, <3>6, <3>7, <3>8, <3>9, <3>10, <3>11, <3>12, <3>13 DEF Step
  <2> QED
    BY <2>2, <2>3, <2>4 DEF Next
<1> QED
  BY <1>1, PTL DEF Spec, ControlPasses

-----------------------------------------------------------------------------
(* The open attempts. *)

AttemptsOf(c)  == {i \in 1..Len(c) : c[i].kind = "try"}
UpTo(A, i)     == {j \in A : j <= i}
RankedOf(A, k) == {i \in A : Cardinality(UpTo(A, i)) = k}
SomeOf(S)      == CHOOSE i \in S : TRUE
StateOf(frame) == State(frame.scope, frame.host)
SavedOf(c, se) == [k \in 1..(Cardinality(AttemptsOf(c)) + 1) |->
                     IF k = 1 THEN se ELSE StateOf(c[SomeOf(RankedOf(AttemptsOf(c), k - 1))])]

\* A finite set of numbers has a greatest one.
LEMMA GreatestExists ==
  ASSUME NEW n \in Nat, NEW A, A \subseteq 1..n, A # {}
  PROVE  \E x \in A : \A y \in A : y <= x
<1> DEFINE T == {n - i : i \in A}
<1>1. T \subseteq Nat /\ T # {}
  <2>1. \A i \in A : n - i \in Nat
    <3>1. \A i \in A : i \in 1..n
      OBVIOUS
    <3> QED
      BY <3>1
  <2> QED
    BY <2>1
<1>2. PICK m \in T : \A t \in T : m <= t
  BY <1>1, LeastExists
<1>3. PICK x \in A : m = n - x
  BY <1>2
<1>4. ASSUME NEW y \in A PROVE y <= x
  <2>1. n - y \in T
    OBVIOUS
  <2>2. m <= n - y
    BY <1>2, <2>1
  <2> QED
    BY <1>3, <2>2
<1> QED
  BY <1>4

\* Its members are counted from 1 to their number.
LEMMA RankExists ==
  ASSUME NEW n \in Nat, NEW A, A \subseteq 1..n, NEW k \in 1..Cardinality(A), Cardinality(A) \in Nat
  PROVE  RankedOf(A, k) # {}
<1>0. \A i \in A : i \in Nat /\ i \in 1..n
  <2>1. \A i \in A : i \in 1..n
    OBVIOUS
  <2> QED
    BY <2>1
<1>1. IsFiniteSet(A)
  <2>1. IsFiniteSet(1..n)
    BY FS_Interval
  <2> QED
    BY <2>1, FS_Subset
<1>2. ASSUME NEW S, S \subseteq A PROVE IsFiniteSet(S) /\ Cardinality(S) \in Nat
  <2>1. IsFiniteSet(S)
    BY <1>1, <1>2, FS_Subset
  <2> QED
    BY <2>1, FS_CardinalityType
<1> DEFINE T == {i \in A : k <= Cardinality(UpTo(A, i))}
<1>3. T # {}
  <2>1. A # {}
    BY FS_EmptySet
  <2>2. PICK x \in A : \A y \in A : y <= x
    BY <2>1, GreatestExists
  <2>3. UpTo(A, x) = A
    BY <2>2 DEF UpTo
  <2> QED
    BY <2>2, <2>3
<1>4. PICK i \in T : \A t \in T : i <= t
  <2>1. T \subseteq Nat
    BY <1>0
  <2> HIDE DEF T
  <2> QED
    BY <1>3, <2>1, LeastExists
<1> DEFINE S == {j \in A : j < i}
<1>a. i \in A /\ k <= Cardinality(UpTo(A, i)) /\ \A t \in A : k <= Cardinality(UpTo(A, t)) => i <= t
  BY <1>4
<1> HIDE DEF T
<1>5. S \subseteq A /\ UpTo(A, i) = S \cup {i} /\ i \notin S /\ S \subseteq 1..n
  <2>1. S \subseteq A /\ S \subseteq 1..n
    BY <1>0
  <2>2. i \notin S
    BY <1>0, <1>a
  <2>3. \A j \in A : j <= i <=> (j < i \/ j = i)
    BY <1>0, <1>a
  <2>4. UpTo(A, i) = S \cup {i}
    BY <1>a, <2>3 DEF UpTo
  <2> QED
    BY <2>1, <2>2, <2>4
<1>6. Cardinality(UpTo(A, i)) = Cardinality(S) + 1 /\ Cardinality(S) \in Nat
  BY <1>2, <1>5, FS_AddElement
<1>7. Cardinality(S) < k
  <2> SUFFICES ASSUME ~(Cardinality(S) < k) PROVE FALSE
    OBVIOUS
  <2>1. S # {}
    BY FS_EmptySet
  <2> HIDE DEF S
  <2>2. PICK x \in S : \A y \in S : y <= x
    BY <1>5, <2>1, GreatestExists
  <2>3. x \in A /\ x < i
    BY <2>2 DEF S
  <2>4. \A j \in A : j <= x <=> j \in S
    BY <1>0, <1>a, <2>2, <2>3 DEF S
  <2>5. UpTo(A, x) = S
    BY <2>4, <1>5 DEF UpTo
  <2>6. k <= Cardinality(UpTo(A, x))
    BY <1>6, <2>5
  <2>7. i <= x
    BY <1>a, <2>3, <2>6
  <2> QED
    BY <1>0, <1>a, <2>3, <2>7
<1>8. Cardinality(UpTo(A, i)) = k /\ i \in A
  BY <1>a, <1>6, <1>7
<1> QED
  BY <1>8 DEF RankedOf

\* The states of the language.
States(F) == [scope : Seq(F), host : Hosts]

\* The `try` frames of a stack can be counted, and each has a rank.
LEMMA AttemptsFacts ==
  ASSUME NEW X, NEW c \in Seq(X)
  PROVE  /\ Len(c) \in Nat /\ AttemptsOf(c) \subseteq 1..Len(c) /\ IsFiniteSet(AttemptsOf(c))
         /\ Cardinality(AttemptsOf(c)) \in Nat
         /\ \A k \in 1..Cardinality(AttemptsOf(c)) :
              SomeOf(RankedOf(AttemptsOf(c), k)) \in RankedOf(AttemptsOf(c), k)
<1> DEFINE A == AttemptsOf(c)
<1>1. Len(c) \in Nat /\ A \subseteq 1..Len(c)
  BY LenProperties DEF AttemptsOf
<1> HIDE DEF A
<1>2. IsFiniteSet(A)
  <2>1. IsFiniteSet(1..Len(c))
    BY <1>1, FS_Interval
  <2> QED
    BY <1>1, <2>1, FS_Subset
<1>3. Cardinality(A) \in Nat
  BY <1>2, FS_CardinalityType
<1>4. ASSUME NEW k \in 1..Cardinality(A) PROVE SomeOf(RankedOf(A, k)) \in RankedOf(A, k)
  <2>1. RankedOf(A, k) # {}
    BY <1>1, <1>3, RankExists
  <2> QED
    BY <2>1 DEF SomeOf
<1> QED
  BY <1>1, <1>2, <1>3, <1>4 DEF A

\* The saved states: the session's, then that of each `try` in progress.
LEMMA SavedFacts ==
  ASSUME NEW F, NEW c \in Seq(Control(F)), NEW se \in States(F)
  PROVE  /\ SavedOf(c, se) \in Seq(States(F)) /\ SavedOf(c, se) # <<>>
         /\ Len(SavedOf(c, se)) = Cardinality(AttemptsOf(c)) + 1
         /\ SavedOf(c, se)[1] = se
         /\ \A k \in 1..Cardinality(AttemptsOf(c)) :
              SavedOf(c, se)[k + 1] = StateOf(c[SomeOf(RankedOf(AttemptsOf(c), k))])
<1> DEFINE A == AttemptsOf(c)
           m == Cardinality(A)
           q == SavedOf(c, se)
           At(k) == StateOf(c[SomeOf(RankedOf(A, k))])
<1>1. /\ A \subseteq 1..Len(c) /\ m \in Nat
      /\ \A k \in 1..m : SomeOf(RankedOf(A, k)) \in RankedOf(A, k)
  BY AttemptsFacts
<1>2. q = [k \in 1..(m + 1) |-> IF k = 1 THEN se ELSE At(k - 1)]
  BY DEF SavedOf
<1>3. ASSUME NEW k \in 1..m PROVE At(k) \in States(F)
  <2> DEFINE i == SomeOf(RankedOf(A, k))
  <2>1. i \in A
    BY <1>1 DEF RankedOf
  <2> HIDE DEF i
  <2>2. i \in 1..Len(c) /\ c[i].kind = "try"
    BY <1>1, <2>1 DEF AttemptsOf
  <2>3. c[i] \in Control(F)
    BY <2>2, ElementOfSeq
  <2>4. c[i].scope \in Seq(F) /\ c[i].host \in Hosts
    BY <2>2, <2>3, ControlFacts
  <2>5. StateOf(c[i]) \in States(F)
    BY <2>4 DEF StateOf, State, States
  <2> QED
    BY <2>5 DEF i
<1> HIDE DEF At, m, q
<1>4. \A k \in 1..(m + 1) : (IF k = 1 THEN se ELSE At(k - 1)) \in States(F)
  <2>1. \A k \in 1..(m + 1) : k # 1 => k - 1 \in 1..m
    BY <1>1
  <2> QED
    BY <1>3, <2>1
<1>5. q \in Seq(States(F)) /\ Len(q) = m + 1
  <2>1. q \in [1..(m + 1) -> States(F)]
    BY <1>2, <1>4
  <2>2. m + 1 \in Nat
    BY <1>1
  <2>3. q \in Seq(States(F))
    BY <2>1, <2>2, SeqDef
  <2>4. DOMAIN q = 1..Len(q) /\ DOMAIN q = 1..(m + 1) /\ Len(q) \in Nat
    BY <2>1, <2>3, LenProperties
  <2> QED
    BY <2>2, <2>3, <2>4
<1>6. q[1] = se
  BY <1>1, <1>2
<1>7. \A k \in 1..m : q[k + 1] = At(k)
  <2> TAKE k \in 1..m
  <2>1. k + 1 \in 1..(m + 1) /\ k + 1 # 1 /\ (k + 1) - 1 = k
    BY <1>1
  <2> QED
    BY <1>2, <2>1
<1>8. q # <<>>
  BY <1>1, <1>5, EmptySeq
<1> QED
  BY <1>5, <1>6, <1>7, <1>8 DEF At, m, q

\* A frame is entered: the state of a `try` is saved last.
LEMMA SavedPush ==
  ASSUME NEW F, NEW b \in Seq(Control(F)), NEW se \in States(F),
         NEW frame \in Control(F), NEW c, Pushes(c, b, frame)
  PROVE  /\ frame.kind # "try" => SavedOf(c, se) = SavedOf(b, se)
         /\ frame.kind = "try" => Pushes(SavedOf(c, se), SavedOf(b, se), StateOf(frame))
<1> DEFINE n == Len(b) + 1
           A == AttemptsOf(b)
           m == Cardinality(A)
<1>1. /\ Len(b) \in Nat /\ A \subseteq 1..Len(b) /\ IsFiniteSet(A) /\ m \in Nat
      /\ \A k \in 1..m : SomeOf(RankedOf(A, k)) \in RankedOf(A, k)
  BY AttemptsFacts
<1>2. /\ c \in Seq(Control(F)) /\ Len(c) = n /\ c[n] = frame /\ \A i \in 1..Len(b) : c[i] = b[i]
  BY PushFacts
<1>3. \A i \in A : i \in Nat /\ i < n /\ c[i] = b[i]
  BY <1>1, <1>2
<1>4. CASE frame.kind # "try"
  <2>1. AttemptsOf(c) = A
    BY <1>1, <1>2, <1>4 DEF AttemptsOf
  <2>2. SavedOf(c, se) \in Seq(States(F)) /\ Len(SavedOf(c, se)) = m + 1 /\ SavedOf(c, se)[1] = se
        /\ \A k \in 1..m : SavedOf(c, se)[k + 1] = StateOf(c[SomeOf(RankedOf(A, k))])
    <3>1. c \in Seq(Control(F))
      BY <1>2
    <3> HIDE DEF n, A, m
    <3>2. /\ SavedOf(c, se) \in Seq(States(F)) /\ Len(SavedOf(c, se)) = Cardinality(AttemptsOf(c)) + 1
          /\ SavedOf(c, se)[1] = se
          /\ \A k \in 1..Cardinality(AttemptsOf(c)) :
               SavedOf(c, se)[k + 1] = StateOf(c[SomeOf(RankedOf(AttemptsOf(c), k))])
      BY <3>1, SavedFacts
    <3>3. Cardinality(AttemptsOf(c)) = m
      BY <2>1 DEF m
    <3> QED
      BY <2>1, <3>2, <3>3, Zenon
  <2>3. SavedOf(b, se) \in Seq(States(F)) /\ Len(SavedOf(b, se)) = m + 1 /\ SavedOf(b, se)[1] = se
        /\ \A k \in 1..m : SavedOf(b, se)[k + 1] = StateOf(b[SomeOf(RankedOf(A, k))])
    BY SavedFacts
  <2>4. \A k \in 1..m : SomeOf(RankedOf(A, k)) \in A
    BY <1>1 DEF RankedOf
  <2>5. \A k \in 1..m : SavedOf(c, se)[k + 1] = SavedOf(b, se)[k + 1]
    BY <1>3, <2>2, <2>3, <2>4
  <2>6. ASSUME NEW j \in 1..(m + 1) PROVE SavedOf(c, se)[j] = SavedOf(b, se)[j]
    <3>1. CASE j = 1
      BY <2>2, <2>3, <3>1
    <3>2. CASE j # 1
      <4>1. j - 1 \in 1..m /\ (j - 1) + 1 = j
        BY <1>1, <3>2
      <4> QED
        BY <2>5, <4>1
    <3> QED
      BY <3>1, <3>2
  <2>7. SavedOf(c, se) = SavedOf(b, se)
    BY <2>2, <2>3, <2>6, SeqEqual
  <2> QED
    BY <1>4, <2>7
<1>5. CASE frame.kind = "try"
  <2>1. AttemptsOf(c) = A \cup {n} /\ n \notin A /\ n \in Nat
    BY <1>1, <1>2, <1>3, <1>5 DEF AttemptsOf
  <2>2. Cardinality(A \cup {n}) = m + 1
    BY <1>1, <2>1, FS_AddElement
  <2> DEFINE B == A \cup {n}
  <2>3. \A i \in A : UpTo(B, i) = UpTo(A, i) /\ Cardinality(UpTo(A, i)) \in Nat /\ Cardinality(UpTo(A, i)) <= m
    <3> TAKE i \in A
    <3>1. UpTo(B, i) = UpTo(A, i) /\ UpTo(A, i) \subseteq A
      BY <1>3, <2>1 DEF UpTo
    <3>2. IsFiniteSet(UpTo(A, i)) /\ Cardinality(UpTo(A, i)) <= m
      BY <1>1, <3>1, FS_Subset
    <3> QED
      BY <3>1, <3>2, FS_CardinalityType
  <2>4. UpTo(B, n) = B
    BY <1>1, <1>3, <2>1 DEF UpTo
  <2>a. Cardinality(UpTo(B, n)) = m + 1 /\ m \in Nat
    BY <1>1, <2>2, <2>4
  <2>b. \A i \in A : Cardinality(UpTo(B, i)) \in Nat /\ Cardinality(UpTo(B, i)) <= m
    BY <2>3
  <2> HIDE DEF A, m, n
  <2>5. \A k \in 1..m : RankedOf(B, k) = RankedOf(A, k)
    <3> TAKE k \in 1..m
    <3>1. Cardinality(UpTo(B, n)) # k
      BY <2>a
    <3> QED
      BY <2>3, <3>1 DEF RankedOf
  <2>6. RankedOf(B, m + 1) = {n}
    <3>1. \A i \in A : Cardinality(UpTo(B, i)) # m + 1
      <4>1. \A x, y \in Nat : x <= y => x # y + 1
        OBVIOUS
      <4> HIDE DEF B
      <4> QED
        BY <2>a, <2>b, <4>1, Zenon
    <3> QED
      BY <2>a, <3>1 DEF RankedOf
  <2>7. SomeOf({n}) = n
    BY DEF SomeOf
  <2> DEFINE p == SavedOf(b, se)
             q == SavedOf(c, se)
  <2>8. /\ q \in Seq(States(F)) /\ Len(q) = m + 2 /\ q[1] = se
        /\ \A k \in 1..(m + 1) : q[k + 1] = StateOf(c[SomeOf(RankedOf(B, k))])
    <3>1. /\ q \in Seq(States(F)) /\ Len(q) = Cardinality(AttemptsOf(c)) + 1 /\ q[1] = se
          /\ \A k \in 1..Cardinality(AttemptsOf(c)) :
               q[k + 1] = StateOf(c[SomeOf(RankedOf(AttemptsOf(c), k))])
      BY <1>2, SavedFacts, ZenonT(60)
    <3>2. AttemptsOf(c) = B /\ Cardinality(AttemptsOf(c)) = m + 1 /\ (m + 1) + 1 = m + 2
      BY <2>1, <2>2, <2>a
    <3> HIDE DEF B, q
    <3>3. q \in Seq(States(F)) /\ Len(q) = m + 2 /\ q[1] = se
      BY <3>1, <3>2, Zenon
    <3>4. \A k \in 1..(m + 1) : q[k + 1] = StateOf(c[SomeOf(RankedOf(B, k))])
      BY <3>1, <3>2, Zenon
    <3> QED
      BY <3>3, <3>4
  <2>9. /\ p \in Seq(States(F)) /\ Len(p) = m + 1 /\ p[1] = se
        /\ \A k \in 1..m : p[k + 1] = StateOf(b[SomeOf(RankedOf(A, k))])
    BY SavedFacts DEF A, m
  <2>10. \A k \in 1..m : SomeOf(RankedOf(A, k)) \in A
    BY <1>1 DEF RankedOf
  <2> HIDE DEF p, q, B
  <2>11. \A k \in 1..m : q[k + 1] = p[k + 1]
    <3> TAKE k \in 1..m
    <3>1. k \in 1..(m + 1)
      BY <1>1
    <3>2. q[k + 1] = StateOf(c[SomeOf(RankedOf(A, k))])
      BY <2>5, <2>8, <3>1
    <3> QED
      BY <1>3, <2>9, <2>10, <3>2
  <2>12. q[m + 2] = StateOf(frame)
    <3>1. m + 1 \in 1..(m + 1) /\ (m + 1) + 1 = m + 2
      BY <1>1
    <3>2. q[(m + 1) + 1] = StateOf(c[n])
      BY <2>6, <2>7, <2>8, <3>1
    <3> QED
      BY <1>2, <3>1, <3>2
  <2>13. StateOf(frame) \in States(F)
    BY <1>5, ControlFacts DEF StateOf, State, States
  <2> DEFINE r == Append(p, StateOf(frame))
  <2>14. /\ r \in Seq(States(F)) /\ Len(r) = m + 2 /\ r[m + 2] = StateOf(frame)
         /\ \A i \in 1..(m + 1) : r[i] = p[i]
    <3>1. /\ r \in Seq(States(F)) /\ Len(r) = Len(p) + 1 /\ r[Len(p) + 1] = StateOf(frame)
          /\ \A i \in 1..Len(p) : r[i] = p[i]
      BY <2>9, <2>13, AppendProperties
    <3>2. Len(p) = m + 1 /\ Len(p) + 1 = m + 2
      BY <1>1, <2>9
    <3> HIDE DEF r
    <3> QED
      BY <3>1, <3>2
  <2> HIDE DEF r
  <2>15. ASSUME NEW j \in 1..(m + 2) PROVE q[j] = r[j]
    <3>1. CASE j = 1
      BY <1>1, <2>8, <2>9, <2>14, <3>1
    <3>2. CASE j = m + 2
      BY <2>12, <2>14, <3>2
    <3>3. CASE j # 1 /\ j # m + 2
      <4>1. j - 1 \in 1..m /\ (j - 1) + 1 = j /\ j \in 1..(m + 1)
        BY <1>1, <3>3
      <4> QED
        BY <2>11, <2>14, <4>1
    <3> QED
      BY <3>1, <3>2, <3>3
  <2>16. q = r
    BY <2>8, <2>14, <2>15, SeqEqual
  <2> QED
    BY <1>5, <2>16 DEF Pushes, q, r, p
<1> QED
  BY <1>4, <1>5

-----------------------------------------------------------------------------
(* The layers of the language state. *)

LayersOf(c, sig, se, s, h) ==
  IF c = <<>> \/ sig \in Dropping THEN <<se>>
  ELSE IF sig = "exit" THEN <<se, State(s, h)>>
  ELSE IF sig = "error" THEN Append(SavedOf(c, se), Last(SavedOf(c, se)))
  ELSE Append(SavedOf(c, se), State(s, h))

LayersAre == Layers = LayersOf(control, signal, session, scope, host)

\* The layers are a function of the state that can be primed,
LEMMA LayersNow == LayersAre
<1>1. Attempts = AttemptsOf(control)
  BY DEF Attempts, AttemptsOf
<1>2. \A k : Ranked(k) = RankedOf(AttemptsOf(control), k)
  BY <1>1 DEF Ranked, RankedOf, UpTo
<1>3. \A k : Attempt(k) = control[SomeOf(RankedOf(AttemptsOf(control), k))]
  BY <1>2 DEF Attempt, SomeOf
<1>4. Saved = SavedOf(control, session)
  BY <1>1, <1>3 DEF Saved, SavedOf, StateOf
<1>5. CASE control = <<>> \/ signal \in Dropping
  BY <1>5 DEF Layers, LayersOf, LayersAre
<1>6. CASE ~(control = <<>> \/ signal \in Dropping) /\ signal = "exit"
  BY <1>6 DEF Layers, LayersOf, LayersAre
<1>7. CASE ~(control = <<>> \/ signal \in Dropping) /\ signal = "error"
  BY <1>4, <1>7 DEF Layers, LayersOf, LayersAre
<1>8. CASE ~(control = <<>> \/ signal \in Dropping) /\ signal # "exit" /\ signal # "error"
  BY <1>4, <1>8 DEF Layers, LayersOf, LayersAre
<1> QED
  BY <1>5, <1>6, <1>7, <1>8 DEF LayersAre

\* so the next layers are that function of the next state.
LEMMA LayersNext == Layers' = LayersOf(control', signal', session', scope', host')
<1>1. LayersAre'
  BY LayersNow, PTL
<1> QED
  BY <1>1 DEF LayersAre

\* How many layers there are, and what the last one and those before it are.
Layered(F, c, sig, se, s, h, L) ==
  /\ se \in States(F) /\ s \in Seq(F) /\ h \in Hosts /\ c \in Seq(Control(F))
  /\ L \in Seq(States(F)) /\ Len(L) \in Nat /\ L[1] = se /\ State(s, h) \in States(F)
  /\ SavedOf(c, se) \in Seq(States(F)) /\ SavedOf(c, se) # <<>>
  /\ c = <<>> \/ sig \in Dropping => Len(L) = 1
  /\ c # <<>> /\ sig \notin Dropping => Len(L) > 1
  /\ c # <<>> /\ sig = "exit" => Len(L) = 2
  /\ c # <<>> /\ sig = "error" => Pushes(L, SavedOf(c, se), Last(SavedOf(c, se)))
  /\ c # <<>> /\ sig \notin Fatal \cup {"error"} => Pushes(L, SavedOf(c, se), State(s, h))

\* The layers, signal by signal.
LEMMA LayersFacts ==
  ASSUME NEW F, NEW c \in Seq(Control(F)), NEW sig, NEW se \in States(F),
         NEW s \in Seq(F), NEW h \in Hosts, NEW L, L = LayersOf(c, sig, se, s, h)
  PROVE  Layered(F, c, sig, se, s, h, L)
<1> DEFINE w == State(s, h)
           p == SavedOf(c, se)
<1>1. w \in States(F)
  BY DEF State, States
<1>2. p \in Seq(States(F)) /\ p # <<>> /\ p[1] = se
  BY SavedFacts
<1>3. Len(p) \in Nat \ {0} /\ Last(p) \in States(F)
  BY <1>2, StackFacts
<1> HIDE DEF w, p
<1>4. CASE c = <<>> \/ sig \in Dropping
  <2>1. L = <<se>>
    BY <1>4 DEF LayersOf
  <2>2. L \in Seq(States(F)) /\ Len(L) = 1 /\ L[1] = se
    BY <2>1
  <2>3. c # <<>> => sig \in Dropping /\ sig \in Fatal /\ sig # "exit" /\ sig # "error"
    BY <1>4 DEF Dropping, Fatal
  <2> QED
    BY <1>1, <1>2, <1>4, <2>2, <2>3 DEF Layered, w, p
<1>5. CASE ~(c = <<>> \/ sig \in Dropping) /\ sig = "exit"
  <2>1. L = <<se, w>>
    BY <1>5 DEF LayersOf, w
  <2>2. L \in Seq(States(F)) /\ Len(L) = 2 /\ L[1] = se
    BY <1>1, <2>1
  <2> QED
    <3>1. sig \in Fatal /\ sig # "error"
      BY <1>5 DEF Fatal
    <3>2. 2 \in Nat /\ 2 > 1
      OBVIOUS
    <3>3. Len(L) \in Nat /\ Len(L) > 1
      BY <2>2, <3>2
    <3> QED
      BY <1>1, <1>2, <1>5, <2>2, <3>1, <3>3, Zenon DEF Layered, w, p
<1>6. ASSUME NEW last \in States(F), Pushes(L, p, last)
      PROVE  L \in Seq(States(F)) /\ Len(L) \in Nat /\ Len(L) > 1 /\ L[1] = se
  <2>1. L \in Seq(States(F)) /\ Len(L) = Len(p) + 1 /\ \A i \in 1..Len(p) : L[i] = p[i]
    BY <1>2, <1>6, PushFacts
  <2> QED
    BY <1>2, <1>3, <2>1
<1>7. CASE ~(c = <<>> \/ sig \in Dropping) /\ sig = "error"
  <2>1. Pushes(L, p, Last(p))
    BY <1>7 DEF LayersOf, p, Pushes
  <2>2. L \in Seq(States(F)) /\ Len(L) \in Nat /\ Len(L) > 1 /\ L[1] = se
    BY <1>3, <1>6, <2>1
  <2> QED
    BY <1>1, <1>2, <1>7, <2>1, <2>2 DEF Layered, w, p
<1>8. CASE ~(c = <<>> \/ sig \in Dropping) /\ sig # "exit" /\ sig # "error"
  <2>1. Pushes(L, p, w)
    BY <1>8 DEF LayersOf, p, w, Pushes
  <2>2. L \in Seq(States(F)) /\ Len(L) \in Nat /\ Len(L) > 1 /\ L[1] = se
    BY <1>1, <1>6, <2>1
  <2> QED
    BY <1>1, <1>2, <1>8, <2>1, <2>2 DEF Layered, w, p
<1> QED
  BY <1>4, <1>5, <1>7, <1>8

\* Sequences are told apart by their last element and those before it.
LEMMA SamePush ==
  ASSUME NEW p, NEW w, NEW L, NEW M, Pushes(L, p, w), Pushes(M, p, w)
  PROVE  L = M
BY DEF Pushes

\* Sequences of one and the same element are equal.
LEMMA SameOne ==
  ASSUME NEW X, NEW L \in Seq(X), NEW M \in Seq(X), Len(L) = 1, Len(M) = 1, L[1] = M[1]
  PROVE  L = M
<1>1. Len(L) = Len(M) /\ \A i \in 1..Len(L) : L[i] = M[i]
  OBVIOUS
<1> QED
  BY <1>1, SeqEqual

\* Both states of a step over one set of frames.
LEMMA BothSound ==
  ASSUME NEW F, Sound(F), NEW G, Sound(G)'
  PROVE  Sound(F \cup G) /\ Sound(F \cup G)'
<1> DEFINE H == F \cup G
<1>1. Closed(F) /\ Closed(G)
  BY DEF Sound, Typed
<1>2. F \subseteq H /\ G \subseteq H
  OBVIOUS
<1> HIDE DEF H
<1>3. Closed(H)
  <2>1. \A frame \in H : frame \in F \/ frame \in G
    BY DEF H
  <2>2. \A frame \in H : FrameOf(frame, H)
    BY <1>1, <1>2, <2>1, FramesGrow DEF Closed
  <2> QED
    BY <2>2 DEF Closed
<1>4. /\ Seq(F) \subseteq Seq(H) /\ Seq(Control(F)) \subseteq Seq(Control(H))
      /\ Seq(G) \subseteq Seq(H) /\ Seq(Control(G)) \subseteq Seq(Control(H))
  BY <1>2, FramesGrow
<1>5. Typed(H)
  <2>1. scope \in Seq(F) /\ session \in [scope : Seq(F), host : Hosts] /\ control \in Seq(Control(F))
    BY DEF Sound, Typed
  <2> QED
    BY <1>3, <1>4, <2>1 DEF Typed
<1>6. Typed(H)'
  <2>1. scope' \in Seq(G) /\ session' \in [scope : Seq(G), host : Hosts] /\ control' \in Seq(Control(G))
    BY DEF Sound, Typed
  <2> QED
    BY <1>3, <1>4, <2>1 DEF Typed
<1>7. Sound(H)
  BY <1>5 DEF Sound
<1>8. Sound(H)'
  BY <1>6 DEF Sound
<1> QED
  BY <1>7, <1>8 DEF H

\* The layers before and after a step.
LEMMA BeforeFacts ==
  ASSUME NEW F, Sound(F)
  PROVE  Layered(F, control, signal, session, scope, host, Layers)
<1>1. session \in States(F) /\ scope \in Seq(F) /\ host \in Hosts /\ control \in Seq(Control(F))
  BY DEF Sound, Typed, BudgetInv, States
<1> QED
  BY <1>1, LayersNow, LayersFacts, Zenon DEF LayersAre

\* The same, after a step.
LEMMA AfterFacts ==
  ASSUME NEW F, Sound(F)'
  PROVE  Layered(F, control', signal', session', scope', host', Layers')
<1>1. session' \in States(F) /\ scope' \in Seq(F) /\ host' \in Hosts /\ control' \in Seq(Control(F))
  BY DEF Sound, Typed, BudgetInv, States
<1> QED
  BY <1>1, LayersNext, LayersFacts, Zenon

-----------------------------------------------------------------------------
(* Every step is one of the abstract specification, or none. *)

Transacts == [Transactions!Next]_(Transactions!vars)

\* A step that changes no layer and no failure stutters.
LEMMA StepIsNone ==
  ASSUME Layers' = Layers, signal' = "error" <=> signal = "error"
  PROVE  Transacts
BY DEF Transacts, Transactions!vars

\* Both modules take the front of a sequence in the same way.
LEMMA FrontIsFront == \A L : Transactions!Front(L) = Front(L)
BY DEF Transactions!Front, Front

\* The working state changes, or is abandoned: no attempt begins or ends.
LEMMA SameSaved ==
  ASSUME NEW F, Sound(F), Sound(F)', control # <<>>, control' # <<>>, session' = session,
         SavedOf(control', session') = SavedOf(control, session),
         signal = "error" => signal' = "error", signal = "exit" => signal' = "exit",
         signal \in Dropping => signal' \in Dropping
  PROVE  Transacts
<1> DEFINE p == SavedOf(control, session)
           w == State(scope, host)
           v == State(scope', host')
<1>1. /\ Layers \in Seq(States(F)) /\ Len(Layers) \in Nat /\ Layers[1] = session
      /\ w \in States(F) /\ p \in Seq(States(F)) /\ p # <<>>
      /\ signal \in Dropping => Len(Layers) = 1
      /\ signal \notin Dropping => Len(Layers) > 1
      /\ signal = "exit" => Len(Layers) = 2
      /\ signal = "error" => Pushes(Layers, p, Last(p))
      /\ signal \notin Fatal \cup {"error"} => Pushes(Layers, p, w)
  BY BeforeFacts DEF Layered
<1>2. /\ Layers' \in Seq(States(F)) /\ Len(Layers') \in Nat /\ Layers'[1] = session
      /\ v \in States(F)
      /\ signal' \in Dropping => Len(Layers') = 1
      /\ signal' \notin Dropping => Len(Layers') > 1
      /\ signal' = "exit" => Len(Layers') = 2
      /\ signal' = "error" => Pushes(Layers', p, Last(p))
      /\ signal' \notin Fatal \cup {"error"} => Pushes(Layers', p, v)
  BY AfterFacts DEF Layered
<1> HIDE DEF p, w, v
<1>3. Last(p) \in States(F)
  BY <1>1, StackFacts
<1>4. Fatal = Dropping \cup {"exit"} /\ "error" \notin Fatal /\ "exit" \notin Dropping
  BY DEF Fatal, Dropping
<1>5. CASE signal \in Dropping
  <2>1. Layers' = Layers
    BY <1>1, <1>2, <1>5, SameOne
  <2>2. ~(signal' = "error") /\ ~(signal = "error")
    BY <1>4, <1>5
  <2> QED
    BY <2>1, <2>2, StepIsNone
<1>6. CASE signal = "exit"
  <2>1. Transactions!Unite
    BY <1>1, <1>2, <1>4, <1>6 DEF Transactions!Unite, Transactions!Open
  <2> QED
    BY <2>1 DEF Transacts, Transactions!Next
<1>7. CASE signal = "error"
  <2>1. Layers' = Layers
    BY <1>1, <1>2, <1>7, SamePush
  <2> QED
    BY <1>7, <2>1, StepIsNone
<1>8. CASE signal \notin Fatal \cup {"error"}
  <2>1. Len(Layers) > 1 /\ Len(Layers) = Len(p) + 1 /\ Front(Layers) = p
    <3>1. Pushes(Layers, p, w)
      BY <1>1, <1>8
    <3> QED
      BY <1>1, <1>4, <1>8, <3>1, PushFacts
  <2>2. CASE signal' \in Dropping
    <3>1. Layers' = <<Layers[1]>>
      <4>1. <<session>> \in Seq(States(F)) /\ Len(<<session>>) = 1 /\ <<session>>[1] = session
        <5>1. session \in States(F)
          BY <1>1, <2>1, ElementOfSeq
        <5> QED
          BY <5>1
      <4>2. Layers' = <<session>>
        BY <1>2, <2>2, <4>1, SameOne
      <4> QED
        BY <1>1, <4>2
    <3>2. ~(signal' = "error")
      BY <1>4, <2>2
    <3>3. Transactions!Abandon
      BY <2>1, <3>1, <3>2 DEF Transactions!Abandon, Transactions!Open
    <3> QED
      BY <3>3 DEF Transacts, Transactions!Next
  <2>3. CASE signal' = "exit"
    <3>1. Transactions!Unite
      BY <1>1, <1>2, <1>8, <2>1, <2>3 DEF Transactions!Unite, Transactions!Open
    <3> QED
      BY <3>1 DEF Transacts, Transactions!Next
  <2>4. CASE signal' \notin Fatal
    <3>1. Len(Layers') = Len(p) + 1 /\ Front(Layers') = p
      <4>1. CASE signal' = "error"
        <5>1. Pushes(Layers', p, Last(p))
          BY <1>2, <4>1
        <5> QED
          BY <1>1, <1>3, <5>1, PushFacts
      <4>2. CASE signal' # "error"
        <5>1. Pushes(Layers', p, v)
          BY <1>2, <2>4, <4>2
        <5> QED
          BY <1>1, <1>2, <5>1, PushFacts
      <4> QED
        BY <4>1, <4>2
    <3>2. ~(signal = "error")
      BY <1>8
    <3>3. Transactions!Work
      <4>1. Transactions!Front(Layers) = p /\ Transactions!Front(Layers') = p
        BY <2>1, <3>1, FrontIsFront
      <4>2. (signal = "error")' \in BOOLEAN
        OBVIOUS
      <4> QED
        BY <2>1, <3>1, <3>2, <4>1, <4>2
           DEF Transactions!Work, Transactions!Open, Transactions!Checkpoints
    <3> QED
      BY <3>3 DEF Transacts, Transactions!Next
  <2> QED
    BY <1>4, <2>2, <2>3, <2>4
<1> QED
  BY <1>4, <1>5, <1>6, <1>7, <1>8

\* A stack is its innermost frame on the others.
LEMMA FrontLast ==
  ASSUME NEW X, NEW c \in Seq(X), c # <<>>
  PROVE  Pushes(c, Front(c), Last(c)) /\ Front(c) \in Seq(X) /\ Last(c) \in X
<1> DEFINE d == Append(Front(c), Last(c))
<1>1. /\ Len(c) \in Nat \ {0} /\ Front(c) \in Seq(X) /\ Len(Front(c)) = Len(c) - 1
      /\ \A i \in 1..(Len(c) - 1) : Front(c)[i] = c[i]
      /\ Last(c) = c[Len(c)] /\ Last(c) \in X
  BY StackFacts
<1>2. Pushes(d, Front(c), Last(c))
  BY DEF Pushes
<1> HIDE DEF d
<1>3. /\ d \in Seq(X) /\ Len(d) = Len(Front(c)) + 1 /\ d[Len(Front(c)) + 1] = Last(c)
      /\ \A i \in 1..Len(Front(c)) : d[i] = Front(c)[i]
  BY <1>1, <1>2, PushFacts
<1>4. \A i \in 1..Len(c) : c[i] = d[i]
  BY <1>1, <1>3
<1>5. c = d
  BY <1>1, <1>3, <1>4, SeqEqual
<1> QED
  BY <1>1, <1>2, <1>5

\* What is on top of a typed stack has the type.
LEMMA PushedIn ==
  ASSUME NEW X, NEW c \in Seq(X), NEW d \in Seq(X), NEW e, Pushes(d, c, e)
  PROVE  e \in X
<1> DEFINE Y == X \cup {e}
<1>1. c \in Seq(Y) /\ e \in Y
  BY SeqMonotonic
<1> HIDE DEF Y
<1>2. Len(d) = Len(c) + 1 /\ d[Len(c) + 1] = e /\ Len(c) \in Nat
  BY <1>1, PushFacts, LenProperties
<1>3. Len(c) + 1 \in 1..Len(d)
  BY <1>2
<1> QED
  BY <1>2, <1>3, ElementOfSeq

\* Only the kind of the innermost frame, and what a `try` saves, matter.
LEMMA SavedAlike ==
  ASSUME NEW F, NEW c \in Seq(Control(F)), c # <<>>, NEW d \in Seq(Control(F)), d # <<>>,
         Front(c) = Front(d), Last(c).kind = "try" <=> Last(d).kind = "try",
         Last(c).kind = "try" => StateOf(Last(c)) = StateOf(Last(d)),
         NEW se \in States(F)
  PROVE  SavedOf(c, se) = SavedOf(d, se)
<1> DEFINE b == Front(c)
           x == Last(c)
           y == Last(d)
<1>1. Pushes(c, b, x) /\ b \in Seq(Control(F)) /\ x \in Control(F)
  BY FrontLast
<1>2. Pushes(d, b, y) /\ y \in Control(F)
  BY FrontLast
<1> HIDE DEF b, x, y
<1>3. /\ x.kind # "try" => SavedOf(c, se) = SavedOf(b, se)
      /\ x.kind = "try" => Pushes(SavedOf(c, se), SavedOf(b, se), StateOf(x))
  BY <1>1, SavedPush
<1>4. /\ y.kind # "try" => SavedOf(d, se) = SavedOf(b, se)
      /\ y.kind = "try" => Pushes(SavedOf(d, se), SavedOf(b, se), StateOf(y))
  BY <1>1, <1>2, SavedPush
<1>5. CASE x.kind = "try"
  <2>1. Pushes(SavedOf(c, se), SavedOf(b, se), StateOf(x)) /\ y.kind = "try" /\ StateOf(x) = StateOf(y)
    BY <1>3, <1>5 DEF x, y
  <2>2. Pushes(SavedOf(d, se), SavedOf(b, se), StateOf(x))
    BY <1>4, <2>1
  <2> QED
    BY <2>1, <2>2, SamePush
<1>6. CASE x.kind # "try"
  BY <1>3, <1>4, <1>6 DEF x, y
<1> QED
  BY <1>5, <1>6

\* What the innermost frame adds to the others.
LEMMA SavedTop ==
  ASSUME NEW F, Sound(F), control # <<>>
  PROVE  /\ session \in States(F) /\ Below \in Seq(Control(F)) /\ Top \in Control(F)
         /\ Top.kind # "try" => SavedOf(control, session) = SavedOf(Below, session)
         /\ Top.kind = "try" =>
              Pushes(SavedOf(control, session), SavedOf(Below, session), StateOf(Top))
<1>1. session \in States(F) /\ control \in Seq(Control(F))
  BY DEF Sound, Typed, States
<1>2. Pushes(control, Below, Top) /\ Below \in Seq(Control(F)) /\ Top \in Control(F)
  BY <1>1, FrontLast DEF Top, Below
<1> QED
  BY <1>1, <1>2, SavedPush

\* A statement that is counted changes no saved state.
LEMMA CountedSaved ==
  ASSUME NEW F, Sound(F), control # <<>>, InBody(Top), Top.left > 0
  PROVE  SavedOf(Counted, session) = SavedOf(control, session)
<1>1. session \in States(F) /\ control \in Seq(Control(F))
  BY DEF Sound, Typed, States
<1>2. Counted \in Seq(Control(F)) /\ Counted # <<>> /\ Front(Counted) = Below /\ Alike(Top, Last(Counted))
  BY CountedFacts
<1>3. /\ Last(control).kind = "try" <=> Last(Counted).kind = "try"
      /\ Last(control).kind = "try" => StateOf(Last(control)) = StateOf(Last(Counted))
  BY <1>2 DEF Alike, Top, StateOf
<1>4. Front(control) = Front(Counted)
  BY <1>2 DEF Below
<1> QED
  BY <1>1, <1>2, <1>3, <1>4, SavedAlike

\* Statements that begin or end no attempt.
LEMMA RunSame ==
  ASSUME NEW F, Sound(F), Sound(F)', signal = "run", control' # <<>>, session' = session,
         SavedOf(control', session) = SavedOf(control, session)
  PROVE  Transacts
<1>1. control # <<>>
  BY BudgetFacts
<1>2. signal # "error" /\ signal # "exit" /\ signal \notin Dropping
  BY DEF Dropping
<1>3. SavedOf(control', session') = SavedOf(control, session)
  OBVIOUS
<1> QED
  BY <1>1, <1>2, <1>3, SameSaved

\* A statement that opens no block.
LEMMA SimpleTransacts ==
  ASSUME NEW F, Sound(F), Sound(F)', signal = "run", InBody(Top), Top.left > 0, Simple
  PROVE  Transacts
<1>1. control # <<>>
  BY BudgetFacts
<1>2. control' = Counted /\ session' = session
  BY DEF Simple, outer
<1>3. Counted # <<>> /\ SavedOf(Counted, session) = SavedOf(control, session)
  BY <1>1, CountedFacts, CountedSaved
<1>4. control' # <<>> /\ SavedOf(control', session) = SavedOf(control, session)
  BY <1>2, <1>3
<1> QED
  BY <1>2, <1>4, RunSame

\* A frame that is no `try` is entered.
LEMMA EnterTransacts ==
  ASSUME NEW F, Sound(F), Sound(F)', signal = "run", InBody(Top), Top.left > 0,
         NEW frame, frame.kind # "try", Enter(frame), session' = session
  PROVE  Transacts
<1>1. control # <<>>
  BY BudgetFacts
<1>2. Counted \in Seq(Control(F)) /\ SavedOf(Counted, session) = SavedOf(control, session)
  BY <1>1, CountedFacts, CountedSaved
<1>3. Pushes(control', Counted, frame)
  BY DEF Enter, Pushes
<1>4. control' \in Seq(Control(F)) /\ session \in States(F)
  BY DEF Sound, Typed, States
<1>5. frame \in Control(F)
  BY <1>2, <1>3, <1>4, PushedIn
<1>6. control' # <<>>
  BY <1>2, <1>3, <1>5, PushFacts
<1>7. SavedOf(control', session) = SavedOf(Counted, session)
  BY <1>2, <1>3, <1>4, <1>5, SavedPush
<1>8. SavedOf(control', session) = SavedOf(control, session)
  BY <1>2, <1>7
<1> QED
  BY <1>6, <1>8, RunSame

\* A frame that is no `try` is left, or becomes another one that is none.
LEMMA LeaveTransacts ==
  ASSUME NEW F, Sound(F), Sound(F)', control # <<>>, Top.kind # "try", control' # <<>>,
         control' = Below \/ (Front(control') = Below /\ Last(control').kind # "try"),
         session' = session,
         signal = "error" => signal' = "error", signal = "exit" => signal' = "exit",
         signal \in Dropping => signal' \in Dropping
  PROVE  Transacts
<1>1. /\ session \in States(F) /\ SavedOf(control, session) = SavedOf(Below, session)
      /\ control \in Seq(Control(F)) /\ control' \in Seq(Control(F))
  BY SavedTop DEF Sound, Typed
<1>2. SavedOf(control', session) = SavedOf(control, session)
  <2>1. CASE control' = Below
    BY <1>1, <2>1
  <2>2. CASE Front(control') = Below /\ Last(control').kind # "try"
    <3>1. Front(control) = Front(control') /\ Last(control).kind # "try"
      BY <2>2 DEF Below, Top
    <3> QED
      BY <1>1, <2>2, <3>1, SavedAlike
  <2> QED
    BY <2>1, <2>2
<1>3. SavedOf(control', session') = SavedOf(control, session)
  BY <1>2
<1> QED
  BY <1>3, SameSaved

\* No frame is entered or left.
LEMMA StayTransacts ==
  ASSUME NEW F, Sound(F), Sound(F)', signal = "run", control' = control, session' = session
  PROVE  Transacts
<1>1. control # <<>>
  BY BudgetFacts
<1>2. control' # <<>> /\ SavedOf(control', session) = SavedOf(control, session)
  BY <1>1
<1> QED
  BY <1>2, RunSame

-----------------------------------------------------------------------------
(* Each action is a step of the abstract specification. *)

\* Statements that open no block change the working state, or fail, or are refused.
LEMMA StatementTransacts ==
  ASSUME NEW F, Sound(F), Sound(F)',
         \/ Exhausted \/ Fails \/ chain \/ transfer
         \/ \E n \in Names : declaration(n) \/ assignment(n)
         \/ \E e \in Entries : environment(e)
         \/ \E f \in Functions : function_definition(f)
  PROVE  Transacts
<1>1. signal = "run" /\ InBody(Top) /\ Top.left > 0 /\ Simple
  <2>1. CASE Exhausted
    BY <2>1 DEF Exhausted
  <2>2. CASE Fails
    BY <2>2, BeginsFacts DEF Fails
  <2>3. CASE chain
    BY <2>3, BeginsFacts DEF chain
  <2>4. CASE transfer
    BY <2>4, BeginsFacts DEF transfer
  <2>5. CASE \E n \in Names : declaration(n)
    BY <2>5, BeginsFacts DEF declaration
  <2>6. CASE \E n \in Names : assignment(n)
    BY <2>6, BeginsFacts DEF assignment
  <2>7. CASE \E e \in Entries : environment(e)
    BY <2>7, BeginsFacts DEF environment
  <2>8. CASE \E f \in Functions : function_definition(f)
    BY <2>8, BeginsFacts DEF function_definition
  <2> QED
    BY <2>1, <2>2, <2>3, <2>4, <2>5, <2>6, <2>7, <2>8
<1> QED
  BY <1>1, SimpleTransacts

\* A call that is made, and a block or a loop that is entered, is work of the same attempt.
LEMMA callTransacts ==
  ASSUME NEW F, Sound(F), Sound(F)', NEW f, NEW then, call(f, then)
  PROVE  Transacts
<1>1. signal = "run" /\ InBody(Top) /\ Top.left > 0
  BY BeginsFacts DEF call
<1>2. CASE Simple
  BY <1>1, <1>2, SimpleTransacts
<1>3. CASE ~Simple
  <2> DEFINE function == Found(scope, f)
             frames == Push(Append(function.value.captured, OneCell(f, function)))
             frame == CallFrame(f, Len(frames) + 1, then)
  <2>1. Enter(frame) /\ UNCHANGED outer
    BY <1>3 DEF call
  <2>2. frame.kind # "try"
    BY DEF CallFrame
  <2>3. session' = session
    BY <2>1 DEF outer
  <2> HIDE DEF frame
  <2> QED
    BY <1>1, <2>1, <2>2, <2>3, EnterTransacts
<1> QED
  BY <1>2, <1>3

\* A block of an `if` or a `match` is work of the same attempt,
LEMMA branchTransacts ==
  ASSUME NEW F, Sound(F), Sound(F)', branch
  PROVE  Transacts
<1> DEFINE frame == BlockFrame(Len(scope) + 1)
<1>1. signal = "run" /\ InBody(Top) /\ Top.left > 0 /\ Enter(frame) /\ session' = session
  BY BeginsFacts DEF branch, Compound, outer
<1>2. frame.kind # "try"
  BY DEF BlockFrame
<1> HIDE DEF frame
<1> QED
  BY <1>1, <1>2, EnterTransacts

\* and so is a loop,
LEMMA loopTransacts ==
  ASSUME NEW F, Sound(F), Sound(F)', loop
  PROVE  Transacts
<1>1. signal = "run" /\ InBody(Top) /\ Top.left > 0 /\ session' = session
  BY BeginsFacts DEF loop, Compound, outer
<1>2. \A kind \in Loops : \A items : LoopFrame(kind, items).kind # "try"
  BY DEF LoopFrame, Loops
<1>3. PICK frame : Enter(frame) /\ frame.kind # "try"
  BY <1>2 DEF loop, Loops
<1> QED
  BY <1>1, <1>3, EnterTransacts

\* the end of a block,
LEMMA EndBlockTransacts ==
  ASSUME NEW F, Sound(F), Sound(F)', EndBlock
  PROVE  Transacts
<1>1. signal = "run" /\ control' = control /\ session' = session
  BY DEF EndBlock, outer
<1> QED
  BY <1>1, StayTransacts

\* What lies below a frame that is no statement of the script.
LEMMA BelowIsSome ==
  ASSUME NEW F, Sound(F), control # <<>>, Top.kind # "script"
  PROVE  Below # <<>> /\ Below \in Seq(Control(F))
BY TopFacts

\* The innermost frame becomes another one, which is no `try`.
LEMMA InsteadTransacts ==
  ASSUME NEW F, Sound(F), Sound(F)', control # <<>>, Top.kind # "try", session' = session,
         NEW frame, Replaces(control', control, frame), frame.kind # "try",
         signal = "error" => signal' = "error", signal = "exit" => signal' = "exit",
         signal \in Dropping => signal' \in Dropping
  PROVE  Transacts
<1>1. Below \in Seq(Control(F)) /\ control' \in Seq(Control(F))
  BY TopFacts DEF Sound, Typed
<1>2. Pushes(control', Below, frame)
  BY DEF Replaces, Pushes, Below
<1>3. frame \in Control(F)
  BY <1>1, <1>2, PushedIn
<1>4. control' # <<>> /\ Front(control') = Below /\ Last(control') = frame
  BY <1>1, <1>2, <1>3, PushFacts
<1> QED
  BY <1>4, LeaveTransacts

\* `frame` goes round once more.
LEMMA IterateTransacts ==
  ASSUME NEW F, Sound(F), Sound(F)', control # <<>>, signal = "run", Top.kind \in Loops,
         NEW frame, frame.kind \in Loops, NEW b, NEW k, NEW i, session' = session,
         control' = Append(Below, [frame EXCEPT !.body = b, !.left = k, !.inner = i])
  PROVE  Transacts
<1> DEFINE g == [frame EXCEPT !.body = b, !.left = k, !.inner = i]
<1>1. Replaces(control', control, g)
  BY DEF Replaces, Below
<1>2. g.kind = frame.kind
  OBVIOUS
<1> HIDE DEF g
<1>3. g.kind # "try" /\ Top.kind # "try"
  BY <1>2 DEF Loops
<1>4. signal # "error" /\ signal # "exit" /\ signal \notin Dropping
  BY DEF Dropping
<1> QED
  BY <1>1, <1>3, <1>4, InsteadTransacts

\* A condition of a `while` is work of the attempt the loop is in,
LEMMA while_headTransacts ==
  ASSUME NEW F, Sound(F), Sound(F)', while_head
  PROVE  Transacts
<1>1. signal = "run" /\ Top.kind = "while" /\ session' = session
  BY DEF while_head, AtHead, outer
<1>2. control # <<>> /\ Top.kind \in Loops /\ Top.kind # "try" /\ Top.kind # "script"
  BY <1>1, BudgetFacts DEF Loops
<1>3. CASE control' = control
  BY <1>1, <1>3, StayTransacts
<1>4. CASE control' = Below
  <2>1. control' # <<>>
    BY <1>2, <1>4, BelowIsSome
  <2>2. signal # "error" /\ signal # "exit" /\ signal \notin Dropping
    BY <1>1 DEF Dropping
  <2> QED
    BY <1>1, <1>2, <1>4, <2>1, <2>2, LeaveTransacts
<1>5. CASE Iterate(Top)
  BY <1>1, <1>2, <1>5, IterateTransacts DEF Iterate
<1>6. control' = control \/ control' = Below \/ Iterate(Top)
  BY DEF while_head, Polled
<1> QED
  BY <1>3, <1>4, <1>5, <1>6

\* and so is an item of a `for`.
LEMMA for_headTransacts ==
  ASSUME NEW F, Sound(F), Sound(F)', for_head
  PROVE  Transacts
<1>1. signal = "run" /\ Top.kind = "for" /\ session' = session
  BY DEF for_head, AtHead, outer
<1>2. control # <<>> /\ Top.kind \in Loops /\ Top.kind # "try" /\ Top.kind # "script"
  BY <1>1, BudgetFacts DEF Loops
<1> DEFINE frame == [Top EXCEPT !.items = Rest(@)]
<1>3. CASE control' = control
  BY <1>1, <1>3, StayTransacts
<1>4. CASE control' = Below
  <2>1. control' # <<>>
    BY <1>2, <1>4, BelowIsSome
  <2>2. signal # "error" /\ signal # "exit" /\ signal \notin Dropping
    BY <1>1 DEF Dropping
  <2> QED
    BY <1>1, <1>2, <1>4, <2>1, <2>2, LeaveTransacts
<1>5. CASE Iterate(frame)
  <2>1. frame.kind \in Loops
    BY <1>2
  <2> HIDE DEF frame
  <2> QED
    BY <1>1, <1>2, <1>5, <2>1, IterateTransacts DEF Iterate
<1>6. control' = control \/ control' = Below \/ Iterate(frame)
  BY DEF for_head, Polled
<1> QED
  BY <1>3, <1>4, <1>5, <1>6

\* A catch block begins: it is an ordinary block, inside no attempt of its own.
LEMMA catch_bindingTransacts ==
  ASSUME NEW F, Sound(F), Sound(F)', catch_binding
  PROVE  Transacts
<1>1. signal = "run" /\ Top.kind = "catch" /\ session' = session
  BY DEF catch_binding, outer
<1>2. control # <<>> /\ Top.kind # "try" /\ Top.kind # "script"
  BY <1>1, BudgetFacts
<1>3. signal # "error" /\ signal # "exit" /\ signal \notin Dropping
  BY <1>1 DEF Dropping
<1> DEFINE frame == BlockFrame(Top.inner + 1)
<1>4. CASE control' = Below
  <2>1. control' # <<>>
    BY <1>2, <1>4, BelowIsSome
  <2> QED
    BY <1>1, <1>2, <1>3, <1>4, <2>1, LeaveTransacts
<1>5. CASE control' = Append(Below, frame)
  <2>1. Replaces(control', control, frame) /\ frame.kind # "try"
    BY <1>5 DEF Replaces, Below, BlockFrame
  <2> HIDE DEF frame
  <2> QED
    BY <1>1, <1>2, <1>3, <2>1, InsteadTransacts
<1>6. control' = Below \/ control' = Append(Below, frame)
  BY DEF catch_binding
<1> QED
  BY <1>4, <1>5, <1>6

\* A block is left: an abort goes on as it is,
LEMMA blockTransacts ==
  ASSUME NEW F, Sound(F), Sound(F)', block
  PROVE  Transacts
<1>1. control # <<>> /\ Top.kind = "block" /\ control' = Below /\ session' = session /\ signal' = Onward
  BY DEF block, Unwinding, Leaves, outer
<1>2. Top.kind # "try" /\ Top.kind # "script"
  BY <1>1
<1>3. control' # <<>>
  BY <1>1, <1>2, BelowIsSome
<1>4. /\ signal = "error" => signal' = "error"
      /\ signal = "exit" => signal' = "exit"
      /\ signal \in Dropping => signal' \in Dropping
  BY <1>1 DEF Onward, Dropping
<1> QED
  BY <1>1, <1>2, <1>3, <1>4, LeaveTransacts

\* and so it does through a loop,
LEMMA iterationTransacts ==
  ASSUME NEW F, Sound(F), Sound(F)', iteration
  PROVE  Transacts
<1>1. control # <<>> /\ Top.kind \in Loops /\ session' = session
  BY DEF iteration, Unwinding, Leaves, outer, Loops
<1>2. Top.kind # "try" /\ Top.kind # "script"
  BY <1>1 DEF Loops
<1>3. CASE signal \in {"done", "continue"}
  <2> DEFINE g == [Top EXCEPT !.body = FALSE, !.left = 0, !.inner = @ - 1]
  <2>1. control' = Append(Below, g)
    BY <1>3 DEF iteration
  <2>2. Replaces(control', control, g) /\ g.kind = Top.kind
    BY <2>1 DEF Replaces, Below
  <2> HIDE DEF g
  <2>3. signal # "error" /\ signal # "exit" /\ signal \notin Dropping
    BY <1>3 DEF Dropping
  <2> QED
    BY <1>1, <1>2, <2>2, <2>3, InsteadTransacts
<1>4. CASE signal \notin {"done", "continue"}
  <2>1. control' = Below /\ signal' = IF signal = "break" THEN "run" ELSE signal
    BY <1>4 DEF iteration, Leaves
  <2>2. control' # <<>>
    BY <1>1, <1>2, <2>1, BelowIsSome
  <2>3. /\ signal = "error" => signal' = "error"
        /\ signal = "exit" => signal' = "exit"
        /\ signal \in Dropping => signal' \in Dropping
    BY <2>1 DEF Dropping
  <2> QED
    BY <1>1, <1>2, <2>1, <2>2, <2>3, LeaveTransacts
<1> QED
  BY <1>3, <1>4

\* and through a call, where a misplaced transfer becomes an error.
LEMMA returnTransacts ==
  ASSUME NEW F, Sound(F), Sound(F)', return
  PROVE  Transacts
<1>1. control # <<>> /\ Top.kind = "call" /\ control' = Below /\ session' = session
  BY DEF return, Unwinding, LeavesCall, outer
<1>2. Top.kind # "try" /\ Top.kind # "script"
  BY <1>1
<1>3. control' # <<>>
  BY <1>1, <1>2, BelowIsSome
<1>4. /\ signal = "error" => signal' = "error"
      /\ signal = "exit" => signal' = "exit"
      /\ signal \in Dropping => signal' \in Dropping
  <2>1. CASE signal \in {"done", "return"}
    BY <2>1 DEF Dropping
  <2>2. CASE signal \notin {"done", "return"}
    <3>1. signal' = IF signal \in Transfers THEN "error" ELSE signal
      BY <2>2 DEF return
    <3> QED
      BY <3>1 DEF Dropping, Transfers
  <2> QED
    BY <2>1, <2>2
<1> QED
  BY <1>1, <1>2, <1>3, <1>4, LeaveTransacts

\* An attempt begins: its state is saved on top of the others.
LEMMA BeginTransacts ==
  ASSUME NEW X, Layers \in Seq(X), NEW v \in X, Pushes(Layers', Layers, v),
         signal # "error", signal' # "error"
  PROVE  Transacts
<1>1. Len(Layers') = Len(Layers) + 1 /\ Transactions!Front(Layers') = Layers
  BY PushFacts, FrontIsFront
<1>2. Transactions!Begin
  BY <1>1 DEF Transactions!Begin
<1> QED
  BY <1>2 DEF Transacts, Transactions!Next

\* A `try` saves the state it begins with (`language_state_checkpoint`).
LEMMA try_statementTransacts ==
  ASSUME NEW F, Sound(F), Sound(F)', try_statement
  PROVE  Transacts
<1> DEFINE p == SavedOf(control, session)
           w == State(scope, host)
           v == State(scope', host')
           frame == TryFrame
<1>1. /\ signal = "run" /\ InBody(Top) /\ Top.left > 0 /\ control # <<>>
      /\ Enter(frame) /\ session' = session /\ signal' = "run"
  BY BeginsFacts DEF try_statement, Compound, outer
<1>2. "run" \notin Fatal \cup {"error"}
  BY DEF Fatal, Dropping
<1>3. Layers \in Seq(States(F)) /\ w \in States(F) /\ p \in Seq(States(F)) /\ Pushes(Layers, p, w)
  BY <1>1, <1>2, BeforeFacts DEF Layered
<1>4. Counted \in Seq(Control(F)) /\ SavedOf(Counted, session) = p
  BY <1>1, CountedFacts, CountedSaved
<1>5. frame.kind = "try" /\ StateOf(frame) = w
  BY DEF TryFrame, StateOf, State
<1> HIDE DEF p, w, v, frame
<1>6. Pushes(control', Counted, frame)
  BY <1>1 DEF Enter, Pushes
<1>7. control' \in Seq(Control(F)) /\ session \in States(F)
  BY DEF Sound, Typed, States
<1>8. frame \in Control(F)
  BY <1>4, <1>6, <1>7, PushedIn
<1>9. control' # <<>>
  BY <1>4, <1>6, <1>8, PushFacts
<1>10. Pushes(SavedOf(control', session), p, w)
  <2>1. Pushes(SavedOf(control', session), SavedOf(Counted, session), StateOf(frame))
    BY <1>4, <1>5, <1>6, <1>7, <1>8, SavedPush
  <2> QED
    BY <1>4, <1>5, <2>1
<1>11. SavedOf(control', session') = Layers
  <2>1. SavedOf(control', session) = Layers
    BY <1>3, <1>10, SamePush
  <2> QED
    BY <1>1, <2>1
<1>12. v \in States(F) /\ Pushes(Layers', SavedOf(control', session'), v)
  BY <1>1, <1>2, <1>9, AfterFacts DEF Layered, v
<1>13. Pushes(Layers', Layers, v)
  BY <1>11, <1>12
<1>14. signal # "error" /\ signal' # "error"
  BY <1>1
<1> QED
  BY <1>3, <1>12, <1>13, <1>14, BeginTransacts

\* A failed attempt goes back to its checkpoint.
LEMMA UndoTransacts ==
  ASSUME NEW F, Sound(F), control # <<>>, signal = "error", signal' # "error",
         Layers' = SavedOf(control, session)
  PROVE  Transacts
<1> DEFINE p == SavedOf(control, session)
<1>1. signal \notin Dropping
  BY DEF Dropping
<1>2. Len(Layers) > 1 /\ p \in Seq(States(F)) /\ p # <<>> /\ Pushes(Layers, p, Last(p))
  BY <1>1, BeforeFacts DEF Layered
<1> HIDE DEF p
<1>3. Last(p) \in States(F)
  BY <1>2, StackFacts
<1>4. Front(Layers) = p
  BY <1>2, <1>3, PushFacts
<1>5. Layers' = Transactions!Front(Layers)
  BY <1>4, FrontIsFront DEF p
<1>6. Transactions!Undo
  BY <1>2, <1>5 DEF Transactions!Undo, Transactions!Open, Transactions!Checkpoints
<1> QED
  BY <1>6 DEF Transacts, Transactions!Next

\* An error is caught: the state goes back to what it was when the `try` began.
LEMMA catchTransacts ==
  ASSUME NEW F, Sound(F), Sound(F)', catch
  PROVE  Transacts
<1> DEFINE p == SavedOf(control, session)
           q == SavedOf(Below, session)
           g == [kind |-> "catch", inner |-> Top.inner - 1]
           v == State(scope', host')
<1>1. /\ control # <<>> /\ Top.kind = "try" /\ signal = "error" /\ signal' = "run"
      /\ scope' = Top.scope /\ host' = Top.host /\ session' = session
      /\ control' = Append(Below, g)
  BY DEF catch, Unwinding, Catches, Undoes, outer
<1>2. v = StateOf(Top) /\ g.kind = "catch"
  BY <1>1 DEF StateOf, State
<1>3. /\ session \in States(F) /\ Below \in Seq(Control(F))
      /\ Pushes(p, q, StateOf(Top))
  BY <1>1, SavedTop
<1>4. Pushes(control', Below, g)
  BY <1>1 DEF Pushes
<1> HIDE DEF p, q, g, v
<1>5. control' \in Seq(Control(F))
  BY DEF Sound, Typed
<1>6. g \in Control(F)
  BY <1>3, <1>4, <1>5, PushedIn
<1>7. control' # <<>>
  BY <1>3, <1>4, <1>6, PushFacts
<1>8. SavedOf(control', session') = q
  <2>1. SavedOf(control', session) = q
    BY <1>2, <1>3, <1>4, <1>6, SavedPush DEF q
  <2> QED
    BY <1>1, <2>1
<1>9. signal' \notin Fatal \cup {"error"}
  BY <1>1 DEF Fatal, Dropping
<1>10. Pushes(Layers', SavedOf(control', session'), v)
  BY <1>7, <1>9, AfterFacts DEF Layered, v
<1>11. Layers' = p
  <2>1. Pushes(Layers', q, StateOf(Top))
    BY <1>2, <1>8, <1>10
  <2> QED
    BY <1>3, <2>1, SamePush
<1>12. Layers' = SavedOf(control, session) /\ signal' # "error"
  BY <1>1, <1>11 DEF p
<1> QED
  BY <1>1, <1>12, UndoTransacts

\* An exit keeps what every open attempt did.
LEMMA UniteTransacts ==
  ASSUME NEW F, Sound(F), Sound(F)', control # <<>>, control' # <<>>, session' = session,
         signal = "exit", signal' = "exit"
  PROVE  Transacts
<1>1. "exit" \notin Dropping
  BY DEF Dropping
<1>2. Len(Layers) > 1 /\ Layers[1] = session
  BY <1>1, BeforeFacts DEF Layered
<1>3. Len(Layers') = 2 /\ Layers'[1] = session'
  BY <1>1, AfterFacts DEF Layered
<1>4. Transactions!Unite
  BY <1>2, <1>3 DEF Transactions!Unite, Transactions!Open
<1> QED
  BY <1>4 DEF Transacts, Transactions!Next

\* An abort no `try` handles: the changes are given up already.
LEMMA DroppedTransacts ==
  ASSUME NEW F, Sound(F), Sound(F)', session' = session,
         signal \in Dropping \/ control = <<>>, signal # "error",
         signal' \in Dropping \/ control' = <<>>, signal' # "error"
  PROVE  Transacts
<1>1. Layers \in Seq(States(F)) /\ Len(Layers) = 1 /\ Layers[1] = session
  BY BeforeFacts DEF Layered
<1>2. Layers' \in Seq(States(F)) /\ Len(Layers') = 1 /\ Layers'[1] = session'
  BY AfterFacts DEF Layered
<1>3. Layers' = Layers
  BY <1>1, <1>2, SameOne
<1> QED
  BY <1>3, StepIsNone

\* A `try` block ends without an error: what it did belongs to the statement around it.
LEMMA pass_tryTransacts ==
  ASSUME NEW F, Sound(F), Sound(F)', pass_try
  PROVE  Transacts
<1> DEFINE p == SavedOf(control, session)
           q == SavedOf(Below, session)
           w == State(scope, host)
           v == State(scope', host')
<1>1. /\ control # <<>> /\ Top.kind = "try" /\ signal # "error" /\ signal' = Onward
      /\ signal \notin {"run", "idle", "ended"}
      /\ control' = Below /\ session' = session
  BY DEF pass_try, Unwinding, Catches, Leaves, outer
<1>2. control' # <<>> /\ Below \in Seq(Control(F))
  BY <1>1, BelowIsSome
<1>3. session \in States(F) /\ Pushes(p, q, StateOf(Top)) /\ StateOf(Top) \in States(F)
  <2>1. session \in States(F) /\ Pushes(p, q, StateOf(Top)) /\ Top \in Control(F)
    BY <1>1, SavedTop
  <2>2. StateOf(Top) \in States(F)
    BY <1>1, <2>1, ControlFacts DEF StateOf, State, States
  <2> QED
    BY <2>1, <2>2
<1>4. q \in Seq(States(F)) /\ q # <<>>
  BY <1>2, <1>3, SavedFacts
<1>5. SavedOf(control', session') = q
  BY <1>1
<1>6. CASE signal \in Dropping
  <2>1. signal' \in Dropping /\ signal' # "error"
    BY <1>1, <1>6 DEF Onward, Dropping
  <2> QED
    BY <1>1, <1>6, <2>1, DroppedTransacts
<1>7. CASE signal = "exit"
  <2>1. signal' = "exit"
    BY <1>1, <1>7 DEF Onward
  <2> QED
    BY <1>1, <1>2, <1>7, <2>1, UniteTransacts
<1>8. CASE signal \notin Fatal
  <2>1. signal \notin Fatal \cup {"error"} /\ signal' \notin Fatal \cup {"error"}
    BY <1>1, <1>8 DEF Onward, Fatal, Dropping
  <2>2. p \in Seq(States(F)) /\ w \in States(F) /\ Pushes(Layers, p, w)
    BY <1>1, <2>1, BeforeFacts DEF Layered
  <2>3. v \in States(F) /\ Pushes(Layers', q, v)
    <3>1. v \in States(F) /\ Pushes(Layers', SavedOf(control', session'), v)
      BY <1>2, <2>1, AfterFacts DEF Layered
    <3> QED
      BY <1>5, <3>1
  <2> HIDE DEF p, q, w, v
  <2>4. Len(p) = Len(q) + 1 /\ Front(p) = q
    BY <1>3, <1>4, PushFacts
  <2>5. Len(Layers) = Len(p) + 1 /\ Front(Layers) = p
    BY <2>2, PushFacts
  <2>6. Len(Layers') = Len(q) + 1 /\ Front(Layers') = q
    BY <1>4, <2>3, PushFacts
  <2>7. Len(q) \in Nat
    BY <1>4, LenProperties
  <2>8. Len(Layers) > 1 /\ Len(Layers') = Len(Layers) - 1
    BY <2>4, <2>5, <2>6, <2>7
  <2>9. Transactions!Front(Layers') = Transactions!Front(Transactions!Front(Layers))
    BY <2>4, <2>5, <2>6, FrontIsFront
  <2>10. Transactions!Merge
    <3>1. signal # "error" /\ signal' # "error"
      BY <2>1
    <3> QED
      BY <2>8, <2>9, <3>1 DEF Transactions!Merge, Transactions!Open, Transactions!Checkpoints
  <2> QED
    BY <2>10 DEF Transacts, Transactions!Next
<1> QED
  BY <1>6, <1>7, <1>8 DEF Fatal

\* A stack of one frame that is no `try` saves the session's state only.
LEMMA NoAttempts ==
  ASSUME NEW F, NEW c \in Seq(Control(F)), Len(c) = 1, c[1].kind # "try", NEW se \in States(F)
  PROVE  SavedOf(c, se) \in Seq(States(F)) /\ Len(SavedOf(c, se)) = 1 /\ SavedOf(c, se)[1] = se
<1>1. AttemptsOf(c) = {}
  BY DEF AttemptsOf
<1>2. Cardinality(AttemptsOf(c)) = 0
  BY <1>1, FS_EmptySet
<1>3. /\ SavedOf(c, se) \in Seq(States(F)) /\ SavedOf(c, se)[1] = se
      /\ Len(SavedOf(c, se)) = Cardinality(AttemptsOf(c)) + 1
  BY SavedFacts
<1> QED
  BY <1>2, <1>3

\* A top-level statement begins on copies of what the session owns.
LEMMA submit_statementTransacts ==
  ASSUME NEW F, Sound(F), Sound(F)', submit_statement
  PROVE  Transacts
<1> DEFINE q == SavedOf(control', session')
           v == State(scope', host')
<1>1. /\ signal = "idle" /\ signal' = "run" /\ session' = session
      /\ control' = <<[kind |-> "script", inner |-> Len(scope), left |-> 1]>>
  BY DEF submit_statement, Idle
<1>2. control = <<>>
  BY <1>1, BudgetFacts
<1>3. Layers \in Seq(States(F)) /\ Len(Layers) = 1 /\ Layers[1] = session
  BY <1>2, BeforeFacts DEF Layered
<1>4. Len(control') = 1 /\ control'[1].kind # "try"
  BY <1>1
<1>5. control' \in Seq(Control(F)) /\ control' # <<>> /\ session' \in States(F)
  <2>1. control' \in Seq(Control(F)) /\ session' \in States(F)
    BY DEF Sound, Typed, States
  <2> QED
    BY <1>4, <2>1, EmptySeq, SMTT(30)
<1>6. "run" \notin Fatal \cup {"error"}
  BY DEF Fatal, Dropping
<1>7. v \in States(F) /\ Pushes(Layers', q, v)
  BY <1>1, <1>5, <1>6, AfterFacts DEF Layered
<1>8. q \in Seq(States(F)) /\ Len(q) = 1 /\ q[1] = session'
  BY <1>4, <1>5, NoAttempts
<1> HIDE DEF q, v
<1>9. q = Layers
  BY <1>1, <1>3, <1>8, SameOne
<1>10. Pushes(Layers', Layers, v) /\ signal # "error" /\ signal' # "error"
  BY <1>1, <1>7, <1>9
<1> QED
  BY <1>3, <1>7, <1>10, BeginTransacts

\* A launch sets the session's status with no attempt open.
LEMMA backgroundTransacts ==
  ASSUME NEW F, Sound(F), Sound(F)', background
  PROVE  Transacts
<1>1. signal = "idle" /\ signal' # "error" /\ control' = control
  BY DEF background, Idle, Raise
<1>2. control = <<>>
  BY <1>1, BudgetFacts
<1>3. Len(Layers) = 1
  BY <1>2, BeforeFacts DEF Layered
<1>4. Len(Layers') = 1
  BY <1>1, <1>2, AfterFacts DEF Layered
<1>5. Transactions!Launch
  BY <1>1, <1>3, <1>4 DEF Transactions!Launch, Transactions!Open
<1> QED
  BY <1>5 DEF Transacts, Transactions!Next

\* A sequence of one element, or of two, and what lies below.
LEMMA NoneBelow ==
  ASSUME NEW X, NEW b \in Seq(X), Len(b) = 1
  PROVE  Front(b) = <<>>
<1>1. b # <<>>
  BY EmptySeq, SMTT(30)
<1>2. Front(b) \in Seq(X) /\ Len(Front(b)) = Len(b) - 1
  BY <1>1, StackFacts
<1>3. Len(Front(b)) = 0
  BY <1>2
<1> QED
  BY <1>2, <1>3, EmptySeq

\* A sequence of two.
LEMMA OneBelow ==
  ASSUME NEW X, NEW L \in Seq(X), Len(L) = 2
  PROVE  Front(Front(L)) = <<>>
<1>1. L # <<>>
  BY EmptySeq
<1> DEFINE b == Front(L)
<1>2. b \in Seq(X) /\ Len(b) = 1
  <2>1. b \in Seq(X) /\ Len(b) = Len(L) - 1
    BY <1>1, StackFacts
  <2> QED
    BY <2>1
<1> HIDE DEF b
<1>3. Front(b) = <<>>
  BY <1>2, NoneBelow
<1> QED
  BY <1>3 DEF b

\* The outermost transaction ends well.
LEMMA CommitTransacts ==
  ASSUME NEW X, Layers \in Seq(X), Len(Layers) = 2, Layers' \in Seq(X), Len(Layers') = 1,
         signal # "error", signal' # "error"
  PROVE  Transacts
<1>1. Front(Front(Layers)) = <<>>
  BY OneBelow
<1>2. Front(Layers') = <<>>
  BY NoneBelow
<1>3. Transactions!Front(Layers') = Transactions!Front(Transactions!Front(Layers))
  BY <1>1, <1>2, FrontIsFront
<1>4. Len(Layers) > 1 /\ Len(Layers') = Len(Layers) - 1
  OBVIOUS
<1>5. Transactions!Merge
  BY <1>3, <1>4 DEF Transactions!Merge, Transactions!Open, Transactions!Checkpoints
<1> QED
  BY <1>5 DEF Transacts, Transactions!Next

\* A top-level statement is kept by the session, or its changes are dropped.
LEMMA finish_statementTransacts ==
  ASSUME NEW F, Sound(F), Sound(F)', finish_statement
  PROVE  Transacts
<1> DEFINE p == SavedOf(control, session)
           w == State(scope, host)
<1>1. /\ control # <<>> /\ Top.kind = "script" /\ control' = <<>>
      /\ signal' # "error"
      /\ signal \in {"error"} \cup Dropping => Drops
  BY DEF finish_statement, Unwinding, Raise, Dropping
<1>2. /\ session \in States(F) /\ control \in Seq(Control(F)) /\ Len(control) = 1 /\ Top = control[1]
  <2>1. control \in Seq(Control(F)) /\ Len(control) = 1
    <3>1. Below = <<>>
      BY <1>1, TopFacts
    <3> QED
      BY <1>1, <3>1, TopFacts
  <2>2. Top = control[1]
    BY <1>1, <2>1, StackFacts DEF Top
  <2> QED
    BY <2>1, <2>2 DEF Sound, Typed, States
<1>3. p \in Seq(States(F)) /\ Len(p) = 1 /\ p[1] = session
  BY <1>1, <1>2, NoAttempts
<1>4. Layers' \in Seq(States(F)) /\ Len(Layers') = 1 /\ Layers'[1] = session'
  BY <1>1, AfterFacts DEF Layered
<1>5. ASSUME Drops PROVE session' = session
  <2>1. session' = [scope |-> session.scope, host |-> session.host]
    BY <1>5 DEF Drops, Owns
  <2> QED
    BY <1>2, <2>1 DEF States
<1>6. CASE signal \in Dropping
  <2>1. session' = session /\ signal # "error"
    BY <1>1, <1>5, <1>6 DEF Dropping
  <2> QED
    BY <1>1, <1>6, <2>1, DroppedTransacts
<1>7. CASE signal = "error"
  <2>1. session' = session
    BY <1>1, <1>5, <1>7
  <2> HIDE DEF p
  <2>2. Layers' = p
    BY <1>3, <1>4, <2>1, SameOne
  <2>3. Layers' = SavedOf(control, session)
    BY <2>2 DEF p
  <2> QED
    BY <1>1, <1>7, <2>3, UndoTransacts
<1>8. CASE signal \notin Dropping \cup {"error"}
  <2>1. Layers \in Seq(States(F)) /\ Len(Layers) = 2
    <3>1. CASE signal = "exit"
      BY <1>1, <1>8, <3>1, BeforeFacts DEF Layered
    <3>2. CASE signal # "exit"
      <4>1. signal \notin Fatal \cup {"error"}
        BY <1>8, <3>2 DEF Fatal
      <4>2. Layers \in Seq(States(F)) /\ w \in States(F) /\ Pushes(Layers, p, w)
        BY <1>1, <4>1, BeforeFacts DEF Layered
      <4> HIDE DEF p, w
      <4>3. p \in Seq(States(F))
        BY <1>3
      <4>4. Len(Layers) = Len(p) + 1
        BY <4>2, <4>3, PushFacts
      <4> QED
        BY <1>3, <4>2, <4>4
    <3> QED
      BY <3>1, <3>2
  <2>2. signal # "error"
    BY <1>8
  <2> QED
    BY <1>1, <1>4, <2>1, <2>2, CommitTransacts
<1> QED
  BY <1>6, <1>7, <1>8

\* Between two statements nothing of the language changes.
LEMMA BetweenTransacts ==
  ASSUME NEW F, Sound(F), Sound(F)', signal \in {"idle", "ended"}, signal' \in {"idle", "ended"},
         control' = control, session' = session
  PROVE  Transacts
<1>1. control = <<>> /\ control' = <<>> /\ signal # "error" /\ signal' # "error"
  BY BudgetFacts
<1> QED
  BY <1>1, DroppedTransacts

\* What leaves scope, host, session, frames and signal alone is no step.
LEMMA StutterTransacts ==
  ASSUME UNCHANGED <<session, scope, host, control, signal>>
  PROVE  Transacts
<1>1. Layers' = LayersOf(control, signal, session, scope, host)
  BY LayersNext
<1>2. Layers' = Layers
  BY <1>1, LayersNow DEF LayersAre
<1>3. signal' = "error" <=> signal = "error"
  OBVIOUS
<1> QED
  BY <1>2, <1>3, StepIsNone

\* Every step of a submission is one of the abstract specification, or none,
LEMMA StepTransacts ==
  ASSUME NEW F, Sound(F), Sound(F)', Step
  PROVE  Transacts
<1>1. CASE \/ Exhausted \/ Fails \/ chain \/ transfer
           \/ \E n \in Names : declaration(n) \/ assignment(n)
           \/ \E e \in Entries : environment(e)
           \/ \E f \in Functions : function_definition(f)
  BY <1>1, StatementTransacts
<1>2. CASE \E f \in Functions, then \in Then : call(f, then)
  BY <1>2, callTransacts
<1>3. CASE branch
  BY <1>3, branchTransacts
<1>4. CASE loop
  BY <1>4, loopTransacts
<1>5. CASE try_statement
  BY <1>5, try_statementTransacts
<1>6. CASE EndBlock
  BY <1>6, EndBlockTransacts
<1>7. CASE while_head
  BY <1>7, while_headTransacts
<1>8. CASE for_head
  BY <1>8, for_headTransacts
<1>9. CASE block
  BY <1>9, blockTransacts
<1>10. CASE iteration
  BY <1>10, iterationTransacts
<1>11. CASE catch
  BY <1>11, catchTransacts
<1>12. CASE catch_binding
  BY <1>12, catch_bindingTransacts
<1>13. CASE pass_try
  BY <1>13, pass_tryTransacts
<1>14. CASE return
  BY <1>14, returnTransacts
<1>15. CASE submit_statement
  BY <1>15, submit_statementTransacts
<1>16. CASE background
  BY <1>16, backgroundTransacts
<1>17. CASE finish_statement
  BY <1>17, finish_statementTransacts
<1>18. CASE submission_ends
  BY <1>18, BetweenTransacts DEF submission_ends, Raise
<1> QED
  BY <1>1, <1>2, <1>3, <1>4, <1>5, <1>6, <1>7, <1>8, <1>9, <1>10, <1>11, <1>12, <1>13, <1>14,
     <1>15, <1>16, <1>17, <1>18 DEF Step

\* A session starts with no transaction open.
LEMMA InitTransacts == Init => Transactions!Init
<1> SUFFICES ASSUME Init PROVE Transactions!Init
  OBVIOUS
<1>1. control = <<>> /\ signal = "idle"
  BY DEF Init
<1>2. Layers = <<session>>
  BY <1>1 DEF Layers
<1>3. Len(Layers) = 1
  BY <1>2
<1>4. (signal = "error") = FALSE
  BY <1>1
<1> QED
  BY <1>3, <1>4 DEF Transactions!Init

\* and so is every step of a session.
LEMMA NextTransacts == IInv /\ IInv' /\ [Next]_vars => Transacts
<1> SUFFICES ASSUME IInv, IInv', [Next]_vars PROVE Transacts
  OBVIOUS
<1>1. PICK F : Sound(F)
  BY DEF IInv
<1>2. PICK G : Sound(G)'
  BY DEF IInv
<1> DEFINE H == F \cup G
<1>3. Sound(H) /\ Sound(H)'
  BY <1>1, <1>2, BothSound
<1> HIDE DEF H
<1>4. CASE Step
  BY <1>3, <1>4, StepTransacts
<1>5. CASE submit
  BY <1>3, <1>5, BetweenTransacts DEF submit, Raise
<1>6. CASE Cancel
  BY <1>6, StutterTransacts DEF Cancel, language
<1>7. CASE vars' = vars
  BY <1>7, StutterTransacts DEF vars
<1> QED
  BY <1>4, <1>5, <1>6, <1>7 DEF Next

\* The evaluator implements nested transactions: the session changes only by a whole top-level
\* statement (`submit_parsed`), an error caught any number of blocks, loops and calls below a
\* `try` leaves nothing of its block (`restore_language_state`), and an exit keeps all there is.
THEOREM EvaluatorRefines == Spec => ImplementsTransactions
<1>1. Init => Transactions!Init
  BY InitTransacts
<1>2. IInv /\ IInv' /\ [Next]_vars => [Transactions!Next]_(Transactions!vars)
  BY NextTransacts DEF Transacts
<1>3. Spec => []IInv
  BY EvaluatorInvariant
<1> QED
  BY <1>1, <1>2, <1>3, PTL DEF Spec, ImplementsTransactions, Transactions!Spec
=============================================================================
