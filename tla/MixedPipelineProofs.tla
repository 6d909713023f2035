------------------------ MODULE MixedPipelineProofs ------------------------
(***************************************************************************)
(* Proofs about pipelines of external stages and internal segments         *)
(* (MixedPipeline), for any pipeline, any bounds and any faults: what is   *)
(* reported, what becomes of the session's state, and that nothing is left *)
(* behind.                                                                 *)
(***************************************************************************)
EXTENDS MixedPipeline, SequenceTheorems, WellFoundedInduction, TLAPS

Begun == capture # "none"
Gone(i) == child[i] = "absent" \/ i \in reaped

\* The coordinator prepares, runs the threads, and goes on alone.
MainInv ==
  /\ \A s \in Segment : seg[s] = "idle" <=> ~Begun
  /\ ~Begun => /\ main \in {"pipes", "spawn", "returned"}
               /\ tty = "shell" /\ ~cancelled /\ result.kind \in {"none", "error"}
               /\ result.stage = None
               /\ turn = Least(Segment) /\ pending = <<>> /\ ~stopped /\ exit_at = None
  /\ Begun => main \in {"run", "wait", "resume", "returned"}
  /\ main # "run" => /\ capture \in {"none", "done", "failed"}
                     /\ \A s \in Segment : seg[s] \in {"idle", "done"}
  /\ main # "returned" => /\ result = [kind |-> "none", stage |-> None]
                          /\ state = [applied |-> <<>>, merged |-> {}]
  /\ main = "returned" => tty = "shell" \/ Fault("restore")
  /\ main = "run" => index = 1
  /\ main \in {"wait", "resume"} => capture = "done"

\* Children are known, and whoever trips the token waits for all of them.
ChildrenInv ==
  /\ \A i \in Stage : child[i] = "absent" => i \notin news
  /\ \A i \in Internal : child[i] = "absent"
  /\ main = "pipes" => \A i \in External : Gone(i)
  /\ main \in {"wait", "resume"} => \A i \in External : i < index => Gone(i)
  /\ main = "returned" => \A i \in External : Gone(i)
  /\ cancelled => \/ \A i \in External : Gone(i)
                  \/ capture = "reap" \/ \E s \in Segment : seg[s] = "reap"

\* Where a segment is, seen from the one whose turn it is.
PlaceInv(s) ==
  /\ lock = s <=> seg[s] \in {"stage", "eager"}
  /\ s < turn => seg[s] \notin {"idle", "waiting", "stage", "eager"}
  /\ s > turn => seg[s] \in {"idle", "waiting", "done"} /\ outcome[s] \in {"none", "skipped"}
  /\ s = turn => seg[s] \notin {"prepared", "drain", "failing"}
                 /\ outcome[s] \notin {"completed", "stopped"}
  /\ seg[s] \in {"idle", "waiting"} => at[s] = s
  /\ seg[s] \in {"stage", "eager"} => at[s] \in s..Last(s)

\* Why a segment has the outcome it has.
OutcomeInv(s) ==
  /\ outcome[s] = "none" <=> seg[s] \notin {"cancel", "reap", "done"}
  /\ seg[s] \in {"cancel", "reap"} => outcome[s] \in {"failure", "exit"}
  /\ outcome[s] \in {"failure", "exit"} /\ seg[s] # "cancel" => cancelled
  /\ outcome[s] = "none" => (error[s] # "none" <=> seg[s] = "failing")
  /\ outcome[s] # "none" => (error[s] = "genuine" <=> outcome[s] = "failure")
  /\ error[s] = "cancellation" => cancelled
  /\ outcome[s] = "exit" <=> exit_at # None /\ turn = s
  /\ outcome[s] = "stopped" => exit_at # None
  /\ outcome[s] = "triggered" => cancelled
  /\ outcome[s] = "skipped" => stopped \/ cancelled
  /\ s < turn /\ outcome[s] \in {"skipped", "triggered"} => cancelled /\ exit_at = None

\* The one in whose place everything stops.
Culprit == \E s \in Segment : outcome[s] \in {"failure", "exit"}

SharedInv ==
  /\ lock # None => turn = lock /\ ~stopped
  /\ exit_at # None => stopped /\ turn \in Segment /\ exit_at \in turn..Last(turn)
  /\ stopped => cancelled \/ Culprit
  /\ cancelled => main = "returned" \/ capture \in {"reap", "failed"} \/ Culprit

\* What has been applied: everything before the stage that is next.
Frontier == IF exit_at # None THEN exit_at ELSE IF lock # None THEN at[lock] ELSE turn
PendingInv == exit_at # None \/ ~stopped => InSourceOrder(pending, Frontier)

IInv ==
  /\ setup \in Setups
  /\ TypeOK
  /\ MainInv /\ ChildrenInv
  /\ \A s \in Segment : PlaceInv(s) /\ OutcomeInv(s)
  /\ SharedInv /\ PendingInv
  /\ SlotsFilled /\ EarliestFailure /\ CommitAllOrNothing

-----------------------------------------------------------------------------
(* Stages and segments. *)

Less == {pair \in Nat \X Nat : pair[1] < pair[2]}

LEMMA LessIsWellFounded == IsWellFoundedOn(Less, Nat)
BY NatLessThanWellFounded, Zenon DEF Less, OpToRel

LEMMA LeastExists ==
  ASSUME NEW S, S \subseteq Nat, S # {}
  PROVE  Least(S) \in S /\ \A y \in S : Least(S) <= y
<1>1. PICK x \in S : \A y \in S : <<y, x>> \notin Less
  BY LessIsWellFounded, WFMin
<1>2. ASSUME NEW y \in S PROVE x <= y
  <2>1. <<y, x>> \in Nat \X Nat /\ <<y, x>>[1] = y /\ <<y, x>>[2] = x
    OBVIOUS
  <2>2. ~(y < x)
    BY <1>1, <2>1 DEF Less
  <2> QED
    BY <2>2
<1> QED
  BY <1>2 DEF Least

LEMMA SetupFacts ==
  ASSUME setup \in Setups
  PROVE  /\ Stages \in Nat \ {0} /\ Stage = 1..Stages /\ Stage \subseteq Nat /\ Stages \in Stage
         /\ Edges \subseteq Stage
         /\ Internal \subseteq Stage /\ Internal # {} /\ External \subseteq Stage
         /\ External = Stage \ Internal
         /\ Segment \subseteq Internal
         /\ \A s \in Segment : s \in Nat /\ s # None /\ s # Stages + 1 /\ s <= Stages
         /\ setup.capturing => Stages \in Edges
         /\ setup.max_writes \in Nat /\ setup.max_stops \in Nat
         /\ Capacity \in Nat /\ AutomaticResumeLimit \in Nat
<1>1. /\ Stages \in Nat \ {0} /\ Edges \subseteq 1..Stages /\ Internal \subseteq 1..Stages /\ Internal # {}
      /\ setup.capturing => Stages \in Edges
      /\ setup.max_writes \in Nat /\ setup.max_stops \in Nat
      /\ Capacity \in Nat /\ AutomaticResumeLimit \in Nat
  BY StageAssumption, MixedAssumption DEF Stages, Edges, Internal
<1>2. Segment \subseteq Internal
  BY DEF Segment
<1> QED
  BY <1>1, <1>2 DEF Stage, External, None

\* Every internal stage has the segment it is in.
LEMMA HeadOf ==
  ASSUME setup \in Setups, NEW k \in Internal
  PROVE  \E s \in Segment : s <= k /\ s..k \subseteq Internal
<1> DEFINE T == {t \in Internal : t <= k /\ t..k \subseteq Internal}
           s == Least(T)
<1>1. k \in T /\ T \subseteq Nat
  BY SetupFacts
<1>2. s \in T /\ \A y \in T : s <= y
  BY <1>1, LeastExists
<1> HIDE DEF s
<1>3. s - 1 \notin Internal
  <2> SUFFICES ASSUME s - 1 \in Internal PROVE FALSE
    OBVIOUS
  <2>1. s \in Nat /\ s - 1 \in Nat /\ k \in Nat
    BY <1>1, <1>2, SetupFacts
  <2>2. (s - 1)..k \subseteq Internal
    BY <1>2, <2>1
  <2>3. s - 1 \in T
    BY <1>2, <2>1, <2>2
  <2> QED
    BY <1>2, <2>1, <2>3
<1> QED
  BY <1>2, <1>3 DEF Segment

\* A segment reaches from its first stage to its last, and the next one is behind it.
LEMMA LastOf ==
  ASSUME setup \in Setups, NEW s \in Segment
  PROVE  /\ Last(s) \in Internal /\ s <= Last(s) /\ s..Last(s) \subseteq Internal
         /\ Last(s) + 1 \notin Internal
         /\ \A t \in Segment : t > s => t > Last(s)
<1> DEFINE T == {k \in Stage : s <= k /\ k + 1 \notin Internal}
           l == Least(T)
<1>1. s \in Nat /\ s \in Internal /\ T \subseteq Nat /\ Stages \in T /\ s \in Stage
  BY SetupFacts DEF Segment
<1>2. l \in T /\ \A y \in T : l <= y
  BY <1>1, LeastExists
<1> HIDE DEF l
<1>3. s..l \subseteq Internal
  <2> SUFFICES ASSUME NEW k \in s..l, k \notin Internal PROVE FALSE
    OBVIOUS
  <2>1. k # s /\ k - 1 >= s /\ k - 1 \in Nat /\ l \in Nat /\ l <= Stages /\ k \in Nat /\ s >= 1
    BY <1>1, <1>2, SetupFacts
  <2>2. k - 1 \in T
    BY <1>1, <2>1, SetupFacts
  <2> QED
    BY <1>2, <2>1, <2>2
<1>4. l \in Internal /\ s <= l /\ l + 1 \notin Internal /\ l \in Nat
  BY <1>1, <1>2, <1>3
<1>5. /\ Last(s) \in Internal /\ s <= Last(s) /\ s..Last(s) \subseteq Internal
      /\ Last(s) + 1 \notin Internal
  BY <1>3, <1>4 DEF Last
<1>6. ASSUME NEW t \in Segment, t > s PROVE t > Last(s)
  <2>1. t - 1 \notin Internal /\ t \in Nat /\ Last(s) \in Nat
    BY <1>5, SetupFacts DEF Segment
  <2>2. t - 1 \notin s..Last(s)
    BY <1>5, <2>1
  <2> QED
    BY <1>1, <1>6, <2>1, <2>2
<1> QED
  BY <1>5, <1>6

\* The turn passes to the next segment, and no internal stage is passed over.
LEMMA NextOf ==
  ASSUME setup \in Setups, NEW s \in Segment
  PROVE  /\ NextSegment(s) \in Segment \cup {Stages + 1}
         /\ NextSegment(s) > Last(s) /\ NextSegment(s) > s
         /\ \A t \in Segment : t > s => t >= NextSegment(s)
         /\ \A k \in Internal : k < NextSegment(s) <=> k <= Last(s)
<1> DEFINE T == {t \in Segment : t > s}
           n == NextSegment(s)
<1>1. s \in Nat /\ Last(s) \in Nat /\ s <= Last(s) /\ Last(s) <= Stages /\ T \subseteq Nat /\ Stages \in Nat
  BY SetupFacts, LastOf
<1>2. /\ n \in Segment \cup {Stages + 1} /\ n > Last(s) /\ n \in Nat
      /\ \A t \in Segment : t > s => t >= n
  <2>1. CASE T = {}
    <3>1. n = Stages + 1
      BY <2>1 DEF NextSegment
    <3> QED
      BY <1>1, <2>1, <3>1
  <2>2. CASE T # {}
    <3>1. n = Least(T)
      BY <2>2 DEF NextSegment
    <3>2. Least(T) \in T /\ \A y \in T : Least(T) <= y
      BY <1>1, <2>2, LeastExists
    <3> HIDE DEF n
    <3>3. n \in Segment /\ n > s /\ \A t \in Segment : t > s => n <= t
      BY <3>1, <3>2
    <3>4. n > Last(s) /\ n \in Nat
      BY <3>3, LastOf, SetupFacts
    <3> QED
      BY <1>1, <3>3, <3>4, SetupFacts
  <2> QED
    BY <2>1, <2>2
<1> HIDE DEF n
<1>3. ASSUME NEW k \in Internal, k > Last(s) PROVE k >= n
  <2>1. PICK t \in Segment : t <= k /\ t..k \subseteq Internal
    BY HeadOf
  <2>2. t \in Nat /\ k \in Nat
    BY SetupFacts
  <2>3. t > Last(s)
    <3> SUFFICES ASSUME t <= Last(s) PROVE FALSE
      BY <1>1, <2>2
    <3>1. Last(s) + 1 \in t..k
      BY <1>1, <1>3, <2>2
    <3> QED
      BY <2>1, <3>1, LastOf
  <2>4. t > s
    BY <1>1, <2>2, <2>3
  <2> QED
    BY <1>2, <2>1, <2>2, <2>4
<1>4. \A k \in Internal : k < n <=> k <= Last(s)
  <2> TAKE k \in Internal
  <2>1. k \in Nat
    BY SetupFacts
  <2> QED
    BY <1>1, <1>2, <1>3, <2>1
<1> QED
  BY <1>1, <1>2, <1>4 DEF n

\* The segments' turns begin with the first internal stage.
LEMMA FirstTurn ==
  ASSUME setup \in Setups
  PROVE  /\ Least(Segment) \in Segment
         /\ \A s \in Segment : Least(Segment) <= s
         /\ \A k \in Internal : ~(k < Least(Segment))
<1>1. Segment \subseteq Nat /\ Segment # {}
  BY SetupFacts, HeadOf
<1>2. Least(Segment) \in Segment /\ \A s \in Segment : Least(Segment) <= s
  BY <1>1, LeastExists
<1>3. ASSUME NEW k \in Internal PROVE ~(k < Least(Segment))
  <2>1. PICK t \in Segment : t <= k /\ t..k \subseteq Internal
    BY HeadOf
  <2>2. t \in Nat /\ k \in Nat /\ Least(Segment) \in Nat /\ Least(Segment) <= t
    BY <1>2, SetupFacts
  <2> QED
    BY <2>1, <2>2
<1> QED
  BY <1>2, <1>3

\* What is applied grows by the stage that is next.
LEMMA Applied ==
  ASSUME setup \in Setups, NEW seq \in Seq(Internal), NEW k \in Internal, NEW n \in Nat,
         InSourceOrder(seq, k), \A i \in Internal : i < n <=> i <= k
  PROVE  InSourceOrder(Append(seq, k), n) /\ Append(seq, k) \in Seq(Internal)
<1> DEFINE new == Append(seq, k)
           l == Len(seq)
<1>1. /\ new \in Seq(Internal) /\ Len(new) = l + 1 /\ l \in Nat
      /\ \A i \in 1..l : new[i] = seq[i]
      /\ new[l + 1] = k
  BY AppendProperties, LenProperties
<1>2. /\ {seq[i] : i \in 1..l} = {i \in Internal : i < k}
      /\ \A i, j \in 1..l : i < j => seq[i] < seq[j]
  BY DEF InSourceOrder
<1>3. \A i \in Internal : i \in Nat
  BY SetupFacts
<1> HIDE DEF l, new
<1>4. {new[i] : i \in 1..(l + 1)} = {i \in Internal : i < n}
  <2>1. {new[i] : i \in 1..(l + 1)} = {seq[i] : i \in 1..l} \cup {k}
    <3>1. 1..(l + 1) = (1..l) \cup {l + 1}
      BY <1>1
    <3> QED
      BY <1>1, <3>1
  <2>2. {i \in Internal : i < n} = {i \in Internal : i < k} \cup {k}
    BY <1>3
  <2> QED
    BY <1>2, <2>1, <2>2
<1>5. ASSUME NEW i \in 1..(l + 1), NEW j \in 1..(l + 1), i < j PROVE new[i] < new[j]
  <2>1. i \in 1..l /\ new[i] = seq[i] /\ seq[i] < k
    BY <1>1, <1>2, <1>5
  <2>2. CASE j = l + 1
    BY <1>1, <2>1, <2>2
  <2>3. CASE j \in 1..l
    BY <1>1, <1>2, <1>5, <2>1, <2>3
  <2> QED
    BY <1>1, <2>2, <2>3
<1> QED
  BY <1>1, <1>4, <1>5 DEF InSourceOrder, new

-----------------------------------------------------------------------------
(* What a step keeps when it leaves a part of the state alone. *)

LEMMA SetupFixed ==
  ASSUME UNCHANGED setup
  PROVE  /\ Stages' = Stages /\ Stage' = Stage /\ Edges' = Edges /\ Internal' = Internal
         /\ External' = External /\ Segment' = Segment /\ Endpoint' = Endpoint
         /\ \A s : Last(s)' = Last(s)
         /\ \A f : Fault(f)' = Fault(f)
BY DEF Stages, Stage, Edges, Internal, External, Segment, Endpoint, Last, Fault

LEMMA PlaceKept ==
  ASSUME UNCHANGED <<setup, turn>>, NEW s \in Segment, PlaceInv(s),
         seg'[s] = seg[s], at'[s] = at[s], outcome'[s] = outcome[s], lock' = s <=> lock = s
  PROVE  PlaceInv(s)'
BY SetupFixed DEF PlaceInv

LEMMA OutcomeKept ==
  ASSUME UNCHANGED <<turn, exit_at>>, NEW s \in Segment, OutcomeInv(s),
         seg'[s] = seg[s], outcome'[s] = outcome[s], error'[s] = error[s],
         cancelled => cancelled', stopped => stopped'
  PROVE  OutcomeInv(s)'
BY DEF OutcomeInv

\* While the threads run nothing is returned.
LEMMA RunKept ==
  ASSUME IInv, UNCHANGED <<setup, mainVars>>, main = "run", capture' # "none",
         \A t \in Segment : seg'[t] # "idle"
  PROVE  MainInv' /\ SlotsFilled' /\ EarliestFailure' /\ CommitAllOrNothing'
<1>1. /\ main' = "run" /\ index' = 1
      /\ result' = [kind |-> "none", stage |-> None] /\ state' = [applied |-> <<>>, merged |-> {}]
  BY DEF IInv, MainInv, mainVars
<1>2. MainInv'
  BY <1>1, SetupFixed DEF MainInv, Begun
<1>3. SlotsFilled' /\ EarliestFailure' /\ CommitAllOrNothing'
  BY <1>1 DEF SlotsFilled, EarliestFailure, CommitAllOrNothing
<1> QED
  BY <1>2, <1>3

LEMMA ChildrenKept ==
  ASSUME ChildrenInv, UNCHANGED <<setup, child, news, reaped, main, index, cancelled, capture>>,
         \A s \in Segment : seg[s] = "reap" => seg'[s] = "reap"
  PROVE  ChildrenInv'
BY SetupFixed DEF ChildrenInv, Gone

\* A segment that is neither idle nor done runs, and only then are there threads.
LEMMA Running ==
  ASSUME IInv, NEW s \in Segment, seg[s] \notin {"idle", "done"}
  PROVE  /\ main = "run" /\ capture # "none" /\ \A t \in Segment : seg[t] # "idle"
         /\ PlaceInv(s) /\ OutcomeInv(s)
BY DEF IInv, MainInv, Begun

\* Whose turn it is is a number, as the segments are.
LEMMA TurnTyped ==
  ASSUME IInv
  PROVE  turn \in Nat /\ \A s \in Segment : s \in Nat
<1>1. /\ turn \in Segment \cup {Stages + 1} /\ setup \in Setups
  BY DEF IInv, TypeOK
<1>2. /\ Stages \in Nat /\ \A s \in Segment : s \in Nat
  BY <1>1, SetupFacts
<1> QED
  BY <1>1, <1>2

\* Only s moves: the others stay where they are.
LEMMA OthersKept ==
  ASSUME IInv, UNCHANGED <<setup, turn, exit_at>>, NEW s \in Segment,
         \A t \in Segment \ {s} : /\ seg'[t] = seg[t] /\ at'[t] = at[t] /\ outcome'[t] = outcome[t]
                                  /\ error'[t] = error[t] /\ (lock' = t <=> lock = t),
         cancelled => cancelled', stopped => stopped',
         PlaceInv(s)', OutcomeInv(s)'
  PROVE  \A t \in Segment' : PlaceInv(t)' /\ OutcomeInv(t)'
<1>1. ASSUME NEW t \in Segment, t # s PROVE PlaceInv(t)' /\ OutcomeInv(t)'
  BY <1>1, PlaceKept, OutcomeKept DEF IInv
<1> QED
  BY <1>1, SetupFixed

\* What was stopped or cancelled stays so, and whose fault it was.
LEMMA SharedKept ==
  ASSUME IInv, UNCHANGED <<setup, main, capture, turn, exit_at, cancelled, stopped>>,
         lock' = lock \/ lock' = None, Culprit => Culprit'
  PROVE  SharedInv'
BY SetupFixed DEF IInv, SharedInv

LEMMA PendingKept ==
  ASSUME PendingInv, UNCHANGED <<setup, pending>>,
         exit_at' # None \/ ~stopped' => (exit_at # None \/ ~stopped) /\ Frontier' = Frontier
  PROVE  PendingInv'
BY SetupFixed DEF PendingInv, InSourceOrder

LEMMA FrontierKept ==
  ASSUME UNCHANGED <<exit_at, lock, turn>>, lock # None => at'[lock] = at[lock]
  PROVE  Frontier' = Frontier
BY DEF Frontier

\* A culprit stays one.
LEMMA CulpritKept ==
  ASSUME UNCHANGED setup,
         \A t \in Segment : outcome[t] \in {"failure", "exit"} => outcome'[t] = outcome[t]
  PROVE  Culprit => Culprit'
BY SetupFixed DEF Culprit

\* A chunk less in a pipe.
LEMMA Taken ==
  ASSUME NEW p, NEW e, p \in [Edges -> 0..Capacity], p[e] > 0, Capacity \in Nat
  PROVE  [p EXCEPT ![e] = @ - 1] \in [Edges -> 0..Capacity]
<1>1. CASE e \in Edges
  BY <1>1
<1>2. CASE e \notin Edges
  <2>1. [p EXCEPT ![e] = @ - 1] = p
    BY <1>2
  <2> QED
    BY <2>1
<1> QED
  BY <1>1, <1>2

LEMMA Added ==
  ASSUME NEW p, NEW e \in Edges, p \in [Edges -> 0..Capacity], p[e] < Capacity, Capacity \in Nat
  PROVE  [p EXCEPT ![e] = @ + 1] \in [Edges -> 0..Capacity]
OBVIOUS

-----------------------------------------------------------------------------
(* The operating system. *)

\* What the children do by themselves reaps nobody and starts nobody.
LEMMA ProcessKeeps ==
  ASSUME IInv, ProcessNext, Others, UNCHANGED setup
  PROVE  IInv'
<1>1. UNCHANGED <<held, main, index, resumes, tty, result, state, seg, at, input, carry, error,
                  outcome, lock, turn, stopped, exit_at, pending, cancelled, capture>>
  BY DEF Others, mainVars, segmentVars, sharedVars
<1>2. /\ ProcessTypeOK' /\ reaped' = reaped
      /\ \A i \in Stage : child'[i] = "absent" <=> child[i] = "absent"
      /\ \A i \in Stage : i \in news' => i \in news \/ child'[i] # "absent"
  <2>0. ProcessTypeOK /\ held' = held
    BY <1>1 DEF IInv, TypeOK
  <2>1. ASSUME NEW i \in Stage, ChildWrites(i)
        PROVE  ProcessTypeOK' /\ UNCHANGED <<reaped, child, news>>
    <3>1. i \in Edges /\ pipe[i] < Capacity /\ pipe' = [pipe EXCEPT ![i] = @ + 1]
          /\ wrote[i] < setup.max_writes /\ wrote' = [wrote EXCEPT ![i] = @ + 1]
          /\ UNCHANGED <<child, news, reaped, stops>>
      BY <2>1 DEF ChildWrites, WantsToWrite, Piped
    <3>2. pipe' \in [Edges -> 0..Capacity]
      BY <2>0, <3>1, Added, SetupFacts DEF ProcessTypeOK, IInv
    <3>3. wrote' \in [Stage -> 0..setup.max_writes]
      <4>1. wrote \in [Stage -> 0..setup.max_writes] /\ setup.max_writes \in Nat
        BY <2>0, SetupFacts DEF ProcessTypeOK, IInv
      <4> QED
        BY <3>1, <4>1
    <3> QED
      BY <2>0, <3>1, <3>2, <3>3, SetupFixed DEF ProcessTypeOK
  <2>2. ASSUME NEW i \in Stage, NEW st \in Status, child[i] = "running", Exits(i, st)
        PROVE  /\ ProcessTypeOK' /\ reaped' = reaped
               /\ \A k \in Stage : child'[k] = "absent" <=> child[k] = "absent"
               /\ \A k \in Stage : k \in news' => k \in news \/ child'[k] # "absent"
    BY <2>0, <2>2, SetupFixed DEF Exits, ProcessTypeOK, Status
  <2>3. ASSUME NEW i \in Stage, ChildReads(i)
        PROVE  ProcessTypeOK' /\ UNCHANGED <<reaped, child, news>>
    <3>1. pipe[i - 1] > 0 /\ pipe' = [pipe EXCEPT ![i - 1] = @ - 1]
          /\ UNCHANGED <<child, news, reaped, wrote, stops>>
      BY <2>3 DEF ChildReads
    <3>2. pipe' \in [Edges -> 0..Capacity]
      BY <2>0, <3>1, Taken, SetupFacts DEF ProcessTypeOK, IInv
    <3> QED
      BY <2>0, <3>1, <3>2, SetupFixed DEF ProcessTypeOK
  <2>4. CASE GroupStops
    <3>1. /\ stops' = stops + 1 /\ stops < setup.max_stops
          /\ child' = [i \in Stage |-> IF child[i] = "running" THEN "stopped" ELSE child[i]]
          /\ news' = news \cup {i \in Stage : child[i] = "running"}
          /\ UNCHANGED <<reaped, pipe, wrote>>
      BY <2>4 DEF GroupStops
    <3>2. child' \in [Stage -> {"absent", "running", "stopped"} \cup Status] /\ news' \subseteq Stage
      BY <2>0, <3>1 DEF ProcessTypeOK
    <3>3. stops' \in 0..setup.max_stops
      BY <2>0, <3>1, SetupFacts DEF ProcessTypeOK, IInv
    <3>4. ProcessTypeOK'
      BY <2>0, <3>1, <3>2, <3>3, SetupFixed DEF ProcessTypeOK
    <3> QED
      BY <3>1, <3>4
  <2>5. ASSUME NEW i \in Stage, ChildBreaks(i) \/ \E st \in {"ok", "failed"} : ChildExits(i, st)
        PROVE  \E st \in Status : child[i] = "running" /\ Exits(i, st)
    BY <2>5 DEF ChildBreaks, ChildExits, WantsToWrite, Status
  <2> QED
    BY <2>1, <2>2, <2>3, <2>4, <2>5 DEF ProcessNext
<1>3. TypeOK' /\ MainInv' /\ SharedInv' /\ PendingInv' /\ SlotsFilled' /\ EarliestFailure'
      /\ CommitAllOrNothing'
  BY <1>1, <1>2, SetupFixed
     DEF IInv, TypeOK, MainInv, Begun, SharedInv, Culprit, PendingInv, Frontier, InSourceOrder,
         SlotsFilled, EarliestFailure, CommitAllOrNothing
<1>4. ChildrenInv'
  BY <1>1, <1>2, SetupFixed, SetupFacts DEF IInv, ChildrenInv, Gone
<1>5. \A s \in Segment' : PlaceInv(s)' /\ OutcomeInv(s)'
  BY <1>1, PlaceKept, OutcomeKept, SetupFixed DEF IInv
<1> QED
  BY <1>1, <1>3, <1>4, <1>5 DEF IInv

-----------------------------------------------------------------------------
(* A segment prepares its stages. *)

LEMMA AdmittedKeeps ==
  ASSUME IInv, NEW s \in Segment, segment_admitted(s), UNCHANGED setup
  PROVE  IInv'
<1>1. /\ seg[s] = "waiting" /\ lock = None
      /\ UNCHANGED <<child, news, reaped, pipe, wrote, stops, mainVars, at, input, carry, error, turn,
                     stopped, exit_at, pending, cancelled, capture>>
  BY DEF segment_admitted, processVars
<1>2. /\ main = "run" /\ capture # "none" /\ \A t \in Segment : seg[t] # "idle"
      /\ PlaceInv(s) /\ OutcomeInv(s) /\ s # None
  BY <1>1, Running, SetupFacts DEF IInv
<1>3. TypeOK
  BY DEF IInv
<1>4. CASE stopped /\ Quit(s, "skipped") /\ UNCHANGED lock
  <2>1. /\ seg' = [seg EXCEPT ![s] = "done"] /\ outcome' = [outcome EXCEPT ![s] = "skipped"]
        /\ held' = held \ SegmentEnds(s)
    BY <1>4 DEF Quit
  <2>2. TypeOK'
    <3>1. seg' \in [Segment -> Place] /\ outcome' \in [Segment -> Outcome] /\ held' \subseteq Endpoint
      BY <1>3, <2>1 DEF TypeOK, ProcessTypeOK, Place, Outcome
    <3> QED
      BY <1>1, <1>3, <1>4, <3>1, SetupFixed DEF TypeOK, ProcessTypeOK, mainVars, Place, Outcome
  <2>3. /\ seg'[s] = "done" /\ outcome'[s] = "skipped"
        /\ \A t \in Segment \ {s} : seg'[t] = seg[t] /\ outcome'[t] = outcome[t]
    BY <1>3, <2>1 DEF TypeOK
  <2>4. PlaceInv(s)' /\ OutcomeInv(s)'
    <3>1. outcome[s] = "none"
      BY <1>1, <1>2 DEF OutcomeInv
    <3>2. ~(s < turn)
      BY <1>1, <1>2 DEF PlaceInv
    <3> QED
      BY <1>1, <1>2, <1>4, <2>3, <3>1, <3>2, SetupFixed DEF PlaceInv, OutcomeInv
  <2>5. \A t \in Segment' : PlaceInv(t)' /\ OutcomeInv(t)'
    BY <1>1, <1>4, <2>3, <2>4, OthersKept
  <2>6. MainInv' /\ SlotsFilled' /\ EarliestFailure' /\ CommitAllOrNothing'
    BY <1>1, <1>2, <2>3, RunKept
  <2>7. ChildrenInv'
    BY <1>1, <2>3, ChildrenKept DEF IInv, mainVars
  <2>8. SharedInv'
    <3>1. Culprit => Culprit'
      BY <1>1, <1>2, <2>3, CulpritKept DEF OutcomeInv
    <3> QED
      BY <1>1, <1>4, <3>1, SharedKept DEF mainVars
  <2>9. PendingInv'
    BY <1>1, <1>4, FrontierKept, PendingKept DEF IInv
  <2> QED
    BY <2>2, <2>5, <2>6, <2>7, <2>8, <2>9, SetupFixed DEF IInv
<1>5. CASE /\ ~stopped /\ turn = s /\ lock' = s /\ seg' = [seg EXCEPT ![s] = "stage"]
           /\ UNCHANGED <<held, outcome>>
  <2>1. TypeOK'
    <3>1. seg' \in [Segment -> Place]
      BY <1>3, <1>5 DEF TypeOK, Place
    <3> QED
      BY <1>1, <1>3, <1>5, <3>1, SetupFixed DEF TypeOK, ProcessTypeOK, mainVars, Place
  <2>2. seg'[s] = "stage" /\ \A t \in Segment \ {s} : seg'[t] = seg[t]
    BY <1>3, <1>5 DEF TypeOK
  <2>3. at[s] = s /\ outcome[s] = "none" /\ s \in s..Last(s)
    BY <1>1, <1>2, LastOf, SetupFacts DEF PlaceInv, OutcomeInv, IInv
  <2>4. PlaceInv(s)' /\ OutcomeInv(s)'
    BY <1>1, <1>2, <1>5, <2>2, <2>3, SetupFixed DEF PlaceInv, OutcomeInv
  <2>5. \A t \in Segment' : PlaceInv(t)' /\ OutcomeInv(t)'
    <3>1. \A t \in Segment \ {s} : lock' = t <=> lock = t
      BY <1>1, <1>5, SetupFacts DEF IInv
    <3> QED
      BY <1>1, <1>5, <2>2, <2>4, <3>1, OthersKept
  <2>6. MainInv' /\ SlotsFilled' /\ EarliestFailure' /\ CommitAllOrNothing'
    BY <1>1, <1>2, <2>2, RunKept
  <2>7. ChildrenInv'
    BY <1>1, <2>2, ChildrenKept DEF IInv, mainVars
  <2>8. SharedInv'
    <3>1. Culprit' = Culprit
      BY <1>5, SetupFixed DEF Culprit
    <3>2. exit_at = None
      BY <1>5 DEF IInv, SharedInv
    <3> QED
      BY <1>1, <1>5, <3>1, <3>2, SetupFixed DEF IInv, SharedInv, mainVars
  <2>9. PendingInv'
    <3>1. exit_at = None /\ Frontier = turn
      BY <1>1, <1>5 DEF IInv, SharedInv, Frontier
    <3>2. Frontier' = turn
      BY <1>1, <1>2, <1>5, <2>3, <3>1 DEF Frontier
    <3> QED
      BY <1>1, <1>5, <3>1, <3>2, PendingKept DEF IInv
  <2> QED
    BY <2>1, <2>5, <2>6, <2>7, <2>8, <2>9, SetupFixed DEF IInv
<1> QED
  BY <1>4, <1>5 DEF segment_admitted

\* The segment whose stage is executed: it holds the mutex, and nothing is stopped.
LEMMA Preparing ==
  ASSUME IInv, NEW s \in Segment, seg[s] \in {"stage", "eager"}
  PROVE  /\ lock = s /\ turn = s /\ s # None /\ ~stopped /\ exit_at = None /\ outcome[s] = "none"
         /\ error[s] = "none"
         /\ at[s] \in s..Last(s) /\ at[s] \in Internal /\ Frontier = at[s]
         /\ InSourceOrder(pending, at[s]) /\ pending \in Seq(Internal)
<1>1. PlaceInv(s) /\ OutcomeInv(s) /\ s # None
  BY SetupFacts DEF IInv
<1>2. lock = s /\ turn = s /\ ~stopped /\ exit_at = None /\ outcome[s] = "none" /\ error[s] = "none"
  BY <1>1 DEF PlaceInv, OutcomeInv, IInv, SharedInv
<1>3. at[s] \in s..Last(s) /\ at[s] \in Internal /\ Frontier = at[s]
  BY <1>1, <1>2 DEF PlaceInv, Frontier, IInv, TypeOK
<1> QED
  BY <1>1, <1>2, <1>3 DEF IInv, PendingInv, TypeOK

\* A preparation that ends early: skipped, in an exit or in a failure.
LEMMA QuitPreparing ==
  ASSUME IInv, UNCHANGED setup, NEW s \in Segment, seg[s] \in {"stage", "eager"},
         NEW how \in {"skipped", "exit", "failure", "triggered"}, Quit(s, how),
         stopped' = TRUE, lock' = None,
         exit_at' = IF how = "exit" THEN at[s] ELSE exit_at,
         NEW kind \in {"none", "genuine", "cancellation"}, error' = [error EXCEPT ![s] = kind],
         kind = "genuine" <=> how = "failure",
         kind = "cancellation" => cancelled,
         how \in {"skipped", "triggered"} => cancelled,
         how = "exit" => ~cancelled,
         UNCHANGED <<processVars, mainVars, at, input, carry, turn, pending, cancelled, capture>>
  PROVE  IInv'
<1>1. /\ lock = s /\ turn = s /\ s # None /\ ~stopped /\ exit_at = None /\ outcome[s] = "none"
      /\ at[s] \in s..Last(s) /\ at[s] \in Internal /\ Frontier = at[s]
  BY Preparing
<1>2. /\ main = "run" /\ capture # "none" /\ \A t \in Segment : seg[t] # "idle"
      /\ PlaceInv(s) /\ OutcomeInv(s) /\ TypeOK
  BY Running DEF IInv
<1> DEFINE next == IF how \in {"failure", "exit"} THEN "cancel" ELSE "done"
<1>3. /\ seg' = [seg EXCEPT ![s] = next] /\ outcome' = [outcome EXCEPT ![s] = how]
      /\ held' = held \ SegmentEnds(s)
  BY DEF Quit
<1>4. /\ seg'[s] = next /\ outcome'[s] = how /\ error'[s] = kind
      /\ \A t \in Segment \ {s} : seg'[t] = seg[t] /\ outcome'[t] = outcome[t] /\ error'[t] = error[t]
  BY <1>2, <1>3 DEF TypeOK
<1>5. at[s] # None
  BY <1>1, SetupFacts DEF IInv, None
<1>6. TypeOK'
  <2>1. seg' \in [Segment -> Place] /\ outcome' \in [Segment -> Outcome]
        /\ error' \in [Segment -> {"none", "genuine", "cancellation"}]
    BY <1>2, <1>3 DEF TypeOK, Place, Outcome
  <2>2. held' \subseteq Endpoint /\ exit_at' \in Internal \cup {None}
    BY <1>1, <1>2, <1>3 DEF TypeOK, ProcessTypeOK
  <2> QED
    BY <1>2, <2>1, <2>2, SetupFixed DEF TypeOK, ProcessTypeOK, mainVars, processVars, Place, Outcome
<1>7. PlaceInv(s)' /\ OutcomeInv(s)'
  <2>1. PlaceInv(s)'
    BY <1>1, <1>2, <1>4, SetupFixed DEF PlaceInv
  <2>2. ~(s < turn)
    BY <1>2 DEF PlaceInv
  <2>3. OutcomeInv(s)'
    BY <1>1, <1>4, <1>5, <2>2 DEF OutcomeInv
  <2> QED
    BY <2>1, <2>3
<1>8. ASSUME NEW t \in Segment, t # s PROVE PlaceInv(t)' /\ OutcomeInv(t)'
  <2>1. PlaceInv(t) /\ OutcomeInv(t)
    BY DEF IInv
  <2>2. PlaceInv(t)'
    BY <1>1, <1>4, <1>8, <2>1, PlaceKept, SetupFacts DEF IInv
  <2>3. OutcomeInv(t)'
    BY <1>1, <1>4, <1>8, <2>1 DEF OutcomeInv
  <2> QED
    BY <2>2, <2>3
<1>9. MainInv' /\ SlotsFilled' /\ EarliestFailure' /\ CommitAllOrNothing'
  BY <1>2, <1>4, RunKept
<1>10. ChildrenInv'
  BY <1>4, ChildrenKept DEF IInv, mainVars, processVars
<1>11. SharedInv'
  <2>1. Culprit => Culprit'
    BY <1>1, <1>4, CulpritKept
  <2>2. how \in {"failure", "exit"} => Culprit'
    BY <1>4, SetupFixed DEF Culprit
  <2> QED
    BY <1>1, <2>1, <2>2, SetupFixed DEF IInv, SharedInv, mainVars
<1>12. PendingInv'
  <2>1. exit_at' # None => Frontier' = at[s]
    BY <1>1 DEF Frontier
  <2> QED
    BY <1>1, <2>1, PendingKept DEF IInv
<1> QED
  BY <1>6, <1>7, <1>8, <1>9, <1>10, <1>11, <1>12, SetupFixed DEF IInv

LEMMA CancelledKeeps ==
  ASSUME IInv, NEW s \in Segment, segment_cancelled(s), UNCHANGED setup
  PROVE  IInv'
<1>1. error[s] = "none" /\ error \in [Segment -> {"none", "genuine", "cancellation"}]
  BY Preparing DEF segment_cancelled, IInv, TypeOK
<1>2. error' = [error EXCEPT ![s] = "none"]
  BY <1>1 DEF segment_cancelled
<1> QED
  BY <1>2, QuitPreparing DEF segment_cancelled

LEMMA ExitKeeps ==
  ASSUME IInv, NEW s \in Segment, execute_exit(s), UNCHANGED setup
  PROVE  IInv'
<1>1. error[s] = "none" /\ error \in [Segment -> {"none", "genuine", "cancellation"}]
  BY Preparing DEF execute_exit, IInv, TypeOK
<1>2. error' = [error EXCEPT ![s] = "none"]
  BY <1>1 DEF execute_exit
<1> QED
  BY <1>2, QuitPreparing DEF execute_exit

LEMMA StageFailsKeeps ==
  ASSUME IInv, NEW s \in Segment, stage_fails(s), UNCHANGED setup
  PROVE  IInv'
<1>1. PICK kind \in {"genuine", "cancellation"} :
        /\ kind = "cancellation" => cancelled
        /\ error' = [error EXCEPT ![s] = kind]
        /\ Quit(s, Failure(kind))
  BY DEF stage_fails
<1>2. /\ Failure(kind) \in {"failure", "triggered"} /\ (kind = "genuine" <=> Failure(kind) = "failure")
      /\ Failure(kind) = "triggered" => cancelled
  BY <1>1 DEF Failure
<1> HIDE DEF Failure
<1> QED
  BY <1>1, <1>2, QuitPreparing DEF stage_fails

\* A stage is done, the input perhaps read to its end.
LEMMA StageDoneKeeps ==
  ASSUME IInv, UNCHANGED setup, NEW s \in Segment, seg[s] \in {"stage", "eager"}, StageDone(s),
         pipe' \in [Edges -> 0..Capacity], held' \subseteq held,
         input' \in [Segment -> {"stream", "value", "spent"}],
         UNCHANGED <<child, news, reaped, wrote, stops, mainVars, carry, error, outcome, stopped,
                     exit_at, cancelled, capture>>
  PROVE  IInv'
<1>1. /\ lock = s /\ turn = s /\ s # None /\ ~stopped /\ exit_at = None /\ outcome[s] = "none"
      /\ error[s] = "none"
      /\ at[s] \in s..Last(s) /\ at[s] \in Internal /\ Frontier = at[s]
      /\ InSourceOrder(pending, at[s]) /\ pending \in Seq(Internal)
  BY Preparing
<1>2. /\ main = "run" /\ capture # "none" /\ \A t \in Segment : seg[t] # "idle"
      /\ PlaceInv(s) /\ OutcomeInv(s) /\ TypeOK
  BY Running DEF IInv
<1>3. s \in Nat /\ Last(s) \in Nat /\ at[s] \in Nat /\ \A k \in Internal : k \in Nat
  BY <1>1, SetupFacts, LastOf DEF IInv
<1>4. Culprit' = Culprit
  BY SetupFixed DEF Culprit
<1>5. CASE at[s] = Last(s)
  <2> DEFINE n == NextSegment(s)
  <2>1. /\ pending' = Append(pending, at[s]) /\ turn' = n /\ lock' = None
        /\ seg' = [seg EXCEPT ![s] = "prepared"] /\ at' = at
    BY <1>5 DEF StageDone
  <2>2. /\ n \in Segment \cup {Stages + 1} /\ n > Last(s) /\ n > s /\ n \in Nat /\ n # None
        /\ \A t \in Segment : t > s => t >= n
        /\ \A k \in Internal : k < n <=> k <= Last(s)
    <3>1. Stages + 1 \in Nat /\ Stages + 1 # None /\ \A t \in Segment : t \in Nat /\ t # None
      BY SetupFacts DEF IInv, None
    <3> QED
      BY <3>1, NextOf DEF IInv
  <2> HIDE DEF n
  <2>3. InSourceOrder(pending', n) /\ pending' \in Seq(Internal)
    BY <1>1, <1>5, <2>1, <2>2, Applied DEF IInv
  <2>4. TypeOK'
    <3>1. seg' \in [Segment -> Place] /\ at' \in [Segment -> Internal]
      BY <1>2, <2>1 DEF TypeOK, Place
    <3>2. turn' \in Segment \cup {Stages + 1} /\ lock' \in Segment \cup {None}
      BY <2>1, <2>2
    <3>3. ProcessTypeOK'
      BY <1>2, SetupFixed DEF TypeOK, ProcessTypeOK
    <3> QED
      BY <1>2, <2>3, <3>1, <3>2, <3>3, SetupFixed DEF TypeOK, mainVars
  <2>5. seg'[s] = "prepared" /\ \A t \in Segment \ {s} : seg'[t] = seg[t]
    BY <1>2, <2>1 DEF TypeOK
  <2>6. ASSUME NEW t \in Segment PROVE PlaceInv(t)'
    <3>1. PlaceInv(t) /\ t \in Nat
      BY SetupFacts DEF IInv
    <3>2. CASE t = s
      BY <1>1, <1>2, <2>1, <2>2, <2>5, <3>1, <3>2, SetupFixed, SetupFacts DEF PlaceInv, IInv
    <3>3. CASE t < s
      <4>1. t < turn /\ t < turn' /\ t # turn' /\ ~(t > turn') /\ t # s /\ lock' # t /\ lock # t
        BY <1>1, <1>3, <2>1, <2>2, <3>1, <3>3, SetupFacts DEF IInv
      <4>2. seg'[t] = seg[t] /\ seg[t] \notin {"idle", "waiting", "stage", "eager"}
        BY <2>5, <3>1, <4>1 DEF PlaceInv
      <4> QED
        BY <4>1, <4>2 DEF PlaceInv
    <3>4. CASE t > s
      <4>1. t >= n /\ t # s /\ lock' # t
        BY <1>3, <2>1, <2>2, <3>1, <3>4, SetupFacts DEF IInv
      <4>2. seg[t] \in {"idle", "waiting", "done"} /\ outcome[t] \in {"none", "skipped"}
        BY <1>1, <3>1, <3>4 DEF PlaceInv
      <4> QED
        BY <2>1, <2>2, <2>5, <3>1, <4>1, <4>2, SetupFixed DEF PlaceInv
    <3> QED
      BY <1>3, <3>1, <3>2, <3>3, <3>4
  <2>7. ASSUME NEW t \in Segment PROVE OutcomeInv(t)'
    <3>1. OutcomeInv(t) /\ t \in Nat
      BY SetupFacts DEF IInv
    <3>2. CASE t = s
      BY <1>1, <1>2, <2>1, <2>5, <3>1, <3>2 DEF OutcomeInv
    <3>3. CASE t < s
      BY <1>1, <1>3, <2>1, <2>5, <3>1, <3>3 DEF OutcomeInv
    <3>4. CASE t > s
      <4>1. ~(t < n) /\ t # s
        BY <1>3, <2>2, <3>1, <3>4
      <4> QED
        BY <1>1, <2>1, <2>5, <3>1, <4>1 DEF OutcomeInv
    <3> QED
      BY <1>3, <3>1, <3>2, <3>3, <3>4
  <2>8. MainInv' /\ SlotsFilled' /\ EarliestFailure' /\ CommitAllOrNothing'
    BY <1>2, <2>5, RunKept
  <2>9. ChildrenInv'
    BY <1>2, <2>5, ChildrenKept DEF IInv, mainVars
  <2>10. SharedInv'
    BY <1>1, <1>4, <2>1, SetupFixed DEF IInv, SharedInv, mainVars
  <2>11. PendingInv'
    <3>1. Frontier' = n
      BY <1>1, <2>1 DEF Frontier
    <3> QED
      BY <2>3, <3>1, SetupFixed DEF PendingInv, InSourceOrder
  <2> QED
    BY <2>4, <2>6, <2>7, <2>8, <2>9, <2>10, <2>11, SetupFixed DEF IInv
<1>6. CASE at[s] # Last(s)
  <2>1. /\ pending' = Append(pending, at[s]) /\ turn' = turn /\ lock' = lock
        /\ seg' = [seg EXCEPT ![s] = "stage"] /\ at' = [at EXCEPT ![s] = @ + 1]
    BY <1>6 DEF StageDone
  <2>2. at[s] + 1 \in s..Last(s) /\ at[s] + 1 \in Internal
    BY <1>1, <1>3, <1>6, LastOf DEF IInv
  <2>3. InSourceOrder(pending', at[s] + 1) /\ pending' \in Seq(Internal)
    <3>1. \A k \in Internal : k < at[s] + 1 <=> k <= at[s]
      BY <1>3
    <3> QED
      BY <1>1, <1>3, <2>1, <3>1, Applied DEF IInv
  <2>4. TypeOK'
    <3>1. seg' \in [Segment -> Place] /\ at' \in [Segment -> Internal]
      BY <1>2, <2>1, <2>2 DEF TypeOK, Place
    <3> QED
      BY <1>2, <2>1, <2>3, <3>1, SetupFixed DEF TypeOK, ProcessTypeOK, mainVars, Place
  <2>5. /\ seg'[s] = "stage" /\ at'[s] = at[s] + 1
        /\ \A t \in Segment \ {s} : seg'[t] = seg[t] /\ at'[t] = at[t]
    BY <1>2, <2>1 DEF TypeOK
  <2>6. PlaceInv(s)' /\ OutcomeInv(s)'
    BY <1>1, <1>2, <2>1, <2>2, <2>5, SetupFixed DEF PlaceInv, OutcomeInv
  <2>7. \A t \in Segment' : PlaceInv(t)' /\ OutcomeInv(t)'
    BY <2>1, <2>5, <2>6, OthersKept
  <2>8. MainInv' /\ SlotsFilled' /\ EarliestFailure' /\ CommitAllOrNothing'
    BY <1>2, <2>5, RunKept
  <2>9. ChildrenInv'
    BY <1>2, <2>5, ChildrenKept DEF IInv, mainVars
  <2>10. SharedInv'
    BY <1>1, <1>4, <2>1, SetupFixed DEF IInv, SharedInv, mainVars
  <2>11. PendingInv'
    <3>1. Frontier' = at[s] + 1
      BY <1>1, <2>1, <2>5 DEF Frontier
    <3> QED
      BY <2>3, <3>1, SetupFixed DEF PendingInv, InSourceOrder
  <2> QED
    BY <2>4, <2>7, <2>8, <2>9, <2>10, <2>11, SetupFixed DEF IInv
<1> QED
  BY <1>5, <1>6

\* Chunks that are read and written move nobody.
LEMMA DataKeeps ==
  ASSUME IInv,
         UNCHANGED <<setup, child, news, reaped, wrote, stops, mainVars, seg, at, error, outcome,
                     sharedVars, cancelled, capture>>,
         pipe' \in [Edges -> 0..Capacity], held' \subseteq held,
         input' \in [Segment -> {"stream", "value", "spent"}], carry' \in [Segment -> BOOLEAN]
  PROVE  IInv'
<1>1. UNCHANGED <<main, index, resumes, tty, result, state, lock, turn, stopped, exit_at, pending>>
  BY DEF mainVars, sharedVars
<1>2. TypeOK'
  BY <1>1, SetupFixed DEF IInv, TypeOK, ProcessTypeOK
<1>3. MainInv' /\ SharedInv' /\ PendingInv' /\ SlotsFilled' /\ EarliestFailure' /\ CommitAllOrNothing'
  BY <1>1, SetupFixed
     DEF IInv, MainInv, Begun, SharedInv, Culprit, PendingInv, Frontier, InSourceOrder,
         SlotsFilled, EarliestFailure, CommitAllOrNothing
<1>4. ChildrenInv'
  BY <1>1, ChildrenKept DEF IInv
<1>5. \A s \in Segment' : PlaceInv(s)' /\ OutcomeInv(s)'
  BY <1>1, PlaceKept, OutcomeKept, SetupFixed DEF IInv
<1> QED
  BY <1>2, <1>3, <1>4, <1>5 DEF IInv

\* A segment goes on, to an eager read or in its drain.
LEMMA MoveKeeps ==
  ASSUME IInv, UNCHANGED setup, NEW s \in Segment, NEW next \in Place,
         seg' = [seg EXCEPT ![s] = next],
         NEW kind \in {"none", "genuine", "cancellation"}, error' = [error EXCEPT ![s] = kind],
         \/ seg[s] = "stage" /\ next = "eager" /\ kind = "none"
         \/ seg[s] = "prepared" /\ next = "drain" /\ kind = "none"
         \/ seg[s] = "drain" /\ next = "failing" /\ kind # "none",
         kind = "cancellation" => cancelled,
         held' \subseteq held,
         UNCHANGED <<processVars, mainVars, at, input, carry, outcome, sharedVars, cancelled, capture>>
  PROVE  IInv'
<1>1. /\ main = "run" /\ capture # "none" /\ \A t \in Segment : seg[t] # "idle"
      /\ PlaceInv(s) /\ OutcomeInv(s) /\ TypeOK
  BY Running DEF IInv
<1>2. UNCHANGED <<main, index, lock, turn, stopped, exit_at, pending, child, news, reaped, pipe, wrote,
                  stops>>
  BY DEF mainVars, sharedVars, processVars
<1>3. TypeOK'
  <2>1. seg' \in [Segment -> Place] /\ error' \in [Segment -> {"none", "genuine", "cancellation"}]
    BY <1>1 DEF TypeOK
  <2>2. held' \subseteq Endpoint
    BY <1>1 DEF TypeOK, ProcessTypeOK
  <2> QED
    BY <1>1, <1>2, <2>1, <2>2, SetupFixed DEF TypeOK, ProcessTypeOK, mainVars, sharedVars
<1>4. /\ seg'[s] = next /\ error'[s] = kind
      /\ \A t \in Segment \ {s} : seg'[t] = seg[t] /\ error'[t] = error[t]
  BY <1>1 DEF TypeOK
<1>5. PlaceInv(s)' /\ OutcomeInv(s)'
  BY <1>1, <1>2, <1>4, SetupFixed DEF PlaceInv, OutcomeInv
<1>6. \A t \in Segment' : PlaceInv(t)' /\ OutcomeInv(t)'
  BY <1>2, <1>4, <1>5, OthersKept
<1>7. MainInv' /\ SlotsFilled' /\ EarliestFailure' /\ CommitAllOrNothing'
  BY <1>1, <1>4, RunKept
<1>8. ChildrenInv'
  BY <1>2, <1>4, ChildrenKept DEF IInv
<1>9. SharedInv'
  BY <1>2, CulpritKept, SharedKept
<1>10. PendingInv'
  BY <1>2, FrontierKept, PendingKept DEF IInv
<1> QED
  BY <1>3, <1>6, <1>7, <1>8, <1>9, <1>10, SetupFixed DEF IInv

LEMMA ExecuteKeeps ==
  ASSUME IInv, NEW s \in Segment, execute_stage(s), UNCHANGED setup
  PROVE  IInv'
<1>1. /\ seg[s] = "stage"
      /\ UNCHANGED <<child, news, reaped, pipe, wrote, stops, held, mainVars, input, carry, error,
                     outcome, stopped, exit_at, cancelled, capture>>
  BY DEF execute_stage, osVars, processVars
<1>2. TypeOK
  BY DEF IInv
<1>3. CASE StageDone(s)
  BY <1>1, <1>2, <1>3, StageDoneKeeps DEF TypeOK, ProcessTypeOK
<1>4. CASE seg' = [seg EXCEPT ![s] = "eager"] /\ UNCHANGED <<pending, at, turn, lock>>
  <2>1. error[s] = "none"
    BY <1>1, Preparing
  <2>2. error' = [error EXCEPT ![s] = "none"] /\ "eager" \in Place
    BY <1>1, <1>2, <2>1 DEF TypeOK, Place
  <2> QED
    BY <1>1, <1>4, <2>2, MoveKeeps DEF processVars, sharedVars
<1> QED
  BY <1>3, <1>4 DEF execute_stage

LEMMA EagerPullKeeps ==
  ASSUME IInv, NEW s \in Segment, eager_pull(s), UNCHANGED setup
  PROVE  IInv'
<1>1. /\ seg[s] = "eager"
      /\ UNCHANGED <<child, news, reaped, wrote, stops, mainVars, carry, error, outcome, stopped,
                     exit_at, cancelled, capture>>
  BY DEF eager_pull
<1>2. TypeOK /\ Capacity \in Nat
  BY SetupFacts DEF IInv
<1>3. CASE /\ pipe[s - 1] > 0 /\ pipe' = [pipe EXCEPT ![s - 1] = @ - 1]
           /\ UNCHANGED <<held, input, pending, at, turn, lock, seg>>
  <2>1. pipe' \in [Edges -> 0..Capacity]
    BY <1>2, <1>3, Taken DEF TypeOK, ProcessTypeOK
  <2> QED
    BY <1>1, <1>2, <1>3, <2>1, DataKeeps DEF TypeOK, sharedVars
<1>4. CASE /\ input' = [input EXCEPT ![s] = "value"] /\ held' = held \ {<<s - 1, "r">>}
           /\ StageDone(s) /\ UNCHANGED pipe
  <2>1. input' \in [Segment -> {"stream", "value", "spent"}] /\ pipe' \in [Edges -> 0..Capacity]
    BY <1>2, <1>4 DEF TypeOK, ProcessTypeOK
  <2> QED
    BY <1>1, <1>4, <2>1, StageDoneKeeps
<1> QED
  BY <1>3, <1>4 DEF eager_pull

-----------------------------------------------------------------------------
(* A segment drains. *)

\* A segment that has been prepared: its turn is over, and an exit is behind it.
LEMMA Draining ==
  ASSUME IInv, NEW s \in Segment, seg[s] \in {"prepared", "drain", "failing"}
  PROVE  /\ s < turn /\ outcome[s] = "none" /\ s # None /\ lock # s
         /\ (exit_at # None <=> StopsForExit(s))
         /\ (error[s] # "none" <=> seg[s] = "failing")
<1>1. PlaceInv(s) /\ OutcomeInv(s) /\ s \in Nat /\ s # None
  BY SetupFacts DEF IInv
<1>2. turn \in Nat
  BY TurnTyped
<1>3. s < turn /\ outcome[s] = "none" /\ lock # s /\ (error[s] # "none" <=> seg[s] = "failing")
  BY <1>1, <1>2 DEF PlaceInv, OutcomeInv
<1>4. ASSUME exit_at # None PROVE s < exit_at
  <2>1. turn \in Segment /\ exit_at \in turn..Last(turn)
    BY <1>4 DEF IInv, SharedInv
  <2>2. Last(turn) \in Nat
    BY <2>1, LastOf, SetupFacts DEF IInv
  <2> QED
    BY <1>1, <1>2, <1>3, <2>1, <2>2
<1> QED
  BY <1>1, <1>3, <1>4 DEF StopsForExit

LEMMA QuitDraining ==
  ASSUME IInv, UNCHANGED setup, NEW s \in Segment, seg[s] \in {"prepared", "drain", "failing"},
         NEW how \in {"completed", "stopped", "skipped", "failure", "triggered"}, Quit(s, how),
         \/ stopped' = stopped
         \/ stopped' = TRUE /\ lock = None /\ (cancelled \/ how = "failure" \/ stopped),
         how = "failure" <=> error[s] = "genuine",
         how = "stopped" => exit_at # None,
         how \in {"skipped", "triggered"} => cancelled /\ exit_at = None,
         UNCHANGED <<processVars, mainVars, at, input, carry, error, lock, turn, exit_at, pending,
                     cancelled, capture>>
  PROVE  IInv'
<1>1. s < turn /\ outcome[s] = "none" /\ s # None
  BY Draining
<1>2. /\ main = "run" /\ capture # "none" /\ \A t \in Segment : seg[t] # "idle"
      /\ PlaceInv(s) /\ OutcomeInv(s) /\ TypeOK
  BY Running DEF IInv
<1> DEFINE next == IF how \in {"failure", "exit"} THEN "cancel" ELSE "done"
<1>3. /\ seg' = [seg EXCEPT ![s] = next] /\ outcome' = [outcome EXCEPT ![s] = how]
      /\ held' = held \ SegmentEnds(s)
  BY DEF Quit
<1>4. /\ seg'[s] = next /\ outcome'[s] = how
      /\ \A t \in Segment \ {s} : seg'[t] = seg[t] /\ outcome'[t] = outcome[t]
  BY <1>2, <1>3 DEF TypeOK
<1>5. s \in Nat /\ turn \in Nat /\ stopped \in BOOLEAN
  BY <1>2, TurnTyped DEF TypeOK
<1>6. TypeOK'
  <2>1. seg' \in [Segment -> Place] /\ outcome' \in [Segment -> Outcome]
    BY <1>2, <1>3 DEF TypeOK, Place, Outcome
  <2>2. held' \subseteq Endpoint /\ stopped' \in BOOLEAN
    BY <1>2, <1>3 DEF TypeOK, ProcessTypeOK
  <2> QED
    BY <1>2, <2>1, <2>2, SetupFixed DEF TypeOK, ProcessTypeOK, mainVars, processVars
<1>7. PlaceInv(s)' /\ OutcomeInv(s)'
  <2>1. PlaceInv(s)'
    BY <1>1, <1>2, <1>4, <1>5, SetupFixed DEF PlaceInv
  <2>2. OutcomeInv(s)'
    BY <1>1, <1>2, <1>4, <1>5 DEF OutcomeInv
  <2> QED
    BY <2>1, <2>2
<1>8. \A t \in Segment' : PlaceInv(t)' /\ OutcomeInv(t)'
  BY <1>4, <1>5, <1>7, OthersKept
<1>9. MainInv' /\ SlotsFilled' /\ EarliestFailure' /\ CommitAllOrNothing'
  BY <1>2, <1>4, RunKept
<1>10. ChildrenInv'
  BY <1>4, ChildrenKept DEF IInv, mainVars, processVars
<1>11. SharedInv'
  <2>1. Culprit => Culprit'
    BY <1>1, <1>4, CulpritKept
  <2>2. how = "failure" => Culprit'
    BY <1>4, SetupFixed DEF Culprit
  <2> QED
    BY <1>5, <2>1, <2>2, SetupFixed DEF IInv, SharedInv, mainVars
<1>12. PendingInv'
  <2>1. Frontier' = Frontier
    BY FrontierKept
  <2> QED
    BY <1>5, <2>1, PendingKept DEF IInv
<1> QED
  BY <1>6, <1>8, <1>9, <1>10, <1>11, <1>12, SetupFixed DEF IInv

LEMMA PreparedKeeps ==
  ASSUME IInv, NEW s \in Segment, segment_prepared(s), UNCHANGED setup
  PROVE  IInv'
<1>1. /\ seg[s] = "prepared"
      /\ UNCHANGED <<processVars, mainVars, at, input, carry, error, sharedVars, cancelled, capture>>
      /\ UNCHANGED <<lock, turn, stopped, exit_at, pending>>
  BY DEF segment_prepared, sharedVars
<1>2. error[s] = "none" /\ (exit_at # None <=> StopsForExit(s))
  BY <1>1, Draining
<1>3. CASE seg' = [seg EXCEPT ![s] = "drain"] /\ UNCHANGED <<outcome, held>>
  <2>1. error' = [error EXCEPT ![s] = "none"] /\ "drain" \in Place
    BY <1>1, <1>2 DEF IInv, TypeOK, Place
  <2> QED
    BY <1>1, <1>3, <2>1, MoveKeeps
<1>4. CASE cancelled /\ Quit(s, IF StopsForExit(s) THEN "stopped" ELSE "skipped")
  <2> DEFINE how == IF StopsForExit(s) THEN "stopped" ELSE "skipped"
  <2>1. /\ how \in {"completed", "stopped", "skipped", "failure", "triggered"} /\ Quit(s, how)
        /\ how # "failure" /\ how # "triggered" /\ (how = "stopped" <=> exit_at # None)
    BY <1>2, <1>4
  <2> HIDE DEF how
  <2>2. how = "failure" <=> error[s] = "genuine"
    BY <1>2, <2>1
  <2> QED
    BY <1>1, <1>4, <2>1, <2>2, QuitDraining
<1> QED
  BY <1>3, <1>4 DEF segment_prepared

LEMMA PullKeeps ==
  ASSUME IInv, NEW s \in Segment, drain_pull(s), UNCHANGED setup
  PROVE  IInv'
<1>1. TypeOK /\ Capacity \in Nat
  BY SetupFacts DEF IInv
<1>2. pipe' \in [Edges -> 0..Capacity]
  <2>1. pipe \in [Edges -> 0..Capacity]
    BY <1>1 DEF TypeOK, ProcessTypeOK
  <2>2. CASE pipe[s - 1] > 0 /\ pipe' = [pipe EXCEPT ![s - 1] = @ - 1]
    BY <1>1, <2>1, <2>2, Taken
  <2> QED
    BY <2>1, <2>2 DEF drain_pull
<1>3. carry' \in [Segment -> BOOLEAN] /\ input' \in [Segment -> {"stream", "value", "spent"}]
  BY <1>1 DEF drain_pull, TypeOK
<1> QED
  BY <1>2, <1>3, DataKeeps DEF drain_pull

LEMMA WriteKeeps ==
  ASSUME IInv, NEW s \in Segment, drain_write(s), UNCHANGED setup
  PROVE  IInv'
<1>1. TypeOK /\ Capacity \in Nat
  BY SetupFacts DEF IInv
<1>2. pipe' \in [Edges -> 0..Capacity]
  BY <1>1, Added DEF drain_write, TypeOK, ProcessTypeOK
<1>3. carry' \in [Segment -> BOOLEAN] /\ input' \in [Segment -> {"stream", "value", "spent"}]
  BY <1>1 DEF drain_write, TypeOK
<1> QED
  BY <1>2, <1>3, DataKeeps DEF drain_write

LEMMA EndsKeeps ==
  ASSUME IInv, NEW s \in Segment, drain_ends(s), UNCHANGED setup
  PROVE  IInv'
<1> DEFINE how == "completed"
<1>1. /\ seg[s] = "drain" /\ Quit(s, how)
      /\ UNCHANGED <<processVars, mainVars, at, input, carry, error, sharedVars, cancelled, capture>>
      /\ UNCHANGED <<lock, turn, stopped, exit_at, pending>>
  BY DEF drain_ends, sharedVars
<1>2. how = "completed" /\ error[s] # "genuine"
  BY <1>1, Draining
<1> HIDE DEF how
<1> QED
  BY <1>1, <1>2, QuitDraining

LEMMA DrainFailsKeeps ==
  ASSUME IInv, NEW s \in Segment, drain_fails(s), UNCHANGED setup
  PROVE  IInv'
<1>1. PICK kind \in {"genuine", "cancellation"} :
        (kind = "cancellation" => cancelled) /\ error' = [error EXCEPT ![s] = kind]
  BY DEF drain_fails
<1>2. "failing" \in Place
  BY DEF Place
<1> QED
  BY <1>1, <1>2, MoveKeeps DEF drain_fails

LEMMA SegmentFailsKeeps ==
  ASSUME IInv, NEW s \in Segment, segment_fails(s), UNCHANGED setup
  PROVE  IInv'
<1> DEFINE how == IF StopsForExit(s) /\ error[s] = "cancellation" THEN "stopped" ELSE Failure(error[s])
<1>1. /\ seg[s] = "failing" /\ lock = None /\ stopped' = TRUE /\ Quit(s, how)
      /\ UNCHANGED <<processVars, mainVars, at, input, carry, error, lock, turn, exit_at, pending,
                     cancelled, capture>>
  BY DEF segment_fails
<1>2. /\ exit_at # None <=> StopsForExit(s)
      /\ error[s] \in {"genuine", "cancellation"} /\ (error[s] = "cancellation" => cancelled)
  BY <1>1, Draining DEF IInv, TypeOK, OutcomeInv
<1>3. /\ how \in {"stopped", "failure", "triggered"}
      /\ how = "failure" <=> error[s] = "genuine"
      /\ how = "stopped" => exit_at # None
      /\ how = "triggered" => cancelled /\ exit_at = None
  BY <1>2 DEF Failure
<1>4. exit_at # None => stopped
  BY DEF IInv, SharedInv
<1> HIDE DEF how
<1>5. cancelled \/ how = "failure" \/ stopped
  BY <1>3, <1>4
<1> QED
  BY <1>1, <1>3, <1>5, QuitDraining

-----------------------------------------------------------------------------
(* Cancellation. *)

\* Children that are terminated and waited for are gone.
LEMMA Reaped ==
  ASSUME IInv, UNCHANGED setup, NEW set, set \subseteq External, TerminateAndReap(set), held' \subseteq held
  PROVE  /\ ProcessTypeOK' /\ news' \subseteq news
         /\ \A i \in set : Gone(i)'
         /\ \A i \in Stage : Gone(i) => Gone(i)'
         /\ \A i \in Stage : child'[i] = "absent" <=> child[i] = "absent"
<1> DEFINE begun == {i \in set : child[i] # "absent"}
<1>1. /\ child' = [i \in Stage |-> IF i \in set /\ Alive(i) THEN "killed" ELSE child[i]]
      /\ reaped' = reaped \cup begun /\ news' = news \ begun
      /\ UNCHANGED <<pipe, wrote, stops>>
  BY DEF TerminateAndReap
<1>2. ProcessTypeOK /\ set \subseteq Stage
  BY SetupFacts DEF IInv, TypeOK
<1>3. \A i \in Stage : child'[i] = "absent" <=> child[i] = "absent"
  BY <1>1 DEF Alive
<1>4. child' \in [Stage -> {"absent", "running", "stopped"} \cup Status]
  BY <1>1, <1>2 DEF ProcessTypeOK, Status
<1>5. ProcessTypeOK'
  BY <1>1, <1>2, <1>4, SetupFixed DEF ProcessTypeOK
<1> QED
  BY <1>1, <1>2, <1>3, <1>5 DEF Gone

LEMMA CancelsKeeps ==
  ASSUME IInv, NEW s \in Segment, segment_cancels(s), UNCHANGED setup
  PROVE  IInv'
<1>1. /\ seg[s] \in {"cancel", "reap"}
      /\ UNCHANGED <<held, mainVars, at, input, carry, error, outcome, capture,
                     lock, turn, stopped, exit_at, pending, main, index>>
  BY DEF segment_cancels, sharedVars, mainVars
<1>2. /\ main = "run" /\ capture # "none" /\ \A t \in Segment : seg[t] # "idle"
      /\ PlaceInv(s) /\ OutcomeInv(s) /\ TypeOK
  BY <1>1, Running DEF IInv
<1>3. outcome[s] \in {"failure", "exit"} /\ Culprit /\ Culprit'
  <2>1. outcome[s] \in {"failure", "exit"}
    BY <1>1, <1>2 DEF OutcomeInv
  <2> QED
    BY <1>1, <2>1, SetupFixed DEF Culprit
<1>4. ASSUME NEW next \in {"reap", "done"}, seg' = [seg EXCEPT ![s] = next], cancelled' = TRUE,
             ProcessTypeOK', ChildrenInv'
      PROVE  IInv'
  <2>1. seg'[s] = next /\ \A t \in Segment \ {s} : seg'[t] = seg[t]
    BY <1>2, <1>4 DEF TypeOK
  <2>2. TypeOK'
    <3>1. seg' \in [Segment -> Place]
      BY <1>2, <1>4 DEF TypeOK, Place
    <3> QED
      BY <1>1, <1>2, <1>4, <3>1, SetupFixed DEF TypeOK, mainVars
  <2>3. PlaceInv(s)' /\ OutcomeInv(s)'
    BY <1>1, <1>2, <1>4, <2>1, SetupFixed DEF PlaceInv, OutcomeInv
  <2>4. \A t \in Segment' : PlaceInv(t)' /\ OutcomeInv(t)'
    BY <1>1, <1>4, <2>1, <2>3, OthersKept
  <2>5. MainInv' /\ SlotsFilled' /\ EarliestFailure' /\ CommitAllOrNothing'
    BY <1>1, <1>2, <2>1, <1>4, RunKept
  <2>6. SharedInv'
    BY <1>1, <1>3, SetupFixed DEF IInv, SharedInv
  <2>7. PendingInv'
    BY <1>1, FrontierKept, PendingKept DEF IInv
  <2> QED
    BY <1>4, <2>2, <2>4, <2>5, <2>6, <2>7, SetupFixed DEF IInv
<1>5. CASE seg[s] = "cancel" /\ seg' = [seg EXCEPT ![s] = Trip] /\ cancelled' = TRUE /\ UNCHANGED processVars
  <2>1. ProcessTypeOK'
    BY <1>1, <1>2, <1>5, SetupFixed DEF TypeOK, ProcessTypeOK, processVars
  <2>2. Trip \in {"reap", "done"} /\ (cancelled <=> Trip = "done")
    BY DEF Trip
  <2>3. seg'[s] = Trip /\ \A t \in Segment \ {s} : seg'[t] = seg[t]
    BY <1>2, <1>5 DEF TypeOK
  <2>4. ChildrenInv'
    <3>1. (\E t \in Segment : seg[t] = "reap") => \E t \in Segment : seg'[t] = "reap"
      BY <1>5, <2>3
    <3> QED
      BY <1>1, <1>2, <1>5, <2>2, <2>3, <3>1, SetupFixed DEF IInv, ChildrenInv, Gone, processVars
  <2> QED
    BY <1>4, <1>5, <2>1, <2>2, <2>4
<1>6. CASE seg[s] = "reap" /\ TerminateAndReap(External) /\ seg' = [seg EXCEPT ![s] = "done"]
           /\ UNCHANGED cancelled
  <2>1. /\ ProcessTypeOK' /\ news' \subseteq news
        /\ \A i \in External : Gone(i)'
        /\ \A i \in Stage : child'[i] = "absent" <=> child[i] = "absent"
    BY <1>1, <1>6, Reaped
  <2>2. ChildrenInv'
    BY <1>1, <1>2, <2>1, SetupFixed, SetupFacts DEF IInv, ChildrenInv
  <2>3. cancelled
    BY <1>2, <1>3, <1>6 DEF OutcomeInv
  <2> QED
    BY <1>2, <1>4, <1>6, <2>1, <2>2, <2>3 DEF TypeOK
<1> QED
  BY <1>5, <1>6 DEF segment_cancels

\* The capture thread moves, and with it perhaps the token and the children.
LEMMA CaptureMoves ==
  ASSUME IInv, UNCHANGED <<setup, mainVars, segmentVars, sharedVars>>,
         capture \in {"reading", "cancel", "reap"}, capture' \in {"cancel", "reap", "done", "failed"},
         cancelled' \in BOOLEAN, cancelled => cancelled',
         capture \in {"reading", "cancel"} \/ capture' = "failed",
         cancelled' = cancelled \/ capture' \in {"reap", "failed"},
         ProcessTypeOK', ChildrenInv'
  PROVE  IInv'
<1>1. main = "run" /\ TypeOK /\ \A t \in Segment : seg[t] # "idle"
  BY DEF IInv, MainInv, Begun
<1>2. UNCHANGED <<main, index, resumes, tty, result, state, seg, at, input, carry, error,
                  outcome, lock, turn, stopped, exit_at, pending>>
  BY DEF mainVars, segmentVars, sharedVars
<1>3. TypeOK'
  BY <1>1, <1>2, SetupFixed DEF TypeOK
<1>4. \A t \in Segment' : PlaceInv(t)' /\ OutcomeInv(t)'
  BY <1>2, PlaceKept, OutcomeKept, SetupFixed DEF IInv
<1>5. MainInv' /\ SlotsFilled' /\ EarliestFailure' /\ CommitAllOrNothing'
  BY <1>1, <1>2, RunKept
<1>6. SharedInv'
  BY <1>1, <1>2, SetupFixed DEF IInv, SharedInv, Culprit
<1>7. PendingInv'
  BY <1>2, FrontierKept, PendingKept DEF IInv
<1> QED
  BY <1>3, <1>4, <1>5, <1>6, <1>7, SetupFixed DEF IInv

LEMMA DrainCaptureKeeps ==
  ASSUME IInv, drain_capture, UNCHANGED setup
  PROVE  IInv'
<1>1. UNCHANGED <<mainVars, segmentVars, sharedVars, main, index, seg>>
  BY DEF drain_capture, mainVars, segmentVars
<1>2. TypeOK /\ ProcessTypeOK /\ Capacity \in Nat
  BY SetupFacts DEF IInv, TypeOK
<1>3. CASE /\ pipe[Stages] > 0 /\ pipe' = [pipe EXCEPT ![Stages] = @ - 1]
           /\ UNCHANGED <<capture, held, child, news, reaped, wrote, stops, cancelled>>
  <2>1. pipe' \in [Edges -> 0..Capacity]
    BY <1>2, <1>3, Taken DEF ProcessTypeOK
  <2> QED
    BY <1>1, <1>2, <1>3, <2>1, DataKeeps DEF TypeOK, segmentVars
<1>4. CASE /\ capture = "reading" /\ capture' = "done" /\ held' = held \ {<<Stages, "r">>}
           /\ UNCHANGED <<pipe, child, news, reaped, wrote, stops, cancelled>>
  <2>1. ProcessTypeOK'
    BY <1>2, <1>4, SetupFixed DEF ProcessTypeOK
  <2>2. ChildrenInv'
    BY <1>1, <1>4, SetupFixed DEF IInv, ChildrenInv, Gone
  <2> QED
    BY <1>1, <1>2, <1>4, <2>1, <2>2, CaptureMoves DEF TypeOK
<1>5. CASE /\ capture = "cancel" /\ capture' = IF cancelled THEN "failed" ELSE "reap"
           /\ cancelled' = TRUE /\ UNCHANGED osVars
  <2>1. ProcessTypeOK' /\ UNCHANGED <<child, news, reaped>>
    BY <1>2, <1>5, SetupFixed DEF ProcessTypeOK, osVars, processVars
  <2>2. ChildrenInv'
    BY <1>1, <1>5, <2>1, SetupFixed DEF IInv, ChildrenInv, Gone
  <2> QED
    BY <1>1, <1>5, <2>1, <2>2, CaptureMoves
<1>6. CASE /\ capture = "reap" /\ TerminateAndReap(External) /\ capture' = "failed"
           /\ UNCHANGED <<held, cancelled>>
  <2>1. /\ ProcessTypeOK' /\ news' \subseteq news
        /\ \A i \in External : Gone(i)'
        /\ \A i \in Stage : child'[i] = "absent" <=> child[i] = "absent"
    BY <1>6, Reaped
  <2>2. ChildrenInv'
    BY <1>1, <1>6, <2>1, SetupFixed, SetupFacts DEF IInv, ChildrenInv
  <2> QED
    BY <1>1, <1>2, <1>6, <2>1, <2>2, CaptureMoves DEF TypeOK
<1> QED
  BY <1>3, <1>4, <1>5, <1>6 DEF drain_capture

LEMMA CaptureFailsKeeps ==
  ASSUME IInv, capture_fails, UNCHANGED setup
  PROVE  IInv'
<1>1. /\ capture = "reading" /\ capture' = "cancel" /\ held' = held \ {<<Stages, "r">>}
      /\ UNCHANGED <<mainVars, segmentVars, sharedVars, main, index, seg, cancelled,
                     child, news, reaped, pipe, wrote, stops>>
  BY DEF capture_fails, mainVars, segmentVars, processVars
<1>2. ProcessTypeOK'
  BY <1>1, SetupFixed DEF IInv, TypeOK, ProcessTypeOK
<1>3. ChildrenInv'
  BY <1>1, SetupFixed DEF IInv, ChildrenInv, Gone
<1> QED
  BY <1>1, <1>2, <1>3, CaptureMoves DEF IInv, TypeOK

-----------------------------------------------------------------------------
(* The coordinator starts the pipeline. *)

LEMMA BeforeKeeps ==
  ASSUME IInv, main \in {"pipes", "spawn"},
         UNCHANGED <<setup, resumes, tty, state, segmentVars, sharedVars, cancelled, capture>>,
         ProcessTypeOK', ChildrenInv', index' \in 1..(Stages + 1),
         \/ main' \in {"pipes", "spawn"} /\ UNCHANGED result
         \/ main' = "returned" /\ result' = [kind |-> "error", stage |-> None]
  PROVE  IInv'
<1>1. UNCHANGED <<seg, at, input, carry, error, outcome, lock, turn, stopped, exit_at, pending>>
  BY DEF segmentVars, sharedVars
<1>2. ~Begun /\ capture = "none" /\ tty = "shell" /\ TypeOK
  BY DEF IInv, MainInv, Begun
<1>3. /\ result = [kind |-> "none", stage |-> None] /\ state = [applied |-> <<>>, merged |-> {}]
      /\ \A s \in Segment : seg[s] = "idle"
  BY <1>2 DEF IInv, MainInv
<1>4. TypeOK'
  BY <1>1, <1>2, SetupFixed DEF TypeOK
<1>5. MainInv'
  BY <1>1, <1>2, <1>3, SetupFixed DEF IInv, MainInv, Begun
<1>6. \A s \in Segment' : PlaceInv(s)' /\ OutcomeInv(s)'
  BY <1>1, PlaceKept, OutcomeKept, SetupFixed DEF IInv
<1>7. SharedInv'
  BY <1>1, <1>2, SetupFixed DEF IInv, SharedInv, Culprit, MainInv
<1>8. PendingInv'
  BY <1>1, FrontierKept, PendingKept DEF IInv
<1>9. SlotsFilled' /\ EarliestFailure' /\ CommitAllOrNothing'
  BY <1>3 DEF SlotsFilled, EarliestFailure, CommitAllOrNothing
<1> QED
  BY <1>4, <1>5, <1>6, <1>7, <1>8, <1>9 DEF IInv

LEMMA CreatePipesKeeps ==
  ASSUME IInv, create_pipes, UNCHANGED setup
  PROVE  IInv'
<1>1. /\ main = "pipes" /\ held' \subseteq Endpoint
      /\ \/ main' = "spawn" /\ UNCHANGED result
         \/ main' = "returned" /\ result' = [kind |-> "error", stage |-> None]
      /\ UNCHANGED <<child, news, reaped, pipe, wrote, stops, index, resumes, tty, state, segmentVars,
                     sharedVars, cancelled, capture, seg>>
  BY DEF create_pipes, Return, processVars, segmentVars
<1>2. ProcessTypeOK' /\ index' \in 1..(Stages + 1)
  BY <1>1, SetupFixed DEF IInv, TypeOK, ProcessTypeOK
<1>3. ChildrenInv'
  BY <1>1, SetupFixed DEF IInv, ChildrenInv, Gone
<1> QED
  BY <1>1, <1>2, <1>3, BeforeKeeps

LEMMA StartStageKeeps ==
  ASSUME IInv, start_stage, UNCHANGED setup
  PROVE  IInv'
<1>1. /\ main = "spawn" /\ index \in External /\ child' = [child EXCEPT ![index] = "running"]
      /\ held' \subseteq held /\ index' = index + 1
      /\ UNCHANGED <<news, reaped, pipe, wrote, stops, main, resumes, tty, result, state, segmentVars,
                     sharedVars, cancelled, capture, seg>>
  BY DEF start_stage, Spawn, segmentVars
<1>2. /\ Stages \in Nat /\ External \subseteq 1..Stages /\ Internal \subseteq Stage
      /\ index \notin Internal /\ ~cancelled /\ TypeOK
  BY <1>1, SetupFacts DEF IInv, MainInv, Begun
<1>3. index' \in 1..(Stages + 1)
  BY <1>1, <1>2
<1>4. ProcessTypeOK'
  <2>1. child' \in [Stage -> {"absent", "running", "stopped"} \cup Status]
    BY <1>1, <1>2 DEF TypeOK, ProcessTypeOK
  <2> QED
    BY <1>1, <1>2, <2>1, SetupFixed DEF TypeOK, ProcessTypeOK
<1>5. ChildrenInv'
  <2>1. \A i \in Stage : i # index => child'[i] = child[i]
    BY <1>1, <1>2 DEF TypeOK, ProcessTypeOK
  <2>2. child'[index] = "running"
    BY <1>1, <1>2 DEF TypeOK, ProcessTypeOK, Stage
  <2> QED
    BY <1>1, <1>2, <2>1, <2>2, SetupFixed DEF IInv, ChildrenInv
<1> QED
  BY <1>1, <1>3, <1>4, <1>5, BeforeKeeps

LEMMA SkipKeeps ==
  ASSUME IInv, skip_internal, UNCHANGED setup
  PROVE  IInv'
<1>1. /\ main = "spawn" /\ index \in Internal /\ index' = index + 1
      /\ UNCHANGED <<child, news, reaped, pipe, wrote, stops, held, main, resumes, tty, result, state,
                     segmentVars, sharedVars, cancelled, capture, seg>>
  BY DEF skip_internal, osVars, processVars, segmentVars
<1>2. index' \in 1..(Stages + 1)
  BY <1>1, SetupFacts DEF IInv
<1>3. ProcessTypeOK'
  BY <1>1, SetupFixed DEF IInv, TypeOK, ProcessTypeOK
<1>4. ChildrenInv'
  BY <1>1, SetupFixed DEF IInv, ChildrenInv, Gone
<1> QED
  BY <1>1, <1>2, <1>3, <1>4, BeforeKeeps

LEMMA StartFailsKeeps ==
  ASSUME IInv, start_fails, UNCHANGED setup
  PROVE  IInv'
<1>1. /\ main = "spawn" /\ TerminateAndReap(External) /\ held' = {} /\ main' = "returned"
      /\ result' = [kind |-> "error", stage |-> None]
      /\ UNCHANGED <<index, resumes, tty, state, segmentVars, sharedVars, cancelled, capture>>
  BY DEF start_fails, Return
<1>2. /\ ProcessTypeOK' /\ news' \subseteq news
      /\ \A i \in External : Gone(i)'
      /\ \A i \in Stage : child'[i] = "absent" <=> child[i] = "absent"
  BY <1>1, Reaped
<1>3. ChildrenInv'
  BY <1>1, <1>2, SetupFixed, SetupFacts DEF IInv, ChildrenInv
<1> QED
  BY <1>1, <1>2, <1>3, BeforeKeeps DEF IInv, TypeOK

\* The threads begin: every segment waits for its turn.
LEMMA StartedKeeps ==
  ASSUME IInv, started, UNCHANGED setup
  PROVE  IInv'
<1>1. /\ main = "spawn" /\ tty' \in {"shell", "job"} /\ main' = "run" /\ index' = 1
      /\ seg' = [s \in Segment |-> "waiting"] /\ capture' \in {"reading", "done"}
      /\ UNCHANGED <<child, news, reaped, pipe, wrote, stops, held, resumes, result, state, at, input,
                     carry, error, outcome, lock, turn, stopped, exit_at, pending, cancelled>>
  BY DEF started, osVars, processVars, sharedVars
<1>2. /\ TypeOK /\ ~Begun /\ ~cancelled /\ ~stopped /\ exit_at = None /\ pending = <<>>
      /\ turn = Least(Segment) /\ Stages \in Nat
      /\ result = [kind |-> "none", stage |-> None] /\ state = [applied |-> <<>>, merged |-> {}]
      /\ \A s \in Segment : /\ seg[s] = "idle" /\ PlaceInv(s) /\ OutcomeInv(s) /\ s \in Nat
  BY <1>1, SetupFacts DEF IInv, MainInv, Begun
<1>3. /\ turn \in Segment /\ turn \in Nat /\ \A s \in Segment : ~(s < turn)
  BY <1>2, FirstTurn, SetupFacts DEF IInv
<1>4. \A s \in Segment :
        seg'[s] = "waiting" /\ outcome[s] = "none" /\ error[s] = "none" /\ at[s] = s /\ lock # s
  BY <1>1, <1>2 DEF PlaceInv, OutcomeInv
<1>5. lock = None
  BY <1>2, <1>4 DEF TypeOK
<1>6. TypeOK'
  <2>1. seg' \in [Segment -> Place]
    BY <1>1 DEF Place
  <2>2. 1 \in 1..(Stages + 1)
    BY <1>2
  <2> QED
    BY <1>1, <1>2, <2>1, <2>2, SetupFixed DEF TypeOK, ProcessTypeOK
<1>7. MainInv' /\ SlotsFilled' /\ EarliestFailure' /\ CommitAllOrNothing'
  <2>1. MainInv'
    BY <1>1, <1>2, <1>4, SetupFixed DEF MainInv, Begun
  <2>2. SlotsFilled' /\ EarliestFailure' /\ CommitAllOrNothing'
    BY <1>1, <1>2 DEF SlotsFilled, EarliestFailure, CommitAllOrNothing
  <2> QED
    BY <2>1, <2>2
<1>8. ChildrenInv'
  BY <1>1, <1>2, SetupFixed DEF IInv, ChildrenInv, Gone
<1>9. \A s \in Segment' : PlaceInv(s)' /\ OutcomeInv(s)'
  BY <1>1, <1>2, <1>3, <1>4, <1>5, SetupFixed DEF PlaceInv, OutcomeInv
<1>10. SharedInv'
  BY <1>1, <1>2, <1>5, SetupFixed DEF SharedInv
<1>11. PendingInv'
  BY <1>1, <1>2, <1>5, FrontierKept, PendingKept DEF IInv
<1> QED
  BY <1>6, <1>7, <1>8, <1>9, <1>10, <1>11, SetupFixed DEF IInv

-----------------------------------------------------------------------------
(* The coordinator goes on alone. *)

LEMMA AloneKeeps ==
  ASSUME IInv, UNCHANGED <<setup, segmentVars, sharedVars, capture>>,
         \A s \in Segment : seg[s] = "done", capture \in {"done", "failed"},
         main # "returned", main' \in {"wait", "resume", "returned"},
         main' # "returned" => /\ capture = "done" /\ \A s \in Segment : outcome[s] = "completed"
                               /\ result' = [kind |-> "none", stage |-> None]
                               /\ state' = [applied |-> <<>>, merged |-> {}]
                               /\ cancelled' = cancelled,
         main' = "returned" => tty' = "shell" \/ Fault("restore"),
         ProcessTypeOK', ChildrenInv',
         index' \in 1..(Stages + 1), resumes' \in 0..AutomaticResumeLimit, tty' \in {"shell", "job"},
         cancelled' \in BOOLEAN, cancelled => cancelled',
         state'.applied \in Seq(Internal), state'.merged \subseteq Segment,
         result' \in [kind : {"none", "status", "exit", "error"}, stage : Segment \cup {None}],
         SlotsFilled', EarliestFailure', CommitAllOrNothing'
  PROVE  IInv'
<1>1. UNCHANGED <<seg, at, input, carry, error, outcome, lock, turn, stopped, exit_at, pending>>
  BY DEF segmentVars, sharedVars
<1>2. TypeOK /\ Begun /\ Begun'
  BY DEF IInv, Begun
<1>3. TypeOK'
  BY <1>1, <1>2, SetupFixed DEF TypeOK
<1>4. MainInv'
  BY <1>1, <1>2, SetupFixed DEF MainInv
<1>5. \A s \in Segment' : PlaceInv(s)' /\ OutcomeInv(s)'
  BY <1>1, PlaceKept, OutcomeKept, SetupFixed DEF IInv
<1>6. SharedInv'
  BY <1>1, SetupFixed DEF IInv, SharedInv, Culprit
<1>7. PendingInv'
  BY <1>1, FrontierKept, PendingKept DEF IInv
<1> QED
  BY <1>3, <1>4, <1>5, <1>6, <1>7, SetupFixed DEF IInv

\* Every segment has completed: everything is applied.
LEMMA Completed ==
  ASSUME IInv, capture = "done", main # "returned", \A s \in Segment : outcome[s] = "completed"
  PROVE  Merged = Segment /\ InSourceOrder(pending, Stages + 1) /\ pending \in Seq(Internal)
<1>1. ~Culprit /\ ~cancelled /\ ~stopped
  BY DEF IInv, SharedInv, Culprit
<1>2. turn = Stages + 1
  <2>1. ASSUME NEW s \in Segment PROVE turn # s
    BY DEF IInv, PlaceInv
  <2> QED
    BY <2>1 DEF IInv, TypeOK
<1>3. lock = None /\ exit_at = None
  <2>1. Stages + 1 \notin Segment
    BY SetupFacts DEF IInv
  <2> QED
    BY <1>1, <1>2, <2>1 DEF IInv, SharedInv, TypeOK
<1>4. Frontier = Stages + 1
  BY <1>2, <1>3 DEF Frontier
<1> QED
  BY <1>1, <1>4 DEF IInv, PendingInv, Merged, TypeOK

\* What the outcomes of the joined segments amount to.
LEMMA JoinedOutcomes ==
  ASSUME IInv, Joined, capture # "failed"
  PROVE  /\ Selected # {} =>
              /\ Least(Selected) \in Segment /\ error[Least(Selected)] = "genuine"
              /\ \A s \in Segment : s < Least(Selected) => error[s] # "genuine"
         /\ Selected = {} /\ Exited # {} =>
              /\ exit_at # None /\ Least(Exited) \in Segment
              /\ InSourceOrder(pending, exit_at) /\ Merged = {s \in Segment : s <= exit_at}
              /\ \A s \in Segment : s < Least(Exited) => error[s] # "genuine"
         /\ Selected = {} /\ Exited = {} => \A s \in Segment : outcome[s] = "completed"
<1> DEFINE own == {s \in Segment : outcome[s] = "failure" /\ BeforeExit(s)}
<1>1. /\ main = "run" /\ capture = "done" /\ \A s \in Segment : seg[s] = "done"
      /\ \A s \in Segment : PlaceInv(s) /\ OutcomeInv(s) /\ s \in Nat /\ s # None
  BY SetupFacts DEF Joined, IInv
<1>2. /\ cancelled => Culprit
      /\ stopped => Culprit
  BY <1>1 DEF IInv, SharedInv
<1>3. \A s \in Segment : /\ error[s] = "genuine" <=> outcome[s] = "failure"
                         /\ outcome[s] = "exit" <=> exit_at # None /\ turn = s
                         /\ outcome[s] \in Outcome \ {"none"}
  BY <1>1 DEF OutcomeInv, IInv, TypeOK
<1>4. Exited = {} => own = {s \in Segment : outcome[s] = "failure"}
  BY DEF BeforeExit
<1>5. Selected # {} => Selected = own
  <2>1. ASSUME own = {}, Exited = {} PROVE Selected = {}
    <3>1. ~Culprit
      BY <1>4, <2>1 DEF Culprit, Exited
    <3>2. \A s \in Segment : outcome[s] \notin {"failure", "triggered"}
      BY <1>1, <1>2, <1>4, <2>1, <3>1 DEF OutcomeInv
    <3> QED
      BY <2>1, <3>2 DEF Selected
  <2> QED
    BY <2>1 DEF Selected
<1>6. own # {} => Selected = own
  BY DEF Selected
<1> HIDE DEF own
<1>7. ASSUME Selected # {}
      PROVE  /\ Least(Selected) \in Segment /\ error[Least(Selected)] = "genuine"
             /\ \A s \in Segment : s < Least(Selected) => error[s] # "genuine"
  <2> DEFINE l == Least(Selected)
  <2>1. Selected \subseteq Nat
    BY <1>1, <1>5, <1>7 DEF own
  <2>2. l \in Selected /\ \A y \in Selected : l <= y
    BY <1>7, <2>1, LeastExists
  <2> HIDE DEF l
  <2>3. l \in Segment /\ outcome[l] = "failure" /\ BeforeExit(l) /\ l \in Nat
    BY <1>1, <1>5, <1>7, <2>2 DEF own
  <2>4. ASSUME NEW s \in Segment, s < l PROVE error[s] # "genuine"
    <3> SUFFICES ASSUME error[s] = "genuine" PROVE FALSE
      OBVIOUS
    <3>1. BeforeExit(s)
      <4> SUFFICES ASSUME NEW x \in Exited PROVE s < x
        BY DEF BeforeExit
      <4>1. l < x /\ x \in Nat /\ s \in Nat
        BY <1>1, <2>3 DEF BeforeExit, Exited
      <4> QED
        BY <2>3, <2>4, <4>1
    <3>2. s \in Selected
      BY <1>3, <1>5, <1>7, <3>1 DEF own
    <3> QED
      BY <1>1, <2>2, <2>3, <2>4, <3>2
  <2> QED
    BY <1>3, <2>3, <2>4 DEF l
<1>8. ASSUME Selected = {}, Exited # {}
      PROVE  /\ exit_at # None /\ Least(Exited) \in Segment
             /\ InSourceOrder(pending, exit_at) /\ Merged = {s \in Segment : s <= exit_at}
             /\ \A s \in Segment : s < Least(Exited) => error[s] # "genuine"
  <2>1. exit_at # None /\ turn \in Segment /\ Exited = {turn}
    BY <1>3, <1>8 DEF Exited
  <2>2. Least(Exited) = turn
    <3>1. turn \in Nat
      BY <1>1, <2>1
    <3>2. Exited \subseteq Nat
      BY <2>1, <3>1
    <3> QED
      BY <1>8, <2>1, <3>2, LeastExists
  <2>3. exit_at \in turn..Last(turn) /\ turn \in Nat /\ Last(turn) \in Nat
    BY <1>1, <2>1, LastOf, SetupFacts DEF IInv, SharedInv
  <2>4. \A s \in Segment : s < turn => outcome[s] # "failure"
    BY <1>6, <1>8, <2>1 DEF own, BeforeExit
  <2>5. \A s \in Segment : s < turn => outcome[s] \in {"completed", "stopped"}
    BY <1>1, <1>3, <2>1, <2>3, <2>4 DEF OutcomeInv, Outcome
  <2>6. \A s \in Segment : s > turn => outcome[s] = "skipped" /\ s > exit_at
    <3> SUFFICES ASSUME NEW s \in Segment, s > turn PROVE outcome[s] = "skipped" /\ s > exit_at
      OBVIOUS
    <3>1. outcome[s] = "skipped"
      BY <1>1, <1>3 DEF PlaceInv
    <3>2. s > Last(turn) /\ s \in Nat
      BY <1>1, <2>1, LastOf DEF IInv
    <3> QED
      BY <2>3, <3>1, <3>2
  <2>7. Merged = {s \in Segment : s <= exit_at}
    <3>1. ASSUME NEW s \in Segment PROVE outcome[s] \in {"completed", "exit", "stopped"} <=> s <= exit_at
      <4>1. s \in Nat
        BY <1>1
      <4>2. CASE s < turn
        BY <2>3, <2>5, <4>1, <4>2
      <4>3. CASE s = turn
        BY <1>3, <2>1, <2>3, <4>1, <4>3
      <4>4. CASE s > turn
        BY <2>3, <2>6, <4>1, <4>4
      <4> QED
        BY <2>3, <4>1, <4>2, <4>3, <4>4
    <3> QED
      BY <3>1 DEF Merged
  <2>8. InSourceOrder(pending, exit_at)
    BY <2>1 DEF IInv, PendingInv, Frontier
  <2> QED
    BY <1>3, <2>1, <2>2, <2>4, <2>7, <2>8
<1>9. ASSUME Selected = {}, Exited = {}, NEW s \in Segment PROVE outcome[s] = "completed"
  <2>1. ~Culprit /\ exit_at = None
    <3>1. ~Culprit
      BY <1>4, <1>6, <1>9 DEF Culprit, Exited
    <3>2. exit_at # None => Culprit
      <4> SUFFICES ASSUME exit_at # None PROVE Culprit
        OBVIOUS
      <4>1. stopped
        BY DEF IInv, SharedInv
      <4> QED
        BY <1>2, <4>1
    <3> QED
      BY <3>1, <3>2
  <2>2. ~cancelled /\ ~stopped
    BY <1>2, <2>1
  <2> QED
    BY <1>1, <1>3, <2>1, <2>2 DEF OutcomeInv, Outcome, Culprit
<1> QED
  BY <1>7, <1>8, <1>9

LEMMA SelectKeeps ==
  ASSUME IInv, select_outcome, UNCHANGED setup
  PROVE  IInv'
<1>1. /\ Joined
      /\ UNCHANGED <<held, index, resumes, segmentVars, sharedVars, capture, outcome, exit_at, error, seg,
                     pending>>
  BY DEF select_outcome, segmentVars, sharedVars
<1>2. /\ main = "run" /\ \A s \in Segment : seg[s] = "done" /\ seg[s] # "reap"
      /\ capture \in {"done", "failed"}
      /\ TypeOK /\ state = [applied |-> <<>>, merged |-> {}] /\ result = [kind |-> "none", stage |-> None]
  BY <1>1 DEF Joined, IInv, MainInv
<1>3. ASSUME terminate, main' = "returned"
      PROVE  /\ ProcessTypeOK' /\ ChildrenInv' /\ cancelled' = TRUE
             /\ tty' \in {"shell", "job"} /\ (tty' = "shell" \/ Fault("restore"))
  <2>1. cancelled' = TRUE /\ tty' \in Released
    BY <1>3 DEF terminate
  <2>2. tty' \in {"shell", "job"} /\ (tty' = "shell" \/ Fault("restore"))
    BY <1>2, <2>1 DEF Released, TypeOK
  <2>3. CASE cancelled
    <3>1. UNCHANGED <<child, news, reaped, pipe, wrote, stops>>
      BY <1>3, <2>3 DEF terminate, processVars
    <3>2. ProcessTypeOK'
      BY <1>1, <1>2, <3>1, SetupFixed DEF TypeOK, ProcessTypeOK
    <3>3. \A i \in External : Gone(i)
      BY <1>2, <2>3 DEF IInv, ChildrenInv
    <3>4. ChildrenInv'
      BY <1>3, <3>1, <3>3, SetupFixed DEF IInv, ChildrenInv, Gone
    <3> QED
      BY <2>1, <2>2, <3>2, <3>4
  <2>4. CASE ~cancelled
    <3>1. /\ ProcessTypeOK' /\ news' \subseteq news
          /\ \A i \in External : Gone(i)'
          /\ \A i \in Stage : child'[i] = "absent" <=> child[i] = "absent"
      BY <1>1, <1>3, <2>4, Reaped DEF terminate
    <3>2. ChildrenInv'
      BY <1>3, <3>1, SetupFixed, SetupFacts DEF IInv, ChildrenInv
    <3> QED
      BY <2>1, <2>2, <3>1, <3>2
  <2> QED
    BY <2>3, <2>4
<1>4. CASE capture = "failed" /\ terminate /\ Return("error", None) /\ UNCHANGED state
  <2>1. main' = "returned" /\ result' = [kind |-> "error", stage |-> None]
    BY <1>4 DEF Return
  <2>2. SlotsFilled' /\ EarliestFailure' /\ CommitAllOrNothing'
    BY <1>2, <1>4, <2>1 DEF SlotsFilled, EarliestFailure, CommitAllOrNothing
  <2> QED
    BY <1>1, <1>2, <1>3, <1>4, <2>1, <2>2, AloneKeeps DEF TypeOK
<1>5. CASE /\ capture # "failed" /\ Selected # {}
           /\ terminate /\ Return("error", Least(Selected)) /\ UNCHANGED state
  <2> DEFINE l == Least(Selected)
  <2>1. main' = "returned" /\ result' = [kind |-> "error", stage |-> l]
    BY <1>5 DEF Return
  <2>2. l \in Segment /\ error[l] = "genuine" /\ \A s \in Segment : s < l => error[s] # "genuine"
    BY <1>1, <1>5, JoinedOutcomes
  <2> HIDE DEF l
  <2>3. SlotsFilled' /\ EarliestFailure' /\ CommitAllOrNothing'
    BY <1>1, <1>2, <1>5, <2>1, <2>2, SetupFixed DEF SlotsFilled, EarliestFailure, CommitAllOrNothing
  <2> QED
    BY <1>1, <1>2, <1>3, <1>5, <2>1, <2>2, <2>3, AloneKeeps DEF TypeOK
<1>6. CASE /\ capture # "failed" /\ Selected = {} /\ Exited # {}
           /\ terminate /\ Return("exit", Least(Exited)) /\ state' = [applied |-> pending, merged |-> Merged]
  <2> DEFINE l == Least(Exited)
  <2>1. main' = "returned" /\ result' = [kind |-> "exit", stage |-> l]
    BY <1>6 DEF Return
  <2>2. /\ l \in Segment /\ \A s \in Segment : s < l => error[s] # "genuine"
        /\ InSourceOrder(pending, exit_at) /\ Merged = {s \in Segment : s <= exit_at}
    BY <1>1, <1>6, JoinedOutcomes
  <2> HIDE DEF l
  <2>3. state'.applied = pending /\ state'.merged = {s \in Segment : s <= exit_at}
    BY <1>6, <2>2
  <2>4. SlotsFilled' /\ EarliestFailure' /\ CommitAllOrNothing'
    <3>1. InSourceOrder(state.applied, exit_at)'
      BY <1>1, <2>2, <2>3, SetupFixed DEF InSourceOrder
    <3> QED
      BY <1>1, <2>1, <2>2, <2>3, <3>1, SetupFixed DEF SlotsFilled, EarliestFailure, CommitAllOrNothing
  <2> QED
    BY <1>1, <1>2, <1>3, <1>6, <2>1, <2>2, <2>3, <2>4, AloneKeeps DEF TypeOK
<1>7. CASE /\ capture # "failed" /\ Selected = {} /\ Exited = {}
           /\ main' = "wait" /\ UNCHANGED <<processVars, result, state, tty, cancelled>>
  <2>1. \A s \in Segment : outcome[s] = "completed"
    BY <1>1, <1>7, JoinedOutcomes
  <2>2. UNCHANGED <<child, news, reaped, pipe, wrote, stops>>
    BY <1>7 DEF processVars
  <2>3. ProcessTypeOK'
    BY <1>1, <1>2, <2>2, SetupFixed DEF TypeOK, ProcessTypeOK
  <2>4. ~cancelled
    BY <1>2, <1>7, <2>1 DEF IInv, SharedInv, Culprit
  <2>5. ChildrenInv'
    <3>1. index' = 1 /\ \A i \in External : ~(i < 1)
      BY <1>1, <1>2, SetupFacts DEF IInv, MainInv
    <3> QED
      BY <1>7, <2>2, <2>4, <3>1, SetupFixed DEF IInv, ChildrenInv, Gone
  <2>6. SlotsFilled' /\ EarliestFailure' /\ CommitAllOrNothing'
    BY <1>1, <1>2, <1>7, <2>1, SetupFixed DEF SlotsFilled, EarliestFailure, CommitAllOrNothing
  <2> QED
    BY <1>1, <1>2, <1>7, <2>1, <2>3, <2>5, <2>6, AloneKeeps DEF TypeOK
<1> QED
  BY <1>2, <1>4, <1>5, <1>6, <1>7 DEF select_outcome

\* While the coordinator waits, every segment has completed and the token is untouched.
LEMMA Waiting ==
  ASSUME IInv, main \in {"wait", "resume"}
  PROVE  /\ capture = "done" /\ \A s \in Segment : seg[s] = "done" /\ outcome[s] = "completed"
         /\ ~cancelled
         /\ state = [applied |-> <<>>, merged |-> {}] /\ result = [kind |-> "none", stage |-> None]
         /\ \A i \in External : i < index => Gone(i)
<1>1. \A s \in Segment : outcome[s] = "completed" /\ seg[s] # "idle" /\ PlaceInv(s) /\ OutcomeInv(s)
  <2>1. Begun
    BY DEF IInv, MainInv
  <2> QED
    BY <2>1 DEF IInv, SlotsFilled, MainInv
<1>2. capture \in {"done", "failed"} /\ \A s \in Segment : seg[s] = "done"
  <2>1. Begun
    BY DEF IInv, MainInv
  <2> QED
    BY <1>1, <2>1 DEF IInv, MainInv, Begun
<1>3. ~Culprit
  BY <1>1 DEF Culprit
<1>4. capture = "done" /\ ~cancelled
  BY <1>2, <1>3 DEF IInv, SharedInv, MainInv
<1> QED
  BY <1>1, <1>2, <1>4 DEF IInv, MainInv, ChildrenInv

\* Waiting on, with the next child perhaps.
LEMMA WaitingKeeps ==
  ASSUME IInv, main \in {"wait", "resume"}, main' \in {"wait", "resume"},
         UNCHANGED <<setup, held, tty, result, state, segmentVars, sharedVars, cancelled, capture>>,
         ProcessTypeOK', ChildrenInv', index' \in 1..(Stages + 1), resumes' \in 0..AutomaticResumeLimit
  PROVE  IInv'
<1>1. /\ capture = "done" /\ \A s \in Segment : seg[s] = "done" /\ outcome[s] = "completed"
      /\ state = [applied |-> <<>>, merged |-> {}] /\ result = [kind |-> "none", stage |-> None]
  BY Waiting
<1>2. UNCHANGED <<outcome, exit_at, error>>
  BY DEF segmentVars, sharedVars
<1>3. SlotsFilled' /\ EarliestFailure' /\ CommitAllOrNothing'
  BY <1>1, <1>2, SetupFixed DEF SlotsFilled, EarliestFailure, CommitAllOrNothing
<1> QED
  BY <1>1, <1>3, AloneKeeps DEF IInv, TypeOK

LEMMA WaitKeeps ==
  ASSUME IInv, wait_for_children, UNCHANGED setup
  PROVE  IInv'
<1>1. /\ main = "wait" /\ index <= Stages
      /\ UNCHANGED <<held, tty, result, state, segmentVars, sharedVars, cancelled, capture, seg>>
  BY DEF wait_for_children, segmentVars
<1>2. TypeOK /\ ~cancelled /\ Stages \in Nat /\ index \in Nat /\ index >= 1
  <2>1. TypeOK /\ ~cancelled /\ Stages \in Nat
    BY <1>1, Waiting, SetupFacts DEF IInv
  <2>2. index \in 1..(Stages + 1)
    BY <2>1 DEF TypeOK
  <2> QED
    BY <2>1, <2>2
<1>3. 0 \in 0..AutomaticResumeLimit /\ index + 1 \in 1..(Stages + 1)
  BY <1>1, <1>2, SetupFacts DEF IInv
<1>4. CASE index \in Internal /\ NextChild /\ UNCHANGED processVars
  <2>1. UNCHANGED <<child, news, reaped, pipe, wrote, stops>> /\ index' = index + 1 /\ resumes' = 0
        /\ main' = "wait"
    BY <1>4 DEF processVars, NextChild
  <2>2. ProcessTypeOK'
    BY <1>1, <1>2, <2>1, SetupFixed DEF TypeOK, ProcessTypeOK
  <2>3. \A i \in External : i < index' => Gone(i)
    <3> SUFFICES ASSUME NEW i \in External, i < index' PROVE Gone(i)
      OBVIOUS
    <3>1. i < index
      BY <1>2, <1>4, <2>1, SetupFacts DEF IInv
    <3> QED
      BY <1>1, <3>1, Waiting
  <2>4. ChildrenInv'
    BY <1>1, <1>2, <2>1, <2>3, SetupFixed DEF IInv, ChildrenInv, Gone
  <2> QED
    BY <1>1, <1>3, <2>1, <2>2, <2>4, WaitingKeeps
<1>5. CASE index \in External /\ Observe(index)
           /\ CASE child[index] \in Status  -> NextChild
                [] child[index] = "running" -> UNCHANGED <<main, index, resumes>>
                [] child[index] = "stopped" -> main' = "resume" /\ UNCHANGED <<index, resumes>>
  <2>1. /\ index \in news /\ news' = news \ {index}
        /\ reaped' = IF child[index] \in Status THEN reaped \cup {index} ELSE reaped
        /\ UNCHANGED <<child, pipe, wrote, stops>>
    BY <1>5 DEF Observe
  <2>2. index \in Stage /\ child[index] # "absent"
    BY <1>2, <1>5, <2>1, SetupFacts DEF IInv, ChildrenInv
  <2>3. child[index] \in {"running", "stopped"} \cup Status
    BY <1>2, <2>2 DEF TypeOK, ProcessTypeOK
  <2>4. ProcessTypeOK'
    BY <1>1, <1>2, <2>1, <2>2, SetupFixed DEF TypeOK, ProcessTypeOK
  <2>5. \/ child[index] \in Status /\ main' = "wait" /\ index' = index + 1 /\ resumes' = 0
        \/ main' \in {"wait", "resume"} /\ UNCHANGED <<index, resumes>>
    BY <1>1, <1>5, <2>3 DEF NextChild, Status
  <2>6. \A i \in External : i < index' => Gone(i)'
    <3> SUFFICES ASSUME NEW i \in External, i < index' PROVE Gone(i)'
      OBVIOUS
    <3>1. i < index \/ (i = index /\ child[index] \in Status)
      BY <1>2, <2>5, SetupFacts DEF IInv
    <3>2. i < index => Gone(i)
      BY <1>1, Waiting
    <3> QED
      BY <2>1, <3>1, <3>2 DEF Gone
  <2>7. ChildrenInv'
    <3>1. \A i \in Stage : child[i] = "absent" => i \notin news'
      BY <2>1 DEF IInv, ChildrenInv
    <3>2. \A i \in Internal : child[i] = "absent"
      BY DEF IInv, ChildrenInv
    <3> QED
      BY <1>1, <1>2, <2>1, <2>5, <2>6, <3>1, <3>2, SetupFixed DEF ChildrenInv
  <2> QED
    BY <1>1, <1>2, <1>3, <2>4, <2>5, <2>7, WaitingKeeps DEF TypeOK
<1> QED
  BY <1>4, <1>5 DEF wait_for_children

\* The first error ends the pipeline: the children behind are ended, those before are gone.
LEMMA GiveUpKeeps ==
  ASSUME IInv, main \in {"wait", "resume"}, GiveUp,
         UNCHANGED <<setup, held, state, segmentVars, sharedVars, cancelled, capture>>
  PROVE  IInv'
<1>1. /\ capture = "done" /\ \A s \in Segment : seg[s] = "done" /\ outcome[s] = "completed"
      /\ ~cancelled /\ TypeOK
      /\ state = [applied |-> <<>>, merged |-> {}]
      /\ \A i \in External : i < index => Gone(i)
  BY Waiting DEF IInv
<1>2. /\ TerminateAndReap({i \in External : i >= index}) /\ tty' \in Released
      /\ main' = "returned" /\ result' = [kind |-> "error", stage |-> None]
      /\ UNCHANGED <<index, resumes>>
  BY DEF GiveUp, Return
<1>3. /\ ProcessTypeOK' /\ news' \subseteq news
      /\ \A i \in External : i >= index => Gone(i)'
      /\ \A i \in Stage : Gone(i) => Gone(i)'
      /\ \A i \in Stage : child'[i] = "absent" <=> child[i] = "absent"
  <2> DEFINE behind == {i \in External : i >= index}
  <2>1. behind \subseteq External /\ TerminateAndReap(behind) /\ held' \subseteq held
    BY <1>2
  <2> HIDE DEF behind
  <2>2. /\ ProcessTypeOK' /\ news' \subseteq news
        /\ \A i \in behind : Gone(i)'
        /\ \A i \in Stage : Gone(i) => Gone(i)'
        /\ \A i \in Stage : child'[i] = "absent" <=> child[i] = "absent"
    BY <2>1, Reaped
  <2> QED
    BY <2>2 DEF behind
<1>4. \A i \in External : Gone(i)'
  <2> TAKE i \in External
  <2>1. i \in Stage /\ i \in Nat /\ index \in Nat
    BY <1>1, SetupFacts DEF IInv, TypeOK
  <2> QED
    BY <1>1, <1>3, <2>1
<1>5. ChildrenInv'
  BY <1>1, <1>2, <1>3, <1>4, SetupFixed, SetupFacts DEF IInv, ChildrenInv
<1>6. tty' \in {"shell", "job"} /\ (tty' = "shell" \/ Fault("restore"))
  BY <1>1, <1>2 DEF Released, TypeOK
<1>7. SlotsFilled' /\ EarliestFailure' /\ CommitAllOrNothing'
  BY <1>1, <1>2 DEF SlotsFilled, EarliestFailure, CommitAllOrNothing
<1> QED
  BY <1>1, <1>2, <1>3, <1>5, <1>6, <1>7, AloneKeeps DEF TypeOK

LEMMA ResumeKeeps ==
  ASSUME IInv, resume_stopped_job, UNCHANGED setup
  PROVE  IInv'
<1>1. /\ main = "resume" /\ TypeOK /\ ~cancelled
      /\ UNCHANGED <<held, state, segmentVars, sharedVars, cancelled, capture, seg>>
  BY Waiting DEF resume_stopped_job, segmentVars, IInv
<1>2. CASE /\ resumes < AutomaticResumeLimit /\ ContinueGroup /\ resumes' = resumes + 1 /\ main' = "wait"
           /\ UNCHANGED <<index, tty, result>>
  <2>1. /\ child' = [i \in Stage |-> IF child[i] = "stopped" THEN "running" ELSE child[i]]
        /\ news' = news \cup {i \in Stage : child[i] = "stopped"}
        /\ UNCHANGED <<reaped, pipe, wrote, stops>>
    BY <1>2 DEF ContinueGroup
  <2>2. child' \in [Stage -> {"absent", "running", "stopped"} \cup Status] /\ news' \subseteq Stage
    BY <1>1, <2>1 DEF TypeOK, ProcessTypeOK
  <2>3. ProcessTypeOK'
    BY <1>1, <2>1, <2>2, SetupFixed DEF TypeOK, ProcessTypeOK
  <2>4. \A i \in Stage : child'[i] = "absent" <=> child[i] = "absent"
    BY <2>1
  <2>5. \A i \in Stage : i \in news' => i \in news \/ child'[i] # "absent"
    BY <2>1
  <2>6. ChildrenInv'
    BY <1>1, <1>2, <2>1, <2>4, <2>5, SetupFixed, SetupFacts DEF IInv, ChildrenInv, Gone
  <2>7. resumes' \in 0..AutomaticResumeLimit
    BY <1>1, <1>2, SetupFacts DEF TypeOK, IInv
  <2> QED
    BY <1>1, <1>2, <2>3, <2>6, <2>7, WaitingKeeps DEF TypeOK
<1>3. CASE GiveUp
  BY <1>1, <1>3, GiveUpKeeps
<1> QED
  BY <1>2, <1>3 DEF resume_stopped_job

LEMMA CommitKeeps ==
  ASSUME IInv, commit, UNCHANGED setup
  PROVE  IInv'
<1>1. /\ main = "wait" /\ index > Stages /\ main' = "returned" /\ tty' \in Released
      /\ UNCHANGED <<child, news, reaped, pipe, wrote, stops, held, index, resumes, segmentVars,
                     sharedVars, cancelled, capture, seg, outcome, exit_at, error, pending>>
  BY DEF commit, Return, Released, osVars, processVars, segmentVars, sharedVars
<1>2. /\ capture = "done" /\ \A s \in Segment : seg[s] = "done" /\ outcome[s] = "completed"
      /\ ~cancelled /\ TypeOK
      /\ state = [applied |-> <<>>, merged |-> {}]
      /\ \A i \in External : i < index => Gone(i)
  BY <1>1, Waiting DEF IInv
<1>3. ProcessTypeOK'
  BY <1>1, <1>2, SetupFixed DEF TypeOK, ProcessTypeOK
<1>4. ChildrenInv'
  <2>1. \A i \in External : i < index
    BY <1>1, <1>2, SetupFacts DEF IInv, TypeOK
  <2> QED
    BY <1>1, <1>2, <2>1, SetupFixed DEF IInv, ChildrenInv, Gone
<1>5. tty' \in {"shell", "job"} /\ (tty' = "shell" \/ Fault("restore"))
  BY <1>1, <1>2 DEF Released, TypeOK
<1>6. CASE result' = [kind |-> "status", stage |-> None] /\ state' = [applied |-> pending, merged |-> Merged]
  <2>1. Merged = Segment /\ InSourceOrder(pending, Stages + 1) /\ pending \in Seq(Internal)
    BY <1>1, <1>2, Completed
  <2>2. state'.applied = pending /\ state'.merged = Segment
    BY <1>6, <2>1
  <2>3. SlotsFilled' /\ EarliestFailure' /\ CommitAllOrNothing'
    <3>1. InSourceOrder(state.applied, Stages + 1)'
      BY <2>1, <2>2, SetupFixed DEF InSourceOrder
    <3> QED
      BY <1>1, <1>2, <1>6, <2>2, <3>1, SetupFixed DEF SlotsFilled, EarliestFailure, CommitAllOrNothing
  <2> QED
    BY <1>1, <1>2, <1>3, <1>4, <1>5, <1>6, <2>1, <2>2, <2>3, AloneKeeps DEF TypeOK
<1>7. CASE result' = [kind |-> "error", stage |-> None] /\ UNCHANGED state
  <2>1. SlotsFilled' /\ EarliestFailure' /\ CommitAllOrNothing'
    BY <1>1, <1>2, <1>7 DEF SlotsFilled, EarliestFailure, CommitAllOrNothing
  <2> QED
    BY <1>1, <1>2, <1>3, <1>4, <1>5, <1>7, <2>1, AloneKeeps DEF TypeOK
<1> QED
  BY <1>6, <1>7 DEF commit, Return

-----------------------------------------------------------------------------
(* The invariant. *)

LEMMA InitIInv == Init => IInv
<1> SUFFICES ASSUME Init PROVE IInv
  OBVIOUS
<1>1. /\ setup \in Setups /\ main = "pipes" /\ index = 1 /\ resumes = 0 /\ tty = "shell"
      /\ child = [i \in Stage |-> "absent"] /\ news = {} /\ reaped = {} /\ held = {}
      /\ pipe = [e \in Edges |-> 0] /\ wrote = [i \in Stage |-> 0] /\ stops = 0
      /\ result = [kind |-> "none", stage |-> None] /\ state = [applied |-> <<>>, merged |-> {}]
      /\ seg = [s \in Segment |-> "idle"] /\ at = [s \in Segment |-> s]
      /\ input = [s \in Segment |-> IF s - 1 \in Edges THEN "stream" ELSE "value"]
      /\ carry = [s \in Segment |-> FALSE] /\ error = [s \in Segment |-> "none"]
      /\ outcome = [s \in Segment |-> "none"]
      /\ lock = None /\ turn = Least(Segment) /\ stopped = FALSE /\ exit_at = None
      /\ pending = <<>> /\ cancelled = FALSE /\ capture = "none"
  BY DEF Init, ProcessInit
<1>2. /\ Stages \in Nat \ {0} /\ Segment \subseteq Internal /\ \A s \in Segment : s \in Nat /\ s # None
      /\ setup.max_writes \in Nat /\ setup.max_stops \in Nat /\ Capacity \in Nat
      /\ AutomaticResumeLimit \in Nat /\ Internal \subseteq Stage
  BY <1>1, SetupFacts
<1>3. /\ turn \in Segment /\ \A s \in Segment : turn <= s /\ ~(s < turn)
      /\ \A k \in Internal : ~(k < turn)
  BY <1>1, <1>2, FirstTurn
<1>4. ProcessTypeOK
  BY <1>1, <1>2 DEF ProcessTypeOK
<1>5. TypeOK
  <2>1. pending \in Seq(Internal) /\ state.applied \in Seq(Internal) /\ state.merged = {}
    BY <1>1, EmptySeq
  <2>2. seg \in [Segment -> Place] /\ outcome \in [Segment -> Outcome]
    BY <1>1 DEF Place, Outcome
  <2>3. at \in [Segment -> Internal]
    BY <1>1, <1>2
  <2>4. /\ input \in [Segment -> {"stream", "value", "spent"}] /\ carry \in [Segment -> BOOLEAN]
        /\ error \in [Segment -> {"none", "genuine", "cancellation"}]
    BY <1>1
  <2>5. index \in 1..(Stages + 1) /\ resumes \in 0..AutomaticResumeLimit
    BY <1>1, <1>2
  <2>6. result \in [kind : {"none", "status", "exit", "error"}, stage : Segment \cup {None}]
    BY <1>1
  <2> QED
    BY <1>1, <1>3, <1>4, <2>1, <2>2, <2>3, <2>4, <2>5, <2>6 DEF TypeOK
<1>6. MainInv /\ ChildrenInv
  <2>1. MainInv
    BY <1>1 DEF MainInv, Begun
  <2>2. \A i \in Stage : child[i] = "absent" /\ Gone(i)
    BY <1>1 DEF Gone
  <2>3. ChildrenInv
    BY <1>1, <1>2, <2>2, SetupFacts DEF ChildrenInv
  <2> QED
    BY <2>1, <2>3
<1>7. \A s \in Segment : PlaceInv(s) /\ OutcomeInv(s)
  BY <1>1, <1>2, <1>3 DEF PlaceInv, OutcomeInv
<1>8. SharedInv
  BY <1>1 DEF SharedInv
<1>9. PendingInv
  <2>1. Len(pending) = 0 /\ 1..0 = {}
    BY <1>1
  <2>2. InSourceOrder(pending, turn)
    BY <1>3, <2>1 DEF InSourceOrder
  <2> QED
    BY <1>1, <2>2 DEF PendingInv, Frontier
<1>10. SlotsFilled /\ EarliestFailure /\ CommitAllOrNothing
  BY <1>1 DEF SlotsFilled, EarliestFailure, CommitAllOrNothing
<1> QED
  BY <1>1, <1>5, <1>6, <1>7, <1>8, <1>9, <1>10 DEF IInv

LEMMA UnchangedKeeps ==
  ASSUME IInv, UNCHANGED <<vars, setup>>
  PROVE  IInv'
<1>1. /\ UNCHANGED <<setup, child, news, reaped, wrote, stops, mainVars, seg, at, error, outcome,
                     sharedVars, cancelled, capture, pipe, held, input, carry>>
  BY DEF vars, osVars, processVars, segmentVars
<1> QED
  BY <1>1, DataKeeps DEF IInv, TypeOK, ProcessTypeOK

LEMMA NextIInv ==
  ASSUME IInv, [Next]_<<vars, setup>>
  PROVE  IInv'
<1>1. CASE UNCHANGED <<vars, setup>>
  BY <1>1, UnchangedKeeps
<1>2. CASE Next
  <2>0. UNCHANGED setup
    BY <1>2 DEF Next
  <2>1. CASE create_pipes \/ start_stage \/ skip_internal \/ start_fails \/ started
    BY <2>0, <2>1, CreatePipesKeeps, StartStageKeeps, SkipKeeps, StartFailsKeeps, StartedKeeps
  <2>2. CASE select_outcome \/ wait_for_children \/ resume_stopped_job \/ commit
    BY <2>0, <2>2, SelectKeeps, WaitKeeps, ResumeKeeps, CommitKeeps
  <2>3. ASSUME NEW s \in Segment, Thread(s) PROVE IInv'
    <3>1. CASE segment_admitted(s) \/ segment_cancelled(s) \/ execute_stage(s) \/ eager_pull(s)
               \/ execute_exit(s)
      BY <2>0, <3>1, AdmittedKeeps, CancelledKeeps, ExecuteKeeps, EagerPullKeeps, ExitKeeps
    <3>2. CASE segment_prepared(s) \/ drain_pull(s) \/ drain_write(s) \/ drain_ends(s)
               \/ segment_fails(s) \/ segment_cancels(s)
      BY <2>0, <3>2, PreparedKeeps, PullKeeps, WriteKeeps, EndsKeeps, SegmentFailsKeeps, CancelsKeeps
    <3> QED
      BY <2>3, <3>1, <3>2 DEF Thread
  <2>4. CASE Failures
    <3>1. ASSUME NEW s \in Segment, stage_fails(s) \/ drain_fails(s) PROVE IInv'
      BY <2>0, <3>1, StageFailsKeeps, DrainFailsKeeps
    <3>2. CASE capture_fails
      BY <2>0, <3>2, CaptureFailsKeeps
    <3>3. CASE wait_fails
      BY <2>0, <3>3, GiveUpKeeps DEF wait_fails
    <3> QED
      BY <2>4, <3>1, <3>2, <3>3 DEF Failures
  <2>5. CASE drain_capture
    BY <2>0, <2>5, DrainCaptureKeeps
  <2>6. CASE ProcessNext /\ Others
    BY <2>0, <2>6, ProcessKeeps
  <2>7. CASE finished
    BY <2>0, <2>7, UnchangedKeeps DEF finished
  <2> QED
    BY <1>2, <2>1, <2>2, <2>3, <2>4, <2>5, <2>6, <2>7 DEF Next, Coordinator
<1> QED
  BY <1>1, <1>2

\* The inductive invariant of a mixed pipeline holds for any pipeline and any faults.
THEOREM MixedInvariant == Spec => []IInv
<1> QED
  BY InitIInv, NextIInv, PTL DEF Spec

\* Every internal stage has its status when it is asked for, no child outlives the
\* pipeline and the terminal is given back.
THEOREM MixedCorrect == Spec => []MixedConsistent
<1>1. ASSUME IInv PROVE MixedConsistent
  <2>1. NothingOutlivesIt
    <3>1. \A i \in Stage : i \in Internal \/ i \in External
      BY <1>1, SetupFacts DEF IInv
    <3> QED
      BY <1>1, <3>1 DEF NothingOutlivesIt, IInv, MainInv, ChildrenInv, Gone
  <2> QED
    BY <1>1, <2>1 DEF IInv, MixedConsistent
<1> QED
  BY <1>1, MixedInvariant, PTL

\* The failure that is reported is a real one and the earliest in the source.
THEOREM FailureIsEarliest == Spec => []EarliestFailure
<1>1. IInv => EarliestFailure
  BY DEF IInv
<1> QED
  BY <1>1, MixedInvariant, PTL

\* The session's state changes as a whole or not at all.
THEOREM OneTransaction == Spec => []CommitAllOrNothing
<1>1. IInv => CommitAllOrNothing
  BY DEF IInv
<1> QED
  BY <1>1, MixedInvariant, PTL
=============================================================================
