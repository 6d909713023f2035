------------------------- MODULE PipelineRunProofs -------------------------
(***************************************************************************)
(* Proofs about all-external pipelines (PipelineRun), for any pipeline,    *)
(* any bounds and any faults: the terminal comes back, nothing is left     *)
(* behind, and a capture never reports success with part of the output.    *)
(***************************************************************************)
EXTENDS PipelineRun, TLAPS

Gone(i) == child[i] = "absent" \/ i \in reaped

\* What has been started, and what the shell still holds of it.
StartInv ==
  /\ main = "pipes" => index = 1 /\ \A i \in Stage : child[i] = "absent"
  /\ main = "spawn" =>
       /\ \A i \in Stage : i >= index => child[i] = "absent"
       /\ \A e \in Edges : /\ e < index => <<e, "w">> \notin held
                           /\ e + 1 < index => <<e, "r">> \notin held
  /\ main \in {"terminal", "ready"} => index = 1
  /\ main = "resume" => index \in Stage
  /\ \A i \in Stage : child[i] = "absent" => i \notin news

\* Who has been waited for.
WaitInv ==
  /\ main \in {"wait", "resume"} /\ ~Fault("wait") => \A i \in Stage : i < index => Gone(i)
  /\ main # "returned" => result = "none"

\* Where the capture thread is, seen from the executor.
DrainInv ==
  /\ drain # "none" => Mode = "capture"
  /\ main \in {"pipes", "spawn", "terminal"} => drain = "none"
  /\ main = "ready" => drain \in {"first", "signal", "signalEnd"}
  /\ main \in {"wait", "resume", "returned"} => drain \in {"none", "reading", "done"}
  /\ main \in {"wait", "resume"} /\ Mode = "capture" => drain # "none"
  /\ drain \in {"signalEnd", "done"} /\ ~failed =>
       pipe[Stages] = 0 /\ ~(Piped(Stages) /\ Alive(Stages))
  /\ main = "returned" /\ Mode = "capture" /\ result \in {"ok", "limit"} =>
       drain = "done" /\ ~failed /\ (result = "limit" <=> exceeded)

\* What the last child wrote is in the pipe or was read; what was read is kept
\* up to the limit.
FlowInv ==
  Mode = "capture" =>
    /\ wrote[Stages] = drained + pipe[Stages]
    /\ IF exceeded THEN retained = CaptureLimit /\ drained > CaptureLimit
                   ELSE retained = drained /\ retained <= CaptureLimit

IInv ==
  /\ setup \in Setups /\ TypeOK
  /\ StartInv /\ WaitInv /\ DrainInv /\ FlowInv
  /\ TerminalBack /\ NoStrays /\ HoldsOnlyTheDrain

-----------------------------------------------------------------------------
(* The setup, and what does not change with it. *)

\* A pipeline has stages, its pipes are numbered by them, and the edge of the last
\* stage is there exactly when its output is captured.
LEMMA SetupFacts ==
  ASSUME setup \in Setups
  PROVE  /\ Stages \in Nat \ {0} /\ Stage = 1..Stages /\ Stages \in Stage /\ Edges \subseteq Stage
         /\ Stages \in Edges <=> Mode = "capture"
         /\ Mode \in {"plain", "capture", "background"}
         /\ setup.max_writes \in Nat /\ setup.max_stops \in Nat
         /\ Capacity \in Nat \ {0} /\ AutomaticResumeLimit \in Nat /\ CaptureLimit \in Nat
<1>1. /\ Stages \in 1..MaxStages /\ Edges \subseteq 1..Stages
      /\ setup.max_writes \in Nat /\ setup.max_stops \in Nat
      /\ Capacity \in Nat \ {0} /\ AutomaticResumeLimit \in Nat /\ MaxStages \in Nat
  BY StageAssumption DEF Stages, Edges
<1>2. /\ Stages \in Edges <=> Mode = "capture"
      /\ Mode \in {"plain", "capture", "background"} /\ CaptureLimit \in Nat
  BY RunAssumption DEF Stages, Edges, Mode, CaptureLimit
<1> QED
  BY <1>1, <1>2 DEF Stage

LEMMA SetupFixed ==
  ASSUME UNCHANGED setup
  PROVE  /\ Stages' = Stages /\ Stage' = Stage /\ Edges' = Edges /\ Endpoint' = Endpoint
         /\ Mode' = Mode /\ CaptureLimit' = CaptureLimit
         /\ \A f : Fault(f)' = Fault(f)
BY DEF Stages, Stage, Edges, Endpoint, Mode, CaptureLimit, Fault

\* Everything the executor starts from: what IInv says, part by part.
LEMMA Known ==
  ASSUME IInv
  PROVE  /\ setup \in Setups /\ TypeOK /\ ProcessTypeOK
         /\ StartInv /\ WaitInv /\ DrainInv /\ FlowInv
         /\ TerminalBack /\ NoStrays /\ HoldsOnlyTheDrain
BY DEF IInv, TypeOK

\* Nothing is captured by a step that neither moves bytes nor reads them.
LEMMA FlowKept ==
  ASSUME FlowInv, UNCHANGED <<setup, pipe, wrote, retained, exceeded, drained>>
  PROVE  FlowInv'
BY SetupFixed DEF FlowInv

\* While the pipeline is being run nothing can be a stray yet.
LEMMA NoStraysYet ==
  ASSUME main # "returned"
  PROVE  NoStrays
BY DEF NoStrays, NothingIsLeft

-----------------------------------------------------------------------------
(* The operating system. *)

\* A byte less in a pipe.
LEMMA Taken ==
  ASSUME NEW p, NEW e \in Edges, p \in [Edges -> 0..Capacity], Capacity \in Nat,
         NEW n \in 1..p[e]
  PROVE  [p EXCEPT ![e] = @ - n] \in [Edges -> 0..Capacity]
OBVIOUS

LEMMA Added ==
  ASSUME NEW p, NEW e \in Edges, p \in [Edges -> 0..Capacity], p[e] < Capacity, Capacity \in Nat
  PROVE  [p EXCEPT ![e] = @ + 1] \in [Edges -> 0..Capacity]
OBVIOUS

\* What the children do by themselves reaps nobody, starts nobody and revives nobody,
\* and only the last child writes to the last pipe.
LEMMA ProcessKeeps ==
  ASSUME setup \in Setups, ProcessTypeOK, ProcessNext, UNCHANGED <<setup, held>>,
         \A i \in Stage : child[i] = "absent" => i \notin news
  PROVE  /\ ProcessTypeOK' /\ reaped' = reaped
         /\ \A i \in Stage : child'[i] = "absent" <=> child[i] = "absent"
         /\ \A i \in Stage : child'[i] = "absent" => i \notin news'
         /\ Alive(Stages)' => Alive(Stages)
         /\ Mode = "capture" =>
              \/ pipe'[Stages] = pipe[Stages] /\ wrote'[Stages] = wrote[Stages]
              \/ /\ Piped(Stages) /\ Alive(Stages)
                 /\ pipe'[Stages] = pipe[Stages] + 1 /\ wrote'[Stages] = wrote[Stages] + 1
<1> DEFINE Kept == /\ ProcessTypeOK' /\ reaped' = reaped
                   /\ \A i \in Stage : child'[i] = "absent" <=> child[i] = "absent"
                   /\ \A i \in Stage : child'[i] = "absent" => i \notin news'
                   /\ Alive(Stages)' => Alive(Stages)
           Bytes == Mode = "capture" =>
                      \/ pipe'[Stages] = pipe[Stages] /\ wrote'[Stages] = wrote[Stages]
                      \/ /\ Piped(Stages) /\ Alive(Stages)
                         /\ pipe'[Stages] = pipe[Stages] + 1 /\ wrote'[Stages] = wrote[Stages] + 1
<1>1. ASSUME NEW i \in Stage, ChildWrites(i)
      PROVE  Kept /\ Bytes
  <2>1. /\ child[i] = "running" /\ Piped(i) /\ i \in Edges /\ wrote[i] < setup.max_writes
        /\ pipe[i] < Capacity
        /\ pipe' = [pipe EXCEPT ![i] = @ + 1] /\ wrote' = [wrote EXCEPT ![i] = @ + 1]
        /\ UNCHANGED <<child, news, reaped, stops>>
    BY <1>1 DEF ChildWrites, WantsToWrite, Piped
  <2>2. pipe' \in [Edges -> 0..Capacity]
    BY <2>1, Added, SetupFacts DEF ProcessTypeOK
  <2>3. wrote' \in [Stage -> 0..setup.max_writes]
    <3>1. wrote \in [Stage -> 0..setup.max_writes] /\ setup.max_writes \in Nat
      BY SetupFacts DEF ProcessTypeOK
    <3> QED
      BY <2>1, <3>1
  <2>4. Kept
    BY <2>1, <2>2, <2>3, SetupFixed DEF ProcessTypeOK, Alive
  <2>5. Bytes
    <3>1. CASE i = Stages
      <4>1. i \in Stage /\ i \in Edges /\ pipe \in [Edges -> 0..Capacity]
            /\ wrote \in [Stage -> 0..setup.max_writes]
        BY <2>1 DEF ProcessTypeOK
      <4>2. pipe'[i] = pipe[i] + 1 /\ wrote'[i] = wrote[i] + 1
        BY <2>1, <4>1
      <4> QED
        BY <2>1, <3>1, <4>2 DEF Alive
    <3>2. CASE i # Stages
      <4>1. Mode = "capture" => Stages \in Edges /\ Stages \in Stage
        BY SetupFacts
      <4>2. pipe \in [Edges -> 0..Capacity] /\ wrote \in [Stage -> 0..setup.max_writes]
        BY DEF ProcessTypeOK
      <4> QED
        BY <2>1, <3>2, <4>1, <4>2
    <3> QED
      BY <3>1, <3>2
  <2> QED
    BY <2>4, <2>5
<1>2. ASSUME NEW i \in Stage, NEW st \in Status, child[i] = "running", Exits(i, st)
      PROVE  Kept /\ Bytes
  <2>1. /\ child' = [child EXCEPT ![i] = st] /\ news' = news \cup {i}
        /\ UNCHANGED <<reaped, pipe, wrote, stops>>
    BY <1>2 DEF Exits
  <2>2. \A k \in Stage : child'[k] = IF k = i THEN st ELSE child[k]
    BY <2>1 DEF ProcessTypeOK
  <2>3. st \notin {"absent", "running", "stopped"}
    BY DEF Status
  <2>4. ProcessTypeOK'
    BY <2>1, SetupFixed DEF ProcessTypeOK
  <2> QED
    BY <1>2, <2>1, <2>2, <2>3, <2>4, SetupFixed, SetupFacts DEF Alive
<1>3. ASSUME NEW i \in Stage, ChildReads(i)
      PROVE  Kept /\ Bytes
  <2>1. /\ i - 1 \in Edges /\ pipe[i - 1] > 0 /\ pipe' = [pipe EXCEPT ![i - 1] = @ - 1]
        /\ UNCHANGED <<child, news, reaped, wrote, stops>>
    BY <1>3 DEF ChildReads
  <2>2. pipe \in [Edges -> 0..Capacity] /\ i - 1 # Stages
    BY SetupFacts DEF ProcessTypeOK
  <2>3. pipe' \in [Edges -> 0..Capacity]
    <3>1. 1 \in 1..pipe[i - 1]
      BY <2>1, <2>2, SetupFacts
    <3> QED
      BY <2>1, <2>2, <3>1, Taken, SetupFacts
  <2>4. Mode = "capture" => pipe'[Stages] = pipe[Stages]
    BY <2>1, <2>2, SetupFacts
  <2> QED
    BY <2>1, <2>3, <2>4, SetupFixed DEF ProcessTypeOK, Alive
<1>4. CASE GroupStops
  <2>1. /\ stops' = stops + 1 /\ stops < setup.max_stops
        /\ child' = [i \in Stage |-> IF child[i] = "running" THEN "stopped" ELSE child[i]]
        /\ news' = news \cup {i \in Stage : child[i] = "running"}
        /\ UNCHANGED <<reaped, pipe, wrote>>
    BY <1>4 DEF GroupStops
  <2>2. child' \in [Stage -> {"absent", "running", "stopped"} \cup Status] /\ news' \subseteq Stage
    BY <2>1 DEF ProcessTypeOK
  <2>3. stops' \in 0..setup.max_stops
    BY <2>1, SetupFacts DEF ProcessTypeOK
  <2>4. ProcessTypeOK'
    BY <2>1, <2>2, <2>3, SetupFixed DEF ProcessTypeOK
  <2> QED
    BY <2>1, <2>4, SetupFixed, SetupFacts DEF Alive
<1>5. ASSUME NEW i \in Stage, ChildBreaks(i) \/ \E st \in {"ok", "failed"} : ChildExits(i, st)
      PROVE  \E st \in Status : child[i] = "running" /\ Exits(i, st)
  BY <1>5 DEF ChildBreaks, ChildExits, WantsToWrite, Status
<1> QED
  BY <1>1, <1>2, <1>3, <1>4, <1>5 DEF ProcessNext

\* Whoever is ended is waited for; the others, and what is absent, stay as they are.
LEMMA Reaping ==
  ASSUME setup \in Setups, ProcessTypeOK, NEW set \in SUBSET Stage, TerminateAndReap(set),
         UNCHANGED setup, held' \subseteq Endpoint,
         \A i \in Stage : child[i] = "absent" => i \notin news
  PROVE  /\ ProcessTypeOK' /\ UNCHANGED <<pipe, wrote>>
         /\ \A i \in Stage : child'[i] = "absent" <=> child[i] = "absent"
         /\ \A i \in Stage : child'[i] = "absent" => i \notin news'
         /\ reaped \subseteq reaped'
         /\ \A i \in set : Gone(i)'
         /\ Alive(Stages)' => Alive(Stages)
<1>1. /\ child' = [i \in Stage |-> IF i \in set /\ Alive(i) THEN "killed" ELSE child[i]]
      /\ reaped' = reaped \cup {i \in set : child[i] # "absent"}
      /\ news' = news \ {i \in set : child[i] # "absent"}
      /\ UNCHANGED <<pipe, wrote, stops>>
  BY DEF TerminateAndReap
<1>2. ProcessTypeOK'
  <2>1. child' \in [Stage -> {"absent", "running", "stopped"} \cup Status]
    BY <1>1 DEF ProcessTypeOK, Status
  <2> QED
    BY <1>1, <2>1, SetupFixed DEF ProcessTypeOK
<1>3. \A i \in Stage : child'[i] = IF i \in set /\ Alive(i) THEN "killed" ELSE child[i]
  BY <1>1
<1> QED
  BY <1>1, <1>2, <1>3, SetupFixed, SetupFacts DEF Alive, Gone

-----------------------------------------------------------------------------
(* Starting. *)

LEMMA InitIInv ==
  ASSUME Init
  PROVE  IInv
<1>1. /\ setup \in Setups /\ child = [i \in Stage |-> "absent"] /\ news = {} /\ reaped = {}
      /\ pipe = [e \in Edges |-> 0] /\ held = {} /\ wrote = [i \in Stage |-> 0] /\ stops = 0
      /\ main = "pipes" /\ index = 1 /\ resumes = 0 /\ tty = "shell" /\ failed = FALSE
      /\ result = "none" /\ drain = "none" /\ retained = 0 /\ exceeded = FALSE /\ drained = 0
  BY DEF Init, ProcessInit
<1>2. TypeOK
  <2>1. ProcessTypeOK
    <3>1. /\ 0 \in 0..Capacity /\ 0 \in 0..setup.max_writes /\ 0 \in 0..setup.max_stops
          /\ Endpoint = Edges \X {"r", "w"}
      BY <1>1, SetupFacts DEF Endpoint
    <3> QED
      BY <1>1, <3>1 DEF ProcessTypeOK
  <2>2. 1 \in 1..(Stages + 1) /\ 0 \in 0..AutomaticResumeLimit
    BY <1>1, SetupFacts
  <2> QED
    BY <1>1, <2>1, <2>2 DEF TypeOK
<1>3. FlowInv
  <2>1. Mode = "capture" => wrote[Stages] = 0 /\ pipe[Stages] = 0
    BY <1>1, SetupFacts
  <2> QED
    BY <1>1, <2>1, SetupFacts DEF FlowInv
<1>4. StartInv /\ WaitInv /\ DrainInv
  BY <1>1 DEF StartInv, WaitInv, DrainInv
<1>5. TerminalBack /\ NoStrays /\ HoldsOnlyTheDrain
  BY <1>1 DEF TerminalBack, NoStrays, NothingIsLeft, HoldsOnlyTheDrain
<1> QED
  BY <1>1, <1>2, <1>3, <1>4, <1>5 DEF IInv

LEMMA PipesKeep ==
  ASSUME IInv, create_pipes, UNCHANGED setup
  PROVE  IInv'
<1>1. /\ setup \in Setups /\ TypeOK /\ ProcessTypeOK /\ StartInv /\ WaitInv /\ DrainInv /\ FlowInv
      /\ TerminalBack
  BY Known
<1>2. /\ main = "pipes" /\ held' \subseteq Endpoint
      /\ \/ main' = "spawn" /\ result' = result
         \/ main' = "returned" /\ result' = "error"
      /\ UNCHANGED <<child, news, reaped, pipe, wrote, stops, index, resumes, tty, failed, drain,
                     retained, exceeded, drained>>
  BY DEF create_pipes, processVars, captureVars
<1>3. index = 1 /\ drain = "none" /\ \A i \in Stage : child[i] = "absent"
  BY <1>1, <1>2 DEF StartInv, DrainInv
<1>4. TypeOK'
  BY <1>1, <1>2, SetupFixed DEF TypeOK, ProcessTypeOK
<1>5. StartInv'
  <2>1. \A e \in Edges : ~(e < 1) /\ ~(e + 1 < 1)
    BY <1>1, SetupFacts
  <2> QED
    BY <1>1, <1>2, <1>3, <2>1, SetupFixed DEF StartInv
<1>6. WaitInv' /\ DrainInv'
  BY <1>1, <1>2, <1>3, SetupFixed DEF WaitInv, DrainInv
<1>7. TerminalBack' /\ NoStrays' /\ HoldsOnlyTheDrain'
  BY <1>1, <1>2, <1>3, SetupFixed DEF TerminalBack, NoStrays, NothingIsLeft, HoldsOnlyTheDrain
<1>8. FlowInv'
  BY <1>1, <1>2, FlowKept
<1> QED
  BY <1>1, <1>4, <1>5, <1>6, <1>7, <1>8 DEF IInv

\* The stage that is spawned takes its two endpoints with it.
LEMMA StageKeeps ==
  ASSUME IInv, start_stage, UNCHANGED setup
  PROVE  IInv'
<1>1. /\ setup \in Setups /\ TypeOK /\ ProcessTypeOK /\ StartInv /\ WaitInv /\ DrainInv /\ FlowInv
      /\ TerminalBack
  BY Known
<1>2. /\ main = "spawn" /\ index <= Stages /\ index' = index + 1
      /\ child' = [child EXCEPT ![index] = "running"]
      /\ held' = held \ TakenBy(index)
      /\ UNCHANGED <<news, reaped, pipe, wrote, stops, main, resumes, tty, failed, result, drain,
                     retained, exceeded, drained>>
  BY DEF start_stage, Spawn, captureVars
<1>3. index \in Stage /\ index \in Nat /\ index + 1 \in 1..(Stages + 1)
  BY <1>1, <1>2, SetupFacts DEF TypeOK
<1>4. \A i \in Stage : child'[i] = IF i = index THEN "running" ELSE child[i]
  BY <1>1, <1>2 DEF ProcessTypeOK
<1>5. TypeOK'
  <2>1. child' \in [Stage -> {"absent", "running", "stopped"} \cup Status]
    BY <1>1, <1>2 DEF ProcessTypeOK
  <2> QED
    BY <1>1, <1>2, <1>3, <2>1, SetupFixed DEF TypeOK, ProcessTypeOK
<1>6. StartInv'
  <2>1. ASSUME NEW i \in Stage, i >= index + 1 PROVE child'[i] = "absent"
    <3>1. i >= index /\ i # index
      BY <1>1, <1>3, <2>1, SetupFacts
    <3> QED
      BY <1>1, <1>2, <1>4, <3>1 DEF StartInv
  <2>2. ASSUME NEW e \in Edges, e < index + 1 PROVE <<e, "w">> \notin held'
    <3>1. CASE e = index
      BY <1>2, <3>1 DEF TakenBy
    <3>2. CASE e # index
      <4>1. e < index
        BY <1>1, <1>3, <2>2, <3>2, SetupFacts
      <4> QED
        BY <1>1, <1>2, <4>1 DEF StartInv
    <3> QED
      BY <3>1, <3>2
  <2>3. ASSUME NEW e \in Edges, e + 1 < index + 1 PROVE <<e, "r">> \notin held'
    <3>1. CASE e = index - 1
      BY <1>2, <3>1 DEF TakenBy
    <3>2. CASE e # index - 1
      <4>1. e + 1 < index
        BY <1>1, <1>3, <2>3, <3>2, SetupFacts
      <4> QED
        BY <1>1, <1>2, <4>1 DEF StartInv
    <3> QED
      BY <3>1, <3>2
  <2>4. \A i \in Stage : child'[i] = "absent" => i \notin news'
    BY <1>1, <1>2, <1>4 DEF StartInv
  <2> QED
    BY <1>2, <2>1, <2>2, <2>3, <2>4, SetupFixed DEF StartInv
<1>7. WaitInv' /\ DrainInv'
  BY <1>1, <1>2, SetupFixed DEF WaitInv, DrainInv
<1>8. TerminalBack' /\ NoStrays' /\ HoldsOnlyTheDrain'
  BY <1>1, <1>2, SetupFixed DEF TerminalBack, NoStrays, NothingIsLeft, HoldsOnlyTheDrain
<1>9. FlowInv'
  BY <1>1, <1>2, FlowKept
<1> QED
  BY <1>1, <1>5, <1>6, <1>7, <1>8, <1>9 DEF IInv

\* A start that is abandoned leaves neither a child nor an endpoint.
LEMMA AbandonKeeps ==
  ASSUME IInv, NEW k \in Nat, abandon(k), UNCHANGED setup, main = "spawn", index = k
  PROVE  IInv'
<1>1. /\ setup \in Setups /\ TypeOK /\ ProcessTypeOK /\ StartInv /\ WaitInv /\ DrainInv /\ FlowInv
      /\ TerminalBack
  BY Known
<1> DEFINE set == {i \in Stage : i < k}
<1>2. /\ TerminateAndReap(set) /\ held' = {} /\ main' = "returned" /\ result' = "error"
      /\ UNCHANGED <<index, resumes, tty, failed, drain, retained, exceeded, drained>>
  BY DEF abandon, captureVars
<1>3. set \in SUBSET Stage /\ held' \subseteq Endpoint
      /\ \A i \in Stage : child[i] = "absent" => i \notin news
  BY <1>1, <1>2 DEF StartInv
<1>4. /\ ProcessTypeOK' /\ UNCHANGED <<pipe, wrote>>
      /\ \A i \in Stage : child'[i] = "absent" <=> child[i] = "absent"
      /\ \A i \in Stage : child'[i] = "absent" => i \notin news'
      /\ \A i \in set : Gone(i)'
  <2> HIDE DEF set
  <2> QED
    BY <1>1, <1>2, <1>3, Reaping
<1>5. TypeOK'
  BY <1>1, <1>2, <1>4, SetupFixed DEF TypeOK
<1>6. drain' = "none"
  BY <1>1, <1>2 DEF DrainInv
<1>7. StartInv' /\ WaitInv' /\ DrainInv' /\ TerminalBack' /\ HoldsOnlyTheDrain'
  BY <1>1, <1>2, <1>4, <1>6, SetupFixed
     DEF StartInv, WaitInv, DrainInv, TerminalBack, HoldsOnlyTheDrain
<1>8. NoStrays'
  <2>1. ASSUME NEW i \in Stage PROVE child'[i] = "absent" \/ i \in reaped'
    <3>1. CASE i < k
      BY <1>4, <3>1 DEF Gone
    <3>2. CASE ~(i < k)
      <4>1. i >= index
        BY <1>1, <3>2, SetupFacts
      <4> QED
        BY <1>1, <1>4, <4>1 DEF StartInv
    <3> QED
      BY <3>1, <3>2
  <2> QED
    BY <2>1, SetupFixed DEF NoStrays, NothingIsLeft
<1>9. FlowInv'
  BY <1>1, <1>2, <1>4, FlowKept
<1> QED
  BY <1>1, <1>5, <1>7, <1>8, <1>9 DEF IInv

\* All of them are started: the executor goes on, or hands the children over.
LEMMA StartedKeeps ==
  ASSUME IInv, started, UNCHANGED setup
  PROVE  IInv'
<1>1. /\ setup \in Setups /\ TypeOK /\ ProcessTypeOK /\ StartInv /\ WaitInv /\ DrainInv /\ FlowInv
      /\ TerminalBack
  BY Known
<1>2. main = "spawn" /\ index = Stages + 1 /\ index \in Nat
  BY <1>1, SetupFacts DEF started
<1>3. CASE abandon(index)
  BY <1>2, <1>3, AbandonKeeps
<1>4. CASE /\ main' = IF Mode = "background" THEN "returned" ELSE "terminal"
           /\ result' = IF Mode = "background" THEN "ok" ELSE result
           /\ index' = 1
           /\ UNCHANGED <<osVars, resumes, tty, failed, captureVars>>
  <2>1. /\ UNCHANGED <<child, news, reaped, pipe, wrote, stops, held, resumes, tty, failed, drain,
                       retained, exceeded, drained>>
        /\ drain = "none"
    BY <1>1, <1>2, <1>4 DEF osVars, processVars, captureVars, DrainInv
  <2>2. TypeOK'
    <3>1. 1 \in 1..(Stages + 1)
      BY <1>1, SetupFacts
    <3> QED
      BY <1>1, <1>4, <2>1, <3>1, SetupFixed DEF TypeOK, ProcessTypeOK
  <2>3. HoldsOnlyTheDrain'
    <3>1. ASSUME NEW p \in held, Mode # "background" PROVE p \in (IF Mode = "capture" THEN {<<Stages, "r">>} ELSE {})
      <4>1. PICK e \in Edges, d \in {"r", "w"} : p = <<e, d>>
        BY <1>1 DEF ProcessTypeOK, Endpoint
      <4>2. e \in Nat /\ e <= Stages /\ e < index /\ Stages \in Nat
        BY <1>1, <1>2, SetupFacts
      <4>3. d = "r"
        BY <1>1, <1>2, <4>1, <4>2 DEF StartInv
      <4>4. ~(e + 1 < index)
        BY <1>1, <1>2, <4>1, <4>3 DEF StartInv
      <4>5. e = Stages
        BY <1>2, <4>2, <4>4
      <4> QED
        BY <1>1, <4>1, <4>3, <4>5, SetupFacts
    <3> QED
      BY <1>4, <2>1, <3>1, SetupFixed DEF HoldsOnlyTheDrain
  <2>4. StartInv' /\ WaitInv' /\ DrainInv' /\ TerminalBack'
    BY <1>1, <1>2, <1>4, <2>1, SetupFixed
       DEF StartInv, WaitInv, DrainInv, TerminalBack
  <2>5. NoStrays'
    BY <1>4, SetupFixed DEF NoStrays, NothingIsLeft
  <2>6. FlowInv'
    BY <1>1, <2>1, FlowKept
  <2> QED
    BY <1>1, <2>2, <2>3, <2>4, <2>5, <2>6 DEF IInv
<1> QED
  BY <1>3, <1>4 DEF started

\* The terminal is the job's now, unless it is refused.
LEMMA ForegroundKeeps ==
  ASSUME IInv, take_foreground, UNCHANGED setup
  PROVE  IInv'
<1>1. /\ setup \in Setups /\ TypeOK /\ ProcessTypeOK /\ StartInv /\ WaitInv /\ DrainInv /\ FlowInv
      /\ TerminalBack /\ HoldsOnlyTheDrain
  BY Known
<1>2. /\ main = "terminal" /\ drain = "none" /\ index = 1 /\ tty = "shell" /\ result = "none"
      /\ UNCHANGED <<child, news, reaped, pipe, wrote, stops, index, resumes, failed,
                     retained, exceeded, drained>>
  BY <1>1 DEF take_foreground, processVars, DrainInv, StartInv, TerminalBack, WaitInv, TypeOK
<1>3. \/ /\ tty' \in {"job", "shell"}
         /\ main' = IF Mode = "capture" THEN "ready" ELSE "wait"
         /\ drain' = IF Mode = "capture" THEN "first" ELSE drain
         /\ UNCHANGED <<held, result>>
      \/ /\ Fault("terminal")
         /\ main' = "returned" /\ result' = "error" /\ held' = {}
         /\ UNCHANGED <<tty, drain>>
  BY DEF take_foreground
<1>4. TypeOK'
  BY <1>1, <1>2, <1>3, SetupFixed DEF TypeOK, ProcessTypeOK
<1>5. StartInv' /\ WaitInv'
  <2>1. \A i \in Stage : ~(i < 1)
    BY <1>1, SetupFacts
  <2> QED
    BY <1>1, <1>2, <1>3, <2>1, SetupFixed DEF StartInv, WaitInv
<1>6. DrainInv'
  BY <1>1, <1>2, <1>3, SetupFixed DEF DrainInv
<1>7. TerminalBack' /\ HoldsOnlyTheDrain'
  BY <1>1, <1>2, <1>3, SetupFixed DEF TerminalBack, HoldsOnlyTheDrain
<1>8. NoStrays'
  BY <1>1, <1>2, <1>3, SetupFixed DEF NoStrays, NothingIsLeft, Fault
<1>9. FlowInv'
  BY <1>1, <1>2, FlowKept
<1> QED
  BY <1>1, <1>4, <1>5, <1>6, <1>7, <1>8, <1>9 DEF IInv

-----------------------------------------------------------------------------
(* The capture thread. *)

\* A chunk is kept as far as the limit allows; what is dropped is not forgotten.
LEMMA PushKeeps ==
  ASSUME NEW amount \in Nat \ {0}, push(amount), CaptureLimit \in Nat,
         retained \in Nat, drained \in Nat, exceeded \in BOOLEAN,
         IF exceeded THEN retained = CaptureLimit /\ drained > CaptureLimit
                     ELSE retained = drained /\ retained <= CaptureLimit
  PROVE  /\ retained' \in Nat /\ drained' \in Nat /\ exceeded' \in BOOLEAN
         /\ drained' = drained + amount
         /\ IF exceeded' THEN retained' = CaptureLimit /\ drained' > CaptureLimit
                         ELSE retained' = drained' /\ retained' <= CaptureLimit
<1> DEFINE remaining == IF retained < CaptureLimit THEN CaptureLimit - retained ELSE 0
           kept == IF remaining < amount THEN remaining ELSE amount
<1>1. remaining \in Nat /\ kept \in Nat
  OBVIOUS
<1>2. ~exceeded => remaining = CaptureLimit - retained
  OBVIOUS
<1>3. exceeded => kept = 0
  OBVIOUS
<1>4. kept # amount => kept = remaining /\ remaining < amount
  OBVIOUS
<1>5. /\ retained' = retained + kept /\ drained' = drained + amount
      /\ exceeded' \in BOOLEAN /\ (exceeded' <=> exceeded \/ kept # amount)
  BY DEF push
<1> HIDE DEF remaining, kept
<1>6. CASE exceeded
  BY <1>3, <1>5, <1>6
<1>7. CASE ~exceeded /\ kept # amount
  BY <1>1, <1>2, <1>4, <1>5, <1>7
<1>8. CASE ~exceeded /\ kept = amount
  <2>1. remaining >= amount
    BY <1>1, <1>8 DEF kept
  <2> QED
    BY <1>1, <1>2, <1>5, <1>8, <2>1
<1> QED
  BY <1>6, <1>7, <1>8

\* The capture thread reads while the executor waits for its first read, or later.
LEMMA DrainReads ==
  ASSUME IInv, drain \in {"first", "reading"}
  PROVE  /\ Mode = "capture" /\ Stages \in Edges
         /\ main \in {"ready", "wait", "resume", "returned"}
         /\ drain = "first" <=> main = "ready"
         /\ main = "returned" => result \notin {"ok", "limit"}
<1>1. setup \in Setups /\ DrainInv /\ TypeOK
  BY Known
<1>2. Mode = "capture" /\ Stages \in Edges
  BY <1>1, SetupFacts DEF DrainInv
<1> QED
  BY <1>1, <1>2 DEF DrainInv, TypeOK

LEMMA DrainKeeps ==
  ASSUME IInv, drain_stdout, UNCHANGED setup
  PROVE  IInv'
<1>1. /\ setup \in Setups /\ TypeOK /\ ProcessTypeOK /\ StartInv /\ WaitInv /\ DrainInv /\ FlowInv
      /\ TerminalBack /\ NoStrays /\ HoldsOnlyTheDrain
  BY Known
<1>2. /\ drain \in {"first", "reading"}
      /\ UNCHANGED <<child, news, reaped, wrote, stops, main, index, resumes, tty, failed, result>>
  BY DEF drain_stdout, mainVars
<1>3. /\ Mode = "capture" /\ Stages \in Edges
      /\ main \in {"ready", "wait", "resume", "returned"}
      /\ drain = "first" <=> main = "ready"
      /\ main = "returned" => result \notin {"ok", "limit"}
  BY <1>2, DrainReads
<1>4. NoStrays' /\ TerminalBack' /\ WaitInv'
  BY <1>1, <1>2, SetupFixed DEF NoStrays, NothingIsLeft, TerminalBack, WaitInv, Gone
<1>5. ASSUME held' \subseteq held PROVE StartInv' /\ HoldsOnlyTheDrain'
  BY <1>1, <1>2, <1>3, <1>5, SetupFixed DEF StartInv, HoldsOnlyTheDrain
<1>6. ASSUME NEW amount \in 1..pipe[Stages],
             pipe' = [pipe EXCEPT ![Stages] = @ - amount], push(amount),
             drain' = IF drain = "first" THEN "signal" ELSE drain, UNCHANGED held
      PROVE  IInv'
  <2>1. /\ pipe \in [Edges -> 0..Capacity] /\ Capacity \in Nat /\ CaptureLimit \in Nat
        /\ pipe[Stages] \in Nat /\ amount \in Nat \ {0} /\ amount <= pipe[Stages]
        /\ retained \in Nat /\ drained \in Nat /\ exceeded \in BOOLEAN
    BY <1>1, <1>3, <1>6, SetupFacts DEF ProcessTypeOK, TypeOK
  <2>2. pipe' \in [Edges -> 0..Capacity] /\ pipe'[Stages] = pipe[Stages] - amount
    BY <1>3, <1>6, <2>1, Taken
  <2>3. /\ wrote[Stages] = drained + pipe[Stages]
        /\ IF exceeded THEN retained = CaptureLimit /\ drained > CaptureLimit
                       ELSE retained = drained /\ retained <= CaptureLimit
    BY <1>1, <1>3 DEF FlowInv
  <2>4. /\ retained' \in Nat /\ drained' \in Nat /\ exceeded' \in BOOLEAN
        /\ drained' = drained + amount
        /\ IF exceeded' THEN retained' = CaptureLimit /\ drained' > CaptureLimit
                        ELSE retained' = drained' /\ retained' <= CaptureLimit
    BY <1>6, <2>1, <2>3, PushKeeps
  <2>5. FlowInv'
    <3>1. wrote'[Stages] = drained' + pipe'[Stages]
      BY <1>2, <2>1, <2>2, <2>3, <2>4
    <3> QED
      BY <2>4, <3>1, SetupFixed DEF FlowInv
  <2>6. TypeOK'
    BY <1>1, <1>2, <1>6, <2>2, <2>4, SetupFixed DEF TypeOK, ProcessTypeOK
  <2>7. DrainInv'
    BY <1>1, <1>2, <1>3, <1>6, SetupFixed DEF DrainInv
  <2> QED
    BY <1>1, <1>4, <1>5, <1>6, <2>5, <2>6, <2>7 DEF IInv
<1>7. CASE AtEnd(Stages) /\ LastRead /\ UNCHANGED <<pipe, retained, exceeded, drained>>
  <2>1. /\ pipe[Stages] = 0 /\ ~(Piped(Stages) /\ Alive(Stages))
        /\ drain' = IF drain = "first" THEN "signalEnd" ELSE "done"
        /\ held' \subseteq held
    BY <1>7 DEF AtEnd, HasWriter, LastRead
  <2>2. TypeOK'
    BY <1>1, <1>2, <1>7, <2>1, SetupFixed DEF TypeOK, ProcessTypeOK
  <2>3. DrainInv'
    BY <1>1, <1>2, <1>3, <1>7, <2>1, SetupFixed DEF DrainInv, Piped, Alive
  <2>4. FlowInv'
    BY <1>1, <1>2, <1>7, FlowKept
  <2> QED
    BY <1>1, <1>4, <1>5, <2>1, <2>2, <2>3, <2>4 DEF IInv
<1> QED
  BY <1>6, <1>7 DEF drain_stdout

LEMMA ReadFailureKeeps ==
  ASSUME IInv, drain_fails, UNCHANGED setup
  PROVE  IInv'
<1>1. /\ setup \in Setups /\ TypeOK /\ ProcessTypeOK /\ StartInv /\ WaitInv /\ DrainInv /\ FlowInv
      /\ TerminalBack /\ NoStrays /\ HoldsOnlyTheDrain
  BY Known
<1>2. /\ drain \in {"first", "reading"}
      /\ drain' = IF drain = "first" THEN "signalEnd" ELSE "done"
      /\ held' \subseteq held /\ failed' = TRUE
      /\ UNCHANGED <<child, news, reaped, pipe, wrote, stops, main, index, resumes, tty, result,
                     retained, exceeded, drained>>
  BY DEF drain_fails, LastRead, processVars
<1>3. /\ Mode = "capture" /\ main \in {"ready", "wait", "resume", "returned"}
      /\ drain = "first" <=> main = "ready"
      /\ main = "returned" => result \notin {"ok", "limit"}
  BY <1>2, DrainReads
<1>4. NoStrays' /\ TerminalBack' /\ WaitInv'
  BY <1>1, <1>2, SetupFixed DEF NoStrays, NothingIsLeft, TerminalBack, WaitInv, Gone
<1>5. StartInv' /\ HoldsOnlyTheDrain'
  BY <1>1, <1>2, <1>3, SetupFixed DEF StartInv, HoldsOnlyTheDrain
<1>6. TypeOK'
  BY <1>1, <1>2, SetupFixed DEF TypeOK, ProcessTypeOK
<1>7. DrainInv'
  BY <1>1, <1>2, <1>3, SetupFixed DEF DrainInv
<1>8. FlowInv'
  BY <1>1, <1>2, FlowKept
<1> QED
  BY <1>1, <1>4, <1>5, <1>6, <1>7, <1>8 DEF IInv

\* The executor has heard that the first read is over.
LEMMA ReadyKeeps ==
  ASSUME IInv, ready, UNCHANGED setup
  PROVE  IInv'
<1>1. /\ setup \in Setups /\ TypeOK /\ ProcessTypeOK /\ StartInv /\ WaitInv /\ DrainInv /\ FlowInv
      /\ TerminalBack /\ HoldsOnlyTheDrain
  BY Known
<1>2. /\ main = "ready" /\ main' = "wait" /\ drain \in {"signal", "signalEnd"}
      /\ drain' = IF drain = "signal" THEN "reading" ELSE "done"
      /\ UNCHANGED <<child, news, reaped, pipe, wrote, stops, held, index, resumes, tty, failed,
                     result, retained, exceeded, drained>>
  BY DEF ready, osVars, processVars
<1>3. index = 1 /\ \A i \in Stage : ~(i < 1)
  BY <1>1, <1>2, SetupFacts DEF StartInv
<1>4. TypeOK'
  BY <1>1, <1>2, SetupFixed DEF TypeOK, ProcessTypeOK
<1>5. StartInv' /\ WaitInv'
  BY <1>1, <1>2, <1>3, SetupFixed DEF StartInv, WaitInv
<1>6. DrainInv'
  BY <1>1, <1>2, SetupFixed DEF DrainInv, Piped, Alive
<1>7. TerminalBack' /\ HoldsOnlyTheDrain' /\ NoStrays'
  BY <1>1, <1>2, NoStraysYet, SetupFixed DEF TerminalBack, HoldsOnlyTheDrain, NoStrays, NothingIsLeft
<1>8. FlowInv'
  BY <1>1, <1>2, FlowKept
<1> QED
  BY <1>1, <1>4, <1>5, <1>6, <1>7, <1>8 DEF IInv

-----------------------------------------------------------------------------
(* Waiting. *)

\* The executor waits on: the stages before the one it is at are gone.
LEMMA Waits ==
  ASSUME IInv, UNCHANGED <<setup, held, tty, result, drain, retained, exceeded, drained>>,
         main \in {"wait", "resume"}, main' \in {"wait", "resume"},
         main' = "resume" => index' \in Stage,
         index' \in 1..(Stages + 1), resumes' \in 0..AutomaticResumeLimit,
         failed' \in BOOLEAN, failed => failed', ProcessTypeOK', UNCHANGED <<pipe, wrote>>,
         Alive(Stages)' => Alive(Stages),
         \A i \in Stage : child'[i] = "absent" => i \notin news',
         ~Fault("wait") => \A i \in Stage : i < index' => Gone(i)'
  PROVE  IInv'
<1>1. /\ setup \in Setups /\ TypeOK /\ ProcessTypeOK /\ StartInv /\ WaitInv /\ DrainInv /\ FlowInv
      /\ TerminalBack /\ HoldsOnlyTheDrain
  BY Known
<1>2. TypeOK'
  BY <1>1, SetupFixed DEF TypeOK
<1>3. StartInv' /\ WaitInv'
  BY <1>1, SetupFixed DEF StartInv, WaitInv
<1>4. DrainInv'
  <2>1. Piped(Stages)' = Piped(Stages)
    BY DEF Piped, Edges, Stages
  <2> QED
    BY <1>1, <2>1, SetupFixed DEF DrainInv
<1>5. TerminalBack' /\ HoldsOnlyTheDrain' /\ NoStrays'
  BY <1>1, SetupFixed DEF TerminalBack, HoldsOnlyTheDrain, NoStrays, NothingIsLeft
<1>6. FlowInv'
  BY <1>1, FlowKept
<1> QED
  BY <1>1, <1>2, <1>3, <1>4, <1>5, <1>6 DEF IInv

\* Where the wait for a stage can leave the executor: past it, when it is gone, or at it.
LEMMA Indices ==
  ASSUME setup \in Setups, TypeOK, index <= Stages
  PROVE  /\ index \in Stage /\ index + 1 \in 1..(Stages + 1) /\ 0 \in 0..AutomaticResumeLimit
         /\ \A i \in Stage : i < index + 1 => i < index \/ i = index
<1>1. index \in Nat /\ 1 <= index /\ Stages \in Nat /\ AutomaticResumeLimit \in Nat
      /\ \A i \in Stage : i \in Nat
  BY SetupFacts DEF TypeOK
<1> QED
  BY <1>1 DEF Stage

LEMMA TransitionKeeps ==
  ASSUME IInv, wait_for_transition, UNCHANGED setup
  PROVE  IInv'
<1>1. setup \in Setups /\ TypeOK /\ ProcessTypeOK /\ StartInv /\ WaitInv
  BY Known
<1>2. /\ main = "wait" /\ index <= Stages /\ index \in news
      /\ news' = news \ {index}
      /\ reaped' = IF child[index] \in Status THEN reaped \cup {index} ELSE reaped
      /\ UNCHANGED <<child, pipe, wrote, stops, held, failed, tty, result, drain, retained,
                     exceeded, drained>>
  BY DEF wait_for_transition, Observe, captureVars
<1>3. /\ index \in Stage /\ index + 1 \in 1..(Stages + 1) /\ 0 \in 0..AutomaticResumeLimit
      /\ \A i \in Stage : i < index + 1 => i < index \/ i = index
  BY <1>1, <1>2, Indices
<1>4. /\ child[index] \in {"absent", "running", "stopped"} \cup Status /\ child[index] # "absent"
      /\ "running" \notin Status /\ "stopped" \notin Status
  BY <1>1, <1>2, <1>3 DEF ProcessTypeOK, StartInv, Status
<1>5. \/ child[index] \in Status /\ main' = "wait" /\ index' = index + 1 /\ resumes' = 0
      \/ child[index] \notin Status /\ main' \in {"wait", "resume"} /\ UNCHANGED <<index, resumes>>
  <2>1. /\ child[index] \in Status => NextStage
        /\ child[index] = "running" => UNCHANGED <<main, index, resumes>>
        /\ child[index] = "stopped" => main' = "resume" /\ UNCHANGED <<index, resumes>>
    BY <1>4, Zenon DEF wait_for_transition
  <2> QED
    BY <1>2, <1>4, <2>1 DEF NextStage
<1>6. ProcessTypeOK'
  BY <1>1, <1>2, <1>3, SetupFixed DEF ProcessTypeOK
<1>7. /\ \A i \in Stage : Gone(i) => Gone(i)'
      /\ child[index] \in Status => index \in reaped'
      /\ \A i \in Stage : child'[i] = "absent" => i \notin news'
      /\ Alive(Stages)' => Alive(Stages)
  <2>1. reaped \subseteq reaped' /\ (child[index] \in Status => index \in reaped')
    BY <1>2
  <2>2. \A i \in Stage : child'[i] = "absent" => i \notin news'
    BY <1>1, <1>2 DEF StartInv
  <2>3. Alive(Stages)' => Alive(Stages)
    BY <1>2, SetupFixed DEF Alive
  <2> QED
    BY <1>2, <2>1, <2>2, <2>3 DEF Gone
<1>8. ASSUME ~Fault("wait"), NEW i \in Stage, i < index' PROVE Gone(i)'
  <2>1. i < index \/ (i = index /\ child[index] \in Status)
    BY <1>3, <1>5, <1>8
  <2>2. i < index => Gone(i)
    BY <1>1, <1>2, <1>8 DEF WaitInv
  <2> QED
    BY <1>7, <2>1, <2>2 DEF Gone
<1>9. /\ main' = "resume" => index' \in Stage
      /\ index' \in 1..(Stages + 1) /\ resumes' \in 0..AutomaticResumeLimit
  BY <1>1, <1>3, <1>5 DEF TypeOK
<1> QED
  BY <1>1, <1>2, <1>5, <1>6, <1>7, <1>8, <1>9, Waits DEF TypeOK

LEMMA WaitFailureKeeps ==
  ASSUME IInv, wait_fails, UNCHANGED setup
  PROVE  IInv'
<1>1. setup \in Setups /\ TypeOK /\ ProcessTypeOK /\ StartInv /\ WaitInv
  BY Known
<1>2. /\ main = "wait" /\ index <= Stages /\ Fault("wait") /\ failed' = TRUE
      /\ main' = "wait" /\ index' = index + 1 /\ resumes' = 0
      /\ UNCHANGED <<child, news, reaped, pipe, wrote, stops, held, tty, result, drain, retained,
                     exceeded, drained>>
  BY DEF wait_fails, NextStage, osVars, processVars, captureVars
<1>3. index + 1 \in 1..(Stages + 1) /\ 0 \in 0..AutomaticResumeLimit
  BY <1>1, <1>2, Indices
<1>4. ProcessTypeOK' /\ (Alive(Stages)' => Alive(Stages))
      /\ \A i \in Stage : child'[i] = "absent" => i \notin news'
  BY <1>1, <1>2, SetupFixed DEF ProcessTypeOK, Alive, StartInv
<1> QED
  BY <1>2, <1>3, <1>4, Waits

\* A stop is lifted, or the child is ended.
LEMMA ResumeKeeps ==
  ASSUME IInv, resume_stopped_job, UNCHANGED setup
  PROVE  IInv'
<1>1. setup \in Setups /\ TypeOK /\ ProcessTypeOK /\ StartInv /\ WaitInv
  BY Known
<1>2. /\ main = "resume" /\ index \in Stage
      /\ UNCHANGED <<held, tty, result, drain, retained, exceeded, drained>>
  BY <1>1 DEF resume_stopped_job, captureVars, StartInv
<1>3. CASE /\ resumes < AutomaticResumeLimit /\ ContinueGroup
           /\ resumes' = resumes + 1 /\ main' = "wait" /\ UNCHANGED <<index, failed>>
  <2>1. /\ child' = [i \in Stage |-> IF child[i] = "stopped" THEN "running" ELSE child[i]]
        /\ news' = news \cup {i \in Stage : child[i] = "stopped"}
        /\ UNCHANGED <<reaped, pipe, wrote, stops>>
    BY <1>3 DEF ContinueGroup
  <2>2. child' \in [Stage -> {"absent", "running", "stopped"} \cup Status] /\ news' \subseteq Stage
    BY <1>1, <2>1 DEF ProcessTypeOK
  <2>3. ProcessTypeOK'
    BY <1>1, <1>2, <2>1, <2>2, SetupFixed DEF ProcessTypeOK
  <2>4. \A i \in Stage : child'[i] = "absent" <=> child[i] = "absent"
    BY <2>1
  <2>5. /\ \A i \in Stage : Gone(i) => Gone(i)'
        /\ \A i \in Stage : child'[i] = "absent" => i \notin news'
        /\ Alive(Stages)' => Alive(Stages)
    BY <1>1, <2>1, <2>4, SetupFixed, SetupFacts DEF Gone, StartInv, Alive
  <2>6. resumes' \in 0..AutomaticResumeLimit /\ index' \in 1..(Stages + 1) /\ failed' \in BOOLEAN
    BY <1>1, <1>3, SetupFacts DEF TypeOK
  <2>7. ~Fault("wait") => \A i \in Stage : i < index' => Gone(i)'
    BY <1>1, <1>2, <1>3, <2>5 DEF WaitInv
  <2> QED
    BY <1>2, <1>3, <2>1, <2>3, <2>5, <2>6, <2>7, Waits
<1>4. CASE TerminateAndReap({index}) /\ failed' = TRUE /\ NextStage
  <2>1. main' = "wait" /\ index' = index + 1 /\ resumes' = 0
    BY <1>4 DEF NextStage
  <2>2. /\ index + 1 \in 1..(Stages + 1) /\ 0 \in 0..AutomaticResumeLimit
        /\ \A i \in Stage : i < index + 1 => i < index \/ i = index
    <3>1. index <= Stages
      BY <1>1, <1>2, SetupFacts
    <3> QED
      BY <1>1, <3>1, Indices
  <2>3. /\ ProcessTypeOK' /\ UNCHANGED <<pipe, wrote>>
        /\ \A i \in Stage : child'[i] = "absent" <=> child[i] = "absent"
        /\ \A i \in Stage : child'[i] = "absent" => i \notin news'
        /\ reaped \subseteq reaped'
        /\ \A i \in {index} : Gone(i)'
        /\ Alive(Stages)' => Alive(Stages)
    <3>1. held' \subseteq Endpoint /\ {index} \in SUBSET Stage
          /\ \A i \in Stage : child[i] = "absent" => i \notin news
      BY <1>1, <1>2 DEF ProcessTypeOK, StartInv
    <3> QED
      BY <1>1, <1>4, <3>1, Reaping
  <2>4. ~Fault("wait") => \A i \in Stage : i < index' => Gone(i)'
    BY <1>1, <1>2, <2>1, <2>2, <2>3 DEF WaitInv, Gone
  <2> QED
    BY <1>2, <1>4, <2>1, <2>2, <2>3, <2>4, Waits
<1> QED
  BY <1>3, <1>4 DEF resume_stopped_job

\* The executor returns what it knows: every child is gone, the stream is at its end.
LEMMA ReleaseKeeps ==
  ASSUME IInv, release_foreground, UNCHANGED setup
  PROVE  IInv'
<1>1. /\ setup \in Setups /\ TypeOK /\ ProcessTypeOK /\ StartInv /\ WaitInv /\ DrainInv /\ FlowInv
      /\ TerminalBack
  BY Known
<1>2. /\ main = "wait" /\ index = Stages + 1 /\ drain \in {"none", "done"} /\ main' = "returned"
      /\ UNCHANGED <<child, news, reaped, pipe, wrote, stops, held, index, resumes, failed, drain,
                     retained, exceeded, drained>>
  BY DEF release_foreground, osVars, processVars, captureVars
<1>3. PICK restored, again \in BOOLEAN :
         /\ tty' = IF restored \/ again THEN "shell" ELSE tty
         /\ result' = IF failed \/ ~restored THEN "error" ELSE IF exceeded THEN "limit" ELSE "ok"
  BY DEF release_foreground
<1>4. TypeOK'
  BY <1>1, <1>2, <1>3, SetupFixed DEF TypeOK, ProcessTypeOK
<1>5. StartInv' /\ WaitInv' /\ HoldsOnlyTheDrain' /\ TerminalBack'
  BY <1>1, <1>2, <1>3, SetupFixed DEF StartInv, WaitInv, HoldsOnlyTheDrain, TerminalBack, TypeOK
<1>6. DrainInv'
  <2>1. result' = "limit" \/ result' = "ok" => ~failed /\ (result' = "limit" <=> exceeded)
    BY <1>3
  <2>2. Mode = "capture" => drain = "done"
    BY <1>1, <1>2 DEF DrainInv
  <2>3. Piped(Stages)' = Piped(Stages) /\ Alive(Stages)' = Alive(Stages)
    BY <1>2 DEF Piped, Alive, Edges, Stages
  <2> QED
    BY <1>1, <1>2, <2>1, <2>2, <2>3, SetupFixed DEF DrainInv
<1>7. NoStrays'
  <2>1. ASSUME NEW i \in Stage, ~Fault("wait") PROVE child'[i] = "absent" \/ i \in reaped'
    <3>1. i < index
      BY <1>1, <1>2, SetupFacts
    <3> QED
      BY <1>1, <1>2, <2>1, <3>1 DEF WaitInv, Gone
  <2> QED
    BY <2>1, SetupFixed DEF NoStrays, NothingIsLeft, Fault
<1>8. FlowInv'
  BY <1>1, <1>2, FlowKept
<1> QED
  BY <1>1, <1>4, <1>5, <1>6, <1>7, <1>8 DEF IInv

-----------------------------------------------------------------------------
(* The children, and every step. *)

\* What the children do moves the executor nowhere, and only the last one, alive, writes
\* to the capture pipe.
LEMMA ChildrenKeep ==
  ASSUME IInv, Children, UNCHANGED setup
  PROVE  IInv'
<1>1. /\ setup \in Setups /\ TypeOK /\ ProcessTypeOK /\ StartInv /\ WaitInv /\ DrainInv /\ FlowInv
      /\ TerminalBack /\ NoStrays /\ HoldsOnlyTheDrain
  BY Known
<1>2. /\ ProcessNext
      /\ UNCHANGED <<held, main, index, resumes, tty, failed, result, drain, retained, exceeded,
                     drained>>
  BY DEF Children, mainVars, captureVars
<1>3. /\ ProcessTypeOK' /\ reaped' = reaped
      /\ \A i \in Stage : child'[i] = "absent" <=> child[i] = "absent"
      /\ \A i \in Stage : child'[i] = "absent" => i \notin news'
      /\ Alive(Stages)' => Alive(Stages)
      /\ Mode = "capture" =>
           \/ pipe'[Stages] = pipe[Stages] /\ wrote'[Stages] = wrote[Stages]
           \/ /\ Piped(Stages) /\ Alive(Stages)
              /\ pipe'[Stages] = pipe[Stages] + 1 /\ wrote'[Stages] = wrote[Stages] + 1
  <2>1. \A i \in Stage : child[i] = "absent" => i \notin news
    BY <1>1 DEF StartInv
  <2> QED
    BY <1>1, <1>2, <2>1, ProcessKeeps
<1>4. TypeOK'
  BY <1>1, <1>2, <1>3, SetupFixed DEF TypeOK
<1>5. StartInv' /\ WaitInv'
  BY <1>1, <1>2, <1>3, SetupFixed, SetupFacts DEF StartInv, WaitInv, Gone
<1>6. DrainInv'
  <2>1. Piped(Stages)' = Piped(Stages)
    BY DEF Piped, Edges, Stages
  <2> QED
    BY <1>1, <1>2, <1>3, <2>1, SetupFixed DEF DrainInv
<1>7. FlowInv'
  <2>1. Mode = "capture" => pipe[Stages] \in Nat /\ wrote[Stages] \in Nat /\ drained \in Nat
    BY <1>1, SetupFacts DEF ProcessTypeOK, TypeOK
  <2>2. Mode = "capture" => wrote'[Stages] = drained + pipe'[Stages]
    BY <1>1, <1>3, <2>1 DEF FlowInv
  <2> QED
    BY <1>1, <1>2, <2>2, SetupFixed DEF FlowInv
<1>8. TerminalBack' /\ HoldsOnlyTheDrain'
  BY <1>1, <1>2, SetupFixed DEF TerminalBack, HoldsOnlyTheDrain
<1>9. NoStrays'
  BY <1>1, <1>2, <1>3, SetupFixed DEF NoStrays, NothingIsLeft
<1> QED
  BY <1>1, <1>4, <1>5, <1>6, <1>7, <1>8, <1>9 DEF IInv

LEMMA StutterKeeps ==
  ASSUME IInv, UNCHANGED <<vars, setup>>
  PROVE  IInv'
<1>1. UNCHANGED <<child, news, reaped, pipe, wrote, stops, held, main, index, resumes, tty, failed,
                  result, drain, retained, exceeded, drained, setup>>
  BY DEF vars, osVars, processVars, mainVars, captureVars
<1> QED
  BY <1>1, SetupFixed
     DEF IInv, TypeOK, ProcessTypeOK, StartInv, WaitInv, DrainInv, FlowInv, TerminalBack, NoStrays,
         NothingIsLeft, HoldsOnlyTheDrain, Gone, Piped, Alive

LEMMA NextIInv ==
  ASSUME IInv, [Next]_<<vars, setup>>
  PROVE  IInv'
<1>1. CASE UNCHANGED <<vars, setup>>
  BY <1>1, StutterKeeps
<1>2. CASE Next
  <2>1. UNCHANGED setup
    BY <1>2 DEF Next
  <2>2. CASE Executor
    <3>1. index \in Nat /\ (start_fails \/ group_is_invalid => main = "spawn" /\ abandon(index))
      <4>1. setup \in Setups /\ TypeOK
        BY Known
      <4> QED
        BY <4>1, SetupFacts DEF TypeOK, start_fails, group_is_invalid
    <3> QED
      BY <2>1, <2>2, <3>1, PipesKeep, StageKeeps, AbandonKeeps, StartedKeeps, ForegroundKeeps,
         ReadyKeeps, TransitionKeeps, ResumeKeeps, ReleaseKeeps
      DEF Executor
  <2>3. CASE drain_stdout
    BY <2>1, <2>3, DrainKeeps
  <2>4. CASE Failures
    BY <2>1, <2>4, ReadFailureKeeps, WaitFailureKeeps DEF Failures
  <2>5. CASE Children
    BY <2>1, <2>5, ChildrenKeep
  <2>6. CASE finished
    BY <2>1, <2>6, StutterKeeps DEF finished
  <2> QED
    BY <1>2, <2>2, <2>3, <2>4, <2>5, <2>6 DEF Next
<1> QED
  BY <1>1, <1>2

-----------------------------------------------------------------------------
(* What follows. *)

\* The executor, the capture thread and the children, in whatever order they run, keep IInv:
\* who is started, waited for and ended, who holds which end of a pipe, where the capture is.
THEOREM PipelineInvariant == Spec => []IInv
<1>1. Init => IInv
  BY InitIInv
<1>2. IInv /\ [Next]_<<vars, setup>> => IInv'
  BY NextIInv
<1> QED
  BY <1>1, <1>2, PTL DEF Spec

\* The terminal is back when a pipeline returns, or that failed and was reported; an error is
\* returned only after every child that was spawned has been ended and waited, and while the
\* executor blocks the shell holds no pipe end but the one that is drained.
THEOREM PipelineCorrect == Spec => []PipelineConsistent
<1>1. IInv => PipelineConsistent
  BY DEF IInv, PipelineConsistent
<1> QED
  BY <1>1, PipelineInvariant, PTL

\* A capture never reports success with part of the output: the thread read to the end of the
\* stream, so what the last child wrote was read, and the limit is reported when it was passed.
THEOREM CaptureIsWhole == Spec => []NoTruncatedSuccess
<1>1. ASSUME IInv PROVE NoTruncatedSuccess
  <2>1. SUFFICES ASSUME main = "returned", Mode = "capture", result \in {"ok", "limit"}
                 PROVE  /\ result = "ok" => retained = wrote[Stages] /\ retained <= CaptureLimit
                        /\ result = "limit" => retained = CaptureLimit /\ wrote[Stages] > CaptureLimit
    BY DEF NoTruncatedSuccess
  <2>2. /\ setup \in Setups /\ TypeOK /\ DrainInv /\ FlowInv
    BY <1>1, Known
  <2>3. pipe[Stages] = 0 /\ (result = "limit" <=> exceeded)
    BY <2>1, <2>2 DEF DrainInv
  <2>4. wrote[Stages] = drained
    BY <2>1, <2>2, <2>3 DEF FlowInv, TypeOK
  <2> QED
    BY <2>1, <2>2, <2>3, <2>4 DEF FlowInv
<1> QED
  BY <1>1, PipelineInvariant, PTL
=============================================================================
