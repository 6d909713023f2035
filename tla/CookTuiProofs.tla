--------------------------- MODULE CookTuiProofs ---------------------------
(***************************************************************************)
(* Proofs about `repo cook` with the text interface (CookTui), for any     *)
(* recipes and any failures: the interface reports of every recipe what    *)
(* became of it, a question a thread waits on is shown, and its answer     *)
(* reaches the thread and the recipe it was given to.                      *)
(***************************************************************************)
EXTENDS CookTui, SequenceTheorems, TLAPS

\* Where a thread can be with a recipe it has not done with.
Asking == {"failed", "asking", "wait"}
Stuck == Asking \cup {"answered"}
Working == {"busy"} \cup Stuck

Updates == [kind : {"start", "ok", "fail"}, thread : Thread, recipe : Recipe]
           \cup [kind : {"finished"}, thread : Thread, recipe : {0}]

TypeInv ==
  /\ setup \in Setups /\ TypeOK
  /\ work \in Seq(Recipe) /\ status \in Seq(Updates)
  /\ outcome \in [Recipe -> {"none", "fetched", "failed", "cooked"}] /\ staged \subseteq Recipe
  /\ answered = <<>> \/ answered \in Thread \X Recipe \X Answer \X (Answer \cup {"free", "asked"})

\* What a thread does, seen from where it is.
ThreadInv == \A t \in Thread :
  /\ pc[t] \in Working \cup {"handed"} => at[t] \in Recipe
  /\ pc[t] \in Stuck => t \in Failing
  /\ pc[t] \in {"asking", "wait", "answered"} => ~Nonstop
  /\ got[t] = "none" <=> pc[t] # "answered"

\* Recipes are handed over in order, and never two threads work on one.
OrderInv ==
  /\ \A i, j \in DOMAIN work : i < j => work[i] < work[j]
  /\ \A i \in DOMAIN work : at["cook"] < work[i] /\ work[i] <= at["fetch"]
  /\ at["cook"] <= at["fetch"]
  /\ pc["fetch"] \in Working => at["cook"] # at["fetch"] /\ \A i \in DOMAIN work : work[i] # at["fetch"]

\* Once the user chose to leave, the interface takes no more answers.
LeftInv ==
  /\ Left => ~running /\ (phase = "input" => prompt = <<>>)
  /\ prompting = "exit" \/ (\E t \in Thread : got[t] = "exit") => Left
  /\ phase \in {"join", "returned"} => ~running
  /\ ~running => Left \/ cook_complete
  /\ phase = "returned" => \A t \in Thread : pc[t] = "done"

Ends(update) == update.kind = "finished" /\ update.thread = "cook"

\* A run nobody leaves: the fetcher ends after its last recipe, the cooker after the fetcher,
\* and the update that says so is the last.
EndInv == ~Left =>
  /\ pc["fetch"] = "done" => at["fetch"] = Recipes
  /\ pc["cook"] = "done" => pc["fetch"] = "done" /\ work = <<>>
  /\ cook_complete => pc["cook"] = "done" /\ status = <<>>
  /\ \A i \in DOMAIN status : Ends(status[i]) => i = Len(status) /\ pc["cook"] = "done"

\* The last update on a recipe, or what is shown of it if none is on its way.
Heard(updates, screen, r, label) ==
  \/ \E i \in DOMAIN updates :
       /\ updates[i].recipe = r /\ Label(updates[i].kind, updates[i].thread) = label
       /\ \A j \in DOMAIN updates : i < j => updates[j].recipe # r
  \/ (\A i \in DOMAIN updates : updates[i].recipe # r) /\ screen[r] = label

Says(r, label) == Heard(status, shown, r, label)

\* The fetcher is done with r, and the cooker has it, or is to have it.
Fetched(r) == r < at["fetch"] \/ (r = at["fetch"] /\ pc["fetch"] \notin Working)
Given(r) == (\E i \in DOMAIN work : work[i] = r) \/ (r = at["cook"] /\ pc["cook"] \in Working)

FailedSeen(r) == outcome[r] = "failed" /\ Says(r, "Failed")
CookedSeen(r) == outcome[r] = "cooked" /\ Says(r, "Done")
Settled(r) == (FailedSeen(r) \/ CookedSeen(r)) /\ (Apart => r \notin staged)

\* What the interface shows of a recipe, or is about to show, is what became of it.
TruthInv == ~Left =>
  /\ \A r \in Recipe : Fetched(r) /\ ~Given(r) => Settled(r)
  /\ \A t \in Thread : pc[t] \in Stuck => FailedSeen(at[t])

\* Where one thread fails and not the other, a question has one thread that asks it.
Alone == ~Nonstop /\ Failing # Thread

NoFailures == \A i \in DOMAIN status : status[i].kind # "fail"

QuestionInv == Alone =>
  /\ prompting = "asked" => \E t \in Thread : pc[t] = "wait"
  /\ \A t \in Thread : pc[t] = "wait" => prompting # "free"
  /\ prompt # <<>> => NoFailures /\ \E t \in Thread : pc[t] \in Asking /\ prompt = <<t, at[t]>>
  /\ \A i \in DOMAIN status : status[i].kind = "fail" =>
       /\ prompt = <<>> /\ \A j \in DOMAIN status : status[j].kind = "fail" => j = i
       /\ \E t \in Thread : pc[t] \in Asking /\ status[i] = Update("fail", t, at[t])
  /\ \A t \in Thread :
       /\ pc[t] = "wait" /\ prompting \in Answer =>
            answered = <<t, at[t], prompting, "asked">> /\ prompt = <<>> /\ NoFailures
       /\ pc[t] = "answered" =>
            answered = <<t, at[t], got[t], "asked">> /\ prompt = <<>> /\ NoFailures
       /\ ~Hasty /\ (pc[t] \in {"failed", "asking"} \/ (pc[t] = "wait" /\ prompting = "asked")) =>
            prompt = <<t, at[t]>> \/ \E i \in DOMAIN status : status[i] = Update("fail", t, at[t])

Cooked(update) == update.kind = "ok" /\ update.thread = "cook"
Starts(update) == update.kind = "start" /\ update.thread = "cook"

\* When the interface has shown the updates before the n-th, a fetch has an active
\* job; a recipe is being cooked.
FetchesBefore(updates, busy, n) ==
  \/ busy # 0
  \/ \E j \in DOMAIN updates : j < n /\ updates[j].kind = "start" /\ updates[j].thread = "fetch"

CooksBefore(updates, busy, n) ==
  \/ busy # 0 /\ \A k \in DOMAIN updates : k < n => ~Cooked(updates[k])
  \/ \E j \in DOMAIN updates :
       j < n /\ Starts(updates[j]) /\ \A k \in DOMAIN updates : j < k /\ k < n => ~Cooked(updates[k])

\* When the user can leave because cooking failed, both logs have an active job.
ActiveInv == ~Nonstop /\ "fetch" \notin Failing =>
  /\ at["fetch"] # 0 => FetchesBefore(status, active["fetch"], Len(status) + 1)
  /\ pc["cook"] \in Working => CooksBefore(status, active["cook"], Len(status) + 1)
  /\ \A i \in DOMAIN status : status[i].kind = "fail" =>
       /\ FetchesBefore(status, active["fetch"], i) /\ CooksBefore(status, active["cook"], i)
       /\ \A k \in DOMAIN status : i < k => ~Cooked(status[k])
  /\ prompt # <<>> =>
       /\ active["fetch"] # 0 /\ active["cook"] # 0
       /\ \A k \in DOMAIN status : ~Cooked(status[k])
  /\ Left => dumped

ResultInv ==
  /\ result # "none" => phase = "returned"
  /\ ReportsTheOutcome

IInv ==
  /\ TypeInv /\ ThreadInv /\ OrderInv /\ LeftInv /\ EndInv /\ TruthInv /\ QuestionInv /\ ActiveInv
  /\ ResultInv

-----------------------------------------------------------------------------
(* Sequences of updates. *)

\* A sequence with an element appended.
LEMMA AppendFacts ==
  ASSUME NEW S, NEW s \in Seq(S), NEW u \in S
  PROVE  /\ Append(s, u) \in Seq(S) /\ Len(s) \in Nat /\ Len(Append(s, u)) = Len(s) + 1
         /\ DOMAIN s = 1..Len(s) /\ DOMAIN Append(s, u) = 1..(Len(s) + 1)
         /\ \A i \in 1..Len(s) : Append(s, u)[i] = s[i]
         /\ Append(s, u)[Len(s) + 1] = u
  BY AppendProperties

\* The place of an element in the tail.
LEMMA OneLess ==
  ASSUME NEW i \in Nat, NEW n \in Nat, i + 1 = n
  PROVE  i = n - 1
  OBVIOUS

\* A sequence without its first element.
LEMMA TailFacts ==
  ASSUME NEW S, NEW s \in Seq(S), s # <<>>
  PROVE  /\ Tail(s) \in Seq(S) /\ Len(s) \in Nat \ {0} /\ Len(Tail(s)) = Len(s) - 1
         /\ DOMAIN s = 1..Len(s) /\ DOMAIN Tail(s) = 1..(Len(s) - 1)
         /\ Head(s) = s[1] /\ Head(s) \in S
         /\ \A i \in 1..(Len(s) - 1) : Tail(s)[i] = s[i + 1]
  BY HeadTailProperties, EmptySeq, LenProperties

\* Two updates are sent one after the other.
LEMMA SendTwo ==
  ASSUME NEW S, NEW s \in Seq(S), NEW u \in S, NEW v \in S
  PROVE  s \o <<u, v>> = Append(Append(s, u), v)
  OBVIOUS

\* An update on another recipe, or of the end of a thread, changes nothing about
\* what is heard of a recipe.
LEMMA HeardOther ==
  ASSUME NEW S, NEW s \in Seq(S), NEW u \in S, NEW screen, NEW r, NEW label,
         Heard(s, screen, r, label), u.recipe # r
  PROVE  Heard(Append(s, u), screen, r, label)
  <1>1. CASE \E i \in DOMAIN s :
               /\ s[i].recipe = r /\ Label(s[i].kind, s[i].thread) = label
               /\ \A j \in DOMAIN s : i < j => s[j].recipe # r
    <2>1. PICK i \in DOMAIN s :
               /\ s[i].recipe = r /\ Label(s[i].kind, s[i].thread) = label
               /\ \A j \in DOMAIN s : i < j => s[j].recipe # r
      BY <1>1
    <2>2. /\ i \in DOMAIN Append(s, u) /\ Append(s, u)[i] = s[i]
          /\ \A j \in DOMAIN Append(s, u) : i < j => Append(s, u)[j].recipe # r
      BY <2>1, AppendFacts
    <2> QED  BY <2>1, <2>2 DEF Heard
  <1>2. CASE (\A i \in DOMAIN s : s[i].recipe # r) /\ screen[r] = label
    <2>1. \A j \in DOMAIN Append(s, u) : Append(s, u)[j].recipe # r
      BY <1>2, AppendFacts
    <2> QED  BY <1>2, <2>1 DEF Heard
  <1> QED  BY <1>1, <1>2 DEF Heard

\* The update that is sent last is what is heard of its recipe.
LEMMA HeardLast ==
  ASSUME NEW S, NEW s \in Seq(S), NEW u \in S, NEW screen, NEW r, NEW label,
         u.recipe = r, Label(u.kind, u.thread) = label
  PROVE  Heard(Append(s, u), screen, r, label)
  <1>1. /\ Len(s) + 1 \in DOMAIN Append(s, u) /\ Append(s, u)[Len(s) + 1] = u
        /\ \A j \in DOMAIN Append(s, u) : ~(Len(s) + 1 < j)
    BY AppendFacts
  <1> QED  BY <1>1 DEF Heard

\* What is heard stays when the interface shows the next update.
LEMMA HeardNext ==
  ASSUME NEW S, NEW s \in Seq(S), s # <<>>, NEW before, NEW after, NEW r, NEW label,
         Heard(s, before, r, label),
         after[r] = IF Head(s).recipe = r THEN Label(Head(s).kind, Head(s).thread) ELSE before[r]
  PROVE  Heard(Tail(s), after, r, label)
  <1>1. /\ Len(s) \in Nat \ {0} /\ DOMAIN s = 1..Len(s) /\ DOMAIN Tail(s) = 1..(Len(s) - 1)
        /\ Head(s) = s[1] /\ \A i \in 1..(Len(s) - 1) : Tail(s)[i] = s[i + 1]
    BY TailFacts
  <1>2. CASE \E i \in DOMAIN s :
               /\ s[i].recipe = r /\ Label(s[i].kind, s[i].thread) = label
               /\ \A j \in DOMAIN s : i < j => s[j].recipe # r
    <2>1. PICK i \in DOMAIN s :
               /\ s[i].recipe = r /\ Label(s[i].kind, s[i].thread) = label
               /\ \A j \in DOMAIN s : i < j => s[j].recipe # r
      BY <1>2
    <2>2. CASE i = 1
      <3>1. \A j \in DOMAIN Tail(s) : Tail(s)[j].recipe # r
        BY <1>1, <2>1, <2>2
      <3> QED  BY <1>1, <2>1, <2>2, <3>1 DEF Heard
    <2>3. CASE i # 1
      <3>1. /\ i - 1 \in DOMAIN Tail(s) /\ Tail(s)[i - 1] = s[i]
            /\ \A j \in DOMAIN Tail(s) : i - 1 < j => Tail(s)[j].recipe # r
        BY <1>1, <2>1, <2>3
      <3> QED  BY <2>1, <3>1 DEF Heard
    <2> QED  BY <2>2, <2>3
  <1>3. CASE (\A i \in DOMAIN s : s[i].recipe # r) /\ before[r] = label
    <2>1. (\A j \in DOMAIN Tail(s) : Tail(s)[j].recipe # r) /\ Head(s).recipe # r
      BY <1>1, <1>3
    <2> QED  BY <1>3, <2>1 DEF Heard
  <1> QED  BY <1>2, <1>3 DEF Heard

\* What the interface has shown before an update does not depend on what follows it.
LEMMA BeforeStays ==
  ASSUME NEW S, NEW s \in Seq(S), NEW u \in S, NEW busy, NEW n \in 1..(Len(s) + 1)
  PROVE  /\ FetchesBefore(s, busy, n) => FetchesBefore(Append(s, u), busy, n)
         /\ CooksBefore(s, busy, n) => CooksBefore(Append(s, u), busy, n)
  <1>1. /\ Len(s) \in Nat /\ DOMAIN s = 1..Len(s) /\ DOMAIN Append(s, u) = 1..(Len(s) + 1)
        /\ \A i \in 1..Len(s) : Append(s, u)[i] = s[i]
    BY AppendFacts
  <1>2. FetchesBefore(s, busy, n) => FetchesBefore(Append(s, u), busy, n)
    BY <1>1 DEF FetchesBefore
  <1>3. \A m \in 1..Len(s) :
          (\A k \in DOMAIN s : m < k /\ k < n => ~Cooked(s[k])) =>
            \A k \in DOMAIN Append(s, u) : m < k /\ k < n => ~Cooked(Append(s, u)[k])
    BY <1>1 DEF Cooked
  <1>4. (\A k \in DOMAIN s : k < n => ~Cooked(s[k])) =>
            \A k \in DOMAIN Append(s, u) : k < n => ~Cooked(Append(s, u)[k])
    BY <1>1 DEF Cooked
  <1>5. CooksBefore(s, busy, n) => CooksBefore(Append(s, u), busy, n)
    <2>1. CASE busy # 0 /\ \A k \in DOMAIN s : k < n => ~Cooked(s[k])
      BY <1>4, <2>1 DEF CooksBefore
    <2>2. CASE \E j \in DOMAIN s :
                 j < n /\ Starts(s[j]) /\ \A k \in DOMAIN s : j < k /\ k < n => ~Cooked(s[k])
      <3>1. PICK j \in DOMAIN s :
                 j < n /\ Starts(s[j]) /\ \A k \in DOMAIN s : j < k /\ k < n => ~Cooked(s[k])
        BY <2>2
      <3>2. /\ j \in 1..Len(s) /\ j \in DOMAIN Append(s, u) /\ Append(s, u)[j] = s[j]
        BY <1>1
      <3> QED  BY <1>3, <3>1, <3>2 DEF CooksBefore
    <2> QED  BY <2>1, <2>2 DEF CooksBefore
  <1> QED  BY <1>2, <1>5

\* Another update is sent: a recipe is still being fetched, and being cooked unless
\* the update is of its end.
LEMMA BeforeSent ==
  ASSUME NEW S, NEW s \in Seq(S), NEW u \in S, NEW busy
  PROVE  /\ FetchesBefore(s, busy, Len(s) + 1) => FetchesBefore(Append(s, u), busy, Len(s) + 2)
         /\ u.kind = "start" /\ u.thread = "fetch" => FetchesBefore(Append(s, u), busy, Len(s) + 2)
         /\ CooksBefore(s, busy, Len(s) + 1) /\ ~Cooked(u) => CooksBefore(Append(s, u), busy, Len(s) + 2)
         /\ Starts(u) => CooksBefore(Append(s, u), busy, Len(s) + 2)
  <1>1. /\ Len(s) \in Nat /\ DOMAIN s = 1..Len(s) /\ DOMAIN Append(s, u) = 1..(Len(s) + 1)
        /\ \A i \in 1..Len(s) : Append(s, u)[i] = s[i]
        /\ Append(s, u)[Len(s) + 1] = u
    BY AppendFacts
  <1>2. FetchesBefore(s, busy, Len(s) + 1) => FetchesBefore(Append(s, u), busy, Len(s) + 2)
    BY <1>1 DEF FetchesBefore
  <1>3. u.kind = "start" /\ u.thread = "fetch" => FetchesBefore(Append(s, u), busy, Len(s) + 2)
    BY <1>1 DEF FetchesBefore
  <1>4. ASSUME CooksBefore(s, busy, Len(s) + 1), ~Cooked(u)
        PROVE  CooksBefore(Append(s, u), busy, Len(s) + 2)
    <2>1. CASE busy # 0 /\ \A k \in DOMAIN s : k < Len(s) + 1 => ~Cooked(s[k])
      <3>1. \A k \in DOMAIN Append(s, u) : ~Cooked(Append(s, u)[k])
        BY <1>1, <1>4, <2>1 DEF Cooked
      <3> QED  BY <2>1, <3>1 DEF CooksBefore
    <2>2. CASE \E j \in DOMAIN s : j < Len(s) + 1 /\ Starts(s[j])
                                   /\ \A k \in DOMAIN s : j < k /\ k < Len(s) + 1 => ~Cooked(s[k])
      <3>1. PICK j \in DOMAIN s : Starts(s[j]) /\ \A k \in DOMAIN s : j < k /\ k < Len(s) + 1 => ~Cooked(s[k])
        BY <2>2
      <3>2. /\ j \in DOMAIN Append(s, u) /\ Append(s, u)[j] = s[j] /\ j < Len(s) + 2
            /\ \A k \in DOMAIN Append(s, u) : j < k => ~Cooked(Append(s, u)[k])
        BY <1>1, <1>4, <3>1 DEF Cooked
      <3> QED  BY <3>1, <3>2 DEF CooksBefore
    <2> QED  BY <1>4, <2>1, <2>2 DEF CooksBefore
  <1>5. ASSUME Starts(u)
        PROVE  CooksBefore(Append(s, u), busy, Len(s) + 2)
    <2>1. /\ Len(s) + 1 \in DOMAIN Append(s, u) /\ Len(s) + 1 < Len(s) + 2
          /\ \A k \in DOMAIN Append(s, u) : ~(Len(s) + 1 < k)
      BY <1>1
    <2> QED  BY <1>1, <1>5, <2>1 DEF CooksBefore
  <1> QED  BY <1>2, <1>3, <1>4, <1>5

\* The interface shows an update: a recipe is fetched and cooked from then on, or
\* its start is still to be shown.
LEMMA BeforeNext ==
  ASSUME NEW S, NEW s \in Seq(S), s # <<>>, NEW before, NEW after, NEW n \in Nat \ {0}
  PROVE  /\ /\ FetchesBefore(s, before, n + 1)
            /\ IF Head(s).kind = "start" /\ Head(s).thread = "fetch" THEN after # 0 ELSE after = before
            => FetchesBefore(Tail(s), after, n)
         /\ /\ CooksBefore(s, before, n + 1)
            /\ Starts(Head(s)) => after # 0
            /\ ~Starts(Head(s)) /\ ~Cooked(Head(s)) => after = before
            => CooksBefore(Tail(s), after, n)
  <1>1. /\ Len(s) \in Nat \ {0} /\ DOMAIN s = 1..Len(s) /\ DOMAIN Tail(s) = 1..(Len(s) - 1)
        /\ Head(s) = s[1] /\ \A i \in 1..(Len(s) - 1) : Tail(s)[i] = s[i + 1]
    BY TailFacts
  <1>2. \A i \in DOMAIN s : i # 1 => i - 1 \in DOMAIN Tail(s) /\ Tail(s)[i - 1] = s[i]
    BY <1>1
  <1>3. \A k \in DOMAIN Tail(s) : k + 1 \in DOMAIN s /\ Tail(s)[k] = s[k + 1]
    BY <1>1
  <1>4. ASSUME FetchesBefore(s, before, n + 1),
               IF Head(s).kind = "start" /\ Head(s).thread = "fetch" THEN after # 0 ELSE after = before
        PROVE  FetchesBefore(Tail(s), after, n)
    <2>1. CASE before # 0
      BY <1>4, <2>1 DEF FetchesBefore
    <2>2. CASE \E j \in DOMAIN s : j < n + 1 /\ s[j].kind = "start" /\ s[j].thread = "fetch"
      <3>1. PICK j \in DOMAIN s : j < n + 1 /\ s[j].kind = "start" /\ s[j].thread = "fetch"
        BY <2>2
      <3>2. CASE j = 1
        BY <1>1, <1>4, <3>1, <3>2 DEF FetchesBefore
      <3>3. CASE j # 1
        <4>1. j - 1 \in DOMAIN Tail(s) /\ j - 1 < n /\ Tail(s)[j - 1] = s[j]
          BY <1>1, <1>2, <3>1, <3>3
        <4> QED  BY <3>1, <4>1 DEF FetchesBefore
      <3> QED  BY <3>2, <3>3
    <2> QED  BY <1>4, <2>1, <2>2 DEF FetchesBefore
  <1>5. ASSUME CooksBefore(s, before, n + 1), Starts(Head(s)) => after # 0,
               ~Starts(Head(s)) /\ ~Cooked(Head(s)) => after = before
        PROVE  CooksBefore(Tail(s), after, n)
    <2>1. CASE before # 0 /\ \A k \in DOMAIN s : k < n + 1 => ~Cooked(s[k])
      <3>1. ~Cooked(Head(s)) /\ after # 0
        BY <1>1, <1>5, <2>1
      <3>2. \A k \in DOMAIN Tail(s) : k < n => ~Cooked(Tail(s)[k])
        <4> SUFFICES ASSUME NEW k \in DOMAIN Tail(s), k < n
                     PROVE  ~Cooked(Tail(s)[k])
          OBVIOUS
        <4>1. k + 1 \in DOMAIN s /\ k + 1 < n + 1 /\ Tail(s)[k] = s[k + 1]
          BY <1>1
        <4> QED  BY <2>1, <4>1
      <3> QED  BY <3>1, <3>2 DEF CooksBefore
    <2>2. CASE \E j \in DOMAIN s :
                 j < n + 1 /\ Starts(s[j]) /\ \A k \in DOMAIN s : j < k /\ k < n + 1 => ~Cooked(s[k])
      <3>1. PICK j \in DOMAIN s :
                 j < n + 1 /\ Starts(s[j]) /\ \A k \in DOMAIN s : j < k /\ k < n + 1 => ~Cooked(s[k])
        BY <2>2
      <3>2. ASSUME NEW k \in DOMAIN Tail(s), j < k + 1, k < n
            PROVE  ~Cooked(Tail(s)[k])
        <4>1. k + 1 \in DOMAIN s /\ k + 1 < n + 1 /\ Tail(s)[k] = s[k + 1]
          BY <1>1, <3>2
        <4> QED  BY <3>1, <3>2, <4>1
      <3>3. CASE j = 1
        <4>1. after # 0
          BY <1>1, <1>5, <3>1, <3>3
        <4>2. \A k \in DOMAIN Tail(s) : k < n => ~Cooked(Tail(s)[k])
          BY <1>1, <3>2, <3>3
        <4> QED  BY <4>1, <4>2 DEF CooksBefore
      <3>4. CASE j # 1
        <4>1. j - 1 \in DOMAIN Tail(s) /\ j - 1 < n /\ Tail(s)[j - 1] = s[j]
          BY <1>1, <1>2, <3>1, <3>4
        <4>2. \A k \in DOMAIN Tail(s) : j - 1 < k /\ k < n => ~Cooked(Tail(s)[k])
          BY <1>1, <3>2, <3>4
        <4>3. Starts(Tail(s)[j - 1])
          BY <3>1, <4>1
        <4> QED  BY <4>1, <4>2, <4>3 DEF CooksBefore
      <3> QED  BY <3>3, <3>4
    <2> QED  BY <1>5, <2>1, <2>2 DEF CooksBefore
  <1> QED  BY <1>4, <1>5

\* The answer to a question, with the question it was given to.
LEMMA AnswerTo ==
  ASSUME NEW q \in Thread \X Recipe, NEW answer \in Answer
  PROVE  /\ <<q[1], q[2], answer, prompting>>[3] = answer /\ <<q[1], q[2], answer, prompting>>[4] = prompting
         /\ <<q[1], q[2], answer, prompting>> # <<>> /\ q # <<>>
         /\ q = <<q[1], q[2]>> /\ q[1] \in Thread /\ q[2] \in Recipe
  <1>1. q = <<q[1], q[2]>> /\ q[1] \in Thread /\ q[2] \in Recipe
    OBVIOUS
  <1>4. \A a, b : <<a, b>> # <<>>
    OBVIOUS
  <1>5. \A a, b, c, d : <<a, b, c, d>> # <<>> /\ <<a, b, c, d>>[3] = c /\ <<a, b, c, d>>[4] = d
    OBVIOUS
  <1>6. q # <<>>
    BY <1>1, <1>4, Zenon
  <1> QED  BY <1>1, <1>5, <1>6

-----------------------------------------------------------------------------
(* Steps and types. *)

\* A setup of the assumption.
LEMMA SetupFacts ==
  ASSUME TypeInv
  PROVE  /\ Recipes \in Nat \ {0} /\ Recipe = 1..Recipes /\ Nonstop \in BOOLEAN
         /\ Failing \subseteq Thread /\ Thread = {"fetch", "cook"}
         /\ 0 \notin Recipe /\ Recipe \subseteq 0..Recipes /\ Recipe \subseteq Nat
  BY TuiAssumption DEF TypeInv, Recipes, Recipe, Nonstop, Failing, Thread

\* What a step is.
LEMMA Steps ==
  ASSUME [Next]_<<vars, setup>>
  PROVE  /\ setup' = setup
         /\ \/ start_fetch \/ start_cook \/ fetched \/ cooked
            \/ \E t \in Thread :
                 \/ look_for_exit(t) \/ fails(t) \/ skip_in_nonstop(t) \/ wait_other_prompt(t)
                 \/ ask(t) \/ load_answer(t) \/ take_answer(t) \/ switch_view(t)
            \/ end_input \/ update_status \/ end_drain \/ report
            \/ \E answer \in Answer : press(answer)
            \/ UNCHANGED vars
  BY DEF Next, Worker, Interface, returned

\* What does not change when the setup does not.
LEMMA SetupStays ==
  ASSUME setup' = setup
  PROVE  /\ Recipes' = Recipes /\ Recipe' = Recipe /\ Nonstop' = Nonstop /\ Failing' = Failing
         /\ Updates' = Updates /\ Apart' = Apart /\ Alone' = Alone
  BY DEF Recipes, Recipe, Nonstop, Failing, Updates, Apart, Alone

\* The updates that are sent and shown are updates.
LEMMA UpdateFacts ==
  ASSUME NEW t \in Thread, NEW r \in Recipe, NEW kind \in {"start", "ok", "fail"}
  PROVE  /\ Update(kind, t, r) \in Updates
         /\ Update(kind, t, r).kind = kind /\ Update(kind, t, r).thread = t
         /\ Update(kind, t, r).recipe = r
  BY DEF Update, Updates

\* So is the update a thread sends when it ends.
LEMMA EndFacts ==
  ASSUME NEW t \in Thread
  PROVE  /\ Update("finished", t, 0) \in Updates
         /\ Update("finished", t, 0).kind = "finished" /\ Update("finished", t, 0).thread = t
         /\ Update("finished", t, 0).recipe = 0
  BY DEF Update, Updates

\* An update is sent.
LEMMA SentFacts ==
  ASSUME status \in Seq(Updates), NEW u \in Updates, status' = Append(status, u)
  PROVE  /\ status' \in Seq(Updates) /\ Len(status) \in Nat /\ Len(status') = Len(status) + 1
         /\ DOMAIN status = 1..Len(status) /\ DOMAIN status' = 1..(Len(status) + 1)
         /\ \A i \in 1..Len(status) : status'[i] = status[i]
         /\ status'[Len(status) + 1] = u
  BY AppendFacts

\* The types are kept.
LEMMA TypeStep ==
  ASSUME IInv, [Next]_<<vars, setup>>
  PROVE  TypeInv'
  <1> USE DEF TypeInv, TypeOK
  <1>1. /\ TypeInv /\ ThreadInv /\ setup' = setup
        /\ Recipes' = Recipes /\ Recipe' = Recipe /\ Updates' = Updates
        /\ Nonstop' = Nonstop /\ Failing' = Failing
    BY Steps, SetupStays DEF IInv
  <1>2. /\ Recipes \in Nat \ {0} /\ Recipe = 1..Recipes /\ Recipe \subseteq 0..Recipes
        /\ Thread = {"fetch", "cook"} /\ setup' \in Setups
    BY <1>1, SetupFacts
  <1>3. \A t \in Thread : pc[t] \in Working \cup {"handed"} => at[t] \in Recipe
    BY <1>1 DEF ThreadInv
  <1>a. CASE start_fetch
    <2>1. at["fetch"] # Recipes => at["fetch"] + 1 \in Recipe
      BY <1>1, <1>2
    <2>2. status' \in Seq(Updates)
      <3>1. CASE at["fetch"] = Recipes
        BY <1>a, <1>1, <1>2, <3>1, EndFacts, SentFacts DEF start_fetch, Finish, Send
      <3>2. CASE at["fetch"] # Recipes
        BY <1>a, <1>1, <1>2, <2>1, <3>2, UpdateFacts, SentFacts DEF start_fetch, Send
      <3> QED  BY <3>1, <3>2
    <2> QED  BY <1>a, <1>1, <1>2, <2>1, <2>2 DEF start_fetch, Finish, appVars
  <1>b. CASE start_cook
    <2>1. CASE work # <<>> /\ work' = Tail(work) /\ at' = [at EXCEPT !["cook"] = Head(work)]
               /\ pc' = [pc EXCEPT !["cook"] = "busy"] /\ Send(Update("start", "cook", Head(work)))
      <3>1. Head(work) \in Recipe /\ work' \in Seq(Recipe) /\ \A i \in DOMAIN work' : work'[i] \in Recipe
        BY <1>1, <2>1, TailFacts
      <3>2. status' \in Seq(Updates)
        BY <1>1, <1>2, <2>1, <3>1, UpdateFacts, SentFacts DEF Send
      <3> QED  BY <1>b, <1>1, <1>2, <2>1, <3>1, <3>2, ZenonT(60) DEF start_cook, appVars
    <2>2. CASE Finish("cook") /\ UNCHANGED <<at, work>>
      <3>1. status' \in Seq(Updates)
        BY <1>1, <1>2, <2>2, EndFacts, SentFacts DEF Finish, Send
      <3> QED  BY <1>b, <1>1, <1>2, <2>2, <3>1, SMTT(40) DEF start_cook, Finish, appVars
    <2> QED  BY <1>b, <2>1, <2>2 DEF start_cook
  <1>c. CASE fetched
    <2>1. at["fetch"] \in Recipe
      BY <1>c, <1>1, <1>2, <1>3 DEF fetched, Working
    <2>2. status' \in Seq(Updates)
      <3>1. Update("ok", "fetch", at["fetch"]) \in Updates /\ Update("finished", "fetch", 0) \in Updates
        BY <1>2, <2>1, UpdateFacts, EndFacts
      <3>2. CASE pc["cook"] = "done"
        <4>1. status' = Append(Append(status, Update("ok", "fetch", at["fetch"])), Update("finished", "fetch", 0))
          BY <1>c, <1>1, <3>1, <3>2, SendTwo DEF fetched
        <4> QED  BY <1>1, <3>1, <4>1, AppendFacts
      <3>3. CASE pc["cook"] # "done"
        BY <1>c, <1>1, <3>1, <3>3, SentFacts DEF fetched, Send
      <3> QED  BY <3>2, <3>3
    <2>3. work' \in Seq(Recipe) /\ \A i \in DOMAIN work' : work'[i] \in Recipe
      <3>1. CASE work' = Append(work, at["fetch"])
        BY <1>1, <2>1, <3>1, AppendFacts
      <3>2. CASE work' = work
        BY <1>1, <3>2
      <3> QED  BY <1>c, <3>1, <3>2 DEF fetched
    <2>4. pc' \in [Thread -> {"next", "busy", "handed", "failed", "asking", "wait", "answered", "done"}]
          /\ outcome' \in [Recipe -> {"none", "fetched", "failed", "cooked"}]
      BY <1>c, <1>1, <1>2, <2>1 DEF fetched
    <2> QED  BY <1>c, <1>1, <1>2, <2>1, <2>2, <2>3, <2>4 DEF fetched, appVars
  <1>d. CASE cooked
    <2>1. at["cook"] \in Recipe
      BY <1>d, <1>1, <1>2, <1>3 DEF cooked, Working
    <2>2. status' \in Seq(Updates)
      BY <1>d, <1>1, <1>2, <2>1, UpdateFacts, SentFacts DEF cooked, Send
    <2> QED  BY <1>d, <1>1, <1>2, <2>1, <2>2, ZenonT(60) DEF cooked, appVars
  <1>e. ASSUME NEW t \in Thread,
               look_for_exit(t) \/ fails(t) \/ skip_in_nonstop(t) \/ wait_other_prompt(t)
                 \/ ask(t) \/ load_answer(t) \/ take_answer(t) \/ switch_view(t)
        PROVE  TypeInv'
    <2>1. CASE look_for_exit(t)
      <3>1. status' \in Seq(Updates)
        BY <1>1, <1>2, <1>e, <2>1, EndFacts, SentFacts, SMTT(40) DEF look_for_exit, Finish, Send
      <3> QED  BY <1>1, <1>2, <1>e, <2>1, <3>1 DEF look_for_exit, Finish, appVars
    <2>2. CASE fails(t)
      <3>1. at[t] \in Recipe
        BY <1>3, <1>e, <2>2 DEF fails, Working
      <3>2. status' \in Seq(Updates)
        BY <1>1, <1>e, <2>2, <3>1, UpdateFacts, SentFacts DEF fails, Send
      <3> QED  BY <1>1, <1>2, <1>e, <2>2, <3>1, <3>2, ZenonT(60) DEF fails, appVars
    <2>3. CASE skip_in_nonstop(t)
      <3>1. status' \in Seq(Updates)
        <4>1. status' = status \/ status' = Append(status, Update("finished", t, 0))
          BY <2>3, SMTT(40) DEF skip_in_nonstop, Finish, Send
        <4> QED  BY <1>1, <1>2, <1>e, <4>1, EndFacts, SentFacts
      <3>2. pc' = [pc EXCEPT ![t] = "done"] \/ pc' = [pc EXCEPT ![t] = "next"]
        BY <2>3, SMTT(40) DEF skip_in_nonstop, Finish
      <3>3. pc' \in [Thread -> {"next", "busy", "handed", "failed", "asking", "wait", "answered", "done"}]
        <4>1. pc \in [Thread -> {"next", "busy", "handed", "failed", "asking", "wait", "answered", "done"}]
          BY <1>1
        <4> QED  BY <3>2, <4>1
      <3>4. staged' \subseteq Recipe
        BY <1>1, <2>3 DEF skip_in_nonstop
      <3> QED  BY <1>1, <1>2, <1>e, <2>3, <3>1, <3>3, <3>4 DEF skip_in_nonstop, appVars
    <2>4. CASE wait_other_prompt(t)
      BY <1>1, <1>2, <1>e, <2>4 DEF wait_other_prompt, appVars
    <2>5. CASE ask(t)
      BY <1>1, <1>2, <1>e, <2>5 DEF ask, appVars
    <2>6. CASE load_answer(t)
      BY <1>1, <1>2, <1>e, <2>6 DEF load_answer, appVars
    <2>7. CASE take_answer(t)
      <3>1. at[t] \in Recipe /\ got[t] \in Answer
        BY <1>1, <1>e, <2>7 DEF take_answer, Working, Stuck, ThreadInv
      <3>2. status' \in Seq(Updates)
        <4>1. CASE got[t] = "retry"
          BY <1>1, <1>e, <2>7, <3>1, <4>1, UpdateFacts, SentFacts DEF take_answer, Send
        <4>2. CASE got[t] = "skip"
          BY <1>1, <1>e, <2>7, <3>1, <4>2 DEF take_answer
        <4>3. CASE got[t] = "exit"
          BY <1>1, <1>e, <2>7, <3>1, <4>3, EndFacts, SentFacts DEF take_answer, Finish, Send
        <4> QED  BY <3>1, <4>1, <4>2, <4>3 DEF Answer
      <3>3. pc' \in [Thread -> {"next", "busy", "handed", "failed", "asking", "wait", "answered", "done"}]
            /\ staged' \subseteq Recipe
        BY <1>1, <1>e, <2>7, <3>1 DEF take_answer, Finish, Answer
      <3> QED  BY <1>1, <1>2, <1>e, <2>7, <3>1, <3>2, <3>3 DEF take_answer, appVars
    <2>8. CASE switch_view(t)
      BY <1>1, <1>2, <1>e, <2>8 DEF switch_view, threadVars
    <2> QED  BY <1>e, <2>1, <2>2, <2>3, <2>4, <2>5, <2>6, <2>7, <2>8
  <1>f. CASE end_input
    BY <1>f, <1>1, <1>2 DEF end_input, threadVars
  <1>g. CASE update_status
    <2>1. Head(status) \in Updates /\ status' \in Seq(Updates)
      BY <1>g, <1>1, TailFacts DEF update_status
    <2>2. CASE Head(status).kind = "finished"
      BY <1>g, <1>1, <1>2, <2>1, <2>2 DEF update_status, threadVars
    <2>3. CASE Head(status).kind # "finished"
      <3>1. /\ Head(status).kind \in {"start", "ok", "fail"} /\ Head(status).thread \in Thread
            /\ Head(status).recipe \in Recipe
        BY <2>1, <2>3 DEF Updates
      <3>2. shown' \in [Recipe -> {"Pending", "Fetching", "Fetched", "Cooking", "Done", "Failed"}]
        BY <1>g, <1>1, <2>3, <3>1 DEF update_status, Label
      <3>3. active' \in [Thread -> 0..Recipes]
        BY <1>g, <1>1, <1>2, <2>3, <3>1 DEF update_status
      <3>4. prompt' = <<>> \/ prompt' \in Thread \X Recipe
        BY <1>g, <1>1, <2>3, <3>1 DEF update_status
      <3> QED  BY <1>g, <1>1, <1>2, <2>1, <2>3, <3>2, <3>3, <3>4 DEF update_status, threadVars
    <2> QED  BY <2>2, <2>3
  <1>h. CASE end_drain
    BY <1>h, <1>1, <1>2 DEF end_drain, threadVars
  <1>i. CASE report
    BY <1>i, <1>1, <1>2 DEF report, threadVars
  <1>j. ASSUME NEW answer \in Answer, press(answer)
        PROVE  TypeInv'
    <2>1. answered' \in Thread \X Recipe \X Answer \X (Answer \cup {"free", "asked"})
      BY <1>1, <1>j, AnswerTo DEF press
    <2> QED  BY <1>1, <1>2, <1>j, <2>1 DEF press, threadVars
  <1>k. CASE UNCHANGED vars
    BY <1>k, <1>1, <1>2 DEF vars, threadVars, appVars
  <1> QED  BY <1>a, <1>b, <1>c, <1>d, <1>e, <1>f, <1>g, <1>h, <1>i, <1>j, <1>k, Steps

\* What a thread does is kept in agreement with where it is.
LEMMA ThreadStep ==
  ASSUME IInv, [Next]_<<vars, setup>>
  PROVE  ThreadInv'
  <1> USE DEF ThreadInv, Working, Stuck, Asking
  <1>1. /\ TypeInv /\ ThreadInv /\ setup' = setup
        /\ Recipes' = Recipes /\ Recipe' = Recipe /\ Nonstop' = Nonstop /\ Failing' = Failing
        /\ Apart' = Apart /\ Alone' = Alone
    BY Steps, SetupStays DEF IInv
  <1>2. /\ Recipes \in Nat \ {0} /\ Recipe = 1..Recipes /\ Thread = {"fetch", "cook"}
        /\ Failing \subseteq Thread /\ 0 \notin Recipe
    BY <1>1, SetupFacts
  <1>3. /\ pc \in [Thread -> {"next", "busy", "handed", "failed", "asking", "wait", "answered", "done"}]
        /\ at \in [Thread -> 0..Recipes] /\ got \in [Thread -> Answer \cup {"none"}]
        /\ work \in Seq(Recipe) /\ prompting \in Answer \cup {"free", "asked"}
        /\ Answer = {"retry", "skip", "exit"}
    BY <1>1 DEF TypeInv, TypeOK, Answer
  <1>a. CASE start_fetch
    BY <1>1, <1>2, <1>3, <1>a DEF start_fetch, Finish, appVars
  <1>b. CASE start_cook
    <2>1. work # <<>> => Head(work) \in Recipe
      BY <1>3, TailFacts
    <2> QED  BY <1>1, <1>2, <1>3, <1>b, <2>1 DEF start_cook, Finish, appVars
  <1>c. CASE fetched
    BY <1>1, <1>2, <1>3, <1>c DEF fetched, appVars
  <1>d. CASE cooked
    BY <1>1, <1>2, <1>3, <1>d DEF cooked, appVars
  <1>e. ASSUME NEW t \in Thread,
               look_for_exit(t) \/ fails(t) \/ skip_in_nonstop(t) \/ wait_other_prompt(t)
                 \/ ask(t) \/ load_answer(t) \/ take_answer(t) \/ switch_view(t)
        PROVE  ThreadInv'
    <2>1. CASE look_for_exit(t)
      BY <1>1, <1>2, <1>3, <1>e, <2>1 DEF look_for_exit, Finish, appVars
    <2>2. CASE fails(t)
      BY <1>1, <1>2, <1>3, <1>e, <2>2 DEF fails, appVars
    <2>3. CASE skip_in_nonstop(t)
      BY <1>1, <1>2, <1>3, <1>e, <2>3 DEF skip_in_nonstop, Finish, appVars
    <2>4. CASE wait_other_prompt(t)
      BY <1>1, <1>2, <1>3, <1>e, <2>4 DEF wait_other_prompt, appVars
    <2>5. CASE ask(t)
      BY <1>1, <1>2, <1>3, <1>e, <2>5 DEF ask, appVars
    <2>6. CASE load_answer(t)
      BY <1>1, <1>2, <1>3, <1>e, <2>6 DEF load_answer, appVars
    <2>7. CASE take_answer(t)
      <3>1. got[t] \in Answer
        BY <1>1, <1>3, <1>e, <2>7 DEF take_answer
      <3>2. CASE got[t] = "retry"
        BY <1>1, <1>2, <1>3, <1>e, <2>7, <3>2 DEF take_answer
      <3>3. CASE got[t] = "skip"
        BY <1>1, <1>2, <1>3, <1>e, <2>7, <3>3 DEF take_answer
      <3>4. CASE got[t] = "exit"
        BY <1>1, <1>2, <1>3, <1>e, <2>7, <3>4 DEF take_answer, Finish
      <3> QED  BY <1>3, <3>1, <3>2, <3>3, <3>4
    <2>8. CASE switch_view(t)
      BY <1>1, <1>2, <1>3, <1>e, <2>8 DEF switch_view, threadVars
    <2> QED  BY <1>e, <2>1, <2>2, <2>3, <2>4, <2>5, <2>6, <2>7, <2>8
  <1>f. CASE end_input
    BY <1>1, <1>2, <1>3, <1>f DEF end_input, threadVars
  <1>g. CASE update_status
    BY <1>1, <1>2, <1>3, <1>g DEF update_status, threadVars
  <1>h. CASE end_drain
    BY <1>1, <1>2, <1>3, <1>h DEF end_drain, threadVars
  <1>i. CASE report
    BY <1>1, <1>2, <1>3, <1>i DEF report, threadVars
  <1>j. ASSUME NEW answer \in Answer, press(answer)
        PROVE  ThreadInv'
    BY <1>1, <1>2, <1>3, <1>j DEF press, threadVars
  <1>k. CASE UNCHANGED vars
    BY <1>1, <1>2, <1>3, <1>k DEF vars, threadVars, appVars
  <1> QED  BY <1>a, <1>b, <1>c, <1>d, <1>e, <1>f, <1>g, <1>h, <1>i, <1>j, <1>k, Steps

\* What the thread does with the answer it has loaded.
LEMMA TakeCases ==
  ASSUME TypeInv, ThreadInv, NEW t \in Thread, take_answer(t)
  PROVE  /\ pc[t] = "answered" /\ at[t] \in Recipe /\ prompting' = "free" /\ got' = [got EXCEPT ![t] = "none"]
         /\ UNCHANGED <<at, work, outcome, appVars, answered, failures>>
         /\ \/ /\ got[t] = "retry" /\ pc' = [pc EXCEPT ![t] = "busy"]
               /\ status' = Append(status, Update("start", t, at[t])) /\ staged' = staged
            \/ /\ got[t] = "skip" /\ pc' = [pc EXCEPT ![t] = "next"]
               /\ staged' = staged \ {at[t]} /\ status' = status
            \/ /\ got[t] = "exit" /\ pc' = [pc EXCEPT ![t] = "done"]
               /\ status' = Append(status, Update("finished", t, 0)) /\ staged' = staged
  <1>1. pc[t] = "answered" /\ at[t] \in Recipe /\ got[t] \in {"retry", "skip", "exit"}
    BY DEF take_answer, TypeInv, TypeOK, ThreadInv, Working, Stuck, Answer
  <1>2. CASE got[t] = "retry"
    BY <1>1, <1>2 DEF take_answer, Send
  <1>3. CASE got[t] = "skip"
    BY <1>1, <1>3 DEF take_answer
  <1>4. CASE got[t] = "exit"
    BY <1>1, <1>4 DEF take_answer, Finish, Send
  <1> QED  BY <1>1, <1>2, <1>3, <1>4

\* Recipes are handed over in order, and one thread works on a recipe.
LEMMA OrderStep ==
  ASSUME IInv, [Next]_<<vars, setup>>
  PROVE  OrderInv'
  <1> USE DEF OrderInv, Working, Stuck, Asking
  <1>1. /\ TypeInv /\ ThreadInv /\ OrderInv /\ setup' = setup
        /\ Recipes' = Recipes /\ Recipe' = Recipe /\ Nonstop' = Nonstop /\ Failing' = Failing
        /\ Apart' = Apart /\ Alone' = Alone
    BY Steps, SetupStays DEF IInv
  <1>2. /\ Recipes \in Nat \ {0} /\ Recipe = 1..Recipes /\ Thread = {"fetch", "cook"}
        /\ Failing \subseteq Thread /\ 0 \notin Recipe
    BY <1>1, SetupFacts
  <1>3. /\ pc \in [Thread -> {"next", "busy", "handed", "failed", "asking", "wait", "answered", "done"}]
        /\ at \in [Thread -> 0..Recipes] /\ work \in Seq(Recipe)
    BY <1>1 DEF TypeInv, TypeOK
  <1>4. /\ Len(work) \in Nat /\ DOMAIN work = 1..Len(work) /\ \A i \in 1..Len(work) : work[i] \in Recipe
        /\ at["fetch"] \in Nat /\ at["cook"] \in Nat /\ Recipe \subseteq Nat
    BY <1>2, <1>3
  <1>a. CASE start_fetch
    BY <1>1, <1>2, <1>3, <1>4, <1>a DEF start_fetch, Finish, appVars
  <1>b. CASE start_cook
    <2>1. CASE /\ work # <<>> /\ work' = Tail(work) /\ at' = [at EXCEPT !["cook"] = Head(work)]
               /\ pc' = [pc EXCEPT !["cook"] = "busy"]
      <3>1. /\ Len(work) \in Nat \ {0} /\ DOMAIN work' = 1..(Len(work) - 1) /\ Head(work) = work[1]
            /\ \A i \in 1..(Len(work) - 1) : work'[i] = work[i + 1]
        BY <1>3, <2>1, TailFacts
      <3>2. /\ at'["cook"] = work[1] /\ at'["fetch"] = at["fetch"] /\ pc'["fetch"] = pc["fetch"]
        BY <1>2, <1>3, <2>1, <3>1
      <3>3. ASSUME NEW i \in DOMAIN work', NEW j \in DOMAIN work', i < j
            PROVE  work'[i] < work'[j]
        <4>1. /\ i + 1 \in DOMAIN work /\ j + 1 \in DOMAIN work /\ i + 1 < j + 1
              /\ work'[i] = work[i + 1] /\ work'[j] = work[j + 1]
          BY <1>4, <3>1, <3>3
        <4> QED  BY <1>1, <4>1
      <3>4. ASSUME NEW i \in DOMAIN work'
            PROVE  /\ work[1] < work'[i] /\ work'[i] <= at["fetch"]
                   /\ pc["fetch"] \in Working => work'[i] # at["fetch"]
        <4>1. /\ 1 \in DOMAIN work /\ i + 1 \in DOMAIN work /\ 1 < i + 1 /\ work'[i] = work[i + 1]
          BY <1>4, <3>1, <3>4
        <4> QED  BY <1>1, <4>1
      <3>5. pc["fetch"] \in Working => work[1] # at["fetch"] /\ \A i \in DOMAIN work' : work'[i] # at["fetch"]
        BY <1>1, <1>4, <3>1, <3>4
      <3> QED  BY <1>1, <1>4, <3>1, <3>2, <3>3, <3>4, <3>5
    <2>2. CASE pc' = [pc EXCEPT !["cook"] = "done"] /\ UNCHANGED <<at, work>>
      BY <1>1, <1>2, <1>3, <2>2
    <2> QED  BY <1>b, <2>1, <2>2 DEF start_cook, Finish
  <1>c. CASE fetched
    <2>1. pc["fetch"] = "busy" /\ pc'["fetch"] \in {"done", "handed"} /\ at' = at
      BY <1>2, <1>3, <1>c DEF fetched
    <2>2. CASE work' = work
      BY <1>1, <1>4, <2>1, <2>2
    <2>3. CASE work' = Append(work, at["fetch"])
      <3>1. at["fetch"] \in Recipe
        BY <1>1, <1>2, <2>1 DEF ThreadInv
      <3>2. /\ DOMAIN work' = 1..(Len(work) + 1) /\ work'[Len(work) + 1] = at["fetch"]
            /\ \A i \in 1..Len(work) : work'[i] = work[i]
        BY <1>3, <2>3, <3>1, AppendFacts
      <3>3. ASSUME NEW i \in DOMAIN work', NEW j \in DOMAIN work', i < j
            PROVE  work'[i] < work'[j]
        <4>1. i \in DOMAIN work /\ work'[i] = work[i] /\ work[i] < at["fetch"]
          <5>1. i \in DOMAIN work
            BY <1>4, <3>2, <3>3
          <5>2. work[i] \in Nat /\ work[i] # at["fetch"] /\ work[i] <= at["fetch"]
            BY <1>1, <1>4, <2>1, <5>1
          <5> QED  BY <1>4, <3>2, <5>1, <5>2
        <4>2. CASE j = Len(work) + 1
          BY <1>4, <3>2, <4>1, <4>2
        <4>3. CASE j \in DOMAIN work
          BY <1>1, <1>4, <3>2, <3>3, <4>1, <4>3
        <4> QED  BY <1>4, <3>2, <4>2, <4>3
      <3>4. \A i \in DOMAIN work' : at["cook"] < work'[i] /\ work'[i] <= at["fetch"]
        BY <1>1, <1>4, <2>1, <3>2
      <3> QED  BY <1>1, <2>1, <3>3, <3>4
    <2> QED  BY <1>c, <2>2, <2>3 DEF fetched
  <1>d. CASE cooked
    BY <1>1, <1>2, <1>3, <1>4, <1>d DEF cooked, appVars
  <1>e. ASSUME NEW t \in Thread,
               look_for_exit(t) \/ fails(t) \/ skip_in_nonstop(t) \/ wait_other_prompt(t)
                 \/ ask(t) \/ load_answer(t) \/ take_answer(t) \/ switch_view(t)
        PROVE  OrderInv'
    <2>1. CASE look_for_exit(t)
      BY <1>1, <1>2, <1>3, <1>4, <1>e, <2>1 DEF look_for_exit, Finish, appVars
    <2>2. CASE fails(t)
      BY <1>1, <1>2, <1>3, <1>4, <1>e, <2>2 DEF fails, appVars
    <2>3. CASE skip_in_nonstop(t)
      BY <1>1, <1>2, <1>3, <1>4, <1>e, <2>3 DEF skip_in_nonstop, Finish, appVars
    <2>4. CASE wait_other_prompt(t)
      BY <1>1, <1>2, <1>3, <1>4, <1>e, <2>4 DEF wait_other_prompt, appVars
    <2>5. CASE ask(t)
      BY <1>1, <1>2, <1>3, <1>4, <1>e, <2>5 DEF ask, appVars
    <2>6. CASE load_answer(t)
      BY <1>1, <1>2, <1>3, <1>4, <1>e, <2>6 DEF load_answer, appVars
    <2>7. CASE take_answer(t)
      <3>1. UNCHANGED <<at, work>> /\ pc' = [pc EXCEPT ![t] = pc'[t]] /\ pc[t] = "answered"
        BY <1>1, <1>3, <1>e, <2>7, TakeCases
      <3> QED  BY <1>1, <1>2, <1>3, <1>e, <3>1
    <2>8. CASE switch_view(t)
      BY <1>1, <1>2, <1>3, <1>4, <1>e, <2>8 DEF switch_view, threadVars
    <2> QED  BY <1>e, <2>1, <2>2, <2>3, <2>4, <2>5, <2>6, <2>7, <2>8
  <1>f. CASE end_input
    BY <1>1, <1>2, <1>3, <1>4, <1>f DEF end_input, threadVars
  <1>g. CASE update_status
    BY <1>1, <1>2, <1>3, <1>4, <1>g DEF update_status, threadVars
  <1>h. CASE end_drain
    BY <1>1, <1>2, <1>3, <1>4, <1>h DEF end_drain, threadVars
  <1>i. CASE report
    BY <1>1, <1>2, <1>3, <1>4, <1>i DEF report, threadVars
  <1>j. ASSUME NEW answer \in Answer, press(answer)
        PROVE  OrderInv'
    BY <1>1, <1>2, <1>3, <1>4, <1>j DEF press, threadVars
  <1>k. CASE UNCHANGED vars
    BY <1>1, <1>2, <1>3, <1>4, <1>k DEF vars, threadVars, appVars
  <1> QED  BY <1>a, <1>b, <1>c, <1>d, <1>e, <1>f, <1>g, <1>h, <1>i, <1>j, <1>k, Steps

\* After the user has chosen to leave, the interface takes no more answers.
LEMMA LeftStep ==
  ASSUME IInv, [Next]_<<vars, setup>>
  PROVE  LeftInv'
  <1> USE DEF LeftInv
  <1>1. /\ TypeInv /\ ThreadInv /\ LeftInv /\ setup' = setup
        /\ Recipes' = Recipes /\ Recipe' = Recipe /\ Nonstop' = Nonstop /\ Failing' = Failing
        /\ Apart' = Apart /\ Alone' = Alone
    BY Steps, SetupStays DEF IInv
  <1>2. /\ Recipes \in Nat \ {0} /\ Recipe = 1..Recipes /\ Thread = {"fetch", "cook"}
        /\ Failing \subseteq Thread /\ 0 \notin Recipe
    BY <1>1, SetupFacts
  <1>3. /\ pc \in [Thread -> {"next", "busy", "handed", "failed", "asking", "wait", "answered", "done"}]
        /\ got \in [Thread -> Answer \cup {"none"}] /\ running \in BOOLEAN /\ cook_complete \in BOOLEAN
        /\ prompt = <<>> \/ prompt \in Thread \X Recipe
        /\ phase \in {"input", "drain", "join", "returned"}
    BY <1>1 DEF TypeInv, TypeOK
  <1>4. answered' = answered => Left' = Left
    BY DEF Left
  <1>a. CASE start_fetch
    BY <1>1, <1>2, <1>3, <1>4, <1>a DEF start_fetch, Finish, appVars
  <1>b. CASE start_cook
    BY <1>1, <1>2, <1>3, <1>4, <1>b DEF start_cook, Finish, appVars
  <1>c. CASE fetched
    BY <1>1, <1>2, <1>3, <1>4, <1>c DEF fetched, appVars
  <1>d. CASE cooked
    BY <1>1, <1>2, <1>3, <1>4, <1>d DEF cooked, appVars
  <1>e. ASSUME NEW t \in Thread,
               look_for_exit(t) \/ fails(t) \/ skip_in_nonstop(t) \/ wait_other_prompt(t)
                 \/ ask(t) \/ load_answer(t) \/ take_answer(t) \/ switch_view(t)
        PROVE  LeftInv'
    <2>1. CASE look_for_exit(t)
      BY <1>1, <1>2, <1>3, <1>4, <1>e, <2>1 DEF look_for_exit, Finish, appVars
    <2>2. CASE fails(t)
      BY <1>1, <1>2, <1>3, <1>4, <1>e, <2>2 DEF fails, appVars
    <2>3. CASE skip_in_nonstop(t)
      BY <1>1, <1>2, <1>3, <1>4, <1>e, <2>3 DEF skip_in_nonstop, Finish, appVars
    <2>4. CASE wait_other_prompt(t)
      BY <1>1, <1>2, <1>3, <1>4, <1>e, <2>4 DEF wait_other_prompt, appVars
    <2>5. CASE ask(t)
      BY <1>1, <1>2, <1>3, <1>4, <1>e, <2>5 DEF ask, appVars
    <2>6. CASE load_answer(t)
      BY <1>1, <1>2, <1>3, <1>4, <1>e, <2>6 DEF load_answer, appVars
    <2>7. CASE take_answer(t)
      <3>1. /\ pc[t] = "answered" /\ prompting' = "free" /\ got' = [got EXCEPT ![t] = "none"]
            /\ UNCHANGED <<phase, running, prompt, cook_complete, answered>>
            /\ pc' = [pc EXCEPT ![t] = pc'[t]]
        BY <1>1, <1>3, <1>e, <2>7, TakeCases DEF appVars
      <3> QED  BY <1>1, <1>3, <1>4, <1>e, <3>1
    <2>8. CASE switch_view(t)
      BY <1>1, <1>2, <1>3, <1>4, <1>e, <2>8 DEF switch_view, threadVars
    <2> QED  BY <1>e, <2>1, <2>2, <2>3, <2>4, <2>5, <2>6, <2>7, <2>8
  <1>f. CASE end_input
    BY <1>1, <1>2, <1>3, <1>4, <1>f DEF end_input, threadVars
  <1>g. CASE update_status
    BY <1>1, <1>2, <1>3, <1>4, <1>g DEF update_status, threadVars
  <1>h. CASE end_drain
    BY <1>1, <1>2, <1>3, <1>4, <1>h DEF end_drain, threadVars
  <1>i. CASE report
    BY <1>1, <1>2, <1>3, <1>4, <1>i DEF report, threadVars
  <1>j. ASSUME NEW answer \in Answer, press(answer)
        PROVE  LeftInv'
    <2>1. (Left' <=> answer = "exit") /\ prompt' = <<>>
      BY <1>3, <1>j, AnswerTo DEF press, Left
    <2>2. ~Left
      BY <1>1, <1>j DEF press
    <2> QED  BY <1>1, <1>3, <1>j, <2>1, <2>2 DEF press, threadVars
  <1>k. CASE UNCHANGED vars
    BY <1>1, <1>2, <1>3, <1>4, <1>k DEF vars, threadVars, appVars
  <1> QED  BY <1>a, <1>b, <1>c, <1>d, <1>e, <1>f, <1>g, <1>h, <1>i, <1>j, <1>k, Steps

\* A thread that has not ended sends an update: only the cooker's end may be it.
LEMMA EndSent ==
  ASSUME TypeInv, NEW u \in Updates, status' = Append(status, u),
         \A i \in DOMAIN status : ~Ends(status[i]), Ends(u) => pc'["cook"] = "done"
  PROVE  \A i \in DOMAIN status' : Ends(status'[i]) => i = Len(status') /\ pc'["cook"] = "done"
  <1>1. /\ Len(status) \in Nat /\ Len(status') = Len(status) + 1
        /\ DOMAIN status = 1..Len(status) /\ DOMAIN status' = 1..(Len(status) + 1)
        /\ \A i \in 1..Len(status) : status'[i] = status[i]
        /\ status'[Len(status) + 1] = u
    BY SentFacts DEF TypeInv
  <1> SUFFICES ASSUME NEW i \in DOMAIN status', Ends(status'[i])
               PROVE  i = Len(status') /\ pc'["cook"] = "done"
    OBVIOUS
  <1>2. CASE i \in 1..Len(status)
    BY <1>1, <1>2
  <1>3. CASE i = Len(status) + 1
    BY <1>1, <1>3
  <1> QED  BY <1>1, <1>2, <1>3

\* Only an answer changes what was answered.
LEMMA UnlessPressed ==
  ASSUME [Next]_<<vars, setup>>, \A answer \in Answer : ~press(answer)
  PROVE  answered' = answered
  BY Steps DEF start_fetch, start_cook, fetched, cooked, look_for_exit, fails, skip_in_nonstop,
     wait_other_prompt, ask, load_answer, take_answer, switch_view, end_input, update_status,
     end_drain, report, vars

\* A run nobody leaves ends in order.
LEMMA EndStep ==
  ASSUME IInv, [Next]_<<vars, setup>>
  PROVE  EndInv'
  <1>1. /\ TypeInv /\ ThreadInv /\ LeftInv /\ EndInv /\ setup' = setup
        /\ Recipes' = Recipes /\ Recipe' = Recipe /\ Nonstop' = Nonstop /\ Failing' = Failing
        /\ Apart' = Apart /\ Alone' = Alone
    BY Steps, SetupStays DEF IInv
  <1>2. /\ Recipes \in Nat \ {0} /\ Recipe = 1..Recipes /\ Thread = {"fetch", "cook"}
        /\ Failing \subseteq Thread /\ 0 \notin Recipe
    BY <1>1, SetupFacts
  <1>3. /\ pc \in [Thread -> {"next", "busy", "handed", "failed", "asking", "wait", "answered", "done"}]
        /\ status \in Seq(Updates) /\ cook_complete \in BOOLEAN
    BY <1>1 DEF TypeInv, TypeOK
  <1> DEFINE Sent == \A i \in DOMAIN status' : Ends(status'[i]) => i = Len(status') /\ pc'["cook"] = "done"
  <1> DEFINE Kept == /\ pc'["fetch"] = "done" => at'["fetch"] = Recipes
                     /\ pc'["cook"] = "done" => pc'["fetch"] = "done" /\ work' = <<>>
                     /\ cook_complete' => pc'["cook"] = "done" /\ status' = <<>>
                     /\ Sent
  <1> SUFFICES ASSUME ~Left'
               PROVE  Kept
    BY <1>1 DEF EndInv
  <1>5. ~Left
    <2>1. answered' = answered => Left' = Left
      BY DEF Left
    <2>2. ASSUME NEW answer \in Answer, press(answer)
          PROVE  ~Left
      BY <1>1, <2>2 DEF press, LeftInv
    <2> QED  BY <2>1, <2>2, Steps, UnlessPressed
  <1>4. /\ pc["fetch"] = "done" => at["fetch"] = Recipes
        /\ pc["cook"] = "done" => pc["fetch"] = "done" /\ work = <<>>
        /\ cook_complete => pc["cook"] = "done" /\ status = <<>>
        /\ \A i \in DOMAIN status : Ends(status[i]) => i = Len(status) /\ pc["cook"] = "done"
    BY <1>1, <1>5 DEF EndInv
  <1>6. \A t \in Thread : pc[t] # "done" =>
          pc["cook"] # "done" /\ ~cook_complete /\ \A i \in DOMAIN status : ~Ends(status[i])
    BY <1>2, <1>4
  <1>a. CASE start_fetch
    <2>1. pc["fetch"] = "next" /\ "fetch" \in Thread
      BY <1>2, <1>a DEF start_fetch
    <2>2. PICK u \in Updates : status' = Append(status, u) /\ ~Ends(u)
      <3>1. CASE at["fetch"] = Recipes
        BY <1>1, <1>a, <2>1, <3>1, EndFacts DEF start_fetch, Finish, Send, Ends
      <3>2. CASE at["fetch"] # Recipes
        <4>1. at["fetch"] + 1 \in Recipe
          BY <1>1, <1>2, <3>2 DEF TypeInv, TypeOK
        <4> QED  BY <1>1, <1>a, <2>1, <3>2, <4>1, UpdateFacts DEF start_fetch, Send, Ends
      <3> QED  BY <3>1, <3>2
    <2>3. Sent
      BY <1>1, <1>6, <2>1, <2>2, EndSent
    <2>4. at \in [Thread -> 0..Recipes]
      BY <1>1 DEF TypeInv, TypeOK
    <2> QED  BY <1>1, <1>2, <1>3, <1>4, <1>6, <1>a, <2>1, <2>3, <2>4 DEF start_fetch, Finish, appVars
  <1>b. CASE start_cook
    <2>1. pc["cook"] = "next" /\ "cook" \in Thread /\ cook_complete' = cook_complete /\ at'["fetch"] = at["fetch"]
      BY <1>1, <1>2, <1>b DEF start_cook, appVars, TypeInv, TypeOK
    <2>2. CASE /\ work # <<>> /\ pc' = [pc EXCEPT !["cook"] = "busy"]
               /\ Send(Update("start", "cook", Head(work)))
      <3>1. Head(work) \in Recipe
        BY <1>1, <2>2, TailFacts DEF TypeInv
      <3>2. /\ Update("start", "cook", Head(work)) \in Updates /\ ~Ends(Update("start", "cook", Head(work)))
            /\ status' = Append(status, Update("start", "cook", Head(work)))
        BY <2>1, <2>2, <3>1, UpdateFacts DEF Ends, Send
      <3>3. Sent
        BY <1>1, <1>6, <2>1, <3>2, EndSent
      <3> QED  BY <1>1, <1>2, <1>3, <1>4, <1>6, <2>1, <2>2, <3>3
    <2>3. CASE work = <<>> /\ pc["fetch"] = "done" /\ Finish("cook") /\ UNCHANGED <<at, work>>
      <3>1. Update("finished", "cook", 0) \in Updates /\ pc' = [pc EXCEPT !["cook"] = "done"]
            /\ status' = Append(status, Update("finished", "cook", 0))
        BY <2>1, <2>3, EndFacts DEF Finish, Send
      <3>2. pc'["cook"] = "done" /\ pc'["fetch"] = "done"
        BY <1>2, <1>3, <2>3, <3>1
      <3>3. Sent
        BY <1>1, <1>6, <2>1, <3>1, <3>2, EndSent
      <3> QED  BY <1>1, <1>4, <1>6, <2>1, <2>3, <3>2, <3>3
    <2> QED  BY <1>b, <2>2, <2>3 DEF start_cook
  <1>c. CASE fetched
    <2>1. pc["fetch"] = "busy" /\ "fetch" \in Thread /\ at["fetch"] \in Recipe
      BY <1>1, <1>2, <1>c DEF fetched, ThreadInv, Working
    <2>2. pc["cook"] # "done"
      BY <1>6, <2>1
    <2>3. /\ Update("ok", "fetch", at["fetch"]) \in Updates /\ ~Ends(Update("ok", "fetch", at["fetch"]))
          /\ status' = Append(status, Update("ok", "fetch", at["fetch"]))
      BY <1>c, <2>1, <2>2, UpdateFacts DEF fetched, Send, Ends
    <2>4. Sent
      BY <1>1, <1>6, <2>1, <2>3, EndSent
    <2> QED  BY <1>1, <1>2, <1>3, <1>4, <1>6, <1>c, <2>1, <2>2, <2>4 DEF fetched, appVars
  <1>d. CASE cooked
    <2>1. pc["cook"] = "busy" /\ "cook" \in Thread /\ at["cook"] \in Recipe
      BY <1>1, <1>2, <1>d DEF cooked, ThreadInv, Working
    <2>2. /\ Update("ok", "cook", at["cook"]) \in Updates /\ ~Ends(Update("ok", "cook", at["cook"]))
          /\ status' = Append(status, Update("ok", "cook", at["cook"]))
      BY <1>d, <2>1, UpdateFacts DEF cooked, Send, Ends
    <2>3. Sent
      BY <1>1, <1>6, <2>1, <2>2, EndSent
    <2> QED  BY <1>1, <1>2, <1>3, <1>4, <1>6, <1>d, <2>1, <2>3 DEF cooked, appVars
  <1>e. ASSUME NEW t \in Thread,
               look_for_exit(t) \/ fails(t) \/ skip_in_nonstop(t) \/ wait_other_prompt(t)
                 \/ ask(t) \/ load_answer(t) \/ take_answer(t) \/ switch_view(t)
        PROVE  Kept
    <2>1. CASE look_for_exit(t)
      <3>1. CASE prompting = "exit"
        BY <1>1, <1>5, <3>1 DEF LeftInv
      <3>2. CASE prompting # "exit"
        BY <1>1, <1>2, <1>3, <1>4, <1>6, <1>e, <2>1, <3>2 DEF look_for_exit, appVars
      <3> QED  BY <3>1, <3>2
    <2>2. CASE fails(t)
      <3>1. pc[t] = "busy" /\ at[t] \in Recipe
        BY <1>1, <1>2, <1>e, <2>2 DEF fails, ThreadInv, Working
      <3>2. /\ Update("fail", t, at[t]) \in Updates /\ ~Ends(Update("fail", t, at[t]))
            /\ status' = Append(status, Update("fail", t, at[t]))
        BY <1>e, <2>2, <3>1, UpdateFacts DEF fails, Send, Ends
      <3>3. Sent
        BY <1>1, <1>6, <1>e, <3>1, <3>2, EndSent
      <3> QED  BY <1>1, <1>2, <1>3, <1>4, <1>6, <1>e, <2>2, <3>1, <3>3 DEF fails, appVars
    <2>3. CASE skip_in_nonstop(t)
      <3>1. CASE prompting = "exit"
        BY <1>1, <1>5, <3>1 DEF LeftInv
      <3>2. CASE prompting # "exit"
        BY <1>1, <1>2, <1>3, <1>4, <1>6, <1>e, <2>3, <3>2 DEF skip_in_nonstop, appVars
      <3> QED  BY <3>1, <3>2
    <2>4. CASE wait_other_prompt(t)
      BY <1>1, <1>2, <1>3, <1>4, <1>e, <2>4, <1>6 DEF wait_other_prompt, appVars
    <2>5. CASE ask(t)
      BY <1>1, <1>2, <1>3, <1>4, <1>e, <2>5, <1>6 DEF ask, appVars
    <2>6. CASE load_answer(t)
      BY <1>1, <1>2, <1>3, <1>4, <1>e, <2>6, <1>6 DEF load_answer, appVars
    <2>7. CASE take_answer(t)
      <3>1. /\ pc[t] = "answered" /\ at[t] \in Recipe /\ got[t] # "exit" /\ UNCHANGED <<at, work, cook_complete, answered>>
            /\ \/ pc' = [pc EXCEPT ![t] = "busy"] /\ status' = Append(status, Update("start", t, at[t]))
               \/ pc' = [pc EXCEPT ![t] = "next"] /\ status' = status
        BY <1>1, <1>4, <1>5, <1>e, <2>7, TakeCases DEF appVars, LeftInv
      <3>2. CASE pc' = [pc EXCEPT ![t] = "busy"] /\ status' = Append(status, Update("start", t, at[t]))
        <4>1. Update("start", t, at[t]) \in Updates /\ ~Ends(Update("start", t, at[t]))
          BY <1>e, <3>1, UpdateFacts DEF Ends
        <4>2. Sent
          BY <1>1, <1>6, <1>e, <3>1, <3>2, <4>1, EndSent
        <4> QED  BY <1>1, <1>2, <1>3, <1>4, <1>6, <1>e, <3>1, <3>2, <4>2
      <3>3. CASE pc' = [pc EXCEPT ![t] = "next"] /\ status' = status
        BY <1>1, <1>2, <1>3, <1>4, <1>6, <1>e, <3>1, <3>3
      <3> QED  BY <3>1, <3>2, <3>3
    <2>8. CASE switch_view(t)
      BY <1>1, <1>2, <1>3, <1>4, <1>e, <2>8 DEF switch_view, threadVars
    <2> QED  BY <1>e, <2>1, <2>2, <2>3, <2>4, <2>5, <2>6, <2>7, <2>8
  <1>f. CASE end_input
    BY <1>1, <1>2, <1>3, <1>4, <1>f DEF end_input, threadVars
  <1>g. CASE update_status
    <2>1. ~cook_complete /\ status # <<>>
      BY <1>4, <1>g DEF update_status
    <2>2. /\ Len(status) \in Nat \ {0} /\ Len(Tail(status)) = Len(status) - 1
          /\ DOMAIN status = 1..Len(status) /\ DOMAIN Tail(status) = 1..(Len(status) - 1)
          /\ Head(status) = status[1] /\ Head(status) \in Updates /\ Tail(status) \in Seq(Updates)
          /\ \A i \in 1..(Len(status) - 1) : Tail(status)[i] = status[i + 1]
      BY <1>3, <2>1, TailFacts
    <2>3. status' = Tail(status) /\ UNCHANGED <<pc, at, work>>
      BY <1>g, SMTT(40) DEF update_status, threadVars
    <2>4. Sent
      <3> SUFFICES ASSUME NEW i \in 1..(Len(status) - 1), Ends(status[i + 1])
                   PROVE  i = Len(status) - 1 /\ pc["cook"] = "done"
        BY <2>2, <2>3
      <3>0. Len(status) \in Nat /\ DOMAIN status = 1..Len(status)
        BY <2>2
      <3>1. i \in Nat /\ i + 1 \in DOMAIN status
        BY <3>0
      <3>2. i + 1 = Len(status) /\ pc["cook"] = "done"
        BY <1>4, <3>1
      <3> QED  BY <3>0, <3>1, <3>2, OneLess
    <2>5. cook_complete' => pc["cook"] = "done" /\ status' = <<>>
      <3>1. CASE Ends(Head(status))
        <4>1. 1 = Len(status) /\ pc["cook"] = "done"
          BY <1>4, <2>2, <3>1
        <4> QED  BY <2>2, <2>3, <4>1, EmptySeq
      <3>2. CASE ~Ends(Head(status))
        BY <1>g, <2>1, <3>2 DEF update_status, Ends
      <3> QED  BY <3>1, <3>2
    <2> QED  BY <1>4, <2>3, <2>4, <2>5
  <1>h. CASE end_drain
    BY <1>1, <1>2, <1>3, <1>4, <1>h DEF end_drain, threadVars
  <1>i. CASE report
    BY <1>1, <1>2, <1>3, <1>4, <1>i DEF report, threadVars
  <1>j. ASSUME NEW answer \in Answer, press(answer)
        PROVE  Kept
    BY <1>1, <1>2, <1>3, <1>4, <1>j DEF press, threadVars
  <1>k. CASE UNCHANGED vars
    BY <1>1, <1>2, <1>3, <1>4, <1>k DEF vars, threadVars, appVars
  <1> QED  BY <1>a, <1>b, <1>c, <1>d, <1>e, <1>f, <1>g, <1>h, <1>i, <1>j, <1>k, Steps

\* No update on r is sent.
Quiet(r) == status' = status \/ \E u \in Updates : status' = Append(status, u) /\ u.recipe # r

\* What is heard of a recipe stays when no update on it is sent.
LEMMA SaysStays ==
  ASSUME status \in Seq(Updates), NEW r, NEW label, Says(r, label), shown' = shown, Quiet(r)
  PROVE  Says(r, label)'
  <1>1. Heard(status, shown, r, label)
    BY DEF Says
  <1>2. CASE status' = status
    <2>1. Heard(status', shown', r, label)
      BY <1>1, <1>2
    <2> QED  BY <2>1 DEF Says, Heard
  <1>3. CASE \E u \in Updates : status' = Append(status, u) /\ u.recipe # r
    <2>1. PICK u \in Updates : status' = Append(status, u) /\ u.recipe # r
      BY <1>3
    <2>2. Heard(Append(status, u), shown, r, label)
      BY <1>1, <2>1, HeardOther
    <2>3. Heard(status', shown', r, label)
      BY <2>1, <2>2
    <2> QED  BY <2>3 DEF Says, Heard
  <1> QED  BY <1>2, <1>3 DEF Quiet

\* The update that is sent is what is heard of its recipe.
LEMMA SaysSent ==
  ASSUME status \in Seq(Updates), NEW u \in Updates, status' = Append(status, u)
  PROVE  Says(u.recipe, Label(u.kind, u.thread))'
  <1>1. Heard(Append(status, u), shown', u.recipe, Label(u.kind, u.thread))
    BY HeardLast
  <1>2. Heard(status', shown', u.recipe, Label(u.kind, u.thread))
    BY <1>1
  <1> QED  BY <1>2 DEF Says, Heard

\* What is settled stays so.
LEMMA SettledStays ==
  ASSUME TypeInv, NEW r \in Recipe, Settled(r), Quiet(r), shown' = shown, Apart' = Apart,
         outcome'[r] = outcome[r], r \in staged' => r \in staged
  PROVE  Settled(r)'
  <1>1. \A label : Says(r, label) => Says(r, label)'
    BY SaysStays DEF TypeInv
  <1> QED  BY <1>1 DEF Settled, FailedSeen, CookedSeen

\* So does the failure of a thread's recipe.
LEMMA FailedStays ==
  ASSUME TypeInv, NEW t \in Thread, FailedSeen(at[t]), Quiet(at[t]), shown' = shown,
         at'[t] = at[t], outcome'[at[t]] = outcome[at[t]]
  PROVE  FailedSeen(at[t])'
  <1>1. Says(at[t], "Failed")'
    <2>1. \A r : Quiet(r) /\ Says(r, "Failed") => Says(r, "Failed")'
      BY SaysStays DEF TypeInv
    <2>2. Heard(status', shown', at[t], "Failed")
      BY <2>1 DEF FailedSeen, Says
    <2> QED  BY <2>2 DEF Says
  <1> QED  BY <1>1 DEF FailedSeen

\* A step that changes nothing of this.
LEMMA TruthFrame ==
  ASSUME TypeInv, UNCHANGED <<at, work, outcome, shown, status>>, staged' \subseteq staged, Apart' = Apart,
         Recipe' = Recipe, Thread = {"fetch", "cook"},
         \A u \in Thread : (pc'[u] \in Working <=> pc[u] \in Working) /\ (pc'[u] \in Stuck => pc[u] \in Stuck),
         \A r \in Recipe : Fetched(r) /\ ~Given(r) => Settled(r),
         \A u \in Thread : pc[u] \in Stuck => FailedSeen(at[u])
  PROVE  /\ \A r \in Recipe : Fetched(r)' /\ ~Given(r)' => Settled(r)'
         /\ \A u \in Thread : pc'[u] \in Stuck => FailedSeen(at[u])'
  <1>1. ASSUME NEW r \in Recipe, Fetched(r)', ~Given(r)'
        PROVE  Settled(r)'
    <2>1. Fetched(r) /\ ~Given(r)
      BY <1>1 DEF Fetched, Given
    <2> QED  BY <2>1, SettledStays DEF Quiet
  <1>2. ASSUME NEW u \in Thread, pc'[u] \in Stuck
        PROVE  FailedSeen(at[u])'
    BY <1>2, FailedStays DEF Quiet
  <1> QED  BY <1>1, <1>2

\* The label of a failure.
LEMMA LastIsHeard ==
  ASSUME NEW u \in Updates, u.kind = "fail"
  PROVE  Label(u.kind, u.thread) = "Failed"
  BY DEF Label

\* What is shown of a recipe is what became of it.
LEMMA TruthStep ==
  ASSUME IInv, [Next]_<<vars, setup>>
  PROVE  TruthInv'
  <1>1. /\ TypeInv /\ ThreadInv /\ OrderInv /\ LeftInv /\ EndInv /\ TruthInv /\ QuestionInv /\ setup' = setup
        /\ Recipes' = Recipes /\ Recipe' = Recipe /\ Nonstop' = Nonstop /\ Failing' = Failing
        /\ Apart' = Apart /\ Alone' = Alone
    BY Steps, SetupStays DEF IInv
  <1>2. /\ Recipes \in Nat \ {0} /\ Recipe = 1..Recipes /\ Thread = {"fetch", "cook"}
        /\ Failing \subseteq Thread /\ 0 \notin Recipe
    BY <1>1, SetupFacts
  <1>3. /\ pc \in [Thread -> {"next", "busy", "handed", "failed", "asking", "wait", "answered", "done"}]
        /\ at \in [Thread -> 0..Recipes] /\ work \in Seq(Recipe) /\ status \in Seq(Updates)
        /\ shown \in [Recipe -> {"Pending", "Fetching", "Fetched", "Cooking", "Done", "Failed"}]
        /\ outcome \in [Recipe -> {"none", "fetched", "failed", "cooked"}] /\ staged \subseteq Recipe
    BY <1>1 DEF TypeInv, TypeOK
  <1>4. at["fetch"] \in Nat /\ at["cook"] \in Nat /\ Recipe \subseteq Nat
    BY <1>2, <1>3
  <1> DEFINE Kept == /\ \A r \in Recipe : Fetched(r)' /\ ~Given(r)' => Settled(r)'
                     /\ \A t \in Thread : pc'[t] \in Stuck => FailedSeen(at[t])'
  <1> SUFFICES ASSUME ~Left'
               PROVE  Kept
    BY <1>1 DEF TruthInv
  <1>5. /\ ~Left
        /\ \A r \in Recipe : Fetched(r) /\ ~Given(r) => Settled(r)
        /\ \A t \in Thread : pc[t] \in Stuck => FailedSeen(at[t])
    <2>1. answered' = answered => Left' = Left
      BY DEF Left
    <2>2. ASSUME NEW answer \in Answer, press(answer)
          PROVE  ~Left
      BY <1>1, <2>2 DEF press, LeftInv
    <2> QED  BY <1>1, <2>1, <2>2, Steps, UnlessPressed DEF TruthInv
  <1>a. CASE start_fetch
    <2>1. /\ pc["fetch"] = "next" /\ "fetch" \in Thread /\ "cook" \in Thread
          /\ pc'["cook"] = pc["cook"] /\ at'["cook"] = at["cook"]
          /\ pc'["fetch"] \in {"busy", "done"} /\ UNCHANGED <<work, outcome, staged, shown>>
      BY <1>2, <1>3, <1>a DEF start_fetch, Finish, appVars
    <2>2. \/ at'["fetch"] = at["fetch"] /\ pc'["fetch"] = "done"
          \/ at'["fetch"] = at["fetch"] + 1 /\ pc'["fetch"] = "busy"
      BY <1>2, <1>3, <1>a DEF start_fetch, Finish
    <2>3. ASSUME NEW r \in Recipe, r <= at["fetch"]
          PROVE  Quiet(r)
      <3>1. CASE at["fetch"] = Recipes
        BY <1>2, <1>a, <2>1, <3>1, EndFacts DEF start_fetch, Finish, Send, Quiet
      <3>2. CASE at["fetch"] # Recipes
        <4>1. at["fetch"] + 1 \in Recipe /\ r # at["fetch"] + 1
          BY <1>2, <1>3, <1>4, <2>1, <2>3, <3>2
        <4> QED  BY <1>a, <2>1, <3>2, <4>1, UpdateFacts DEF start_fetch, Send, Quiet
      <3> QED  BY <3>1, <3>2
    <2>4. ASSUME NEW r \in Recipe, Fetched(r)', ~Given(r)'
          PROVE  Settled(r)'
      <3>1. r <= at["fetch"]
        BY <1>2, <1>4, <2>1, <2>2, <2>4 DEF Fetched, Working
      <3>2. Fetched(r) /\ ~Given(r)
        BY <1>2, <1>4, <2>1, <2>4, <3>1 DEF Fetched, Given, Working, Stuck, Asking
      <3> QED  BY <1>1, <1>5, <2>1, <2>3, <3>1, <3>2, SettledStays
    <2>5. ASSUME NEW t \in Thread, pc'[t] \in Stuck
          PROVE  FailedSeen(at[t])'
      <3>1. t = "cook" /\ pc["cook"] \in Stuck
        BY <1>2, <2>1, <2>5 DEF Stuck, Asking
      <3>2. at["cook"] \in Recipe /\ at["cook"] <= at["fetch"]
        BY <1>1, <1>2, <3>1 DEF ThreadInv, OrderInv, Working
      <3> QED  BY <1>1, <1>5, <2>1, <2>3, <3>1, <3>2, FailedStays
    <2> QED  BY <2>4, <2>5
  <1>b. CASE start_cook
    <2>1. /\ pc["cook"] = "next" /\ "fetch" \in Thread /\ "cook" \in Thread
          /\ pc'["fetch"] = pc["fetch"] /\ at'["fetch"] = at["fetch"]
          /\ pc'["cook"] \in {"busy", "done"} /\ UNCHANGED <<outcome, staged, shown>>
      BY <1>2, <1>3, <1>b DEF start_cook, Finish, appVars
    <2>2. CASE /\ work # <<>> /\ work' = Tail(work) /\ at' = [at EXCEPT !["cook"] = Head(work)]
               /\ pc' = [pc EXCEPT !["cook"] = "busy"] /\ Send(Update("start", "cook", Head(work)))
      <3>1. /\ Len(work) \in Nat \ {0} /\ DOMAIN work = 1..Len(work)
            /\ DOMAIN work' = 1..(Len(work) - 1) /\ Head(work) = work[1]
            /\ \A i \in 1..(Len(work) - 1) : work'[i] = work[i + 1]
            /\ Head(work) \in Recipe
        BY <1>3, <2>2, TailFacts
      <3>2. /\ at'["cook"] = Head(work) /\ pc'["cook"] \in Working
        BY <1>2, <1>3, <2>2 DEF Working
      <3>3. ASSUME NEW r \in Recipe, r # Head(work)
            PROVE  Quiet(r)
        <4>1. Update("start", "cook", Head(work)) \in Updates /\ Update("start", "cook", Head(work)).recipe # r
          BY <2>1, <3>1, <3>3, UpdateFacts
        <4> QED  BY <2>2, <4>1 DEF Send, Quiet
      <3>4. ASSUME NEW r \in Recipe, Fetched(r)', ~Given(r)'
            PROVE  Settled(r)'
        <4>1. r # Head(work)
          BY <3>2, <3>4 DEF Given
        <4>2. ASSUME NEW i \in DOMAIN work
              PROVE  work[i] # r
          <5>1. CASE i = 1
            BY <3>1, <4>1, <5>1
          <5>2. CASE i # 1
            <6>1. i - 1 \in DOMAIN work' /\ work'[i - 1] = work[i]
              BY <3>1, <5>2
            <6> QED  BY <3>4, <6>1 DEF Given
          <5> QED  BY <5>1, <5>2
        <4>3. Fetched(r) /\ ~Given(r)
          BY <2>1, <3>4, <4>2 DEF Fetched, Given, Working, Stuck, Asking
        <4> QED  BY <1>1, <1>5, <2>1, <3>3, <4>1, <4>3, SettledStays
      <3>5. ASSUME NEW t \in Thread, pc'[t] \in Stuck
            PROVE  FailedSeen(at[t])'
        <4>1. t = "fetch" /\ pc["fetch"] \in Stuck
          BY <1>2, <1>3, <2>1, <2>2, <3>5 DEF Stuck, Asking
        <4>2. at["fetch"] \in Recipe /\ at["fetch"] # Head(work)
          BY <1>1, <1>2, <3>1, <4>1 DEF ThreadInv, OrderInv, Working
        <4> QED  BY <1>1, <1>5, <2>1, <3>3, <4>1, <4>2, FailedStays
      <3> QED  BY <3>4, <3>5
    <2>3. CASE pc' = [pc EXCEPT !["cook"] = "done"] /\ Send(Update("finished", "cook", 0)) /\ UNCHANGED <<at, work>>
      <3>1. ASSUME NEW r \in Recipe
            PROVE  Quiet(r)
        BY <1>2, <2>1, <2>3, EndFacts DEF Send, Quiet
      <3>2. pc'["cook"] \notin Working /\ pc'["cook"] \notin Stuck
        BY <1>2, <1>3, <2>3 DEF Working, Stuck, Asking
      <3>3. ASSUME NEW r \in Recipe, Fetched(r)', ~Given(r)'
            PROVE  Settled(r)'
        <4>1. Fetched(r) /\ ~Given(r)
          BY <2>1, <2>3, <3>3 DEF Fetched, Given, Working, Stuck, Asking
        <4> QED  BY <1>1, <1>5, <2>1, <3>1, <4>1, SettledStays
      <3>4. ASSUME NEW t \in Thread, pc'[t] \in Stuck
            PROVE  FailedSeen(at[t])'
        <4>1. t = "fetch" /\ pc["fetch"] \in Stuck /\ at["fetch"] \in Recipe
          BY <1>1, <1>2, <2>1, <3>2, <3>4 DEF ThreadInv, Working
        <4> QED  BY <1>1, <1>5, <2>1, <3>1, <4>1, FailedStays
      <3> QED  BY <3>3, <3>4
    <2> QED  BY <1>b, <2>2, <2>3 DEF start_cook, Finish
  <1>c. CASE fetched
    <2>1. /\ pc["fetch"] = "busy" /\ "fetch" \in Thread /\ "cook" \in Thread /\ at["fetch"] \in Recipe
      BY <1>1, <1>2, <1>c DEF fetched, ThreadInv, Working
    <2>2. pc["cook"] # "done"
      BY <1>1, <1>5, <2>1 DEF EndInv
    <2>3. /\ pc' = [pc EXCEPT !["fetch"] = "handed"] /\ outcome' = [outcome EXCEPT ![at["fetch"]] = "fetched"]
          /\ work' = Append(work, at["fetch"]) /\ status' = Append(status, Update("ok", "fetch", at["fetch"]))
          /\ UNCHANGED <<at, staged, shown>>
      BY <1>c, <2>2 DEF fetched, Send, appVars
    <2>4. /\ pc'["fetch"] = "handed" /\ pc'["cook"] = pc["cook"] /\ at["fetch"] \in Nat
          /\ DOMAIN work = 1..Len(work) /\ Len(work) \in Nat /\ DOMAIN work' = 1..(Len(work) + 1)
          /\ \A i \in 1..Len(work) : work'[i] = work[i]
          /\ work'[Len(work) + 1] = at["fetch"]
      BY <1>2, <1>3, <1>4, <2>1, <2>3, AppendFacts
    <2>5. ASSUME NEW r \in Recipe, r # at["fetch"]
          PROVE  Quiet(r) /\ outcome'[r] = outcome[r]
      <3>1. Update("ok", "fetch", at["fetch"]) \in Updates /\ Update("ok", "fetch", at["fetch"]).recipe # r
        BY <2>1, <2>5, UpdateFacts
      <3> QED  BY <1>3, <2>3, <2>5, <3>1 DEF Quiet
    <2>6. ASSUME NEW r \in Recipe, Fetched(r)', ~Given(r)'
          PROVE  Settled(r)'
      <3>1. r # at["fetch"] /\ \A i \in DOMAIN work : work[i] # r
        BY <2>4, <2>6 DEF Given
      <3>2. Fetched(r) /\ ~Given(r)
        BY <2>1, <2>3, <2>4, <2>6, <3>1 DEF Fetched, Given
      <3> QED  BY <1>1, <1>5, <2>3, <2>5, <3>1, <3>2, SettledStays
    <2>7. ASSUME NEW t \in Thread, pc'[t] \in Stuck
          PROVE  FailedSeen(at[t])'
      <3>1. t = "cook" /\ pc["cook"] \in Stuck
        BY <1>2, <2>4, <2>7 DEF Stuck, Asking
      <3>2. at["cook"] \in Recipe /\ at["cook"] # at["fetch"]
        BY <1>1, <2>1, <3>1 DEF ThreadInv, OrderInv, Working
      <3> QED  BY <1>1, <1>5, <2>3, <2>5, <3>1, <3>2, FailedStays
    <2> QED  BY <2>6, <2>7
  <1>d. CASE cooked
    <2>1. /\ pc["cook"] = "busy" /\ "fetch" \in Thread /\ "cook" \in Thread /\ at["cook"] \in Recipe
      BY <1>1, <1>2, <1>d DEF cooked, ThreadInv, Working
    <2>2. /\ pc' = [pc EXCEPT !["cook"] = "handed"] /\ outcome' = [outcome EXCEPT ![at["cook"]] = "cooked"]
          /\ status' = Append(status, Update("ok", "cook", at["cook"]))
          /\ staged' = staged \ {at["cook"]} /\ UNCHANGED <<at, work, shown>>
      BY <1>d DEF cooked, Send, appVars
    <2>3. pc'["cook"] = "handed" /\ pc'["fetch"] = pc["fetch"]
      BY <1>2, <1>3, <2>2
    <2>4. /\ Update("ok", "cook", at["cook"]) \in Updates /\ Update("ok", "cook", at["cook"]).recipe = at["cook"]
          /\ Update("ok", "cook", at["cook"]).kind = "ok" /\ Update("ok", "cook", at["cook"]).thread = "cook"
      BY <2>1, UpdateFacts
    <2>5. ASSUME NEW r \in Recipe, r # at["cook"]
          PROVE  Quiet(r) /\ outcome'[r] = outcome[r]
      BY <1>3, <2>2, <2>4, <2>5 DEF Quiet
    <2>6. ASSUME NEW r \in Recipe, r = at["cook"]
          PROVE  Settled(r)'
      <3>1. Says(r, "Done")'
        BY <1>3, <2>2, <2>4, <2>6, SaysSent DEF Label
      <3>2. outcome'[r] = "cooked" /\ r \notin staged'
        BY <1>3, <2>2, <2>6
      <3> QED  BY <3>1, <3>2 DEF Settled, CookedSeen
    <2>7. ASSUME NEW r \in Recipe, Fetched(r)', ~Given(r)'
          PROVE  Settled(r)'
      <3>1. CASE r # at["cook"]
        <4>1. Fetched(r) /\ ~Given(r)
          BY <2>2, <2>3, <2>7, <3>1 DEF Fetched, Given
        <4> QED  BY <1>1, <1>5, <2>2, <2>5, <3>1, <4>1, SettledStays
      <3> QED  BY <2>6, <3>1
    <2>8. ASSUME NEW t \in Thread, pc'[t] \in Stuck
          PROVE  FailedSeen(at[t])'
      <3>1. t = "fetch" /\ pc["fetch"] \in Stuck
        BY <1>2, <2>3, <2>8 DEF Stuck, Asking
      <3>2. at["fetch"] \in Recipe /\ at["cook"] # at["fetch"]
        BY <1>1, <2>1, <3>1 DEF ThreadInv, OrderInv, Working
      <3> QED  BY <1>1, <1>5, <2>2, <2>5, <3>1, <3>2, FailedStays
    <2> QED  BY <2>7, <2>8
  <1>e. ASSUME NEW t \in Thread,
               look_for_exit(t) \/ fails(t) \/ skip_in_nonstop(t) \/ wait_other_prompt(t)
                 \/ ask(t) \/ load_answer(t) \/ take_answer(t) \/ switch_view(t)
        PROVE  Kept
    <2>1. CASE look_for_exit(t)
      <3>1. prompting # "exit"
        BY <1>1, <1>5 DEF LeftInv
      <3>2. /\ UNCHANGED <<at, work, outcome, shown, status>> /\ staged' \subseteq staged
            /\ \A u \in Thread : /\ pc'[u] \in Working <=> pc[u] \in Working
                                 /\ pc'[u] \in Stuck => pc[u] \in Stuck
        BY <1>2, <1>3, <1>5, <1>e, <2>1, <3>1 DEF look_for_exit, appVars, Working, Stuck, Asking
      <3> QED  BY <1>1, <1>2, <1>5, <3>2, TruthFrame
    <2>2. CASE fails(t)
      <3>1. pc[t] = "busy" /\ at[t] \in Recipe
        BY <1>1, <1>e, <2>2 DEF fails, ThreadInv, Working
      <3>2. /\ pc' = [pc EXCEPT ![t] = "failed"] /\ outcome' = [outcome EXCEPT ![at[t]] = "failed"]
            /\ status' = Append(status, Update("fail", t, at[t]))
            /\ staged' = staged \cup {at[t]} /\ UNCHANGED <<at, work, shown>>
        BY <2>2 DEF fails, Send, appVars
      <3>3. pc'[t] = "failed" /\ \A u \in Thread : u # t => pc'[u] = pc[u]
        BY <1>3, <1>e, <3>2
      <3>4. /\ Update("fail", t, at[t]) \in Updates /\ Update("fail", t, at[t]).recipe = at[t]
            /\ Update("fail", t, at[t]).kind = "fail" /\ Update("fail", t, at[t]).thread = t
        BY <1>e, <3>1, UpdateFacts
      <3>5. ASSUME NEW r \in Recipe, r # at[t]
            PROVE  Quiet(r) /\ outcome'[r] = outcome[r] /\ (r \in staged' => r \in staged)
        BY <1>3, <3>2, <3>4, <3>5 DEF Quiet
      <3>6. \A u \in Thread : u # t /\ pc[u] \in Working => at[u] \in Recipe /\ at[u] # at[t]
        BY <1>1, <1>2, <1>e, <3>1 DEF ThreadInv, OrderInv, Working, Stuck, Asking
      <3>7. ASSUME NEW r \in Recipe, Fetched(r)', ~Given(r)'
            PROVE  Settled(r)'
        <4>1. Fetched(r) /\ ~Given(r) /\ r # at[t]
          BY <1>1, <1>2, <1>4, <1>e, <3>1, <3>2, <3>3, <3>7 DEF Fetched, Given, OrderInv, Working, Stuck, Asking
        <4> QED  BY <1>1, <1>5, <3>2, <3>5, <4>1, SettledStays
      <3>8. ASSUME NEW u \in Thread, pc'[u] \in Stuck
            PROVE  FailedSeen(at[u])'
        <4>1. CASE u = t
          <5>1. Says(at[t], "Failed")'
            <6>1. Says(Update("fail", t, at[t]).recipe, "Failed")'
              BY <1>3, <3>2, <3>4, SaysSent, LastIsHeard
            <6> QED  BY <3>2, <3>4, <6>1 DEF Says
          <5>2. outcome'[at[t]] = "failed"
            BY <1>3, <3>1, <3>2
          <5> QED  BY <3>2, <4>1, <5>1, <5>2 DEF FailedSeen
        <4>2. CASE u # t
          <5>1. pc[u] \in Stuck /\ pc[u] \in Working
            BY <3>3, <3>8, <4>2 DEF Working
          <5> QED  BY <1>1, <1>5, <3>2, <3>5, <3>6, <4>2, <5>1, FailedStays
        <4> QED  BY <4>1, <4>2
      <3> QED  BY <3>7, <3>8
    <2>3. CASE skip_in_nonstop(t)
      <3>1. pc[t] \in Stuck /\ at[t] \in Recipe /\ prompting # "exit"
        BY <1>1, <1>5, <1>e, <2>3 DEF skip_in_nonstop, ThreadInv, LeftInv, Working, Stuck, Asking
      <3>2. /\ pc' = [pc EXCEPT ![t] = "next"] /\ staged' = staged \ {at[t]}
            /\ UNCHANGED <<at, work, outcome, shown, status>>
        BY <2>3, <3>1 DEF skip_in_nonstop, appVars
      <3>3. pc'[t] = "next" /\ \A u \in Thread : u # t => pc'[u] = pc[u]
        BY <1>3, <1>e, <3>2
      <3>4. ASSUME NEW r \in Recipe, Fetched(r)', ~Given(r)'
            PROVE  Settled(r)'
        <4>1. CASE r # at[t]
          <5>1. Fetched(r) /\ ~Given(r)
            BY <1>2, <1>4, <1>e, <3>2, <3>3, <3>4, <4>1 DEF Fetched, Given
          <5> QED  BY <1>1, <1>5, <3>2, <5>1, SettledStays DEF Quiet
        <4>2. CASE r = at[t]
          <5>1. FailedSeen(r)
            BY <1>5, <1>e, <3>1, <4>2
          <5>2. FailedSeen(r)'
            BY <1>1, <1>e, <3>2, <4>2, <5>1, FailedStays DEF Quiet
          <5> QED  BY <3>2, <4>2, <5>2 DEF Settled
        <4> QED  BY <4>1, <4>2
      <3>5. ASSUME NEW u \in Thread, pc'[u] \in Stuck
            PROVE  FailedSeen(at[u])'
        <4>1. pc[u] \in Stuck
          BY <3>3, <3>5 DEF Stuck, Asking
        <4> QED  BY <1>1, <1>5, <3>2, <4>1, FailedStays DEF Quiet
      <3> QED  BY <3>4, <3>5
    <2>4. CASE wait_other_prompt(t)
      <3>1. /\ UNCHANGED <<at, work, outcome, shown, status>> /\ staged' \subseteq staged
            /\ \A u \in Thread : /\ pc'[u] \in Working <=> pc[u] \in Working
                                 /\ pc'[u] \in Stuck => pc[u] \in Stuck
        BY <1>2, <1>3, <1>5, <1>e, <2>4 DEF wait_other_prompt, appVars, Working, Stuck, Asking
      <3> QED  BY <1>1, <1>2, <1>5, <3>1, TruthFrame
    <2>5. CASE ask(t)
      <3>1. /\ UNCHANGED <<at, work, outcome, shown, status>> /\ staged' \subseteq staged
            /\ \A u \in Thread : /\ pc'[u] \in Working <=> pc[u] \in Working
                                 /\ pc'[u] \in Stuck => pc[u] \in Stuck
        BY <1>2, <1>3, <1>5, <1>e, <2>5 DEF ask, appVars, Working, Stuck, Asking
      <3> QED  BY <1>1, <1>2, <1>5, <3>1, TruthFrame
    <2>6. CASE load_answer(t)
      <3>1. pc[t] = "wait" /\ pc[t] \in Stuck /\ at[t] \in Recipe /\ ~Nonstop /\ t \in Failing
        BY <1>1, <1>e, <2>6 DEF load_answer, ThreadInv, Working, Stuck, Asking
      <3>2. UNCHANGED <<at, work, outcome, staged, shown, status>>
        BY <2>6 DEF load_answer, appVars
      <3>3. CASE prompting = "free"
        <4>1. ~Apart
          BY <1>1, <1>e, <3>1, <3>3 DEF QuestionInv, Alone, Apart
        <4>2. pc'[t] = "next" /\ \A u \in Thread : u # t => pc'[u] = pc[u]
          BY <1>3, <1>e, <2>6, <3>3 DEF load_answer
        <4>3. ASSUME NEW r \in Recipe, Fetched(r)', ~Given(r)'
              PROVE  Settled(r)'
          <5>1. CASE r # at[t]
            <6>1. Fetched(r) /\ ~Given(r)
              BY <1>2, <1>4, <1>e, <3>2, <4>2, <4>3, <5>1 DEF Fetched, Given
            <6> QED  BY <1>1, <1>5, <3>2, <6>1, SettledStays DEF Quiet
          <5>2. CASE r = at[t]
            <6>1. FailedSeen(r)
              BY <1>5, <1>e, <3>1, <5>2
            <6>2. FailedSeen(r)'
              BY <1>1, <1>e, <3>2, <5>2, <6>1, FailedStays DEF Quiet
            <6> QED  BY <1>1, <4>1, <6>2 DEF Settled
          <5> QED  BY <5>1, <5>2
        <4>4. ASSUME NEW u \in Thread, pc'[u] \in Stuck
              PROVE  FailedSeen(at[u])'
          <5>1. pc[u] \in Stuck
            BY <4>2, <4>4 DEF Stuck, Asking
          <5> QED  BY <1>1, <1>5, <3>2, <5>1, FailedStays DEF Quiet
        <4> QED  BY <4>3, <4>4
      <3>4. CASE prompting # "free"
        <4>1. \A u \in Thread : /\ pc'[u] \in Working <=> pc[u] \in Working
                                /\ pc'[u] \in Stuck => pc[u] \in Stuck
          BY <1>3, <1>e, <2>6, <3>4 DEF load_answer, Working, Stuck, Asking
        <4> QED  BY <1>1, <1>2, <1>5, <3>2, <4>1, TruthFrame
      <3> QED  BY <3>3, <3>4
    <2>7. CASE take_answer(t)
      <3>1. /\ pc[t] \in Stuck /\ at[t] \in Recipe /\ got[t] # "exit"
        BY <1>1, <1>5, <1>e, <2>7, TakeCases DEF LeftInv, Stuck
      <3>2. CASE /\ pc' = [pc EXCEPT ![t] = "next"] /\ staged' = staged \ {at[t]}
                 /\ UNCHANGED <<at, work, outcome, shown, status>>
        <4>1. pc'[t] = "next" /\ \A u \in Thread : u # t => pc'[u] = pc[u]
          BY <1>3, <1>e, <3>2
        <4>2. ASSUME NEW r \in Recipe, Fetched(r)', ~Given(r)'
              PROVE  Settled(r)'
          <5>1. CASE r # at[t]
            <6>1. Fetched(r) /\ ~Given(r)
              BY <1>2, <1>4, <1>e, <3>2, <4>1, <4>2, <5>1 DEF Fetched, Given
            <6> QED  BY <1>1, <1>5, <3>2, <6>1, SettledStays DEF Quiet
          <5>2. CASE r = at[t]
            <6>1. FailedSeen(r)
              BY <1>5, <1>e, <3>1, <5>2
            <6>2. FailedSeen(r)'
              BY <1>1, <1>e, <3>2, <5>2, <6>1, FailedStays DEF Quiet
            <6> QED  BY <3>2, <5>2, <6>2 DEF Settled
          <5> QED  BY <5>1, <5>2
        <4>3. ASSUME NEW u \in Thread, pc'[u] \in Stuck
              PROVE  FailedSeen(at[u])'
          <5>1. pc[u] \in Stuck
            BY <4>1, <4>3 DEF Stuck, Asking
          <5> QED  BY <1>1, <1>5, <3>2, <5>1, FailedStays DEF Quiet
        <4> QED  BY <4>2, <4>3
      <3>3. CASE /\ pc' = [pc EXCEPT ![t] = "busy"] /\ staged' = staged
                 /\ status' = Append(status, Update("start", t, at[t])) /\ UNCHANGED <<at, work, outcome, shown>>
        <4>1. pc'[t] = "busy" /\ \A u \in Thread : u # t => pc'[u] = pc[u]
          BY <1>3, <1>e, <3>3
        <4>2. Update("start", t, at[t]) \in Updates /\ Update("start", t, at[t]).recipe = at[t]
          BY <1>e, <3>1, UpdateFacts
        <4>3. \A r \in Recipe : r # at[t] => Quiet(r)
          BY <3>3, <4>2 DEF Quiet
        <4>4. \A u \in Thread : u # t /\ pc[u] \in Working => at[u] \in Recipe /\ at[u] # at[t]
          BY <1>1, <1>2, <1>e, <3>1 DEF ThreadInv, OrderInv, Working
        <4>5. ASSUME NEW r \in Recipe, Fetched(r)', ~Given(r)'
              PROVE  Settled(r)'
          <5>1. Fetched(r) /\ ~Given(r) /\ r # at[t]
            BY <1>1, <1>2, <1>4, <1>e, <3>1, <3>3, <4>1, <4>5 DEF Fetched, Given, OrderInv, Working
          <5> QED  BY <1>1, <1>5, <3>3, <4>3, <5>1, SettledStays
        <4>6. ASSUME NEW u \in Thread, pc'[u] \in Stuck
              PROVE  FailedSeen(at[u])'
          <5>1. u # t /\ pc[u] \in Stuck /\ pc[u] \in Working
            BY <4>1, <4>6 DEF Working, Stuck, Asking
          <5> QED  BY <1>1, <1>5, <3>3, <4>3, <4>4, <5>1, FailedStays
        <4> QED  BY <4>5, <4>6
      <3> QED  BY <1>1, <1>e, <2>7, <3>1, <3>2, <3>3, TakeCases DEF appVars
    <2>8. CASE switch_view(t)
      <3>1. /\ UNCHANGED <<at, work, outcome, shown, status>> /\ staged' \subseteq staged
            /\ \A u \in Thread : /\ pc'[u] \in Working <=> pc[u] \in Working
                                 /\ pc'[u] \in Stuck => pc[u] \in Stuck
        BY <1>2, <1>3, <1>5, <1>e, <2>8 DEF switch_view, threadVars, Working, Stuck, Asking
      <3> QED  BY <1>1, <1>2, <1>5, <3>1, TruthFrame
    <2> QED  BY <1>e, <2>1, <2>2, <2>3, <2>4, <2>5, <2>6, <2>7, <2>8
  <1>f. CASE end_input
    <2>1. /\ UNCHANGED <<at, work, outcome, shown, status>> /\ staged' \subseteq staged
          /\ \A u \in Thread : /\ pc'[u] \in Working <=> pc[u] \in Working
                               /\ pc'[u] \in Stuck => pc[u] \in Stuck
      BY <1>2, <1>3, <1>5, <1>f DEF end_input, threadVars, Working, Stuck, Asking
    <2> QED  BY <1>1, <1>2, <1>5, <2>1, TruthFrame
  <1>g. CASE update_status
    <2>1. /\ UNCHANGED <<pc, at, work, outcome, staged>> /\ status' = Tail(status) /\ status # <<>>
          /\ Head(status) \in Updates
      BY <1>3, <1>g, TailFacts DEF update_status, threadVars
    <2>2. ASSUME NEW r \in Recipe
          PROVE  shown'[r] = IF Head(status).recipe = r THEN Label(Head(status).kind, Head(status).thread) ELSE shown[r]
      <3>1. CASE Head(status).kind = "finished"
        BY <1>2, <1>g, <2>1, <3>1 DEF update_status, Updates
      <3>2. CASE Head(status).kind # "finished"
        BY <1>3, <1>g, <2>1, <3>2 DEF update_status
      <3> QED  BY <3>1, <3>2
    <2>3. ASSUME NEW r \in Recipe, NEW label, Says(r, label)
          PROVE  Says(r, label)'
      <3>1. Heard(Tail(status), shown', r, label)
        BY <1>3, <2>1, <2>2, <2>3, HeardNext DEF Says
      <3> QED  BY <2>1, <3>1 DEF Says, Heard
    <2>4. ASSUME NEW r \in Recipe, Fetched(r)', ~Given(r)'
          PROVE  Settled(r)'
      <3>1. Fetched(r) /\ ~Given(r)
        BY <2>1, <2>4 DEF Fetched, Given
      <3> QED  BY <1>1, <1>5, <2>1, <2>3, <3>1 DEF Settled, FailedSeen, CookedSeen
    <2>5. ASSUME NEW t \in Thread, pc'[t] \in Stuck
          PROVE  FailedSeen(at[t])'
      <3>1. pc[t] \in Stuck /\ at[t] \in Recipe
        BY <1>1, <2>1, <2>5 DEF ThreadInv, Working
      <3>2. Says(at[t], "Failed")'
        <4>1. \A r \in Recipe : Says(r, "Failed") => Heard(status', shown', r, "Failed")
          BY <2>3 DEF Says, Heard
        <4> QED  BY <1>5, <2>1, <3>1, <4>1 DEF FailedSeen, Says
      <3> QED  BY <1>5, <2>1, <3>1, <3>2 DEF FailedSeen
    <2> QED  BY <2>4, <2>5
  <1>h. CASE end_drain
    <2>1. /\ UNCHANGED <<at, work, outcome, shown, status>> /\ staged' \subseteq staged
          /\ \A u \in Thread : /\ pc'[u] \in Working <=> pc[u] \in Working
                               /\ pc'[u] \in Stuck => pc[u] \in Stuck
      BY <1>2, <1>3, <1>5, <1>h DEF end_drain, threadVars, Working, Stuck, Asking
    <2> QED  BY <1>1, <1>2, <1>5, <2>1, TruthFrame
  <1>i. CASE report
    <2>1. /\ UNCHANGED <<at, work, outcome, shown, status>> /\ staged' \subseteq staged
          /\ \A u \in Thread : /\ pc'[u] \in Working <=> pc[u] \in Working
                               /\ pc'[u] \in Stuck => pc[u] \in Stuck
      BY <1>2, <1>3, <1>5, <1>i DEF report, threadVars, Working, Stuck, Asking
    <2> QED  BY <1>1, <1>2, <1>5, <2>1, TruthFrame
  <1>j. ASSUME NEW answer \in Answer, press(answer)
        PROVE  Kept
    <2>1. /\ UNCHANGED <<at, work, outcome, shown, status>> /\ staged' \subseteq staged
          /\ \A u \in Thread : /\ pc'[u] \in Working <=> pc[u] \in Working
                               /\ pc'[u] \in Stuck => pc[u] \in Stuck
      BY <1>2, <1>3, <1>5, <1>j DEF press, threadVars, Working, Stuck, Asking
    <2> QED  BY <1>1, <1>2, <1>5, <2>1, TruthFrame
  <1>k. CASE UNCHANGED vars
    <2>1. /\ UNCHANGED <<at, work, outcome, shown, status>> /\ staged' \subseteq staged
          /\ \A u \in Thread : /\ pc'[u] \in Working <=> pc[u] \in Working
                               /\ pc'[u] \in Stuck => pc[u] \in Stuck
      BY <1>2, <1>3, <1>5, <1>k DEF vars, threadVars, appVars, Working, Stuck, Asking
    <2> QED  BY <1>1, <1>2, <1>5, <2>1, TruthFrame
  <1> QED  BY <1>a, <1>b, <1>c, <1>d, <1>e, <1>f, <1>g, <1>h, <1>i, <1>j, <1>k, Steps

\* A step that asks, answers and reports nothing: no failure is sent or shown.
Grows ==
  /\ \A i \in DOMAIN status : i \in DOMAIN status' /\ status'[i] = status[i]
  /\ \A i \in DOMAIN status' : i \in DOMAIN status \/ status'[i].kind # "fail"

\* Sending no update, one or two that are no failures is such a step.
LEMMA GrowsFacts ==
  ASSUME status \in Seq(Updates)
  PROVE  /\ status' = status => Grows
         /\ \A u \in Updates : status' = Append(status, u) /\ u.kind # "fail" => Grows
         /\ \A u, v \in Updates : status' = status \o <<u, v>> /\ u.kind # "fail" /\ v.kind # "fail" => Grows
  <1>1. ASSUME NEW u \in Updates, status' = Append(status, u), u.kind # "fail"
        PROVE  Grows
    BY <1>1, SentFacts DEF Grows
  <1>2. ASSUME NEW u \in Updates, NEW v \in Updates, status' = status \o <<u, v>>, u.kind # "fail", v.kind # "fail"
        PROVE  Grows
    <2>1. status' = Append(Append(status, u), v) /\ Append(status, u) \in Seq(Updates)
      BY <1>2, SendTwo, AppendFacts
    <2> DEFINE mid == Append(status, u)
    <2>2. /\ Len(status) \in Nat /\ Len(mid) = Len(status) + 1 /\ DOMAIN status = 1..Len(status)
          /\ DOMAIN mid = 1..(Len(status) + 1)
          /\ \A i \in 1..Len(status) : mid[i] = status[i]
          /\ mid[Len(status) + 1] = u
      BY AppendFacts
    <2>3. /\ DOMAIN status' = 1..(Len(mid) + 1)
          /\ \A i \in 1..Len(mid) : status'[i] = mid[i]
          /\ status'[Len(mid) + 1] = v
      BY <2>1, AppendFacts
    <2> HIDE DEF mid
    <2>4. \A i \in 1..Len(status) : i \in DOMAIN status' /\ status'[i] = status[i]
      BY <2>2, <2>3
    <2>5. \A i \in DOMAIN status' : i \in 1..Len(status) \/ status'[i] = u \/ status'[i] = v
      <3> SUFFICES ASSUME NEW i \in DOMAIN status', i \notin 1..Len(status)
                   PROVE  status'[i] = u \/ status'[i] = v
        OBVIOUS
      <3>1. i = Len(status) + 1 \/ i = Len(status) + 2
        BY <2>2, <2>3
      <3> QED  BY <2>2, <2>3, <3>1
    <2> QED  BY <1>2, <2>2, <2>4, <2>5 DEF Grows
  <1> QED  BY <1>1, <1>2 DEF Grows

\* Such a step keeps QuestionInv if it leaves the questions alone.
LEMMA QuestionFrame ==
  ASSUME ThreadInv, QuestionInv, Alone, Alone' = Alone, setup' = setup, Grows,
         UNCHANGED <<prompting, prompt, answered>>,
         \A t \in Thread : /\ pc[t] \in Stuck => pc'[t] = pc[t] /\ at'[t] = at[t] /\ got'[t] = got[t]
                           /\ pc'[t] \in Stuck => pc[t] \in Stuck
  PROVE  QuestionInv'
  <1>1. \A t \in Thread : pc[t] \in Stuck \/ pc'[t] \in Stuck =>
                               pc'[t] = pc[t] /\ at'[t] = at[t] /\ got'[t] = got[t]
    OBVIOUS
  <1>2. NoFailures' <=> NoFailures
    BY DEF Grows, NoFailures
  <1>3. prompting' = "asked" => \E t \in Thread : pc'[t] = "wait"
    BY <1>1 DEF QuestionInv, Stuck, Asking
  <1>4. \A t \in Thread : pc'[t] = "wait" => prompting' # "free"
    BY <1>1 DEF QuestionInv, Stuck, Asking
  <1>5. prompt' # <<>> => NoFailures' /\ \E t \in Thread : pc'[t] \in Asking /\ prompt' = <<t, at'[t]>>
    BY <1>1, <1>2 DEF QuestionInv, Stuck
  <1>6. ASSUME NEW i \in DOMAIN status', status'[i].kind = "fail"
        PROVE  /\ prompt' = <<>> /\ \A j \in DOMAIN status' : status'[j].kind = "fail" => j = i
               /\ \E t \in Thread : pc'[t] \in Asking /\ status'[i] = Update("fail", t, at'[t])
    <2>1. \A j \in DOMAIN status' : status'[j].kind = "fail" => j \in DOMAIN status /\ status'[j] = status[j]
      BY DEF Grows
    <2>2. /\ prompt = <<>> /\ \A j \in DOMAIN status : status[j].kind = "fail" => j = i
          /\ \E t \in Thread : pc[t] \in Asking /\ status[i] = Update("fail", t, at[t])
      BY <1>6, <2>1 DEF QuestionInv
    <2> QED  BY <1>1, <1>6, <2>1, <2>2 DEF Stuck
  <1>7. ASSUME NEW t \in Thread
        PROVE  /\ pc'[t] = "wait" /\ prompting' \in Answer =>
                    answered' = <<t, at'[t], prompting', "asked">> /\ prompt' = <<>> /\ NoFailures'
               /\ pc'[t] = "answered" =>
                    answered' = <<t, at'[t], got'[t], "asked">> /\ prompt' = <<>> /\ NoFailures'
               /\ /\ ~Hasty'
                  /\ pc'[t] \in {"failed", "asking"} \/ (pc'[t] = "wait" /\ prompting' = "asked")
                  => prompt' = <<t, at'[t]>> \/ \E i \in DOMAIN status' : status'[i] = Update("fail", t, at'[t])
    <2>1. pc'[t] \in Stuck => pc'[t] = pc[t] /\ at'[t] = at[t] /\ got'[t] = got[t]
      BY <1>1
    <2>2. \A i \in DOMAIN status : i \in DOMAIN status' /\ status'[i] = status[i]
      BY DEF Grows
    <2>3. Hasty' = Hasty
      BY DEF Hasty, Nonstop
    <2> QED  BY <1>2, <2>1, <2>2, <2>3 DEF QuestionInv, Stuck, Asking
  <1> QED  BY <1>3, <1>4, <1>5, <1>6, <1>7 DEF QuestionInv, Update

\* A question has one thread that asks it.
LEMMA QuestionStep ==
  ASSUME IInv, [Next]_<<vars, setup>>
  PROVE  QuestionInv'
  <1>1. /\ TypeInv /\ ThreadInv /\ QuestionInv /\ setup' = setup
        /\ Recipes' = Recipes /\ Recipe' = Recipe /\ Nonstop' = Nonstop /\ Failing' = Failing
        /\ Apart' = Apart /\ Alone' = Alone
    BY Steps, SetupStays DEF IInv
  <1>2. /\ Recipes \in Nat \ {0} /\ Recipe = 1..Recipes /\ Thread = {"fetch", "cook"}
        /\ Failing \subseteq Thread /\ 0 \notin Recipe
    BY <1>1, SetupFacts
  <1>3. /\ pc \in [Thread -> {"next", "busy", "handed", "failed", "asking", "wait", "answered", "done"}]
        /\ at \in [Thread -> 0..Recipes] /\ work \in Seq(Recipe) /\ status \in Seq(Updates)
        /\ got \in [Thread -> Answer \cup {"none"}] /\ prompting \in Answer \cup {"free", "asked"}
    BY <1>1 DEF TypeInv, TypeOK
  <1> SUFFICES ASSUME Alone
               PROVE  QuestionInv'
    BY <1>1 DEF QuestionInv
  <1>4. /\ Alone /\ ~Nonstop /\ Failing # Thread
        /\ prompting = "asked" => \E t \in Thread : pc[t] = "wait"
        /\ \A t \in Thread : pc[t] = "wait" => prompting # "free"
        /\ prompt # <<>> => NoFailures /\ \E t \in Thread : pc[t] \in Asking /\ prompt = <<t, at[t]>>
        /\ \A i \in DOMAIN status : status[i].kind = "fail" =>
             /\ prompt = <<>> /\ \A j \in DOMAIN status : status[j].kind = "fail" => j = i
             /\ \E t \in Thread : pc[t] \in Asking /\ status[i] = Update("fail", t, at[t])
        /\ \A t \in Thread :
             /\ pc[t] = "wait" /\ prompting \in Answer =>
                  answered = <<t, at[t], prompting, "asked">> /\ prompt = <<>> /\ NoFailures
             /\ pc[t] = "answered" =>
                  answered = <<t, at[t], got[t], "asked">> /\ prompt = <<>> /\ NoFailures
             /\ ~Hasty /\ (pc[t] \in {"failed", "asking"} \/ (pc[t] = "wait" /\ prompting = "asked")) =>
                  prompt = <<t, at[t]>> \/ \E i \in DOMAIN status : status[i] = Update("fail", t, at[t])
    BY <1>1 DEF QuestionInv, Alone
  <1>5. \A t, u \in Thread : pc[t] \in Stuck /\ u \in Failing => u = t
    <2> SUFFICES ASSUME NEW t \in Thread, NEW u \in Thread, pc[t] \in Stuck, u \in Failing, u # t
                 PROVE  FALSE
      OBVIOUS
    <2>1. t \in Failing
      BY <1>1 DEF ThreadInv
    <2>2. Thread = {t, u}
      BY <1>2
    <2>3. Failing \subseteq Thread /\ \A x \in Thread : x \in Failing
      BY <1>2, <2>1, <2>2
    <2>4. Failing = Thread
      BY <2>3, Zenon
    <2> QED  BY <1>4, <2>4
  <1>10. answered' = answered => Hasty' = Hasty
    BY <1>1 DEF Hasty
  <1>a. CASE start_fetch
    <2>1. Grows
      <3>1. CASE at["fetch"] = Recipes
        BY <1>2, <1>3, <1>a, <3>1, EndFacts, GrowsFacts DEF start_fetch, Finish, Send
      <3>2. CASE at["fetch"] # Recipes
        <4>1. at["fetch"] + 1 \in Recipe
          BY <1>2, <1>3, <3>2
        <4> QED  BY <1>2, <1>3, <1>a, <3>2, <4>1, UpdateFacts, GrowsFacts DEF start_fetch, Send
      <3> QED  BY <3>1, <3>2
    <2>2. /\ UNCHANGED <<prompting, prompt, answered>>
          /\ \A u \in Thread : /\ pc[u] \in Stuck => pc'[u] = pc[u] /\ at'[u] = at[u] /\ got'[u] = got[u]
                               /\ pc'[u] \in Stuck => pc[u] \in Stuck
      BY <1>2, <1>3, <1>a DEF start_fetch, Finish, appVars, Stuck, Asking
    <2> QED  BY <1>1, <1>4, <2>1, <2>2, QuestionFrame
  <1>b. CASE start_cook
    <2>1. Grows
      <3>1. CASE work # <<>> /\ Send(Update("start", "cook", Head(work)))
        <4>1. Head(work) \in Recipe
          BY <1>3, <3>1, TailFacts
        <4> QED  BY <1>2, <1>3, <3>1, <4>1, UpdateFacts, GrowsFacts DEF Send
      <3>2. CASE Finish("cook")
        BY <1>2, <1>3, <3>2, EndFacts, GrowsFacts DEF Finish, Send
      <3> QED  BY <1>b, <3>1, <3>2 DEF start_cook
    <2>2. /\ UNCHANGED <<prompting, prompt, answered>>
          /\ \A u \in Thread : /\ pc[u] \in Stuck => pc'[u] = pc[u] /\ at'[u] = at[u] /\ got'[u] = got[u]
                               /\ pc'[u] \in Stuck => pc[u] \in Stuck
      <3>1. /\ pc["cook"] = "next" /\ pc'["cook"] \in {"busy", "done"} /\ pc'["fetch"] = pc["fetch"]
            /\ at'["fetch"] = at["fetch"] /\ got' = got /\ UNCHANGED <<prompting, prompt, answered>>
        BY <1>2, <1>3, <1>b DEF start_cook, Finish, appVars
      <3> QED  BY <1>2, <3>1 DEF Stuck, Asking
    <2> QED  BY <1>1, <1>4, <2>1, <2>2, QuestionFrame
  <1>c. CASE fetched
    <2>1. /\ pc["fetch"] = "busy" /\ "fetch" \in Thread /\ at["fetch"] \in Recipe
          /\ pc'["fetch"] \in {"done", "handed"} /\ pc'["cook"] = pc["cook"]
          /\ UNCHANGED <<at, got, prompting, prompt, answered>>
      BY <1>1, <1>2, <1>3, <1>c DEF fetched, appVars, ThreadInv, Working
    <2>2. Grows
      <3>1. /\ Update("ok", "fetch", at["fetch"]) \in Updates /\ Update("ok", "fetch", at["fetch"]).kind # "fail"
            /\ Update("finished", "fetch", 0) \in Updates /\ Update("finished", "fetch", 0).kind # "fail"
        BY <2>1, UpdateFacts, EndFacts
      <3>2. CASE pc["cook"] = "done"
        BY <1>3, <1>c, <3>1, <3>2, GrowsFacts DEF fetched
      <3>3. CASE pc["cook"] # "done"
        BY <1>3, <1>c, <3>1, <3>3, GrowsFacts DEF fetched, Send
      <3> QED  BY <3>2, <3>3
    <2>3. \A u \in Thread : /\ pc[u] \in Stuck => pc'[u] = pc[u] /\ at'[u] = at[u] /\ got'[u] = got[u]
                            /\ pc'[u] \in Stuck => pc[u] \in Stuck
      BY <1>2, <2>1 DEF Stuck, Asking
    <2>4. UNCHANGED <<prompting, prompt, answered>>
      BY <2>1
    <2> QED  BY <1>1, <1>4, <2>2, <2>3, <2>4, QuestionFrame
  <1>d. CASE cooked
    <2>1. /\ pc["cook"] = "busy" /\ "cook" \in Thread /\ at["cook"] \in Recipe
          /\ pc'["cook"] = "handed" /\ pc'["fetch"] = pc["fetch"]
          /\ UNCHANGED <<at, got, prompting, prompt, answered>>
      BY <1>1, <1>2, <1>3, <1>d DEF cooked, appVars, ThreadInv, Working
    <2>2. Grows
      BY <1>3, <1>d, <2>1, UpdateFacts, GrowsFacts DEF cooked, Send
    <2>3. \A u \in Thread : /\ pc[u] \in Stuck => pc'[u] = pc[u] /\ at'[u] = at[u] /\ got'[u] = got[u]
                            /\ pc'[u] \in Stuck => pc[u] \in Stuck
      BY <1>2, <2>1 DEF Stuck, Asking
    <2>4. UNCHANGED <<prompting, prompt, answered>>
      BY <2>1
    <2> QED  BY <1>1, <1>4, <2>2, <2>3, <2>4, QuestionFrame
  <1>e. ASSUME NEW t \in Thread,
               look_for_exit(t) \/ fails(t) \/ skip_in_nonstop(t) \/ wait_other_prompt(t)
                 \/ ask(t) \/ load_answer(t) \/ take_answer(t) \/ switch_view(t)
        PROVE  QuestionInv'
    <2>1. CASE look_for_exit(t)
      <3>1. Grows
        BY <1>3, <1>e, <2>1, EndFacts, GrowsFacts DEF look_for_exit, Finish, Send
      <3>2. /\ UNCHANGED <<prompting, prompt, answered>>
            /\ \A u \in Thread : /\ pc[u] \in Stuck => pc'[u] = pc[u] /\ at'[u] = at[u] /\ got'[u] = got[u]
                                 /\ pc'[u] \in Stuck => pc[u] \in Stuck
        BY <1>2, <1>3, <1>e, <2>1 DEF look_for_exit, Finish, appVars, Stuck, Asking
      <3> QED  BY <1>1, <1>4, <3>1, <3>2, QuestionFrame
    <2>2. CASE fails(t)
      <3>1. /\ pc[t] = "busy" /\ t \in Failing /\ at[t] \in Recipe /\ pc' = [pc EXCEPT ![t] = "failed"]
            /\ status' = Append(status, Update("fail", t, at[t]))
            /\ UNCHANGED <<at, got, prompting, prompt, answered>>
        BY <1>1, <1>e, <2>2 DEF fails, Send, appVars, ThreadInv, Working
      <3>2. \A u \in Thread : pc[u] \notin Stuck
        BY <1>5, <1>e, <3>1 DEF Stuck, Asking
      <3>3. prompt = <<>> /\ prompting # "asked" /\ \A i \in DOMAIN status : status[i].kind # "fail"
        BY <1>4, <3>2 DEF Stuck, Asking
      <3>4. pc'[t] = "failed" /\ \A u \in Thread : pc'[u] \in Stuck => u = t
        BY <1>3, <1>e, <3>1, <3>2
      <3>5. /\ Update("fail", t, at[t]) \in Updates /\ Update("fail", t, at[t]).kind = "fail"
        BY <1>e, <3>1, UpdateFacts
      <3>6. /\ Len(status) \in Nat /\ DOMAIN status = 1..Len(status) /\ DOMAIN status' = 1..(Len(status) + 1)
            /\ \A i \in 1..Len(status) : status'[i] = status[i]
            /\ status'[Len(status) + 1] = Update("fail", t, at[t])
        BY <1>3, <3>1, <3>5, SentFacts
      <3>7. \A i \in DOMAIN status' : status'[i].kind = "fail" => i = Len(status) + 1
        BY <3>3, <3>6
      <3>8. \A i \in DOMAIN status' : status'[i].kind = "fail" =>
              /\ prompt' = <<>> /\ \A j \in DOMAIN status' : status'[j].kind = "fail" => j = i
              /\ \E u \in Thread : pc'[u] \in Asking /\ status'[i] = Update("fail", u, at'[u])
        BY <1>e, <3>1, <3>3, <3>4, <3>6, <3>7 DEF Asking
      <3>9. \E i \in DOMAIN status' : status'[i] = Update("fail", t, at'[t])
        BY <3>1, <3>6
      <3> QED  BY <1>e, <3>1, <3>3, <3>4, <3>8, <3>9 DEF QuestionInv, Stuck, Asking, Update
    <2>3. CASE skip_in_nonstop(t)
      BY <1>4, <2>3 DEF skip_in_nonstop
    <2>4. CASE wait_other_prompt(t)
      <3>1. /\ pc[t] = "failed" /\ pc' = [pc EXCEPT ![t] = "asking"] /\ pc[t] \in Stuck
            /\ UNCHANGED <<at, got, status, prompt, answered>>
        BY <1>e, <2>4 DEF wait_other_prompt, appVars, Stuck, Asking
      <3>2. /\ pc'[t] = "asking" /\ t \in Failing /\ \A u \in Thread : u # t => pc'[u] = pc[u] /\ pc[u] \notin Stuck
        BY <1>1, <1>3, <1>5, <1>e, <3>1 DEF ThreadInv
      <3>3. prompting' = "free" /\ prompting = "free"
        BY <2>4 DEF wait_other_prompt
      <3>4. answered' = answered
        BY <2>4 DEF wait_other_prompt
      <3> QED  BY <1>1, <1>3, <1>4, <1>10, <3>4, <1>e, <3>1, <3>2, <3>3 DEF QuestionInv, NoFailures, Stuck, Asking, Answer, Update
    <2>5. CASE ask(t)
      <3>1. /\ pc[t] = "asking" /\ pc' = [pc EXCEPT ![t] = "wait"] /\ pc[t] \in Stuck
            /\ UNCHANGED <<at, got, status, prompt, answered>>
        BY <1>e, <2>5 DEF ask, appVars, Stuck, Asking
      <3>2. /\ pc'[t] = "wait" /\ t \in Failing /\ \A u \in Thread : u # t => pc'[u] = pc[u] /\ pc[u] \notin Stuck
        BY <1>1, <1>3, <1>5, <1>e, <3>1 DEF ThreadInv
      <3>3. prompting' = "asked"
        BY <2>5 DEF ask
      <3>4. answered' = answered
        BY <2>5 DEF ask
      <3> QED  BY <1>1, <1>3, <1>4, <1>10, <3>4, <1>e, <3>1, <3>2, <3>3 DEF QuestionInv, NoFailures, Stuck, Asking, Answer, Update
    <2>6. CASE load_answer(t)
      <3>1. /\ pc[t] = "wait" /\ pc[t] \in Stuck /\ prompting # "free" /\ prompting \in Answer
            /\ UNCHANGED <<at, status, prompt, prompting, answered>>
            /\ pc' = [pc EXCEPT ![t] = "answered"] /\ got' = [got EXCEPT ![t] = prompting]
        BY <1>3, <1>4, <1>e, <2>6 DEF load_answer, appVars, Stuck, Asking
      <3>2. /\ answered = <<t, at[t], prompting, "asked">> /\ prompt = <<>>
            /\ \A i \in DOMAIN status : status[i].kind # "fail"
        BY <1>4, <1>e, <3>1 DEF NoFailures
      <3>3. pc'[t] = "answered" /\ got'[t] = prompting /\ \A u \in Thread : pc'[u] \in Stuck => u = t
        BY <1>1, <1>3, <1>5, <1>e, <3>1 DEF ThreadInv
      <3>4. prompting # "asked"
        BY <3>1 DEF Answer
      <3> QED  BY <1>e, <3>1, <3>2, <3>3, <3>4 DEF QuestionInv, NoFailures, Stuck, Asking
    <2>7. CASE take_answer(t)
      <3>1. /\ pc[t] = "answered" /\ pc[t] \in Stuck /\ at[t] \in Recipe /\ prompting' = "free"
            /\ UNCHANGED <<at, prompt, answered>>
            /\ pc'[t] \in {"busy", "next", "done"} /\ \A u \in Thread : u # t => pc'[u] = pc[u]
        BY <1>1, <1>3, <1>e, <2>7, TakeCases DEF appVars, Stuck
      <3>2. prompt = <<>> /\ \A i \in DOMAIN status : status[i].kind # "fail"
        BY <1>4, <1>e, <3>1 DEF NoFailures
      <3>3. Grows
        <4>1. /\ Update("start", t, at[t]) \in Updates /\ Update("start", t, at[t]).kind # "fail"
              /\ Update("finished", t, 0) \in Updates /\ Update("finished", t, 0).kind # "fail"
          BY <1>e, <3>1, UpdateFacts, EndFacts
        <4> QED  BY <1>1, <1>3, <1>e, <2>7, <4>1, TakeCases, GrowsFacts
      <3>4. \A u \in Thread : pc'[u] \notin Stuck
        BY <1>1, <1>5, <1>e, <3>1 DEF ThreadInv, Stuck, Asking
      <3>5. \A i \in DOMAIN status' : status'[i].kind # "fail"
        BY <3>2, <3>3 DEF Grows
      <3> QED  BY <3>1, <3>2, <3>4, <3>5 DEF QuestionInv, Stuck, Asking
    <2>8. CASE switch_view(t)
      <3>1. Grows
        BY <1>3, <1>e, <2>8, GrowsFacts DEF switch_view, threadVars
      <3>2. /\ UNCHANGED <<prompting, prompt, answered>>
            /\ \A u \in Thread : /\ pc[u] \in Stuck => pc'[u] = pc[u] /\ at'[u] = at[u] /\ got'[u] = got[u]
                                 /\ pc'[u] \in Stuck => pc[u] \in Stuck
        BY <1>2, <1>3, <1>e, <2>8 DEF switch_view, threadVars, Stuck, Asking
      <3> QED  BY <1>1, <1>4, <3>1, <3>2, QuestionFrame
    <2> QED  BY <1>e, <2>1, <2>2, <2>3, <2>4, <2>5, <2>6, <2>7, <2>8
  <1>f. CASE end_input
    <2>1. Grows
      BY <1>3, <1>f, GrowsFacts DEF end_input, threadVars
    <2>2. /\ UNCHANGED <<prompting, prompt, answered>>
          /\ \A u \in Thread : /\ pc[u] \in Stuck => pc'[u] = pc[u] /\ at'[u] = at[u] /\ got'[u] = got[u]
                               /\ pc'[u] \in Stuck => pc[u] \in Stuck
      BY <1>2, <1>3, <1>f DEF end_input, threadVars, Stuck, Asking
    <2> QED  BY <1>1, <1>4, <2>1, <2>2, QuestionFrame
  <1>g. CASE update_status
    <2>1. /\ UNCHANGED <<pc, at, got, prompting, answered>> /\ status' = Tail(status)
          /\ Len(status) \in Nat \ {0} /\ DOMAIN status = 1..Len(status) /\ DOMAIN status' = 1..(Len(status) - 1)
          /\ Head(status) = status[1] /\ Head(status) \in Updates
          /\ \A i \in 1..(Len(status) - 1) : status'[i] = status[i + 1]
      BY <1>3, <1>g, TailFacts DEF update_status, threadVars
    <2>2. \A i \in DOMAIN status' : i + 1 \in DOMAIN status /\ status'[i] = status[i + 1] /\ i + 1 # 1
      BY <2>1
    <2>3. \A i \in DOMAIN status : i # 1 => i - 1 \in DOMAIN status' /\ status'[i - 1] = status[i]
      BY <2>1
    <2>4. 1 \in DOMAIN status
      BY <2>1
    <2>5. CASE Head(status).kind = "fail"
      <3>1. prompt' = <<Head(status).thread, Head(status).recipe>>
        BY <1>g, <2>5 DEF update_status
      <3>2. PICK t \in Thread : pc[t] \in Asking /\ status[1] = Update("fail", t, at[t])
        BY <1>4, <2>1, <2>4, <2>5
      <3>3. prompt' = <<t, at'[t]>>
        BY <2>1, <3>1, <3>2 DEF Update
      <3>4. \A i \in DOMAIN status' : status'[i].kind # "fail"
        BY <1>4, <2>1, <2>2, <2>4, <2>5
      <3>5. \A u \in Thread : /\ pc[u] = "answered" \/ (pc[u] = "wait" /\ prompting \in Answer) => FALSE
                              /\ pc[u] \in Stuck => u = t
        BY <1>1, <1>4, <1>5, <2>1, <2>4, <2>5, <3>2 DEF NoFailures, Stuck, ThreadInv
      <3> QED  BY <1>4, <2>1, <3>2, <3>3, <3>4, <3>5 DEF QuestionInv, NoFailures, Stuck, Asking
    <2>6. CASE Head(status).kind # "fail"
      <3>1. prompt' = prompt
        BY <1>g, <2>6 DEF update_status
      <3>2. \A i \in DOMAIN status : status[i].kind = "fail" => i # 1
        BY <2>1, <2>6
      <3>3. NoFailures => NoFailures'
        BY <2>2 DEF NoFailures
      <3>4. ASSUME NEW i \in DOMAIN status', status'[i].kind = "fail"
            PROVE  /\ prompt' = <<>> /\ \A j \in DOMAIN status' : status'[j].kind = "fail" => j = i
                   /\ \E t \in Thread : pc'[t] \in Asking /\ status'[i] = Update("fail", t, at'[t])
        <4>1. i + 1 \in DOMAIN status /\ status[i + 1].kind = "fail"
          BY <2>2, <3>4
        <4>2. /\ prompt = <<>> /\ \A j \in DOMAIN status : status[j].kind = "fail" => j = i + 1
              /\ \E t \in Thread : pc[t] \in Asking /\ status[i + 1] = Update("fail", t, at[t])
          BY <1>4, <4>1
        <4>3. ASSUME NEW j \in DOMAIN status', status'[j].kind = "fail"
              PROVE  j = i
          <5>1. j + 1 = i + 1
            BY <2>2, <4>2, <4>3
          <5> QED  BY <2>1, <3>4, <4>3, <5>1
        <4> QED  BY <2>1, <2>2, <3>1, <3>4, <4>2, <4>3
      <3>5. ASSUME NEW t \in Thread, \E i \in DOMAIN status : status[i] = Update("fail", t, at[t])
            PROVE  \E i \in DOMAIN status' : status'[i] = Update("fail", t, at'[t])
        <4>1. PICK i \in DOMAIN status : status[i] = Update("fail", t, at[t])
          BY <3>5
        <4>2. i # 1
          BY <3>2, <4>1 DEF Update
        <4> QED  BY <2>1, <2>3, <4>1, <4>2
      <3>6. ASSUME NEW t \in Thread, ~Hasty',
                   pc'[t] \in {"failed", "asking"} \/ (pc'[t] = "wait" /\ prompting' = "asked")
            PROVE  prompt' = <<t, at'[t]>> \/ \E i \in DOMAIN status' : status'[i] = Update("fail", t, at'[t])
        BY <1>1, <1>4, <2>1, <3>1, <3>5, <3>6, <1>10
      <3>7. ASSUME NEW t \in Thread
            PROVE  /\ pc'[t] = "wait" /\ prompting' \in Answer =>
                        answered' = <<t, at'[t], prompting', "asked">> /\ prompt' = <<>> /\ NoFailures'
                   /\ pc'[t] = "answered" =>
                        answered' = <<t, at'[t], got'[t], "asked">> /\ prompt' = <<>> /\ NoFailures'
        BY <1>4, <2>1, <3>1, <3>3
      <3>8. prompt' # <<>> => NoFailures' /\ \E t \in Thread : pc'[t] \in Asking /\ prompt' = <<t, at'[t]>>
        BY <1>4, <2>1, <3>1, <3>3
      <3>9. /\ prompting' = "asked" => \E t \in Thread : pc'[t] = "wait"
            /\ \A t \in Thread : pc'[t] = "wait" => prompting' # "free"
        BY <1>4, <2>1
      <3> QED  BY <3>4, <3>6, <3>7, <3>8, <3>9 DEF QuestionInv, Update
    <2> QED  BY <2>5, <2>6
  <1>h. CASE end_drain
    <2>1. Grows
      BY <1>3, <1>h, GrowsFacts DEF end_drain, threadVars
    <2>2. /\ UNCHANGED <<prompting, prompt, answered>>
          /\ \A u \in Thread : /\ pc[u] \in Stuck => pc'[u] = pc[u] /\ at'[u] = at[u] /\ got'[u] = got[u]
                               /\ pc'[u] \in Stuck => pc[u] \in Stuck
      BY <1>2, <1>3, <1>h DEF end_drain, threadVars, Stuck, Asking
    <2> QED  BY <1>1, <1>4, <2>1, <2>2, QuestionFrame
  <1>i. CASE report
    <2>1. Grows
      BY <1>3, <1>i, GrowsFacts DEF report, threadVars
    <2>2. /\ UNCHANGED <<prompting, prompt, answered>>
          /\ \A u \in Thread : /\ pc[u] \in Stuck => pc'[u] = pc[u] /\ at'[u] = at[u] /\ got'[u] = got[u]
                               /\ pc'[u] \in Stuck => pc[u] \in Stuck
      BY <1>2, <1>3, <1>i DEF report, threadVars, Stuck, Asking
    <2> QED  BY <1>1, <1>4, <2>1, <2>2, QuestionFrame
  <1>j. ASSUME NEW answer \in Answer, press(answer)
        PROVE  QuestionInv'
    <2>1. /\ UNCHANGED <<pc, at, got, status>> /\ prompt # <<>> /\ prompting' = answer /\ prompt' = <<>>
          /\ answered' = <<prompt[1], prompt[2], answer, prompting>>
      BY <1>j DEF press, threadVars
    <2>2. PICK t \in Thread : pc[t] \in Asking /\ prompt = <<t, at[t]>>
      BY <1>4, <2>1
    <2>3. answered' = <<t, at[t], answer, prompting>>
      BY <2>1, <2>2
    <2>4. \A u \in Thread : pc[u] \in Stuck => u = t
      BY <1>1, <1>5, <2>2 DEF ThreadInv, Stuck
    <2>5. \A i \in DOMAIN status' : status'[i].kind # "fail"
      BY <1>4, <2>1 DEF NoFailures
    <2>6. pc[t] # "answered"
      BY <2>2 DEF Asking
    <2>7. answer # "free" /\ answer # "asked"
      BY <1>j DEF Answer
    <2>8. pc[t] = "wait" => prompting = "asked"
      BY <1>3, <1>4, <2>1
    <2>9. ~Hasty' => pc[t] = "wait"
      <3>1. ~Hasty' => prompting = "asked"
        <4>1. answered' # <<>> /\ answered'[4] = prompting
          BY <2>3
        <4> QED  BY <1>1, <1>4, <4>1 DEF Hasty
      <3> QED  BY <1>1, <1>4, <2>4, <3>1 DEF Stuck, Asking
    <2> QED  BY <2>1, <2>3, <2>4, <2>5, <2>6, <2>7, <2>8, <2>9 DEF QuestionInv, NoFailures, Stuck, Asking
  <1>k. CASE UNCHANGED vars
    <2>1. Grows
      BY <1>3, <1>k, GrowsFacts DEF vars, threadVars, appVars
    <2>2. /\ UNCHANGED <<prompting, prompt, answered>>
          /\ \A u \in Thread : /\ pc[u] \in Stuck => pc'[u] = pc[u] /\ at'[u] = at[u] /\ got'[u] = got[u]
                               /\ pc'[u] \in Stuck => pc[u] \in Stuck
      BY <1>2, <1>3, <1>k DEF vars, threadVars, appVars, Stuck, Asking
    <2> QED  BY <1>1, <1>4, <2>1, <2>2, QuestionFrame
  <1> QED  BY <1>a, <1>b, <1>c, <1>d, <1>e, <1>f, <1>g, <1>h, <1>i, <1>j, <1>k, Steps

\* The parts of ActiveInv.
Shows(updates, screen) ==
  \A i \in DOMAIN updates : updates[i].kind = "fail" =>
    /\ FetchesBefore(updates, screen["fetch"], i) /\ CooksBefore(updates, screen["cook"], i)
    /\ \A k \in DOMAIN updates : i < k => ~Cooked(updates[k])
Asks(updates, screen, question) ==
  question # <<>> =>
    /\ screen["fetch"] # 0 /\ screen["cook"] # 0
    /\ \A k \in DOMAIN updates : ~Cooked(updates[k])

\* They are kept when an update is sent: the end of a cook not while a failure is asked about,
\* a failure only while its recipe is being cooked.
LEMMA ShowsAppend ==
  ASSUME NEW s \in Seq(Updates), NEW u \in Updates, NEW screen, NEW question,
         Shows(s, screen), Asks(s, screen, question),
         Cooked(u) => question = <<>> /\ \A i \in DOMAIN s : s[i].kind # "fail",
         u.kind = "fail" => /\ FetchesBefore(s, screen["fetch"], Len(s) + 1)
                            /\ CooksBefore(s, screen["cook"], Len(s) + 1)
  PROVE  Shows(Append(s, u), screen) /\ Asks(Append(s, u), screen, question)
  <1>1. /\ Len(s) \in Nat /\ Len(Append(s, u)) = Len(s) + 1
        /\ DOMAIN s = 1..Len(s) /\ DOMAIN Append(s, u) = 1..(Len(s) + 1)
        /\ \A i \in 1..Len(s) : Append(s, u)[i] = s[i]
        /\ Append(s, u)[Len(s) + 1] = u
    BY AppendFacts
  <1>2. ASSUME NEW i \in DOMAIN Append(s, u), Append(s, u)[i].kind = "fail"
        PROVE  /\ FetchesBefore(Append(s, u), screen["fetch"], i) /\ CooksBefore(Append(s, u), screen["cook"], i)
               /\ \A k \in DOMAIN Append(s, u) : i < k => ~Cooked(Append(s, u)[k])
    <2>1. /\ FetchesBefore(s, screen["fetch"], i) /\ CooksBefore(s, screen["cook"], i)
          /\ \A k \in DOMAIN s : i < k => ~Cooked(s[k])
      <3>1. CASE i \in DOMAIN s
        <4>1. s[i].kind = "fail"
          BY <1>1, <1>2, <3>1
        <4> QED  BY <3>1, <4>1 DEF Shows
      <3>2. CASE i = Len(s) + 1
        <4>1. u.kind = "fail" /\ \A k \in DOMAIN s : ~(i < k)
          BY <1>1, <1>2, <3>2
        <4> QED  BY <3>2, <4>1
      <3> QED  BY <1>1, <3>1, <3>2
    <2>2. i \in 1..(Len(s) + 1)
      BY <1>1
    <2>3. FetchesBefore(Append(s, u), screen["fetch"], i) /\ CooksBefore(Append(s, u), screen["cook"], i)
      BY <2>1, <2>2, BeforeStays
    <2>4. ASSUME NEW k \in DOMAIN Append(s, u), i < k
          PROVE  ~Cooked(Append(s, u)[k])
      <3>1. CASE k \in DOMAIN s
        <4>1. Append(s, u)[k] = s[k]
          BY <1>1, <3>1
        <4> QED  BY <2>1, <2>4, <3>1, <4>1
      <3>2. CASE k = Len(s) + 1
        <4>1. i \in DOMAIN s /\ s[i].kind = "fail" /\ Append(s, u)[k] = u
          BY <1>1, <1>2, <2>4, <3>2
        <4> QED  BY <4>1
      <3> QED  BY <1>1, <3>1, <3>2
    <2> QED  BY <2>3, <2>4
  <1>3. ASSUME question # <<>>
        PROVE  /\ screen["fetch"] # 0 /\ screen["cook"] # 0
               /\ \A k \in DOMAIN Append(s, u) : ~Cooked(Append(s, u)[k])
    <2>1. /\ screen["fetch"] # 0 /\ screen["cook"] # 0
          /\ \A k \in DOMAIN s : ~Cooked(s[k])
      BY <1>3 DEF Asks
    <2>2. ASSUME NEW k \in DOMAIN Append(s, u)
          PROVE  ~Cooked(Append(s, u)[k])
      <3>1. CASE k \in DOMAIN s
        BY <1>1, <2>1, <3>1
      <3>2. CASE k = Len(s) + 1
        BY <1>1, <1>3, <3>2
      <3> QED  BY <1>1, <3>1, <3>2
    <2> QED  BY <2>1, <2>2
  <1> QED  BY <1>2, <1>3 DEF Shows, Asks

\* The same of the step that sends it.
LEMMA ShowsSent ==
  ASSUME status \in Seq(Updates), NEW u \in Updates, status' = Append(status, u),
         Shows(status, active), Asks(status, active, prompt),
         Cooked(u) => prompt = <<>> /\ \A i \in DOMAIN status : status[i].kind # "fail",
         u.kind = "fail" => /\ FetchesBefore(status, active["fetch"], Len(status) + 1)
                            /\ CooksBefore(status, active["cook"], Len(status) + 1)
  PROVE  Shows(status', active) /\ Asks(status', active, prompt)
  BY ShowsAppend

\* A step that sends and shows nothing.
LEMMA ActiveFrame ==
  ASSUME ActiveInv, UNCHANGED <<status, active, prompt, dumped, answered>>, Nonstop' = Nonstop, Failing' = Failing,
         at'["fetch"] = at["fetch"], pc'["cook"] \in Working => pc["cook"] \in Working
  PROVE  ActiveInv'
  <1>1. Left' = Left
    BY DEF Left
  <1> QED  BY <1>1 DEF ActiveInv, FetchesBefore, CooksBefore

\* When the user can leave, both logs have an active job.
LEMMA ActiveStep ==
  ASSUME IInv, [Next]_<<vars, setup>>
  PROVE  ActiveInv'
  <1>1. /\ TypeInv /\ ThreadInv /\ OrderInv /\ QuestionInv /\ ActiveInv /\ setup' = setup
        /\ Recipes' = Recipes /\ Recipe' = Recipe /\ Nonstop' = Nonstop /\ Failing' = Failing
        /\ Apart' = Apart /\ Alone' = Alone
    BY Steps, SetupStays DEF IInv
  <1>2. /\ Recipes \in Nat \ {0} /\ Recipe = 1..Recipes /\ Thread = {"fetch", "cook"}
        /\ Failing \subseteq Thread /\ 0 \notin Recipe
    BY <1>1, SetupFacts
  <1>3. /\ pc \in [Thread -> {"next", "busy", "handed", "failed", "asking", "wait", "answered", "done"}]
        /\ at \in [Thread -> 0..Recipes] /\ work \in Seq(Recipe) /\ status \in Seq(Updates)
        /\ active \in [Thread -> 0..Recipes] /\ view \in Thread /\ (prompt = <<>> \/ prompt \in Thread \X Recipe)
    BY <1>1 DEF TypeInv, TypeOK
  <1> DEFINE Kept == /\ at'["fetch"] # 0 => FetchesBefore(status', active'["fetch"], Len(status') + 1)
                     /\ pc'["cook"] \in Working => CooksBefore(status', active'["cook"], Len(status') + 1)
                     /\ Shows(status', active') /\ Asks(status', active', prompt')
                     /\ Left' => dumped'
  <1> SUFFICES ASSUME ~Nonstop, "fetch" \notin Failing
               PROVE  Kept
    BY <1>1 DEF ActiveInv, Shows, Asks, FetchesBefore, CooksBefore
  <1>4. /\ ~Nonstop /\ "fetch" \notin Failing
        /\ at["fetch"] # 0 => FetchesBefore(status, active["fetch"], Len(status) + 1)
        /\ pc["cook"] \in Working => CooksBefore(status, active["cook"], Len(status) + 1)
        /\ Shows(status, active) /\ Asks(status, active, prompt)
        /\ Left => dumped
    BY <1>1 DEF ActiveInv, Shows, Asks
  <1>5. dumped' = dumped /\ answered' = answered => (Left' => dumped')
    BY <1>4 DEF Left
  <1>6. /\ prompt # <<>> => pc["cook"] \in Asking
        /\ \A i \in DOMAIN status : status[i].kind = "fail" => pc["cook"] \in Asking
    <2>1. Alone
      BY <1>2, <1>4 DEF Alone
    <2>2. \A t \in Thread : pc[t] \in Asking => t = "cook"
      BY <1>1, <1>2, <1>4 DEF ThreadInv, Stuck
    <2> QED  BY <1>1, <2>1, <2>2 DEF QuestionInv
  <1>a. CASE start_fetch
    <2>1. /\ UNCHANGED <<active, prompt, dumped, answered>> /\ pc'["cook"] = pc["cook"]
      BY <1>2, <1>3, <1>a DEF start_fetch, Finish, appVars
    <2>2. PICK u \in Updates : /\ status' = Append(status, u) /\ ~Cooked(u) /\ u.kind # "fail"
                               /\ (u.kind = "start" /\ u.thread = "fetch") \/ at["fetch"] # 0
      <3>1. CASE at["fetch"] = Recipes
        <4>1. status' = Append(status, Update("finished", "fetch", 0)) /\ at["fetch"] # 0
          BY <1>2, <1>a, <3>1 DEF start_fetch, Finish, Send
        <4>2. /\ Update("finished", "fetch", 0) \in Updates /\ ~Cooked(Update("finished", "fetch", 0))
              /\ Update("finished", "fetch", 0).kind # "fail"
          BY <1>2, EndFacts DEF Cooked
        <4> QED  BY <4>1, <4>2
      <3>2. CASE at["fetch"] # Recipes
        <4>1. at["fetch"] + 1 \in Recipe /\ status' = Append(status, Update("start", "fetch", at["fetch"] + 1))
          BY <1>2, <1>3, <1>a, <3>2 DEF start_fetch, Send
        <4>2. /\ Update("start", "fetch", at["fetch"] + 1) \in Updates
              /\ Update("start", "fetch", at["fetch"] + 1).kind = "start"
              /\ Update("start", "fetch", at["fetch"] + 1).thread = "fetch"
          BY <1>2, <4>1, UpdateFacts
        <4> QED  BY <4>1, <4>2 DEF Cooked
      <3> QED  BY <3>1, <3>2
    <2>3. Shows(status', active) /\ Asks(status', active, prompt)
      BY <1>3, <1>4, <2>2, ShowsSent
    <2>4. Len(status') + 1 = Len(status) + 2
      BY <1>3, <2>2, SentFacts
    <2>5. FetchesBefore(status', active["fetch"], Len(status') + 1)
      BY <1>3, <1>4, <2>2, <2>4, BeforeSent
    <2>6. pc'["cook"] \in Working => CooksBefore(status', active["cook"], Len(status') + 1)
      BY <1>3, <1>4, <2>1, <2>2, <2>4, BeforeSent
    <2> QED  BY <1>4, <1>5, <2>1, <2>3, <2>5, <2>6
  <1>b. CASE start_cook
    <2>1. /\ UNCHANGED <<active, prompt, dumped, answered>> /\ at'["fetch"] = at["fetch"]
      BY <1>2, <1>3, <1>b DEF start_cook, Finish, appVars
    <2>2. PICK u \in Updates : /\ status' = Append(status, u) /\ ~Cooked(u) /\ u.kind # "fail"
                               /\ Starts(u) \/ pc'["cook"] \notin Working
      <3>1. CASE work # <<>> /\ Send(Update("start", "cook", Head(work)))
        <4>1. Head(work) \in Recipe
          BY <1>3, <3>1, TailFacts
        <4> QED  BY <1>2, <3>1, <4>1, UpdateFacts DEF Send, Cooked, Starts
      <3>2. CASE Finish("cook")
        <4>1. pc'["cook"] \notin Working
          BY <1>2, <1>3, <3>2 DEF Finish, Working, Stuck, Asking
        <4> QED  BY <1>2, <3>2, <4>1, EndFacts DEF Finish, Send, Cooked
      <3> QED  BY <1>b, <3>1, <3>2 DEF start_cook
    <2>3. Shows(status', active) /\ Asks(status', active, prompt)
      BY <1>3, <1>4, <2>2, ShowsSent
    <2>4. Len(status') + 1 = Len(status) + 2
      BY <1>3, <2>2, SentFacts
    <2>5. at'["fetch"] # 0 => FetchesBefore(status', active["fetch"], Len(status') + 1)
      BY <1>3, <1>4, <2>1, <2>2, <2>4, BeforeSent
    <2>6. pc'["cook"] \in Working => CooksBefore(status', active["cook"], Len(status') + 1)
      BY <1>3, <2>2, <2>4, BeforeSent
    <2> QED  BY <1>4, <1>5, <2>1, <2>3, <2>5, <2>6
  <1>c. CASE fetched
    <2>1. /\ pc["fetch"] = "busy" /\ "fetch" \in Thread /\ at["fetch"] \in Recipe
          /\ pc'["cook"] = pc["cook"] /\ UNCHANGED <<at, active, prompt, dumped, answered>>
      BY <1>1, <1>2, <1>3, <1>c DEF fetched, appVars, ThreadInv, Working
    <2> DEFINE ok == Update("ok", "fetch", at["fetch"])
               end == Update("finished", "fetch", 0)
               mid == Append(status, ok)
    <2>2. /\ ok \in Updates /\ ~Cooked(ok) /\ ok.kind # "fail"
          /\ end \in Updates /\ ~Cooked(end) /\ end.kind # "fail"
      BY <2>1, UpdateFacts, EndFacts DEF Cooked
    <2>3. mid \in Seq(Updates) /\ Len(mid) + 1 = Len(status) + 2 /\ Len(mid) \in Nat
      BY <1>3, <2>2, AppendFacts
    <2>4. /\ Shows(mid, active) /\ Asks(mid, active, prompt)
          /\ FetchesBefore(mid, active["fetch"], Len(mid) + 1)
          /\ pc["cook"] \in Working => CooksBefore(mid, active["cook"], Len(mid) + 1)
      <3>1. Shows(mid, active) /\ Asks(mid, active, prompt)
        BY <1>3, <1>4, <2>2, ShowsAppend
      <3>2. FetchesBefore(mid, active["fetch"], Len(status) + 2)
        BY <1>2, <1>3, <1>4, <2>1, <2>2, BeforeSent
      <3>3. pc["cook"] \in Working => CooksBefore(mid, active["cook"], Len(status) + 2)
        BY <1>3, <1>4, <2>2, BeforeSent
      <3> QED  BY <2>3, <3>1, <3>2, <3>3
    <2>5. CASE pc["cook"] # "done"
      <3>1. status' = mid
        BY <1>c, <2>5 DEF fetched, Send
      <3> HIDE DEF mid
      <3> QED  BY <1>4, <1>5, <2>1, <2>4, <3>1
    <2>6. CASE pc["cook"] = "done"
      <3>1. status' = Append(mid, end)
        BY <1>3, <1>c, <2>2, <2>6, SendTwo DEF fetched
      <3> HIDE DEF mid, end
      <3>2. Len(status') + 1 = Len(mid) + 2
        BY <2>2, <2>3, <3>1, AppendFacts
      <3>3. Shows(status', active) /\ Asks(status', active, prompt)
        BY <2>2, <2>3, <2>4, <3>1, ShowsAppend
      <3>4. FetchesBefore(status', active["fetch"], Len(status') + 1)
        BY <2>2, <2>3, <2>4, <3>1, <3>2, BeforeSent
      <3>5. pc'["cook"] \in Working => CooksBefore(status', active["cook"], Len(status') + 1)
        BY <2>1, <2>6 DEF Working, Stuck, Asking
      <3> QED  BY <1>4, <1>5, <2>1, <3>3, <3>4, <3>5
    <2> QED  BY <2>5, <2>6
  <1>d. CASE cooked
    <2>1. /\ pc["cook"] = "busy" /\ "cook" \in Thread /\ at["cook"] \in Recipe /\ pc'["cook"] = "handed"
          /\ UNCHANGED <<at, active, prompt, dumped, answered>>
          /\ status' = Append(status, Update("ok", "cook", at["cook"]))
      BY <1>1, <1>2, <1>3, <1>d DEF cooked, appVars, ThreadInv, Working, Send
    <2>2. /\ Update("ok", "cook", at["cook"]) \in Updates /\ Update("ok", "cook", at["cook"]).kind # "fail"
      BY <2>1, UpdateFacts
    <2>3. prompt = <<>> /\ \A i \in DOMAIN status : status[i].kind # "fail"
      <3>1. pc["cook"] \notin Asking
        BY <2>1 DEF Asking
      <3> QED  BY <1>6, <3>1
    <2>4. Shows(status', active) /\ Asks(status', active, prompt)
      BY <1>3, <1>4, <2>1, <2>2, <2>3, ShowsSent
    <2>5. Len(status') + 1 = Len(status) + 2
      BY <1>3, <2>1, <2>2, SentFacts
    <2>6. at'["fetch"] # 0 => FetchesBefore(status', active["fetch"], Len(status') + 1)
      BY <1>3, <1>4, <2>1, <2>2, <2>5, BeforeSent
    <2>7. pc'["cook"] \notin Working
      BY <2>1 DEF Working, Stuck, Asking
    <2> QED  BY <1>4, <1>5, <2>1, <2>4, <2>6, <2>7
  <1>e. ASSUME NEW t \in Thread,
               look_for_exit(t) \/ fails(t) \/ skip_in_nonstop(t) \/ wait_other_prompt(t)
                 \/ ask(t) \/ load_answer(t) \/ take_answer(t) \/ switch_view(t)
        PROVE  Kept
    <2>1. CASE look_for_exit(t)
      <3>1. /\ UNCHANGED <<status, active, prompt, dumped, answered>> /\ at'["fetch"] = at["fetch"]
            /\ pc'["cook"] \in Working => pc["cook"] \in Working
        BY <1>2, <1>3, <1>4, <1>e, <2>1 DEF look_for_exit, appVars, Working, Stuck, Asking
      <3> QED  BY <1>1, <3>1, ActiveFrame DEF ActiveInv, Shows, Asks, FetchesBefore, CooksBefore
    <2>2. CASE fails(t)
      <3>1. /\ t = "cook" /\ pc["cook"] = "busy" /\ at["cook"] \in Recipe
            /\ UNCHANGED <<at, active, prompt, dumped, answered>>
            /\ status' = Append(status, Update("fail", "cook", at["cook"]))
        BY <1>1, <1>2, <1>3, <1>4, <1>e, <2>2 DEF fails, appVars, ThreadInv, Working, Send
      <3>2. /\ Update("fail", "cook", at["cook"]) \in Updates /\ ~Cooked(Update("fail", "cook", at["cook"]))
        BY <1>e, <3>1, UpdateFacts DEF Cooked
      <3>3. FetchesBefore(status, active["fetch"], Len(status) + 1)
        <4>1. at["fetch"] # 0
          BY <1>1, <1>2, <1>3, <3>1 DEF OrderInv
        <4> QED  BY <1>4, <4>1
      <3>4. CooksBefore(status, active["cook"], Len(status) + 1)
        BY <1>4, <3>1 DEF Working
      <3>5. Shows(status', active) /\ Asks(status', active, prompt)
        BY <1>3, <1>4, <3>1, <3>2, <3>3, <3>4, ShowsSent
      <3>6. Len(status') + 1 = Len(status) + 2
        BY <1>3, <3>1, <3>2, SentFacts
      <3>7. /\ FetchesBefore(status', active["fetch"], Len(status') + 1)
            /\ CooksBefore(status', active["cook"], Len(status') + 1)
        BY <1>3, <3>1, <3>2, <3>3, <3>4, <3>6, BeforeSent
      <3> QED  BY <1>4, <1>5, <3>1, <3>5, <3>7
    <2>3. CASE skip_in_nonstop(t)
      BY <1>4, <2>3 DEF skip_in_nonstop
    <2>4. CASE wait_other_prompt(t)
      <3>1. /\ UNCHANGED <<status, active, prompt, dumped, answered>> /\ at'["fetch"] = at["fetch"]
            /\ pc'["cook"] \in Working => pc["cook"] \in Working
        BY <1>2, <1>3, <1>4, <1>e, <2>4 DEF wait_other_prompt, appVars, Working, Stuck, Asking
      <3> QED  BY <1>1, <3>1, ActiveFrame DEF ActiveInv, Shows, Asks, FetchesBefore, CooksBefore
    <2>5. CASE ask(t)
      <3>1. /\ UNCHANGED <<status, active, prompt, dumped, answered>> /\ at'["fetch"] = at["fetch"]
            /\ pc'["cook"] \in Working => pc["cook"] \in Working
        BY <1>2, <1>3, <1>4, <1>e, <2>5 DEF ask, appVars, Working, Stuck, Asking
      <3> QED  BY <1>1, <3>1, ActiveFrame DEF ActiveInv, Shows, Asks, FetchesBefore, CooksBefore
    <2>6. CASE load_answer(t)
      <3>1. /\ UNCHANGED <<status, active, prompt, dumped, answered>> /\ at'["fetch"] = at["fetch"]
            /\ pc'["cook"] \in Working => pc["cook"] \in Working
        BY <1>2, <1>3, <1>4, <1>e, <2>6 DEF load_answer, appVars, Working, Stuck, Asking
      <3> QED  BY <1>1, <3>1, ActiveFrame DEF ActiveInv, Shows, Asks, FetchesBefore, CooksBefore
    <2>7. CASE take_answer(t)
      <3>1. /\ t = "cook" /\ pc["cook"] = "answered" /\ at["cook"] \in Recipe
            /\ UNCHANGED <<at, active, prompt, dumped, answered>>
            /\ \/ pc' = [pc EXCEPT !["cook"] = "next"] /\ status' = status
               \/ pc' = [pc EXCEPT !["cook"] = "busy"] /\ status' = Append(status, Update("start", "cook", at["cook"]))
               \/ pc' = [pc EXCEPT !["cook"] = "done"] /\ status' = Append(status, Update("finished", "cook", 0))
        <4>1. t \in Failing
          BY <1>1, <1>e, <2>7, TakeCases DEF ThreadInv, Stuck
        <4>2. t = "cook"
          BY <1>2, <1>4, <1>e, <4>1
        <4> QED  BY <1>1, <1>e, <2>7, <4>2, TakeCases DEF appVars
      <3>2. CASE pc' = [pc EXCEPT !["cook"] = "next"] /\ status' = status
        <4>1. pc'["cook"] \notin Working
          BY <1>2, <1>3, <3>2 DEF Working, Stuck, Asking
        <4>2. UNCHANGED <<status, active, prompt, dumped, answered>> /\ at'["fetch"] = at["fetch"]
          BY <3>1, <3>2
        <4> QED  BY <1>1, <4>1, <4>2, ActiveFrame DEF ActiveInv, Shows, Asks, FetchesBefore, CooksBefore
      <3>3. CASE status' # status
        <4>1. PICK u \in Updates : /\ status' = Append(status, u) /\ ~Cooked(u) /\ u.kind # "fail"
                                   /\ Starts(u) \/ pc'["cook"] \notin Working
          <5>1. /\ Update("start", "cook", at["cook"]) \in Updates /\ Starts(Update("start", "cook", at["cook"]))
                /\ ~Cooked(Update("start", "cook", at["cook"])) /\ Update("start", "cook", at["cook"]).kind # "fail"
                /\ Update("finished", "cook", 0) \in Updates /\ ~Cooked(Update("finished", "cook", 0))
                /\ Update("finished", "cook", 0).kind # "fail"
            BY <1>e, <3>1, UpdateFacts, EndFacts DEF Starts, Cooked
          <5>2. pc' = [pc EXCEPT !["cook"] = "done"] => pc'["cook"] \notin Working
            BY <1>2, <1>3 DEF Working, Stuck, Asking
          <5> QED  BY <3>1, <3>3, <5>1, <5>2
        <4>2. Shows(status', active) /\ Asks(status', active, prompt)
          BY <1>3, <1>4, <4>1, ShowsSent
        <4>3. Len(status') + 1 = Len(status) + 2
          BY <1>3, <4>1, SentFacts
        <4>4. at'["fetch"] # 0 => FetchesBefore(status', active["fetch"], Len(status') + 1)
          BY <1>3, <1>4, <3>1, <4>1, <4>3, BeforeSent
        <4>5. pc'["cook"] \in Working => CooksBefore(status', active["cook"], Len(status') + 1)
          BY <1>3, <4>1, <4>3, BeforeSent
        <4> QED  BY <1>4, <1>5, <3>1, <4>2, <4>4, <4>5
      <3>4. CASE pc' # [pc EXCEPT !["cook"] = "next"] /\ status' = status
        <4>1. Len(status') = Len(status) + 1
          <5>1. /\ Update("start", "cook", at["cook"]) \in Updates /\ Update("finished", "cook", 0) \in Updates
            BY <1>e, <3>1, UpdateFacts, EndFacts
          <5> QED  BY <1>3, <3>1, <3>4, <5>1, SentFacts
        <4> QED  BY <1>3, <3>4, <4>1, LenProperties
      <3> QED  BY <3>1, <3>2, <3>3, <3>4
    <2>8. CASE switch_view(t)
      <3>1. /\ UNCHANGED <<status, active, prompt, dumped, answered>> /\ at'["fetch"] = at["fetch"]
            /\ pc'["cook"] \in Working => pc["cook"] \in Working
        BY <1>2, <1>3, <1>4, <1>e, <2>8 DEF switch_view, threadVars, Working, Stuck, Asking
      <3> QED  BY <1>1, <3>1, ActiveFrame DEF ActiveInv, Shows, Asks, FetchesBefore, CooksBefore
    <2> QED  BY <1>e, <2>1, <2>2, <2>3, <2>4, <2>5, <2>6, <2>7, <2>8
  <1>f. CASE end_input
    <2>1. /\ UNCHANGED <<status, active, prompt, dumped, answered>> /\ at'["fetch"] = at["fetch"]
          /\ pc'["cook"] \in Working => pc["cook"] \in Working
      BY <1>2, <1>3, <1>4, <1>f DEF end_input, threadVars, Working, Stuck, Asking
    <2> QED  BY <1>1, <2>1, ActiveFrame DEF ActiveInv, Shows, Asks, FetchesBefore, CooksBefore
  <1>g. CASE update_status
    <2>1. /\ UNCHANGED <<pc, at, dumped, answered>> /\ status' = Tail(status) /\ status # <<>>
          /\ Len(status) \in Nat \ {0} /\ Len(status') + 1 = Len(status)
          /\ DOMAIN status = 1..Len(status) /\ DOMAIN status' = 1..(Len(status) - 1)
          /\ Head(status) = status[1] /\ Head(status) \in Updates
          /\ \A i \in 1..(Len(status) - 1) : status'[i] = status[i + 1]
      BY <1>3, <1>g, TailFacts DEF update_status, threadVars
    <2>2. /\ Head(status).thread \in Thread
          /\ Head(status).kind # "finished" => Head(status).recipe # 0
      BY <1>2, <2>1 DEF Updates
    <2>3. /\ IF Head(status).kind = "start" /\ Head(status).thread = "fetch"
             THEN active'["fetch"] # 0 ELSE active'["fetch"] = active["fetch"]
          /\ Starts(Head(status)) => active'["cook"] # 0
          /\ ~Starts(Head(status)) /\ ~Cooked(Head(status)) => active'["cook"] = active["cook"]
      <3>1. CASE Head(status).kind = "finished"
        BY <1>g, <3>1 DEF update_status, Starts, Cooked
      <3>2. CASE Head(status).kind = "start"
        BY <1>2, <1>3, <1>g, <2>2, <3>2 DEF update_status, Starts, Cooked
      <3>3. CASE Head(status).kind = "ok"
        BY <1>2, <1>3, <1>g, <2>2, <3>3 DEF update_status, Starts, Cooked
      <3>4. CASE Head(status).kind = "fail"
        BY <1>g, <3>4 DEF update_status, Starts, Cooked
      <3> QED  BY <2>1, <3>1, <3>2, <3>3, <3>4 DEF Updates
    <2>4. ASSUME NEW n \in Nat \ {0}
          PROVE  /\ FetchesBefore(status, active["fetch"], n + 1) => FetchesBefore(status', active'["fetch"], n)
                 /\ CooksBefore(status, active["cook"], n + 1) => CooksBefore(status', active'["cook"], n)
      BY <1>3, <2>1, <2>3, BeforeNext
    <2>5. at'["fetch"] # 0 => FetchesBefore(status', active'["fetch"], Len(status') + 1)
      BY <1>4, <2>1, <2>4
    <2>6. pc'["cook"] \in Working => CooksBefore(status', active'["cook"], Len(status') + 1)
      BY <1>4, <2>1, <2>4
    <2>7. \A i \in DOMAIN status' : /\ i \in Nat \ {0} /\ i + 1 \in DOMAIN status /\ status'[i] = status[i + 1]
      BY <2>1
    <2>8. Shows(status', active')
      <3> SUFFICES ASSUME NEW i \in DOMAIN status', status'[i].kind = "fail"
                   PROVE  /\ FetchesBefore(status', active'["fetch"], i) /\ CooksBefore(status', active'["cook"], i)
                          /\ \A k \in DOMAIN status' : i < k => ~Cooked(status'[k])
        BY DEF Shows
      <3>1. /\ FetchesBefore(status, active["fetch"], i + 1) /\ CooksBefore(status, active["cook"], i + 1)
            /\ \A k \in DOMAIN status : i + 1 < k => ~Cooked(status[k])
        BY <1>4, <2>7 DEF Shows
      <3>2. ASSUME NEW k \in DOMAIN status', i < k
            PROVE  ~Cooked(status'[k])
        <4>1. i + 1 < k + 1 /\ k + 1 \in DOMAIN status /\ status'[k] = status[k + 1]
          BY <2>7, <3>2
        <4> QED  BY <3>1, <4>1
      <3> QED  BY <2>4, <2>7, <3>1, <3>2
    <2>9. Asks(status', active', prompt')
      <3>1. CASE Head(status).kind = "fail"
        <4>1. /\ FetchesBefore(status, active["fetch"], 1) /\ CooksBefore(status, active["cook"], 1)
              /\ \A k \in DOMAIN status : 1 < k => ~Cooked(status[k])
          BY <1>4, <2>1, <3>1 DEF Shows
        <4>2. \A j \in DOMAIN status : ~(j < 1)
          BY <2>1
        <4>3. active["fetch"] # 0 /\ active["cook"] # 0
          BY <4>1, <4>2 DEF FetchesBefore, CooksBefore
        <4>4. active' = active
          BY <1>g, <3>1 DEF update_status
        <4>5. ASSUME NEW k \in DOMAIN status'
              PROVE  ~Cooked(status'[k])
          <5>1. 1 < k + 1 /\ k + 1 \in DOMAIN status /\ status'[k] = status[k + 1]
            BY <2>7
          <5> QED  BY <4>1, <5>1
        <4> QED  BY <4>3, <4>4, <4>5 DEF Asks
      <3>2. CASE Head(status).kind # "fail" /\ prompt # <<>>
        <4>1. /\ active["fetch"] # 0 /\ active["cook"] # 0
              /\ \A k \in DOMAIN status : ~Cooked(status[k])
          BY <1>4, <3>2 DEF Asks
        <4>2. ~Cooked(Head(status))
          BY <2>1, <4>1
        <4>3. active'["fetch"] # 0 /\ active'["cook"] # 0
          BY <2>3, <4>1, <4>2
        <4>4. \A k \in DOMAIN status' : ~Cooked(status'[k])
          BY <2>7, <4>1
        <4> QED  BY <4>3, <4>4 DEF Asks
      <3>3. CASE Head(status).kind # "fail" /\ prompt = <<>>
        <4>1. prompt' = <<>>
          BY <1>g, <3>3 DEF update_status
        <4> QED  BY <4>1 DEF Asks
      <3> QED  BY <3>1, <3>2, <3>3
    <2> QED  BY <1>4, <1>5, <2>1, <2>5, <2>6, <2>8, <2>9
  <1>h. CASE end_drain
    <2>1. /\ UNCHANGED <<status, active, prompt, dumped, answered>> /\ at'["fetch"] = at["fetch"]
          /\ pc'["cook"] \in Working => pc["cook"] \in Working
      BY <1>2, <1>3, <1>4, <1>h DEF end_drain, threadVars, Working, Stuck, Asking
    <2> QED  BY <1>1, <2>1, ActiveFrame DEF ActiveInv, Shows, Asks, FetchesBefore, CooksBefore
  <1>i. CASE report
    <2>1. /\ UNCHANGED <<status, active, prompt, dumped, answered>> /\ at'["fetch"] = at["fetch"]
          /\ pc'["cook"] \in Working => pc["cook"] \in Working
      BY <1>2, <1>3, <1>4, <1>i DEF report, threadVars, Working, Stuck, Asking
    <2> QED  BY <1>1, <2>1, ActiveFrame DEF ActiveInv, Shows, Asks, FetchesBefore, CooksBefore
  <1>j. ASSUME NEW answer \in Answer, press(answer)
        PROVE  Kept
    <2>1. /\ UNCHANGED <<pc, at, status, active>> /\ prompt # <<>> /\ prompt' = <<>>
          /\ answered' = <<prompt[1], prompt[2], answer, prompting>>
          /\ answer = "exit" => dumped' = (active[view] # 0)
      BY <1>j DEF press, threadVars
    <2>2. active[view] # 0
      BY <1>2, <1>3, <1>4, <2>1 DEF Asks
    <2>3. Left' => dumped'
      <3>1. <<prompt[1], prompt[2], answer, prompting>>[3] = answer
        BY <1>3, <1>j, <2>1, AnswerTo
      <3>2. Left' => answer = "exit"
        BY <2>1, <3>1 DEF Left
      <3>3. answer = "exit" => dumped'
        BY <2>1, <2>2
      <3> QED  BY <3>2, <3>3
    <2> QED  BY <1>4, <2>1, <2>3 DEF Asks, Shows
  <1>k. CASE UNCHANGED vars
    <2>1. /\ UNCHANGED <<status, active, prompt, dumped, answered>> /\ at'["fetch"] = at["fetch"]
          /\ pc'["cook"] \in Working => pc["cook"] \in Working
      BY <1>2, <1>3, <1>4, <1>k DEF vars, threadVars, appVars, Working, Stuck, Asking
    <2> QED  BY <1>1, <2>1, ActiveFrame DEF ActiveInv, Shows, Asks, FetchesBefore, CooksBefore
  <1> QED  BY <1>a, <1>b, <1>c, <1>d, <1>e, <1>f, <1>g, <1>h, <1>i, <1>j, <1>k, Steps

\* Once there is a result, nothing happens any more.
LEMMA Quiescent ==
  ASSUME TypeInv, [Next]_<<vars, setup>>, phase = "returned", \A t \in Thread : pc[t] = "done"
  PROVE  UNCHANGED vars
  <1>1. "fetch" \in Thread /\ "cook" \in Thread
    BY DEF Thread
  <1>2. pc["fetch"] = "done" /\ pc["cook"] = "done"
    BY <1>1
  <1>3. ~start_fetch /\ ~start_cook /\ ~fetched /\ ~cooked
    BY <1>2 DEF start_fetch, start_cook, fetched, cooked
  <1>4. \A t \in Thread :
          /\ ~look_for_exit(t) /\ ~fails(t) /\ ~skip_in_nonstop(t) /\ ~wait_other_prompt(t)
          /\ ~ask(t) /\ ~load_answer(t) /\ ~take_answer(t) /\ ~switch_view(t)
    BY DEF look_for_exit, fails, skip_in_nonstop, wait_other_prompt, ask, load_answer, take_answer, switch_view
  <1>5. ~end_input /\ ~update_status /\ ~end_drain /\ ~report /\ \A answer \in Answer : ~press(answer)
    BY DEF end_input, update_status, end_drain, report, press
  <1> QED  BY <1>3, <1>4, <1>5, Steps

\* Only the report makes a result.
LEMMA OnlyReport ==
  ASSUME [Next]_<<vars, setup>>, ~report
  PROVE  result' = result
  BY Steps DEF start_fetch, start_cook, fetched, cooked, look_for_exit, fails, skip_in_nonstop,
     wait_other_prompt, ask, load_answer, take_answer, switch_view, end_input, update_status,
     end_drain, press, vars, appVars

\* The report is of what became of the recipes.
LEMMA ResultStep ==
  ASSUME IInv, [Next]_<<vars, setup>>
  PROVE  ResultInv'
  <1>1. /\ TypeInv /\ ThreadInv /\ OrderInv /\ LeftInv /\ EndInv /\ TruthInv /\ ActiveInv /\ ResultInv
        /\ setup' = setup /\ Recipe' = Recipe /\ Nonstop' = Nonstop /\ Failing' = Failing /\ Apart' = Apart
    BY Steps, SetupStays DEF IInv
  <1>2. Recipes \in Nat \ {0} /\ Recipe = 1..Recipes /\ Thread = {"fetch", "cook"}
    BY <1>1, SetupFacts
  <1>3. CASE result # "none"
    <2>1. UNCHANGED vars
      BY <1>1, <1>3, Quiescent DEF ResultInv, LeftInv
    <2>2. UNCHANGED <<result, phase, shown, outcome, staged, answered>>
      BY <2>1 DEF vars, threadVars, appVars
    <2>3. Left' = Left
      BY <2>2 DEF Left
    <2> QED  BY <1>1, <2>2, <2>3 DEF ResultInv, ReportsTheOutcome
  <1>4. CASE result = "none" /\ ~report
    BY <1>4, OnlyReport DEF ResultInv, ReportsTheOutcome
  <1>5. CASE result = "none" /\ report
    <2>1. /\ phase = "join" /\ phase' = "returned" /\ \A t \in Thread : pc[t] = "done"
          /\ UNCHANGED <<shown, outcome, staged, answered, dumped>>
          /\ result' \in {"failed", "reported", "unreachable"}
          /\ result' = "unreachable" => ~dumped /\ \E r \in Recipe : shown[r] \notin {"Done", "Failed"}
      BY <1>5 DEF report, threadVars
    <2>2. Left' = Left
      BY <2>1 DEF Left
    <2>3. ASSUME ~Left, NEW r \in Recipe
          PROVE  /\ shown[r] \in {"Done", "Failed"}
                 /\ shown[r] = IF outcome[r] = "cooked" THEN "Done" ELSE "Failed"
                 /\ Apart => r \notin staged
      <3>1. cook_complete /\ status = <<>>
        BY <1>1, <2>1, <2>3 DEF LeftInv, EndInv
      <3>2. at["fetch"] = Recipes /\ work = <<>>
        BY <1>1, <1>2, <2>1, <2>3 DEF EndInv
      <3>3. pc["fetch"] \notin Working /\ pc["cook"] \notin Working
        BY <1>2, <2>1 DEF Working, Stuck, Asking
      <3>4. Fetched(r)
        BY <1>2, <3>2, <3>3 DEF Fetched
      <3>5. ~Given(r)
        <4>1. DOMAIN work = {}
          BY <3>2
        <4> QED  BY <3>3, <4>1 DEF Given
      <3>6. Settled(r)
        BY <1>1, <2>3, <3>4, <3>5 DEF TruthInv
      <3>7. \A label : Says(r, label) => shown[r] = label
        <4>1. DOMAIN status = {}
          BY <3>1
        <4> QED  BY <4>1 DEF Says, Heard
      <3> QED  BY <3>6, <3>7 DEF Settled, FailedSeen, CookedSeen
    <2>4. result' = "unreachable" => Left /\ ("fetch" \in Failing \/ Nonstop)
      <3>1. Left /\ ~dumped => "fetch" \in Failing \/ Nonstop
        BY <1>1 DEF ActiveInv
      <3> QED  BY <2>1, <2>3, <3>1
    <2>5. ReportsTheOutcome'
      BY <1>1, <2>1, <2>2, <2>3, <2>4 DEF ReportsTheOutcome
    <2> QED  BY <2>1, <2>5 DEF ResultInv
  <1> QED  BY <1>3, <1>4, <1>5

-----------------------------------------------------------------------------
(* The theorems. *)

\* Every behaviour starts in the invariant.
LEMMA InitInv == Init => IInv
  <1> SUFFICES ASSUME Init
               PROVE  IInv
    OBVIOUS
  <1>1. /\ setup \in Setups /\ status = <<>> /\ work = <<>> /\ prompt = <<>> /\ answered = <<>>
        /\ pc = [t \in Thread |-> "next"] /\ at = [t \in Thread |-> 0] /\ got = [t \in Thread |-> "none"]
        /\ prompting = "free" /\ phase = "input" /\ running = TRUE /\ cook_complete = FALSE /\ result = "none"
        /\ shown = [r \in Recipe |-> "Pending"] /\ outcome = [r \in Recipe |-> "none"]
    BY DEF Init
  <1>2. /\ Recipes \in Nat \ {0} /\ Recipe = 1..Recipes /\ Thread = {"fetch", "cook"}
    BY <1>1, TuiAssumption DEF Recipes, Recipe, Thread
  <1>3. /\ DOMAIN work = {} /\ DOMAIN status = {} /\ work \in Seq(Recipe) /\ status \in Seq(Updates)
    BY <1>1
  <1>4. pc["fetch"] = "next" /\ pc["cook"] = "next" /\ at["fetch"] = 0 /\ at["cook"] = 0
        /\ \A t \in Thread : pc[t] = "next"
    BY <1>1, <1>2
  <1>5. "next" \notin Working /\ "next" \notin Stuck /\ "next" \notin Asking
    BY DEF Working, Stuck, Asking
  <1>6. TypeInv
    <2>1. /\ pc \in [Thread -> {"next", "busy", "handed", "failed", "asking", "wait", "answered", "done"}]
          /\ at \in [Thread -> 0..Recipes] /\ got \in [Thread -> Answer \cup {"none"}]
          /\ \A i \in DOMAIN work : work[i] \in Recipe
          /\ prompting \in Answer \cup {"free", "asked"} /\ phase \in {"input", "drain", "join", "returned"}
      BY <1>1, <1>2, <1>3
    <2>2. /\ shown \in [Recipe -> {"Pending", "Fetching", "Fetched", "Cooking", "Done", "Failed"}]
          /\ outcome \in [Recipe -> {"none", "fetched", "failed", "cooked"}]
      BY <1>1
    <2>3. active = [t \in Thread |-> 0] /\ view = "fetch" /\ staged = {} /\ dumped = FALSE
      BY DEF Init
    <2>4. active \in [Thread -> 0..Recipes]
      BY <1>2, <2>3
    <2>5. /\ view \in Thread /\ staged \subseteq Recipe
          /\ dumped \in BOOLEAN /\ running \in BOOLEAN /\ cook_complete \in BOOLEAN
          /\ result \in {"none", "failed", "reported", "unreachable"}
      BY <1>1, <1>2, <2>3
    <2> QED  BY <1>1, <1>3, <2>1, <2>2, <2>4, <2>5 DEF TypeInv, TypeOK
  <1>7. ~Left
    BY <1>1 DEF Left
  <1>8. ThreadInv
    BY <1>1, <1>4, <1>5 DEF ThreadInv
  <1>9. OrderInv
    BY <1>3, <1>4, <1>5 DEF OrderInv
  <1>10. LeftInv
    BY <1>1, <1>7 DEF LeftInv
  <1>11. EndInv
    BY <1>1, <1>3, <1>4 DEF EndInv
  <1>12. TruthInv
    BY <1>2, <1>4, <1>5 DEF TruthInv, Fetched
  <1>13. QuestionInv
    BY <1>1, <1>3, <1>4 DEF QuestionInv
  <1>14. ActiveInv
    BY <1>1, <1>3, <1>4, <1>5, <1>7 DEF ActiveInv
  <1>15. ResultInv
    BY <1>1 DEF ResultInv, ReportsTheOutcome
  <1> QED  BY <1>6, <1>8, <1>9, <1>10, <1>11, <1>12, <1>13, <1>14, <1>15 DEF IInv

\* Every step keeps it.
LEMMA Step == IInv /\ [Next]_<<vars, setup>> => IInv'
  <1> SUFFICES ASSUME IInv, [Next]_<<vars, setup>>
               PROVE  IInv'
    OBVIOUS
  <1> QED  BY TypeStep, ThreadStep, OrderStep, LeftStep, EndStep, TruthStep, QuestionStep, ActiveStep,
              ResultStep DEF IInv

\* The inductive invariant of run_tui_cook, for any recipes, failures and answers.
THEOREM InterfaceInvariant == Spec => []IInv
  BY InitInv, Step, PTL DEF Spec

\* A thread that waits for an answer is shown to the user, and a run nobody leaves
\* reports of every recipe what became of it (run_tui_cook, main): for any setup.
THEOREM InterfaceCorrect == Spec => []InterfaceConsistent
  <1>1. IInv => InterfaceConsistent
    <2> SUFFICES ASSUME IInv
                 PROVE  InterfaceConsistent
      OBVIOUS
    <2>1. TypeOK /\ ReportsTheOutcome
      BY DEF IInv, TypeInv, ResultInv
    <2>2. WaitIsShown
      <3> SUFFICES ASSUME Failing # Thread, ~Hasty, NEW t \in Thread, pc[t] = "wait", prompting = "asked"
                   PROVE  prompt = <<t, at[t]>> \/ \E i \in DOMAIN status : status[i] = Update("fail", t, at[t])
        BY DEF WaitIsShown
      <3>1. Alone
        BY DEF IInv, ThreadInv, Alone
      <3> QED  BY <3>1 DEF IInv, QuestionInv
    <2> QED  BY <2>1, <2>2 DEF InterfaceConsistent
  <1> QED  BY <1>1, InterfaceInvariant, PTL

\* Where one of the threads fails and not the other, an answer is obeyed by the thread
\* and for the recipe it was given to (run_tui_cook), whenever the user answers.
THEOREM AnswersObeyed == Spec => AnswerReachesItsRecipe
  <1>1. IInv /\ [Next]_<<vars, setup>> => [Failing # Thread => \A t \in Thread : Obeys(t)]_vars
    <2> SUFFICES ASSUME IInv, [Next]_<<vars, setup>>, Failing # Thread, NEW t \in Thread,
                        pc[t] = "answered", pc'[t] # "answered"
                 PROVE  answered = <<t, at[t], got[t], "asked">>
      BY DEF Obeys
    <2>1. Alone
      BY DEF IInv, ThreadInv, Alone
    <2> QED  BY <2>1 DEF IInv, QuestionInv
  <1> QED  BY <1>1, InterfaceInvariant, PTL DEF Spec, AnswerReachesItsRecipe
=============================================================================
