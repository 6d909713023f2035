------------------------ MODULE LanguageServerProofs ------------------------
(***************************************************************************)
(* Proofs about the coordinator of the language server (LanguageServer),   *)
(* for any documents, requests and bounds: every request has one answer    *)
(* for the right reason, what is answered and published belongs to the     *)
(* documents as they are.                                                  *)
(***************************************************************************)
EXTENDS LanguageServer, SequenceTheorems, FiniteSetTheorems, TLAPS

JobsOf(r) == {j \in Held : j.kind = "request" /\ j.id = r}

\* A job was made from documents that were current, is older than its control's
\* invalidation, and is known by its serial.
JobInv(j) ==
  /\ j.serial < next_serial /\ j.generation <= generation
  /\ j.kind = "request" => j.id \in Requests
  /\ j.generation = generation => j.docs = docs
  /\ j.serial \in invalidated => j.generation < generation

JobsInv ==
  /\ \A j \in Held : JobInv(j)
  /\ \A j, k \in Held : j.serial = k.serial => j = k

\* The worker stops only what is flagged, and no request fails.
StoppedInv ==
  \A i \in DOMAIN event :
    /\ event[i].outcome = "stopped" => Flagged(event[i].job)
    /\ event[i].outcome = "failed" => event[i].job.kind = "diagnostics"

\* The jobs of a request, its control and its answer.
RequestInv(r) ==
  /\ answers[r] = <<>> \/ answers[r] = <<answers[r][1]>>
  /\ Fresh(r) => answers[r] = <<>> /\ r \notin revoked
  /\ \A j \in JobsOf(r) :
       /\ ~Fresh(r) /\ askedAt[r] = j.generation
       /\ j.serial \in controls =>
            /\ answers[r] = <<>> /\ lifecycle = "Running"
            /\ j.serial \in cancelled <=> r \in revoked
  /\ \A j, k \in JobsOf(r) : j = k
  /\ (~Fresh(r) /\ answers[r] = <<>> /\ lifecycle # "Exited")
       => \E j \in JobsOf(r) : j.serial \in controls
  /\ answers[r] # <<>> =>
       /\ answers[r][1] = "RequestCancelled" => r \in revoked \/ lifecycle \in {"ShutdownRequested", "Exited"}
       /\ r \in revoked => answers[r][1] = "RequestCancelled"
       /\ answers[r][1] = "ContentModified" => generation > askedAt[r]

\* The client shows what was published, and nothing of what was not.
ClientInv ==
  \A u \in Uris : IF u \in DOMAIN published THEN client[u] = published[u] ELSE client[u].issues = {}

IInv ==
  /\ setup \in Setups
  /\ TypeOK /\ OverlayAgrees /\ WorkConserving
  /\ JobsInv /\ StoppedInv /\ ClientInv
  /\ \A r \in Requests : RequestInv(r)

-----------------------------------------------------------------------------
(* Sequences. *)

\* A sequence of one element.
LEMMA Singleton ==
  ASSUME NEW S, NEW s \in Seq(S), Len(s) = 1
  PROVE  s = <<s[1]>> /\ s[1] \in S /\ Head(s) = s[1] /\ ToSet(s) = {s[1]}
<1>1. s[1] \in S
  BY ElementOfSeq
<1>2. s = <<s[1]>>
  <2>1. <<s[1]>> \in Seq(S) /\ Len(<<s[1]>>) = 1 /\ <<s[1]>>[1] = s[1]
    BY <1>1
  <2>2. \A i \in 1..Len(s) : s[i] = <<s[1]>>[i]
    BY <2>1
  <2> QED
    BY <2>1, <2>2, SeqEqual
<1> QED
  BY <1>1, <1>2 DEF ToSet

LEMMA OneElement ==
  ASSUME NEW S, NEW x \in S
  PROVE  /\ <<x>> \in Seq(S) /\ Len(<<x>>) = 1 /\ Head(<<x>>) = x /\ <<x>>[1] = x
         /\ DOMAIN <<x>> = {1} /\ ToSet(<<x>>) = {x} /\ <<x>> # <<>>
<1>1. <<x>> \in Seq(S) /\ Len(<<x>>) = 1 /\ <<x>>[1] = x /\ DOMAIN <<x>> = {1} /\ <<x>> # <<>>
  OBVIOUS
<1> QED
  BY <1>1 DEF ToSet

LEMMA EmptyToSet == ToSet(<<>>) = {}
BY DEF ToSet

LEMMA EmptyLen ==
  ASSUME NEW S, NEW s \in Seq(S)
  PROVE  Len(s) \in Nat /\ (Len(s) = 0 <=> s = <<>>)
BY EmptySeq, LenProperties

LEMMA AppendToSet ==
  ASSUME NEW S, NEW s \in Seq(S), NEW x \in S
  PROVE  ToSet(Append(s, x)) = ToSet(s) \cup {x}
BY AppendProperties, LenProperties DEF ToSet

LEMMA HeadTailToSet ==
  ASSUME NEW S, NEW s \in Seq(S), s # <<>>
  PROVE  /\ ToSet(s) = {Head(s)} \cup ToSet(Tail(s))
         /\ Head(s) = s[1]
<1>1. /\ Tail(s) \in Seq(S) /\ Len(Tail(s)) = Len(s) - 1
      /\ \A i \in 1..Len(Tail(s)) : Tail(s)[i] = s[i + 1]
  BY HeadTailProperties
<1>2. Len(s) \in Nat \ {0} /\ DOMAIN s = 1..Len(s) /\ DOMAIN Tail(s) = 1..(Len(s) - 1)
  BY <1>1, LenProperties, EmptySeq
<1>3. ASSUME NEW i \in DOMAIN s PROVE s[i] = Head(s) \/ s[i] \in ToSet(Tail(s))
  <2>1. CASE i = 1
    BY <2>1
  <2>2. CASE i # 1
    <3>1. i - 1 \in 1..(Len(s) - 1) /\ Tail(s)[i - 1] = s[i]
      BY <1>1, <1>2, <2>2
    <3> QED
      BY <3>1, <1>2 DEF ToSet
  <2> QED
    BY <2>1, <2>2
<1>4. ASSUME NEW i \in DOMAIN Tail(s) PROVE Tail(s)[i] \in ToSet(s)
  BY <1>1, <1>2 DEF ToSet
<1>5. Head(s) \in ToSet(s) /\ Head(s) = s[1]
  BY <1>2 DEF ToSet
<1> QED
  BY <1>3, <1>4, <1>5 DEF ToSet

\* Removing one element leaves others only.
LEMMA RemovedToSet ==
  ASSUME NEW S, NEW s \in Seq(S), NEW i \in DOMAIN s
  PROVE  /\ RemoveAt(s, i) \in Seq(S)
         /\ Len(RemoveAt(s, i)) = Len(s) - 1
         /\ \A k \in DOMAIN RemoveAt(s, i) :
              RemoveAt(s, i)[k] = IF k < i THEN s[k] ELSE s[k + 1]
         /\ ToSet(RemoveAt(s, i)) \subseteq ToSet(s)
         /\ \A k \in DOMAIN s : k # i => s[k] \in ToSet(RemoveAt(s, i))
<1> DEFINE a == SubSeq(s, 1, i - 1)
           b == SubSeq(s, i + 1, Len(s))
           n == Len(s)
<1>1. n \in Nat /\ DOMAIN s = 1..n /\ i \in 1..n
  BY LenProperties
<1> HIDE DEF n
<1>2. a \in Seq(S) /\ Len(a) = i - 1 /\ \A k \in 1..(i - 1) : a[k] = s[k]
  <2>1. \A k \in 1..(i - 1) : s[k] \in S
    BY <1>1, ElementOfSeq
  <2> QED
    BY <1>1, <2>1, SubSeqProperties
<1>3. b \in Seq(S) /\ Len(b) = n - i /\ \A k \in 1..(n - i) : b[k] = s[i + k]
  <2>1. \A k \in (i + 1)..n : s[k] \in S
    BY <1>1, ElementOfSeq
  <2>2. b = SubSeq(s, i + 1, n)
    BY DEF n
  <2>3. i + 1 \in Int /\ n \in Int /\ n - (i + 1) + 1 = n - i
    BY <1>1
  <2>4. b \in Seq(S) /\ Len(b) = (IF i + 1 <= n THEN n - (i + 1) + 1 ELSE 0)
        /\ \A k \in 1..(n - (i + 1) + 1) : b[k] = s[(i + 1) + k - 1]
    <3> DEFINE m == i + 1
    <3>1. m \in Int /\ n \in Int /\ (\A k \in m..n : s[k] \in S) /\ b = SubSeq(s, m, n)
      BY <2>1, <2>2, <2>3
    <3> HIDE DEF m, b
    <3>2. /\ SubSeq(s, m, n) \in Seq(S) /\ Len(SubSeq(s, m, n)) = IF m <= n THEN n - m + 1 ELSE 0
          /\ \A k \in 1..(n - m + 1) : SubSeq(s, m, n)[k] = s[m + k - 1]
      BY ONLY <3>1, SubSeqProperties
    <3>3. /\ b \in Seq(S) /\ Len(b) = IF m <= n THEN n - m + 1 ELSE 0
          /\ \A k \in 1..(n - m + 1) : b[k] = s[m + k - 1]
      BY <3>1, <3>2
    <3> QED
      BY <3>3 DEF m
  <2> HIDE DEF b
  <2>5. \A k \in 1..(n - i) : (i + 1) + k - 1 = i + k
    BY <1>1
  <2> QED
    BY <1>1, <2>3, <2>4, <2>5
<1> HIDE DEF a, b
<1>4. /\ a \o b \in Seq(S) /\ Len(a \o b) = n - 1
      /\ \A k \in 1..(n - 1) : (a \o b)[k] = IF k < i THEN s[k] ELSE s[k + 1]
  <2>1. /\ a \o b \in Seq(S) /\ Len(a \o b) = Len(a) + Len(b)
        /\ \A k \in 1..(Len(a) + Len(b)) : (a \o b)[k] = IF k <= Len(a) THEN a[k] ELSE b[k - Len(a)]
    BY <1>2, <1>3, ConcatProperties
  <2>2. ASSUME NEW k \in 1..(n - 1)
        PROVE  (a \o b)[k] = IF k < i THEN s[k] ELSE s[k + 1]
    <3>1. CASE k < i
      BY <1>1, <1>2, <1>3, <2>1, <3>1
    <3>2. CASE ~(k < i)
      <4>1. k - (i - 1) \in 1..(n - i) /\ i + (k - (i - 1)) = k + 1
        BY <1>1, <3>2
      <4>2. k \in 1..(Len(a) + Len(b)) /\ ~(k <= Len(a)) /\ k - Len(a) = k - (i - 1)
        BY <1>1, <1>2, <1>3, <3>2
      <4>3. (a \o b)[k] = b[k - (i - 1)]
        BY <2>1, <4>2
      <4>4. b[k - (i - 1)] = s[k + 1]
        BY <1>3, <4>1
      <4> QED
        BY <3>2, <4>3, <4>4
    <3> QED
      BY <3>1, <3>2
  <2> QED
    BY <1>1, <1>2, <1>3, <2>1, <2>2
<1>5. RemoveAt(s, i) = a \o b
  BY DEF RemoveAt, a, b
<1>6. DOMAIN RemoveAt(s, i) = 1..(n - 1)
  BY <1>4, <1>5, LenProperties
<1>7. ASSUME NEW k \in DOMAIN RemoveAt(s, i) PROVE RemoveAt(s, i)[k] \in ToSet(s)
  <2>1. k \in 1..(n - 1) /\ k \in 1..n /\ k + 1 \in 1..n
    BY <1>1, <1>6
  <2>2. s[k] \in ToSet(s) /\ s[k + 1] \in ToSet(s)
    BY <1>1, <2>1 DEF ToSet
  <2> QED
    BY <1>4, <1>5, <2>1, <2>2
<1>8. ASSUME NEW k \in DOMAIN s, k # i PROVE s[k] \in ToSet(RemoveAt(s, i))
  <2>1. CASE k < i
    <3>1. k \in 1..(n - 1) /\ RemoveAt(s, i)[k] = s[k]
      <4>1. k \in 1..(n - 1)
        BY <1>1, <2>1
      <4>2. (a \o b)[k] = s[k]
        BY <1>4, <2>1, <4>1
      <4> QED
        BY <1>5, <4>1, <4>2
    <3> QED
      BY <1>6, <3>1 DEF ToSet
  <2>2. CASE k > i
    <3>1. k - 1 \in 1..(n - 1) /\ RemoveAt(s, i)[k - 1] = s[k]
      <4>1. k - 1 \in 1..(n - 1) /\ ~(k - 1 < i) /\ (k - 1) + 1 = k
        BY <1>1, <2>2
      <4>2. (a \o b)[k - 1] = s[(k - 1) + 1]
        BY <1>4, <4>1
      <4> QED
        BY <1>5, <4>1, <4>2
    <3> QED
      BY <1>6, <3>1 DEF ToSet
  <2> QED
    BY <1>1, <1>8, <2>1, <2>2
<1>9. ToSet(RemoveAt(s, i)) \subseteq ToSet(s)
  BY <1>7 DEF ToSet
<1> QED
  BY <1>4, <1>5, <1>6, <1>8, <1>9 DEF n

-----------------------------------------------------------------------------
(* Sets, and what never changes. *)

LEMMA PartialDef ==
  ASSUME NEW S, NEW T, NEW f
  PROVE  f \in Partial(S, T) <=> DOMAIN f \subseteq S /\ f \in [DOMAIN f -> T]
BY DEF Partial

LEMMA SetupFixed ==
  ASSUME setup' = setup
  PROVE  /\ Requests' = Requests /\ MaxGeneration' = MaxGeneration /\ Never' = Never
         /\ Document' = Document /\ Job' = Job /\ Result' = Result
BY DEF Requests, MaxGeneration, Never, Document, Job, Result

LEMMA Bound ==
  ASSUME setup \in Setups
  PROVE  MaxGeneration \in Nat /\ Never = MaxGeneration + 1 /\ Version \subseteq Nat
         /\ Library \in Uris
BY ServerAssumption DEF ServerAssumption, MaxGeneration, Never, Version

\* A job in the hands of the coordinator or the worker.
LEMMA HeldTyped ==
  ASSUME TypeOK
  PROVE  /\ \A i \in DOMAIN pending : pending[i] \in Job /\ pending[i] \in Held
         /\ \A j \in Held : j \in Job /\ j.serial \in Nat /\ j.generation \in Nat
                           /\ j.kind \in {"diagnostics", "request"}
<1>1. ASSUME NEW s \in Seq(Job) PROVE ToSet(s) \subseteq Job
  BY LenProperties, ElementOfSeq DEF ToSet
<1>2. \A i \in DOMAIN event : event[i].job \in Job
  <2>1. \A i \in DOMAIN event : event[i] \in Result
    BY LenProperties, ElementOfSeq DEF TypeOK
  <2> QED
    BY <2>1 DEF Result
<1>3. Held \subseteq Job
  BY <1>1, <1>2 DEF Held, TypeOK
<1>4. \A i \in DOMAIN pending : pending[i] \in ToSet(pending)
  BY DEF ToSet
<1> QED
  BY <1>3, <1>4 DEF Held, Job

\* The worker holds one job or none, and holds one exactly if it is busy.
LEMMA WorkerHolds ==
  ASSUME TypeOK, WorkConserving
  PROVE  /\ ~worker_busy => slot = <<>> /\ working = <<>> /\ event = <<>>
         /\ slot # <<>> => /\ worker_busy /\ working = <<>> /\ event = <<>> /\ Len(slot) = 1
         /\ working # <<>> => /\ worker_busy /\ slot = <<>> /\ event = <<>> /\ Len(working) = 1
         /\ event # <<>> => /\ worker_busy /\ slot = <<>> /\ working = <<>> /\ Len(event) = 1
<1>1. /\ Len(slot) \in Nat /\ (Len(slot) = 0 <=> slot = <<>>)
      /\ Len(working) \in Nat /\ (Len(working) = 0 <=> working = <<>>)
      /\ Len(event) \in Nat /\ (Len(event) = 0 <=> event = <<>>)
  BY EmptyLen DEF TypeOK
<1>2. Len(slot) + Len(working) + Len(event) = IF worker_busy THEN 1 ELSE 0
  BY DEF WorkConserving
<1> DEFINE n == IF worker_busy THEN 1 ELSE 0
<1>3. n \in {0, 1} /\ (~worker_busy => n = 0)
  OBVIOUS
<1>4. Len(slot) + Len(working) + Len(event) = n
  BY <1>2
<1> HIDE DEF n
<1>5. /\ Len(slot) # 0 => n = 1 /\ Len(slot) = 1 /\ Len(working) = 0 /\ Len(event) = 0
      /\ Len(working) # 0 => n = 1 /\ Len(slot) = 0 /\ Len(working) = 1 /\ Len(event) = 0
      /\ Len(event) # 0 => n = 1 /\ Len(slot) = 0 /\ Len(working) = 0 /\ Len(event) = 1
      /\ n = 0 => Len(slot) = 0 /\ Len(working) = 0 /\ Len(event) = 0
  <2> DEFINE a == Len(slot) b == Len(working) c == Len(event)
  <2>1. a \in Nat /\ b \in Nat /\ c \in Nat /\ a + b + c = n
    BY <1>1, <1>4
  <2> HIDE DEF a, b, c
  <2>2. /\ a # 0 => n = 1 /\ a = 1 /\ b = 0 /\ c = 0
        /\ b # 0 => n = 1 /\ a = 0 /\ b = 1 /\ c = 0
        /\ c # 0 => n = 1 /\ a = 0 /\ b = 0 /\ c = 1
        /\ n = 0 => a = 0 /\ b = 0 /\ c = 0
    BY <1>3, <2>1
  <2> QED
    BY <2>2 DEF a, b, c
<1>6. 1 # 0
  OBVIOUS
<1> QED
  BY <1>1, <1>3, <1>5, <1>6, Zenon

\* At most one job for diagnostics is in a queue.
OneWaits(queue) ==
  \A i, j \in DOMAIN queue : queue[i].kind = "diagnostics" /\ queue[j].kind = "diagnostics" => i = j

LEMMA OneWaitsAgrees == (\A i, j \in WaitingDiagnostics : i = j) <=> OneWaits(pending)
BY DEF WaitingDiagnostics, OneWaits

\* `start_next` moves a job or does nothing: it loses none, and leaves a waiting job
\* only to a worker that is busy.
LEMMA StartNext ==
  ASSUME NEW J, NEW queue \in Seq(J), NEW busy \in BOOLEAN, slot \in Seq(J),
         ~busy => slot = <<>>, start_next(queue, busy), OneWaits(queue)
  PROVE  /\ pending' \in Seq(J) /\ slot' \in Seq(J) /\ worker_busy' \in BOOLEAN
         /\ ToSet(pending') \cup ToSet(slot') = ToSet(queue) \cup ToSet(slot)
         /\ pending' # <<>> => worker_busy'
         /\ Len(slot') + (IF busy THEN 1 ELSE 0) = Len(slot) + (IF worker_busy' THEN 1 ELSE 0)
         /\ OneWaits(pending')
<1>0. Len(slot) \in Nat
  BY EmptyLen
<1>1. CASE busy \/ queue = <<>> \/ slot # <<>>
  <2>1. pending' = queue /\ worker_busy' = busy /\ slot' = slot
    BY <1>1 DEF start_next
  <2> QED
    BY <1>0, <1>1, <2>1
<1>2. CASE ~(busy \/ queue = <<>> \/ slot # <<>>)
  <2>1. pending' = Tail(queue) /\ worker_busy' = TRUE /\ slot' = <<Head(queue)>>
    BY <1>2 DEF start_next
  <2>2. /\ Head(queue) \in J /\ Tail(queue) \in Seq(J) /\ Len(Tail(queue)) = Len(queue) - 1
        /\ \A i \in 1..Len(Tail(queue)) : Tail(queue)[i] = queue[i + 1]
    BY <1>2, HeadTailProperties
  <2>3. ToSet(queue) = {Head(queue)} \cup ToSet(Tail(queue))
    BY <1>2, HeadTailToSet
  <2>4. slot' \in Seq(J) /\ Len(slot') = 1 /\ ToSet(slot') = {Head(queue)}
    BY <2>1, <2>2, OneElement
  <2>5. Len(slot) = 0 /\ ToSet(slot) = {}
    BY <1>2, EmptyToSet, EmptySeq
  <2>6. OneWaits(Tail(queue))
    <3>1. DOMAIN queue = 1..Len(queue) /\ DOMAIN Tail(queue) = 1..(Len(queue) - 1) /\ Len(queue) \in Nat
      BY <2>2, LenProperties
    <3>2. ASSUME NEW i \in DOMAIN Tail(queue), NEW j \in DOMAIN Tail(queue),
                 Tail(queue)[i].kind = "diagnostics", Tail(queue)[j].kind = "diagnostics"
          PROVE  i = j
      <4>1. i + 1 \in DOMAIN queue /\ j + 1 \in DOMAIN queue
        BY <3>1
      <4>2. queue[i + 1].kind = "diagnostics" /\ queue[j + 1].kind = "diagnostics"
        BY <2>2, <3>1, <3>2
      <4>3. i + 1 = j + 1
        BY <4>1, <4>2 DEF OneWaits
      <4> QED
        BY <3>1, <4>3
    <3> QED
      BY <3>2 DEF OneWaits
  <2> QED
    BY <1>2, <2>1, <2>2, <2>3, <2>4, <2>5, <2>6
<1> QED
  BY <1>1, <1>2

-----------------------------------------------------------------------------
(* What a step that adds no job keeps. *)

LEMMA JobsKept ==
  ASSUME JobsInv, Held' \subseteq Held, setup' = setup,
         UNCHANGED <<generation, docs, next_serial, invalidated>>
  PROVE  JobsInv'
<1>1. Requests' = Requests
  BY SetupFixed
<1>2. \A j : JobInv(j) => JobInv(j)'
  BY <1>1 DEF JobInv
<1> QED
  BY <1>2 DEF JobsInv

LEMMA RequestKept ==
  ASSUME NEW r \in Requests, RequestInv(r), setup' = setup,
         JobsOf(r)' = JobsOf(r), generation \in Nat, generation' \in Nat, generation' >= generation,
         askedAt[r] \in Nat,
         askedAt'[r] = askedAt[r], answers'[r] = answers[r], lifecycle' = lifecycle,
         r \in revoked' <=> r \in revoked,
         \A j \in JobsOf(r) : /\ j.serial \in controls' <=> j.serial \in controls
                              /\ j.serial \in cancelled' <=> j.serial \in cancelled
  PROVE  RequestInv(r)'
<1>1. Fresh(r)' <=> Fresh(r)
  BY SetupFixed DEF Fresh
<1>2. generation > askedAt[r] => generation' > askedAt'[r]
  OBVIOUS
<1> QED
  BY <1>1, <1>2 DEF RequestInv

\* The requests of a step that leaves every job where it can be found, and what is
\* known of it.
LEMMA RequestsKept ==
  ASSUME IInv, setup' = setup, Held' = Held,
         UNCHANGED <<lifecycle, generation, controls, cancelled, askedAt, answers, revoked>>
  PROVE  \A r \in Requests' : RequestInv(r)'
<1>1. Requests' = Requests
  BY SetupFixed
<1>2. ASSUME NEW r \in Requests PROVE RequestInv(r)'
  <2>1. JobsOf(r)' = JobsOf(r)
    BY DEF JobsOf
  <2>2. generation \in Nat /\ askedAt[r] \in Nat
    BY Bound DEF IInv, TypeOK
  <2>3. RequestInv(r)
    BY DEF IInv
  <2> QED
    BY <2>1, <2>2, <2>3, RequestKept
<1> QED
  BY <1>1, <1>2

-----------------------------------------------------------------------------
(* The worker's steps move a job. *)

LEMMA ReceiveKeeps ==
  ASSUME IInv, receive_job, UNCHANGED setup
  PROVE  IInv'
<1> DEFINE job == Head(slot)
<1>1. /\ slot # <<>> /\ slot' = <<>> /\ worker_busy /\ working = <<>> /\ event = <<>>
      /\ Len(slot) = 1 /\ slot = <<job>> /\ job \in Job /\ ToSet(slot) = {job}
  <2>1. slot # <<>> /\ slot' = <<>>
    BY DEF receive_job
  <2>2. worker_busy /\ working = <<>> /\ event = <<>> /\ Len(slot) = 1
    BY <2>1, WorkerHolds DEF IInv
  <2>3. slot = <<slot[1]>> /\ slot[1] \in Job /\ Head(slot) = slot[1] /\ ToSet(slot) = {slot[1]}
    BY <2>2, Singleton DEF IInv, TypeOK
  <2> QED
    BY <2>1, <2>2, <2>3
<1>2. UNCHANGED <<lifecycle, workspaceVars, queueVars, diskVars, clientVars>>
  BY DEF receive_job
<1> HIDE DEF job
<1>3. \/ /\ event' = <<[job |-> job, outcome |-> "stopped"]>> /\ working' = <<>> /\ Flagged(job)
      \/ working' = <<job>> /\ event' = <<>>
  BY <1>1 DEF receive_job, job
<1>4. /\ Held' = Held /\ working' \in Seq(Job) /\ event' \in Seq(Result)
      /\ Len(slot') + Len(working') + Len(event') = 1
      /\ StoppedInv'
  <2>1. Held = ToSet(pending) \cup {job}
    BY <1>1, EmptyToSet DEF Held
  <2>2. Len(<<>>) = 0 /\ <<>> \in Seq(Job) /\ <<>> \in Seq(Result) /\ DOMAIN <<>> = {}
    BY EmptySeq
  <2>3. CASE working' = <<job>> /\ event' = <<>>
    <3>1. working' \in Seq(Job) /\ Len(working') = 1 /\ ToSet(working') = {job}
      BY <1>1, <2>3, OneElement
    <3>2. Held' = ToSet(pending) \cup {job}
      BY <1>1, <1>2, <2>2, <2>3, <3>1, EmptyToSet DEF Held, queueVars
    <3>3. StoppedInv'
      BY <2>2, <2>3 DEF StoppedInv
    <3> QED
      BY <1>1, <2>1, <2>2, <2>3, <3>1, <3>2, <3>3
  <2>4. CASE event' = <<[job |-> job, outcome |-> "stopped"]>> /\ working' = <<>> /\ Flagged(job)
    <3> DEFINE result == [job |-> job, outcome |-> "stopped"]
    <3>1. result \in Result /\ result.job = job /\ event' = <<result>>
      BY <1>1, <2>4 DEF Result
    <3> HIDE DEF result
    <3>2. event' \in Seq(Result) /\ Len(event') = 1 /\ DOMAIN event' = {1} /\ event'[1] = result
      BY <3>1, OneElement
    <3>3. {event'[i].job : i \in DOMAIN event'} = {job}
      BY <3>1, <3>2
    <3>4. Held' = ToSet(pending) \cup {job}
      BY <1>1, <1>2, <2>4, <3>3, EmptyToSet DEF Held, queueVars
    <3>5. StoppedInv'
      BY <1>2, <2>4, <3>1, <3>2 DEF StoppedInv, Flagged, queueVars
    <3> QED
      BY <1>1, <2>1, <2>2, <2>4, <3>2, <3>4, <3>5
  <2> QED
    BY <1>3, <2>3, <2>4
<1>5. TypeOK'
  BY <1>1, <1>2, <1>4, SetupFixed, EmptySeq
     DEF IInv, TypeOK, workspaceVars, queueVars, diskVars, clientVars, Open, Shown, Version
<1>6. OverlayAgrees' /\ ClientInv' /\ JobsInv'
  <2>1. JobsInv'
    BY <1>2, <1>4, JobsKept DEF IInv, workspaceVars, queueVars
  <2> QED
    BY <1>2, <2>1 DEF IInv, OverlayAgrees, ClientInv, workspaceVars, clientVars, Open
<1>7. WorkConserving'
  <2>1. /\ pending' = pending /\ worker_busy' = worker_busy
    BY <1>2 DEF queueVars
  <2>2. worker_busy' /\ (IF worker_busy' THEN 1 ELSE 0) = 1
    BY <1>1, <2>1
  <2> QED
    BY <1>4, <2>1, <2>2 DEF IInv, WorkConserving, WaitingDiagnostics
<1>8. \A r \in Requests' : RequestInv(r)'
  BY <1>2, <1>4, RequestsKept DEF workspaceVars, queueVars, clientVars
<1> QED
  BY <1>4, <1>5, <1>6, <1>7, <1>8 DEF IInv

LEMMA FinishKeeps ==
  ASSUME IInv, finish_job, UNCHANGED setup
  PROVE  IInv'
<1> DEFINE job == Head(working)
<1>1. /\ working # <<>> /\ working' = <<>> /\ worker_busy /\ slot = <<>> /\ event = <<>>
      /\ job \in Job /\ ToSet(working) = {job}
  <2>1. working # <<>> /\ working' = <<>>
    BY DEF finish_job
  <2>2. worker_busy /\ slot = <<>> /\ event = <<>> /\ Len(working) = 1
    BY <2>1, WorkerHolds DEF IInv
  <2>3. working[1] \in Job /\ Head(working) = working[1] /\ ToSet(working) = {working[1]}
    BY <2>2, Singleton DEF IInv, TypeOK
  <2> QED
    BY <2>1, <2>2, <2>3
<1>2. UNCHANGED <<lifecycle, workspaceVars, queueVars, slot, diskVars, clientVars>>
  BY DEF finish_job
<1>3. PICK outcome \in {"computed", "stopped", "failed"} :
        /\ outcome = "stopped" => Flagged(job)
        /\ outcome = "failed" => job.kind = "diagnostics"
        /\ event' = <<[job |-> job, outcome |-> outcome]>>
  BY DEF finish_job
<1> DEFINE result == [job |-> job, outcome |-> outcome]
<1> HIDE DEF job
<1>4. result \in Result /\ result.job = job /\ result.outcome = outcome /\ event' = <<result>>
  BY <1>1, <1>3 DEF Result
<1> HIDE DEF result
<1>5. event' \in Seq(Result) /\ Len(event') = 1 /\ DOMAIN event' = {1} /\ event'[1] = result
  BY <1>4, OneElement
<1>6. Len(<<>>) = 0 /\ <<>> \in Seq(Job) /\ DOMAIN <<>> = {}
  BY EmptySeq
<1>7. Held' = Held
  <2>1. {event'[i].job : i \in DOMAIN event'} = {job}
    BY <1>4, <1>5
  <2> QED
    BY <1>1, <1>2, <1>6, <2>1, EmptyToSet DEF Held, queueVars
<1>8. StoppedInv'
  BY <1>2, <1>3, <1>4, <1>5 DEF StoppedInv, Flagged, queueVars
<1>9. TypeOK'
  BY <1>1, <1>2, <1>5, <1>6, SetupFixed
     DEF IInv, TypeOK, workspaceVars, queueVars, diskVars, clientVars, Open, Shown, Version
<1>10. JobsInv'
  BY <1>2, <1>7, JobsKept DEF IInv, workspaceVars, queueVars
<1>11. OverlayAgrees' /\ ClientInv'
  BY <1>2 DEF IInv, OverlayAgrees, ClientInv, workspaceVars, clientVars, Open
<1>12. WorkConserving'
  <2>1. pending' = pending /\ worker_busy' = worker_busy /\ slot' = <<>>
    BY <1>1, <1>2 DEF queueVars
  <2>2. worker_busy' /\ (IF worker_busy' THEN 1 ELSE 0) = 1
    BY <1>1, <2>1
  <2>3. Len(slot') + Len(working') + Len(event') = 1
    BY <1>1, <1>5, <1>6, <2>1
  <2> QED
    BY <2>1, <2>2, <2>3 DEF IInv, WorkConserving, WaitingDiagnostics
<1>13. \A r \in Requests' : RequestInv(r)'
  BY <1>2, <1>7, RequestsKept DEF workspaceVars, queueVars, clientVars
<1> QED
  BY <1>8, <1>9, <1>10, <1>11, <1>12, <1>13 DEF IInv

-----------------------------------------------------------------------------
(* The disk, and messages that neither add nor move a job. *)

LEMMA LinksKeep ==
  ASSUME IInv, link_changes, UNCHANGED setup
  PROVE  IInv'
<1>1. UNCHANGED <<lifecycle, workspaceVars, queueVars, workerVars, clientVars>>
  BY DEF link_changes
<1>2. path' \in [Uris -> Uris]
  BY DEF link_changes, IInv, TypeOK
<1>3. Held' = Held /\ StoppedInv'
  BY <1>1 DEF Held, IInv, StoppedInv, Flagged, queueVars, workerVars
<1>4. TypeOK'
  BY <1>1, <1>2, SetupFixed
     DEF IInv, TypeOK, workspaceVars, queueVars, workerVars, clientVars, Shown, Version
<1>5. JobsInv'
  BY <1>1, <1>3, JobsKept DEF IInv, workspaceVars, queueVars
<1>6. OverlayAgrees' /\ ClientInv' /\ WorkConserving'
  BY <1>1 DEF IInv, OverlayAgrees, ClientInv, WorkConserving, WaitingDiagnostics,
              workspaceVars, queueVars, workerVars, clientVars, Open
<1>7. \A r \in Requests' : RequestInv(r)'
  BY <1>1, <1>3, RequestsKept DEF workspaceVars, queueVars, clientVars
<1> QED
  BY <1>3, <1>4, <1>5, <1>6, <1>7 DEF IInv

LEMMA InitializeKeeps ==
  ASSUME IInv, initialize, UNCHANGED setup
  PROVE  IInv'
<1>1. /\ UNCHANGED <<workspaceVars, queueVars, workerVars, diskVars, clientVars>>
      /\ lifecycle = "WaitingForInitialize" /\ lifecycle' = "Running"
  BY DEF initialize
<1>2. Held' = Held /\ StoppedInv'
  BY <1>1 DEF Held, IInv, StoppedInv, Flagged, queueVars, workerVars
<1>3. TypeOK'
  BY <1>1, SetupFixed
     DEF IInv, TypeOK, workspaceVars, queueVars, workerVars, diskVars, clientVars, Shown, Version
<1>4. JobsInv'
  BY <1>1, <1>2, JobsKept DEF IInv, workspaceVars, queueVars
<1>5. OverlayAgrees' /\ ClientInv' /\ WorkConserving'
  BY <1>1 DEF IInv, OverlayAgrees, ClientInv, WorkConserving, WaitingDiagnostics,
              workspaceVars, queueVars, workerVars, clientVars, Open
<1>6. ASSUME NEW r \in Requests PROVE RequestInv(r)'
  <2>1. RequestInv(r) /\ JobsOf(r)' = JobsOf(r) /\ (Fresh(r)' <=> Fresh(r))
    BY <1>1, <1>2, SetupFixed DEF IInv, JobsOf, Fresh, clientVars
  <2> QED
    BY <1>1, <2>1 DEF RequestInv, workspaceVars, queueVars, clientVars
<1> QED
  BY <1>2, <1>3, <1>4, <1>5, <1>6, SetupFixed DEF IInv

LEMMA RefusedKeeps ==
  ASSUME IInv, NEW r \in Requests, request_error(r), UNCHANGED setup
  PROVE  IInv'
<1>1. /\ UNCHANGED <<lifecycle, workspaceVars, queueVars, workerVars, diskVars, revoked, client>>
      /\ lifecycle \in {"WaitingForInitialize", "ShutdownRequested"} /\ Fresh(r)
      /\ askedAt' = [askedAt EXCEPT ![r] = generation]
      /\ answers' = [answers EXCEPT ![r] = Append(@, "refused")]
  BY DEF request_error
<1>2. Held' = Held /\ StoppedInv'
  BY <1>1 DEF Held, IInv, StoppedInv, Flagged, queueVars, workerVars
<1>3. generation \in Nat /\ generation \in 0..Never /\ generation # Never
  BY Bound DEF IInv, TypeOK
<1>4. RequestInv(r) /\ answers[r] = <<>> /\ r \notin revoked /\ JobsOf(r) = {}
  <2>1. RequestInv(r)
    BY DEF IInv
  <2> QED
    BY <1>1, <2>1 DEF RequestInv
<1>5. answers'[r] = <<"refused">> /\ askedAt'[r] = generation
  BY <1>1, <1>4 DEF IInv, TypeOK
<1>6. askedAt' \in [Requests -> 0..Never] /\ answers' \in [Requests -> Seq(Answer)]
  <2>1. <<"refused">> \in Seq(Answer)
    BY OneElement DEF Answer
  <2> QED
    BY <1>1, <1>3, <1>4, <2>1 DEF IInv, TypeOK
<1>7. TypeOK'
  BY <1>1, <1>6, SetupFixed
     DEF IInv, TypeOK, workspaceVars, queueVars, workerVars, diskVars, Shown, Version
<1>8. JobsInv'
  BY <1>1, <1>2, JobsKept DEF IInv, workspaceVars, queueVars
<1>9. OverlayAgrees' /\ ClientInv' /\ WorkConserving'
  BY <1>1 DEF IInv, OverlayAgrees, ClientInv, WorkConserving, WaitingDiagnostics,
              workspaceVars, queueVars, workerVars, Open
<1>10. ASSUME NEW q \in Requests PROVE RequestInv(q)'
  <2>1. RequestInv(q) /\ JobsOf(q)' = JobsOf(q)
    BY <1>2 DEF IInv, JobsOf
  <2>2. CASE q = r
    <3>1. ~Fresh(r)'
      BY <1>3, <1>5, SetupFixed DEF Fresh
    <3>2. <<"refused">>[1] = "refused" /\ <<"refused">> # <<>>
      OBVIOUS
    <3> QED
      BY <1>1, <1>4, <1>5, <2>1, <2>2, <3>1, <3>2 DEF RequestInv
  <2>3. CASE q # r
    <3>1. askedAt'[q] = askedAt[q] /\ answers'[q] = answers[q] /\ askedAt[q] \in Nat
      BY <1>1, <2>3, Bound DEF IInv, TypeOK
    <3> QED
      BY <1>1, <1>3, <2>1, <3>1, RequestKept DEF workspaceVars, queueVars
  <2> QED
    BY <2>2, <2>3
<1> QED
  BY <1>2, <1>7, <1>8, <1>9, <1>10, SetupFixed DEF IInv

-----------------------------------------------------------------------------
(* The two ways to leave drop what waits; the worker keeps what it has. *)

LEMMA DroppedKeeps ==
  ASSUME IInv, UNCHANGED <<setup, workspaceVars, worker_busy, next_serial, invalidated,
                           workerVars, diskVars, client, askedAt, revoked>>,
         lifecycle' \in {"ShutdownRequested", "Exited"}, pending' = <<>>, controls' = {},
         cancelled' = cancelled \cup controls, answers' \in [Requests -> Seq(Answer)]
  PROVE  /\ TypeOK' /\ OverlayAgrees' /\ WorkConserving' /\ JobsInv' /\ StoppedInv' /\ ClientInv'
         /\ Held' \subseteq Held /\ Requests' = Requests
<1>1. <<>> \in Seq(Job) /\ DOMAIN <<>> = {} /\ ToSet(<<>>) = {}
  BY EmptySeq, EmptyToSet
<1>2. Held' \subseteq Held
  BY <1>1 DEF Held, workerVars
<1>3. TypeOK'
  BY <1>1, SetupFixed
     DEF IInv, TypeOK, workspaceVars, workerVars, diskVars, Open, Shown, Version
<1>4. WorkConserving'
  BY <1>1 DEF IInv, WorkConserving, WaitingDiagnostics, workerVars
<1>5. StoppedInv'
  BY DEF IInv, StoppedInv, Flagged, workerVars
<1>6. JobsInv'
  BY <1>2, JobsKept DEF IInv, workspaceVars
<1> QED
  BY <1>2, <1>3, <1>4, <1>5, <1>6, SetupFixed
     DEF IInv, OverlayAgrees, ClientInv, workspaceVars, Open

LEMMA ExitKeeps ==
  ASSUME IInv, cancel_all, UNCHANGED setup
  PROVE  IInv'
<1>1. /\ UNCHANGED <<workspaceVars, invalidated, worker_busy, next_serial, workerVars, diskVars, clientVars>>
      /\ lifecycle # "Exited" /\ lifecycle' = "Exited"
      /\ cancelled' = cancelled \cup controls /\ controls' = {} /\ pending' = <<>>
  BY DEF cancel_all
<1>2. /\ TypeOK' /\ OverlayAgrees' /\ WorkConserving' /\ JobsInv' /\ StoppedInv' /\ ClientInv'
      /\ Held' \subseteq Held /\ Requests' = Requests
  <2>1. answers' \in [Requests -> Seq(Answer)]
    BY <1>1 DEF IInv, TypeOK, clientVars
  <2> QED
    BY <1>1, <2>1, DroppedKeeps DEF clientVars
<1>3. ASSUME NEW r \in Requests PROVE RequestInv(r)'
  <2>1. RequestInv(r) /\ JobsOf(r)' \subseteq JobsOf(r) /\ (Fresh(r)' <=> Fresh(r))
    BY <1>1, <1>2, SetupFixed DEF IInv, JobsOf, Fresh, clientVars
  <2> QED
    BY <1>1, <2>1 DEF RequestInv, workspaceVars, clientVars
<1> QED
  BY <1>1, <1>2, <1>3, SetupFixed DEF IInv

LEMMA ControlsOfJobs ==
  ASSUME NEW r
  PROVE  ControlsOf(r) = {job.serial : job \in JobsOf(r)} \cap controls
BY DEF ControlsOf, JobsOf

LEMMA ShutdownKeeps ==
  ASSUME IInv, cancel_pending_requests, UNCHANGED setup
  PROVE  IInv'
<1>1. /\ UNCHANGED <<workspaceVars, invalidated, worker_busy, next_serial, workerVars, diskVars,
                     askedAt, revoked, client>>
      /\ lifecycle = "Running" /\ lifecycle' = "ShutdownRequested"
      /\ cancelled' = cancelled \cup controls /\ controls' = {} /\ pending' = <<>>
      /\ answers' = [r \in Requests |->
                      IF ControlsOf(r) # {} THEN Append(answers[r], "RequestCancelled") ELSE answers[r]]
  BY DEF cancel_pending_requests
\* Every request that waits for an answer is tracked, and gets one.
<1>2. ASSUME NEW r \in Requests
      PROVE  /\ RequestInv(r)
             /\ \/ answers'[r] = answers[r] /\ (Fresh(r) \/ answers[r] # <<>>)
                \/ answers[r] = <<>> /\ ~Fresh(r) /\ answers'[r] = <<"RequestCancelled">>
  <2>1. RequestInv(r)
    BY DEF IInv
  <2>2. CASE ControlsOf(r) = {}
    <3>1. answers'[r] = answers[r]
      BY <1>1, <2>2
    <3>2. Fresh(r) \/ answers[r] # <<>>
      BY <1>1, <2>1, <2>2, ControlsOfJobs DEF RequestInv
    <3> QED
      BY <2>1, <3>1, <3>2
  <2>3. CASE ControlsOf(r) # {}
    <3>1. PICK j \in JobsOf(r) : j.serial \in controls
      BY <2>3, ControlsOfJobs
    <3>2. answers[r] = <<>> /\ ~Fresh(r)
      BY <2>1, <3>1 DEF RequestInv
    <3>3. answers'[r] = Append(<<>>, "RequestCancelled")
      BY <1>1, <2>3, <3>2
    <3>4. Append(<<>>, "RequestCancelled") = <<"RequestCancelled">>
      OBVIOUS
    <3> QED
      BY <2>1, <3>2, <3>3, <3>4
  <2> QED
    BY <2>2, <2>3
<1>3. answers' \in [Requests -> Seq(Answer)]
  <2>1. <<"RequestCancelled">> \in Seq(Answer)
    BY OneElement DEF Answer
  <2>2. \A r \in Requests : answers'[r] \in Seq(Answer)
    BY <1>2, <2>1 DEF IInv, TypeOK
  <2> QED
    BY <1>1, <2>2
<1>4. /\ TypeOK' /\ OverlayAgrees' /\ WorkConserving' /\ JobsInv' /\ StoppedInv' /\ ClientInv'
      /\ Held' \subseteq Held /\ Requests' = Requests
  BY <1>1, <1>3, DroppedKeeps
<1>5. ASSUME NEW r \in Requests PROVE RequestInv(r)'
  <2>1. JobsOf(r)' \subseteq JobsOf(r) /\ (Fresh(r)' <=> Fresh(r))
    BY <1>1, <1>4, SetupFixed DEF JobsOf, Fresh
  <2>2. <<"RequestCancelled">>[1] = "RequestCancelled" /\ <<"RequestCancelled">> # <<>>
    OBVIOUS
  <2>3. CASE answers'[r] = answers[r] /\ (Fresh(r) \/ answers[r] # <<>>)
    BY <1>1, <1>2, <2>1, <2>3 DEF RequestInv, workspaceVars
  <2>4. CASE answers[r] = <<>> /\ ~Fresh(r) /\ answers'[r] = <<"RequestCancelled">>
    <3>1. \A j \in JobsOf(r)' : ~Fresh(r)' /\ askedAt'[r] = j.generation /\ j.serial \notin controls'
      BY <1>1, <1>2, <2>1, <2>4 DEF RequestInv
    <3>2. ~Fresh(r)' /\ \A j, k \in JobsOf(r)' : j = k
      BY <1>2, <2>1, <2>4 DEF RequestInv
    <3>3. answers'[r] = <<answers'[r][1]>> /\ answers'[r] # <<>> /\ answers'[r][1] = "RequestCancelled"
      BY <2>2, <2>4
    <3>4. /\ answers'[r][1] # "ContentModified"
          /\ lifecycle' \in {"ShutdownRequested", "Exited"}
      BY <1>1, <3>3
    <3> QED
      BY ONLY <3>1, <3>2, <3>3, <3>4 DEF RequestInv
  <2> QED
    BY <1>2, <2>3, <2>4
<1> QED
  BY <1>4, <1>5, SetupFixed DEF IInv

-----------------------------------------------------------------------------
(* `$/cancelRequest`. *)

LEMMA CancelKeeps ==
  ASSUME IInv, NEW r \in Requests, cancel_request(r), UNCHANGED setup
  PROVE  IInv'
<1>1. /\ lifecycle # "Exited" /\ ~Fresh(r)
      /\ cancelled' = cancelled \cup ControlsOf(r)
      /\ revoked' = IF answers[r] = <<>> THEN revoked \cup {r} ELSE revoked
      /\ start_next(pending, worker_busy)
      /\ UNCHANGED <<lifecycle, workspaceVars, controls, invalidated, next_serial, working, event,
                     diskVars, askedAt, answers, client>>
  BY DEF cancel_request
<1>2. /\ pending' \in Seq(Job) /\ slot' \in Seq(Job) /\ worker_busy' \in BOOLEAN
      /\ ToSet(pending') \cup ToSet(slot') = ToSet(pending) \cup ToSet(slot)
      /\ pending' # <<>> => worker_busy'
      /\ Len(slot') + (IF worker_busy THEN 1 ELSE 0) = Len(slot) + (IF worker_busy' THEN 1 ELSE 0)
      /\ OneWaits(pending')
  <2>1. ~worker_busy => slot = <<>>
    BY WorkerHolds DEF IInv
  <2>2. OneWaits(pending)
    BY OneWaitsAgrees DEF IInv, WorkConserving
  <2> QED
    BY <1>1, <2>1, <2>2, StartNext DEF IInv, TypeOK
<1>3. Held' = Held
  BY <1>1, <1>2 DEF Held
<1>4. StoppedInv'
  BY <1>1 DEF IInv, StoppedInv, Flagged
<1>5. \A serial \in cancelled' : serial \in cancelled \/ serial \in controls
  BY <1>1 DEF ControlsOf
<1>6. TypeOK'
  BY <1>1, <1>2, <1>5, SetupFixed
     DEF IInv, TypeOK, workspaceVars, diskVars, Open, Shown, Version
<1>7. JobsInv'
  BY <1>1, <1>3, JobsKept DEF IInv, workspaceVars
<1>8. OverlayAgrees' /\ ClientInv'
  BY <1>1 DEF IInv, OverlayAgrees, ClientInv, workspaceVars, Open
<1>9. WorkConserving'
  <2>1. Len(slot) \in Nat /\ Len(working) \in Nat /\ Len(event) \in Nat /\ Len(slot') \in Nat
    BY <1>2, EmptyLen DEF IInv, TypeOK
  <2>2. Len(slot) + Len(working) + Len(event) = IF worker_busy THEN 1 ELSE 0
    BY DEF IInv, WorkConserving
  <2>3. Len(slot') + Len(working') + Len(event') = IF worker_busy' THEN 1 ELSE 0
    BY <1>1, <1>2, <2>1, <2>2
  <2> QED
    BY <1>2, <2>3 DEF WorkConserving, OneWaits, WaitingDiagnostics
<1>10. ASSUME NEW q \in Requests PROVE RequestInv(q)'
  <2>1. RequestInv(q) /\ JobsOf(q)' = JobsOf(q) /\ RequestInv(r)
    BY <1>3 DEF IInv, JobsOf
  <2>2. CASE q = r
    <3>1. \A j \in JobsOf(r) : j.serial \in controls => j.serial \in cancelled'
      BY <1>1, ControlsOfJobs
    <3>2. Fresh(r)' <=> Fresh(r)
      BY <1>1, SetupFixed DEF Fresh
    <3>3. answers[r] = <<>> => r \in revoked'
      BY <1>1
    <3>4. answers[r] # <<>> => revoked' = revoked
      BY <1>1
    <3> QED
      BY <1>1, <2>1, <2>2, <3>1, <3>2, <3>3, <3>4 DEF RequestInv, workspaceVars
  <2>3. CASE q # r
    <3>1. ASSUME NEW j \in JobsOf(q) PROVE j.serial \in cancelled' <=> j.serial \in cancelled
      <4>1. j.serial \notin ControlsOf(r)
        BY <2>3, <3>1, ControlsOfJobs DEF IInv, JobsInv, JobsOf
      <4> QED
        BY <1>1, <4>1
    <3>2. (q \in revoked' <=> q \in revoked) /\ generation \in Nat /\ askedAt[q] \in Nat
      BY <1>1, <2>3, Bound DEF IInv, TypeOK
    <3> QED
      BY <1>1, <2>1, <3>1, <3>2, RequestKept DEF workspaceVars
  <2> QED
    BY <2>2, <2>3
<1> QED
  BY <1>4, <1>6, <1>7, <1>8, <1>9, <1>10, SetupFixed DEF IInv

-----------------------------------------------------------------------------
(* A result of the worker. *)

LEMMA PartialApply ==
  ASSUME NEW S, NEW T, NEW f \in Partial(S, T)
  PROVE  DOMAIN f \subseteq S /\ \A x \in DOMAIN f : f[x] \in T
BY PartialDef

LEMMA DocsTyped ==
  ASSUME TypeOK
  PROVE  /\ DOMAIN docs \subseteq Uris
         /\ \A u \in DOMAIN docs : /\ docs[u] \in Document /\ docs[u].version \in Version
                                   /\ docs[u].module \in Uris
<1>1. docs \in Partial(Uris, Document)
  BY DEF TypeOK
<1>2. DOMAIN docs \subseteq Uris /\ \A u \in DOMAIN docs : docs[u] \in Document
  BY <1>1, PartialApply
<1> QED
  BY <1>2 DEF Document

LEMMA AnalysisTyped ==
  ASSUME TypeOK
  PROVE  analyze_diagnostics(docs) \in Partial(Uris, Shown)
<1> DEFINE D == {v \in Sources(docs) : v \in DOMAIN docs \/ IssuesIn(docs, v) # {}}
           f == [u \in D |-> [version |-> IF u \in DOMAIN docs THEN docs[u].version ELSE None,
                              issues |-> IssuesIn(docs, u)]]
<1>1. DOMAIN docs \subseteq Uris /\ \A u \in DOMAIN docs : docs[u].version \in Version
  BY DocsTyped
<1>2. D \subseteq Uris
  BY <1>1, ServerAssumption DEF ServerAssumption, Sources
<1>3. \A u \in D : f[u] \in Shown
  BY <1>1 DEF Shown, IssuesIn
<1>4. f \in [D -> Shown] /\ DOMAIN f = D
  BY <1>3
<1>5. analyze_diagnostics(docs) = f
  BY DEF analyze_diagnostics
<1> HIDE DEF f, D
<1> QED
  BY <1>2, <1>4, <1>5, PartialDef

\* After a publication the client shows exactly the issues that were published.
LEMMA PublishShows ==
  ASSUME TypeOK, ClientInv, publish_diagnostics(analyze_diagnostics(docs))
  PROVE  /\ published' \in Partial(Uris, Shown) /\ client' \in [Uris -> Shown]
         /\ ClientInv' /\ ShowsIssuesOf(docs, client')
<1> DEFINE next == analyze_diagnostics(docs)
<1>1. next \in Partial(Uris, Shown) /\ published \in Partial(Uris, Shown)
  BY AnalysisTyped DEF TypeOK
<1>2. /\ DOMAIN next \subseteq Uris /\ \A u \in DOMAIN next : next[u] \in Shown
      /\ DOMAIN docs \subseteq Uris /\ \A u \in DOMAIN docs : docs[u].version \in Version
  BY <1>1, PartialApply, DocsTyped
<1>3. /\ published' = next
      /\ client' = [u \in Uris |->
           CASE u \in DOMAIN next /\ (u \in DOMAIN published => published[u] # next[u]) -> next[u]
             [] u \in DOMAIN published \ DOMAIN next ->
                  [version |-> IF u \in Open THEN docs[u].version ELSE None, issues |-> {}]
             [] OTHER -> client[u]]
  BY DEF publish_diagnostics
<1> HIDE DEF next
<1>4. ASSUME NEW u \in Uris
      PROVE  /\ client'[u] \in Shown
             /\ IF u \in DOMAIN next THEN client'[u] = next[u] ELSE client'[u].issues = {}
  <2>1. client[u] \in Shown
        /\ IF u \in DOMAIN published THEN client[u] = published[u] ELSE client[u].issues = {}
    BY DEF TypeOK, ClientInv
  <2>2. CASE u \in DOMAIN next /\ (u \in DOMAIN published => published[u] # next[u])
    BY <1>2, <1>3, <2>2
  <2>3. CASE u \in DOMAIN next /\ u \in DOMAIN published /\ published[u] = next[u]
    BY <1>3, <2>1, <2>3
  <2>4. CASE u \in DOMAIN published \ DOMAIN next
    <3>1. client'[u] = [version |-> IF u \in Open THEN docs[u].version ELSE None, issues |-> {}]
      BY <1>3, <2>4
    <3>2. (IF u \in Open THEN docs[u].version ELSE None) \in Version \cup {None}
      BY <1>2 DEF Open
    <3> QED
      BY <2>4, <3>1, <3>2 DEF Shown
  <2>5. CASE u \notin DOMAIN next /\ u \notin DOMAIN published
    BY <1>3, <2>1, <2>5
  <2> QED
    BY <2>2, <2>3, <2>4, <2>5
<1>5. client' \in [Uris -> Shown]
  BY <1>3, <1>4
<1> QED
  BY <1>1, <1>3, <1>4, <1>5 DEF ClientInv, ShowsIssuesOf, next

\* What `complete` finds: the worker holds nothing but this result.
LEMMA ResultHeld ==
  ASSUME IInv, event # <<>>
  PROVE  /\ event[1] \in Result /\ event[1].job \in Held /\ event[1].job \in Job
         /\ DOMAIN event = {1} /\ slot = <<>> /\ working = <<>>
         /\ Held = ToSet(pending) \cup {event[1].job}
<1>1. slot = <<>> /\ working = <<>> /\ Len(event) = 1
  BY WorkerHolds DEF IInv
<1>2. event \in Seq(Result) /\ event = <<event[1]>> /\ event[1] \in Result
  BY <1>1, Singleton DEF IInv, TypeOK
<1>3. DOMAIN event = {1}
  BY <1>1, <1>2, LenProperties
<1>4. Held = ToSet(pending) \cup {event[1].job}
  BY <1>1, <1>3, EmptyToSet DEF Held
<1> QED
  BY <1>1, <1>2, <1>3, <1>4 DEF Result

LEMMA FinishAnswer ==
  ASSUME IInv, event # <<>>, event[1].job.kind = "request", event[1].job.serial \in controls
  PROVE  /\ finish(event[1].job) \in Answer
         /\ finish(event[1].job) = "RequestCancelled" <=> event[1].job.serial \in cancelled
         /\ finish(event[1].job) = "ContentModified" => event[1].job.generation < generation
         /\ finish(event[1].job) = "computed" => event[1].job.docs = docs
<1> DEFINE job == event[1].job
<1>1. /\ event[1] \in Result /\ job \in Held /\ DOMAIN event = {1}
      /\ job.generation \in Nat
  BY ResultHeld, HeldTyped DEF IInv
<1>2. JobInv(job) /\ generation \in Nat
  BY <1>1, Bound DEF IInv, JobsInv, TypeOK
<1>3. event[1].outcome \in {"computed", "stopped"}
  BY <1>1 DEF IInv, StoppedInv, Result
<1>4. event[1].outcome = "stopped" => job.serial \in cancelled \/ job.serial \in invalidated
  BY <1>1 DEF IInv, StoppedInv, Flagged
<1> HIDE DEF job
<1>5. CASE job.serial \in cancelled
  <2>1. finish(job) = "RequestCancelled"
    BY <1>5 DEF finish
  <2> QED
    BY <1>5, <2>1 DEF Answer, job
<1>6. CASE job.serial \notin cancelled /\ job.generation # generation
  <2>1. finish(job) = "ContentModified"
    BY <1>6 DEF finish
  <2>2. job.generation < generation
    BY <1>1, <1>2, <1>6 DEF JobInv
  <2> QED
    BY <1>6, <2>1, <2>2 DEF Answer, job
<1>7. CASE job.serial \notin cancelled /\ job.generation = generation
  <2>1. event[1].outcome = "computed"
    BY <1>1, <1>2, <1>3, <1>4, <1>7 DEF JobInv
  <2>2. finish(job) = "computed"
    BY <1>7, <2>1 DEF finish, job
  <2> QED
    BY <1>2, <1>7, <2>2 DEF Answer, JobInv, job
<1> QED
  BY <1>5, <1>6, <1>7 DEF job

LEMMA CompleteKeeps ==
  ASSUME IInv, complete, UNCHANGED setup
  PROVE  IInv'
<1> DEFINE job == event[1].job
<1>1. /\ lifecycle # "Exited" /\ event # <<>> /\ event' = <<>>
      /\ controls' = controls \ {job.serial}
      /\ start_next(pending, FALSE)
      /\ UNCHANGED <<lifecycle, docs, owners, generation, cancelled, invalidated, next_serial,
                     working, diskVars, askedAt, revoked>>
  BY DEF complete
<1>2. /\ job \in Held /\ job \in Job /\ job.serial \in Nat /\ job.kind \in {"diagnostics", "request"}
      /\ slot = <<>> /\ working = <<>> /\ Held = ToSet(pending) \cup {job}
      /\ job.kind = "request" => job.id \in Requests
      /\ \A j \in Held : j.serial = job.serial => j = job
  <2>1. job \in Held /\ job \in Job /\ slot = <<>> /\ working = <<>> /\ Held = ToSet(pending) \cup {job}
    BY <1>1, ResultHeld
  <2>2. job.serial \in Nat /\ job.kind \in {"diagnostics", "request"}
    BY <2>1 DEF Job
  <2> HIDE DEF job
  <2> QED
    BY <2>1, <2>2 DEF IInv, JobsInv, JobInv
\* What a diagnostics result publishes, a request's result answers.
<1>3. /\ published' \in Partial(Uris, Shown) /\ client' \in [Uris -> Shown] /\ ClientInv'
  <2>1. CASE UNCHANGED <<published, client>>
    BY <2>1 DEF IInv, TypeOK, ClientInv
  <2>2. CASE Publishable(job) /\ publish_diagnostics(analyze_diagnostics(job.docs))
    <3>1. JobInv(job) /\ job.generation = generation
      BY <1>2, <2>2 DEF IInv, JobsInv, Publishable
    <3>2. job.docs = docs
      BY <3>1 DEF JobInv
    <3> QED
      BY <2>2, <3>2, PublishShows DEF IInv
  <2> QED
    BY <1>1, <2>1, <2>2 DEF complete
<1>4. answers' = IF job.kind = "request" /\ job.serial \in controls
                 THEN [answers EXCEPT ![job.id] = Append(@, finish(job))] ELSE answers
  BY <1>2 DEF complete
<1>5. job.kind = "request" /\ job.serial \in controls =>
        /\ answers[job.id] = <<>> /\ ~Fresh(job.id) /\ lifecycle = "Running"
        /\ job.serial \in cancelled <=> job.id \in revoked
        /\ askedAt[job.id] = job.generation
        /\ answers'[job.id] = <<finish(job)>> /\ <<finish(job)>> \in Seq(Answer)
  <2> SUFFICES ASSUME job.kind = "request", job.serial \in controls
               PROVE  /\ answers[job.id] = <<>> /\ ~Fresh(job.id) /\ lifecycle = "Running"
                      /\ job.serial \in cancelled <=> job.id \in revoked
                      /\ askedAt[job.id] = job.generation
                      /\ answers'[job.id] = <<finish(job)>> /\ <<finish(job)>> \in Seq(Answer)
    OBVIOUS
  <2>1. job \in JobsOf(job.id) /\ RequestInv(job.id)
    BY <1>2 DEF JobsOf, IInv
  <2>2. /\ answers[job.id] = <<>> /\ ~Fresh(job.id) /\ lifecycle = "Running"
        /\ job.serial \in cancelled <=> job.id \in revoked
        /\ askedAt[job.id] = job.generation
    BY <2>1 DEF RequestInv
  <2>3. finish(job) \in Answer
    BY <1>1, FinishAnswer
  <2>4. <<finish(job)>> \in Seq(Answer)
    BY <2>3, OneElement
  <2>5. answers'[job.id] = Append(<<>>, finish(job))
    BY <1>2, <1>4, <2>2 DEF IInv, TypeOK
  <2>6. Append(<<>>, finish(job)) = <<finish(job)>>
    OBVIOUS
  <2> QED
    BY <2>2, <2>4, <2>5, <2>6
<1> HIDE DEF job
<1>6. answers' \in [Requests -> Seq(Answer)]
  BY <1>2, <1>4, <1>5 DEF IInv, TypeOK
<1>7. /\ pending' \in Seq(Job) /\ slot' \in Seq(Job) /\ worker_busy' \in BOOLEAN
      /\ ToSet(pending') \cup ToSet(slot') = ToSet(pending)
      /\ pending' # <<>> => worker_busy'
      /\ Len(slot') = IF worker_busy' THEN 1 ELSE 0
      /\ OneWaits(pending')
  <2>1. OneWaits(pending) /\ ToSet(slot) = {} /\ Len(slot) = 0
    BY <1>2, OneWaitsAgrees, EmptyToSet DEF IInv, WorkConserving
  <2>2. slot \in Seq(Job) /\ pending \in Seq(Job)
    BY DEF IInv, TypeOK
  <2>3. /\ pending' \in Seq(Job) /\ slot' \in Seq(Job) /\ worker_busy' \in BOOLEAN
        /\ ToSet(pending') \cup ToSet(slot') = ToSet(pending) \cup ToSet(slot)
        /\ pending' # <<>> => worker_busy'
        /\ Len(slot') + (IF FALSE THEN 1 ELSE 0) = Len(slot) + (IF worker_busy' THEN 1 ELSE 0)
        /\ OneWaits(pending')
    BY <1>1, <1>2, <2>1, <2>2, StartNext
  <2>4. Len(slot') \in Nat
    BY <2>3, EmptyLen
  <2> QED
    BY <2>1, <2>3, <2>4
<1>8. Held' \subseteq Held /\ \A j \in Held : j # job => j \in Held'
  <2>1. ToSet(working') = {} /\ {event'[i].job : i \in DOMAIN event'} = {}
    BY <1>1, <1>2, EmptyToSet
  <2>2. Held' = ToSet(pending)
    BY <1>7, <2>1 DEF Held
  <2> QED
    BY <1>2, <2>2
<1>9. TypeOK'
  <2>1. event' \in Seq(Result) /\ \A serial \in controls' : serial \in controls
    BY <1>1, EmptySeq
  <2> QED
    BY <1>1, <1>3, <1>6, <1>7, <2>1, SetupFixed DEF IInv, TypeOK, diskVars, Open, Shown, Version
<1>10. JobsInv' /\ StoppedInv'
  <2>1. JobsInv'
    BY <1>1, <1>8, JobsKept DEF IInv
  <2>2. StoppedInv'
    BY <1>1, EmptySeq DEF StoppedInv
  <2> QED
    BY <2>1, <2>2
<1>11. OverlayAgrees' /\ WorkConserving'
  <2>1. OverlayAgrees'
    BY <1>1 DEF IInv, OverlayAgrees, Open
  <2>2. Len(working') = 0 /\ Len(event') = 0
    BY <1>1, <1>2
  <2>3. Len(slot') \in Nat
    BY <1>7, EmptyLen
  <2> QED
    BY <1>7, <2>1, <2>2, <2>3 DEF WorkConserving, OneWaits, WaitingDiagnostics
<1>12. ASSUME NEW r \in Requests PROVE RequestInv(r)'
  <2>1. RequestInv(r) /\ generation \in Nat /\ askedAt[r] \in Nat /\ (Fresh(r)' <=> Fresh(r))
    BY <1>1, Bound, SetupFixed DEF IInv, TypeOK, Fresh
  <2>2. CASE ~(job.kind = "request" /\ job.id = r)
    <3>1. JobsOf(r)' = JobsOf(r)
      BY <1>8, <2>2 DEF JobsOf
    <3>2. answers'[r] = answers[r]
      BY <1>4, <1>2, <2>2 DEF IInv, TypeOK
    <3>3. \A j \in JobsOf(r) : j.serial # job.serial
      BY <1>2, <2>2 DEF JobsOf
    <3> QED
      BY <1>1, <2>1, <3>1, <3>2, <3>3, RequestKept
  <2>3. CASE job.kind = "request" /\ job.id = r /\ job.serial \in controls
    <3>1. \A j \in JobsOf(r)' : j \in JobsOf(r) /\ j = job
      BY <1>2, <1>8, <2>1, <2>3 DEF JobsOf, RequestInv
    <3>2. /\ finish(job) = "RequestCancelled" <=> job.serial \in cancelled
          /\ finish(job) = "ContentModified" => job.generation < generation
      BY <1>1, <2>3, FinishAnswer DEF job
    <3>3. answers'[r] = <<finish(job)>> /\ answers'[r] # <<>> /\ answers'[r][1] = finish(job)
      BY <1>5, <2>3
    <3>4. finish(job) = "ContentModified" => generation' > askedAt'[r]
      BY <1>1, <1>5, <2>1, <2>3, <3>2
    <3>5. /\ finish(job) = "RequestCancelled" => r \in revoked'
          /\ r \in revoked' => finish(job) = "RequestCancelled"
      BY <1>1, <1>5, <2>3, <3>2
    <3>6. ~Fresh(r)' /\ \A j \in JobsOf(r)' : askedAt'[r] = j.generation /\ j.serial \notin controls'
      BY <1>1, <1>5, <2>1, <2>3, <3>1
    <3>7. answers'[r] = <<answers'[r][1]>> /\ \A j, k \in JobsOf(r)' : j = k
      BY <3>1, <3>3
    <3> QED
      BY <3>3, <3>4, <3>5, <3>6, <3>7 DEF RequestInv
  <2>4. CASE job.kind = "request" /\ job.id = r /\ job.serial \notin controls
    <3>1. controls' = controls /\ answers' = answers
      BY <1>1, <1>4, <2>4
    <3>2. JobsOf(r)' \subseteq JobsOf(r) /\ job \in JobsOf(r)
      BY <1>2, <1>8, <2>4 DEF JobsOf
    <3>3. \A j \in JobsOf(r) : j.serial \notin controls
      BY <2>1, <2>4, <3>2 DEF RequestInv
    <3> QED
      BY <1>1, <2>1, <3>1, <3>2, <3>3 DEF RequestInv
  <2> QED
    BY <2>2, <2>3, <2>4
<1> QED
  BY <1>1, <1>3, <1>9, <1>10, <1>11, <1>12, SetupFixed DEF IInv

-----------------------------------------------------------------------------
(* A new job: its serial is unused, and every older job stays what it was. *)

LEMMA Queued ==
  ASSUME IInv, NEW queue \in Seq(Job), NEW new \in Job, OneWaits(Append(queue, new)),
         start_next(Append(queue, new), worker_busy), UNCHANGED <<working, event>>
  PROVE  /\ pending' \in Seq(Job) /\ slot' \in Seq(Job) /\ worker_busy' \in BOOLEAN
         /\ Held' = ToSet(queue) \cup {new} \cup ToSet(slot) \cup ToSet(working)
                    \cup {event[i].job : i \in DOMAIN event}
         /\ WorkConserving'
<1>1. Append(queue, new) \in Seq(Job) /\ ToSet(Append(queue, new)) = ToSet(queue) \cup {new}
  BY AppendProperties, AppendToSet
<1>2. slot \in Seq(Job) /\ worker_busy \in BOOLEAN /\ (~worker_busy => slot = <<>>)
  BY WorkerHolds DEF IInv, TypeOK
<1>3. /\ pending' \in Seq(Job) /\ slot' \in Seq(Job) /\ worker_busy' \in BOOLEAN
      /\ ToSet(pending') \cup ToSet(slot') = ToSet(Append(queue, new)) \cup ToSet(slot)
      /\ pending' # <<>> => worker_busy'
      /\ Len(slot') + (IF worker_busy THEN 1 ELSE 0) = Len(slot) + (IF worker_busy' THEN 1 ELSE 0)
      /\ OneWaits(pending')
  BY <1>1, <1>2, StartNext
<1>4. Held' = ToSet(queue) \cup {new} \cup ToSet(slot) \cup ToSet(working)
              \cup {event[i].job : i \in DOMAIN event}
  BY <1>1, <1>3 DEF Held
<1>5. Len(slot') + Len(working') + Len(event') = IF worker_busy' THEN 1 ELSE 0
  <2>1. /\ Len(slot) \in Nat /\ Len(working) \in Nat /\ Len(event) \in Nat /\ Len(slot') \in Nat
    BY <1>3, EmptyLen DEF IInv, TypeOK
  <2>2. Len(slot) + Len(working) + Len(event) = IF worker_busy THEN 1 ELSE 0
    BY DEF IInv, WorkConserving
  <2> QED
    BY <1>3, <2>1, <2>2
<1> QED
  BY <1>3, <1>4, <1>5 DEF WorkConserving, OneWaits, WaitingDiagnostics

LEMMA NewJob ==
  ASSUME TypeOK, JobsInv, NEW new \in Job, Held' \subseteq Held \cup {new}, setup' = setup,
         new.serial = next_serial, next_serial' = next_serial + 1,
         new.generation = generation', new.docs = docs', new.kind = "request" => new.id \in Requests,
         generation \in Nat,
         (generation' = generation /\ docs' = docs) \/ generation' = generation + 1,
         next_serial \notin invalidated',
         \A j \in Held : j.serial \in invalidated' => j.serial \in invalidated \/ generation' = generation + 1
  PROVE  JobsInv'
<1>1. \A j \in Held : JobInv(j) /\ j.serial \in Nat /\ j.generation \in Nat
  BY HeldTyped DEF JobsInv
<1>2. Requests' = Requests /\ next_serial \in Nat
  BY SetupFixed DEF TypeOK
<1>3. ASSUME NEW j \in Held PROVE JobInv(j)'
  <2>1. j.serial < next_serial' /\ j.generation <= generation'
    BY <1>1, <1>2 DEF JobInv
  <2>2. CASE generation' = generation /\ docs' = docs
    <3>1. generation' # generation + 1
      BY <2>2
    <3> QED
      BY <1>1, <1>2, <2>1, <2>2, <3>1 DEF JobInv
  <2>3. CASE generation' = generation + 1
    <3>1. j.generation < generation'
      BY <1>1, <2>3 DEF JobInv
    <3>2. j.generation # generation'
      BY <1>1, <2>3, <3>1
    <3> QED
      BY <1>1, <1>2, <2>1, <3>1, <3>2 DEF JobInv
  <2> QED
    BY <2>2, <2>3
<1>4. JobInv(new)'
  <2>1. new.serial < next_serial' /\ new.generation <= generation'
    BY <1>2
  <2> QED
    BY <1>2, <2>1 DEF JobInv
<1>5. ASSUME NEW j \in Held PROVE j.serial # new.serial
  BY <1>1, <1>2, <1>5 DEF JobInv
<1> QED
  BY <1>3, <1>4, <1>5 DEF JobsInv

LEMMA QueueRequestKeeps ==
  ASSUME IInv, NEW r \in Requests, queue_request(r), UNCHANGED setup
  PROVE  IInv'
<1> DEFINE new == Request(r)
<1>1. /\ lifecycle = "Running" /\ Fresh(r)
      /\ askedAt' = [askedAt EXCEPT ![r] = generation]
      /\ controls' = controls \cup {next_serial} /\ next_serial' = next_serial + 1
      /\ start_next(Append(pending, new), worker_busy)
      /\ UNCHANGED <<lifecycle, workspaceVars, cancelled, invalidated, working, event, diskVars,
                     answers, revoked, client>>
  BY DEF queue_request
<1>2. generation \in Nat /\ generation \in 0..Never /\ generation # Never /\ next_serial \in Nat
  BY Bound DEF IInv, TypeOK
<1>3. /\ new \in Job /\ new.serial = next_serial /\ new.generation = generation
      /\ new.docs = docs /\ new.kind = "request" /\ new.id = r
  BY <1>2 DEF IInv, TypeOK, Request, Job
<1> HIDE DEF new
<1>4. pending \in Seq(Job) /\ OneWaits(Append(pending, new))
  <2>1. pending \in Seq(Job) /\ OneWaits(pending) /\ DOMAIN pending = 1..Len(pending) /\ Len(pending) \in Nat
    BY OneWaitsAgrees, LenProperties DEF IInv, TypeOK, WorkConserving
  <2>2. /\ Append(pending, new) \in Seq(Job) /\ Len(Append(pending, new)) = Len(pending) + 1
        /\ \A i \in 1..Len(pending) : Append(pending, new)[i] = pending[i]
        /\ Append(pending, new)[Len(pending) + 1] = new
    BY <1>3, <2>1, AppendProperties
  <2>3. DOMAIN Append(pending, new) = 1..(Len(pending) + 1)
    BY <2>2, LenProperties
  <2>4. \A i \in DOMAIN Append(pending, new) :
          Append(pending, new)[i].kind = "diagnostics" => i \in 1..Len(pending)
    BY <1>3, <2>1, <2>2, <2>3
  <2> QED
    BY <2>1, <2>2, <2>4 DEF OneWaits
<1>5. /\ pending' \in Seq(Job) /\ slot' \in Seq(Job) /\ worker_busy' \in BOOLEAN
      /\ Held' = Held \cup {new} /\ WorkConserving'
  <2>1. /\ pending' \in Seq(Job) /\ slot' \in Seq(Job) /\ worker_busy' \in BOOLEAN
        /\ Held' = ToSet(pending) \cup {new} \cup ToSet(slot) \cup ToSet(working)
                   \cup {event[i].job : i \in DOMAIN event}
        /\ WorkConserving'
    BY <1>1, <1>3, <1>4, Queued
  <2> QED
    BY <2>1 DEF Held
<1>6. \A serial \in controls \cup cancelled \cup invalidated : serial \in Nat /\ serial < next_serial
  BY DEF IInv, TypeOK
<1>7. TypeOK'
  <2>1. \A serial \in controls' \cup cancelled' \cup invalidated' : serial \in Nat /\ serial < next_serial'
    BY <1>1, <1>2, <1>6
  <2>2. askedAt' \in [Requests -> 0..Never]
    BY <1>1, <1>2 DEF IInv, TypeOK
  <2> QED
    BY <1>1, <1>2, <1>5, <2>1, <2>2, SetupFixed
       DEF IInv, TypeOK, workspaceVars, diskVars, Open, Shown, Version
<1>8. JobsInv'
  <2>1. next_serial \notin invalidated'
    BY <1>1, <1>2, <1>6
  <2> QED
    BY <1>1, <1>2, <1>3, <1>5, <2>1, NewJob DEF IInv, workspaceVars
<1>9. StoppedInv' /\ OverlayAgrees' /\ ClientInv'
  BY <1>1 DEF IInv, StoppedInv, Flagged, OverlayAgrees, ClientInv, workspaceVars, Open
<1>10. ASSUME NEW q \in Requests PROVE RequestInv(q)'
  <2>1. RequestInv(q) /\ \A j \in Held : j.serial < next_serial /\ j.serial \in Nat
    BY HeldTyped DEF IInv, JobsInv, JobInv
  <2>2. CASE q = r
    <3>1. answers[r] = <<>> /\ r \notin revoked /\ JobsOf(r) = {}
      BY <1>1, <2>1, <2>2 DEF RequestInv
    <3>2. JobsOf(r)' = {new}
      BY <1>3, <1>5, <3>1 DEF JobsOf
    <3>3. askedAt'[r] = generation /\ ~Fresh(r)'
      BY <1>1, <1>2, SetupFixed DEF IInv, TypeOK, Fresh
    <3>4. new.serial \in controls' /\ new.serial \notin cancelled'
      BY <1>1, <1>2, <1>3, <1>6
    <3> QED
      BY <1>1, <1>3, <2>2, <3>1, <3>2, <3>3, <3>4 DEF RequestInv
  <2>3. CASE q # r
    <3>1. JobsOf(q)' = JobsOf(q)
      BY <1>3, <1>5, <2>3 DEF JobsOf
    <3>2. askedAt'[q] = askedAt[q] /\ askedAt[q] \in Nat
      BY <1>1, <2>3, Bound DEF IInv, TypeOK
    <3>3. \A j \in JobsOf(q) : j.serial # next_serial
      BY <1>2, <2>1 DEF JobsOf
    <3> QED
      BY <1>1, <1>2, <2>1, <3>1, <3>2, <3>3, RequestKept DEF workspaceVars
  <2> QED
    BY <2>2, <2>3
<1> QED
  BY <1>1, <1>5, <1>7, <1>8, <1>9, <1>10, SetupFixed DEF IInv

-----------------------------------------------------------------------------
(* A document changed: `workspace_changed`. *)

\* Without the diagnostics that wait, every request still waits.
LEMMA WaitingKept ==
  ASSUME IInv,
         NEW waiting,
         waiting = IF WaitingDiagnostics = {} THEN pending
                   ELSE RemoveAt(pending, CHOOSE i \in WaitingDiagnostics : TRUE)
  PROVE  /\ waiting \in Seq(Job) /\ ToSet(waiting) \subseteq ToSet(pending)
         /\ \A j \in ToSet(pending) : j.kind = "request" => j \in ToSet(waiting)
         /\ \A i \in DOMAIN waiting : waiting[i].kind # "diagnostics"
<1>1. pending \in Seq(Job) /\ OneWaits(pending) /\ DOMAIN pending = 1..Len(pending) /\ Len(pending) \in Nat
  BY OneWaitsAgrees, LenProperties DEF IInv, TypeOK, WorkConserving
<1>2. CASE WaitingDiagnostics = {}
  BY <1>1, <1>2 DEF WaitingDiagnostics
<1>3. CASE WaitingDiagnostics # {}
  <2> DEFINE i == CHOOSE k \in WaitingDiagnostics : TRUE
  <2>1. i \in DOMAIN pending /\ pending[i].kind = "diagnostics"
    BY <1>3 DEF WaitingDiagnostics
  <2>2. waiting = RemoveAt(pending, i)
    BY <1>3
  <2> HIDE DEF i
  <2> DEFINE w == RemoveAt(pending, i)
  <2>3. /\ w \in Seq(Job) /\ Len(w) = Len(pending) - 1
        /\ \A k \in DOMAIN w : w[k] = IF k < i THEN pending[k] ELSE pending[k + 1]
        /\ ToSet(w) \subseteq ToSet(pending)
        /\ \A k \in DOMAIN pending : k # i => pending[k] \in ToSet(w)
    BY ONLY <1>1, <2>1, RemovedToSet
  <2>4. /\ waiting \in Seq(Job) /\ Len(waiting) = Len(pending) - 1
        /\ \A k \in DOMAIN waiting : waiting[k] = IF k < i THEN pending[k] ELSE pending[k + 1]
        /\ ToSet(waiting) \subseteq ToSet(pending)
        /\ \A k \in DOMAIN pending : k # i => pending[k] \in ToSet(waiting)
    BY ONLY <2>2, <2>3
  <2>5. DOMAIN waiting = 1..(Len(pending) - 1)
    BY <2>4, LenProperties
  <2>6. ASSUME NEW k \in DOMAIN waiting PROVE waiting[k].kind # "diagnostics"
    <3>1. k \in 1..Len(pending) /\ k + 1 \in 1..Len(pending)
      BY <1>1, <2>5
    <3>2. CASE k < i
      <4>1. k # i
        BY ONLY <1>1, <2>1, <3>1, <3>2
      <4>2. waiting[k] = pending[k]
        BY <2>4, <3>2
      <4> QED
        BY <1>1, <2>1, <3>1, <4>1, <4>2 DEF OneWaits
    <3>3. CASE ~(k < i)
      <4>1. k + 1 # i
        BY <1>1, <2>1, <3>1, <3>3
      <4> QED
        BY <1>1, <2>1, <2>4, <3>1, <3>3, <4>1 DEF OneWaits
    <3> QED
      BY <3>2, <3>3
  <2>7. ASSUME NEW j \in ToSet(pending), j.kind = "request" PROVE j \in ToSet(waiting)
    <3>1. PICK k \in DOMAIN pending : j = pending[k]
      BY DEF ToSet
    <3>2. k # i
      BY <2>1, <2>7, <3>1
    <3> QED
      BY <2>4, <3>1, <3>2
  <2> QED
    BY <2>4, <2>6, <2>7
<1> QED
  BY <1>2, <1>3

LEMMA WorkspaceKeeps ==
  ASSUME IInv, UNCHANGED setup, generation < MaxGeneration, generation' = generation + 1,
         docs' \in Partial(Uris, Document), owners' \in Partial(Uris, Uris), OverlayAgrees',
         workspace_changed, UNCHANGED <<lifecycle, published, diskVars, clientVars>>
  PROVE  IInv'
<1> DEFINE waiting == IF WaitingDiagnostics = {} THEN pending
                      ELSE RemoveAt(pending, CHOOSE i \in WaitingDiagnostics : TRUE)
           removed == {pending[i].serial : i \in WaitingDiagnostics}
           new == Diagnostics
<1>1. /\ invalidated' = invalidated \cup controls
      /\ controls' = (controls \ removed) \cup {next_serial} /\ next_serial' = next_serial + 1
      /\ start_next(Append(waiting, new), worker_busy)
      /\ UNCHANGED <<cancelled, working, event>>
  BY DEF workspace_changed
<1>2. generation \in Nat /\ generation' \in Nat /\ generation' \in 0..MaxGeneration /\ next_serial \in Nat
  BY Bound DEF IInv, TypeOK
<1>3. /\ new \in Job /\ new.serial = next_serial /\ new.generation = generation'
      /\ new.docs = docs' /\ new.kind = "diagnostics"
  BY <1>2 DEF Diagnostics, Job
<1>4. /\ waiting \in Seq(Job) /\ ToSet(waiting) \subseteq ToSet(pending)
      /\ \A j \in ToSet(pending) : j.kind = "request" => j \in ToSet(waiting)
      /\ \A i \in DOMAIN waiting : waiting[i].kind # "diagnostics"
  BY WaitingKept
<1>5. \A j \in Held : j.kind = "request" => j.serial \notin removed
  <2>1. \A i \in WaitingDiagnostics : pending[i] \in Held /\ pending[i].kind = "diagnostics"
    BY HeldTyped DEF IInv, WaitingDiagnostics
  <2> QED
    BY <2>1 DEF IInv, JobsInv
<1> HIDE DEF waiting, removed, new
<1>6. OneWaits(Append(waiting, new))
  <2>1. DOMAIN waiting = 1..Len(waiting) /\ Len(waiting) \in Nat
    BY <1>4, LenProperties
  <2>2. /\ Append(waiting, new) \in Seq(Job) /\ Len(Append(waiting, new)) = Len(waiting) + 1
        /\ \A i \in 1..Len(waiting) : Append(waiting, new)[i] = waiting[i]
    BY <1>3, <1>4, AppendProperties
  <2>3. DOMAIN Append(waiting, new) = 1..(Len(waiting) + 1)
    BY <2>2, LenProperties
  <2>4. \A i \in DOMAIN Append(waiting, new) :
          Append(waiting, new)[i].kind = "diagnostics" => i = Len(waiting) + 1
    BY <1>4, <2>1, <2>2, <2>3
  <2> QED
    BY <2>4 DEF OneWaits
<1>7. /\ pending' \in Seq(Job) /\ slot' \in Seq(Job) /\ worker_busy' \in BOOLEAN /\ WorkConserving'
      /\ Held' = ToSet(waiting) \cup {new} \cup ToSet(slot) \cup ToSet(working)
                 \cup {event[i].job : i \in DOMAIN event}
  BY <1>1, <1>3, <1>4, <1>6, Queued
<1>8. Held' \subseteq Held \cup {new} /\ \A j \in Held : j.kind = "request" => j \in Held'
  BY <1>4, <1>7 DEF Held
<1>9. \A serial \in controls \cup cancelled \cup invalidated : serial \in Nat /\ serial < next_serial
  BY DEF IInv, TypeOK
<1>10. TypeOK'
  <2>1. \A serial \in controls' \cup cancelled' \cup invalidated' : serial \in Nat /\ serial < next_serial'
    BY <1>1, <1>2, <1>9
  <2>2. working' \in Seq(Job) /\ event' \in Seq(Result) /\ next_serial' \in Nat
    BY <1>1, <1>2 DEF IInv, TypeOK
  <2> QED
    BY <1>2, <1>7, <2>1, <2>2, SetupFixed DEF IInv, TypeOK, diskVars, clientVars, Shown, Version
<1>11. JobsInv'
  <2>1. next_serial \notin invalidated'
    BY <1>1, <1>2, <1>9
  <2> QED
    BY <1>1, <1>2, <1>3, <1>8, <2>1, NewJob DEF IInv
<1>12. StoppedInv' /\ ClientInv'
  <2>1. StoppedInv'
    BY <1>1 DEF IInv, StoppedInv, Flagged
  <2> QED
    BY <2>1 DEF IInv, ClientInv, clientVars
<1>13. ASSUME NEW r \in Requests PROVE RequestInv(r)'
  <2>1. RequestInv(r) /\ askedAt[r] \in Nat /\ \A j \in Held : j.serial < next_serial /\ j.serial \in Nat
    BY HeldTyped, Bound DEF IInv, TypeOK, JobsInv, JobInv
  <2>2. JobsOf(r)' = JobsOf(r)
    BY <1>3, <1>8 DEF JobsOf
  <2>3. \A j \in JobsOf(r) : j.serial # next_serial /\ j.serial \notin removed
    BY <1>2, <1>5, <2>1 DEF JobsOf
  <2>4. generation' >= generation
    BY <1>2
  <2> QED
    BY <1>1, <1>2, <2>1, <2>2, <2>3, <2>4, RequestKept DEF clientVars
<1> QED
  BY <1>7, <1>10, <1>11, <1>12, <1>13, SetupFixed DEF IInv

\* The overlay tables through an open, a change and a close.
LEMMA OpenKeeps ==
  ASSUME IInv, NEW u \in Uris, NEW version \in Version, NEW text \in setup.texts,
         did_open(u, version, text), UNCHANGED setup
  PROVE  IInv'
<1> DEFINE opened == [version |-> version, text |-> text, module |-> path[u]]
<1>1. /\ generation < MaxGeneration /\ u \notin DOMAIN docs /\ path[u] \notin DOMAIN owners
      /\ docs' = [v \in DOMAIN docs \cup {u} |-> IF v = u THEN opened ELSE docs[v]]
      /\ owners' = [m \in DOMAIN owners \cup {path[u]} |-> IF m = path[u] THEN u ELSE owners[m]]
      /\ generation' = generation + 1 /\ workspace_changed
      /\ UNCHANGED <<lifecycle, published, diskVars, clientVars>>
  BY DEF did_open, CanChange, Open
<1>2. path[u] \in Uris /\ opened \in Document /\ opened.module = path[u]
  BY DEF IInv, TypeOK, Document
<1> HIDE DEF opened
<1>3. DOMAIN owners \subseteq Uris /\ \A m \in DOMAIN owners : owners[m] \in Uris
  BY PartialApply DEF IInv, TypeOK
<1>4. docs' \in Partial(Uris, Document)
  <2>1. docs' \in [DOMAIN docs \cup {u} -> Document] /\ DOMAIN docs \cup {u} \subseteq Uris
    BY <1>1, <1>2, DocsTyped DEF IInv
  <2> QED
    BY <2>1, PartialDef
<1>5. owners' \in Partial(Uris, Uris)
  <2>1. owners' \in [DOMAIN owners \cup {path[u]} -> Uris] /\ DOMAIN owners \cup {path[u]} \subseteq Uris
    BY <1>1, <1>2, <1>3
  <2> QED
    BY <2>1, PartialDef
<1>6. OverlayAgrees'
  <2>1. /\ DOMAIN owners = {docs[v].module : v \in DOMAIN docs}
        /\ \A v \in DOMAIN docs : owners[docs[v].module] = v
    BY DEF IInv, OverlayAgrees, Open
  <2>2. DOMAIN docs' = DOMAIN docs \cup {u} /\ DOMAIN owners' = DOMAIN owners \cup {path[u]}
    BY <1>1
  <2>3. \A v \in DOMAIN docs : docs'[v] = docs[v]
    BY <1>1
  <2>4. docs'[u].module = path[u] /\ owners'[path[u]] = u
    BY <1>1, <1>2
  <2>5. \A v \in DOMAIN docs : owners'[docs[v].module] = v
    BY <1>1, <2>1
  <2>6. DOMAIN owners' = {docs'[v].module : v \in DOMAIN docs'}
    BY <2>1, <2>2, <2>3, <2>4
  <2> QED
    BY <2>2, <2>3, <2>4, <2>5, <2>6 DEF OverlayAgrees, Open
<1> QED
  BY <1>1, <1>4, <1>5, <1>6, WorkspaceKeeps

LEMMA ChangeKeeps ==
  ASSUME IInv, NEW u \in Uris, NEW version \in Version \cup {None}, NEW text \in setup.texts,
         did_change(u, version, text), UNCHANGED setup
  PROVE  IInv'
<1>1. /\ generation < MaxGeneration /\ u \in DOMAIN docs /\ version # None
      /\ docs' = [docs EXCEPT ![u].version = version, ![u].text = text]
      /\ generation' = generation + 1 /\ workspace_changed
      /\ UNCHANGED <<lifecycle, owners, published, diskVars, clientVars>>
  BY DEF did_change, CanChange, Open
<1>2. DOMAIN docs \subseteq Uris /\ \A v \in DOMAIN docs : docs[v] \in Document
  BY DocsTyped DEF IInv
<1>3. docs \in [DOMAIN docs -> Document]
  BY PartialDef DEF IInv, TypeOK
<1>4. /\ docs' \in [DOMAIN docs -> Document] /\ DOMAIN docs' = DOMAIN docs
      /\ \A v \in DOMAIN docs : docs'[v].module = docs[v].module
  BY <1>1, <1>2, <1>3 DEF Document
<1>5. docs' \in Partial(Uris, Document)
  BY <1>2, <1>4, PartialDef
<1>6. OverlayAgrees'
  <2>1. /\ DOMAIN owners = {docs[v].module : v \in DOMAIN docs}
        /\ \A v \in DOMAIN docs : owners[docs[v].module] = v
    BY DEF IInv, OverlayAgrees, Open
  <2> QED
    BY <1>1, <1>4, <2>1 DEF OverlayAgrees, Open
<1>7. owners' \in Partial(Uris, Uris)
  BY <1>1 DEF IInv, TypeOK
<1> QED
  BY <1>1, <1>5, <1>6, <1>7, WorkspaceKeeps

LEMMA CloseKeeps ==
  ASSUME IInv, NEW u \in Uris, did_close(u), UNCHANGED setup
  PROVE  IInv'
<1>1. /\ generation < MaxGeneration /\ u \in DOMAIN docs
      /\ docs' = [v \in DOMAIN docs \ {u} |-> docs[v]]
      /\ owners' = [m \in DOMAIN owners \ {docs[u].module} |-> owners[m]]
      /\ generation' = generation + 1 /\ workspace_changed
      /\ UNCHANGED <<lifecycle, published, diskVars, clientVars>>
  BY DEF did_close, CanChange, Open
<1>2. docs' \in Partial(Uris, Document)
  <2>1. docs' \in [DOMAIN docs \ {u} -> Document] /\ DOMAIN docs \ {u} \subseteq Uris
    BY <1>1, DocsTyped DEF IInv
  <2> QED
    BY <2>1, PartialDef
<1>3. owners' \in Partial(Uris, Uris)
  <2>1. DOMAIN owners \subseteq Uris /\ \A m \in DOMAIN owners : owners[m] \in Uris
    BY PartialApply DEF IInv, TypeOK
  <2>2. owners' \in [DOMAIN owners \ {docs[u].module} -> Uris]
    BY <1>1, <2>1
  <2> QED
    BY <2>1, <2>2, PartialDef
<1>4. OverlayAgrees'
  <2>1. /\ DOMAIN owners = {docs[v].module : v \in DOMAIN docs}
        /\ \A v \in DOMAIN docs : owners[docs[v].module] = v
    BY DEF IInv, OverlayAgrees, Open
  <2>2. /\ DOMAIN docs' = DOMAIN docs \ {u} /\ DOMAIN owners' = DOMAIN owners \ {docs[u].module}
        /\ \A v \in DOMAIN docs' : docs'[v] = docs[v]
    BY <1>1
  \* no other open document shares the module that is given up
  <2>3. \A v \in DOMAIN docs' : docs[v].module # docs[u].module
    BY <1>1, <2>1, <2>2
  <2>4. DOMAIN owners' = {docs'[v].module : v \in DOMAIN docs'}
    BY <2>1, <2>2, <2>3
  <2>5. \A v \in DOMAIN docs' : owners'[docs'[v].module] = v
    BY <1>1, <2>1, <2>2, <2>3
  <2> QED
    BY <2>4, <2>5 DEF OverlayAgrees, Open
<1> QED
  BY <1>1, <1>2, <1>3, <1>4, WorkspaceKeeps

-----------------------------------------------------------------------------
(* The invariant. *)

LEMMA InitIInv == Init => IInv
<1> SUFFICES ASSUME Init PROVE IInv
  OBVIOUS
<1>1. /\ setup \in Setups /\ lifecycle = "WaitingForInitialize"
      /\ docs = <<>> /\ owners = <<>> /\ generation = 0 /\ published = <<>>
      /\ pending = <<>> /\ controls = {} /\ cancelled = {} /\ invalidated = {}
      /\ worker_busy = FALSE /\ next_serial = 0
      /\ slot = <<>> /\ working = <<>> /\ event = <<>>
      /\ path = [u \in Uris |-> u]
      /\ askedAt = [r \in Requests |-> Never] /\ answers = [r \in Requests |-> <<>>]
      /\ revoked = {} /\ client = [u \in Uris |-> Nothing]
  BY DEF Init
<1>2. DOMAIN <<>> = {} /\ Len(<<>>) = 0 /\ ToSet(<<>>) = {}
  BY EmptyToSet
<1>3. \A S, T : <<>> \in Partial(S, T)
  <2>1. \A T : <<>> \in [{} -> T]
    OBVIOUS
  <2> QED
    BY <1>2, <2>1, PartialDef
<1>4. 0 \in 0..MaxGeneration /\ Never \in 0..Never /\ Never # 0
  BY <1>1, Bound
<1>5. TypeOK
  <2>1. \A S : <<>> \in Seq(S)
    BY EmptySeq
  <2>2. Nothing \in Shown /\ Nothing.issues = {}
    BY DEF Nothing, Shown
  <2> QED
    BY <1>1, <1>3, <1>4, <2>1, <2>2 DEF TypeOK
<1>6. Held = {}
  BY <1>1, <1>2 DEF Held
<1>7. OverlayAgrees /\ WorkConserving /\ JobsInv /\ StoppedInv
  BY <1>1, <1>2, <1>6 DEF OverlayAgrees, Open, WorkConserving, WaitingDiagnostics, JobsInv, StoppedInv
<1>8. ClientInv
  BY <1>1, <1>2 DEF ClientInv, Nothing
<1>9. \A r \in Requests : RequestInv(r)
  BY <1>1, <1>6 DEF RequestInv, JobsOf, Fresh
<1> QED
  BY <1>1, <1>5, <1>7, <1>8, <1>9 DEF IInv

LEMMA UnchangedIInv ==
  ASSUME IInv, UNCHANGED <<vars, setup>>
  PROVE  IInv'
<1>1. UNCHANGED <<lifecycle, docs, owners, generation, published, pending, controls, cancelled,
                  invalidated, worker_busy, next_serial, slot, working, event, path, links,
                  askedAt, answers, revoked, client, setup>>
  BY DEF vars, workspaceVars, queueVars, workerVars, diskVars, clientVars
<1>2. Held' = Held
  BY <1>1 DEF Held
<1>3. TypeOK' /\ OverlayAgrees' /\ WorkConserving'
  BY <1>1, SetupFixed
     DEF IInv, TypeOK, OverlayAgrees, Open, WorkConserving, WaitingDiagnostics, Shown, Version
<1>4. JobsInv' /\ StoppedInv' /\ ClientInv'
  BY <1>1, <1>2, JobsKept DEF IInv, StoppedInv, Flagged, ClientInv
<1>5. \A r \in Requests' : RequestInv(r)'
  BY <1>1, <1>2, RequestsKept
<1> QED
  BY <1>1, <1>3, <1>4, <1>5 DEF IInv

LEMMA NextIInv ==
  ASSUME IInv, [Next]_<<vars, setup>>
  PROVE  IInv'
<1>1. CASE UNCHANGED <<vars, setup>>
  BY <1>1, UnchangedIInv
<1>2. CASE Next
  <2>0. UNCHANGED setup
    BY <1>2 DEF Next
  <2>1. CASE initialize \/ cancel_pending_requests \/ cancel_all
    BY <2>0, <2>1, InitializeKeeps, ShutdownKeeps, ExitKeeps
  <2>2. ASSUME NEW u \in Uris, NEW version \in Version \cup {None}, NEW text \in setup.texts,
               version # None /\ did_open(u, version, text)
        PROVE  IInv'
    <3>1. version \in Version
      BY <2>2
    <3> QED
      BY <2>0, <2>2, <3>1, OpenKeeps
  <2>3. ASSUME NEW u \in Uris, NEW version \in Version \cup {None}, NEW text \in setup.texts,
               did_change(u, version, text)
        PROVE  IInv'
    BY <2>0, <2>3, ChangeKeeps
  <2>4. ASSUME NEW u \in Uris, did_close(u) PROVE IInv'
    BY <2>0, <2>4, CloseKeeps
  <2>5. ASSUME NEW r \in Requests, queue_request(r) \/ request_error(r) \/ cancel_request(r)
        PROVE  IInv'
    BY <2>0, <2>5, QueueRequestKeeps, RefusedKeeps, CancelKeeps
  <2>6. CASE receive_job \/ finish_job \/ complete \/ link_changes
    BY <2>0, <2>6, ReceiveKeeps, FinishKeeps, CompleteKeeps, LinksKeep
  <2> QED
    BY <1>2, <2>1, <2>2, <2>3, <2>4, <2>5, <2>6 DEF Next, Messages
<1> QED
  BY <1>1, <1>2

\* The inductive invariant of the coordinator holds for any session.
THEOREM ServerInvariant == Spec => []IInv
<1> QED
  BY InitIInv, NextIInv, PTL DEF Spec

\* The overlay tables agree, the worker never idles beside a waiting job, and every
\* request has one answer for the right reason or is held once.
THEOREM ServerCorrect == Spec => []ServerConsistent
<1>1. ASSUME IInv PROVE ServerConsistent
  <2>1. ASSUME NEW r \in Requests
        PROVE  /\ Len(answers[r]) <= 1
               /\ (~Fresh(r) /\ answers[r] = <<>> /\ lifecycle # "Exited") => Cardinality(ControlsOf(r)) = 1
               /\ answers[r] # <<>> =>
                    /\ ControlsOf(r) = {}
                    /\ answers[r][1] = "RequestCancelled"
                         => r \in revoked \/ lifecycle \in {"ShutdownRequested", "Exited"}
                    /\ r \in revoked => answers[r][1] = "RequestCancelled"
                    /\ answers[r][1] = "ContentModified" => generation > askedAt[r]
    <3>1. RequestInv(r)
      BY <1>1 DEF IInv
    <3>2. Len(answers[r]) <= 1
      <4>1. Len(<<>>) <= 1 /\ Len(<<answers[r][1]>>) <= 1
        OBVIOUS
      <4> QED
        BY <3>1, <4>1 DEF RequestInv
    <3>3. ASSUME ~Fresh(r), answers[r] = <<>>, lifecycle # "Exited"
          PROVE  Cardinality(ControlsOf(r)) = 1
      <4>1. PICK j \in JobsOf(r) : j.serial \in controls
        BY <3>1, <3>3 DEF RequestInv
      <4>2. JobsOf(r) = {j}
        BY <3>1, <4>1 DEF RequestInv
      <4>3. ControlsOf(r) = {j.serial}
        BY <4>1, <4>2, ControlsOfJobs
      <4> QED
        BY <4>3, FS_Singleton
    <3>4. answers[r] # <<>> => ControlsOf(r) = {}
      BY <3>1, ControlsOfJobs DEF RequestInv
    <3> QED
      BY <3>1, <3>2, <3>3, <3>4 DEF RequestInv
  <2> QED
    BY <1>1, <2>1 DEF IInv, ServerConsistent, OneAnswer
<1> QED
  BY <1>1, ServerInvariant, PTL

-----------------------------------------------------------------------------
(* What one step may send. *)

\* Answers change in three steps, and what the client shows in one.
LEMMA WhoSends ==
  ASSUME [Next]_<<vars, setup>>
  PROVE  /\ answers' # answers =>
              complete \/ cancel_pending_requests \/ \E q \in Requests : request_error(q)
         /\ client' # client \/ published' # published => complete
<1>1. CASE UNCHANGED <<vars, setup>>
  BY <1>1 DEF vars, clientVars, workspaceVars
<1>2. CASE Next
  BY <1>2 DEF Next, Messages, initialize, cancel_pending_requests, cancel_all, did_open, did_change,
              did_close, queue_request, request_error, cancel_request, receive_job, finish_job,
              link_changes, clientVars, workspaceVars
<1> QED
  BY <1>1, <1>2

LEMMA LastAppend ==
  ASSUME NEW S, NEW s \in Seq(S), NEW x \in S
  PROVE  Last(Append(s, x)) = x
BY AppendProperties DEF Last

\* A computed result is only ever sent for the documents as they are.
THEOREM AnswersMatch == Spec => AnswersMatchTheDocuments
<1>1. ASSUME IInv, [Next]_<<vars, setup>>, NEW r \in Requests,
             answers'[r] # answers[r], Last(answers'[r]) = "computed"
      PROVE  event[1].job.docs = docs
  <2>1. answers[r] \in Seq(Answer)
    BY <1>1 DEF IInv, TypeOK
  <2>2. ASSUME NEW q \in Requests, request_error(q) PROVE FALSE
    <3>1. answers' = [answers EXCEPT ![q] = Append(@, "refused")]
      BY <2>2 DEF request_error
    <3>2. answers'[r] = Append(answers[r], "refused")
      BY <1>1, <3>1 DEF IInv, TypeOK
    <3>3. Last(answers'[r]) = "refused"
      BY <2>1, <3>2, LastAppend DEF Answer
    <3> QED
      BY <1>1, <3>3
  <2>3. CASE cancel_pending_requests
    <3>1. answers'[r] = Append(answers[r], "RequestCancelled")
      BY <1>1, <2>3 DEF cancel_pending_requests
    <3>2. Last(answers'[r]) = "RequestCancelled"
      BY <2>1, <3>1, LastAppend DEF Answer
    <3> QED
      BY <1>1, <3>2
  <2>4. CASE complete
    <3> DEFINE job == event[1].job
    <3>1. /\ event # <<>> /\ job.kind # "diagnostics" /\ job.serial \in controls
          /\ answers' = [answers EXCEPT ![job.id] = Append(@, finish(job))]
      BY <1>1, <2>4 DEF complete
    <3>2. job \in Job
      BY <1>1, <3>1, ResultHeld
    <3>3. job.kind = "request"
      BY <3>1, <3>2 DEF Job
    <3>4. job.id = r /\ answers'[r] = Append(answers[r], finish(job))
      BY <1>1, <3>1 DEF IInv, TypeOK
    <3>5. finish(job) \in Answer /\ (finish(job) = "computed" => job.docs = docs)
      BY <1>1, <3>1, <3>3, FinishAnswer
    <3>6. Last(answers'[r]) = finish(job)
      BY <2>1, <3>4, <3>5, LastAppend
    <3> QED
      BY <1>1, <3>5, <3>6
  <2>5. answers' # answers
    BY <1>1
  <2> QED
    BY <1>1, <2>2, <2>3, <2>4, <2>5, WhoSends
<1>2. ASSUME IInv, [Next]_<<vars, setup>>
      PROVE  [\A r \in Requests : answers'[r] # answers[r] /\ Last(answers'[r]) = "computed"
                => event[1].job.docs = docs]_vars
  BY <1>1, <1>2
<1> QED
  BY <1>2, ServerInvariant, PTL DEF Spec, AnswersMatchTheDocuments

\* Whenever the client is sent diagnostics, it comes to show exactly the issues of the
\* documents as they are, on every URI.
THEOREM Publications == Spec => PublicationsAreComplete
<1>1. ASSUME IInv, [Next]_<<vars, setup>>, client' # client \/ published' # published
      PROVE  ShowsIssuesOf(docs, client')
  <2> DEFINE job == event[1].job
  <2>1. complete
    BY <1>1, WhoSends
  <2>2. event # <<>> /\ Publishable(job) /\ publish_diagnostics(analyze_diagnostics(job.docs))
    BY <1>1, <2>1 DEF complete
  <2>3. JobInv(job)
    BY <1>1, <2>2, ResultHeld DEF IInv, JobsInv
  <2>4. job.docs = docs
    BY <2>2, <2>3 DEF JobInv, Publishable
  <2> QED
    BY <1>1, <2>2, <2>4, PublishShows DEF IInv
<1>2. ASSUME IInv, [Next]_<<vars, setup>>
      PROVE  [client' # client \/ published' # published => ShowsIssuesOf(docs, client')]_vars
  BY <1>1, <1>2
<1> QED
  BY <1>2, ServerInvariant, PTL DEF Spec, PublicationsAreComplete
=============================================================================
