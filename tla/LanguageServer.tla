--------------------------- MODULE LanguageServer ---------------------------
(***************************************************************************)
(* flash-language-server (flash-lsp/src/server.rs, workspace.rs, query.rs):*)
(* a coordinator that handles client messages and worker results one at a  *)
(* time, a table of versioned open documents, and one analysis worker that *)
(* is given immutable snapshots of the table.                              *)
(*                                                                         *)
(* The client may send anything at any time, so a message is an action.    *)
(* What an analysis computes is abstracted to the issues it reports: a     *)
(* text is "clean", "broken" (one issue in that document) or "imports"     *)
(* (it is clean and imports the document Library).                         *)
(***************************************************************************)
EXTENDS Naturals, FiniteSets, Sequences, SequencesExt

CONSTANTS Uris,            \* the documents an editor may open
          Library,         \* the one the others import
          DiskText,        \* what Library holds on the disk
          MaxVersion,      \* bound: client versions
          Setups           \* the sessions, see below

AllTexts == {"clean", "broken", "imports"}

\* texts              what the client may write
\* requests           request identities
\* max_generation     bound: accepted document changes
\* max_links          bound: links that change on the disk
\* projection_fails   may an analysis fail to project its issues?
ASSUME ServerAssumption ==
  /\ Library \in Uris /\ DiskText \in AllTexts
  /\ MaxVersion \in Nat \ {0}
  /\ \A s \in Setups :
       /\ s.texts \subseteq AllTexts
       /\ s.max_generation \in Nat /\ s.max_links \in Nat
       /\ s.projection_fails \in BOOLEAN

VARIABLE setup      \* the one of this behaviour

Requests == setup.requests
MaxGeneration == setup.max_generation

VARIABLES lifecycle,    \* Coordinator.lifecycle
          docs,         \* Workspace.documents: open URI -> version, text, module path
          owners,       \* Workspace.owners: module path -> open URI
          generation,   \* Workspace.generation
          published,    \* Workspace.published: URI -> version and issues
          pending,      \* the jobs that wait for the worker
          controls,     \* the serials that are tracked
          cancelled,    \* the controls with `cancelled` set
          invalidated,  \* the controls with `invalidated` set
          worker_busy,  \* Coordinator.worker_busy
          next_serial,  \* Coordinator.next_serial
          slot,         \* sync_channel(1) to the worker
          working,      \* the job in the worker
          event,        \* the worker's result in the coordinator's channel
          path,         \* what each URI's path resolves to on the disk
          links,        \* how often that changed
          askedAt,      \* the generation at which each request came (history)
          answers,      \* the responses each request got
          revoked,      \* the requests cancelled by the client before an answer
          client        \* the diagnostics the client shows

workspaceVars == <<docs, owners, generation, published>>
queueVars     == <<pending, controls, cancelled, invalidated, worker_busy, next_serial>>
workerVars    == <<slot, working, event>>
diskVars      == <<path, links>>
clientVars    == <<askedAt, answers, revoked, client>>
vars == <<lifecycle, workspaceVars, queueVars, workerVars, diskVars, clientVars>>

None    == 0                       \* "no version"
Never   == MaxGeneration + 1       \* a request that was not asked
Version == 1..MaxVersion
Document == [version : Version, text : setup.texts, module : Uris]
Shown    == [version : Version \cup {None}, issues : SUBSET {"broken"}]
Nothing  == [version |-> None, issues |-> {}]
Partial(S, T) == UNION {[D -> T] : D \in SUBSET S}
Open     == DOMAIN docs

Init ==
  /\ setup \in Setups
  /\ lifecycle = "WaitingForInitialize"
  /\ docs = <<>> /\ owners = <<>> /\ generation = 0 /\ published = <<>>
  /\ pending = <<>> /\ controls = {} /\ cancelled = {} /\ invalidated = {}
  /\ worker_busy = FALSE /\ next_serial = 0
  /\ slot = <<>> /\ working = <<>> /\ event = <<>>
  /\ path = [u \in Uris |-> u] /\ links = 0
  /\ askedAt = [r \in Requests |-> Never] /\ answers = [r \in Requests |-> <<>>]
  /\ revoked = {} /\ client = [u \in Uris |-> Nothing]

-----------------------------------------------------------------------------
(* What an analysis of a snapshot reports: one entry for every open root,  *)
(* and one for every other source with an issue.                           *)
Text(table, u) == IF u \in DOMAIN table THEN table[u].text ELSE DiskText
Sources(table) ==
  DOMAIN table \cup
  {u \in {Library} : \E root \in DOMAIN table : table[root].text = "imports"}
IssuesIn(table, u) == IF Text(table, u) = "broken" THEN {"broken"} ELSE {}

analyze_diagnostics(table) ==
  [u \in {v \in Sources(table) : v \in DOMAIN table \/ IssuesIn(table, v) # {}} |->
     [version |-> IF u \in DOMAIN table THEN table[u].version ELSE None,
      issues  |-> IssuesIn(table, u)]]

-----------------------------------------------------------------------------
(* The queue to the worker. *)
Diagnostics == [kind |-> "diagnostics", id |-> None, serial |-> next_serial,
                generation |-> generation', docs |-> docs']
Request(r)  == [kind |-> "request", id |-> r, serial |-> next_serial,
                generation |-> generation, docs |-> docs]

\* Mutant: the worker is not given the next job when it has sent a result.
start_nextMutant(queue, busy) ==
  IF busy \/ queue = <<>> \/ event # <<>>
  THEN /\ pending' = queue /\ worker_busy' = busy /\ UNCHANGED slot
  ELSE /\ pending' = Tail(queue) /\ worker_busy' = TRUE /\ slot' = <<Head(queue)>>

\* `start_next`, which every handled message and every result ends with.
start_next(queue, busy) ==
  IF busy \/ queue = <<>> \/ slot # <<>>
  THEN /\ pending' = queue /\ worker_busy' = busy /\ UNCHANGED slot
  ELSE /\ pending' = Tail(queue) /\ worker_busy' = TRUE /\ slot' = <<Head(queue)>>

\* The places in the queue of diagnostics that wait: never more than one (WorkConserving).
WaitingDiagnostics == {i \in DOMAIN pending : pending[i].kind = "diagnostics"}

\* Every tracked control is invalidated, waiting diagnostics are replaced.
workspace_changed ==
  LET waiting == IF WaitingDiagnostics = {} THEN pending
                 ELSE RemoveAt(pending, CHOOSE i \in WaitingDiagnostics : TRUE)
      removed == {pending[i].serial : i \in WaitingDiagnostics}
  IN  /\ invalidated' = invalidated \cup controls
      /\ controls' = (controls \ removed) \cup {next_serial}
      /\ next_serial' = next_serial + 1
      /\ start_next(Append(waiting, Diagnostics), worker_busy)
      /\ UNCHANGED <<cancelled, working, event>>

-----------------------------------------------------------------------------
(* Client messages. *)
initialize ==
  /\ lifecycle = "WaitingForInitialize"
  /\ lifecycle' = "Running"
  /\ UNCHANGED <<workspaceVars, queueVars, workerVars, diskVars, clientVars>>

CanChange == lifecycle = "Running" /\ generation < MaxGeneration

\* `Workspace::open`: refused for an open URI and for an owned module path.
did_open(u, version, text) ==
  /\ CanChange
  /\ u \notin Open
  /\ path[u] \notin DOMAIN owners
  /\ docs' = [v \in Open \cup {u} |->
                IF v = u THEN [version |-> version, text |-> text, module |-> path[u]] ELSE docs[v]]
  /\ owners' = [m \in DOMAIN owners \cup {path[u]} |-> IF m = path[u] THEN u ELSE owners[m]]
  /\ generation' = generation + 1
  /\ workspace_changed
  /\ UNCHANGED <<lifecycle, published, diskVars, clientVars>>

\* `Workspace::change`: only a version that increases is applied.
did_change(u, version, text) ==
  /\ CanChange
  /\ u \in Open
  /\ version # None /\ version > docs[u].version
  /\ docs' = [docs EXCEPT ![u].version = version, ![u].text = text]
  /\ generation' = generation + 1
  /\ workspace_changed
  /\ UNCHANGED <<lifecycle, owners, published, diskVars, clientVars>>

\* Mutant: the module path stays owned.
did_closeMutant(u) ==
  /\ CanChange
  /\ u \in Open
  /\ docs' = [v \in Open \ {u} |-> docs[v]]
  /\ generation' = generation + 1
  /\ workspace_changed
  /\ UNCHANGED <<lifecycle, owners, published, diskVars, clientVars>>

did_close(u) ==
  /\ CanChange
  /\ u \in Open
  /\ docs' = [v \in Open \ {u} |-> docs[v]]
  /\ owners' = [m \in DOMAIN owners \ {docs[u].module} |-> owners[m]]
  /\ generation' = generation + 1
  /\ workspace_changed
  /\ UNCHANGED <<lifecycle, published, diskVars, clientVars>>

Fresh(r) == askedAt[r] = Never

\* A supported request in the running server.
queue_request(r) ==
  /\ lifecycle = "Running" /\ Fresh(r)
  /\ askedAt' = [askedAt EXCEPT ![r] = generation]
  /\ controls' = controls \cup {next_serial}
  /\ next_serial' = next_serial + 1
  /\ start_next(Append(pending, Request(r)), worker_busy)
  /\ UNCHANGED <<lifecycle, workspaceVars, cancelled, invalidated, working, event, diskVars,
                 answers, revoked, client>>

\* A request before `initialize` or after `shutdown`.
request_error(r) ==
  /\ lifecycle \in {"WaitingForInitialize", "ShutdownRequested"} /\ Fresh(r)
  /\ askedAt' = [askedAt EXCEPT ![r] = generation]
  /\ answers' = [answers EXCEPT ![r] = Append(@, "refused")]
  /\ UNCHANGED <<lifecycle, workspaceVars, queueVars, workerVars, diskVars, revoked, client>>

\* The serials of the tracked controls that belong to request r.
Held == ToSet(pending) \cup ToSet(slot) \cup ToSet(working)
        \cup {event[i].job : i \in DOMAIN event}
ControlsOf(r) == {job.serial : job \in {j \in Held : j.kind = "request" /\ j.id = r}} \cap controls

\* `$/cancelRequest`: handled whatever the lifecycle.
cancel_request(r) ==
  /\ lifecycle # "Exited" /\ ~Fresh(r)
  /\ cancelled' = cancelled \cup ControlsOf(r)
  /\ revoked' = IF answers[r] = <<>> THEN revoked \cup {r} ELSE revoked
  /\ start_next(pending, worker_busy)
  /\ UNCHANGED <<lifecycle, workspaceVars, controls, invalidated, next_serial, working, event,
                 diskVars, askedAt, answers, client>>

\* `shutdown`: every tracked request is answered and everything dropped.
cancel_pending_requests ==
  /\ lifecycle = "Running"
  /\ lifecycle' = "ShutdownRequested"
  /\ cancelled' = cancelled \cup controls
  /\ answers' = [r \in Requests |->
                   IF ControlsOf(r) # {} THEN Append(answers[r], "RequestCancelled")
                   ELSE answers[r]]
  /\ controls' = {} /\ pending' = <<>>
  /\ UNCHANGED <<workspaceVars, invalidated, worker_busy, next_serial, workerVars, diskVars,
                 askedAt, revoked, client>>

\* `exit`, or the end of the input.
cancel_all ==
  /\ lifecycle # "Exited"
  /\ lifecycle' = "Exited"
  /\ cancelled' = cancelled \cup controls
  /\ controls' = {} /\ pending' = <<>>
  /\ UNCHANGED <<workspaceVars, invalidated, worker_busy, next_serial, workerVars, diskVars,
                 clientVars>>

-----------------------------------------------------------------------------
(* The worker. *)
Flagged(job) == job.serial \in cancelled \cup invalidated

\* It receives a job; a request that is cancelled already is not computed.
receive_job ==
  /\ slot # <<>> /\ working = <<>>
  /\ slot' = <<>>
  /\ IF Head(slot).kind = "request" /\ Flagged(Head(slot))
     THEN event' = <<[job |-> Head(slot), outcome |-> "stopped"]>> /\ UNCHANGED working
     ELSE working' = slot /\ UNCHANGED event
  /\ UNCHANGED <<lifecycle, workspaceVars, queueVars, diskVars, clientVars>>

\* An analysis looks at its control now and then: a flag may stop it.
finish_job ==
  /\ working # <<>>
  /\ \E outcome \in {"computed", "stopped", "failed"} :
       /\ outcome = "stopped" => Flagged(Head(working))
       /\ outcome = "failed" => setup.projection_fails /\ Head(working).kind = "diagnostics"
       /\ event' = <<[job |-> Head(working), outcome |-> outcome]>>
  /\ working' = <<>>
  /\ UNCHANGED <<lifecycle, workspaceVars, queueVars, slot, diskVars, clientVars>>

-----------------------------------------------------------------------------
(* Results. *)

\* Mutant: the generation is not looked at.
finish_staleMutant(job) ==
  IF job.serial \in cancelled \/ event[1].outcome = "stopped" THEN "RequestCancelled"
  ELSE event[1].outcome

\* `PreparedResponse::finish`.
finish(job) ==
  IF job.serial \in cancelled THEN "RequestCancelled"
  ELSE IF job.generation # generation THEN "ContentModified"
  ELSE IF event[1].outcome = "stopped" THEN "RequestCancelled"
  ELSE event[1].outcome

\* Mutant: what left the result is not cleared.
publish_diagnosticsMutant(next) ==
  /\ published' = next
  /\ client' = [u \in Uris |->
       IF u \in DOMAIN next /\ (u \in DOMAIN published => published[u] # next[u])
       THEN next[u] ELSE client[u]]

\* `publish_diagnostics` in the current generation: the client is sent what differs.
publish_diagnostics(next) ==
  /\ published' = next
  /\ client' = [u \in Uris |->
       CASE u \in DOMAIN next /\ (u \in DOMAIN published => published[u] # next[u]) -> next[u]
         [] u \in DOMAIN published \ DOMAIN next ->
              [version |-> IF u \in Open THEN docs[u].version ELSE None, issues |-> {}]
         [] OTHER -> client[u]]

Publishable(job) ==
  /\ job.serial \in controls /\ ~Flagged(job)
  /\ event[1].outcome = "computed"
  /\ job.generation = generation

\* One worker result: `complete`, then `start_next`.
complete ==
  /\ lifecycle # "Exited" /\ event # <<>>
  /\ LET job == event[1].job IN
       /\ controls' = controls \ {job.serial}
       /\ IF job.kind = "diagnostics"
          THEN /\ IF Publishable(job) THEN publish_diagnostics(analyze_diagnostics(job.docs))
                  ELSE UNCHANGED <<published, client>>
               /\ UNCHANGED answers
          ELSE /\ answers' = IF job.serial \in controls
                             THEN [answers EXCEPT ![job.id] = Append(@, finish(job))] ELSE answers
               /\ UNCHANGED <<published, client>>
  /\ event' = <<>>
  /\ start_next(pending, FALSE)
  /\ UNCHANGED <<lifecycle, docs, owners, generation, cancelled, invalidated, next_serial,
                 working, diskVars, askedAt, revoked>>

\* Somebody changes a link on the disk; the server is not told.
link_changes ==
  /\ links < setup.max_links
  /\ links' = links + 1
  /\ \E u, v \in Uris : path' = [path EXCEPT ![u] = v]
  /\ UNCHANGED <<lifecycle, workspaceVars, queueVars, workerVars, clientVars>>

-----------------------------------------------------------------------------
Messages ==
  \/ initialize \/ cancel_pending_requests \/ cancel_all
  \/ \E u \in Uris :
       \/ \E version \in Version \cup {None}, text \in setup.texts :
            \/ version # None /\ did_open(u, version, text)
            \/ did_change(u, version, text)
       \/ did_close(u)
  \/ \E r \in Requests : queue_request(r) \/ request_error(r) \/ cancel_request(r)

Next ==
  /\ Messages \/ receive_job \/ finish_job \/ complete \/ link_changes
  /\ UNCHANGED setup

Spec == Init /\ [][Next]_<<vars, setup>>

\* The worker and the coordinator are threads that run; nothing is assumed of
\* the client.
FairSpec == Spec /\ WF_vars(receive_job) /\ WF_vars(finish_job) /\ WF_vars(complete)

-----------------------------------------------------------------------------
Job == [kind : {"diagnostics", "request"}, id : Requests \cup {None}, serial : Nat,
        generation : Nat, docs : Partial(Uris, Document)]
Answer == {"computed", "RequestCancelled", "ContentModified", "refused"}
Result == [job : Job, outcome : {"computed", "stopped", "failed"}]

TypeOK ==
  /\ lifecycle \in {"WaitingForInitialize", "Running", "ShutdownRequested", "Exited"}
  /\ docs \in Partial(Uris, Document) /\ owners \in Partial(Uris, Uris)
  /\ generation \in 0..MaxGeneration
  /\ published \in Partial(Uris, Shown)
  /\ pending \in Seq(Job) /\ slot \in Seq(Job) /\ working \in Seq(Job) /\ event \in Seq(Result)
  /\ worker_busy \in BOOLEAN /\ next_serial \in Nat
  /\ \A serial \in controls \cup cancelled \cup invalidated : serial \in Nat /\ serial < next_serial
  /\ path \in [Uris -> Uris] /\ client \in [Uris -> Shown]
  /\ askedAt \in [Requests -> 0..Never] /\ answers \in [Requests -> Seq(Answer)]

\* The overlay tables agree: every open document owns the module path it was
\* opened under, alone, and no closed document owns anything.
OverlayAgrees ==
  /\ DOMAIN owners = {docs[u].module : u \in Open}
  /\ \A u \in Open : owners[docs[u].module] = u

\* The worker never idles beside a waiting job, and holds one job at a time; however fast
\* the edits come, one request for diagnostics waits at most.
WorkConserving ==
  /\ pending # <<>> => worker_busy
  /\ Len(slot) + Len(working) + Len(event) = IF worker_busy THEN 1 ELSE 0
  /\ \A i, j \in WaitingDiagnostics : i = j

\* No request is lost or answered twice: one that has no answer yet is held by
\* the queue or the worker exactly once, with its control still tracked.  An
\* answer says why: RequestCancelled goes to the requests the client cancelled
\* (or shut down on) and to all of those, ContentModified only to a request
\* that a document change has overtaken.
OneAnswer ==
  \A r \in Requests :
    /\ Len(answers[r]) <= 1
    /\ (~Fresh(r) /\ answers[r] = <<>> /\ lifecycle # "Exited") => Cardinality(ControlsOf(r)) = 1
    /\ answers[r] # <<>> =>
         /\ ControlsOf(r) = {}
         /\ answers[r][1] = "RequestCancelled" => r \in revoked \/ lifecycle \in {"ShutdownRequested", "Exited"}
         /\ r \in revoked => answers[r][1] = "RequestCancelled"
         /\ answers[r][1] = "ContentModified" => generation > askedAt[r]

\* What the coordinator keeps twice agrees, the overlay tables and the queue with what it
\* knows of the worker; and OneAnswer.
ServerConsistent == TypeOK /\ OverlayAgrees /\ WorkConserving /\ OneAnswer

\* A result is only ever sent for the documents as they are when it is sent.
AnswersMatchTheDocuments ==
  [][\A r \in Requests : answers'[r] # answers[r] /\ Last(answers'[r]) = "computed"
       => event[1].job.docs = docs]_vars

\* What the client shows of every URI, open or not, is what the last accepted
\* analysis reported, and when one is accepted that is what the documents hold.
ShowsIssuesOf(table, shown) ==
  \A u \in Uris :
    IF u \in DOMAIN analyze_diagnostics(table)
    THEN shown[u] = analyze_diagnostics(table)[u] ELSE shown[u].issues = {}

PublicationsAreComplete ==
  [][client' # client \/ published' # published => ShowsIssuesOf(docs, client')]_vars

\* Every request is answered unless the client leaves.
AnyRequest == UNION {s.requests : s \in Setups}
Asked(r) == r \in Requests /\ ~Fresh(r)
Answered(r) == r \in Requests /\ answers[r] # <<>>
EveryRequestAnswered ==
  \A r \in AnyRequest : Asked(r) ~> Answered(r) \/ lifecycle = "Exited"

\* When the edits stop, the client comes to show the issues of the documents
\* as they are, where analyses project.
DiagnosticsConverge ==
  ~setup.projection_fails => <>[](lifecycle = "Running" => ShowsIssuesOf(docs, client))

-----------------------------------------------------------------------------
\* What the documentation says of the code, and it does not do.

\* A canonical module has at most one open document.
OneOwnerPerModule == \A u, v \in Open : path[u] = path[v] => u = v
=============================================================================
