----------------------------- MODULE RuntimeRoles -----------------------------
(***************************************************************************)
(* One process of the service from its start to its exit (src/src/bin,     *)
(* src/src/app): the API, or one of the four background roles.  A role     *)
(* runs up to two runtimes side by side, one for process runs and one for  *)
(* agent turns (combineBackgroundRuntimes); a runtime has periodic loops,  *)
(* a queue consumer, or both, and connections of its own.  A signal stops  *)
(* the HTTP server first, then every runtime, and a runtime waits for its  *)
(* work before it gives its connections back.  Connections fail to close,  *)
(* jobs outlast the grace they are given, and a second signal may come.    *)
(***************************************************************************)
EXTENDS Integers, FiniteSets

CONSTANTS
  Roles,            \* the roles looked at, one process at a time
  Client,           \* the requests that may be sent to the API
  MaxExecutions,    \* MAX_CONCURRENT_EXECUTIONS
  Batches,          \* batches a complete retention sweep needs
  BatchesPerSweep,  \* maximumBatchesPerSweep
  Watched,          \* the roles whose availability is looked at
  PassBound,        \* [role -> bound on the passes of a loop and the jobs]
  RoleFaultBound    \* bound on failures of every kind together

RoleName == {"api", "process-dispatcher", "process-worker", "webhook-worker",
             "retention-cleaner"}
Signal == {"SIGINT", "SIGTERM"}
Dependency == {"database", "redis", "resources"}

ASSUME RolesAssumption ==
  /\ Roles \subseteq RoleName
  /\ "probe" \notin Client
  /\ MaxExecutions \in Nat \ {0}
  /\ Batches \in Nat \ {0}
  /\ BatchesPerSweep \in Nat \ {0}
  /\ Watched \subseteq Roles
  /\ PassBound \in [RoleName -> Nat]
  /\ RoleFaultBound \in Nat

VARIABLES
  role,
  life,       \* "starting", "serving", "exited", or "killed": ended unclosed
  exitCode,
  server,     \* "down", "open", "refusing" or "closed"
  closing,    \* [Signal -> how far the close() it called is]
  part,       \* [part -> [phase, forced, failed]]
  loop,       \* [loop -> [state, passes]]
  sweep,      \* [part -> the sweep of a retention cleaner]
  job,        \* [part -> [state, taken]]
  held,       \* the connections held, as <<part, connection>>
  request,    \* [request -> its phase]
  checks,     \* the checks a readiness request still waits for
  working,    \* the dependencies that answer
  roleFaults

roleVars == <<role, life, exitCode, server, closing, part, loop, sweep, job, held,
              request, checks, working, roleFaults>>

-----------------------------------------------------------------------------
(* What each role is put together from, with agent conversations, the      *)
(* archive and structured observation switched on.                         *)

PartsOf(r) ==
  CASE r = "api" -> {"runs", "turns", "archive"}
    [] r = "webhook-worker" -> {"deliveries"}
    [] OTHER -> {"runs", "turns"}

LoopNames(r) ==
  CASE r = "process-dispatcher" -> {"dispatch", "reconcile"}
    [] r = "webhook-worker" -> {"dispatch"}
    [] r = "retention-cleaner" -> {"sweep"}
    [] OTHER -> {}

LoopsOf(r) == PartsOf(r) \X LoopNames(r)

Consumes(r) == r \in {"process-worker", "webhook-worker"}

ConnectionsOf(r, p) ==
  CASE r \in {"process-dispatcher", "webhook-worker"} -> {"queue", "pool"}
    [] r = "api" /\ p = "turns" -> {"queue", "pool"}
    [] r = "process-worker" /\ p = "runs" -> {"pool", "observation"}
    [] OTHER -> {"pool"}

HeldBy(p) == {c \in {"queue", "pool", "observation"} : <<p, c>> \in held}

(* What `ready` of the role's runtimes asks: agent turns also need the     *)
(* service that owns their resources.                                      *)
Needs(r) ==
  CASE r = "retention-cleaner" -> {"database"}
    [] r \in {"api", "process-worker"} -> Dependency
    [] OTHER -> {"database", "redis"}

Request == Client \cup {"probe"}

(* Requests whose connection the server still has to answer.               *)
InFlight(q) == request[q] \in {"checking", "executing", "querying"}

NewSweep == [at |-> 0, kept |-> 0, left |-> 0, done |-> {}, lastDone |-> {}]

RolesInit ==
  /\ role \in Roles
  /\ life = "starting"
  /\ exitCode = -1
  /\ server = "down"
  /\ closing = [s \in Signal |-> "none"]
  /\ part = [p \in PartsOf(role) |->
               [phase |-> "built", forced |-> FALSE, failed |-> FALSE]]
  /\ loop = [l \in LoopsOf(role) |-> [state |-> "off", passes |-> 0]]
  /\ sweep = [p \in PartsOf(role) |-> NewSweep]
  /\ job = [p \in PartsOf(role) |-> [state |-> "none", taken |-> 0]]
  /\ held = UNION {{p} \X ConnectionsOf(role, p) : p \in PartsOf(role)}
  /\ request = [q \in Request |-> "none"]
  /\ checks = {}
  /\ working = Dependency
  /\ roleFaults = 0

Fault == roleFaults < RoleFaultBound /\ roleFaults' = roleFaults + 1

Alive == life \in {"starting", "serving"}

-----------------------------------------------------------------------------
(* Starting.  The runtimes work before the server listens: the first pass  *)
(* of every loop starts at once.  A sweep begins where the last one left,  *)
(* and with the time that one began with: `done` is what has been examined *)
(* as of that time.                                                        *)

BrokenBeginSweep(w) ==
  [w EXCEPT !.at = w.kept, !.left = BatchesPerSweep, !.done = {}]

BeginSweep(w) ==
  [w EXCEPT !.at = w.kept,
            !.left = BatchesPerSweep,
            !.done = IF w.kept = 0 THEN {} ELSE w.done]

Start ==
  /\ life = "starting"
  /\ \A p \in PartsOf(role) : part[p].phase = "built"
  /\ part' = [p \in PartsOf(role) |-> [part[p] EXCEPT !.phase = "open"]]
  /\ loop' = [l \in LoopsOf(role) |-> [state |-> "active", passes |-> 1]]
  /\ sweep' = [p \in PartsOf(role) |->
                 IF role = "retention-cleaner" THEN BeginSweep(sweep[p]) ELSE sweep[p]]
  /\ UNCHANGED <<role, life, exitCode, server, closing, job, held, request, checks,
                 working, roleFaults>>

Listen ==
  /\ life = "starting"
  /\ \A p \in PartsOf(role) : part[p].phase = "open"
  /\ life' = "serving"
  /\ server' = "open"
  /\ UNCHANGED <<role, exitCode, closing, part, loop, sweep, job, held, request,
                 checks, working, roleFaults>>

(* A runtime fails to start, or the port is taken when those runtimes      *)
(* already work: the rejection of listen() ends the process on the spot,   *)
(* with the passes that are under way, and nothing is closed.              *)
StartFails ==
  /\ life = "starting"
  /\ Fault
  /\ life' = "killed"
  /\ exitCode' = 1
  /\ UNCHANGED <<role, server, closing, part, loop, sweep, job, held, request, checks,
                 working>>

(* The process is killed, or gets a signal nobody handles: before the      *)
(* server listens, or for the second time.                                 *)
Die ==
  /\ Alive
  /\ Fault
  /\ life' = "killed"
  /\ UNCHANGED <<role, exitCode, server, closing, part, loop, sweep, job, held,
                 request, checks, working>>

(* A dependency stops answering, or answers again.  What this does to the  *)
(* work itself is the matter of the modules of that work.                  *)
DependencyFails(d) ==
  /\ Alive
  /\ role \in Watched
  /\ d \in working
  /\ Fault
  /\ working' = working \ {d}
  /\ UNCHANGED <<role, life, exitCode, server, closing, part, loop, sweep, job, held,
                 request, checks>>

DependencyReturns(d) ==
  /\ Alive
  /\ d \notin working
  /\ working' = working \cup {d}
  /\ UNCHANGED <<role, life, exitCode, server, closing, part, loop, sweep, job, held,
                 request, checks, roleFaults>>

-----------------------------------------------------------------------------
(* Periodic loops.  A pass that ends sets the timer of the next one unless *)
(* the runtime is closing; an error of a pass is reported and forgotten.   *)
LoopVars == <<role, life, exitCode, server, closing, part, job, held, request, checks,
              working, roleFaults>>

Rest(l) == [loop[l] EXCEPT !.state =
              IF part[l[1]].phase = "open" THEN "timer" ELSE "off"]

PassStarts(l) ==
  /\ Alive
  /\ loop[l].state = "timer"
  /\ loop[l].passes < PassBound[role]
  /\ loop' = [loop EXCEPT ![l] = [state |-> "active", passes |-> @.passes + 1]]
  /\ sweep' = [sweep EXCEPT ![l[1]] =
                 IF l[2] = "sweep" THEN BeginSweep(@) ELSE @]
  /\ UNCHANGED LoopVars

PassEnds(l) ==
  /\ Alive
  /\ loop[l].state = "active"
  /\ l[2] # "sweep"
  /\ loop' = [loop EXCEPT ![l] = Rest(l)]
  /\ UNCHANGED <<LoopVars, sweep>>

(* One batch of a sweep: it examines what follows the cursor.              *)
SweepBatch(l) ==
  LET w == sweep[l[1]]
  IN  /\ Alive
      /\ l[2] = "sweep"
      /\ loop[l].state = "active"
      /\ w.left > 0 /\ w.at < Batches
      /\ part[l[1]].phase = "open"
      /\ sweep' = [sweep EXCEPT ![l[1]] =
           [w EXCEPT !.at = @ + 1, !.left = @ - 1, !.done = @ \cup {w.at + 1}]]
      /\ UNCHANGED <<LoopVars, loop>>

(* Where the next sweep goes on: the cursor of the last batch, or the      *)
(* beginning once there is no further one.                                 *)
Continuation(w) == IF w.at = Batches THEN 0 ELSE w.at

(* The sweep ends when nothing is left, at its limit, or when it finds     *)
(* itself aborted before a batch.                                          *)
SweepEnds(l) ==
  LET w == sweep[l[1]]
  IN  /\ Alive
      /\ l[2] = "sweep"
      /\ loop[l].state = "active"
      /\ w.left = 0 \/ w.at = Batches \/ part[l[1]].phase # "open"
      /\ sweep' = [sweep EXCEPT ![l[1]] =
           [w EXCEPT !.kept = Continuation(w), !.at = 0, !.left = 0,
                     !.lastDone = IF w.at = Batches THEN w.done ELSE @,
                     !.done = IF w.at = Batches THEN {} ELSE @]]
      /\ loop' = [loop EXCEPT ![l] = Rest(l)]
      /\ UNCHANGED LoopVars

(* A batch fails: the sweep is over and the place to go on is the old one. *)
SweepFails(l) ==
  /\ Alive
  /\ l[2] = "sweep"
  /\ loop[l].state = "active"
  /\ Fault
  /\ sweep' = [sweep EXCEPT ![l[1]] = [@ EXCEPT !.at = 0, !.left = 0]]
  /\ loop' = [loop EXCEPT ![l] = Rest(l)]
  /\ UNCHANGED <<role, life, exitCode, server, closing, part, job, held, request,
                 checks, working>>

-----------------------------------------------------------------------------
(* Queue consumers.  The worker of process runs records the outcome of a   *)
(* run before its job is finished, and waits for that only so long.        *)
JobVars == <<role, life, exitCode, server, closing, part, loop, sweep, held, request,
             checks, working, roleFaults>>

JobStarts(p) ==
  /\ Alive
  /\ Consumes(role)
  /\ part[p].phase = "open" \/ (part[p].phase = "stopping" /\ role = "webhook-worker")
  /\ job[p].state = "none"
  /\ job[p].taken < PassBound[role]
  /\ job' = [job EXCEPT ![p] = [state |-> "running", taken |-> @.taken + 1]]
  /\ UNCHANGED JobVars

JobCompletes(p) ==
  /\ Alive
  /\ job[p].state = "running"
  /\ job' = [job EXCEPT ![p].state =
       IF role = "process-worker" /\ p = "runs" THEN "recording" ELSE "none"]
  /\ UNCHANGED JobVars

RecordingEnds(p) ==
  /\ Alive
  /\ job[p].state = "recording"
  /\ job' = [job EXCEPT ![p].state = "none"]
  /\ UNCHANGED JobVars

-----------------------------------------------------------------------------
(* Requests.                                                               *)
RequestVars == <<role, life, exitCode, server, closing, part, loop, sweep, job, held,
                 working, roleFaults>>

(* GET /readyz.                                                            *)
ReadinessAsked ==
  /\ life = "serving"
  /\ server = "open"
  /\ request["probe"] = "none"
  /\ request' = [request EXCEPT !["probe"] = "checking"]
  /\ checks' = Needs(role)
  /\ UNCHANGED RequestVars

CheckPasses(d) ==
  /\ Alive
  /\ request["probe"] = "checking"
  /\ d \in checks \cap working
  /\ checks' = checks \ {d}
  /\ UNCHANGED <<RequestVars, request>>

BrokenReadinessPassed == request["probe"] = "checking" /\ checks # Needs(role)

(* All of the checks, in any order.                                        *)
ReadinessPassed == request["probe"] = "checking" /\ checks = {}

SaysReady ==
  /\ Alive
  /\ ReadinessPassed
  /\ request' = [request EXCEPT !["probe"] = "ready"]
  /\ checks' = {}
  /\ UNCHANGED RequestVars

(* One of the checks fails, a role's take longer than they may, or the     *)
(* API is held back by its release gate.                                   *)
SaysNotReady ==
  /\ Alive
  /\ request["probe"] = "checking"
  /\ checks # {}
  /\ request' = [request EXCEPT !["probe"] = "not ready"]
  /\ checks' = {}
  /\ UNCHANGED RequestVars

Executions == Cardinality({q \in Client : request[q] = "executing"})

(* POST /execute takes a slot before anything runs, or is told 503; the    *)
(* other requests of the API use its database.                             *)
RequestArrives(q) ==
  /\ life = "serving"
  /\ role = "api"
  /\ server = "open"
  /\ q \in Client
  /\ request[q] = "none"
  /\ \E p \in {"executing", "querying"} :
       request' = [request EXCEPT ![q] =
         IF p = "executing" /\ Executions >= MaxExecutions THEN "answered" ELSE p]
  /\ UNCHANGED <<RequestVars, checks>>

RequestEnds(q) ==
  /\ Alive
  /\ request[q] \in {"executing", "querying"}
  /\ request' = [request EXCEPT ![q] = "answered"]
  /\ UNCHANGED <<RequestVars, checks>>

-----------------------------------------------------------------------------
(* Closing: the server first.                                              *)
CloseVars == <<role, loop, sweep, job, request, checks, working>>

BrokenAlreadyClosing(s) == FALSE

(* A role's close() is done at once when another one is under way.         *)
AlreadyClosing(s) ==
  role # "api" /\ \E t \in Signal \ {s} : closing[t] # "none"

(* A server that is no longer listening is not waited for.                 *)
Terminate(s) ==
  /\ life = "serving"
  /\ closing[s] = "none"
  /\ closing' = [closing EXCEPT ![s] =
       IF AlreadyClosing(s) THEN "done"
       ELSE IF server = "open" THEN "server" ELSE "resources"]
  /\ server' = IF server = "open" THEN "refusing" ELSE server
  /\ UNCHANGED <<CloseVars, life, exitCode, part, held, roleFaults>>

ServerCloses(s) ==
  /\ life = "serving"
  /\ closing[s] = "server"
  /\ \A q \in Request : ~InFlight(q)
  /\ server' = "closed"
  /\ closing' = [closing EXCEPT ![s] = "resources"]
  /\ UNCHANGED <<CloseVars, life, exitCode, part, held, roleFaults>>

(* Then every runtime, or every resource of the API, at the same time, and *)
(* only once.                                                              *)
ClosesParts(s) ==
  /\ life = "serving"
  /\ closing[s] = "resources"
  /\ IF \A p \in PartsOf(role) : part[p].phase = "open"
     THEN /\ closing' = [closing EXCEPT ![s] = "settling"]
          /\ part' = [p \in PartsOf(role) |-> [part[p] EXCEPT !.phase =
               IF role = "api" THEN "releasing" ELSE "stopping"]]
     ELSE /\ closing' = [closing EXCEPT ![s] = "done"]
          /\ UNCHANGED part
  /\ loop' = [l \in LoopsOf(role) |->
                IF part'[l[1]].phase # "open" /\ loop[l].state = "timer"
                THEN [loop[l] EXCEPT !.state = "off"] ELSE loop[l]]
  /\ UNCHANGED <<role, sweep, job, request, checks, working, life, exitCode, server,
                 held, roleFaults>>

BrokenPassesAwaited(p) == TRUE

(* The pass under way is waited for.                                       *)
PassesAwaited(p) ==
  \A l \in LoopsOf(role) : l[1] = p => loop[l].state # "active"

PartVars == <<role, life, exitCode, server, closing, loop, sweep, job, request,
              checks, working>>

PartStopped(p) ==
  /\ life = "serving"
  /\ part[p].phase = "stopping"
  /\ PassesAwaited(p)
  /\ part' = [part EXCEPT ![p].phase =
       IF Consumes(role) THEN "draining" ELSE "releasing"]
  /\ UNCHANGED <<PartVars, held, roleFaults>>

(* The consumer takes no further job and waits for those it has.           *)
Drained(p) ==
  /\ life = "serving"
  /\ part[p].phase \in {"draining", "cancelled"}
  /\ job[p].state = "none"
  /\ part' = [part EXCEPT ![p].phase = "releasing"]
  /\ UNCHANGED <<PartVars, held, roleFaults>>

(* The grace has passed: the jobs are told to stop and, but for webhook    *)
(* deliveries, waited for once more.                                       *)
GraceExpires(p) ==
  /\ life = "serving"
  /\ part[p].phase \in {"draining", "cancelled"}
  /\ job[p].state # "none"
  /\ part' = [part EXCEPT ![p] =
       IF part[p].phase = "draining" /\ role = "process-worker"
       THEN [@ EXCEPT !.phase = "cancelled"]
       ELSE [@ EXCEPT !.phase = "releasing", !.forced = TRUE]]
  /\ UNCHANGED <<PartVars, held, roleFaults>>

(* Pausing, releasing the claims or closing the consumer fails.            *)
ConsumerFails(p) ==
  /\ life = "serving"
  /\ part[p].phase \in {"draining", "cancelled"}
  /\ Fault
  /\ part' = [part EXCEPT ![p] =
       [phase |-> "releasing", forced |-> TRUE, failed |-> TRUE]]
  /\ UNCHANGED <<PartVars, held>>

BrokenReleasesNext(p, c) ==
  /\ c \in HeldBy(p)
  /\ (c = "pool" => "queue" \notin HeldBy(p))
  /\ ~part[p].failed

(* The queue's connection before the pool, and the pool even if that one   *)
(* or the consumer failed; the worker's two pools together.                *)
ReleasesNext(p, c) ==
  /\ c \in HeldBy(p)
  /\ c = "pool" => "queue" \notin HeldBy(p)

Releases(p, c) ==
  /\ life = "serving"
  /\ part[p].phase = "releasing"
  /\ ReleasesNext(p, c)
  /\ held' = held \ {<<p, c>>}
  /\ \/ part' = part /\ UNCHANGED roleFaults
     \/ Fault /\ part' = [part EXCEPT ![p].failed = TRUE]
  /\ UNCHANGED PartVars

BrokenPartEnds(p) ==
  /\ part[p].phase = "releasing"
  /\ HeldBy(p) = {} \/ part[p].failed

PartEnds(p) ==
  /\ part[p].phase = "releasing"
  /\ HeldBy(p) = {}

PartCloses(p) ==
  /\ life = "serving"
  /\ PartEnds(p)
  /\ part' = [part EXCEPT ![p].phase = "closed"]
  /\ UNCHANGED <<PartVars, held, roleFaults>>

BrokenSettled ==
  \/ \A p \in PartsOf(role) : part[p].phase = "closed"
  \/ \E p \in PartsOf(role) : part[p].phase = "closed" /\ part[p].failed

(* Promise.allSettled: all of them, whatever became of the others.         *)
Settled == \A p \in PartsOf(role) : part[p].phase = "closed"

(* A close() that fails is a rejection nobody handles.                     *)
CloseEnds(s) ==
  /\ life = "serving"
  /\ closing[s] = "settling"
  /\ Settled
  /\ IF \E p \in PartsOf(role) : part[p].failed
     THEN life' = "exited" /\ exitCode' = 1 /\ UNCHANGED closing
     ELSE closing' = [closing EXCEPT ![s] = "done"] /\ UNCHANGED <<life, exitCode>>
  /\ UNCHANGED <<CloseVars, server, part, held, roleFaults>>

(* Nothing keeps the process alive any more.                               *)
Exits ==
  /\ life = "serving"
  /\ \E s \in Signal : closing[s] = "done"
  /\ \A s \in Signal : closing[s] \in {"none", "done"}
  /\ \A p \in PartsOf(role) : part[p].phase = "closed" /\ job[p].state = "none"
  /\ \A q \in Request : ~InFlight(q)
  /\ life' = "exited"
  /\ exitCode' = 0
  /\ UNCHANGED <<CloseVars, server, closing, part, held, roleFaults>>

Ends ==
  \/ \E l \in LoopsOf(role) : PassEnds(l) \/ SweepBatch(l) \/ SweepEnds(l)
  \/ \E p \in PartsOf(role) : JobCompletes(p) \/ RecordingEnds(p)
  \/ \E q \in Client : RequestEnds(q)
  \/ \E d \in Dependency : CheckPasses(d)
  \/ SaysReady
  \/ SaysNotReady

Closes ==
  \/ \E s \in Signal : ServerCloses(s) \/ ClosesParts(s) \/ CloseEnds(s)
  \/ \E p \in PartsOf(role) :
       \/ PartStopped(p)
       \/ Drained(p)
       \/ GraceExpires(p)
       \/ \E c \in HeldBy(p) : Releases(p, c)
       \/ PartCloses(p)
  \/ Exits

(* Readiness is asked by the monitor of AvailabilityMonitor.               *)
RolesNext ==
  \/ Start
  \/ Listen
  \/ StartFails
  \/ Die
  \/ \E d \in Dependency : DependencyFails(d) \/ DependencyReturns(d)
  \/ \E l \in LoopsOf(role) : PassStarts(l) \/ SweepFails(l)
  \/ \E p \in PartsOf(role) : JobStarts(p) \/ ConsumerFails(p)
  \/ \E q \in Client : RequestArrives(q)
  \/ \E s \in Signal : Terminate(s)
  \/ Ends
  \/ Closes

-----------------------------------------------------------------------------
RolesTypeOK ==
  /\ role \in Roles
  /\ life \in {"starting", "serving", "exited", "killed"}
  /\ server \in {"down", "open", "refusing", "closed"}
  /\ closing \in [Signal -> {"none", "server", "resources", "settling", "done"}]
  /\ \A p \in PartsOf(role) :
       part[p].phase \in {"built", "open", "stopping", "draining", "cancelled",
                         "releasing", "closed"}
  /\ \A l \in LoopsOf(role) : loop[l].state \in {"off", "active", "timer"}
  /\ checks \subseteq Needs(role)
  /\ roleFaults \in 0..RoleFaultBound

(***************************************************************************)
(* A runtime gives its connections back only when nothing uses them: no    *)
(* pass is under way, and no job is running or recording its outcome       *)
(* unless it outlasted its grace or the consumer failed to stop, in        *)
(* whatever order timers, jobs and signals come (dispatcher.ts:47-60,      *)
(* webhooks/runtime.ts:55-68, app/process-worker.ts:157-176).              *)
(***************************************************************************)
ResourcesOutliveWork ==
  \A p \in PartsOf(role) :
    \/ ConnectionsOf(role, p) \subseteq HeldBy(p)
    \/ ~Alive
    \/ /\ \A l \in LoopsOf(role) : l[1] = p => loop[l].state # "active"
       /\ job[p].state # "none" => part[p].forced

(***************************************************************************)
(* A request that is being answered has its connections: close() waits for *)
(* the server before it ends them (app/role.ts:104-112,                    *)
(* api/application.ts:35-44).  The API waits only for the first of two     *)
(* signals.                                                                *)
(***************************************************************************)
RequestsKeepTheirResources ==
  (Alive /\ \E q \in Request : InFlight(q)) =>
    \/ \A p \in PartsOf(role) : ConnectionsOf(role, p) \subseteq HeldBy(p)
    \/ role = "api" /\ \A s \in Signal : closing[s] # "none"

(***************************************************************************)
(* A process that exits by itself has closed every runtime and given back  *)
(* every connection, also when one of them failed (app/api.ts:88-91,       *)
(* role.ts:31-46), and it says 0 only if none failed.                      *)
(***************************************************************************)
NothingLeaks ==
  life = "exited" =>
    /\ held = {}
    /\ exitCode = 0 => \A p \in PartsOf(role) : ~part[p].failed

(***************************************************************************)
(* A retention sweep that says it is complete has examined every batch as  *)
(* of one and the same time, over however many passes, limits and failed   *)
(* batches it took                                                         *)
(* (retention/index.ts:125-146).                                           *)
(***************************************************************************)
SweepsMissNothing ==
  \A p \in PartsOf(role) : sweep[p].lastDone \in {{}, 1..Batches}

(***************************************************************************)
(* A process told to stop stops, whatever fails on the way.                *)
(***************************************************************************)
ShutdownEnds == (\E s \in Signal : closing[s] # "none") ~> ~Alive

(***************************************************************************)
(* Whatever fails and whoever is told to stop: what still runs has its     *)
(* connections, what has ended has none, and a sweep that was cut short    *)
(* does not pass for a complete one.                                       *)
(***************************************************************************)
RolesConsistent ==
  /\ RolesTypeOK /\ ResourcesOutliveWork /\ RequestsKeepTheirResources
  /\ NothingLeaks /\ SweepsMissNothing
=============================================================================
