-------------------------- MODULE ServiceLifecycle --------------------------
(***************************************************************************)
(* One process of the service: construction of its resources, startup      *)
(* recovery, the task group of worker loops and of the QQ transport, and   *)
(* shutdown, in an orderly way or because something failed                 *)
(* (application/lifecycle.py, LifespanBotpyRuntime of qq_botpy.py,         *)
(* adapters/factory.py).                                                   *)
(*                                                                         *)
(* What a cycle of a worker does is in the other modules.  Here it is a    *)
(* thread that runs to its end whatever is cancelled meanwhile, and may    *)
(* end with an exception that its loop does not survive.                   *)
(***************************************************************************)
EXTENDS Integers, Sequences

CONSTANT Workers   \* the worker loops (six of them in lifespan)

Transport == "transport"
Children == Workers \cup {Transport}

ASSUME LifecycleAssumption == Transport \notin Workers

\* What the QQ runtime owns, and what the adapter factory owns.
Runtime == {"gateway", "client", "transport"}
Adapters == {"embedding", "llm"}
Resources == Runtime \cup Adapters \cup {"database"}

\* The order in which lifespan closes what it owns: the adapters in the
\* reverse order of their creation, the engine last.
ClosingOrder == <<"gateway", "client", "transport", "embedding", "llm", "database">>

\* lost: open, and no variable refers to it; reopened: the engine was disposed
\* of, and a later transaction has opened a connection again.
ResourceStates == {"absent", "open", "lost", "closed", "reopened"}

\* The factory catches OSError, RuntimeError and ValueError, and nothing else.
Raisable == {"NONE", "CAUGHT", "UNCAUGHT"}

VARIABLES
    phase,      \* where the coroutine of lifespan is
    cancelled,  \* the cancel scope of the task group
    ready,      \* readiness["product_readiness"] is "ready"
    resource,   \* state of the owned resources
    next,       \* the position in ClosingOrder that is closed next
    escapes,    \* where the factory met an exception it does not catch
    child,      \* the tasks of the group
    error       \* what the lifespan will raise

lifecycleVars == <<phase, cancelled, ready, resource, next, escapes, child, error>>

Phases == {"down", "building", "wiring", "recovering", "connecting", "serving",
           "stopping", "draining", "closing", "stopped"}

Nothing == [r \in Resources |-> "absent"]
NoChildren == [c \in Children |-> "off"]

LifecycleInit ==
    /\ phase = "down" /\ cancelled = FALSE /\ ready = FALSE
    /\ resource = Nothing /\ next = 1 /\ escapes = {}
    /\ child = NoChildren /\ error = "NONE"

Owns(rs) == resource' = [r \in Resources |-> IF r \in rs THEN "open" ELSE resource[r]]
Fails == error' = "FAILURE"

\* What is closed, and what has gone wrong in closing, is of the shutdown.
ClosingUnchanged == UNCHANGED <<next, escapes>>

-----------------------------------------------------------------------------
(* Startup.                                                                *)

\* uvicorn enters lifespan, which creates the engine before anything else.
Boot ==
    /\ phase = "down"
    /\ phase' = "building"
    /\ Owns({"database"})
    /\ UNCHANGED <<cancelled, ready, child, error>> /\ ClosingUnchanged

Constructed == Owns(Adapters) /\ UNCHANGED escapes

\* A construction that fails with an exception the factory catches closes what
\* it had created.
ConstructionClosed == UNCHANGED <<resource, escapes>>

\* With any other exception, of the construction (Chroma is the last of it) or of
\* a close in _close_created, what was created, and not closed, is lost.
ConstructionLeaks ==
    /\ \E created \in {{}, {"llm"}, Adapters} :
         resource' = [r \in Resources |-> IF r \in created THEN "lost" ELSE resource[r]]
    /\ escapes' = escapes \cup {"construction"}

\* _create_runtime_adapters: an exception it knows is fatal in production,
\* elsewhere the service goes on without adapters; any other is always fatal.
BuildAdapters ==
    /\ phase = "building"
    /\ \/ phase' = "wiring" /\ Constructed /\ UNCHANGED error
       \/ phase' = "wiring" /\ ConstructionClosed /\ UNCHANGED error
       \/ phase' = "closing" /\ (ConstructionClosed \/ ConstructionLeaks) /\ Fails
    /\ UNCHANGED <<cancelled, ready, next, child>>

\* _readiness_state, which asks for the IMAP gateway and the LLM, of a service
\* that is not configured to be local only.
Available == resource["llm"] = "open"

\* In production the adapters are required once more; then _create_qq_runtime,
\* whose client and gateway exist before they do any I/O.
CreateRuntime ==
    /\ phase = "wiring"
    /\ \/ /\ phase' = "recovering"
          /\ Owns(Runtime)
          /\ ready' = Available
          /\ UNCHANGED error
       \/ /\ phase' = "closing"
          /\ Fails
          /\ UNCHANGED <<resource, ready>>
    /\ UNCHANGED <<cancelled, child>> /\ ClosingUnchanged

\* _startup_recovery runs before any task exists.
StartupRecovery ==
    /\ phase = "recovering"
    /\ \/ phase' = "connecting" /\ UNCHANGED <<ready, error>>
       \/ phase' = "closing" /\ ready' = FALSE /\ Fails
    /\ UNCHANGED <<cancelled, resource, child>> /\ ClosingUnchanged

\* LifespanBotpyRuntime.start: the transport's task is ready before any worker
\* starts; a refused login cancels the group.
Connect ==
    /\ phase = "connecting"
    /\ \/ /\ phase' = "serving"
          /\ child' = [c \in Children |-> "waiting"]
          /\ UNCHANGED <<cancelled, ready, error>>
       \/ /\ phase' = "draining"
          /\ cancelled' = TRUE /\ ready' = FALSE
          /\ Fails
          /\ UNCHANGED child
    /\ UNCHANGED resource /\ ClosingUnchanged

-----------------------------------------------------------------------------
(* The task group.                                                         *)

StartCycle(w) ==
    /\ phase = "serving"
    /\ ~cancelled
    /\ child[w] = "waiting"
    /\ child' = [child EXCEPT ![w] = "cycle"]
    /\ UNCHANGED <<phase, cancelled, ready, resource, error>> /\ ClosingUnchanged

\* The loop survives RuntimeError, ValueError and SQLAlchemyError.
EndCycle(w) ==
    /\ child[w] = "cycle"
    /\ child' = [child EXCEPT ![w] = "waiting"]
    /\ UNCHANGED <<phase, cancelled, ready, resource, error>> /\ ClosingUnchanged

\* Any other exception ends the task and cancels its siblings.
CycleEscapes(w) ==
    /\ child[w] = "cycle"
    /\ child' = [child EXCEPT ![w] = "gone"]
    /\ cancelled' = TRUE
    /\ Fails
    /\ UNCHANGED <<phase, ready, resource>> /\ ClosingUnchanged

\* Cancellation reaches a task where it waits, never inside a cycle's thread.
ChildLeaves(c) ==
    /\ cancelled
    /\ child[c] = "waiting"
    /\ child' = [child EXCEPT ![c] = "gone"]
    /\ UNCHANGED <<phase, cancelled, ready, resource, error>> /\ ClosingUnchanged

\* The body of lifespan is left: by uvicorn at the end of the service, or by
\* the cancellation that follows a failure, which uvicorn does not notice.
Leave(to) ==
    /\ phase = "serving"
    /\ phase' = to
    /\ cancelled' = TRUE /\ ready' = FALSE
    /\ UNCHANGED <<resource, child, error>> /\ ClosingUnchanged

StopService == ~cancelled /\ Leave("stopping")
NoticeFailure == cancelled /\ Leave("draining")

-----------------------------------------------------------------------------
(* Shutdown.                                                               *)

\* Threads are abandoned when the tasks that wait for them are cancelled.
GroupAbandoned == \A c \in Children : child[c] # "waiting"

GroupLeft == \A c \in Children : child[c] \in {"off", "gone"}

\* The task group is left when its last task has ended; from here on no
\* request finds the runtime (qq_runtime = None).
EndGroup ==
    /\ phase \in {"stopping", "draining"}
    /\ GroupLeft
    /\ phase' = "closing"
    /\ UNCHANGED <<cancelled, ready, resource, child, error>> /\ ClosingUnchanged

\* The close of r, if there is something to close.
Close(r, raised) ==
    /\ raised # "NONE" => resource[r] = "open" /\ r # "gateway"
    /\ resource' = [resource EXCEPT ![r] = IF @ = "open" THEN "closed" ELSE @]
    /\ error' = IF raised # "NONE" /\ error = "NONE" THEN "CLEANUP" ELSE error

\* The first error ends the cleanup.
CloseUntilError(raised) ==
    /\ phase = "closing"
    /\ next <= Len(ClosingOrder)
    /\ Close(ClosingOrder[next], raised)
    /\ next' = IF raised # "NONE" THEN Len(ClosingOrder) + 1 ELSE next + 1
    /\ UNCHANGED <<phase, cancelled, ready, escapes, child>>

\* One close, shielded from cancellation.  The closes of the runtime and
\* _cleanup_lifecycle_resources go on after any exception; OwnedAdapters.close
\* goes on after those it catches, any other skips the adapters that are left.
\* The first error of all is the one that is raised.
CloseNext(raised) ==
    /\ phase = "closing"
    /\ next <= Len(ClosingOrder)
    /\ LET r == ClosingOrder[next]
           skips == raised = "UNCAUGHT" /\ r \in Adapters IN
         /\ Close(r, raised)
         /\ next' = IF skips THEN Len(ClosingOrder) ELSE next + 1
         /\ escapes' = IF skips THEN escapes \cup {r} ELSE escapes
    /\ UNCHANGED <<phase, cancelled, ready, child>>

Closed ==
    /\ phase = "closing"
    /\ next > Len(ClosingOrder)
    /\ phase' = "stopped"
    /\ UNCHANGED <<cancelled, ready, resource, child, error>> /\ ClosingUnchanged

\* A transaction outside the task group: after the engine was disposed of it
\* opens a connection again.
UseDatabase ==
    resource' = [resource EXCEPT !["database"] = IF @ = "closed" THEN "reopened" ELSE @]

\* The process is gone, or it dies.
Down ==
    /\ phase' = "down" /\ cancelled' = FALSE /\ ready' = FALSE
    /\ resource' = Nothing /\ next' = 1 /\ escapes' = {}
    /\ child' = NoChildren /\ error' = "NONE"

\* After a failure of a worker the process goes on answering without
\* lifespan until somebody ends it.
Exit == phase = "stopped" /\ Down

-----------------------------------------------------------------------------
StartupStep == Boot \/ BuildAdapters \/ CreateRuntime \/ StartupRecovery \/ Connect
ChildStep(c) ==
    \/ c \in Workers /\ (StartCycle(c) \/ EndCycle(c) \/ CycleEscapes(c))
    \/ ChildLeaves(c)
ShutdownStep ==
    \/ NoticeFailure \/ EndGroup \/ Closed
    \/ \E raised \in Raisable : CloseNext(raised)

LifecycleTypeOK ==
    /\ phase \in Phases
    /\ cancelled \in BOOLEAN /\ ready \in BOOLEAN
    /\ resource \in [Resources -> ResourceStates]
    /\ next \in 1 .. Len(ClosingOrder) + 1
    /\ escapes \subseteq {"construction"} \cup Adapters
    /\ child \in [Children -> {"off", "waiting", "cycle", "gone"}]
    /\ error \in {"NONE", "FAILURE", "CLEANUP"}

-----------------------------------------------------------------------------
(* Properties.                                                             *)

\* No cycle of a worker works with something that was closed: a push during
\* a shutdown never finds the gateway closed, which would fail its run for
\* good (deployment.md:126, operations.md:105, qq_botpy.py:236).
WorkersLeaveFirst ==
    \A w \in Workers :
        child[w] = "cycle" => \A r \in Resources : resource[r] \notin {"closed", "reopened"}

\* The adapters that an exception outside the three classes leaves open.
Excused(r) ==
    \/ r \in Adapters /\ "construction" \in escapes
    \/ r = "llm" /\ "embedding" \in escapes

\* When lifespan has ended, at whatever point of the startup or the service
\* something failed and whatever raised while closing, the process, if it still
\* answers, does not report ready; nothing is left open but the adapters behind
\* an exception the factory does not catch (factory.py:89, 177-179); and the
\* database is used again only after a failure, whose requests are not waited for
\* (lifecycle.py:130-158, 512-516; deployment.md:128).
EverythingClosed ==
    phase = "stopped" =>
        /\ ~ready
        /\ \A r \in Resources : resource[r] \in {"open", "lost"} => Excused(r)
        /\ resource["database"] = "reopened" => error = "FAILURE"
=============================================================================
