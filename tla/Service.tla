------------------------------ MODULE Service ------------------------------
(***************************************************************************)
(* The service as its provider and its supervisor see it: the lifecycle of *)
(* ServiceLifecycle and the deliveries of QQIngress in one process.  A     *)
(* delivery is a task of uvicorn and not of lifespan's task group: a       *)
(* failing worker closes everything while deliveries are at work.          *)
(***************************************************************************)
EXTENDS ServiceLifecycle, QQIngress

VARIABLE crashes   \* deaths of the process

vars == <<lifecycleVars, ingressVars, crashes>>

Init == LifecycleInit /\ IngressInit /\ crashes = 0

\* uvicorn passes requests on from the yield of lifespan until it ends lifespan
\* itself; qq_webhook needs a runtime that is not given up, and handle_request a
\* transport that is not closed.
Admitting == phase \in {"serving", "draining"} /\ child[Transport] # "off"

\* The provider delivers until it has an acknowledgement, and sometimes again.
Redeliver(d, e) == Admitting /\ Deliver(d, e) /\ UNCHANGED <<lifecycleVars, crashes>>

\* uvicorn waits for the requests it has before it ends lifespan.
Stop == NoDelivery /\ StopService /\ UNCHANGED <<ingressVars, crashes>>

Lifecycle(step) == step /\ UNCHANGED <<ingressVars, crashes>>

\* A delivery is a task of uvicorn, which goes on when lifespan has ended.
Handle(d) ==
    /\ DeliveryStep(d)
    /\ IF InTransaction(d) THEN UseDatabase ELSE UNCHANGED resource
    /\ UNCHANGED <<phase, cancelled, ready, next, escapes, child, error, crashes>>

\* The operator's process has connections of its own.
Bootstrap == BootstrapIdentity /\ UNCHANGED <<lifecycleVars, crashes>>

\* The process is killed, or ended by its supervisor after a failure.
Crash ==
    /\ phase # "down"
    /\ crashes' = crashes + 1
    /\ Down /\ DeliveriesDie

Restart == NoDelivery /\ Exit /\ UNCHANGED <<ingressVars, crashes>>

Next ==
    \/ Lifecycle(StartupStep) \/ Lifecycle(ShutdownStep)
    \/ \E c \in Children : Lifecycle(ChildStep(c))
    \/ \E d \in Deliveries : Handle(d)
    \/ \E d \in Deliveries, e \in Events : Redeliver(d, e)
    \/ Bootstrap \/ Stop \/ Crash \/ Restart

Spec == Init /\ [][Next]_vars

\* The event loop and its threads run; a cycle of a worker ends, because its
\* calls have timeouts; the provider does not give up an unacknowledged message.
FairSpec ==
    /\ Spec
    /\ WF_vars(Lifecycle(StartupStep)) /\ WF_vars(Lifecycle(ShutdownStep))
    /\ \A c \in Children : WF_vars(Lifecycle(EndCycle(c))) /\ WF_vars(Lifecycle(ChildLeaves(c)))
    /\ \A d \in Deliveries : WF_vars(Handle(d))
    /\ \A e \in Storable : SF_vars(\E d \in Deliveries : Redeliver(d, e))

TypeOK == LifecycleTypeOK /\ IngressTypeOK /\ crashes \in 0 .. faults

\* Every user_files row has its file, and every file in the upload directory is
\* named by a row, or of a delivery at work, or was left by one that died with the
\* process: no refusal, failure or duplicate leaves one behind
\* (webhook.py:226-228, uploads.py:267-272).
UploadsAccounted ==
    /\ kept = {e \in stored : HasFile(e)}
    /\ LET unaccounted == disk - Cardinality(kept) - Cardinality(Holding) IN
         0 <= unaccounted /\ unaccounted <= crashes * MaxDeliveries

\* An event that was delivered, after the user was set up, is in the end stored,
\* across failures, duplicates and deaths of the process, unless the service
\* stops.  The event whose file another message has brought is set apart: it is
\* answered 503 on every delivery (knowledge/models.py:15, webhook.py:225).
MessagesArrive ==
    \A e \in Storable :
        user /\ (\E d \in Deliveries : EventOf(d) = e)
            ~> HasIdentity(e) \/ FileTaken(e) \/ phase = "stopped"
=============================================================================
