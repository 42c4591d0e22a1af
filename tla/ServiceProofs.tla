--------------------------- MODULE ServiceProofs ---------------------------
(***************************************************************************)
(* The theorems about Service: type correctness and its four safety        *)
(* properties, for every set of worker loops, every set of events of any   *)
(* kinds, any number of concurrent deliveries and any number of faults and *)
(* deaths of the process.                                                  *)
(***************************************************************************)
EXTENDS Service, FiniteSetTheorems, TLAPS

-----------------------------------------------------------------------------
(* The inductive invariant.                                                *)

\* What the closing has passed is not open, unless an exception of the factory
\* excuses it; what is lost was lost by a construction.
ClosingInv ==
    /\ phase \notin {"closing", "stopped"} => next = 1
    /\ phase = "stopped" => next > Len(ClosingOrder)
    /\ \A i \in 1 .. Len(ClosingOrder) :
         i < next /\ resource[ClosingOrder[i]] = "open" => Excused(ClosingOrder[i])
    /\ \A r \in Resources :
         resource[r] = "lost" => r \in Adapters /\ "construction" \in escapes

\* What ties the resources, the tasks and the readiness to the phase of
\* lifespan: tasks work only while the group is open, the closing begins after
\* it, and a cancelled group has a failure for its reason.
LifecycleInv ==
    /\ LifecycleTypeOK
    /\ \A w \in Workers : child[w] = "cycle" => phase \in {"serving", "stopping", "draining"}
    /\ \A r \in Resources :
         resource[r] \in {"closed", "reopened"} => phase \in {"closing", "stopped"}
    /\ ready => phase \in {"recovering", "connecting", "serving"}
    /\ cancelled => phase \in {"serving", "stopping", "draining", "closing", "stopped"}
    /\ phase = "draining" \/ (phase = "serving" /\ cancelled) => error = "FAILURE"
    /\ resource["database"] = "reopened" => error = "FAILURE"
    /\ ClosingInv

Pcs == {"IDLE", "CHECK", "DOWNLOAD", "RENAME", "READ", "COMMIT", "RECHECK", "ACK"}
Files == {"NONE", "PART", "FINAL"}
DeliveryRecords ==
    [pc : Pcs, event : Events \cup {"none"}, file : Files, seen : BOOLEAN]

\* A delivery r is either idle, or it works on an event that its step admits,
\* and holds a file just where the event has one and the download is behind it.
DeliveryOK(r) ==
    /\ r \in DeliveryRecords
    /\ r.pc = "IDLE" => r = Idle
    /\ r.pc # "IDLE" => r.event \in Events
    /\ r.pc \in {"CHECK", "DOWNLOAD", "RENAME"} => Kind[r.event] \in {"TEXT", "FILE", "BADFILE"}
    /\ r.pc \in {"READ", "COMMIT", "RECHECK"} => r.event \in Storable
    /\ r.pc \in {"DOWNLOAD", "RENAME"} => HasFile(r.event)
    /\ r.pc \in {"IDLE", "CHECK", "DOWNLOAD", "ACK"} => r.file = "NONE"
    /\ r.pc = "RENAME" => r.file # "NONE"
    /\ r.pc \in {"READ", "COMMIT", "RECHECK"} => (r.file # "NONE" <=> HasFile(r.event))
    /\ r.pc = "ACK" /\ r.event \in Storable => r.event \in stored

IngressInv ==
    /\ delivery \in [Deliveries -> DeliveryRecords]
    /\ \A d \in Deliveries : DeliveryOK(delivery[d])
    /\ stored \subseteq Storable
    /\ kept = {e \in stored : HasFile(e)}
    /\ IsFiniteSet(kept)
    /\ user \in BOOLEAN /\ session \in BOOLEAN
    /\ disk \in Int
    /\ faults \in 0 .. MaxFaults

\* The files that neither a row nor a delivery answers for.
Unaccounted == disk - Cardinality(kept) - Cardinality(Holding)

CrashesInv ==
    /\ crashes \in 0 .. faults
    /\ 0 <= Unaccounted /\ Unaccounted <= crashes * MaxDeliveries

\* Deliveries outlive the serving of lifespan only after a failure.
ServingInv == NoDelivery \/ phase = "serving" \/ error = "FAILURE"

Inv == LifecycleInv /\ IngressInv /\ CrashesInv /\ ServingInv

LEMMA IdleOK == DeliveryOK(Idle)
  BY DEF DeliveryOK, DeliveryRecords, Pcs, Files, Idle

LEMMA Order ==
  /\ Len(ClosingOrder) = 6
  /\ \A i \in 1 .. 6 : ClosingOrder[i] \in Resources
  /\ \A i \in 1 .. 6 : ClosingOrder[i] \in Adapters => i \in {4, 5}
  /\ ClosingOrder[4] = "embedding" /\ ClosingOrder[5] = "llm"
  /\ \A r \in Resources : \E i \in 1 .. 6 : ClosingOrder[i] = r
<1>1. /\ Len(ClosingOrder) = 6
      /\ ClosingOrder[1] = "gateway" /\ ClosingOrder[2] = "client"
      /\ ClosingOrder[3] = "transport" /\ ClosingOrder[4] = "embedding"
      /\ ClosingOrder[5] = "llm" /\ ClosingOrder[6] = "database"
  BY DEF ClosingOrder
<1>2. \A i \in 1 .. 6 : i \in {1, 2, 3, 4, 5, 6}
  OBVIOUS
<1>3. Resources = {"gateway", "client", "transport", "embedding", "llm", "database"}
  BY DEF Resources, Runtime, Adapters
<1>4. {1, 2, 3, 4, 5, 6} \subseteq 1 .. 6
  OBVIOUS
<1> QED
  BY <1>1, <1>2, <1>3, <1>4 DEF Adapters

LEMMA HoldingFinite ==
  /\ IsFiniteSet(Holding)
  /\ Cardinality(Holding) \in 0 .. MaxDeliveries
<1>1. IsFiniteSet(Deliveries) /\ Cardinality(Deliveries) = MaxDeliveries
  BY FS_Interval, IngressAssumption DEF Deliveries, IngressAssumption
<1>2. Holding \subseteq Deliveries
  BY DEF Holding
<1>3. Cardinality(Holding) <= Cardinality(Deliveries) /\ IsFiniteSet(Holding)
  BY <1>1, <1>2, FS_Subset
<1>4. Cardinality(Holding) \in Nat
  BY <1>3, FS_CardinalityType
<1> QED
  BY <1>1, <1>3, <1>4, IngressAssumption DEF IngressAssumption

LEMMA InitInv == Init => Inv
<1> SUFFICES ASSUME Init PROVE Inv
  OBVIOUS
<1>1. LifecycleInv
  <2>1. \A r \in Resources : resource[r] = "absent"
    BY DEF Init, LifecycleInit, Nothing
  <2>2. LifecycleTypeOK
    <3>1. /\ resource \in [Resources -> ResourceStates]
          /\ child \in [Children -> {"off", "waiting", "cycle", "gone"}]
      BY DEF Init, LifecycleInit, Nothing, NoChildren, ResourceStates
    <3>2. next \in 1 .. Len(ClosingOrder) + 1 /\ escapes = {}
      BY Order DEF Init, LifecycleInit
    <3> QED
      BY <3>1, <3>2 DEF Init, LifecycleInit, LifecycleTypeOK, Phases
  <2>3. \A w \in Workers : child[w] # "cycle"
    BY DEF Init, LifecycleInit, NoChildren, Children
  <2>4. "database" \in Resources
    BY DEF Resources
  <2> QED
    BY <2>1, <2>2, <2>3, <2>4, Order DEF Init, LifecycleInit, LifecycleInv, ClosingInv
<1>2. /\ user = FALSE /\ session = FALSE /\ stored = {} /\ kept = {} /\ disk = 0
      /\ faults = 0 /\ crashes = 0
      /\ delivery = [d \in Deliveries |-> Idle]
  BY DEF Init, IngressInit
<1>3. IngressInv
  <2>1. 0 \in 0 .. MaxFaults
    BY IngressAssumption DEF IngressAssumption
  <2>2. /\ delivery \in [Deliveries -> DeliveryRecords]
        /\ \A d \in Deliveries : DeliveryOK(delivery[d])
    BY <1>2, IdleOK DEF DeliveryOK
  <2>3. kept = {e \in stored : HasFile(e)} /\ stored \subseteq Storable
    BY <1>2
  <2>4. IsFiniteSet(kept)
    BY <1>2, FS_EmptySet
  <2>5. user \in BOOLEAN /\ session \in BOOLEAN
    BY <1>2
  <2>6. disk \in Int /\ faults \in 0 .. MaxFaults
    BY <1>2, <2>1
  <2> QED
    BY <2>2, <2>3, <2>4, <2>5, <2>6, Zenon DEF IngressInv
<1>4. CrashesInv
  <2>1. Holding = {}
    BY <1>2 DEF Holding, Idle
  <2>2. Cardinality(kept) = 0 /\ Cardinality(Holding) = 0
    BY <1>2, <2>1, FS_EmptySet
  <2> QED
    BY <1>2, <2>2, IngressAssumption DEF CrashesInv, Unaccounted, IngressAssumption
<1>5. ServingInv
  BY <1>2 DEF ServingInv, NoDelivery, At, Idle
<1> QED
  BY <1>1, <1>3, <1>4, <1>5 DEF Inv

-----------------------------------------------------------------------------
(* The lifecycle.                                                          *)

LEMMA StartupInv == LifecycleInv /\ StartupStep => LifecycleInv'
<1> SUFFICES ASSUME LifecycleInv, StartupStep PROVE LifecycleInv'
  OBVIOUS
<1>0. /\ "database" \in Resources /\ Adapters \subseteq Resources /\ "llm" \in Adapters
      /\ "construction" \notin Adapters /\ "database" \notin Adapters
      /\ phase \notin {"closing", "stopped"}
  BY DEF Resources, Adapters, StartupStep, Boot, BuildAdapters, CreateRuntime,
         StartupRecovery, Connect
\* What is open before the closing begins is still to be passed.
<1>1. ASSUME next' = next,
             \A r \in Resources : resource'[r] = resource[r] \/ resource'[r] = "open"
                  \/ (resource'[r] = "lost" /\ r \in Adapters /\ "construction" \in escapes'),
             phase' # "stopped", escapes \subseteq escapes'
      PROVE  ClosingInv'
  <2>1. next' = 1
    BY <1>0, <1>1 DEF LifecycleInv, ClosingInv
  <2> QED
    BY <1>0, <1>1, <2>1, Order DEF LifecycleInv, ClosingInv
<1> USE DEF LifecycleInv, LifecycleTypeOK, Phases, ClosingUnchanged, ResourceStates
<1>2. CASE Boot
  <2>1. ClosingInv'
    BY <1>1, <1>2 DEF Boot, Owns
  <2> QED
    BY <1>0, <1>2, <2>1 DEF Boot, Owns
<1>3. CASE BuildAdapters
  <2>1. /\ resource' \in [Resources -> ResourceStates]
        /\ \A r \in Resources : resource'[r] = resource[r] \/ resource'[r] = "open"
             \/ (resource'[r] = "lost" /\ r \in Adapters /\ "construction" \in escapes')
    <3>1. CASE Constructed
      BY <3>1 DEF Constructed, Owns
    <3>2. CASE ConstructionClosed
      BY <3>2 DEF ConstructionClosed
    <3>3. CASE ConstructionLeaks
      <4>1. PICK created \in {{}, {"llm"}, Adapters} :
              resource' = [r \in Resources |-> IF r \in created THEN "lost" ELSE resource[r]]
        BY <3>3 DEF ConstructionLeaks
      <4>2. created \subseteq Adapters
        BY <1>0
      <4> QED
        BY <3>3, <4>1, <4>2 DEF ConstructionLeaks
    <3> QED
      BY <1>3, <3>1, <3>2, <3>3 DEF BuildAdapters
  <2>2. /\ phase = "building" /\ phase' \in {"wiring", "closing"}
        /\ escapes \subseteq escapes'
        /\ escapes' \subseteq {"construction"} \cup Adapters
        /\ error' \in {"NONE", "FAILURE", "CLEANUP"}
        /\ UNCHANGED <<cancelled, ready, next, child>>
        /\ error' = error \/ error' = "FAILURE"
    BY <1>3 DEF BuildAdapters, Constructed, ConstructionClosed, ConstructionLeaks, Fails
  <2>3. ClosingInv'
    BY <1>1, <2>1, <2>2
  <2> QED
    BY <1>0, <2>1, <2>2, <2>3
<1>4. CASE CreateRuntime
  <2>1. Available \in BOOLEAN
    BY DEF Available
  <2>2. /\ phase = "wiring"
        /\ phase' \in {"recovering", "closing"}
        /\ phase' = "closing" => ready' = ready
        /\ ready' \in BOOLEAN
        /\ error' \in {"NONE", "FAILURE", "CLEANUP"}
        /\ error' = error \/ error' = "FAILURE"
        /\ UNCHANGED <<cancelled, next, escapes, child>>
    BY <1>4, <2>1, Zenon DEF CreateRuntime, Fails
  <2>3. resource' = resource
          \/ resource' = [r \in Resources |-> IF r \in Runtime THEN "open" ELSE resource[r]]
    BY <1>4 DEF CreateRuntime, Owns
  <2>4. ClosingInv'
    BY <1>1, <2>2, <2>3
  <2> QED
    BY <1>0, <2>2, <2>3, <2>4 DEF Runtime
<1>5. CASE StartupRecovery
  <2>1. ClosingInv'
    BY <1>1, <1>5 DEF StartupRecovery
  <2> QED
    BY <1>0, <1>5, <2>1 DEF StartupRecovery, Fails
<1>6. CASE Connect
  <2>1. ClosingInv'
    BY <1>1, <1>6 DEF Connect
  <2>2. CASE phase' = "serving"
    <3>1. \A c \in Children : child'[c] = "waiting"
      BY <1>6, <2>2 DEF Connect
    <3> QED
      BY <1>0, <1>6, <2>1, <2>2, <3>1 DEF Connect, Children
  <2>3. CASE phase' = "draining"
    BY <1>0, <1>6, <2>1, <2>3 DEF Connect, Fails
  <2> QED
    BY <1>6, <2>2, <2>3 DEF Connect
<1> QED
  BY <1>2, <1>3, <1>4, <1>5, <1>6 DEF StartupStep

LEMMA ChildInv == ASSUME NEW c \in Children PROVE LifecycleInv /\ ChildStep(c) => LifecycleInv'
<1> SUFFICES ASSUME LifecycleInv, ChildStep(c) PROVE LifecycleInv'
  OBVIOUS
<1>0. UNCHANGED <<phase, ready, resource, next, escapes>>
  BY DEF ChildStep, StartCycle, EndCycle, CycleEscapes, ChildLeaves, ClosingUnchanged
<1>1. PICK s \in {"waiting", "cycle", "gone"} :
        /\ child' = [child EXCEPT ![c] = s]
        /\ s = "cycle" => phase = "serving"
        /\ \/ UNCHANGED <<cancelled, error>>
           \/ /\ cancelled' = TRUE /\ error' = "FAILURE"
              /\ phase \in {"serving", "stopping", "draining"}
  <2>1. CASE c \in Workers /\ StartCycle(c)
    BY <2>1 DEF StartCycle
  <2>2. CASE c \in Workers /\ EndCycle(c)
    BY <2>2 DEF EndCycle
  <2>3. CASE c \in Workers /\ CycleEscapes(c)
    BY <2>3 DEF CycleEscapes, Fails, LifecycleInv
  <2>4. CASE ChildLeaves(c)
    BY <2>4 DEF ChildLeaves
  <2> QED
    BY <2>1, <2>2, <2>3, <2>4 DEF ChildStep
<1>2. Workers \subseteq Children
  BY DEF Children
<1>3. ClosingInv'
  BY <1>0 DEF LifecycleInv, ClosingInv, Excused
<1>4. child' \in [Children -> {"off", "waiting", "cycle", "gone"}]
  BY <1>1 DEF LifecycleInv, LifecycleTypeOK
<1>5. LifecycleTypeOK'
  <2>1. cancelled' \in BOOLEAN
    BY <1>1 DEF LifecycleInv, LifecycleTypeOK
  <2>2. error' \in {"NONE", "FAILURE", "CLEANUP"}
    BY <1>1 DEF LifecycleInv, LifecycleTypeOK
  <2> QED
    BY <1>0, <1>4, <2>1, <2>2 DEF LifecycleInv, LifecycleTypeOK
<1> QED
  BY <1>0, <1>1, <1>2, <1>3, <1>5 DEF LifecycleInv, LifecycleTypeOK

\* The group is left, so that the closing finds no worker in a cycle.
LEMMA EndGroupInv == LifecycleInv /\ EndGroup => LifecycleInv'
<1> SUFFICES ASSUME LifecycleInv, EndGroup PROVE LifecycleInv'
  OBVIOUS
<1>1. \A w \in Workers : child[w] # "cycle"
  BY DEF EndGroup, GroupLeft, Children
<1>2. ClosingInv'
  BY DEF EndGroup, ClosingUnchanged, LifecycleInv, ClosingInv, Excused
<1> QED
  BY <1>1, <1>2 DEF EndGroup, ClosingUnchanged, LifecycleInv, LifecycleTypeOK, Phases

\* What a close passes is closed, was not open, or is excused by the exception
\* that made the closing pass it.
LEMMA CloseNextInv ==
  ASSUME LifecycleInv, NEW raised \in Raisable, CloseNext(raised)
  PROVE  LifecycleInv'
<1> DEFINE r == ClosingOrder[next]
<1> DEFINE skips == raised = "UNCAUGHT" /\ r \in Adapters
<1>1. next \in 1 .. 6 /\ r \in Resources /\ phase = "closing"
  BY Order DEF CloseNext, LifecycleInv, LifecycleTypeOK
<1>2. /\ resource' = [resource EXCEPT ![r] = IF @ = "open" THEN "closed" ELSE @]
      /\ error' = IF raised # "NONE" /\ error = "NONE" THEN "CLEANUP" ELSE error
      /\ next' = IF skips THEN 6 ELSE next + 1
      /\ escapes' = IF skips THEN escapes \cup {r} ELSE escapes
      /\ UNCHANGED <<phase, cancelled, ready, child>>
  BY Order DEF CloseNext, Close
<1>3. \A q \in Resources :
        /\ resource'[q] = resource[q] \/ (q = r /\ resource'[q] = "closed")
        /\ resource'[q] # "open" \/ (resource[q] = "open" /\ q # r)
  BY <1>1, <1>2 DEF LifecycleInv, LifecycleTypeOK
<1>4. skips => next \in {4, 5}
  BY <1>1, Order
<1> HIDE DEF r, skips
<1>5. ClosingInv'
  <2>1. ASSUME NEW i \in 1 .. 6, i < next', resource'[ClosingOrder[i]] = "open"
        PROVE  Excused(ClosingOrder[i])'
    <3>1. resource[ClosingOrder[i]] = "open" /\ ClosingOrder[i] # r
      BY <1>3, <2>1, Order
    <3>2. i # next
      BY <3>1 DEF r
    <3>3. CASE i < next
      BY <1>2, <2>1, <3>1, <3>3, Order DEF LifecycleInv, ClosingInv, Excused
    <3>4. CASE next < i
      <4>1. skips /\ next = 4 /\ i = 5
        BY <1>1, <1>2, <1>4, <2>1, <3>4
      <4> QED
        BY <1>2, <4>1, Order DEF r, Excused
    <3> QED
      BY <1>1, <3>2, <3>3, <3>4
  <2>2. \A q \in Resources :
          resource'[q] = "lost" => q \in Adapters /\ "construction" \in escapes'
    BY <1>2, <1>3 DEF LifecycleInv, ClosingInv
  <2> QED
    BY <1>1, <1>2, <2>1, <2>2, Order DEF ClosingInv
<1>6. LifecycleTypeOK'
  <2>1. next' \in 1 .. 7
    BY <1>1, <1>2
  <2>2. resource' \in [Resources -> ResourceStates]
    BY <1>1, <1>2 DEF LifecycleInv, LifecycleTypeOK, ResourceStates
  <2>3. escapes' \subseteq {"construction"} \cup Adapters
    BY <1>2 DEF LifecycleInv, LifecycleTypeOK, skips
  <2> QED
    BY <1>2, <2>1, <2>2, <2>3, Order DEF LifecycleInv, LifecycleTypeOK
<1>7. "database" \in Resources
  BY DEF Resources
<1> QED
  BY <1>1, <1>2, <1>3, <1>5, <1>6, <1>7 DEF LifecycleInv

LEMMA ShutdownInv == LifecycleInv /\ ShutdownStep => LifecycleInv'
<1> SUFFICES ASSUME LifecycleInv, ShutdownStep PROVE LifecycleInv'
  OBVIOUS
<1>1. CASE NoticeFailure
  <2>1. ClosingInv'
    BY <1>1 DEF NoticeFailure, Leave, ClosingUnchanged, LifecycleInv, ClosingInv, Excused
  <2> QED
    BY <1>1, <2>1 DEF NoticeFailure, Leave, ClosingUnchanged, LifecycleInv, LifecycleTypeOK, Phases
<1>2. CASE EndGroup
  BY <1>2, EndGroupInv
<1>3. CASE Closed
  <2>1. ClosingInv'
    BY <1>3 DEF Closed, ClosingUnchanged, LifecycleInv, ClosingInv, Excused
  <2> QED
    BY <1>3, <2>1 DEF Closed, ClosingUnchanged, LifecycleInv, LifecycleTypeOK, Phases
<1>4. CASE \E raised \in Raisable : CloseNext(raised)
  BY <1>4, CloseNextInv
<1> QED
  BY <1>1, <1>2, <1>3, <1>4 DEF ShutdownStep

LEMMA StopInv == LifecycleInv /\ StopService => LifecycleInv'
<1> SUFFICES ASSUME LifecycleInv, StopService PROVE LifecycleInv'
  OBVIOUS
<1>1. ClosingInv'
  BY DEF StopService, Leave, ClosingUnchanged, LifecycleInv, ClosingInv, Excused
<1> QED
  BY <1>1 DEF StopService, Leave, ClosingUnchanged, LifecycleInv, LifecycleTypeOK, Phases

LEMMA DownInv == LifecycleInv /\ Down => LifecycleInv'
<1> SUFFICES ASSUME LifecycleInv, Down PROVE LifecycleInv'
  OBVIOUS
<1>1. \A r \in Resources : resource'[r] = "absent"
  BY DEF Down, Nothing
<1>2. \A c \in Children : child'[c] = "off"
  BY DEF Down, NoChildren
<1>3. LifecycleTypeOK'
  <2>1. /\ resource' \in [Resources -> ResourceStates]
        /\ child' \in [Children -> {"off", "waiting", "cycle", "gone"}]
    BY DEF Down, Nothing, NoChildren, ResourceStates
  <2>2. next' \in 1 .. Len(ClosingOrder) + 1 /\ escapes' = {}
    BY Order DEF Down
  <2> QED
    BY <2>1, <2>2 DEF Down, LifecycleTypeOK, Phases
<1>4. "database" \in Resources
  BY DEF Resources
<1>5. ClosingInv'
  BY <1>1, Order DEF Down, ClosingInv
<1> QED
  BY <1>1, <1>2, <1>3, <1>4, <1>5 DEF Down, LifecycleInv, Children

\* A delivery opens a connection after the engine was disposed of only when
\* lifespan has ended because of a failure.
LEMMA HandleKeepsLifecycle ==
  ASSUME LifecycleInv, ServingInv, NEW d \in Deliveries, Handle(d)
  PROVE  LifecycleInv'
<1>1. UNCHANGED <<phase, cancelled, ready, next, escapes, child, error>>
  BY DEF Handle
<1>2. ~NoDelivery
  BY DEF Handle, DeliveryStep, NoDelivery, At, CheckIdentity, Download, UploadFails,
         RefuseUpload, Rename, ReadRows, Commit, CommitConflicts, CommitFails, Recheck,
         Acknowledge
<1>3. "database" \in Resources /\ "database" \notin Adapters
  BY DEF Resources, Adapters
<1>4. \/ UNCHANGED resource
      \/ resource' = [resource EXCEPT !["database"] =
                         IF @ = "closed" THEN "reopened" ELSE @]
  BY DEF Handle, UseDatabase
<1>5. \A r \in Resources :
        \/ resource'[r] = resource[r]
        \/ resource[r] = "closed" /\ resource'[r] = "reopened" /\ r = "database"
  BY <1>3, <1>4 DEF LifecycleInv, LifecycleTypeOK
<1>6. resource' \in [Resources -> ResourceStates]
  BY <1>3, <1>4 DEF LifecycleInv, LifecycleTypeOK, ResourceStates
<1>7. ClosingInv'
  BY <1>1, <1>5, Order DEF LifecycleInv, ClosingInv, Excused
<1>8. resource'["database"] = "reopened" => error = "FAILURE"
  BY <1>2, <1>3, <1>5 DEF LifecycleInv, ServingInv
<1> QED
  BY <1>1, <1>5, <1>6, <1>7, <1>8 DEF LifecycleInv, LifecycleTypeOK

-----------------------------------------------------------------------------
(* The deliveries.                                                         *)

Working(r) == IF r.file = "NONE" THEN 0 ELSE 1

\* When delivery d becomes r, the number of held files changes by its file.
LEMMA HoldingChanges ==
  ASSUME NEW d \in Deliveries, NEW r, DOMAIN delivery = Deliveries,
         delivery' = [delivery EXCEPT ![d] = r]
  PROVE  Cardinality(Holding') = Cardinality(Holding) - Held(d) + Working(r)
<1>1. IsFiniteSet(Holding) /\ Cardinality(Holding) \in Int
  BY HoldingFinite
<1>2. \A c \in Deliveries : delivery'[c] = IF c = d THEN r ELSE delivery[c]
  OBVIOUS
<1>3. Holding' = IF r.file = "NONE" THEN Holding \ {d} ELSE Holding \cup {d}
  BY <1>2 DEF Holding
<1>4. /\ Cardinality(Holding \ {d}) = Cardinality(Holding) - Held(d)
      /\ Cardinality(Holding \cup {d}) = Cardinality(Holding) + 1 - Held(d)
  <2>1. Held(d) = IF d \in Holding THEN 1 ELSE 0
    BY DEF Held
  <2>2. /\ Cardinality(Holding \ {d}) =
             IF d \in Holding THEN Cardinality(Holding) - 1 ELSE Cardinality(Holding)
        /\ Cardinality(Holding \cup {d}) =
             IF d \in Holding THEN Cardinality(Holding) ELSE Cardinality(Holding) + 1
    BY <1>1, FS_AddElement, FS_RemoveElement
  <2> QED
    BY <1>1, <2>1, <2>2
<1>5. Held(d) \in Int
  BY DEF Held
<1> QED
  BY <1>1, <1>3, <1>4, <1>5 DEF Working

\* What every step of a delivery keeps: each file has somebody to answer for it.
Balanced == IngressInv' /\ Unaccounted' = Unaccounted /\ faults' \in {faults, faults + 1}

\* A step that changes one delivery, and stores nothing, keeps the balance if it
\* leaves that delivery in order and counts its file.
LEMMA OneDelivery ==
  ASSUME IngressInv, NEW d \in Deliveries, NEW r, DeliveryOK(r),
         delivery' = [delivery EXCEPT ![d] = r],
         disk' = disk - Held(d) + Working(r),
         UNCHANGED <<stored, user, session, kept>>,
         UNCHANGED faults \/ Fault
  PROVE  Balanced
<1>1. faults' \in 0 .. MaxFaults /\ faults' \in {faults, faults + 1}
  BY IngressAssumption DEF IngressInv, Fault, IngressAssumption
<1>2. Cardinality(Holding') = Cardinality(Holding) - Held(d) + Working(r)
  BY HoldingChanges DEF IngressInv
<1>3. /\ Held(d) \in Int /\ Working(r) \in Int /\ disk \in Int
      /\ Cardinality(Holding) \in Int /\ Cardinality(kept) \in Int
  BY HoldingFinite, FS_CardinalityType DEF Held, Working, IngressInv
<1>4. Unaccounted' = Unaccounted
  BY <1>2, <1>3 DEF Unaccounted
<1>5. IngressInv'
  <2>1. DeliveryOK(r)' /\ r \in DeliveryRecords
    BY DEF DeliveryOK
  <2>2. \A c \in Deliveries : DeliveryOK(delivery[c])'
    BY <2>1 DEF IngressInv, DeliveryOK
  <2>3. delivery' \in [Deliveries -> DeliveryRecords]
    BY <2>1 DEF IngressInv
  <2> QED
    BY <1>1, <1>3, <2>2, <2>3 DEF IngressInv
<1> QED
  BY <1>1, <1>4, <1>5 DEF Balanced

\* The steps that end a delivery without an acknowledgement.
LEMMA RefuseBalanced ==
  ASSUME IngressInv, NEW d \in Deliveries, Refuse(d),
         UNCHANGED <<stored, user, session, kept>>,
         UNCHANGED faults \/ Fault
  PROVE  Balanced
<1>1. disk' = disk - Held(d) + Working(Idle)
  BY DEF Refuse, RemoveFile, Working, Idle, Held, IngressInv
<1> QED
  BY <1>1, IdleOK, OneDelivery DEF Refuse, Rest

\* The steps that go on with a delivery.
LEMMA Proceeds ==
  ASSUME IngressInv, NEW d \in Deliveries, delivery[d].pc # "IDLE",
         NEW r \in DeliveryRecords, DeliveryOK(r),
         delivery' = [delivery EXCEPT ![d] = r],
         disk' = disk - Held(d) + Working(r),
         UNCHANGED <<stored, user, session, kept, faults>>
  PROVE  Balanced
  BY OneDelivery

\* What a step knows of its delivery.
LEMMA Works ==
  ASSUME IngressInv, NEW d \in Deliveries
  PROVE  /\ DeliveryOK(delivery[d]) /\ delivery[d] \in DeliveryRecords
         /\ Held(d) = Working(delivery[d]) /\ Held(d) \in {0, 1}
         /\ disk \in Int /\ session \in BOOLEAN
  BY DEF IngressInv, DeliveryOK, Held, Holding, Working

LEMMA DeliverBalanced ==
  ASSUME IngressInv, NEW d \in Deliveries, NEW e \in Events, Deliver(d, e)
  PROVE  Balanced
<1> DEFINE r == [Idle EXCEPT !.pc = IF Kind[e] = "IGNORED" THEN "ACK" ELSE "CHECK",
                             !.event = e]
<1>1. /\ delivery' = [delivery EXCEPT ![d] = r]
      /\ UNCHANGED <<stored, user, session, kept, disk, faults>>
      /\ Kind[e] # "REJECTED" /\ At(d, "IDLE")
  BY DEF Deliver
<1>2. /\ r \in DeliveryRecords /\ r.event = e /\ r.file = "NONE"
      /\ r.pc = IF Kind[e] = "IGNORED" THEN "ACK" ELSE "CHECK"
  BY DEF Idle, DeliveryRecords, Pcs, Files
<1>3. Kind[e] \in {"TEXT", "FILE", "BADFILE", "IGNORED"}
  BY <1>1, IngressAssumption DEF IngressAssumption, Kinds
<1>4. DeliveryOK(r)
  BY <1>2, <1>3 DEF DeliveryOK, Storable
<1> HIDE DEF r
<1>5. disk' = disk - Held(d) + Working(r)
  <2>1. delivery[d].file = "NONE"
    BY <1>1, Works DEF At, DeliveryOK
  <2> QED
    BY <1>1, <1>2, <2>1, Works DEF Working
<1> QED
  BY <1>1, <1>4, <1>5, OneDelivery

\* A commit adds its event to the stored ones, and its file passes from the
\* delivery to the row.
LEMMA CommitBalanced ==
  ASSUME IngressInv, NEW d \in Deliveries, Commit(d)
  PROVE  Balanced
<1> DEFINE r == [delivery[d] EXCEPT !.pc = "ACK", !.file = "NONE"]
<1>1. /\ delivery' = [delivery EXCEPT ![d] = r]
      /\ stored' = stored \cup {EventOf(d)}
      /\ session' = TRUE
      /\ kept' = IF HasFile(EventOf(d)) THEN kept \cup {EventOf(d)} ELSE kept
      /\ UNCHANGED <<user, disk, faults>>
      /\ At(d, "COMMIT") /\ EventOf(d) \notin stored
  BY DEF Commit, IngressInv, DeliveryRecords, Conflict, HasIdentity
<1>2. /\ r \in DeliveryRecords /\ r.event = EventOf(d)
      /\ r.pc = "ACK" /\ r.file = "NONE"
  BY Works DEF DeliveryRecords, Pcs, Files, EventOf
<1> HIDE DEF r
<1>3. /\ EventOf(d) \in Storable /\ EventOf(d) \in Events
      /\ Held(d) = IF HasFile(EventOf(d)) THEN 1 ELSE 0
  BY <1>1, Works DEF DeliveryOK, At, EventOf, Working
<1>4. stored' \subseteq Storable /\ kept' = {e \in stored' : HasFile(e)}
  BY <1>1, <1>3 DEF IngressInv
<1>5. \A c \in Deliveries : DeliveryOK(delivery[c])'
  <2> TAKE c \in Deliveries
  <2>1. CASE c = d
    <3>1. delivery'[c] = r
      BY <1>1, <2>1 DEF IngressInv
    <3> QED
      BY <1>1, <1>2, <1>3, <3>1 DEF DeliveryOK
  <2>2. CASE c # d
    <3>1. delivery'[c] = delivery[c] /\ DeliveryOK(delivery[c])
      BY <1>1, <2>2 DEF IngressInv
    <3>2. stored \subseteq stored'
      BY <1>1
    <3> QED
      BY <3>1, <3>2 DEF DeliveryOK
  <2> QED
    BY <2>1, <2>2
<1>6. delivery' \in [Deliveries -> DeliveryRecords]
  BY <1>1, <1>2 DEF IngressInv
<1>7. /\ IsFiniteSet(kept') /\ Cardinality(kept) \in Int
      /\ Cardinality(kept') = Cardinality(kept) + (IF HasFile(EventOf(d)) THEN 1 ELSE 0)
  <2>1. IsFiniteSet(kept) /\ EventOf(d) \notin kept
    BY <1>1 DEF IngressInv
  <2> QED
    BY <1>1, <2>1, FS_AddElement, FS_CardinalityType
<1>8. Unaccounted' = Unaccounted
  <2>1. Cardinality(Holding') = Cardinality(Holding) - Held(d) + Working(r)
    BY <1>1, HoldingChanges DEF IngressInv
  <2>2. Working(r) = 0 /\ Cardinality(Holding) \in Int /\ disk \in Int
    BY <1>2, HoldingFinite, Works DEF Working
  <2> QED
    BY <1>1, <1>3, <1>7, <2>1, <2>2 DEF Unaccounted
<1>9. faults' \in 0 .. MaxFaults /\ user' \in BOOLEAN /\ disk' \in Int
  BY <1>1 DEF IngressInv
<1> QED
  BY <1>1, <1>4, <1>5, <1>6, <1>7, <1>8, <1>9 DEF Balanced, IngressInv

\* A duplicate gives its file back before it is acknowledged.
LEMMA DuplicateBalanced ==
  ASSUME IngressInv, NEW d \in Deliveries, At(d, "READ") \/ At(d, "RECHECK"),
         HasIdentity(EventOf(d)), AnswerDuplicate(d),
         UNCHANGED <<stored, user, session, kept, faults>>
  PROVE  Balanced
<1> DEFINE r == [delivery[d] EXCEPT !.pc = "ACK", !.file = "NONE"]
<1>1. delivery' = [delivery EXCEPT ![d] = r]
  BY DEF AnswerDuplicate, IngressInv, DeliveryRecords
<1>2. /\ r \in DeliveryRecords /\ r.event = EventOf(d)
      /\ r.pc = "ACK" /\ r.file = "NONE"
  BY Works DEF DeliveryRecords, Pcs, Files, EventOf
<1> HIDE DEF r
<1>3. DeliveryOK(r)
  <2>1. EventOf(d) \in Events
    BY Works DEF DeliveryOK, At, EventOf
  <2> QED
    BY <1>2, <2>1 DEF DeliveryOK, HasIdentity
<1>4. disk' = disk - Held(d) + Working(r)
  BY <1>2, Works DEF AnswerDuplicate, RemoveFile, Working
<1> QED
  BY <1>1, <1>3, <1>4, OneDelivery

LEMMA StepBalanced ==
  ASSUME IngressInv, NEW d \in Deliveries, DeliveryStep(d)
  PROVE  Balanced
<1> DEFINE b == delivery[d]
<1>0. /\ DeliveryOK(b) /\ b \in DeliveryRecords
      /\ Held(d) = Working(b) /\ Held(d) \in {0, 1}
      /\ disk \in Int /\ session \in BOOLEAN
  BY Works
<1> USE DEF At, EventOf, Pcs, Files
<1>1. CASE CheckIdentity(d)
  <2>1. PICK pc \in {"ACK", "DOWNLOAD", "READ"} :
          /\ delivery' = [delivery EXCEPT ![d] = [b EXCEPT !.pc = pc]]
          /\ pc = "ACK" => b.event \in stored
          /\ pc = "DOWNLOAD" => HasFile(b.event)
          /\ pc = "READ" => ~HasFile(b.event)
    BY <1>1 DEF CheckIdentity, Goto, HasIdentity, IngressInv, DeliveryRecords
  <2> DEFINE r == [b EXCEPT !.pc = pc]
  <2>2. r \in DeliveryRecords /\ r.pc = pc /\ r.event = b.event /\ r.file = b.file
    BY <1>0 DEF DeliveryRecords
  <2>3. /\ b.pc = "CHECK" /\ b.file = "NONE" /\ b.event \in Events
        /\ Kind[b.event] \in {"TEXT", "FILE", "BADFILE"}
        /\ UNCHANGED <<stored, user, session, kept, disk, faults>>
    BY <1>0, <1>1 DEF CheckIdentity, DeliveryOK
  <2> HIDE DEF r, b
  <2>4. DeliveryOK(r)
    BY <2>1, <2>2, <2>3 DEF DeliveryOK, HasFile, Storable
  <2>5. disk' = disk - Held(d) + Working(r)
    BY <1>0, <2>2, <2>3 DEF Working
  <2> QED
    BY <2>1, <2>3, <2>4, <2>5, OneDelivery DEF r
<1>2. CASE Download(d)
  <2> DEFINE r == [b EXCEPT !.pc = "RENAME", !.file = "PART"]
  <2>1. delivery' = [delivery EXCEPT ![d] = r]
    BY <1>2 DEF Download, IngressInv, DeliveryRecords
  <2>2. r \in DeliveryRecords /\ r.pc = "RENAME" /\ r.event = b.event /\ r.file = "PART"
    BY <1>0 DEF DeliveryRecords
  <2>3. /\ b.pc = "DOWNLOAD" /\ b.file = "NONE" /\ b.event \in Events /\ HasFile(b.event)
        /\ disk' = disk + 1 /\ UNCHANGED <<stored, user, session, kept, faults>>
    BY <1>0, <1>2 DEF Download, DeliveryOK
  <2> HIDE DEF r, b
  <2>4. DeliveryOK(r)
    BY <1>0, <2>2, <2>3 DEF DeliveryOK
  <2>5. disk' = disk - Held(d) + Working(r)
    BY <1>0, <2>2, <2>3 DEF Working
  <2> QED
    BY <2>1, <2>3, <2>4, <2>5, OneDelivery
<1>3. CASE Rename(d)
  <2> DEFINE r == [b EXCEPT !.pc = "READ", !.file = "FINAL"]
  <2>1. delivery' = [delivery EXCEPT ![d] = r]
    BY <1>3 DEF Rename, IngressInv, DeliveryRecords
  <2>2. r \in DeliveryRecords /\ r.pc = "READ" /\ r.event = b.event /\ r.file = "FINAL"
    BY <1>0 DEF DeliveryRecords
  <2>3. /\ b.pc = "RENAME" /\ b.file # "NONE" /\ b.event \in Events /\ HasFile(b.event)
        /\ Kind[b.event] = "FILE"
        /\ UNCHANGED <<stored, user, session, kept, disk, faults>>
    BY <1>0, <1>3 DEF Rename, DeliveryOK
  <2> HIDE DEF r, b
  <2>4. DeliveryOK(r)
    BY <2>2, <2>3 DEF DeliveryOK, Storable
  <2>5. disk' = disk - Held(d) + Working(r)
    BY <1>0, <2>2, <2>3 DEF Working
  <2> QED
    BY <2>1, <2>3, <2>4, <2>5, OneDelivery
<1>4. CASE ReadRows(d) /\ ~HasIdentity(EventOf(d)) /\ user
  <2> DEFINE r == [b EXCEPT !.pc = "COMMIT", !.seen = session]
  <2>1. delivery' = [delivery EXCEPT ![d] = r]
    BY <1>4 DEF ReadRows, IngressInv, DeliveryRecords
  <2>2. r \in DeliveryRecords /\ r.pc = "COMMIT" /\ r.event = b.event /\ r.file = b.file
    BY <1>0 DEF DeliveryRecords
  <2>3. b.pc = "READ" /\ UNCHANGED <<stored, user, session, kept, disk, faults>>
    BY <1>4 DEF ReadRows
  <2> HIDE DEF r, b
  <2>4. DeliveryOK(r)
    BY <1>0, <2>2, <2>3 DEF DeliveryOK
  <2>5. disk' = disk - Held(d) + Working(r)
    BY <1>0, <2>2, <2>3 DEF Working
  <2> QED
    BY <2>1, <2>3, <2>4, <2>5, OneDelivery
<1>5. CASE CommitConflicts(d)
  <2> DEFINE r == [b EXCEPT !.pc = "RECHECK"]
  <2>1. delivery' = [delivery EXCEPT ![d] = r]
    BY <1>5 DEF CommitConflicts, Goto, IngressInv, DeliveryRecords
  <2>2. r \in DeliveryRecords /\ r.pc = "RECHECK" /\ r.event = b.event /\ r.file = b.file
    BY <1>0 DEF DeliveryRecords
  <2>3. b.pc = "COMMIT" /\ UNCHANGED <<stored, user, session, kept, disk, faults>>
    BY <1>5 DEF CommitConflicts
  <2> HIDE DEF r, b
  <2>4. DeliveryOK(r)
    BY <1>0, <2>2, <2>3 DEF DeliveryOK
  <2>5. disk' = disk - Held(d) + Working(r)
    BY <1>0, <2>2, <2>3 DEF Working
  <2> QED
    BY <2>1, <2>3, <2>4, <2>5, OneDelivery
<1>6. CASE Acknowledge(d)
  <2>1. disk' = disk - Held(d) + Working(Idle)
    BY <1>0, <1>6 DEF Acknowledge, DeliveryOK, Working, Idle
  <2> QED
    BY <1>6, <2>1, IdleOK, OneDelivery DEF Acknowledge, Rest
<1>7. CASE (ReadRows(d) \/ Recheck(d)) /\ HasIdentity(EventOf(d))
  <2>1. CASE ReadRows(d)
    BY <1>7, <2>1, DuplicateBalanced DEF ReadRows
  <2>2. CASE Recheck(d)
    BY <1>7, <2>2, DuplicateBalanced DEF Recheck
  <2> QED
    BY <1>7, <2>1, <2>2
<1>8. CASE /\ Refuse(d) /\ UNCHANGED <<stored, user, session, kept>>
           /\ UNCHANGED faults \/ Fault
  BY <1>8, RefuseBalanced
<1>9. CASE Commit(d)
  BY <1>9, CommitBalanced
<1> HIDE DEF b
<1> QED
  BY <1>1, <1>2, <1>3, <1>4, <1>5, <1>6, <1>7, <1>8, <1>9
  DEF DeliveryStep, UploadFails, RefuseUpload, ReadRows, CommitFails, Recheck

-----------------------------------------------------------------------------
(* The composition.                                                        *)

\* A death leaves what the deliveries held: one file each at most.
LEMMA CrashInv == Inv /\ Crash => Inv'
<1> SUFFICES ASSUME Inv, Crash PROVE Inv'
  OBVIOUS
<1>1. LifecycleInv'
  BY DownInv DEF Inv, Crash
<1>2. /\ delivery' = [d \in Deliveries |-> Idle]
      /\ faults < MaxFaults /\ faults' = faults + 1
      /\ crashes' = crashes + 1
      /\ UNCHANGED <<stored, user, session, kept, disk>>
  BY DEF Crash, DeliveriesDie, Fault
<1>3. /\ disk \in Int /\ crashes \in Nat /\ faults \in Nat /\ crashes <= faults
      /\ 0 <= Unaccounted /\ Unaccounted <= crashes * MaxDeliveries
      /\ Cardinality(kept) \in Int
  BY FS_CardinalityType DEF Inv, IngressInv, CrashesInv
<1>4. /\ Cardinality(Holding) \in 0 .. MaxDeliveries
      /\ MaxDeliveries \in Nat /\ MaxFaults \in Nat
  BY HoldingFinite, IngressAssumption DEF IngressAssumption
<1>5. (crashes + 1) * MaxDeliveries = crashes * MaxDeliveries + MaxDeliveries
  BY <1>3, <1>4
<1>6. CrashesInv'
  <2>1. crashes * MaxDeliveries \in Nat
    BY <1>3, <1>4
  <2>2. Holding' = {}
    BY <1>2 DEF Holding, Idle
  <2>3. Unaccounted' = disk - Cardinality(kept)
    BY <1>2, <1>3, <2>2, FS_EmptySet DEF Unaccounted
  <2>4. Unaccounted' = Unaccounted + Cardinality(Holding)
    BY <1>3, <1>4, <2>3 DEF Unaccounted
  <2> HIDE DEF Unaccounted
  <2>5. Unaccounted \in Int
    BY <1>3, <1>4 DEF Unaccounted
  <2> QED
    BY <1>2, <1>3, <1>4, <1>5, <2>1, <2>4, <2>5 DEF CrashesInv
<1>7. IngressInv'
  <2>1. /\ delivery' \in [Deliveries -> DeliveryRecords]
        /\ \A d \in Deliveries : DeliveryOK(delivery[d])'
    BY <1>2, IdleOK DEF DeliveryOK
  <2>2. faults' \in 0 .. MaxFaults
    BY <1>2, <1>3, <1>4
  <2> QED
    BY <1>2, <2>1, <2>2 DEF Inv, IngressInv
<1>8. ServingInv'
  BY <1>2 DEF ServingInv, NoDelivery, At, Idle
<1> QED
  BY <1>1, <1>6, <1>7, <1>8 DEF Inv

\* The deliveries, and what counts them, are left alone.
LEMMA IngressUnchanged ==
  ASSUME Inv, UNCHANGED <<delivery, stored, session, kept, disk, faults, crashes>>,
         user' \in BOOLEAN
  PROVE  IngressInv' /\ CrashesInv'
<1>1. Unaccounted' = Unaccounted
  BY DEF Unaccounted, Holding
<1>2. CrashesInv'
  BY <1>1 DEF Inv, CrashesInv
<1>3. IngressInv'
  BY DEF Inv, IngressInv, DeliveryOK
<1> QED
  BY <1>2, <1>3

\* A delivery is left over from the serving only behind a failure.
LEMMA LifecycleServing ==
  ASSUME Inv, UNCHANGED ingressVars,
         NoDelivery \/ StartupStep \/ ShutdownStep \/ \E c \in Children : ChildStep(c)
  PROVE  ServingInv'
<1>1. NoDelivery' = NoDelivery
  BY DEF ingressVars, NoDelivery, At
<1>2. CASE NoDelivery
  BY <1>1, <1>2 DEF ServingInv
<1>3. CASE StartupStep
  <2>1. phase # "serving" /\ (error' = error \/ error' = "FAILURE")
    BY <1>3 DEF StartupStep, Boot, BuildAdapters, CreateRuntime, StartupRecovery, Connect,
                Fails
  <2> QED
    BY <1>1, <2>1 DEF Inv, ServingInv
<1>4. CASE ShutdownStep
  <2>1. /\ phase = "serving" => cancelled
        /\ error = "FAILURE" => error' = "FAILURE"
    BY <1>4 DEF ShutdownStep, NoticeFailure, Leave, EndGroup, Closed, CloseNext, Close
  <2> QED
    BY <1>1, <2>1 DEF Inv, LifecycleInv, ServingInv
<1>5. CASE \E c \in Children : ChildStep(c)
  <2>1. phase' = phase /\ (error' = error \/ error' = "FAILURE")
    BY <1>5 DEF ChildStep, StartCycle, EndCycle, CycleEscapes, ChildLeaves, Fails
  <2> QED
    BY <1>1, <2>1 DEF Inv, ServingInv
<1> QED
  BY <1>2, <1>3, <1>4, <1>5

\* Steps of lifespan leave the deliveries alone; those of a delivery leave alone
\* all of lifespan but the connections of the engine.
LEMMA NextInv == Inv /\ [Next]_vars => Inv'
<1> SUFFICES ASSUME Inv, [Next]_vars PROVE Inv'
  OBVIOUS
<1>1. ASSUME UNCHANGED <<ingressVars, crashes>>, LifecycleInv',
             NoDelivery \/ StartupStep \/ ShutdownStep \/ \E c \in Children : ChildStep(c)
      PROVE  Inv'
  <2>1. IngressInv' /\ CrashesInv'
    BY <1>1, IngressUnchanged DEF ingressVars, Inv, IngressInv
  <2> QED
    BY <1>1, <2>1, LifecycleServing DEF Inv
<1>2. ASSUME UNCHANGED lifecycleVars PROVE LifecycleInv'
  BY <1>2 DEF Inv, LifecycleInv, LifecycleTypeOK, ClosingInv, Excused, lifecycleVars
<1>3. CASE Lifecycle(StartupStep) \/ Lifecycle(ShutdownStep)
           \/ \E c \in Children : Lifecycle(ChildStep(c))
  BY <1>1, <1>3, StartupInv, ShutdownInv, ChildInv DEF Inv, Lifecycle
<1>4. CASE Stop
  BY <1>1, <1>4, StopInv DEF Inv, Stop
<1>5. CASE Restart
  BY <1>1, <1>5, DownInv DEF Inv, Restart, Exit
<1>6. CASE Crash
  BY <1>6, CrashInv
<1>7. CASE Bootstrap
  <2>1. /\ UNCHANGED <<delivery, stored, session, kept, disk, faults, crashes>>
        /\ user' = TRUE /\ UNCHANGED lifecycleVars
    BY <1>7 DEF Bootstrap, BootstrapIdentity
  <2>2. ServingInv'
    BY <2>1 DEF Inv, ServingInv, NoDelivery, At, lifecycleVars
  <2> QED
    BY <1>2, <2>1, <2>2, IngressUnchanged DEF Inv
<1>8. ASSUME NEW d \in Deliveries, Handle(d) \/ \E e \in Events : Redeliver(d, e)
      PROVE  Inv'
  <2>1. Balanced
    BY <1>8, StepBalanced, DeliverBalanced DEF Inv, Handle, Redeliver
  <2>2. LifecycleInv'
    BY <1>2, <1>8, HandleKeepsLifecycle DEF Inv, Redeliver
  <2>3. CrashesInv'
    BY <1>8, <2>1 DEF Balanced, Inv, IngressInv, CrashesInv, Handle, Redeliver
  <2>4. ServingInv'
    <3>1. UNCHANGED <<phase, error>>
      BY <1>8 DEF Handle, Redeliver, lifecycleVars
    <3>2. phase = "serving" \/ error = "FAILURE"
      <4>1. CASE Handle(d)
        <5>1. ~NoDelivery
          BY <4>1 DEF Handle, DeliveryStep, NoDelivery, At, CheckIdentity, Download,
                 UploadFails, RefuseUpload, Rename, ReadRows, Commit, CommitConflicts,
                 CommitFails, Recheck, Acknowledge
        <5> QED
          BY <5>1 DEF Inv, ServingInv
      <4>2. CASE \E e \in Events : Redeliver(d, e)
        BY <4>2 DEF Redeliver, Admitting, Inv, LifecycleInv
      <4> QED
        BY <1>8, <4>1, <4>2
    <3> QED
      BY <3>1, <3>2 DEF ServingInv
  <2> QED
    BY <2>1, <2>2, <2>3, <2>4 DEF Balanced, Inv
<1>9. CASE UNCHANGED vars
  <2>1. UNCHANGED <<ingressVars, crashes>> /\ UNCHANGED lifecycleVars
    BY <1>9 DEF vars
  <2>2. ServingInv'
    BY <2>1 DEF Inv, ServingInv, NoDelivery, At, lifecycleVars, ingressVars
  <2> QED
    BY <1>2, <2>1, <2>2, IngressUnchanged DEF ingressVars, Inv, IngressInv
<1> QED
  BY <1>3, <1>4, <1>5, <1>6, <1>7, <1>8, <1>9 DEF Next

\* The inductive invariant holds in every reachable state.
THEOREM InvAlways == Spec => []Inv
  BY InitInv, NextInv, PTL DEF Spec

\* A delivery holds a file only for an event that has one, nothing but messages
\* is stored, and there are never more deaths than faults.
THEOREM TypeCorrect == Spec => []TypeOK
<1>1. Inv => TypeOK
  <2> SUFFICES ASSUME Inv PROVE TypeOK
    OBVIOUS
  <2>1. ASSUME NEW d \in Deliveries
        PROVE  /\ delivery[d].pc \in Pcs
               /\ At(d, "IDLE") <=> delivery[d] = Idle
               /\ delivery[d].file # "NONE" => HasFile(EventOf(d)) /\ ~At(d, "IDLE")
    BY DEF Inv, IngressInv, DeliveryOK, DeliveryRecords, At, EventOf, Idle, Pcs
  <2>2. kept \subseteq stored
    BY DEF Inv, IngressInv
  <2>3. disk \in Nat
    <3>1. Cardinality(kept) \in Nat /\ Cardinality(Holding) \in Nat /\ disk \in Int
      BY HoldingFinite, FS_CardinalityType, IngressAssumption
      DEF Inv, IngressInv, IngressAssumption
    <3> QED
      BY <3>1 DEF Inv, CrashesInv, Unaccounted
  <2> QED
    BY <2>1, <2>2, <2>3 DEF Inv, LifecycleInv, IngressInv, CrashesInv, TypeOK, IngressTypeOK, Pcs
<1> QED
  BY <1>1, InvAlways, PTL

\* No delivery acknowledges a message that is not stored with its file, whatever
\* its duplicates, its failures and the deaths of the process.
THEOREM AckedIsStoredAlways == Spec => []AckedIsStored
<1>1. Inv => AckedIsStored
  BY DEF Inv, IngressInv, DeliveryOK, AckedIsStored, At, EventOf
<1> QED
  BY <1>1, InvAlways, PTL

\* However deliveries are refused, fail, collide and turn out to be duplicates,
\* the files in the upload directory are those of the rows, those of the deliveries
\* at work, and at most one per delivery for each death of the process.
THEOREM UploadsAccountedAlways == Spec => []UploadsAccounted
<1>1. Inv => UploadsAccounted
  BY DEF Inv, IngressInv, CrashesInv, Unaccounted, UploadsAccounted
<1> QED
  BY <1>1, InvAlways, PTL

\* No worker, of any number, is in a cycle when the closing has begun.
THEOREM WorkersLeaveFirstAlways == Spec => []WorkersLeaveFirst
<1>1. Inv => WorkersLeaveFirst
  BY DEF Inv, LifecycleInv, WorkersLeaveFirst
<1> QED
  BY <1>1, InvAlways, PTL

\* However startup, service and cleanup fail, lifespan ends not ready; it leaves
\* nothing open but the adapters behind an exception that the factory does not
\* catch; and a connection is opened again only behind a failure.
THEOREM EverythingClosedAlways == Spec => []EverythingClosed
<1>1. Inv => EverythingClosed
  <2> SUFFICES ASSUME Inv, phase = "stopped" PROVE EverythingClosed
    BY DEF EverythingClosed
  <2>1. ~ready /\ (resource["database"] = "reopened" => error = "FAILURE")
    BY DEF Inv, LifecycleInv
  <2>2. ASSUME NEW r \in Resources, resource[r] \in {"open", "lost"} PROVE Excused(r)
    <3>1. CASE resource[r] = "open"
      <4>1. PICK i \in 1 .. 6 : ClosingOrder[i] = r
        BY Order
      <4>2. i < next
        BY Order DEF Inv, LifecycleInv, LifecycleTypeOK, ClosingInv
      <4> QED
        BY <3>1, <4>1, <4>2, Order DEF Inv, LifecycleInv, ClosingInv
    <3>2. CASE resource[r] = "lost"
      BY <3>2 DEF Inv, LifecycleInv, ClosingInv, Excused
    <3> QED
      BY <2>2, <3>1, <3>2
  <2> QED
    BY <2>1, <2>2 DEF EverythingClosed
<1> QED
  BY <1>1, InvAlways, PTL
=============================================================================
