------------------------- MODULE KnowledgeIndexProofs -------------------------
(***************************************************************************)
(* The theorems about KnowledgeIndex: type correctness with the bound of   *)
(* the automatic attempts, and that what is searchable has its vectors,    *)
(* for every set of documents and every bound.                             *)
(***************************************************************************)
EXTENDS KnowledgeIndex, TLAPS

-----------------------------------------------------------------------------
(* The inductive invariant.                                                *)

Pcs == {"startup", "cleanup", "delete", "deleted", "index", "upsert", "upserted",
        "reset", "rebuild"}
Workers == [pc : Pcs, doc : Docs \cup {NoDoc}, rest : SUBSET Docs]

\* What the worker holds is what its step may work on; during a rebuild the
\* service does not run, so that nothing is removed under it.
WorkerInv ==
    /\ worker \in Workers
    /\ worker.pc \in {"delete", "deleted"} =>
         worker.doc \in Docs /\ lifecycle[worker.doc] = "REMOVED"
    /\ worker.pc = "delete" => attempts[worker.doc] < MaxAttempts
    /\ worker.pc \in {"upsert", "upserted"} =>
         worker.doc \in Docs /\ lifecycle[worker.doc] # "NONE"
    /\ worker.pc = "upserted" => worker.doc \in vectors
    /\ \A d \in worker.rest : lifecycle[d] = "ACTIVE"
    /\ worker.pc \notin {"reset", "rebuild"} => worker.rest = {}
    /\ worker.pc = "reset" => \A d \in Docs : lifecycle[d] = "ACTIVE" => index[d] = "PENDING"

\* Each rebuild makes a document PENDING once whose attempts are used up.
AttemptsInv ==
    /\ attempts \in [Docs -> Nat]
    /\ \A d \in Docs :
         /\ attempts[d] <= MaxAttempts + rebuilds
         /\ lifecycle[d] = "ACTIVE" /\ index[d] = "PENDING" =>
              attempts[d] < MaxAttempts + rebuilds
         /\ lifecycle[d] = "NONE" => attempts[d] = 0 /\ index[d] = "PENDING"

RowsInv ==
    /\ lifecycle \in [Docs -> {"NONE", "ACTIVE", "REMOVED"}]
    /\ index \in [Docs -> {"PENDING", "INDEXING", "READY", "FAILED"}]
    /\ stale \in [Docs -> BOOLEAN]
    /\ vectors \subseteq Docs /\ \A d \in vectors : lifecycle[d] # "NONE"
    /\ retrying \subseteq Docs /\ \A d \in retrying : lifecycle[d] # "NONE"
    /\ \A d \in Docs : lifecycle[d] = "ACTIVE" /\ index[d] = "READY" => d \in vectors

BoundsInv ==
    /\ crashes \in 0 .. MaxCrashes
    /\ requeues \in 0 .. MaxRequeues
    /\ rebuilds \in 0 .. MaxRebuilds

Inv == WorkerInv /\ AttemptsInv /\ RowsInv /\ BoundsInv

LEMMA BoundsAreNat ==
  /\ MaxAttempts \in Nat \ {0} /\ MaxCrashes \in Nat
  /\ MaxRequeues \in Nat /\ MaxRebuilds \in Nat
  BY KnowledgeAssumption DEF KnowledgeAssumption

LEMMA InitInv == Init => Inv
  BY BoundsAreNat
  DEF Init, Inv, WorkerInv, Workers, Pcs, At, AttemptsInv, RowsInv, BoundsInv

-----------------------------------------------------------------------------
(* The worker.                                                             *)

LEMMA CleanupInv ==
  Inv /\ (SelectRemoved \/ ChromaDeletes \/ ChromaDeleteFails \/ MarkCleaned) => Inv'
<1> SUFFICES ASSUME Inv, SelectRemoved \/ ChromaDeletes \/ ChromaDeleteFails \/ MarkCleaned
             PROVE  Inv'
  OBVIOUS
<1> USE BoundsAreNat DEF Inv, WorkerInv, Workers, Pcs, AttemptsInv, RowsInv, BoundsInv, bounds, At
<1>1. CASE SelectRemoved
  BY <1>1 DEF SelectRemoved, ToClean, Cleanable, Removed
<1>2. CASE ChromaDeletes
  BY <1>2 DEF ChromaDeletes
<1>3. CASE ChromaDeleteFails
  BY <1>3 DEF ChromaDeleteFails
<1>4. CASE MarkCleaned
  BY <1>4 DEF MarkCleaned
<1> QED
  BY <1>1, <1>2, <1>3, <1>4

LEMMA IndexInv ==
  Inv /\ (\/ RecoverStaleIndexing \/ NothingToIndex \/ ChromaUpserts \/ IndexingFails
          \/ MarkReady \/ \E d \in Docs : GiveUp(d) \/ Claim(d)) => Inv'
<1> SUFFICES ASSUME Inv,
                    \/ RecoverStaleIndexing \/ NothingToIndex \/ ChromaUpserts \/ IndexingFails
                    \/ MarkReady \/ \E d \in Docs : GiveUp(d) \/ Claim(d)
             PROVE  Inv'
  OBVIOUS
<1> USE BoundsAreNat DEF Inv, WorkerInv, Workers, Pcs, AttemptsInv, RowsInv, BoundsInv, bounds, At
<1>1. CASE RecoverStaleIndexing
  BY <1>1 DEF RecoverStaleIndexing, StaleLeases, Recovered, Active
<1>2. CASE NothingToIndex
  BY <1>2 DEF NothingToIndex
<1>3. CASE ChromaUpserts
  BY <1>3 DEF ChromaUpserts
<1>4. CASE IndexingFails
  BY <1>4 DEF IndexingFails
<1>5. CASE MarkReady
  BY <1>5 DEF MarkReady, Finished, Active
<1>6. ASSUME NEW d \in Docs, GiveUp(d) PROVE Inv'
  BY <1>6 DEF GiveUp, Indexable, Active
<1>7. ASSUME NEW d \in Docs, Claim(d) PROVE Inv'
  BY <1>7 DEF Claim, Indexable, Exhausted, Active
<1> QED
  BY <1>1, <1>2, <1>3, <1>4, <1>5, <1>6, <1>7

-----------------------------------------------------------------------------
(* Rebuilds, the user, the operator and the environment.                   *)

LEMMA RebuildInv == Inv /\ (RebuildStep \/ StartRebuild) => Inv'
<1> SUFFICES ASSUME Inv, RebuildStep \/ StartRebuild PROVE Inv'
  OBVIOUS
<1> USE BoundsAreNat DEF Inv, WorkerInv, Workers, Pcs, AttemptsInv, RowsInv, BoundsInv, bounds, At
<1>1. CASE StartRebuild
  BY <1>1 DEF StartRebuild, MarkForRebuild, Active
<1>2. CASE ResetFails
  <2>1. vectors' \subseteq vectors
    BY <1>2 DEF ResetFails
  <2> QED
    BY <1>2, <2>1 DEF ResetFails
<1>3. CASE ResetChroma
  BY <1>3 DEF ResetChroma
<1>4. CASE RebuildEnds
  BY <1>4 DEF RebuildEnds
<1>5. ASSUME NEW d \in Docs, RebuildUpserts(d) PROVE Inv'
  BY <1>5 DEF RebuildUpserts
<1>6. ASSUME NEW d \in Docs, RebuildMarks(d) PROVE Inv'
  BY <1>6 DEF RebuildMarks
<1> QED
  BY <1>1, <1>2, <1>3, <1>4, <1>5, <1>6 DEF RebuildStep

\* Nothing is added or removed during a rebuild.
LEMMA UserInv == Inv /\ UserStep => Inv'
<1> SUFFICES ASSUME Inv, NEW d \in Docs, AddKnowledge(d) \/ RemoveKnowledge(d) PROVE Inv'
  BY DEF UserStep
<1> USE BoundsAreNat DEF Inv, WorkerInv, Workers, Pcs, AttemptsInv, RowsInv, BoundsInv, bounds
<1>1. CASE AddKnowledge(d)
  BY <1>1 DEF AddKnowledge, Rebuilding
<1>2. CASE RemoveKnowledge(d)
  BY <1>2 DEF RemoveKnowledge, Rebuilding, Active
<1> QED
  BY <1>1, <1>2

LEMMA OtherInv ==
  Inv /\ (\/ Crash
          \/ \E d \in Docs : RetryReads(d) \/ RetryWrites(d) \/ LeaseAges(d)) => Inv'
<1> SUFFICES ASSUME Inv,
                    Crash \/ \E d \in Docs : RetryReads(d) \/ RetryWrites(d) \/ LeaseAges(d)
             PROVE  Inv'
  OBVIOUS
<1> USE BoundsAreNat DEF Inv, WorkerInv, Workers, Pcs, AttemptsInv, RowsInv, BoundsInv, bounds
<1>1. CASE Crash
  BY <1>1 DEF Crash, At
<1>2. ASSUME NEW d \in Docs, RetryReads(d) PROVE Inv'
  BY <1>2 DEF RetryReads
<1>3. ASSUME NEW d \in Docs, RetryWrites(d) PROVE Inv'
  BY <1>3 DEF RetryWrites
<1>4. ASSUME NEW d \in Docs, LeaseAges(d) PROVE Inv'
  BY <1>4 DEF LeaseAges
<1> QED
  BY <1>1, <1>2, <1>3, <1>4

LEMMA NextInv == Inv /\ [Next]_vars => Inv'
<1>1. Inv /\ UNCHANGED vars => Inv'
  BY DEF Inv, WorkerInv, AttemptsInv, RowsInv, BoundsInv, vars, bounds
<1> QED
  BY <1>1, CleanupInv, IndexInv, RebuildInv, UserInv, OtherInv
  DEF Next, WorkerStep, OperatorStep, TimePasses, RetryEnds

\* The inductive invariant holds in every reachable state.
THEOREM InvAlways == Spec => []Inv
  BY InitInv, NextInv, PTL DEF Spec

\* The worker only works on documents its step may work on, and each rebuild
\* adds one attempt at most to the automatic ones.
THEOREM TypeCorrect == Spec => []TypeOK
<1>1. Inv => TypeOK
  BY BoundsAreNat
  DEF Inv, WorkerInv, Workers, Pcs, AttemptsInv, RowsInv, BoundsInv, TypeOK, Active, Removed
<1> QED
  BY <1>1, InvAlways, PTL

\* A document retrieval finds READY has its vectors, whatever step of an
\* indexing, a cleanup, a rebuild or an operator's retry the process died at.
THEOREM ReadyIsIndexedAlways == Spec => []ReadyIsIndexed
<1>1. Inv => ReadyIsIndexed
  BY DEF Inv, RowsInv, ReadyIsIndexed, Active
<1> QED
  BY <1>1, InvAlways, PTL
=============================================================================
