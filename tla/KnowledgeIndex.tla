---------------------------- MODULE KnowledgeIndex ----------------------------
(***************************************************************************)
(* The vector index of the knowledge base: SQLite holds the documents and  *)
(* the state of their indexing, Chroma the vectors, and no transaction     *)
(* spans both (knowledge/index.py, rebuild.py, execution.py).              *)
(*                                                                         *)
(* One thread, knowledge-index, repeats "clean up one removed document,    *)
(* index one active document"; the conversation-agent thread adds and      *)
(* removes documents meanwhile, and the operator's CLI requeues failures.  *)
(* The operator rebuilds the index with the service stopped                *)
(* (operations.md:97), so a rebuild uses the control state of the worker.  *)
(*                                                                         *)
(* A document is chosen from all that are eligible: the code takes the     *)
(* oldest.  Every access to Chroma is a step that may fail half way.       *)
(***************************************************************************)
EXTENDS Integers, FiniteSets

CONSTANTS
    Docs,           \* documents
    MaxAttempts,    \* MAX_AUTOMATIC_ATTEMPTS
    MaxCrashes,     \* bound: process deaths and exceptions that end a cycle
    MaxRequeues,    \* bound: operator retries
    MaxRebuilds     \* bound: rebuilds

ASSUME KnowledgeAssumption ==
    /\ MaxAttempts \in Nat \ {0}
    /\ {MaxCrashes, MaxRequeues, MaxRebuilds} \subseteq Nat

VARIABLES
    lifecycle,   \* knowledge_documents.lifecycle_status ("NONE": no row)
    index,       \* index_status
    attempts,    \* index_attempt_count
    stale,       \* index_started_at is more than five minutes ago
    vectors,     \* documents with vectors in Chroma
    worker,      \* control state of the knowledge-index thread, or of a rebuild
    retrying,    \* documents an operator's retry has read and not written
    crashes, requeues, rebuilds

bounds == <<crashes, requeues, rebuilds>>
vars == <<lifecycle, index, attempts, stale, vectors, worker, retrying, bounds>>

NoDoc == "no document"
At(pc) == [pc |-> pc, doc |-> NoDoc, rest |-> {}]

Active == {d \in Docs : lifecycle[d] = "ACTIVE"}
Removed == {d \in Docs : lifecycle[d] = "REMOVED"}

Init ==
    /\ lifecycle = [d \in Docs |-> "NONE"]
    /\ index = [d \in Docs |-> "PENDING"]
    /\ attempts = [d \in Docs |-> 0]
    /\ stale = [d \in Docs |-> FALSE]
    /\ vectors = {}
    /\ worker = At("startup")
    /\ retrying = {}
    /\ crashes = 0 /\ requeues = 0 /\ rebuilds = 0

-----------------------------------------------------------------------------
(* Confirmed writes, by the conversation-agent thread.                     *)

Rebuilding == worker.pc \in {"reset", "rebuild"}

AddKnowledge(d) ==
    /\ ~Rebuilding
    /\ lifecycle[d] = "NONE"
    /\ lifecycle' = [lifecycle EXCEPT ![d] = "ACTIVE"]
    /\ UNCHANGED <<index, attempts, stale, vectors, worker, retrying, bounds>>

RemoveKnowledge(d) ==
    /\ ~Rebuilding
    /\ d \in Active
    /\ lifecycle' = [lifecycle EXCEPT ![d] = "REMOVED"]
    /\ UNCHANGED <<index, attempts, stale, vectors, worker, retrying, bounds>>

-----------------------------------------------------------------------------
(* recover_stale_indexing, once at startup.                                *)

StaleLeases == {d \in Active : index[d] = "INDEXING" /\ stale[d]}

Recovered(d) == IF attempts[d] >= MaxAttempts THEN "FAILED" ELSE "PENDING"

RecoverStaleIndexing ==
    /\ worker.pc = "startup"
    /\ worker' = At("cleanup")
    /\ index' = [d \in Docs |-> IF d \in StaleLeases THEN Recovered(d) ELSE index[d]]
    /\ UNCHANGED <<lifecycle, attempts, stale, vectors, retrying, bounds>>

-----------------------------------------------------------------------------
(* cleanup_removed_once.  Once cleaned a document is PENDING, as one that  *)
(* was never indexed is.                                                   *)

Cleanable(d) == d \in Removed /\ index[d] # "PENDING" /\ attempts[d] < MaxAttempts
IndexedDocs == {d \in Active \cup Removed : index[d] # "PENDING" /\ attempts[d] < MaxAttempts}
ToClean == {d \in Docs : Cleanable(d)}

SelectRemoved ==
    /\ worker.pc = "cleanup"
    /\ IF ToClean = {}
         THEN worker' = At("index")
         ELSE \E d \in ToClean : worker' = [At("delete") EXCEPT !.doc = d]
    /\ UNCHANGED <<lifecycle, index, attempts, stale, vectors, retrying, bounds>>

\* Chroma deletes the records; the status is another transaction.
ChromaDeletes ==
    /\ worker.pc = "delete"
    /\ vectors' = vectors \ {worker.doc}
    /\ worker' = [worker EXCEPT !.pc = "deleted"]
    /\ UNCHANGED <<lifecycle, index, attempts, stale, retrying, bounds>>

ChromaDeleteFails ==
    /\ worker.pc = "delete"
    /\ vectors' \in {vectors, vectors \ {worker.doc}}
    /\ index' = [index EXCEPT ![worker.doc] = "FAILED"]
    /\ attempts' = [attempts EXCEPT ![worker.doc] = @ + 1]
    /\ worker' = At("index")
    /\ UNCHANGED <<lifecycle, stale, retrying, bounds>>

MarkCleaned ==
    /\ worker.pc = "deleted"
    /\ index' = [index EXCEPT ![worker.doc] = "PENDING"]
    /\ worker' = At("index")
    /\ UNCHANGED <<lifecycle, attempts, stale, vectors, retrying, bounds>>

-----------------------------------------------------------------------------
(* index_once.                                                             *)

NewOrFailed(d) ==
    /\ d \in Active
    /\ index[d] = "PENDING" \/ (index[d] = "FAILED" /\ attempts[d] < MaxAttempts)
Indexable(d) ==
    /\ d \in Active
    /\ \/ index[d] = "PENDING"
       \/ index[d] = "FAILED" /\ attempts[d] < MaxAttempts
       \/ index[d] = "INDEXING" /\ stale[d]
ToIndex == {d \in Docs : Indexable(d)}

NothingToIndex ==
    /\ worker.pc = "index"
    /\ ToIndex = {}
    /\ worker' = At("cleanup")
    /\ UNCHANGED <<lifecycle, index, attempts, stale, vectors, retrying, bounds>>

Exhausted(d) == index[d] = "INDEXING" /\ attempts[d] >= MaxAttempts

GiveUp(d) ==
    /\ worker.pc = "index"
    /\ Indexable(d) /\ Exhausted(d)
    /\ index' = [index EXCEPT ![d] = "FAILED"]
    /\ worker' = At("cleanup")
    /\ UNCHANGED <<lifecycle, attempts, stale, vectors, retrying, bounds>>

Claim(d) ==
    /\ worker.pc = "index"
    /\ Indexable(d) /\ ~Exhausted(d)
    /\ index' = [index EXCEPT ![d] = "INDEXING"]
    /\ attempts' = [attempts EXCEPT ![d] = @ + 1]
    /\ stale' = [stale EXCEPT ![d] = FALSE]
    /\ worker' = [At("upsert") EXCEPT !.doc = d]
    /\ UNCHANGED <<lifecycle, vectors, retrying, bounds>>

ChromaUpserts ==
    /\ worker.pc = "upsert"
    /\ vectors' = vectors \cup {worker.doc}
    /\ worker' = [worker EXCEPT !.pc = "upserted"]
    /\ UNCHANGED <<lifecycle, index, attempts, stale, retrying, bounds>>

IndexingFails ==
    /\ worker.pc = "upsert"
    /\ vectors' \in {vectors, vectors \cup {worker.doc}}
    /\ index' = [index EXCEPT ![worker.doc] = "FAILED"]
    /\ worker' = At("cleanup")
    /\ UNCHANGED <<lifecycle, attempts, stale, retrying, bounds>>

\* A document removed meanwhile stays INDEXING for the cleanup to find.
Requeued(d) == [index EXCEPT ![d] = IF d \in Active THEN "READY" ELSE "PENDING"]
Finished(d) == [index EXCEPT ![d] = IF d \in Active THEN "READY" ELSE @]

MarkReady ==
    /\ worker.pc = "upserted"
    /\ index' = Finished(worker.doc)
    /\ worker' = At("cleanup")
    /\ UNCHANGED <<lifecycle, attempts, stale, vectors, retrying, bounds>>

WorkerStep ==
    \/ RecoverStaleIndexing
    \/ SelectRemoved \/ ChromaDeletes \/ ChromaDeleteFails \/ MarkCleaned
    \/ NothingToIndex \/ ChromaUpserts \/ IndexingFails \/ MarkReady
    \/ \E d \in Docs : GiveUp(d) \/ Claim(d)

-----------------------------------------------------------------------------
(* rebuild_index, with the service stopped; afterwards it starts again.    *)

RebuildKeepsStatus == UNCHANGED index
MarkForRebuild ==
    index' = [d \in Docs |-> IF d \in Active THEN "PENDING" ELSE index[d]]

StartRebuild ==
    /\ ~Rebuilding
    /\ rebuilds < MaxRebuilds
    /\ rebuilds' = rebuilds + 1
    /\ MarkForRebuild
    /\ worker' = [At("reset") EXCEPT !.rest = Active]
    /\ UNCHANGED <<lifecycle, attempts, stale, vectors, retrying, crashes, requeues>>

\* A reset that fails may have dropped the collection; the command ends.
ResetFails ==
    /\ worker.pc = "reset"
    /\ vectors' \in {vectors, {}}
    /\ worker' = At("startup")
    /\ UNCHANGED <<lifecycle, index, attempts, stale, retrying, bounds>>

ResetChroma ==
    /\ worker.pc = "reset"
    /\ vectors' = {}
    /\ worker' = [worker EXCEPT !.pc = "rebuild"]
    /\ UNCHANGED <<lifecycle, index, attempts, stale, retrying, bounds>>

\* The vectors are written before the status; a crash falls between.
RebuildUpserts(d) ==
    /\ worker.pc = "rebuild"
    /\ d \in worker.rest \ vectors
    /\ vectors' = vectors \cup {d}
    /\ UNCHANGED <<lifecycle, index, attempts, stale, worker, retrying, bounds>>

RebuildMarks(d) ==
    /\ worker.pc = "rebuild"
    /\ d \in worker.rest
    /\ \/ d \in vectors /\ index' = [index EXCEPT ![d] = "READY"]
       \/ index' = [index EXCEPT ![d] = "FAILED"]
    /\ worker' = [worker EXCEPT !.rest = @ \ {d}]
    /\ UNCHANGED <<lifecycle, attempts, stale, vectors, retrying, bounds>>

RebuildEnds ==
    /\ worker.pc = "rebuild"
    /\ worker.rest = {}
    /\ worker' = At("startup")
    /\ UNCHANGED <<lifecycle, index, attempts, stale, vectors, retrying, bounds>>

RebuildStep ==
    \/ ResetFails \/ ResetChroma \/ RebuildEnds
    \/ \E d \in Docs : RebuildUpserts(d) \/ RebuildMarks(d)

-----------------------------------------------------------------------------
(* retry_index and retry_cleanup: the read and the write of the operator's *)
(* transaction, between which the worker may claim the document.           *)

RetryReads(d) ==
    /\ requeues < MaxRequeues
    /\ lifecycle[d] # "NONE" /\ index[d] = "FAILED"
    /\ retrying' = retrying \cup {d}
    /\ requeues' = requeues + 1
    /\ UNCHANGED <<lifecycle, index, attempts, stale, vectors, worker, crashes, rebuilds>>

RetryWrites(d) ==
    /\ d \in retrying
    /\ attempts' = [attempts EXCEPT ![d] = 0]
    /\ retrying' = retrying \ {d}
    /\ UNCHANGED <<lifecycle, index, stale, vectors, worker, bounds>>

LeaseAges(d) ==
    /\ index[d] = "INDEXING" /\ ~stale[d]
    /\ stale' = [stale EXCEPT ![d] = TRUE]
    /\ UNCHANGED <<lifecycle, index, attempts, vectors, worker, retrying, bounds>>

\* The process dies and starts again, or an exception ends the cycle.
Crash ==
    /\ crashes < MaxCrashes
    /\ crashes' = crashes + 1
    /\ \/ worker' = At("startup")
       \/ ~Rebuilding /\ worker.pc # "startup" /\ worker' = At("cleanup")
    /\ UNCHANGED <<lifecycle, index, attempts, stale, vectors, retrying, requeues, rebuilds>>

UserStep == \E d \in Docs : AddKnowledge(d) \/ RemoveKnowledge(d)
OperatorStep == StartRebuild \/ \E d \in Docs : RetryReads(d)
TimePasses == \E d \in Docs : LeaseAges(d)
RetryEnds == \E d \in Docs : RetryWrites(d)

Next ==
    \/ WorkerStep \/ RebuildStep \/ UserStep \/ OperatorStep
    \/ TimePasses \/ RetryEnds \/ Crash

Spec == Init /\ [][Next]_vars

\* The loop runs for ever, a rebuild and a retry end, and leases age.
FairSpec ==
    /\ Spec
    /\ WF_vars(WorkerStep) /\ WF_vars(RebuildStep) /\ WF_vars(RetryEnds)
    /\ \A d \in Docs : WF_vars(LeaseAges(d))

-----------------------------------------------------------------------------
\* Types; the worker's document is one it may work on, and an unknown
\* document has no trace in the index.
TypeOK ==
    /\ lifecycle \in [Docs -> {"NONE", "ACTIVE", "REMOVED"}]
    /\ index \in [Docs -> {"PENDING", "INDEXING", "READY", "FAILED"}]
    /\ attempts \in [Docs -> 0 .. MaxAttempts + MaxRebuilds]
    /\ stale \in [Docs -> BOOLEAN]
    /\ vectors \subseteq Active \cup Removed
    /\ worker.pc \in {"startup", "cleanup", "delete", "deleted", "index", "upsert",
                      "upserted", "reset", "rebuild"}
    /\ worker.pc \in {"delete", "deleted"} => worker.doc \in Removed
    /\ worker.pc \in {"upsert", "upserted"} => worker.doc \in Active \cup Removed
    /\ worker.rest \subseteq Active
    /\ retrying \subseteq Active \cup Removed
    /\ crashes \in 0 .. MaxCrashes
    /\ requeues \in 0 .. MaxRequeues
    /\ rebuilds \in 0 .. MaxRebuilds

-----------------------------------------------------------------------------
(* Properties.                                                             *)

\* A document that retrieval treats as searchable has its vectors, at every
\* moment of an indexing, a cleanup or a rebuild and after any crash
\* (retrieval.py:38-43, phase-5-verification.md:33).
ReadyIsIndexed == \A d \in Active : index[d] = "READY" => d \in vectors

\* An added document is in the end searchable or visibly failed, whatever
\* step of Chroma or of the process fails (phase-5-verification.md:29-32).
ActiveIsSettled ==
    \A d \in Docs :
        d \in Active ~> d \notin Active \/ index[d] \in {"READY", "FAILED"}

\* Once the cleanup may take a removed document, its vectors are deleted or
\* it is FAILED for the operator to retry (phase-5-verification.md:81).
RemovedIsCleaned ==
    \A d \in Docs : Cleanable(d) ~> d \notin vectors \/ index[d] = "FAILED"
=============================================================================
