----------------------------- MODULE QQIngress -----------------------------
(***************************************************************************)
(* The way of a QQ event into the database: StarletteEventTransport and    *)
(* its durable acknowledgement (infrastructure/qq_botpy.py), the callback  *)
(* that normalizes and stores the event (agent/botpy_ingestion.py,         *)
(* qq_botpy_events.py, _persist_event of agent/webhook.py), and the file   *)
(* an attachment leaves on the disk (agent/uploads.py).                    *)
(*                                                                         *)
(* Every delivery of an event is handled in a thread of its own, and the   *)
(* provider delivers an event again, even while an earlier delivery is     *)
(* still at work.  A transaction reads before SQLite begins it at its      *)
(* first write, so that reading and writing are two steps.                 *)
(*                                                                         *)
(* A delivery stands for a request with a valid signature.  The URL        *)
(* challenge, and an event of no interest, are answered without state; the *)
(* run that is stored with a message is the subject of AgentSession.       *)
(***************************************************************************)
EXTENDS Integers, FiniteSets

CONSTANTS
    Events,         \* bound: the messages users send
    Kind,           \* Kind[e]: what normalize_sdk_event makes of it
    FileId,         \* FileId[e]: the provider's id of the file of e
    MaxDeliveries,  \* bound: concurrent deliveries
    MaxFaults       \* bound: failed downloads and commits, deaths

\* BADFILE: a file that is refused whenever it is delivered, for its metadata,
\* its URL, its type, its size or its content.
Kinds == {"TEXT", "FILE", "BADFILE", "IGNORED", "REJECTED"}

ASSUME IngressAssumption ==
    /\ DOMAIN Kind = Events /\ \A e \in Events : Kind[e] \in Kinds
    /\ DOMAIN FileId = Events
    /\ MaxDeliveries \in Nat \ {0} /\ MaxFaults \in Nat

Deliveries == 1 .. MaxDeliveries

VARIABLES
    delivery,   \* the deliveries in progress
    stored,     \* events with a message, its identities and its run
    user,       \* the row of the configured user exists
    session,    \* the row of the MAIN session exists
    kept,       \* events whose file a user_files row names
    disk,       \* how many files are in the upload directory
    faults

ingressVars == <<delivery, stored, user, session, kept, disk, faults>>

\* file: what the delivery has put on the disk; seen: it found the session.
Idle == [pc |-> "IDLE", event |-> "none", file |-> "NONE", seen |-> FALSE]
At(d, pc) == delivery[d].pc = pc
EventOf(d) == delivery[d].event
HasFile(e) == Kind[e] \in {"FILE", "BADFILE"}
Storable == {e \in Events : Kind[e] \in {"TEXT", "FILE"}}

IngressInit ==
    /\ delivery = [d \in Deliveries |-> Idle]
    /\ stored = {} /\ user = FALSE /\ session = FALSE
    /\ kept = {} /\ disk = 0
    /\ faults = 0

Goto(d, pc) == delivery' = [delivery EXCEPT ![d].pc = pc]
Rest(d) == delivery' = [delivery EXCEPT ![d] = Idle]
Fault == faults < MaxFaults /\ faults' = faults + 1

Holding == {d \in Deliveries : delivery[d].file # "NONE"}
Held(d) == IF d \in Holding THEN 1 ELSE 0

\* The finally clauses of _persist_event and download_attachment: what the
\* delivery has put on the disk is removed.
RemoveFile(d) == disk' = disk - Held(d)

\* A duplicate is acknowledged, after its file is discarded.
AnswerDuplicate(d) ==
    /\ delivery' = [delivery EXCEPT ![d].pc = "ACK", ![d].file = "NONE"]
    /\ RemoveFile(d)

\* An answer that is not an acknowledgement: 400, 403 or 503.
Refuse(d) == Rest(d) /\ RemoveFile(d)

\* _has_identity, and the same question inside the transaction: the event id,
\* or the message id that stands or falls with it, was stored before.
HasIdentity(e) == e \in stored

\* Another message has brought the same file of the provider.
FileTaken(e) ==
    HasFile(e) /\ \E s \in stored \ {e} : HasFile(s) /\ FileId[s] = FileId[e]

-----------------------------------------------------------------------------
\* handle_request and receive_botpy_event: an event the application ignores is
\* acknowledged, one it rejects is not.
Deliver(d, e) ==
    /\ At(d, "IDLE")
    /\ Kind[e] # "REJECTED"
    /\ delivery' = [delivery EXCEPT ![d] =
                      [Idle EXCEPT !.pc = IF Kind[e] = "IGNORED" THEN "ACK" ELSE "CHECK",
                                   !.event = e]]
    /\ UNCHANGED <<stored, user, session, kept, disk, faults>>

\* _has_identity, in a transaction of its own.
CheckIdentity(d) ==
    /\ At(d, "CHECK")
    /\ Goto(d, IF HasIdentity(EventOf(d)) THEN "ACK"
               ELSE IF HasFile(EventOf(d)) THEN "DOWNLOAD" ELSE "READ")
    /\ UNCHANGED <<stored, user, session, kept, disk, faults>>

\* _fetch_attachment streams into a .part file, under a deadline and a limit of
\* bytes and redirects.
Download(d) ==
    /\ At(d, "DOWNLOAD")
    /\ delivery' = [delivery EXCEPT ![d].pc = "RENAME", ![d].file = "PART"]
    /\ disk' = disk + 1
    /\ UNCHANGED <<stored, user, session, kept, faults>>

\* The finally clause forgets the .part file.
RefuseKeepingPart(d) ==
    /\ At(d, "DOWNLOAD") \/ At(d, "RENAME")
    /\ Kind[EventOf(d)] = "BADFILE"
    /\ Goto(d, "IDLE")
    /\ UNCHANGED <<stored, user, session, kept, disk, faults>>

\* prepare_upload refuses a bad file, before the download (metadata, URL) or
\* after it (size, validate_upload_content): 400, on every delivery.
RefuseUpload(d) ==
    /\ At(d, "DOWNLOAD") \/ At(d, "RENAME")
    /\ Kind[EventOf(d)] = "BADFILE"
    /\ Refuse(d)
    /\ UNCHANGED <<stored, user, session, kept, faults>>

\* The network, the provider, the deadline or the disk: 400 as well, but the
\* next delivery may fare better.
UploadFails(d) ==
    /\ At(d, "DOWNLOAD") \/ At(d, "RENAME")
    /\ Fault
    /\ Refuse(d)
    /\ UNCHANGED <<stored, user, session, kept>>

Rename(d) ==
    /\ At(d, "RENAME")
    /\ Kind[EventOf(d)] = "FILE"
    /\ delivery' = [delivery EXCEPT ![d].pc = "READ", ![d].file = "FINAL"]
    /\ UNCHANGED <<stored, user, session, kept, disk, faults>>

\* The reads of the transaction: a duplicate leaves it, and so does an event
\* that comes before the user was set up (403).
ReadRows(d) ==
    /\ At(d, "READ")
    /\ \/ HasIdentity(EventOf(d)) /\ AnswerDuplicate(d)
       \/ ~HasIdentity(EventOf(d)) /\ ~user /\ Refuse(d)
       \/ /\ ~HasIdentity(EventOf(d)) /\ user
          /\ delivery' = [delivery EXCEPT ![d].pc = "COMMIT", ![d].seen = session]
          /\ UNCHANGED disk
    /\ UNCHANGED <<stored, user, session, kept, faults>>

\* Each message brings a session of its own.
ConflictOfSessions(d) == HasIdentity(EventOf(d)) \/ session \/ FileTaken(EventOf(d))

\* The unique identities, the one MAIN session of the user, and the one file of
\* a provider's id.
Conflict(d) ==
    \/ HasIdentity(EventOf(d))
    \/ session /\ ~delivery[d].seen
    \/ FileTaken(EventOf(d))

\* Session, message, identities, file row and run in one transaction; from now
\* on the row has the file.
Commit(d) ==
    /\ At(d, "COMMIT")
    /\ ~Conflict(d)
    /\ stored' = stored \cup {EventOf(d)}
    /\ session' = TRUE
    /\ kept' = IF HasFile(EventOf(d)) THEN kept \cup {EventOf(d)} ELSE kept
    /\ delivery' = [delivery EXCEPT ![d].pc = "ACK", ![d].file = "NONE"]
    /\ UNCHANGED <<user, disk, faults>>

\* IntegrityError: the transaction is rolled back.
CommitConflicts(d) ==
    /\ At(d, "COMMIT")
    /\ Conflict(d)
    /\ Goto(d, "RECHECK")
    /\ UNCHANGED <<stored, user, session, kept, disk, faults>>

\* A duplicate that is found late returns before its file is discarded.
RecheckKeepingFile(d) ==
    /\ At(d, "RECHECK")
    /\ IF HasIdentity(EventOf(d)) THEN Goto(d, "ACK") /\ UNCHANGED disk ELSE Refuse(d)
    /\ UNCHANGED <<stored, user, session, kept, faults>>

\* Every IntegrityError is taken for a duplicate.
RecheckAssumingDuplicate(d) ==
    /\ At(d, "RECHECK")
    /\ AnswerDuplicate(d)
    /\ UNCHANGED <<stored, user, session, kept, faults>>

\* After an IntegrityError the event is a duplicate if its identity is there
\* now; otherwise the error is raised and answered 503.
Recheck(d) ==
    /\ At(d, "RECHECK")
    /\ IF HasIdentity(EventOf(d)) THEN AnswerDuplicate(d) ELSE Refuse(d)
    /\ UNCHANGED <<stored, user, session, kept, faults>>

\* The lock is not had within the busy timeout, or the disk is full: any other
\* exception is answered 503.
CommitFails(d) ==
    /\ At(d, "COMMIT")
    /\ Fault
    /\ Refuse(d)
    /\ UNCHANGED <<stored, user, session, kept>>

\* The receipt was accepted: 200 with op 12.  Nothing looks at the disk any more.
Acknowledge(d) ==
    /\ At(d, "ACK")
    /\ Rest(d)
    /\ UNCHANGED <<stored, user, session, kept, disk, faults>>

DeliveryStep(d) ==
    \/ CheckIdentity(d)
    \/ Download(d) \/ UploadFails(d) \/ RefuseUpload(d) \/ Rename(d)
    \/ ReadRows(d) \/ Commit(d) \/ CommitConflicts(d) \/ CommitFails(d) \/ Recheck(d)
    \/ Acknowledge(d)

\* The operator sets up the configured user, at any time.
BootstrapIdentity ==
    /\ ~user
    /\ user' = TRUE
    /\ UNCHANGED <<delivery, stored, session, kept, disk, faults>>

NoDelivery == \A d \in Deliveries : At(d, "IDLE")

\* The step d takes next is a transaction.
InTransaction(d) == delivery[d].pc \in {"CHECK", "READ", "COMMIT", "RECHECK"}

\* The process dies with its threads; what they put on the disk stays.
DeliveriesDie ==
    /\ delivery' = [d \in Deliveries |-> Idle]
    /\ Fault
    /\ UNCHANGED <<stored, user, session, kept, disk>>

IngressTypeOK ==
    /\ \A d \in Deliveries :
         /\ delivery[d].pc \in {"IDLE", "CHECK", "DOWNLOAD", "RENAME", "READ", "COMMIT",
                                "RECHECK", "ACK"}
         /\ At(d, "IDLE") <=> delivery[d] = Idle
         /\ delivery[d].file # "NONE" => HasFile(EventOf(d)) /\ ~At(d, "IDLE")
    /\ stored \subseteq Storable /\ kept \subseteq stored
    /\ user \in BOOLEAN /\ session \in BOOLEAN
    /\ disk \in Nat /\ faults \in 0 .. MaxFaults

-----------------------------------------------------------------------------
(* Properties.                                                             *)

\* An event the application is to store is acknowledged only when it is stored,
\* with its file: the provider may then forget it
\* (qq-botpy-adapter-design.md:171-178).
AckedIsStored ==
    \A d \in Deliveries :
        At(d, "ACK") /\ EventOf(d) \in Storable =>
            EventOf(d) \in (IF HasFile(EventOf(d)) THEN stored \cap kept ELSE stored)
=============================================================================
