------------------------------ MODULE MailPoll ------------------------------
(***************************************************************************)
(* Polling the IMAP folder: the cursor, its classification and resets, the *)
(* batch, and its ingestion (qq_imap_cursor.py, _qq_imap_gateway.py,       *)
(* mail_poller.py, ingest_mail of mail_service.py).                        *)
(*                                                                         *)
(* The folder is the server's: mails arrive, are deleted by other clients, *)
(* and may be renumbered under a new UIDVALIDITY.  A poll looks at it once *)
(* (a failure of the connection, or a deletion between its two searches,   *)
(* makes it a poll that changes nothing and is left out); every envelope   *)
(* of the batch is a transaction, and so is saving the cursor.             *)
(*                                                                         *)
(* A mail may be damaged: UNPARSABLE, no envelope can be made of it        *)
(* (IMAPProtocolError, as for one without any date), or UNDECODABLE, its   *)
(* charset is unknown (LookupError).  A batch is fetched whole, so one     *)
(* damaged mail fails the poll, and the next one, for as long as it lies   *)
(* in the folder.                                                          *)
(*                                                                         *)
(* MailPipeline composes this module with Outbox.                          *)
(***************************************************************************)
EXTENDS Integers, FiniteSets

CONSTANTS
    MaxMails,      \* bound: mails that arrive
    MaxChanges,    \* bound: deletions in the folder and changes of UIDVALIDITY
    BatchSize,     \* APP_IMAP_BATCH_SIZE
    Damages        \* environment: what may be wrong with a mail

ASSUME MailPollAssumption ==
    /\ MaxMails \in Nat \ {0}
    /\ MaxChanges \in Nat
    /\ BatchSize \in Nat \ {0}
    /\ Damages \subseteq {"UNPARSABLE", "UNDECODABLE"}

Letters == 1 .. MaxMails
Validities == 1 .. MaxChanges + 1

\* provider_message_id: "qq-imap-v1:{uidvalidity}:{uid}"; a validity numbers
\* at most MaxMails mails.
Keys == Validities \X Letters

Forms == {"FINE", "UNPARSABLE", "UNDECODABLE"}

NoCursor == [validity |-> 0, uid |-> 0]

VARIABLES
    uidOf,      \* the folder: UID of each mail in it, 0 when it is not there
    form,       \* the form of each mail
    arrived,    \* mails that have arrived
    uidNext,    \* the next UID of the folder
    validity,   \* UIDVALIDITY of the folder
    changes,
    cursor,     \* mail_accounts.polling_cursor
    mails,      \* rows of the mails table: key and mail
    lastError,  \* mail_accounts.polling_last_error is set
    poller,     \* control state of the imap-poller thread
    history     \* mails that were in the folder when a poll set a baseline

folderVars == <<uidOf, form, arrived, uidNext, validity, changes>>
pollVars == <<folderVars, cursor, mails, lastError, poller, history>>

PollIdle == [pc |-> "idle", batch |-> {}, next |-> NoCursor]

PollInit ==
    /\ uidOf = [m \in Letters |-> 0]
    /\ form = [m \in Letters |-> "FINE"]
    /\ arrived = 0
    /\ uidNext = 1
    /\ validity = 1
    /\ changes = 0
    /\ cursor = NoCursor
    /\ mails = {}
    /\ lastError = FALSE
    /\ poller = PollIdle
    /\ history = {}

-----------------------------------------------------------------------------
(* The folder.                                                             *)

InFolder == {m \in Letters : uidOf[m] # 0}

MailArrives(f) ==
    /\ arrived < MaxMails
    /\ form' = [form EXCEPT ![arrived + 1] = f]
    /\ arrived' = arrived + 1
    /\ uidOf' = [uidOf EXCEPT ![arrived + 1] = uidNext]
    /\ uidNext' = uidNext + 1
    /\ UNCHANGED <<validity, changes, cursor, mails, lastError, poller, history>>

MailDeleted(m) ==
    /\ changes < MaxChanges
    /\ m \in InFolder
    /\ uidOf' = [uidOf EXCEPT ![m] = 0]
    /\ changes' = changes + 1
    /\ UNCHANGED <<form, arrived, uidNext, validity, cursor, mails, lastError, poller,
                   history>>

Renumber ==
    /\ changes < MaxChanges
    /\ validity' = validity + 1
    /\ uidOf' = [m \in Letters |->
                   IF m \in InFolder THEN Cardinality({l \in InFolder : l <= m}) ELSE 0]
    /\ uidNext' = Cardinality(InFolder) + 1
    /\ changes' = changes + 1
    /\ UNCHANGED <<form, arrived, cursor, mails, lastError, poller, history>>

-----------------------------------------------------------------------------
(* One poll.                                                               *)

MaxUid == IF InFolder = {} THEN 0
          ELSE CHOOSE u \in {uidOf[m] : m \in InFolder} : \A m \in InFolder : uidOf[m] <= u

\* classify_cursor: NULL, another UIDVALIDITY, or a UID beyond the folder's.
IgnoresValidity == cursor = NoCursor \/ cursor.uid > MaxUid
Resets == cursor = NoCursor \/ cursor.validity # validity \/ cursor.uid > MaxUid

\* SEARCH UID n:* names the last mail also when its UID is less than n.
Found(n) ==
    {m \in InFolder : uidOf[m] >= n \/ uidOf[m] = MaxUid}

NewestOfBatch(found) ==
    {m \in found : Cardinality({l \in found : uidOf[l] > uidOf[m]}) < BatchSize}
FirstOfBatch(found) ==
    {m \in found : Cardinality({l \in found : uidOf[l] < uidOf[m]}) < BatchSize}

LastUid(batch) ==
    CHOOSE u \in {uidOf[m] : m \in batch} : \A m \in batch : uidOf[m] <= u

Envelope(m) == [key |-> <<validity, uidOf[m]>>, mail |-> m]

PollResets ==
    /\ poller.pc = "idle"
    /\ Resets
    /\ poller' = [pc |-> "save", batch |-> {},
                  next |-> [validity |-> validity, uid |-> MaxUid]]
    /\ history' = history \cup InFolder
    /\ UNCHANGED <<folderVars, cursor, mails, lastError>>

\* The mails a poll asks for, and those of them that cannot be read.
Batch == FirstOfBatch(Found(cursor.uid + 1))
DamagedInBatch == {m \in Batch : form[m] # "FINE"}

PollFetches ==
    LET batch == Batch IN
    /\ poller.pc = "idle"
    /\ ~Resets
    /\ DamagedInBatch = {}
    /\ poller' = [pc |-> IF batch = {} THEN "save" ELSE "ingest",
                  batch |-> {Envelope(m) : m \in batch},
                  next |-> [validity |-> validity,
                            uid |-> IF batch = {} THEN cursor.uid ELSE LastUid(batch)]]
    /\ UNCHANGED <<folderVars, cursor, mails, lastError, history>>

\* The mails are fetched one by one; the first damaged one ends the poll.
FetchBreaks(f) ==
    /\ poller.pc = "idle"
    /\ ~Resets
    /\ \E m \in DamagedInBatch :
         /\ form[m] = f
         /\ \A l \in DamagedInBatch : uidOf[m] <= uidOf[l]

\* poll_once catches the error and records it; the cursor stays.
PollFails ==
    /\ FetchBreaks("UNPARSABLE")
    /\ lastError' = TRUE
    /\ UNCHANGED <<folderVars, cursor, mails, poller, history>>

\* Neither poll_once nor the worker loop catches the error: the service ends.
PollEscapes ==
    /\ FetchBreaks("UNDECODABLE")
    /\ poller' = [PollIdle EXCEPT !.pc = "stopped"]
    /\ UNCHANGED <<folderVars, cursor, mails, lastError, history>>

\* The envelope to ingest is the one with the least UID.
Current == CHOOSE e \in poller.batch : \A f \in poller.batch : e.key[2] <= f.key[2]

Stored(key) == \E row \in mails : row.key = key

\* ingest_mail, without the outbox: the row of a known key is left alone.
Ingested ==
    LET rest == poller.batch \ {Current} IN
    /\ poller.pc = "ingest"
    /\ mails' = IF Stored(Current.key) THEN mails ELSE mails \cup {Current}
    /\ poller' = [poller EXCEPT !.batch = rest, !.pc = IF rest = {} THEN "save" ELSE "ingest"]
    /\ UNCHANGED <<folderVars, cursor, lastError, history>>

SaveCursor ==
    /\ poller.pc = "save"
    /\ cursor' = poller.next
    /\ lastError' = FALSE
    /\ poller' = PollIdle
    /\ UNCHANGED <<folderVars, mails, history>>

FolderStep ==
    \/ \E f \in {"FINE"} \cup Damages : MailArrives(f)
    \/ \E m \in Letters : MailDeleted(m)
    \/ Renumber
PollStep == PollResets \/ PollFetches \/ PollFails \/ PollEscapes \/ SaveCursor

-----------------------------------------------------------------------------
PollTypeOK ==
    /\ uidOf \in [Letters -> 0 .. MaxMails]
    /\ form \in [Letters -> Forms]
    /\ arrived \in 0 .. MaxMails
    /\ uidNext \in 1 .. MaxMails + 1
    /\ validity \in Validities
    /\ changes \in 0 .. MaxChanges
    /\ {cursor, poller.next} \subseteq
         [validity : {0} \cup Validities, uid : 0 .. MaxMails]
    /\ mails \cup poller.batch \subseteq [key : Keys, mail : Letters]
    /\ lastError \in BOOLEAN
    /\ poller.pc \in {"idle", "ingest", "save", "stopped"}
    /\ history \subseteq Letters

-----------------------------------------------------------------------------
(* Properties.                                                             *)

RowsOf(m) == {row \in mails : row.mail = m}

\* The cursor passes a mail only when it is durable or older than a baseline,
\* whatever a crash, a deletion or a renumbering interrupts
\* (mail_poller.py:57, 81-91; imap-llm-adapter-implementation.md:308-337).
NoMailSkipped ==
    \A m \in InFolder :
        cursor.validity = validity /\ uidOf[m] <= cursor.uid =>
            RowsOf(m) # {} \/ m \in history

\* A mail is stored once, however often its batch is fetched again; only a
\* mail that a baseline has put into the past may get a second key.
StoredOnce == \A m \in Letters \ history : Cardinality(RowsOf(m)) <= 1

\* imap-llm-adapter-implementation.md:313: after a baseline only mail that
\* arrived after it is read.
HistoryIsNotIngested ==
    [][\A m \in history : RowsOf(m)' = RowsOf(m)]_pollVars
=============================================================================
