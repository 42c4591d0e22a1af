-------------------------- MODULE MailPipelineProofs --------------------------
(***************************************************************************)
(* The theorems about MailPipeline: type correctness, what the cursor may  *)
(* pass and the mails table may hold, and what the events of a mail lead   *)
(* to, for every number of mails, deletions, renumberings, requeues and    *)
(* deaths, every batch size and every vocabulary.                          *)
(***************************************************************************)
EXTENDS MailPipeline, FiniteSetTheorems, WellFoundedInduction, TLAPS

-----------------------------------------------------------------------------
(* The inductive invariant of the poller.                                  *)

\* UIDs follow the order of arrival, and the next one is beyond them.
FolderInv ==
    /\ uidOf \in [Letters -> 0 .. MaxMails]
    /\ arrived \in 0 .. MaxMails
    /\ uidNext \in 1 .. arrived + 1
    /\ changes \in 0 .. MaxChanges
    /\ validity \in 1 .. changes + 1
    /\ \A m \in InFolder : m <= arrived /\ uidOf[m] < uidNext
    /\ \A l, m \in InFolder : l < m => uidOf[l] < uidOf[m]

\* No cursor is ahead of the folder.
Cursors == [validity : {0} \cup Validities, uid : 0 .. MaxMails]
NotAhead(c) == c.validity <= validity /\ (c.validity = validity => c.uid < uidNext)

PollerInv ==
    /\ poller \in [pc : {"idle", "ingest", "save", "stopped"},
                   batch : SUBSET [key : Keys, mail : Letters], next : Cursors]
    /\ poller.pc = "ingest" <=> poller.batch # {}
    /\ cursor \in Cursors
    /\ NotAhead(cursor) /\ NotAhead(poller.next)
    /\ history \subseteq Letters

\* The mails with a key: those stored, and those of the batch.
Known == mails \cup poller.batch

\* A key says which mail it is of, and is the mail's present one while its
\* numbering lasts.
KeyInv ==
    /\ mails \subseteq [key : Keys, mail : Letters]
    /\ \A e \in Known :
         /\ e.mail <= arrived
         /\ e.key[1] <= validity
         /\ e.key[1] = validity => e.key[2] < uidNext
         /\ e.key[1] = validity /\ e.mail \in InFolder => e.key[2] = uidOf[e.mail]
         /\ \A m \in InFolder : e.key = <<validity, uidOf[m]>> => e.mail = m
    /\ \A e, f \in Known : e.key = f.key => e.mail = f.mail

\* A mail that keeps a key of an earlier numbering is history before the cursor
\* of the new one is there.
OnceInv ==
    /\ \A e \in Known :
         e.key[1] # validity /\ e.mail \in InFolder \ history =>
             cursor.validity # validity /\ poller.next.validity # validity
    /\ \A e, f \in Known : e.mail = f.mail /\ e.mail \notin history => e = f

\* What the cursor that is about to be saved passes is stored, history, or
\* still in the batch.
SkipInv ==
    /\ NoMailSkipped
    /\ \A m \in InFolder :
         poller.pc # "idle" /\ poller.next.validity = validity /\ uidOf[m] <= poller.next.uid =>
             RowsOf(m) # {} \/ m \in history \/ \E e \in poller.batch : e.mail = m

PollInv == FolderInv /\ PollerInv /\ KeyInv /\ OnceInv /\ SkipInv

-----------------------------------------------------------------------------
(* The inductive invariant of the publisher.                               *)

EventInv ==
    /\ status \in [Events -> {"NONE", "PENDING", "PUBLISHED", "FAILED"}]
    /\ attempt \in [Events -> Nat] /\ requeued \in [Events -> Nat]
    /\ wait \in [Events -> BOOLEAN]
    /\ processed \subseteq Events
    /\ \A e \in Events :
         /\ attempt[e] <= MaxEventAttempts + requeued[e]
         /\ status[e] \in {"NONE", "PENDING"} =>
              attempt[e] < MaxEventAttempts + requeued[e]
         /\ status[e] = "PUBLISHED" => e \in processed
         /\ e \in processed => status[e] # "NONE"

\* The events of the batch are pending, and the one being analyzed is a job
\* mail's that has no marker yet.
PublisherInv ==
    /\ publisher \in [pc : {"idle", "deliver", "publish", "fail", "persist", "analysisFails"},
                      batch : SUBSET Events, event : Events \cup {NoEvent},
                      answer : Answers \cup {"NONE"}]
    /\ \A e \in publisher.batch : status[e] = "PENDING"
    /\ publisher.pc \notin {"idle", "deliver"} => publisher.event \in publisher.batch
    /\ publisher.pc = "publish" => publisher.event \in processed
    /\ publisher.pc \in {"persist", "analysisFails"} =>
         \E m \in JobMails : publisher.event = Received(m) /\ Received(m) \notin processed
    /\ publisher.pc = "persist" => publisher.answer \in Suggestions

\* Each event has the effect of the one before it: the chain of a mail.
ChainInv ==
    /\ mailState \in [MailIds -> {"NONE", "PENDING", "NON_JOB", "SUCCEEDED", "RETRY_WAIT",
                                  "FAILED"}]
    /\ suggestion \in [MailIds -> Suggestions \cup {"NONE"}]
    /\ notices \in [Events -> Nat]
    /\ \A m \in MailIds :
         /\ m \notin JobMails /\ Received(m) \in processed => mailState[m] = "NON_JOB"
         /\ m \in JobMails /\ Received(m) \in processed => status[Analyzed(m)] # "NONE"
         /\ status[Analyzed(m)] # "NONE" <=> suggestion[m] # "NONE"
         /\ status[Analyzed(m)] # "NONE" => Received(m) \in processed
         /\ status[Created(m)] # "NONE" <=> Analyzed(m) \in processed /\ suggestion[m] = "UPDATE"
         /\ notices[Analyzed(m)] =
              IF Analyzed(m) \in processed /\ suggestion[m] = "INFORM" THEN 1 ELSE 0
         /\ notices[Created(m)] = IF Created(m) \in processed THEN 1 ELSE 0

OutboxInv == EventInv /\ PublisherInv /\ ChainInv

Inv ==
    /\ PollInv
    /\ form \in [Letters -> Forms] /\ lastError \in BOOLEAN
    /\ OutboxInv
    /\ crashes \in 0 .. MaxCrashes
    /\ \A key \in Keys : Stored(key) <=> status[Received(key)] # "NONE"


-----------------------------------------------------------------------------
(* Extrema of sets of numbers, and the operators of the folder.            *)

LEMMA LeastNat ==
  ASSUME NEW T \in SUBSET Nat, T # {}
  PROVE  \E x \in T : \A y \in T : x <= y
<1> DEFINE R == {ss \in Nat \X Nat : ss[1] < ss[2]}
<1>1. IsWellFoundedOn(R, Nat)
  BY NatLessThanWellFounded DEF OpToRel
<1>2. PICK x \in T : \A y \in T : ~(<<y, x>> \in R)
  <2> HIDE DEF R
  <2> QED
    BY <1>1, WFMin
<1>3. ASSUME NEW y \in T PROVE x <= y
  <2>1. x \in Nat /\ y \in Nat /\ ~(<<y, x>> \in R)
    BY <1>2
  <2> QED
    BY <2>1
<1> QED
  BY <1>3

LEMMA GreatestNat ==
  ASSUME NEW n \in Nat, NEW T \in SUBSET (0 .. n), T # {}
  PROVE  \E x \in T : \A y \in T : y <= x
<1> DEFINE D == {n - t : t \in T}
<1>1. PICK d \in D : \A e \in D : d <= e
  <2>1. ASSUME NEW t \in T PROVE n - t \in Nat
    <3>1. t \in 0 .. n
      OBVIOUS
    <3> QED
      BY <3>1
  <2>2. D \in SUBSET Nat
    BY <2>1
  <2>3. D # {}
    <3>1. PICK t \in T : TRUE
      OBVIOUS
    <3>2. n - t \in D
      OBVIOUS
    <3> QED
      BY <3>2
  <2> HIDE DEF D
  <2> QED
    BY <2>2, <2>3, LeastNat
<1>2. PICK x \in T : d = n - x
  OBVIOUS
<1>3. ASSUME NEW y \in T PROVE y <= x
  <2>1. d <= n - y
    BY <1>1
  <2> QED
    BY <1>2, <2>1
<1> QED
  BY <1>3

LEMMA ConstantFacts ==
  /\ MaxMails \in Nat \ {0} /\ MaxChanges \in Nat /\ BatchSize \in Nat \ {0}
  /\ JobMails \subseteq MailIds /\ MailIds = Keys /\ {"FINE"} \cup Damages \subseteq Forms
  /\ MaxEventAttempts \in Nat \ {0} /\ MaxRequeues \in Nat /\ MaxCrashes \in Nat
BY MailPollAssumption, OutboxAssumption, PipelineAssumption DEF Forms

\* The greatest UID of a set of mails that are in the folder.
LEMMA GreatestUid ==
  ASSUME FolderInv, NEW batch \in SUBSET InFolder, batch # {}
  PROVE  \E l \in batch : LastUid(batch) = uidOf[l] /\ \A m \in batch : uidOf[m] <= uidOf[l]
<1> DEFINE U == {uidOf[m] : m \in batch}
<1>1. U \in SUBSET (0 .. MaxMails) /\ U # {}
  BY DEF FolderInv, InFolder
<1>2. PICK u \in U : \A v \in U : v <= u
  <2> HIDE DEF U
  <2> QED
    BY <1>1, GreatestNat, ConstantFacts
<1>3. LastUid(batch) \in U /\ \A m \in batch : uidOf[m] <= LastUid(batch)
  BY <1>2 DEF LastUid
<1> QED
  BY <1>3

LEMMA MaxUidFacts ==
  ASSUME FolderInv
  PROVE  /\ MaxUid \in 0 .. MaxMails
         /\ MaxUid < uidNext
         /\ \A m \in InFolder : uidOf[m] <= MaxUid
<1>1. CASE InFolder = {}
  BY <1>1, ConstantFacts DEF MaxUid, FolderInv
<1>2. CASE InFolder # {}
  <2>1. MaxUid = LastUid(InFolder)
    BY <1>2 DEF MaxUid, LastUid
  <2>2. PICK l \in InFolder : MaxUid = uidOf[l] /\ \A m \in InFolder : uidOf[m] <= uidOf[l]
    BY <1>2, <2>1, GreatestUid
  <2> QED
    BY <2>2 DEF FolderInv, InFolder
<1> QED
  BY <1>1, <1>2

\* UIDs tell the mails of the folder apart.
LEMMA UidsDiffer ==
  ASSUME FolderInv, NEW l \in InFolder, NEW m \in InFolder, uidOf[l] = uidOf[m]
  PROVE  l = m
<1>1. l \in Nat /\ m \in Nat /\ uidOf[l] \in Nat
  BY DEF FolderInv, InFolder, Letters
<1> QED
  BY <1>1 DEF FolderInv

LEMMA FiniteLetters ==
  ASSUME NEW T \in SUBSET Letters
  PROVE  IsFiniteSet(T) /\ Cardinality(T) \in Nat
<1>1. IsFiniteSet(Letters)
  BY FS_Interval, ConstantFacts DEF Letters
<1>2. IsFiniteSet(T)
  BY <1>1, FS_Subset
<1> QED
  BY <1>2, FS_CardinalityType

\* A batch of oldest mails has with each mail all the older ones found.
LEMMA BatchIsPrefix ==
  ASSUME FolderInv, NEW found \in SUBSET InFolder, NEW m \in FirstOfBatch(found),
         NEW l \in found, uidOf[l] <= uidOf[m]
  PROVE  l \in FirstOfBatch(found)
<1> DEFINE A == {k \in found : uidOf[k] < uidOf[l]}
           B == {k \in found : uidOf[k] < uidOf[m]}
<1>1. \A k \in found : uidOf[k] \in Nat
  BY DEF FolderInv, InFolder
<1>2. A \subseteq B
  BY <1>1 DEF FirstOfBatch
<1>3. B \in SUBSET Letters
  BY DEF InFolder
<1>4. Cardinality(B) < BatchSize
  BY DEF FirstOfBatch
<1>5. Cardinality(A) <= Cardinality(B) /\ Cardinality(A) \in Nat /\ Cardinality(B) \in Nat
  <2> HIDE DEF A, B
  <2>1. A \in SUBSET Letters
    BY <1>2, <1>3
  <2> QED
    BY <1>2, <1>3, <2>1, FiniteLetters, FS_Subset
<1>6. Cardinality(A) < BatchSize
  <2> HIDE DEF A, B
  <2> QED
    BY <1>4, <1>5, ConstantFacts
<1> QED
  BY <1>6 DEF FirstOfBatch

\* Renumbering: the rank of a mail among those of the folder.
Rank(m) == Cardinality({l \in InFolder : l <= m})

LEMMA RankFacts ==
  ASSUME FolderInv
  PROVE  /\ Cardinality(InFolder) \in 0 .. arrived
         /\ \A m \in InFolder : Rank(m) \in 1 .. Cardinality(InFolder)
         /\ \A l, m \in InFolder : l < m => Rank(l) < Rank(m)
<1>1. Cardinality(InFolder) \in 0 .. arrived
  <2>1. InFolder \subseteq 1 .. arrived
    BY DEF FolderInv, InFolder, Letters
  <2>2. IsFiniteSet(1 .. arrived) /\ Cardinality(1 .. arrived) = arrived
    BY FS_Interval DEF FolderInv
  <2>3. Cardinality(InFolder) <= arrived /\ IsFiniteSet(InFolder)
    BY <2>1, <2>2, FS_Subset
  <2> QED
    BY <2>3, FS_CardinalityType DEF FolderInv
<1>2. ASSUME NEW m \in InFolder PROVE Rank(m) \in 1 .. Cardinality(InFolder)
  <2> DEFINE T == {l \in InFolder : l <= m}
  <2>1. m \in T /\ T \subseteq InFolder
    BY DEF InFolder, Letters
  <2>2. InFolder \in SUBSET Letters
    BY DEF InFolder
  <2> HIDE DEF T
  <2>3. Cardinality(T) <= Cardinality(InFolder) /\ Cardinality(T) \in Nat
    BY <2>1, <2>2, FiniteLetters, FS_Subset
  <2>4. Cardinality(T) # 0
    BY <2>1, <2>2, FiniteLetters, FS_EmptySet
  <2> QED
    BY <1>1, <2>3, <2>4 DEF T, Rank
<1>3. ASSUME NEW l \in InFolder, NEW m \in InFolder, l < m PROVE Rank(l) < Rank(m)
  <2> DEFINE S == {k \in InFolder : k <= l}
             T == {k \in InFolder : k <= m}
  <2>1. S \subseteq T /\ m \in T /\ m \notin S /\ T \in SUBSET Letters
    BY <1>3 DEF InFolder, Letters
  <2> HIDE DEF S, T
  <2>2. Cardinality(S) < Cardinality(T)
    <3>1. IsFiniteSet(T) /\ IsFiniteSet(S)
      BY <2>1, FiniteLetters
    <3>2. Cardinality(S) <= Cardinality(T) /\ (Cardinality(S) = Cardinality(T) => S = T)
      BY <2>1, <3>1, FS_Subset
    <3> QED
      BY <2>1, <3>1, <3>2, FS_CardinalityType
  <2> QED
    BY <2>2 DEF S, T, Rank
<1> QED
  BY <1>1, <1>2, <1>3

-----------------------------------------------------------------------------
(* The poller: every step of the folder and of a poll keeps PollInv.       *)

THEOREM PollInitInv == PollInit => PollInv
<1> SUFFICES ASSUME PollInit PROVE PollInv
  OBVIOUS
<1>1. InFolder = {} /\ Known = {}
  BY DEF PollInit, PollIdle, InFolder, Known
<1>2. FolderInv
  BY <1>1, ConstantFacts DEF PollInit, FolderInv
<1>3. PollerInv
  BY ConstantFacts DEF PollInit, PollIdle, NoCursor, PollerInv, Cursors, NotAhead
<1>4. KeyInv /\ OnceInv
  BY <1>1 DEF PollInit, KeyInv, OnceInv
<1>5. SkipInv
  BY <1>1 DEF SkipInv, NoMailSkipped
<1> QED
  BY <1>2, <1>3, <1>4, <1>5 DEF PollInv

LEMMA UidTypes ==
  ASSUME FolderInv
  PROVE  /\ \A m \in InFolder : m \in Letters /\ uidOf[m] \in 1 .. MaxMails
         /\ validity \in Validities /\ uidNext \in Nat /\ arrived \in Nat
         /\ InFolder \subseteq Letters
BY ConstantFacts DEF FolderInv, InFolder, Validities

LEMMA KnownTypes ==
  ASSUME PollerInv, KeyInv
  PROVE  \A e \in Known : /\ e \in [key : Keys, mail : Letters]
                          /\ e.key[1] \in Nat /\ e.key[2] \in Nat /\ e.mail \in Nat
                          /\ e = [key |-> e.key, mail |-> e.mail]
                          /\ e.key = <<e.key[1], e.key[2]>>
BY ConstantFacts DEF PollerInv, KeyInv, Known, Keys, Validities, Letters

LEMMA MailArrivesInv ==
  ASSUME PollInv, NEW f \in Forms, MailArrives(f)
  PROVE  PollInv'
<1> DEFINE new == arrived + 1
<1> USE DEF PollInv
<1>1. /\ new \in Letters /\ uidNext \in 1 .. MaxMails
      /\ InFolder' = InFolder \cup {new} /\ new \notin InFolder
      /\ uidOf'[new] = uidNext
      /\ \A m \in Letters : m # new => uidOf'[m] = uidOf[m]
      /\ uidOf' \in [Letters -> 0 .. MaxMails]
  <2>1. new \in Letters /\ uidNext \in 1 .. MaxMails
    BY ConstantFacts DEF FolderInv, MailArrives, Letters
  <2>2. new \notin InFolder
    BY <2>1 DEF FolderInv, InFolder
  <2> QED
    BY <2>1, <2>2 DEF FolderInv, MailArrives, InFolder
<1>2. FolderInv'
  <2>1. \A m \in InFolder' : m <= arrived' /\ uidOf'[m] < uidNext'
    BY <1>1, UidTypes DEF FolderInv, MailArrives, Letters
  <2>2. \A l, m \in InFolder' : l < m => uidOf'[l] < uidOf'[m]
    BY <1>1, UidTypes DEF FolderInv, MailArrives, Letters
  <2> QED
    BY <1>1, <2>1, <2>2, ConstantFacts DEF FolderInv, MailArrives
<1>3. PollerInv'
  BY UidTypes DEF PollerInv, MailArrives, NotAhead, Cursors
<1>4. \A e \in Known : e.mail # new
  BY UidTypes, KnownTypes DEF KeyInv
<1>5. KeyInv'
  <2>1. Known' = Known /\ mails' = mails /\ validity' = validity
    BY DEF Known, MailArrives
  <2>2. ASSUME NEW e \in Known
        PROVE  /\ e.mail <= arrived'
               /\ e.key[1] <= validity
               /\ e.key[1] = validity => e.key[2] < uidNext'
               /\ e.key[1] = validity /\ e.mail \in InFolder' => e.key[2] = uidOf'[e.mail]
    BY <1>1, <1>4, UidTypes, KnownTypes DEF KeyInv, MailArrives
  <2>3. ASSUME NEW e \in Known, NEW m \in InFolder', e.key = <<validity, uidOf'[m]>>
        PROVE  e.mail = m
    <3>1. m # new
      BY <1>1, <2>3, KnownTypes, UidTypes DEF KeyInv
    <3> QED
      BY <1>1, <2>3, <3>1, UidTypes DEF KeyInv
  <2> QED
    BY <2>1, <2>2, <2>3 DEF KeyInv
<1>6. OnceInv'
  BY <1>1, <1>4 DEF OnceInv, Known, MailArrives
<1>7. SkipInv'
  <2>1. NoMailSkipped'
    BY <1>1, UidTypes DEF SkipInv, NoMailSkipped, RowsOf, MailArrives, PollerInv, NotAhead, Cursors
  <2>2. ASSUME NEW m \in InFolder', poller.pc # "idle", poller.next.validity = validity,
               uidOf'[m] <= poller.next.uid
        PROVE  RowsOf(m) # {} \/ m \in history \/ \E e \in poller.batch : e.mail = m
    <3>1. m # new
      BY <1>1, <2>2, UidTypes DEF PollerInv, NotAhead, Cursors
    <3> QED
      BY <1>1, <2>2, <3>1, UidTypes DEF SkipInv
  <2> QED
    BY <2>1, <2>2 DEF SkipInv, MailArrives, RowsOf
<1> QED
  BY <1>2, <1>3, <1>5, <1>6, <1>7

LEMMA MailDeletedInv ==
  ASSUME NEW d \in Letters, PollInv, MailDeleted(d)
  PROVE  PollInv'
<1> USE DEF PollInv
<1>1. /\ InFolder' = InFolder \ {d}
      /\ \A m \in InFolder' : uidOf'[m] = uidOf[m]
      /\ uidOf' \in [Letters -> 0 .. MaxMails]
  BY ConstantFacts DEF FolderInv, MailDeleted, InFolder
<1>2. FolderInv'
  <2>1. \A l, m \in InFolder' : l < m => uidOf'[l] < uidOf'[m]
    BY <1>1 DEF FolderInv
  <2>2. changes' \in 0 .. MaxChanges /\ validity' \in 1 .. changes' + 1
    BY ConstantFacts DEF FolderInv, MailDeleted
  <2> QED
    BY <1>1, <2>1, <2>2 DEF FolderInv, MailDeleted
<1>3. PollerInv'
  BY DEF PollerInv, MailDeleted, NotAhead
<1>4. KeyInv'
  BY <1>1 DEF KeyInv, Known, MailDeleted
<1>5. OnceInv'
  BY <1>1 DEF OnceInv, Known, MailDeleted
<1>6. SkipInv'
  BY <1>1 DEF SkipInv, NoMailSkipped, RowsOf, MailDeleted
<1> QED
  BY <1>2, <1>3, <1>4, <1>5, <1>6

LEMMA RenumberInv == PollInv /\ Renumber => PollInv'
<1> SUFFICES ASSUME PollInv, Renumber PROVE PollInv'
  OBVIOUS
<1> USE DEF PollInv
<1>1. \A m \in Letters : uidOf'[m] = IF m \in InFolder THEN Rank(m) ELSE 0
  BY DEF Renumber, Rank
<1>2. uidOf' \in [Letters -> 0 .. MaxMails] /\ InFolder' = InFolder
  <2>1. \A m \in InFolder : Rank(m) \in 1 .. MaxMails
    BY RankFacts, ConstantFacts DEF FolderInv
  <2>2. \A m \in Letters : uidOf'[m] \in 0 .. MaxMails
    BY <1>1, <2>1, ConstantFacts
  <2>3. uidOf' \in [Letters -> 0 .. MaxMails]
    BY <2>2 DEF Renumber
  <2>4. ASSUME NEW m \in Letters PROVE uidOf'[m] # 0 <=> m \in InFolder
    BY <1>1, <2>1
  <2> QED
    BY <2>3, <2>4 DEF InFolder
<1>3. FolderInv'
  <2>1. \A m \in InFolder' : m <= arrived' /\ uidOf'[m] < uidNext'
    BY <1>1, <1>2, RankFacts, UidTypes DEF Renumber, FolderInv
  <2>2. \A l, m \in InFolder' : l < m => uidOf'[l] < uidOf'[m]
    BY <1>1, <1>2, RankFacts, UidTypes
  <2>3. uidNext' \in 1 .. arrived' + 1
    BY RankFacts DEF Renumber, FolderInv
  <2>4. changes' \in 0 .. MaxChanges /\ validity' \in 1 .. changes' + 1
    BY ConstantFacts DEF FolderInv, Renumber
  <2> QED
    BY <1>2, <2>1, <2>2, <2>3, <2>4 DEF FolderInv, Renumber
<1>4. validity' = validity + 1 /\ validity \in Nat
  BY DEF Renumber, FolderInv
<1>5. \A c \in Cursors : NotAhead(c) => c.validity < validity' /\ NotAhead(c)'
  BY <1>4 DEF NotAhead, Cursors, Validities
<1>6. PollerInv'
  BY <1>5 DEF PollerInv, Renumber
<1>7. \A e \in Known' : e \in Known /\ e.key[1] < validity'
  BY <1>4, KnownTypes DEF Known, Renumber, KeyInv
<1>8. KeyInv'
  BY <1>4, <1>7, KnownTypes DEF KeyInv, Renumber
<1>9. cursor'.validity # validity' /\ poller'.next.validity # validity'
  BY <1>4, <1>5 DEF PollerInv, Renumber, Cursors, Validities
<1>10. OnceInv'
  BY <1>7, <1>9 DEF OnceInv, Renumber
<1>11. SkipInv'
  BY <1>9 DEF SkipInv, NoMailSkipped
<1> QED
  BY <1>3, <1>6, <1>8, <1>10, <1>11

LEMMA PollResetsInv == PollInv /\ PollResets => PollInv'
<1> SUFFICES ASSUME PollInv, PollResets PROVE PollInv'
  OBVIOUS
<1> USE DEF PollInv
<1>1. InFolder' = InFolder /\ Known' \subseteq Known /\ UNCHANGED folderVars
  BY DEF PollResets, InFolder, folderVars, Known
<1>2. FolderInv'
  BY <1>1 DEF FolderInv, folderVars
<1>3. poller'.next = [validity |-> validity, uid |-> MaxUid] /\ poller'.next \in Cursors
  BY MaxUidFacts, UidTypes DEF PollResets, Cursors
<1>4. PollerInv'
  <2>1. NotAhead(cursor)' /\ NotAhead(poller.next)'
    <3>1. MaxUid < uidNext /\ validity <= validity
      BY MaxUidFacts, UidTypes DEF Validities
    <3> QED
      BY <1>1, <1>3, <3>1 DEF NotAhead, folderVars, PollerInv, PollResets
  <2> QED
    BY <1>3, <2>1, UidTypes DEF PollerInv, PollResets
<1>5. KeyInv'
  BY <1>1 DEF KeyInv, PollResets, folderVars
<1>6. OnceInv'
  BY <1>1 DEF OnceInv, PollResets, folderVars
<1>7. SkipInv'
  BY <1>1 DEF SkipInv, NoMailSkipped, PollResets
<1> QED
  BY <1>2, <1>4, <1>5, <1>6, <1>7

LEMMA SaveCursorInv == PollInv /\ SaveCursor => PollInv'
<1> SUFFICES ASSUME PollInv, SaveCursor PROVE PollInv'
  OBVIOUS
<1> USE DEF PollInv
<1>1. /\ InFolder' = InFolder /\ UNCHANGED folderVars /\ mails' = mails /\ history' = history
      /\ poller.batch = {} /\ Known' = mails /\ mails \subseteq Known
      /\ cursor' = poller.next /\ poller' = PollIdle
  BY DEF SaveCursor, PollIdle, PollerInv, InFolder, folderVars, Known
<1>2. FolderInv'
  BY <1>1 DEF FolderInv, folderVars
<1>3. PollerInv'
  BY <1>1, ConstantFacts, UidTypes DEF PollerInv, PollIdle, NoCursor, Cursors, NotAhead, folderVars, Validities
<1>4. KeyInv'
  BY <1>1 DEF KeyInv, folderVars
<1>5. OnceInv'
  BY <1>1, UidTypes DEF OnceInv, folderVars, PollIdle, NoCursor, Validities
<1>6. SkipInv'
  <2>1. ASSUME NEW m \in InFolder, poller.next.validity = validity, uidOf[m] <= poller.next.uid
        PROVE  RowsOf(m) # {} \/ m \in history
    BY <1>1, <2>1 DEF SkipInv, SaveCursor
  <2> QED
    BY <1>1, <2>1 DEF SkipInv, NoMailSkipped, RowsOf, folderVars, PollIdle
<1> QED
  BY <1>2, <1>3, <1>4, <1>5, <1>6

LEMMA PollFetchesInv == PollInv /\ PollFetches => PollInv'
<1> SUFFICES ASSUME PollInv, PollFetches PROVE PollInv'
  OBVIOUS
<1> USE DEF PollInv
<1> DEFINE found == Found(cursor.uid + 1)
<1>1. PICK batch : batch = FirstOfBatch(found)
  OBVIOUS
<1>2. /\ batch \subseteq found /\ found \subseteq InFolder /\ batch \subseteq InFolder
      /\ found = {m \in InFolder : uidOf[m] >= cursor.uid + 1 \/ uidOf[m] = MaxUid}
  BY <1>1 DEF FirstOfBatch, Found
<1>3. /\ poller.pc = "idle" /\ poller.batch = {} /\ Known = mails
      /\ cursor.validity = validity /\ cursor.uid \in Nat /\ cursor.uid < uidNext
      /\ cursor.uid <= MaxMails
  BY MaxUidFacts DEF PollFetches, Resets, PollerInv, Known, NotAhead, Cursors
<1>4. poller' = [pc |-> IF batch = {} THEN "save" ELSE "ingest",
                 batch |-> {Envelope(m) : m \in batch},
                 next |-> [validity |-> validity,
                           uid |-> IF batch = {} THEN cursor.uid ELSE LastUid(batch)]]
  BY <1>1 DEF PollFetches, Batch
<1>5. /\ InFolder' = InFolder /\ UNCHANGED <<folderVars, cursor, mails, history>>
      /\ Known' = mails \cup {Envelope(m) : m \in batch}
  BY <1>4 DEF PollFetches, InFolder, folderVars, Known
<1> HIDE DEF found
<1>6. \A m \in batch : /\ Envelope(m) \in [key : Keys, mail : Letters]
                       /\ Envelope(m).mail = m /\ m \in InFolder
                       /\ Envelope(m).key = <<validity, uidOf[m]>>
  BY <1>2, UidTypes DEF Envelope, Keys, Letters
<1>7. FolderInv'
  BY <1>5 DEF FolderInv, folderVars
<1>8. PICK n : n = (IF batch = {} THEN cursor.uid ELSE LastUid(batch))
  OBVIOUS
<1>9. /\ n \in 0 .. MaxMails /\ n < uidNext
      /\ \A m \in batch : uidOf[m] <= n
      /\ \A m \in InFolder : uidOf[m] <= n => uidOf[m] <= cursor.uid \/ m \in batch
  <2>1. CASE batch = {}
    BY <1>3, <1>8, <2>1, ConstantFacts
  <2>2. CASE batch # {}
    <3>1. PICK l \in batch : n = uidOf[l] /\ \A m \in batch : uidOf[m] <= uidOf[l]
      BY <1>2, <1>8, <2>2, GreatestUid
    <3>2. ASSUME NEW m \in InFolder, uidOf[m] <= n, ~(uidOf[m] <= cursor.uid)
          PROVE  m \in batch
      <4>1. m \in found
        BY <1>2, <1>3, <3>2, UidTypes
      <4> QED
        BY <1>1, <1>2, <3>1, <3>2, <4>1, BatchIsPrefix
    <3> QED
      BY <1>2, <3>1, <3>2, UidTypes DEF FolderInv
  <2> QED
    BY <2>1, <2>2
<1>10. poller'.next = [validity |-> validity, uid |-> n]
  BY <1>4, <1>8
<1>11. PollerInv'
  <2>1. /\ poller'.pc \in {"ingest", "save"} /\ (poller'.pc = "ingest" <=> poller'.batch # {})
    BY <1>4
  <2>2. poller'.batch \subseteq [key : Keys, mail : Letters]
    BY <1>4, <1>6
  <2>3. poller'.next \in Cursors
    BY <1>9, <1>10, UidTypes DEF Cursors
  <2>4. NotAhead(poller.next)' /\ NotAhead(cursor)'
    BY <1>5, <1>9, <1>10, UidTypes DEF NotAhead, PollerInv, folderVars, Validities
  <2>5. poller' = [pc |-> poller'.pc, batch |-> poller'.batch, next |-> poller'.next]
    BY <1>4
  <2> QED
    BY <1>5, <2>1, <2>2, <2>3, <2>4, <2>5 DEF PollerInv
<1>12. KeyInv'
  <2>1. ASSUME NEW e \in Known'
        PROVE  /\ e.mail <= arrived
               /\ e.key[1] <= validity
               /\ e.key[1] = validity => e.key[2] < uidNext
               /\ e.key[1] = validity /\ e.mail \in InFolder => e.key[2] = uidOf[e.mail]
               /\ \A m \in InFolder : e.key = <<validity, uidOf[m]>> => e.mail = m
    <3>1. CASE e \in mails
      BY <1>3, <3>1 DEF KeyInv
    <3>2. CASE e \notin mails
      <4>1. PICK m \in batch : e = Envelope(m)
        BY <1>5, <3>2
      <4>2. \A l \in InFolder : e.key = <<validity, uidOf[l]>> => uidOf[l] = uidOf[m]
        BY <1>6, <4>1
      <4> QED
        BY <1>6, <4>1, <4>2, UidsDiffer, UidTypes DEF FolderInv, Validities
    <3> QED
      BY <3>1, <3>2
  <2>2. ASSUME NEW e \in Known', NEW f \in Known', e.key = f.key
        PROVE  e.mail = f.mail
    <3>1. CASE e \in mails /\ f \in mails
      BY <1>3, <2>2, <3>1 DEF KeyInv
    <3>2. CASE e \notin mails
      <4>1. PICK m \in batch : e = Envelope(m)
        BY <1>5, <3>2
      <4> QED
        BY <1>6, <2>1, <2>2, <4>1
    <3>3. CASE f \notin mails
      <4>1. PICK m \in batch : f = Envelope(m)
        BY <1>5, <3>3
      <4> QED
        BY <1>6, <2>1, <2>2, <4>1
    <3> QED
      BY <3>1, <3>2, <3>3
  <2> QED
    BY <1>5, <2>1, <2>2 DEF KeyInv, folderVars
<1>13. OnceInv'
  <2>1. \A e \in Known' : e.key[1] # validity => e \in mails
    BY <1>5, <1>6
  <2>2. ASSUME NEW e \in Known', e.key[1] # validity, e.mail \in InFolder \ history
        PROVE  FALSE
    BY <1>3, <2>1, <2>2 DEF OnceInv
  <2>3. ASSUME NEW e \in Known', e.mail \in InFolder \ history
        PROVE  e = [key |-> <<validity, uidOf[e.mail]>>, mail |-> e.mail]
    <3>1. e.key[1] = validity
      BY <2>2, <2>3
    <3>2. CASE e \in mails
      BY <1>3, <2>3, <3>1, <3>2, KnownTypes DEF KeyInv
    <3>3. CASE e \notin mails
      BY <1>5, <3>3 DEF Envelope
    <3> QED
      BY <3>2, <3>3
  <2>4. ASSUME NEW e \in Known', NEW f \in Known', e.mail = f.mail, e.mail \notin history
        PROVE  e = f
    <3>1. CASE e \in mails /\ f \in mails
      BY <1>3, <2>4, <3>1 DEF OnceInv
    <3>2. CASE e \notin mails \/ f \notin mails
      <4>1. e.mail \in InFolder
        BY <1>5, <1>6, <2>4, <3>2
      <4> QED
        BY <2>3, <2>4, <4>1
    <3> QED
      BY <3>1, <3>2
  <2> QED
    BY <1>5, <2>2, <2>4 DEF OnceInv, folderVars
<1>14. SkipInv'
  <2>1. ASSUME NEW m \in InFolder, uidOf[m] <= n
        PROVE  RowsOf(m) # {} \/ m \in history \/ \E e \in poller'.batch : e.mail = m
    <3>1. CASE uidOf[m] <= cursor.uid
      BY <1>3, <3>1 DEF SkipInv, NoMailSkipped
    <3>2. CASE m \in batch
      BY <1>4, <1>6, <3>2
    <3> QED
      BY <1>9, <2>1, <3>1, <3>2
  <2> QED
    BY <1>5, <1>10, <2>1 DEF SkipInv, NoMailSkipped, RowsOf, folderVars
<1> QED
  BY <1>7, <1>11, <1>12, <1>13, <1>14

\* The envelope that is ingested is one of the batch.
LEMMA CurrentInBatch ==
  ASSUME PollerInv, poller.pc = "ingest"
  PROVE  Current \in poller.batch
<1> DEFINE U == {e.key[2] : e \in poller.batch}
<1>1. U \in SUBSET Nat /\ U # {} /\ \A e \in poller.batch : e.key[2] \in Nat
  BY DEF PollerInv, Keys, Letters
<1>2. PICK u \in U : \A v \in U : u <= v
  <2> HIDE DEF U
  <2> QED
    BY <1>1, LeastNat
<1>3. PICK e \in poller.batch : u = e.key[2]
  OBVIOUS
<1>4. \A f \in poller.batch : e.key[2] <= f.key[2]
  BY <1>2, <1>3
<1> QED
  BY <1>4 DEF Current

LEMMA IngestedInv == PollInv /\ Ingested => PollInv'
<1> SUFFICES ASSUME PollInv, Ingested PROVE PollInv'
  OBVIOUS
<1> USE DEF PollInv
<1>1. PICK c : c = Current
  OBVIOUS
<1>2. c \in poller.batch /\ poller.pc = "ingest"
  BY <1>1, CurrentInBatch DEF Ingested
<1>3. /\ mails' = IF Stored(c.key) THEN mails ELSE mails \cup {c}
      /\ poller' = [poller EXCEPT !.batch = poller.batch \ {c},
                                  !.pc = IF poller.batch \ {c} = {} THEN "save" ELSE "ingest"]
      /\ UNCHANGED <<folderVars, cursor, history>>
  BY <1>1 DEF Ingested
<1>4. /\ poller'.batch = poller.batch \ {c} /\ poller'.next = poller.next
      /\ poller'.pc = IF poller.batch \ {c} = {} THEN "save" ELSE "ingest"
      /\ poller' \in [pc : {"idle", "ingest", "save", "stopped"},
                      batch : SUBSET [key : Keys, mail : Letters], next : Cursors]
  BY <1>3 DEF PollerInv
<1>5. /\ InFolder' = InFolder /\ Known' \subseteq Known /\ mails \subseteq mails'
      /\ mails' \subseteq [key : Keys, mail : Letters]
  BY <1>2, <1>3, <1>4 DEF InFolder, folderVars, Known, KeyInv, PollerInv
<1>6. FolderInv'
  BY <1>3, <1>5 DEF FolderInv, folderVars
<1>7. PollerInv'
  BY <1>3, <1>4 DEF PollerInv, NotAhead, folderVars
<1>8. KeyInv'
  BY <1>3, <1>5 DEF KeyInv, folderVars
<1>9. OnceInv'
  BY <1>3, <1>4, <1>5 DEF OnceInv, folderVars
<1>10. \E row \in mails' : row.mail = c.mail
  BY <1>2, <1>3 DEF Stored, KeyInv, Known
<1>11. /\ \A m \in Letters : RowsOf(m) # {} => RowsOf(m)' # {}
       /\ RowsOf(c.mail)' # {}
  BY <1>5, <1>10 DEF RowsOf
<1>12. SkipInv'
  <2>1. NoMailSkipped'
    BY <1>3, <1>5, <1>11 DEF SkipInv, NoMailSkipped, folderVars, InFolder
  <2>2. ASSUME NEW m \in InFolder, poller.next.validity = validity, uidOf[m] <= poller.next.uid
        PROVE  RowsOf(m)' # {} \/ m \in history \/ \E e \in poller'.batch : e.mail = m
    <3>1. CASE RowsOf(m) # {} \/ m \in history
      BY <1>11, <3>1 DEF InFolder
    <3>2. CASE \E e \in poller.batch : e.mail = m
      BY <1>4, <1>11, <3>2
    <3> QED
      BY <1>2, <2>2, <3>1, <3>2 DEF SkipInv
  <2> QED
    BY <1>3, <1>4, <1>5, <2>1, <2>2 DEF SkipInv, folderVars
<1> QED
  BY <1>6, <1>7, <1>8, <1>9, <1>12

\* Only the recorded error changes, or nothing does.
LEMMA PollStutters ==
  PollInv /\ UNCHANGED <<folderVars, cursor, mails, poller, history>> => PollInv'
<1> SUFFICES ASSUME PollInv, UNCHANGED <<folderVars, cursor, mails, poller, history>>
             PROVE  PollInv'
  OBVIOUS
<1> USE DEF PollInv
<1>1. InFolder' = InFolder /\ Known' = Known
  BY DEF InFolder, Known, folderVars
<1>2. FolderInv' /\ PollerInv'
  BY <1>1 DEF FolderInv, PollerInv, NotAhead, folderVars
<1>3. KeyInv' /\ OnceInv'
  BY <1>1 DEF KeyInv, OnceInv, folderVars
<1>4. SkipInv'
  BY <1>1 DEF SkipInv, NoMailSkipped, RowsOf, folderVars
<1> QED
  BY <1>2, <1>3, <1>4

\* The death of the poller, or of a cycle of it, or the end of the service.
LEMMA PollerDies ==
  ASSUME PollInv, poller' \in {poller, PollIdle, [PollIdle EXCEPT !.pc = "stopped"]},
         UNCHANGED <<folderVars, cursor, mails, history>>
  PROVE  PollInv'
<1> USE DEF PollInv
<1>1. CASE poller' = poller
  BY <1>1, PollStutters
<1>2. CASE poller' # poller
  <2>1. /\ InFolder' = InFolder /\ Known' \subseteq Known /\ poller'.batch = {}
        /\ poller'.next = NoCursor /\ poller'.pc \in {"idle", "stopped"}
        /\ poller' = [pc |-> poller'.pc, batch |-> {}, next |-> NoCursor]
    BY <1>2 DEF InFolder, Known, folderVars, PollIdle
  <2>2. FolderInv'
    BY <2>1 DEF FolderInv, folderVars
  <2>3. PollerInv'
    BY <1>2, <2>1, ConstantFacts, UidTypes
    DEF PollerInv, PollIdle, NoCursor, Cursors, NotAhead, folderVars, Validities
  <2>4. KeyInv'
    BY <2>1 DEF KeyInv, folderVars
  <2>5. OnceInv'
    BY <2>1, UidTypes DEF OnceInv, folderVars, NoCursor, Validities
  <2>6. SkipInv'
    <3>1. poller'.next.validity # validity
      BY <2>1, UidTypes DEF NoCursor, Validities
    <3> QED
      BY <2>1, <3>1 DEF SkipInv, NoMailSkipped, RowsOf, folderVars
  <2> QED
    BY <2>2, <2>3, <2>4, <2>5, <2>6
<1> QED
  BY <1>1, <1>2

-----------------------------------------------------------------------------
(* The publisher: every step of the outbox keeps OutboxInv.                *)

LEMMA EventFacts ==
  /\ \A m \in MailIds : Received(m) \in Events /\ Analyzed(m) \in Events /\ Created(m) \in Events
  /\ \A l, m \in MailIds :
       /\ Received(l) # Analyzed(m) /\ Received(l) # Created(m) /\ Analyzed(l) # Created(m)
       /\ Received(l) = Received(m) => l = m
       /\ Analyzed(l) = Analyzed(m) => l = m
       /\ Created(l) = Created(m) => l = m
  /\ \A e \in Events : \E m \in MailIds : e = Received(m) \/ e = Analyzed(m) \/ e = Created(m)
  /\ NoEvent \notin Events
BY DEF Events, EventTypes, Received, Analyzed, Created, NoEvent

LEMMA OutboxInitInv == OutboxInit => OutboxInv
<1> SUFFICES ASSUME OutboxInit PROVE OutboxInv
  OBVIOUS
<1>1. EventInv
  BY ConstantFacts DEF OutboxInit, EventInv
<1>2. PublisherInv
  BY DEF OutboxInit, PublisherInv, PublisherIdle
<1>3. ChainInv
  BY EventFacts DEF OutboxInit, ChainInv
<1> QED
  BY <1>1, <1>2, <1>3 DEF OutboxInv

LEMMA OutboxStutters == OutboxInv /\ UNCHANGED outboxVars => OutboxInv'
BY DEF OutboxInv, EventInv, PublisherInv, ChainInv, outboxVars, eventVars

\* The publisher's thread may lose its place; the tables it leaves alone.
LEMMA PublisherMoves ==
  ASSUME OutboxInv, UNCHANGED <<eventVars, mailState, suggestion, notices>>, PublisherInv'
  PROVE  OutboxInv'
BY DEF OutboxInv, EventInv, ChainInv, eventVars

LEMMA PublisherDies ==
  ASSUME OutboxInv, UNCHANGED <<eventVars, mailState, suggestion, notices>>,
         publisher' \in {publisher, PublisherIdle}
  PROVE  OutboxInv'
<1>1. PublisherInv'
  BY DEF OutboxInv, PublisherInv, PublisherIdle, eventVars
<1> QED
  BY <1>1, PublisherMoves

LEMMA MailReceivedInv ==
  ASSUME NEW m \in MailIds, OutboxInv, status[Received(m)] = "NONE", MailReceived(m)
  PROVE  OutboxInv'
<1> USE DEF OutboxInv
<1>1. /\ Received(m) \in Events /\ Received(m) \notin processed
      /\ status' = [status EXCEPT ![Received(m)] = "PENDING"]
      /\ mailState' = [mailState EXCEPT ![m] = "PENDING"]
      /\ UNCHANGED <<attempt, wait, processed, requeued, suggestion, notices, publisher>>
  BY EventFacts DEF MailReceived, EventInv
<1>2. EventInv'
  BY <1>1, ConstantFacts DEF EventInv
<1>3. PublisherInv'
  BY <1>1 DEF EventInv, PublisherInv
<1>4. ChainInv'
  BY <1>1, EventFacts DEF ChainInv, EventInv
<1> QED
  BY <1>2, <1>3, <1>4

LEMMA SelectBatchInv == OutboxInv /\ SelectBatch => OutboxInv'
<1> SUFFICES ASSUME OutboxInv, SelectBatch PROVE OutboxInv'
  OBVIOUS
<1>1. PublisherInv'
  BY DEF SelectBatch, DueEvents, PublisherIdle, OutboxInv, PublisherInv, eventVars
<1> QED
  BY <1>1, PublisherMoves DEF SelectBatch

LEMMA DeliverAgainInv ==
  ASSUME NEW e \in Events, OutboxInv, DeliverAgain(e)
  PROVE  OutboxInv'
<1>1. PublisherInv'
  BY DEF DeliverAgain, Delivered, Then, OutboxInv, PublisherInv, eventVars
<1> QED
  BY <1>1, PublisherMoves DEF DeliverAgain

LEMMA CallLLMInv ==
  ASSUME NEW m \in MailIds, NEW answer \in Answers, OutboxInv, CallLLM(m, answer)
  PROVE  OutboxInv'
<1>1. PublisherInv'
  BY EventFacts DEF CallLLM, Delivering, Received, Then, OutboxInv, PublisherInv, eventVars, Answers
<1> QED
  BY <1>1, PublisherMoves DEF CallLLM

\* A publisher that goes on to the next event has forgotten this one.
LEMMA NextEventFacts ==
  ASSUME PublisherInv, publisher.pc \notin {"idle", "deliver"}, NextEvent
  PROVE  /\ publisher' \in [pc : {"idle", "deliver", "publish", "fail", "persist", "analysisFails"},
                            batch : SUBSET Events, event : Events \cup {NoEvent},
                            answer : Answers \cup {"NONE"}]
         /\ publisher'.batch = publisher.batch \ {publisher.event}
         /\ publisher'.pc \in {"idle", "deliver"}
         /\ publisher.event \in Events /\ status[publisher.event] = "PENDING"
BY DEF PublisherInv, NextEvent, PublisherIdle

LEMMA MarkPublishedInv == OutboxInv /\ MarkPublished => OutboxInv'
<1> SUFFICES ASSUME OutboxInv, MarkPublished PROVE OutboxInv'
  OBVIOUS
<1> USE DEF OutboxInv
<1>1. PICK e : e = publisher.event
  OBVIOUS
<1>2. /\ e \in Events /\ e \in processed /\ status[e] = "PENDING"
      /\ status' = [status EXCEPT ![e] = "PUBLISHED"]
      /\ attempt' = [attempt EXCEPT ![e] = @ + 1]
      /\ wait' = [wait EXCEPT ![e] = FALSE]
      /\ UNCHANGED <<processed, requeued, mailState, suggestion, notices>>
      /\ publisher'.batch = publisher.batch \ {e}
  BY <1>1, NextEventFacts DEF MarkPublished, PublisherInv
<1>3. EventInv'
  BY <1>2, ConstantFacts DEF EventInv
<1>4. PublisherInv'
  BY <1>2, NextEventFacts DEF MarkPublished, EventInv, PublisherInv
<1>5. ChainInv'
  BY <1>2, EventFacts DEF ChainInv, EventInv
<1> QED
  BY <1>3, <1>4, <1>5

LEMMA MarkFailedInv == OutboxInv /\ MarkFailed => OutboxInv'
<1> SUFFICES ASSUME OutboxInv, MarkFailed PROVE OutboxInv'
  OBVIOUS
<1> USE DEF OutboxInv
<1>1. PICK e : e = publisher.event
  OBVIOUS
<1>2. PICK gives \in BOOLEAN : gives = GivesUp(e)
  BY DEF GivesUp
<1>3. /\ e \in Events /\ status[e] = "PENDING"
      /\ status' = [status EXCEPT ![e] = IF gives THEN "FAILED" ELSE "PENDING"]
      /\ attempt' = [attempt EXCEPT ![e] = @ + 1]
      /\ wait' = [wait EXCEPT ![e] = ~gives]
      /\ UNCHANGED <<processed, requeued, mailState, suggestion, notices>>
      /\ publisher'.batch = publisher.batch \ {e}
  BY <1>1, <1>2, NextEventFacts DEF MarkFailed
<1>4. ~gives => attempt[e] + 1 < MaxEventAttempts
  <2>1. ~(attempt[e] + 1 >= MaxEventAttempts) => attempt[e] + 1 < MaxEventAttempts
    BY <1>3, ConstantFacts DEF EventInv
  <2> QED
    BY <1>2, <2>1 DEF GivesUp
<1>5. EventInv'
  <2>1. /\ status' \in [Events -> {"NONE", "PENDING", "PUBLISHED", "FAILED"}]
        /\ attempt' \in [Events -> Nat] /\ wait' \in [Events -> BOOLEAN]
    BY <1>3 DEF EventInv
  <2>2. ASSUME NEW f \in Events
        PROVE  /\ attempt'[f] <= MaxEventAttempts + requeued[f]
               /\ status'[f] \in {"NONE", "PENDING"} =>
                    attempt'[f] < MaxEventAttempts + requeued[f]
               /\ status'[f] = "PUBLISHED" => f \in processed
               /\ f \in processed => status'[f] # "NONE"
    BY <1>3, <1>4, ConstantFacts DEF EventInv
  <2> QED
    BY <1>3, <2>1, <2>2 DEF EventInv
<1>6. PublisherInv'
  BY <1>3, NextEventFacts DEF MarkFailed, EventInv, PublisherInv
<1>7. ChainInv'
  BY <1>3, EventFacts DEF ChainInv, EventInv
<1> QED
  BY <1>5, <1>6, <1>7

LEMMA ClassifyNonJobInv ==
  ASSUME NEW m \in MailIds, OutboxInv, ClassifyNonJob(m)
  PROVE  OutboxInv'
<1> USE DEF OutboxInv
<1>1. /\ Received(m) \in publisher.batch /\ Received(m) \notin processed /\ m \notin JobMails
      /\ Received(m) \in Events
      /\ mailState' = [mailState EXCEPT ![m] = "NON_JOB"]
      /\ processed' = processed \cup {Received(m)}
      /\ publisher' = [publisher EXCEPT !.pc = "publish", !.event = Received(m), !.answer = "NONE"]
      /\ UNCHANGED <<status, attempt, wait, requeued, suggestion, notices>>
  BY EventFacts DEF ClassifyNonJob, Delivering, Received, Delivered, Then
<1>2. EventInv'
  BY <1>1 DEF EventInv, PublisherInv
<1>3. PublisherInv'
  BY <1>1 DEF PublisherInv
<1>4. ChainInv'
  BY <1>1, EventFacts DEF ChainInv, EventInv
<1> QED
  BY <1>2, <1>3, <1>4

LEMMA PersistAnalysisInv == OutboxInv /\ PersistAnalysis => OutboxInv'
<1> SUFFICES ASSUME OutboxInv, PersistAnalysis PROVE OutboxInv'
  OBVIOUS
<1> USE DEF OutboxInv
<1>1. PICK m \in JobMails : publisher.event = Received(m) /\ Received(m) \notin processed
  BY DEF PersistAnalysis, PublisherInv
<1>2. PICK says \in Suggestions : says = publisher.answer
  BY DEF PersistAnalysis, PublisherInv
<1>3. Subject = m
  BY <1>1 DEF Subject, Received
<1>4. /\ m \in MailIds /\ Received(m) \in publisher.batch
      /\ suggestion[m] = "NONE" /\ status[Analyzed(m)] = "NONE"
  BY <1>1, ConstantFacts DEF PersistAnalysis, PublisherInv, ChainInv
<1>5. /\ suggestion' = [suggestion EXCEPT ![m] = says]
      /\ status' = [status EXCEPT ![Analyzed(m)] = "PENDING"]
      /\ mailState' = [mailState EXCEPT ![m] = "SUCCEEDED"]
      /\ processed' = processed \cup {Received(m)}
      /\ publisher' = [publisher EXCEPT !.pc = "publish", !.event = Received(m), !.answer = "NONE"]
      /\ UNCHANGED <<attempt, wait, requeued, notices>>
  BY <1>1, <1>2, <1>3, <1>4 DEF PersistAnalysis, StoreAnalysis, Delivered, Then
<1>6. EventInv'
  BY <1>4, <1>5, EventFacts, ConstantFacts DEF EventInv, PublisherInv
<1>7. PublisherInv'
  <2>1. Analyzed(m) \in Events
    BY <1>4, EventFacts
  <2>2. \A e \in publisher'.batch : status'[e] = "PENDING"
    BY <1>5, <2>1 DEF EventInv, PublisherInv
  <2> QED
    BY <1>4, <1>5, <2>2 DEF PublisherInv
<1>8. ChainInv'
  <2>1. says # "NONE" /\ says \in Suggestions \cup {"NONE"}
    BY <1>2 DEF Suggestions
  <2>2. Analyzed(m) \notin processed
    BY <1>4, EventFacts DEF EventInv
  <2> QED
    BY <1>1, <1>4, <1>5, <2>1, <2>2, EventFacts DEF ChainInv, EventInv
<1> QED
  BY <1>6, <1>7, <1>8

LEMMA MarkAnalysisFailureInv == OutboxInv /\ MarkAnalysisFailure => OutboxInv'
<1> SUFFICES ASSUME OutboxInv, MarkAnalysisFailure PROVE OutboxInv'
  OBVIOUS
<1> USE DEF OutboxInv
<1>1. PICK m \in JobMails : publisher.event = Received(m) /\ Received(m) \notin processed
  BY DEF MarkAnalysisFailure, PublisherInv
<1>2. PICK to \in {"FAILED", "RETRY_WAIT"} : mailState' = [mailState EXCEPT ![m] = to]
  <2>1. mailState' = [mailState EXCEPT ![m] =
                        IF publisher.answer = "TERMINAL" THEN "FAILED" ELSE "RETRY_WAIT"]
    BY <1>1 DEF MarkAnalysisFailure, Subject, Received
  <2>2. CASE publisher.answer = "TERMINAL"
    BY <2>1, <2>2
  <2>3. CASE publisher.answer # "TERMINAL"
    BY <2>1, <2>3
  <2> QED
    BY <2>2, <2>3
<1>3. /\ publisher' = [publisher EXCEPT !.pc = "fail"]
      /\ UNCHANGED <<status, attempt, wait, processed, requeued, suggestion, notices>>
  BY DEF MarkAnalysisFailure, eventVars
<1>4. EventInv'
  BY <1>3 DEF EventInv
<1>5. PublisherInv'
  BY <1>3 DEF PublisherInv, MarkAnalysisFailure
<1>6. ChainInv'
  BY <1>1, <1>2, <1>3, ConstantFacts DEF ChainInv
<1> QED
  BY <1>4, <1>5, <1>6

LEMMA RouteAnalysisInv ==
  ASSUME NEW m \in MailIds, OutboxInv, RouteAnalysis(m)
  PROVE  OutboxInv'
<1> USE DEF OutboxInv
<1>1. /\ Analyzed(m) \in publisher.batch /\ Analyzed(m) \notin processed
      /\ Analyzed(m) \in Events /\ Created(m) \in Events
      /\ processed' = processed \cup {Analyzed(m)}
      /\ publisher' = [publisher EXCEPT !.pc = "publish", !.event = Analyzed(m), !.answer = "NONE"]
      /\ UNCHANGED <<attempt, wait, requeued, mailState, suggestion>>
  BY EventFacts DEF RouteAnalysis, Delivering, Analyzed, Delivered, Then
<1>2. /\ status[Analyzed(m)] = "PENDING" /\ status[Created(m)] = "NONE"
      /\ suggestion[m] \in Suggestions
  BY <1>1 DEF PublisherInv, ChainInv
<1>3. CASE suggestion[m] = "UPDATE"
  <2>1. status' = [status EXCEPT ![Created(m)] = "PENDING"] /\ notices' = notices
    BY <1>3 DEF RouteAnalysis, Route
  <2>2. EventInv'
    BY <1>1, <1>2, <2>1, ConstantFacts DEF EventInv
  <2>3. PublisherInv'
    <3>1. \A e \in publisher'.batch : status'[e] = "PENDING"
      BY <1>1, <2>1 DEF EventInv, PublisherInv
    <3> QED
      BY <1>1, <3>1 DEF PublisherInv
  <2>4. ChainInv'
    BY <1>1, <1>2, <1>3, <2>1, EventFacts DEF ChainInv, EventInv
  <2> QED
    BY <2>2, <2>3, <2>4
<1>4. CASE suggestion[m] = "INFORM"
  <2>1. status' = status /\ notices' = [notices EXCEPT ![Analyzed(m)] = @ + 1]
    BY <1>4 DEF RouteAnalysis, Route
  <2>2. EventInv'
    BY <1>1, <1>2, <2>1 DEF EventInv
  <2>3. PublisherInv'
    BY <1>1, <1>2, <2>1 DEF PublisherInv
  <2>4. ChainInv'
    BY <1>1, <1>2, <1>4, <2>1, EventFacts DEF ChainInv, EventInv
  <2> QED
    BY <2>2, <2>3, <2>4
<1> QED
  BY <1>2, <1>3, <1>4 DEF Suggestions

LEMMA AskForConfirmationInv ==
  ASSUME NEW m \in MailIds, OutboxInv, AskForConfirmation(m)
  PROVE  OutboxInv'
<1> USE DEF OutboxInv
<1>1. /\ Created(m) \in publisher.batch /\ Created(m) \notin processed /\ Created(m) \in Events
      /\ notices' = [notices EXCEPT ![Created(m)] = @ + 1]
      /\ processed' = processed \cup {Created(m)}
      /\ publisher' = [publisher EXCEPT !.pc = "publish", !.event = Created(m), !.answer = "NONE"]
      /\ UNCHANGED <<status, attempt, wait, requeued, mailState, suggestion>>
  BY EventFacts DEF AskForConfirmation, Delivering, Created, Delivered, Then
<1>2. EventInv'
  BY <1>1 DEF EventInv, PublisherInv
<1>3. PublisherInv'
  BY <1>1, EventFacts DEF PublisherInv
<1>4. ChainInv'
  BY <1>1, EventFacts DEF ChainInv, EventInv
<1> QED
  BY <1>2, <1>3, <1>4

LEMMA RetryOutboxEventInv ==
  ASSUME NEW e \in Events, OutboxInv, RetryOutboxEvent(e)
  PROVE  OutboxInv'
<1> USE DEF OutboxInv
<1>1. EventInv'
  BY ConstantFacts DEF EventInv, RetryOutboxEvent
<1>2. PublisherInv'
  BY DEF PublisherInv, EventInv, RetryOutboxEvent
<1>3. ChainInv'
  BY EventFacts DEF ChainInv, EventInv, RetryOutboxEvent
<1> QED
  BY <1>1, <1>2, <1>3

LEMMA EventRetryTimeComesInv ==
  ASSUME NEW e \in Events, OutboxInv, EventRetryTimeComes(e)
  PROVE  OutboxInv'
BY DEF OutboxInv, EventInv, PublisherInv, ChainInv, EventRetryTimeComes

LEMMA OutboxStepInv ==
  ASSUME OutboxInv, PublisherStep \/ OperatorStep
  PROVE  OutboxInv'
<1>1. CASE SelectBatch
  BY <1>1, SelectBatchInv
<1>2. CASE MarkPublished
  BY <1>2, MarkPublishedInv
<1>3. CASE MarkFailed
  BY <1>3, MarkFailedInv
<1>4. CASE PersistAnalysis
  BY <1>4, PersistAnalysisInv
<1>5. CASE MarkAnalysisFailure
  BY <1>5, MarkAnalysisFailureInv
<1>6. CASE \E e \in Events : DeliverAgain(e)
  BY <1>6, DeliverAgainInv
<1>7. ASSUME NEW m \in MailIds,
             ClassifyNonJob(m) \/ RouteAnalysis(m) \/ AskForConfirmation(m)
      PROVE  OutboxInv'
  BY <1>7, ClassifyNonJobInv, RouteAnalysisInv, AskForConfirmationInv
<1>8. ASSUME NEW m \in MailIds, NEW answer \in Answers, CallLLM(m, answer)
      PROVE  OutboxInv'
  BY <1>8, CallLLMInv
<1>9. CASE OperatorStep
  BY <1>9, RetryOutboxEventInv DEF OperatorStep
<1> QED
  BY <1>1, <1>2, <1>3, <1>4, <1>5, <1>6, <1>7, <1>8, <1>9 DEF PublisherStep

-----------------------------------------------------------------------------
(* The pipeline.                                                           *)

LEMMA InitInv == Init => Inv
<1> SUFFICES ASSUME Init PROVE Inv
  OBVIOUS
<1>1. PollInv /\ OutboxInv
  BY PollInitInv, OutboxInitInv DEF Init
<1>2. \A key \in Keys : ~Stored(key) /\ status[Received(key)] = "NONE"
  BY EventFacts, ConstantFacts DEF Init, PollInit, OutboxInit, Stored
<1>3. form \in [Letters -> Forms] /\ lastError \in BOOLEAN
  BY DEF Init, PollInit, Forms
<1>4. crashes \in 0 .. MaxCrashes
  BY ConstantFacts DEF Init
<1> QED
  BY <1>1, <1>2, <1>3, <1>4 DEF Inv

\* The events of a mail leave the place NONE together with its row.
LEMMA ReceivedStays ==
  ASSUME OutboxInv, PublisherStep \/ OperatorStep, NEW key \in Keys
  PROVE  status'[Received(key)] = "NONE" <=> status[Received(key)] = "NONE"
<1> USE DEF OutboxInv
<1>1. key \in MailIds /\ Received(key) \in Events
  BY ConstantFacts, EventFacts
<1>2. CASE UNCHANGED status
  BY <1>2
<1>3. CASE MarkPublished \/ MarkFailed
  <2>1. PICK e \in Events : e = publisher.event /\ status[e] = "PENDING"
    BY <1>3, NextEventFacts DEF MarkPublished, MarkFailed
  <2>2. \A f \in Events : f # e => status'[f] = status[f]
    BY <1>3, <2>1 DEF MarkPublished, MarkFailed, EventInv
  <2>3. status'[e] # "NONE"
    BY <1>3, <2>1 DEF MarkPublished, MarkFailed, EventInv
  <2> QED
    BY <1>1, <2>1, <2>2, <2>3
<1>4. CASE PersistAnalysis
  <2>1. PICK m \in JobMails : publisher.event = Received(m)
    BY <1>4 DEF PersistAnalysis, PublisherInv
  <2>2. Subject = m /\ m \in MailIds
    BY <2>1, ConstantFacts DEF Subject, Received
  <2> QED
    BY <1>1, <1>4, <2>2, EventFacts DEF PersistAnalysis, StoreAnalysis, EventInv
<1>5. ASSUME NEW m \in MailIds, RouteAnalysis(m)
      PROVE  status'[Received(key)] = "NONE" <=> status[Received(key)] = "NONE"
  BY <1>1, <1>5, EventFacts DEF RouteAnalysis, Route, EventInv
<1>6. CASE OperatorStep
  BY <1>1, <1>6 DEF OperatorStep, RetryOutboxEvent, EventInv
<1>7. PublisherStep => \/ UNCHANGED status \/ MarkPublished \/ MarkFailed \/ PersistAnalysis
                       \/ \E m \in MailIds : RouteAnalysis(m)
  BY DEF PublisherStep, SelectBatch, MarkAnalysisFailure, DeliverAgain, ClassifyNonJob,
     AskForConfirmation, CallLLM, eventVars
<1> QED
  BY <1>2, <1>3, <1>4, <1>5, <1>6, <1>7

LEMMA IngestMailInv == Inv /\ IngestMail => Inv'
<1> SUFFICES ASSUME Inv, IngestMail PROVE Inv'
  OBVIOUS
<1> USE DEF Inv
<1>1. PICK c : c = Current
  OBVIOUS
<1>2. c \in poller.batch /\ c.key \in Keys
  BY <1>1, CurrentInBatch DEF IngestMail, Ingested, PollInv, PollerInv
<1>3. PollInv'
  BY IngestedInv DEF IngestMail
<1>4. CASE Stored(c.key)
  <2>1. mails' = mails /\ UNCHANGED outboxVars
    BY <1>1, <1>4 DEF IngestMail, Ingested
  <2>2. OutboxInv'
    BY <2>1, OutboxStutters
  <2>3. \A key \in Keys : Stored(key)' <=> status'[Received(key)] # "NONE"
    BY <2>1 DEF Stored, outboxVars, eventVars
  <2> QED
    BY <1>3, <2>2, <2>3 DEF IngestMail, Ingested, folderVars
<1>5. CASE ~Stored(c.key)
  <2>1. mails' = mails \cup {c} /\ MailReceived(c.key)
    BY <1>1, <1>5 DEF IngestMail, Ingested
  <2>2. status[Received(c.key)] = "NONE" /\ c.key \in MailIds
    BY <1>2, <1>5, ConstantFacts
  <2>3. OutboxInv'
    BY <2>1, <2>2, MailReceivedInv
  <2>4. status' = [status EXCEPT ![Received(c.key)] = "PENDING"]
    BY <2>1 DEF MailReceived
  <2>5. ASSUME NEW key \in Keys
        PROVE  Stored(key)' <=> status'[Received(key)] # "NONE"
    <3>1. CASE key = c.key
      BY <2>1, <2>2, <2>4, <3>1, EventFacts DEF Stored, OutboxInv, EventInv
    <3>2. CASE key # c.key
      <4>1. Stored(key)' <=> Stored(key)
        BY <2>1, <3>2 DEF Stored
      <4>2. status'[Received(key)] = status[Received(key)]
        BY <2>2, <2>4, <3>2, EventFacts, ConstantFacts DEF OutboxInv, EventInv
      <4> QED
        BY <4>1, <4>2
    <3> QED
      BY <3>1, <3>2
  <2> QED
    BY <1>3, <2>3, <2>5 DEF IngestMail, Ingested, folderVars
<1> QED
  BY <1>4, <1>5

\* Every step keeps the invariant.
LEMMA NextInv == Inv /\ [Next]_vars => Inv'
<1> SUFFICES ASSUME Inv, [Next]_vars PROVE Inv'
  OBVIOUS
<1>1. ASSUME PollInv', UNCHANGED <<outboxVars, crashes, mails>>,
             form' \in [Letters -> Forms], lastError' \in BOOLEAN
      PROVE  Inv'
  <2>1. OutboxInv'
    BY <1>1, OutboxStutters DEF Inv
  <2>2. \A key \in Keys : Stored(key)' <=> status'[Received(key)] # "NONE"
    BY <1>1 DEF Inv, Stored, outboxVars, eventVars
  <2> QED
    BY <1>1, <2>1, <2>2 DEF Inv
<1>2. ASSUME OutboxInv', UNCHANGED <<pollVars, crashes>>,
             \A key \in Keys : status'[Received(key)] = "NONE" <=> status[Received(key)] = "NONE"
      PROVE  Inv'
  <2>1. PollInv'
    BY <1>2, PollStutters DEF Inv, pollVars
  <2>2. \A key \in Keys : Stored(key)' <=> status'[Received(key)] # "NONE"
    BY <1>2 DEF Inv, Stored, pollVars
  <2> QED
    BY <1>2, <2>1, <2>2 DEF Inv, pollVars, folderVars
<1>3. CASE IngestMail
  BY <1>3, IngestMailInv
<1>4. CASE PollStep /\ UNCHANGED <<outboxVars, crashes>>
  <2>1. ASSUME PollFails PROVE PollInv'
    <3>1. PollInv /\ UNCHANGED <<folderVars, cursor, mails, poller, history>>
      BY <2>1 DEF PollFails, Inv
    <3> QED
      BY <3>1, PollStutters
  <2>2. ASSUME PollEscapes PROVE PollInv'
    <3>1. /\ PollInv /\ UNCHANGED <<folderVars, cursor, mails, history>>
          /\ poller' = [PollIdle EXCEPT !.pc = "stopped"]
      BY <2>2 DEF PollEscapes, Inv
    <3> QED
      BY <3>1, PollerDies
  <2>3. PollInv'
    BY <1>4, <2>1, <2>2, PollResetsInv, PollFetchesInv, SaveCursorInv DEF PollStep, Inv
  <2>4. UNCHANGED <<mails, form>> /\ lastError' \in BOOLEAN
    <3>1. UNCHANGED <<mails, folderVars>> /\ lastError' \in {lastError, TRUE, FALSE}
      BY <1>4 DEF PollStep, PollResets, PollFetches, PollFails, PollEscapes, SaveCursor
    <3> QED
      BY <3>1 DEF folderVars, Inv
  <2> QED
    BY <1>1, <1>4, <2>3, <2>4 DEF Inv
<1>5. CASE FolderStep /\ UNCHANGED <<outboxVars, crashes>>
  <2>1. PollInv'
    BY <1>5, ConstantFacts, MailArrivesInv, MailDeletedInv, RenumberInv DEF FolderStep, Inv
  <2>2. UNCHANGED <<mails, lastError>> /\ form' \in [Letters -> Forms]
    BY <1>5, ConstantFacts DEF FolderStep, MailArrives, MailDeleted, Renumber, Inv
  <2> QED
    BY <1>1, <1>5, <2>1, <2>2 DEF Inv
<1>6. CASE OutboxStep \/ (OperatorStep /\ UNCHANGED <<pollVars, crashes>>)
  <2>1. OutboxInv /\ (PublisherStep \/ OperatorStep) /\ UNCHANGED <<pollVars, crashes>>
    BY <1>6 DEF OutboxStep, Inv
  <2> QED
    BY <1>2, <2>1, OutboxStepInv, ReceivedStays
<1>7. CASE RetryTimeComes
  <2>1. OutboxInv' /\ UNCHANGED status
    BY <1>7, EventRetryTimeComesInv DEF RetryTimeComes, EventRetryTimeComes, Inv
  <2> QED
    BY <1>2, <1>7, <2>1 DEF RetryTimeComes
<1>8. CASE Crash
  <2>1. PollInv'
    BY <1>8, PollerDies DEF Crash, Inv
  <2>2. OutboxInv'
    BY <1>8, PublisherDies DEF Crash, Inv
  <2>3. \A key \in Keys : Stored(key)' <=> status'[Received(key)] # "NONE"
    BY <1>8 DEF Crash, Inv, Stored, eventVars
  <2>4. crashes' \in 0 .. MaxCrashes
    BY <1>8, ConstantFacts DEF Crash, Inv
  <2> QED
    BY <1>8, <2>1, <2>2, <2>3, <2>4 DEF Inv, Crash, folderVars
<1>9. CASE StartAgain
  <2>1. PollInv'
    BY <1>9, PollerDies DEF StartAgain, Inv
  <2>2. OutboxInv'
    BY <1>9, PublisherDies DEF StartAgain, Inv
  <2>3. \A key \in Keys : Stored(key)' <=> status'[Received(key)] # "NONE"
    BY <1>9 DEF StartAgain, Inv, Stored, eventVars
  <2> QED
    BY <1>9, <2>1, <2>2, <2>3 DEF Inv, StartAgain, folderVars
<1>10. CASE UNCHANGED vars
  BY <1>1, <1>10, PollStutters DEF vars, pollVars, folderVars, Inv
<1> QED
  BY <1>3, <1>4, <1>5, <1>6, <1>7, <1>8, <1>9, <1>10 DEF Next, PollerStep

-----------------------------------------------------------------------------
(* The theorems.                                                           *)

\* The invariant holds throughout, however polls, deliveries, crashes, the
\* operator and the folder's own changes interleave.
THEOREM InvAlways == Spec => []Inv
<1>1. Init => Inv
  BY InitInv
<1>2. Inv /\ [Next]_vars => Inv'
  BY NextInv
<1> QED
  BY <1>1, <1>2, PTL DEF Spec

\* The rows of both halves keep their types, no event is tried more often than
\* MAX_OUTBOX_ATTEMPTS allows, and a mail and its first event are stored
\* together (event_pipeline.py, ingest_mail of mail_service.py).
THEOREM TypeCorrect == Spec => []TypeOK
<1>1. Inv => TypeOK
  <2> SUFFICES ASSUME Inv PROVE TypeOK
    OBVIOUS
  <2> USE DEF Inv, PollInv, OutboxInv
  <2>1. PollTypeOK
    BY ConstantFacts DEF PollTypeOK, FolderInv, PollerInv, KeyInv, Cursors, Validities
  <2>2. OutboxTypeOK
    BY DEF OutboxTypeOK, EventInv, PublisherInv, ChainInv
  <2> QED
    BY <2>1, <2>2 DEF TypeOK
<1> QED
  BY <1>1, InvAlways, PTL

\* The cursor passes no mail that is neither stored nor older than a baseline
\* (mail_poller.py).
THEOREM NoMailSkippedAlways == Spec => []NoMailSkipped
<1>1. Inv => NoMailSkipped
  BY DEF Inv, PollInv, SkipInv
<1> QED
  BY <1>1, InvAlways, PTL

\* A mail that no baseline has put into the past has one row at most, however
\* often its batch is fetched again (ingest_mail and its unique key).
THEOREM StoredOnceAlways == Spec => []StoredOnce
<1>1. Inv => StoredOnce
  <2> SUFFICES ASSUME Inv, NEW m \in Letters \ history PROVE Cardinality(RowsOf(m)) <= 1
    BY DEF StoredOnce
  <2>1. \A e, f \in RowsOf(m) : e = f
    BY DEF Inv, PollInv, OnceInv, Known, RowsOf
  <2>2. CASE RowsOf(m) = {}
    BY <2>2, FS_EmptySet
  <2>3. CASE RowsOf(m) # {}
    <3>1. PICK e \in RowsOf(m) : RowsOf(m) = {e}
      BY <2>1, <2>3
    <3> QED
      BY <3>1, FS_Singleton
  <2> QED
    BY <2>2, <2>3
<1> QED
  BY <1>1, InvAlways, PTL

\* A mail leads to one message to the user at most, whatever is delivered
\* twice (event_consumers.py and the markers of processed_events).
THEOREM OneNoticePerMailAlways == Spec => []OneNoticePerMail
<1>1. Inv => OneNoticePerMail
  <2> SUFFICES ASSUME Inv, NEW m \in MailIds
               PROVE  notices[Analyzed(m)] + notices[Created(m)] <= 1
    BY DEF OneNoticePerMail
  <2>1. Created(m) \in processed => suggestion[m] # "INFORM"
    BY EventFacts DEF Inv, OutboxInv, EventInv, ChainInv
  <2> QED
    BY <2>1 DEF Inv, OutboxInv, ChainInv
<1> QED
  BY <1>1, InvAlways, PTL

\* An event is processed, and published, only with what it leads to
\* (analyze_mail, the consumers, and mark_event_published).
THEOREM EffectsAreDurableAlways == Spec => []EffectsAreDurable
<1>1. Inv => EffectsAreDurable
  <2> SUFFICES ASSUME Inv, NEW m \in MailIds
               PROVE  /\ Received(m) \in processed =>
                           mailState[m] = "NON_JOB" \/ status[Analyzed(m)] # "NONE"
                      /\ Analyzed(m) \in processed =>
                           notices[Analyzed(m)] = 1 \/ status[Created(m)] # "NONE"
                      /\ Created(m) \in processed => notices[Created(m)] = 1
                      /\ \A type \in EventTypes :
                           status[<<type, m>>] = "PUBLISHED" => <<type, m>> \in processed
    BY DEF EffectsAreDurable
  <2>1. Received(m) \in processed => mailState[m] = "NON_JOB" \/ status[Analyzed(m)] # "NONE"
    BY DEF Inv, OutboxInv, ChainInv
  <2>2. Analyzed(m) \in processed => notices[Analyzed(m)] = 1 \/ status[Created(m)] # "NONE"
    <3>1. Analyzed(m) \in processed => suggestion[m] \in Suggestions
      BY EventFacts DEF Inv, OutboxInv, EventInv, ChainInv
    <3> QED
      BY <3>1 DEF Inv, OutboxInv, ChainInv, Suggestions
  <2>3. Created(m) \in processed => notices[Created(m)] = 1
    BY DEF Inv, OutboxInv, ChainInv
  <2>4. \A type \in EventTypes : status[<<type, m>>] = "PUBLISHED" => <<type, m>> \in processed
    BY DEF Inv, OutboxInv, EventInv, Events
  <2> QED
    BY <2>1, <2>2, <2>3, <2>4
<1> QED
  BY <1>1, InvAlways, PTL

-----------------------------------------------------------------------------
(* Refinement of MailOutcomes.                                             *)

\* A mail is dismissed for its vocabulary when its first event is processed, and
\* only job mails are analyzed.
DismissedInv ==
    \A m \in MailIds :
        /\ mailState[m] = "NON_JOB" => m \notin JobMails /\ Received(m) \in processed
        /\ suggestion[m] # "NONE" => m \in JobMails

LEMMA DismissedInit == Init => DismissedInv
BY DEF Init, OutboxInit, DismissedInv

LEMMA DismissedStep == Inv /\ DismissedInv /\ [Next]_vars => DismissedInv'
<1> SUFFICES ASSUME Inv, DismissedInv, [Next]_vars PROVE DismissedInv'
  OBVIOUS
<1>1. ASSUME NEW m \in MailIds, NEW x \in {"PENDING", "SUCCEEDED", "FAILED", "RETRY_WAIT"},
             mailState' = [mailState EXCEPT ![m] = x], processed \subseteq processed',
             \A l \in MailIds : suggestion'[l] = suggestion[l] \/ l \in JobMails
      PROVE  DismissedInv'
  BY <1>1 DEF DismissedInv, Inv, OutboxInv, ChainInv
<1>2. ASSUME UNCHANGED <<mailState, suggestion>>, processed \subseteq processed' PROVE DismissedInv'
  BY <1>2 DEF DismissedInv
<1>3. CASE IngestMail
  <2>1. CASE UNCHANGED outboxVars
    BY <1>2, <2>1 DEF outboxVars, eventVars
  <2>2. CASE MailReceived(Current.key)
    <3>1. Current.key \in MailIds
      BY <1>3, CurrentInBatch, ConstantFacts DEF IngestMail, Ingested, Inv, PollInv, PollerInv
    <3> QED
      BY <1>1, <2>2, <3>1 DEF MailReceived
  <2> QED
    BY <1>3, <2>1, <2>2 DEF IngestMail
<1>4. ASSUME NEW m \in MailIds, ClassifyNonJob(m) PROVE DismissedInv'
  BY <1>4 DEF ClassifyNonJob, DismissedInv, Inv, OutboxInv, ChainInv
<1>5. CASE PersistAnalysis \/ MarkAnalysisFailure
  <2>1. PICK m \in JobMails : publisher.event = Received(m)
    BY <1>5 DEF PersistAnalysis, MarkAnalysisFailure, Inv, OutboxInv, PublisherInv
  <2>2. Subject = m /\ m \in MailIds
    BY <2>1, ConstantFacts DEF Subject, Received
  <2>3. CASE PersistAnalysis
    <3>1. \A l \in MailIds : suggestion'[l] = suggestion[l] \/ l \in JobMails
      BY <2>2, <2>3 DEF PersistAnalysis, StoreAnalysis, Inv, OutboxInv, ChainInv
    <3> QED
      BY <1>1, <2>2, <2>3, <3>1 DEF PersistAnalysis
  <2>4. CASE MarkAnalysisFailure
    <3>1. UNCHANGED <<suggestion, processed>>
      BY <2>4 DEF MarkAnalysisFailure, eventVars
    <3>2. CASE publisher.answer = "TERMINAL"
      BY <1>1, <2>2, <2>4, <3>1, <3>2 DEF MarkAnalysisFailure
    <3>3. CASE publisher.answer # "TERMINAL"
      BY <1>1, <2>2, <2>4, <3>1, <3>3 DEF MarkAnalysisFailure
    <3> QED
      BY <3>2, <3>3
  <2> QED
    BY <1>5, <2>3, <2>4
<1>6. ASSUME NEW m \in MailIds, RouteAnalysis(m) \/ AskForConfirmation(m) PROVE DismissedInv'
  BY <1>2, <1>6 DEF RouteAnalysis, AskForConfirmation
<1>7. CASE UNCHANGED <<mailState, suggestion, processed>>
  BY <1>2, <1>7
<1> QED
  BY <1>3, <1>4, <1>5, <1>6, <1>7
  DEF Next, PollerStep, OutboxStep, PublisherStep, OperatorStep, RetryTimeComes, Crash, StartAgain,
      SelectBatch, MarkPublished, MarkFailed, DeliverAgain, CallLLM, RetryOutboxEvent,
      EventRetryTimeComes, vars, outboxVars, eventVars

\* Rows in the state they were in mean what they meant.
LEMMA OutcomeStutters ==
  ASSUME UNCHANGED <<mails, suggestion, notices>>,
         \A m \in MailIds :
            /\ mailState'[m] = "NON_JOB" <=> mailState[m] = "NON_JOB"
            /\ status'[Created(m)] = "NONE" <=> status[Created(m)] = "NONE"
  PROVE  UNCHANGED Outcome!vars
<1>1. \A m \in MailIds : Judgement(m)' = Judgement(m)
  BY DEF Judgement
<1> QED
  BY <1>1, ConstantFacts DEF Outcome!vars

LEMMA OutcomeInit == Init => Outcome!Init
BY EventFacts, ConstantFacts DEF Init, PollInit, OutboxInit, Outcome!Init, Judgement

\* ingest_mail stores a mail under a new key.
LEMMA IngestStores == Inv /\ DismissedInv /\ IngestMail => [Outcome!Next]_Outcome!vars
<1> SUFFICES ASSUME Inv, DismissedInv, IngestMail PROVE [Outcome!Next]_Outcome!vars
  OBVIOUS
<1>1. PICK c : c = Current
  OBVIOUS
<1>2. c \in [key : Keys, mail : Letters]
  BY <1>1, CurrentInBatch DEF IngestMail, Ingested, Inv, PollInv, PollerInv
<1>3. CASE Stored(c.key)
  <2>1. UNCHANGED <<mails, outboxVars>>
    BY <1>1, <1>3 DEF IngestMail, Ingested
  <2> QED
    BY <2>1, OutcomeStutters DEF outboxVars, eventVars
<1>4. CASE ~Stored(c.key)
  <2>1. mails' = mails \cup {c} /\ MailReceived(c.key)
    BY <1>1, <1>4 DEF IngestMail, Ingested
  <2>2. c.key \in MailIds /\ Received(c.key) \notin processed
    BY <1>2, <1>4, ConstantFacts, EventFacts DEF Inv, OutboxInv, EventInv
  <2>3. mailState[c.key] # "NON_JOB"
    BY <2>2 DEF DismissedInv
  <2>4. \A m \in MailIds : Judgement(m)' = Judgement(m)
    BY <2>1, <2>2, <2>3 DEF MailReceived, Judgement, Inv, OutboxInv, ChainInv
  <2>5. \A m \in MailIds : status'[Created(m)] = status[Created(m)]
    BY <2>1, <2>2, EventFacts DEF MailReceived, Inv, OutboxInv, EventInv
  <2>6. c = [key |-> c.key, mail |-> c.mail]
    BY <1>2
  <2>7. Outcome!Store(c.key, c.mail)
    BY <1>4, <2>1, <2>4, <2>5, <2>6, ConstantFacts
    DEF Outcome!Store, Outcome!Stored, Stored, MailReceived
  <2> QED
    BY <1>2, <2>7 DEF Outcome!Next
<1> QED
  BY <1>3, <1>4

\* analyze_mail judges a mail that has not been judged.
LEMMA AnalysisJudges ==
  ASSUME Inv, DismissedInv, UNCHANGED mails, NEW m \in MailIds,
         Received(m) \in publisher.batch, Received(m) \notin processed,
         UNCHANGED notices,
         \A l \in MailIds : status'[Created(l)] = status[Created(l)],
         NEW verdict \in {"NON_JOB", "INFORM", "UPDATE"},
         verdict = "NON_JOB" <=> m \notin JobMails,
         Judgement(m)' = verdict,
         \A l \in MailIds \ {m} : Judgement(l)' = Judgement(l)
  PROVE  Outcome!Next
<1>1. status[Received(m)] = "PENDING" /\ m \in Keys
  BY ConstantFacts DEF Inv, OutboxInv, PublisherInv
<1>2. Stored(m)
  BY <1>1 DEF Inv
<1>3. Judgement(m) = "OPEN"
  BY DEF Judgement, DismissedInv, Inv, OutboxInv, ChainInv
<1>4. Outcome!Judge(m, verdict)
  BY <1>1, <1>2, <1>3, ConstantFacts DEF Outcome!Judge, Outcome!Stored, Stored
<1> QED
  BY <1>1, <1>4 DEF Outcome!Next

LEMMA ClassifyJudges ==
  ASSUME Inv, DismissedInv, UNCHANGED mails, NEW m \in MailIds, ClassifyNonJob(m)
  PROVE  Outcome!Next
<1>1. Received(m) \in publisher.batch /\ Received(m) \notin processed /\ m \notin JobMails
  BY DEF ClassifyNonJob, Delivering, Received
<1>2. /\ mailState' = [mailState EXCEPT ![m] = "NON_JOB"]
      /\ UNCHANGED <<suggestion, notices, status>>
  BY DEF ClassifyNonJob
<1>3. Judgement(m)' = "NON_JOB" /\ \A l \in MailIds \ {m} : Judgement(l)' = Judgement(l)
  BY <1>2 DEF Judgement, Inv, OutboxInv, ChainInv
<1> QED
  BY <1>1, <1>2, <1>3, AnalysisJudges

LEMMA PersistJudges ==
  ASSUME Inv, DismissedInv, UNCHANGED mails, PersistAnalysis
  PROVE  Outcome!Next
<1>1. PICK m \in JobMails : publisher.event = Received(m) /\ Received(m) \notin processed
  BY DEF PersistAnalysis, Inv, OutboxInv, PublisherInv
<1>2. m \in MailIds /\ Subject = m /\ Received(m) \in publisher.batch
  BY <1>1, ConstantFacts DEF Subject, Received, PersistAnalysis, Inv, OutboxInv, PublisherInv
<1>3. publisher.answer \in {"INFORM", "UPDATE"}
  BY DEF PersistAnalysis, Inv, OutboxInv, PublisherInv, Suggestions
<1>4. /\ suggestion' = [suggestion EXCEPT ![m] = publisher.answer]
      /\ mailState' = [mailState EXCEPT ![m] = "SUCCEEDED"]
      /\ status' = [status EXCEPT ![Analyzed(m)] = IF suggestion[m] = "NONE" THEN "PENDING" ELSE @]
      /\ UNCHANGED notices
  BY <1>2 DEF PersistAnalysis, StoreAnalysis
<1>5. Judgement(m)' = publisher.answer /\ \A l \in MailIds \ {m} : Judgement(l)' = Judgement(l)
  BY <1>2, <1>3, <1>4 DEF Judgement, Inv, OutboxInv, ChainInv
<1>6. \A l \in MailIds : status'[Created(l)] = status[Created(l)]
  BY <1>2, <1>4, EventFacts DEF Inv, OutboxInv, EventInv
<1> QED
  BY <1>1, <1>2, <1>3, <1>4, <1>5, <1>6, AnalysisJudges

\* A message about a mail is one more of its messages, and of no other's.
Told(m) ==
    \A l \in MailIds :
        notices'[Analyzed(l)] + notices'[Created(l)] =
            notices[Analyzed(l)] + notices[Created(l)] + (IF l = m THEN 1 ELSE 0)

LEMMA NoticeTypes ==
  Inv => \A l \in MailIds : notices[Analyzed(l)] \in Nat /\ notices[Created(l)] \in Nat
BY EventFacts DEF Inv, OutboxInv, ChainInv

LEMMA TellsOnce ==
  ASSUME UNCHANGED <<mails, status>>, NEW m \in MailIds, Told(m),
         \A l \in MailIds : Judgement(l)' = Judgement(l),
         Judgement(m) = "INFORM" \/ status[Created(m)] # "NONE",
         \A l \in MailIds : notices[Analyzed(l)] \in Nat /\ notices[Created(l)] \in Nat,
         notices[Analyzed(m)] + notices[Created(m)] = 0
  PROVE  Outcome!Next
<1>1. [l \in Keys |-> notices[Analyzed(l)] + notices[Created(l)]]' =
        [[l \in Keys |-> notices[Analyzed(l)] + notices[Created(l)]] EXCEPT ![m] = 1]
  <2>1. ASSUME NEW l \in Keys
        PROVE  notices'[Analyzed(l)] + notices'[Created(l)] =
                 IF l = m THEN 1 ELSE notices[Analyzed(l)] + notices[Created(l)]
    BY ConstantFacts DEF Told
  <2> QED
    BY <2>1, ConstantFacts
<1>2. m \in Keys /\ Outcome!Tell(m)
  BY <1>1, ConstantFacts DEF Outcome!Tell
<1> QED
  BY <1>2 DEF Outcome!Next

\* consume_job_analyzed proposes the change of status, or tells the user.
LEMMA RouteTells ==
  ASSUME Inv, DismissedInv, UNCHANGED mails, NEW m \in MailIds, RouteAnalysis(m)
  PROVE  Outcome!Next
<1>1. Analyzed(m) \in publisher.batch /\ Analyzed(m) \notin processed
  BY DEF RouteAnalysis, Delivering, Analyzed
<1>2. status[Analyzed(m)] = "PENDING" /\ status[Created(m)] = "NONE"
  BY <1>1 DEF Inv, OutboxInv, PublisherInv, ChainInv
<1>3. /\ m \in Keys /\ Judgement(m) = suggestion[m] /\ suggestion[m] \in Suggestions
      /\ notices[Analyzed(m)] + notices[Created(m)] = 0
  <2>1. suggestion[m] \in Suggestions /\ mailState[m] # "NON_JOB"
    BY <1>2 DEF DismissedInv, Inv, OutboxInv, ChainInv
  <2>2. Created(m) \notin processed
    BY <1>2, EventFacts DEF Inv, OutboxInv, EventInv
  <2>3. notices[Analyzed(m)] = 0 /\ notices[Created(m)] = 0
    BY <1>1, <2>2 DEF Inv, OutboxInv, ChainInv
  <2> QED
    BY <2>1, <2>3, ConstantFacts DEF Judgement, Suggestions
<1>4. UNCHANGED <<mailState, suggestion>> /\ \A l \in MailIds : Judgement(l)' = Judgement(l)
  BY DEF RouteAnalysis, Judgement
<1>5. CASE suggestion[m] = "UPDATE"
  <2>1. status' = [status EXCEPT ![Created(m)] = "PENDING"] /\ UNCHANGED notices
    BY <1>5 DEF RouteAnalysis, Route
  <2>2. \A l \in MailIds : status'[Created(l)] = "NONE" <=> status[Created(l)] = "NONE" /\ l # m
    BY <1>2, <2>1, EventFacts DEF Inv, OutboxInv, EventInv
  <2>3. Outcome!Propose(m)
    BY <1>2, <1>3, <1>4, <1>5, <2>1, <2>2, ConstantFacts DEF Outcome!Propose
  <2> QED
    BY <1>3, <2>3 DEF Outcome!Next
<1>6. CASE suggestion[m] = "INFORM"
  <2>1. notices' = [notices EXCEPT ![Analyzed(m)] = @ + 1] /\ UNCHANGED status
    BY <1>6 DEF RouteAnalysis, Route
  <2>2. Told(m)
    BY <2>1, EventFacts DEF Told, Inv, OutboxInv, ChainInv
  <2> QED
    BY <1>3, <1>4, <1>6, <2>1, <2>2, NoticeTypes, TellsOnce
<1> QED
  BY <1>3, <1>5, <1>6 DEF Suggestions

\* consume_action_created asks the user to confirm what is proposed.
LEMMA AskTells ==
  ASSUME Inv, UNCHANGED mails, NEW m \in MailIds, AskForConfirmation(m)
  PROVE  Outcome!Next
<1>1. Created(m) \in publisher.batch /\ Created(m) \notin processed
  BY DEF AskForConfirmation, Delivering, Created
<1>2. status[Created(m)] = "PENDING"
  BY <1>1 DEF Inv, OutboxInv, PublisherInv
<1>3. m \in Keys /\ notices[Analyzed(m)] + notices[Created(m)] = 0
  <2>1. suggestion[m] = "UPDATE"
    BY <1>2 DEF Inv, OutboxInv, ChainInv
  <2> QED
    BY <1>1, <2>1, ConstantFacts DEF Inv, OutboxInv, ChainInv
<1>4. /\ notices' = [notices EXCEPT ![Created(m)] = @ + 1]
      /\ UNCHANGED <<status, mailState, suggestion>>
      /\ \A l \in MailIds : Judgement(l)' = Judgement(l)
  BY DEF AskForConfirmation, Judgement
<1>5. Told(m)
  BY <1>4, EventFacts DEF Told, Inv, OutboxInv, ChainInv
<1> QED
  BY <1>2, <1>3, <1>4, <1>5, NoticeTypes, TellsOnce

\* Every step of the pipeline is one of MailOutcomes, or a stutter.
LEMMA OutcomeNext == Inv /\ DismissedInv /\ [Next]_vars => [Outcome!Next]_Outcome!vars
<1> SUFFICES ASSUME Inv, DismissedInv, [Next]_vars PROVE [Outcome!Next]_Outcome!vars
  OBVIOUS
<1>1. CASE IngestMail
  BY <1>1, IngestStores
<1>2. CASE OutboxStep
  <2>1. UNCHANGED mails /\ PublisherStep
    BY <1>2 DEF OutboxStep, pollVars
  <2>2. CASE UNCHANGED <<status, mailState, suggestion, notices>>
    BY <2>1, <2>2, OutcomeStutters
  <2>3. CASE MarkPublished \/ MarkFailed
    <3>1. PICK e \in Events : e = publisher.event /\ status[e] = "PENDING"
      BY <2>3, NextEventFacts DEF MarkPublished, MarkFailed, Inv, OutboxInv
    <3>2. \A f \in Events : status'[f] = "NONE" <=> status[f] = "NONE"
      BY <2>3, <3>1 DEF MarkPublished, MarkFailed, Inv, OutboxInv, EventInv
    <3>3. UNCHANGED <<mailState, suggestion, notices>>
      BY <2>3 DEF MarkPublished, MarkFailed
    <3> QED
      BY <2>1, <3>2, <3>3, EventFacts, OutcomeStutters
  <2>4. CASE PersistAnalysis
    BY <2>1, <2>4, PersistJudges
  <2>5. CASE MarkAnalysisFailure
    <3>1. PICK m \in JobMails : publisher.event = Received(m)
      BY <2>5 DEF MarkAnalysisFailure, Inv, OutboxInv, PublisherInv
    <3>2. Subject = m /\ m \in MailIds /\ mailState[m] # "NON_JOB"
      BY <3>1, ConstantFacts DEF Subject, Received, DismissedInv
    <3>3. mailState' = [mailState EXCEPT ![m] =
                          IF publisher.answer = "TERMINAL" THEN "FAILED" ELSE "RETRY_WAIT"]
      BY <2>5, <3>2 DEF MarkAnalysisFailure
    <3>4. \A l \in MailIds : mailState'[l] = "NON_JOB" <=> mailState[l] = "NON_JOB"
      BY <3>2, <3>3 DEF Inv, OutboxInv, ChainInv
    <3>5. UNCHANGED <<status, suggestion, notices>>
      BY <2>5 DEF MarkAnalysisFailure, eventVars
    <3> QED
      BY <2>1, <3>4, <3>5, OutcomeStutters
  <2>6. ASSUME NEW m \in MailIds, ClassifyNonJob(m) \/ RouteAnalysis(m) \/ AskForConfirmation(m)
        PROVE  Outcome!Next
    BY <2>1, <2>6, ClassifyJudges, RouteTells, AskTells
  <2>7. \/ UNCHANGED <<status, mailState, suggestion, notices>>
        \/ MarkPublished \/ MarkFailed \/ PersistAnalysis \/ MarkAnalysisFailure
        \/ \E m \in MailIds : ClassifyNonJob(m) \/ RouteAnalysis(m) \/ AskForConfirmation(m)
    BY <2>1 DEF PublisherStep, SelectBatch, DeliverAgain, CallLLM, eventVars
  <2> QED
    BY <2>2, <2>3, <2>4, <2>5, <2>6, <2>7
<1>3. CASE OperatorStep /\ UNCHANGED <<pollVars, crashes>>
  <2>1. /\ \A e \in Events : status'[e] = "NONE" <=> status[e] = "NONE"
        /\ UNCHANGED <<mails, mailState, suggestion, notices>>
    BY <1>3 DEF OperatorStep, RetryOutboxEvent, pollVars, Inv, OutboxInv, EventInv
  <2> QED
    BY <2>1, EventFacts, OutcomeStutters
<1>4. CASE UNCHANGED <<mails, status, mailState, suggestion, notices>>
  BY <1>4, OutcomeStutters
<1>5. \/ IngestMail \/ OutboxStep
      \/ OperatorStep /\ UNCHANGED <<pollVars, crashes>>
      \/ UNCHANGED <<mails, status, mailState, suggestion, notices>>
  BY DEF Next, PollerStep, PollStep, PollResets, PollFetches, PollFails, PollEscapes, SaveCursor,
     FolderStep, MailArrives, MailDeleted, Renumber, RetryTimeComes, EventRetryTimeComes,
     StartAgain, Crash,
     vars, pollVars, outboxVars, eventVars
<1> QED
  BY <1>1, <1>2, <1>3, <1>4, <1>5

\* The pipeline, with its polls and baselines, batches, markers, retries, requeues
\* and deaths, keeps what MailOutcomes promises: a key is stored once, judged once,
\* and leads to one message, after its proposal if it is to have one.
THEOREM Refinement == Spec => ImplementsMailOutcomes
<1>1. Inv /\ DismissedInv /\ [Next]_vars => DismissedInv'
  BY DismissedStep
<1> QED
  BY <1>1, DismissedInit, OutcomeInit, OutcomeNext, InvAlways, PTL
  DEF Spec, ImplementsMailOutcomes, Outcome!Spec

=============================================================================
