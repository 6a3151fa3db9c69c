------------------------ MODULE EventForwarderProofs ------------------------
(***************************************************************************)
(* Theorems about EventForwarder, for every value of its constants.  Those *)
(* on acknowledgement and removal are about the names outside Raced: whose *)
(* files no writer replaces between the forwarder's identity check and its *)
(* rename or unlink, whatever happens to the files of other names.         *)
(***************************************************************************)
EXTENDS EventForwarder, TLAPS

Waiting == {"sleep", "next"}
Loaded  == pc \notin Waiting      \* an event has been read

(* The event in hand is one that was written; names still to be scanned    *)
(* have a file, and it stays until they are read.                          *)
ScanInv ==
  /\ ~Loaded => cur = Idle
  /\ Loaded => /\ cur.name \in Name
               /\ cur.id \in 1 .. writes[cur.name]
               /\ cur.name \notin todo
  /\ \A n \in todo : pending[n] # 0
  /\ pc = "upload" => cur.held # 0
  /\ pc = "move" => pending[cur.name] # 0

(* No version is known anywhere before it was written.                     *)
WrittenInv ==
  \A n \in Name :
    /\ pending[n] <= writes[n]
    /\ dead[n] <= writes[n]
    /\ sent[n] \subseteq 1 .. writes[n]
    /\ accepted[n] \subseteq 1 .. writes[n]

(* Only received FAXes need a document, and a bound one always does.       *)
ContentInv ==
  \A n \in Name : \A k \in Version :
    /\ content[n][k].needs => Kind[n] = "faxes"
    /\ Kind[n] = "faxes" /\ content[n][k].src # 0 => content[n][k].needs

(* What the forwarder has established about the event in hand.             *)
ProgressInv ==
  Loaded =>
    /\ cur.held # 0 => Event.src \in {0, cur.held}
    /\ pc = "inspect" => cur.held = 0 /\ cur.outcome = "none"
    /\ pc \in {"upload", "post"} => cur.outcome = "none"
    /\ pc = "upload" => cur.held # 0
    /\ pc = "move" => cur.outcome # "retry"
    /\ pc \in {"stat", "unlink"} => cur.outcome = "sent"
    /\ pc = "post" /\ Event.needs => cur.held # 0 /\ cur.held \in documents[cur.name]
    /\ cur.outcome = "sent" =>
         /\ cur.id \in accepted[cur.name]
         /\ Event.needs => cur.held # 0 /\ cur.held \in documents[cur.name]
    /\ pc \in {"stat", "unlink"} =>
         cur.held # 0 /\ Event.src = cur.held /\ Event.cleanup

(* Between an identity check and the operation it allows, the file is the  *)
(* one that was checked, unless it may be replaced just then.              *)
Unraced == Name \ Raced

WindowInv ==
  cur.name \notin Raced =>
    /\ pc = "move" => pending[cur.name] = cur.id
    /\ pc \in {"stat", "unlink"} => cur.id \in sent[cur.name]
    /\ pc = "unlink" => source[cur.name] = cur.held

FiledWasAccepted == \A n \in Unraced : sent[n] \subseteq accepted[n]

-----------------------------------------------------------------------------
(* The forwarder's locals                                                  *)

LEMMA LocalsFields ==
  ASSUME NEW l \in Locals
  PROVE  /\ l.name \in Name \cup {None} /\ l.id \in 0 .. MaxWrites
         /\ l.touched \in BOOLEAN /\ l.held \in 0 .. MaxSources
         /\ l.outcome \in Outcome
  BY DEF Locals

LEMMA IdleLocals == Idle \in Locals
  BY ConstantsAssumption DEF ConstantsAssumption, Locals, Idle, Outcome

LEMMA ReadLocals ==
  ASSUME NEW n \in Name, NEW k \in 0 .. MaxWrites, NEW t \in BOOLEAN
  PROVE  LET l == [name |-> n, id |-> k, touched |-> t, held |-> 0, outcome |-> "none"]
         IN  /\ l \in Locals
             /\ l.name = n /\ l.id = k /\ l.held = 0 /\ l.outcome = "none"
  BY ConstantsAssumption DEF ConstantsAssumption, Locals, Outcome

LEMMA HoldLocals ==
  ASSUME cur \in Locals, NEW v \in 0 .. MaxSources
  PROVE  /\ Holding(v) \in Locals
         /\ Holding(v).name = cur.name /\ Holding(v).id = cur.id
         /\ Holding(v).touched = cur.touched
         /\ Holding(v).held = v /\ Holding(v).outcome = cur.outcome
  BY DEF Locals, Holding

LEMMA AnswerLocals ==
  ASSUME cur \in Locals, NEW o \in Outcome
  PROVE  /\ Answered(o) \in Locals
         /\ Answered(o).name = cur.name /\ Answered(o).id = cur.id
         /\ Answered(o).touched = cur.touched
         /\ Answered(o).held = cur.held /\ Answered(o).outcome = o
  BY DEF Locals, Answered

LEMMA ContentOfType ==
  ASSUME ProducersTypeOK, NEW n \in Name, NEW c \in ContentOf(n)
  PROVE  /\ c \in Content
         /\ c.needs => Kind[n] = "faxes"
         /\ Kind[n] = "faxes" /\ c.src # 0 => c.needs
  BY ConstantsAssumption
     DEF ConstantsAssumption, ProducersTypeOK, ContentOf, Content, Blank, Kinds

-----------------------------------------------------------------------------
(* Types                                                                   *)

Typed == TypeOK /\ ScanInv /\ WrittenInv

LEMMA CurrentVersion ==
  ASSUME Typed, Loaded
  PROVE  cur.name \in Name /\ cur.id \in Version
<1>1. cur.name \in Name /\ cur.id \in 1 .. writes[cur.name]
  BY DEF Typed, ScanInv
<1>2. writes[cur.name] \in 0 .. MaxWrites
  BY <1>1 DEF Typed, TypeOK, ProducersTypeOK
<1> QED
  BY <1>1, <1>2, ConstantsAssumption DEF ConstantsAssumption, Version

LEMMA TypedInit == Init => Typed
  BY ConstantsAssumption, IdleLocals
     DEF ConstantsAssumption, Init, Typed, TypeOK, SpoolTypeOK, ProducersTypeOK,
         BackendTypeOK, ForwarderTypeOK, ReplayerTypeOK, Version, Source, Content,
         Blank, Control, ScanInv, WrittenInv, Loaded, Waiting

LEMMA TypeStep ==
  ASSUME Typed, [Next]_vars
  PROVE  TypeOK'
<1> USE ConstantsAssumption DEF ConstantsAssumption, Typed, TypeOK, SpoolTypeOK,
        ProducersTypeOK, BackendTypeOK, ForwarderTypeOK, ReplayerTypeOK
<1> USE DEF spool, producers, backend, forwarder, replayer
<1>1. CASE StartScan
  BY <1>1 DEF StartScan, Control
<1>2. CASE EndScan
  BY <1>2 DEF EndScan, Control
<1>3. CASE InspectSource
  <2> USE <1>3 DEF InspectSource
  <2>1. CASE NoSource
    BY <2>1 DEF NoSource, Control
  <2>2. CASE SourceRead
    <3>1. source[cur.name] \in 0 .. MaxSources
      BY DEF ScanInv, Loaded, Waiting
    <3> QED
      BY <2>2, <3>1, HoldLocals DEF SourceRead, Control
  <2>3. CASE SourceUnread
    BY <2>3, IdleLocals DEF SourceUnread, Skip, Control
  <2>4. CASE SourceDiffers
    BY <2>4, AnswerLocals DEF SourceDiffers, Control, Outcome
  <2> QED
    BY <2>1, <2>2, <2>3, <2>4
<1>4. CASE Recheck
  BY <1>4, IdleLocals DEF Recheck, Skip, Control
<1>5. CASE MoveFailed
  <2>1. pc' \in Control /\ todo' \in SUBSET Name /\ cur' \in Locals
    BY <1>5, IdleLocals DEF MoveFailed, Control
  <2> QED
    BY <1>5, <2>1 DEF MoveFailed
<1>6. CASE StatSource
  BY <1>6, IdleLocals DEF StatSource, Skip, Control
<1>7. CASE UnlinkSource
  <2>1. pc' \in Control /\ cur' \in Locals
    BY <1>7, IdleLocals DEF UnlinkSource, Skip, Control
  <2>2. source' \in [Name -> 0 .. MaxSources]
    <3>1. 0 \in 0 .. MaxSources /\ source \in [Name -> 0 .. MaxSources]
      OBVIOUS
    <3> QED
      BY <1>7, <3>1 DEF UnlinkSource
  <2> QED
    BY <1>7, <2>1, <2>2 DEF UnlinkSource
<1>8. CASE Crash
  BY <1>8, IdleLocals DEF Crash, Control
<1>9. ASSUME NEW n \in Name, ReadEvent(n) PROVE TypeOK'
  BY <1>9, ReadLocals DEF ReadEvent, Control
<1>10. ASSUME NEW n \in Name, UploadAccepted(n) PROVE TypeOK'
  <2>1. cur.held \in Source
    BY <1>10, LocalsFields DEF UploadAccepted, ScanInv, Source
  <2> QED
    BY <1>10, <2>1 DEF UploadAccepted, Control
<1>11. ASSUME NEW n \in Name, UploadFailed(n) PROVE TypeOK'
  <2>1. cur.held \in Source
    BY <1>11, LocalsFields DEF UploadFailed, ScanInv, Source
  <2> QED
    BY <1>11, <2>1, AnswerLocals DEF UploadFailed, Control, Outcome
<1>12. ASSUME NEW n \in Name, PostAccepted(n) PROVE TypeOK'
  <2>1. cur.id \in Version
    BY <1>12 DEF PostAccepted, ScanInv, Loaded, Waiting, Version
  <2> QED
    BY <1>12, <2>1, AnswerLocals DEF PostAccepted, Control, Outcome
<1>13. ASSUME NEW n \in Name, PostFailed(n) PROVE TypeOK'
  <2>1. cur.id \in Version
    BY <1>13 DEF PostFailed, ScanInv, Loaded, Waiting, Version
  <2> QED
    BY <1>13, <2>1, AnswerLocals DEF PostFailed, Control, Outcome
<1>14. ASSUME NEW n \in Name, MoveToSent(n) PROVE TypeOK'
  <2>1. pending[n] \in Version
    BY <1>14 DEF MoveToSent, ScanInv, Version
  <2> QED
    BY <1>14, <2>1, IdleLocals DEF MoveToSent, Leave, Skip, Control
<1>15. ASSUME NEW n \in Name, MoveToDeadLetter(n) PROVE TypeOK'
  <2>1. pending[n] \in Version /\ Version = 1 .. MaxWrites
    BY <1>15 DEF MoveToDeadLetter, ScanInv, Version
  <2>2. pending' \in [Name -> 0 .. MaxWrites] /\ touched' \in [Name -> BOOLEAN]
    <3>1. pending' = [pending EXCEPT ![n] = 0] /\ touched' = [touched EXCEPT ![n] = FALSE]
      BY <1>15 DEF MoveToDeadLetter, Leave
    <3> QED
      BY <3>1
  <2>3. dead' \in [Name -> 0 .. MaxWrites] /\ deadCopies' \in [Name -> SUBSET Version]
    <3>1. dead' \in {dead, [dead EXCEPT ![n] = pending[n]]}
      BY <1>15 DEF MoveToDeadLetter
    <3>2. deadCopies' \in {deadCopies, [deadCopies EXCEPT ![n] = @ \cup {pending[n]}]}
      BY <1>15 DEF MoveToDeadLetter
    <3>3. dead' \in [Name -> 0 .. MaxWrites]
      BY <2>1, <3>1
    <3>4. deadCopies[n] \cup {pending[n]} \in SUBSET Version
      BY <2>1
    <3>5. [deadCopies EXCEPT ![n] = @ \cup {pending[n]}] \in [Name -> SUBSET Version]
      BY <3>4
    <3> QED
      BY <3>2, <3>3, <3>5
  <2>4. pc' \in Control /\ cur' \in Locals
    BY <1>15, IdleLocals DEF MoveToDeadLetter, Skip, Control
  <2> QED
    BY <1>15, <2>2, <2>3, <2>4 DEF MoveToDeadLetter
<1>16. ASSUME NEW n \in Name, WriteSource(n) PROVE TypeOK'
  BY <1>16 DEF WriteSource
<1>17. ASSUME NEW n \in Name, WriteEvent(n) PROVE TypeOK'
  <2>1. PICK c \in ContentOf(n) : content' = [content EXCEPT ![n][writes[n] + 1] = c]
    BY <1>17 DEF WriteEvent
  <2>2. c \in Content
    BY ContentOfType
  <2>3. content' \in [Name -> [Version -> Content]]
    BY <2>1, <2>2
  <2> QED
    BY <1>17, <2>3 DEF WriteEvent
<1>18. ASSUME NEW n \in Name, ReplayLink(n) PROVE TypeOK'
  BY <1>18 DEF ReplayLink
<1>19. ASSUME NEW n \in Name, ReplayUnlink(n) PROVE TypeOK'
  BY <1>19 DEF ReplayUnlink
<1>20. ASSUME NEW n \in Name, ReplayTorn(n) PROVE TypeOK'
  BY <1>20 DEF ReplayTorn
<1>21. CASE UNCHANGED vars
  BY <1>21 DEF vars
<1> QED
  BY <1>1, <1>2, <1>3, <1>4, <1>5, <1>6, <1>7, <1>8, <1>9, <1>10, <1>11,
     <1>12, <1>13, <1>14, <1>15, <1>16, <1>17, <1>18, <1>19, <1>20, <1>21
     DEF Next, ForwarderStep, Environment

LEMMA ScanStep ==
  ASSUME Typed, [Next]_vars
  PROVE  ScanInv'
<1> USE DEF Typed, TypeOK, SpoolTypeOK, ProducersTypeOK, ForwarderTypeOK,
        ReplayerTypeOK, ScanInv, Loaded, Waiting
<1> USE DEF spool, producers, backend, forwarder, replayer
<1>1. CASE StartScan
  BY <1>1 DEF StartScan
<1>2. CASE EndScan
  BY <1>2 DEF EndScan
<1>3. CASE InspectSource
  <2> USE <1>3 DEF InspectSource
  <2>1. CASE NoSource
    BY <2>1 DEF NoSource
  <2>2. CASE SourceRead
    BY <2>2, HoldLocals DEF SourceRead
  <2>3. CASE SourceUnread
    BY <2>3 DEF SourceUnread, Skip
  <2>4. CASE SourceDiffers
    BY <2>4, AnswerLocals DEF SourceDiffers, Outcome
  <2> QED
    BY <2>1, <2>2, <2>3, <2>4
<1>4. CASE Recheck
  BY <1>4 DEF Recheck, Skip, SameIdentity, WrittenInv
<1>5. CASE MoveFailed
  BY <1>5 DEF MoveFailed
<1>6. CASE StatSource
  BY <1>6 DEF StatSource, Skip
<1>7. CASE UnlinkSource
  BY <1>7 DEF UnlinkSource, Skip
<1>8. CASE Crash
  BY <1>8 DEF Crash
<1>9. ASSUME NEW n \in Name, ReadEvent(n) PROVE ScanInv'
  BY <1>9, ReadLocals DEF ReadEvent, WrittenInv
<1>10. ASSUME NEW n \in Name, UploadAccepted(n) PROVE ScanInv'
  BY <1>10 DEF UploadAccepted
<1>11. ASSUME NEW n \in Name, UploadFailed(n) PROVE ScanInv'
  BY <1>11, AnswerLocals DEF UploadFailed, Outcome
<1>12. ASSUME NEW n \in Name, PostAccepted(n) PROVE ScanInv'
  BY <1>12, AnswerLocals DEF PostAccepted, Outcome
<1>13. ASSUME NEW n \in Name, PostFailed(n) PROVE ScanInv'
  BY <1>13, AnswerLocals DEF PostFailed, Outcome
<1>14. ASSUME NEW n \in Name, MoveToSent(n) PROVE ScanInv'
  BY <1>14 DEF MoveToSent, Leave, Skip
<1>15. ASSUME NEW n \in Name, MoveToDeadLetter(n) PROVE ScanInv'
  BY <1>15 DEF MoveToDeadLetter, Leave, Skip
<1>16. ASSUME NEW n \in Name, WriteSource(n) PROVE ScanInv'
  BY <1>16 DEF WriteSource
<1>17. ASSUME NEW n \in Name, WriteEvent(n) PROVE ScanInv'
  BY <1>17 DEF WriteEvent
<1>18. ASSUME NEW n \in Name, ReplayLink(n) PROVE ScanInv'
  BY <1>18 DEF ReplayLink
<1>19. ASSUME NEW n \in Name, ReplayUnlink(n) PROVE ScanInv'
  BY <1>19 DEF ReplayUnlink
<1>20. ASSUME NEW n \in Name, ReplayTorn(n) PROVE ScanInv'
  BY <1>20 DEF ReplayTorn
<1>21. CASE UNCHANGED vars
  BY <1>21 DEF vars
<1> QED
  BY <1>1, <1>2, <1>3, <1>4, <1>5, <1>6, <1>7, <1>8, <1>9, <1>10, <1>11,
     <1>12, <1>13, <1>14, <1>15, <1>16, <1>17, <1>18, <1>19, <1>20, <1>21
     DEF Next, ForwarderStep, Environment

LEMMA WrittenStep ==
  ASSUME Typed, [Next]_vars
  PROVE  WrittenInv'
<1> USE DEF Typed, TypeOK, SpoolTypeOK, ProducersTypeOK, BackendTypeOK,
        ForwarderTypeOK, WrittenInv, Version
<1> USE DEF spool, producers, backend, forwarder, replayer
<1>1. CASE StartScan
  BY <1>1 DEF StartScan
<1>2. CASE EndScan
  BY <1>2 DEF EndScan
<1>3. CASE InspectSource
  BY <1>3 DEF InspectSource
<1>4. CASE Recheck
  BY <1>4 DEF Recheck
<1>5. CASE MoveFailed
  BY <1>5 DEF MoveFailed
<1>6. CASE StatSource
  BY <1>6 DEF StatSource
<1>7. CASE UnlinkSource
  BY <1>7 DEF UnlinkSource
<1>8. CASE Crash
  BY <1>8 DEF Crash
<1>9. ASSUME NEW n \in Name, ReadEvent(n) PROVE WrittenInv'
  BY <1>9 DEF ReadEvent
<1>10. ASSUME NEW n \in Name, UploadAccepted(n) PROVE WrittenInv'
  BY <1>10 DEF UploadAccepted
<1>11. ASSUME NEW n \in Name, UploadFailed(n) PROVE WrittenInv'
  BY <1>11 DEF UploadFailed
<1>12. ASSUME NEW n \in Name, PostAccepted(n) PROVE WrittenInv'
  BY <1>12 DEF PostAccepted, ScanInv, Loaded, Waiting
<1>13. ASSUME NEW n \in Name, PostFailed(n) PROVE WrittenInv'
  BY <1>13 DEF PostFailed, ScanInv, Loaded, Waiting
<1>14. ASSUME NEW n \in Name, MoveToSent(n) PROVE WrittenInv'
  BY <1>14 DEF MoveToSent, Leave, ScanInv
<1>15. ASSUME NEW n \in Name, MoveToDeadLetter(n) PROVE WrittenInv'
  BY <1>15 DEF MoveToDeadLetter, Leave
<1>16. ASSUME NEW n \in Name, WriteSource(n) PROVE WrittenInv'
  BY <1>16 DEF WriteSource
<1>17. ASSUME NEW n \in Name, WriteEvent(n) PROVE WrittenInv'
  BY <1>17 DEF WriteEvent
<1>18. ASSUME NEW n \in Name, ReplayLink(n) PROVE WrittenInv'
  BY <1>18 DEF ReplayLink
<1>19. ASSUME NEW n \in Name, ReplayUnlink(n) PROVE WrittenInv'
  BY <1>19 DEF ReplayUnlink
<1>20. ASSUME NEW n \in Name, ReplayTorn(n) PROVE WrittenInv'
  BY <1>20 DEF ReplayTorn
<1>21. CASE UNCHANGED vars
  BY <1>21 DEF vars
<1> QED
  BY <1>1, <1>2, <1>3, <1>4, <1>5, <1>6, <1>7, <1>8, <1>9, <1>10, <1>11,
     <1>12, <1>13, <1>14, <1>15, <1>16, <1>17, <1>18, <1>19, <1>20, <1>21
     DEF Next, ForwarderStep, Environment

(* Every variable keeps its type: in particular nothing but a version that *)
(* was written is ever filed, acknowledged or replayed, and nothing but a  *)
(* TIFF that was read is stored by the backend.                            *)
THEOREM TypeCorrect == Spec => []TypeOK
<1>1. Init => Typed
  BY TypedInit
<1>2. Typed /\ [Next]_vars => Typed'
  BY TypeStep, ScanStep, WrittenStep DEF Typed
<1>3. Typed => TypeOK
  BY DEF Typed
<1> QED
  BY <1>1, <1>2, <1>3, PTL DEF Spec

-----------------------------------------------------------------------------
(* Acknowledgement and removal                                             *)

LEMMA ContentStep ==
  ASSUME Typed, ContentInv, [Next]_vars
  PROVE  ContentInv'
<1> USE DEF Typed, TypeOK, SpoolTypeOK, ProducersTypeOK, BackendTypeOK,
        ForwarderTypeOK, ContentInv, Version
<1> USE DEF spool, producers, backend, forwarder, replayer
<1>1. CASE StartScan
  BY <1>1 DEF StartScan
<1>2. CASE EndScan
  BY <1>2 DEF EndScan
<1>3. CASE InspectSource
  BY <1>3 DEF InspectSource
<1>4. CASE Recheck
  BY <1>4 DEF Recheck
<1>5. CASE MoveFailed
  BY <1>5 DEF MoveFailed
<1>6. CASE StatSource
  BY <1>6 DEF StatSource
<1>7. CASE UnlinkSource
  BY <1>7 DEF UnlinkSource
<1>8. CASE Crash
  BY <1>8 DEF Crash
<1>9. ASSUME NEW n \in Name, ReadEvent(n) PROVE ContentInv'
  BY <1>9 DEF ReadEvent
<1>10. ASSUME NEW n \in Name, UploadAccepted(n) PROVE ContentInv'
  BY <1>10 DEF UploadAccepted
<1>11. ASSUME NEW n \in Name, UploadFailed(n) PROVE ContentInv'
  BY <1>11 DEF UploadFailed
<1>12. ASSUME NEW n \in Name, PostAccepted(n) PROVE ContentInv'
  BY <1>12 DEF PostAccepted
<1>13. ASSUME NEW n \in Name, PostFailed(n) PROVE ContentInv'
  BY <1>13 DEF PostFailed
<1>14. ASSUME NEW n \in Name, MoveToSent(n) PROVE ContentInv'
  BY <1>14 DEF MoveToSent
<1>15. ASSUME NEW n \in Name, MoveToDeadLetter(n) PROVE ContentInv'
  BY <1>15 DEF MoveToDeadLetter
<1>16. ASSUME NEW n \in Name, WriteSource(n) PROVE ContentInv'
  BY <1>16 DEF WriteSource
<1>17. ASSUME NEW n \in Name, WriteEvent(n) PROVE ContentInv'
  <2>1. PICK c \in ContentOf(n) : content' = [content EXCEPT ![n][writes[n] + 1] = c]
    BY <1>17 DEF WriteEvent
  <2> QED
    BY <2>1, ContentOfType
<1>18. ASSUME NEW n \in Name, ReplayLink(n) PROVE ContentInv'
  BY <1>18 DEF ReplayLink
<1>19. ASSUME NEW n \in Name, ReplayUnlink(n) PROVE ContentInv'
  BY <1>19 DEF ReplayUnlink
<1>20. ASSUME NEW n \in Name, ReplayTorn(n) PROVE ContentInv'
  BY <1>20 DEF ReplayTorn
<1>21. CASE UNCHANGED vars
  BY <1>21 DEF vars
<1> QED
  BY <1>1, <1>2, <1>3, <1>4, <1>5, <1>6, <1>7, <1>8, <1>9, <1>10, <1>11,
     <1>12, <1>13, <1>14, <1>15, <1>16, <1>17, <1>18, <1>19, <1>20, <1>21
     DEF Next, ForwarderStep, Environment

(* What a written version says does not change.                            *)
LEMMA ContentStable ==
  ASSUME Typed, [Next]_vars, NEW m \in Name, NEW k \in 1 .. writes[m]
  PROVE  content'[m][k] = content[m][k]
<1>1. CASE \E n \in Name : WriteEvent(n)
  <2>1. PICK n \in Name : WriteEvent(n)
    BY <1>1
  <2>2. PICK c \in ContentOf(n) : content' = [content EXCEPT ![n][writes[n] + 1] = c]
    BY <2>1 DEF WriteEvent
  <2> QED
    BY <2>1, <2>2 DEF Typed, TypeOK, ProducersTypeOK, Version, WriteEvent
<1>2. CASE content' = content
  BY <1>2
<1> QED
  BY <1>1, <1>2 DEF Next, ForwarderStep, Environment, vars, producers, StartScan,
     EndScan, InspectSource, Recheck, MoveFailed, StatSource, UnlinkSource, Crash,
     ReadEvent, UploadAccepted, UploadFailed, PostAccepted, PostFailed, MoveToSent,
     MoveToDeadLetter, WriteSource, ReplayLink, ReplayUnlink, ReplayTorn

LEMMA ProgressStep ==
  ASSUME Typed, ContentInv, ProgressInv, [Next]_vars
  PROVE  ProgressInv'
<1> USE DEF Typed, TypeOK, SpoolTypeOK, ProducersTypeOK, BackendTypeOK,
        ForwarderTypeOK, ScanInv,
        ProgressInv, Loaded, Waiting
<1> USE DEF spool, producers, backend, forwarder, replayer
<1>1. CASE StartScan
  BY <1>1 DEF StartScan
<1>2. CASE EndScan
  BY <1>2 DEF EndScan
<1>3. CASE InspectSource
  <2> USE <1>3 DEF InspectSource
  <2>1. Event.needs => Kind[cur.name] = "faxes"
    <3>1. cur.name \in Name /\ cur.id \in Version
      BY CurrentVersion
    <3> QED
      BY <3>1 DEF ContentInv, Event
  <2>2. CASE NoSource
    BY <2>2 DEF NoSource, Event
  <2>3. CASE SourceRead
    <3>1. Event' = Event
      BY <2>3, HoldLocals DEF SourceRead, Event
    <3> QED
      BY <2>3, <3>1, HoldLocals DEF SourceRead
  <2>4. CASE SourceUnread
    <3>1. CASE pc' = "next"
      BY <3>1
    <3>2. CASE pc' = "post" /\ UNCHANGED cur /\ Kind[cur.name] = "fax-attempts"
      <4>1. Event' = Event
        BY <3>2 DEF Event
      <4> QED
        BY <2>1, <3>2, <4>1
    <3> QED
      BY <2>4, <3>1, <3>2 DEF SourceUnread, Skip
  <2>5. CASE SourceDiffers
    <3>1. CASE pc' = "recheck" /\ cur' = Answered("dead-letter")
      <4>1. Event' = Event
        BY <3>1, AnswerLocals DEF Event, Outcome
      <4> QED
        BY <3>1, <4>1, AnswerLocals DEF Outcome
    <3>2. CASE pc' = "post" /\ UNCHANGED cur /\ Kind[cur.name] = "fax-attempts"
      <4>1. Event' = Event
        BY <3>2 DEF Event
      <4> QED
        BY <2>1, <3>2, <4>1
    <3> QED
      BY <2>5, <3>1, <3>2 DEF SourceDiffers
  <2> QED
    BY <2>2, <2>3, <2>4, <2>5
<1>4. CASE Recheck
  BY <1>4 DEF Recheck, Skip, Event
<1>5. CASE MoveFailed
  BY <1>5 DEF MoveFailed
<1>6. CASE StatSource
  BY <1>6 DEF StatSource, Skip, Event
<1>7. CASE UnlinkSource
  BY <1>7 DEF UnlinkSource, Skip
<1>8. CASE Crash
  BY <1>8 DEF Crash
<1>9. ASSUME NEW n \in Name, ReadEvent(n) PROVE ProgressInv'
  BY <1>9, ReadLocals DEF ReadEvent, WrittenInv
<1>10. ASSUME NEW n \in Name, UploadAccepted(n) PROVE ProgressInv'
  BY <1>10 DEF UploadAccepted, Event
<1>11. ASSUME NEW n \in Name, UploadFailed(n) PROVE ProgressInv'
  BY <1>11, AnswerLocals DEF UploadFailed, Outcome, Event
<1>12. ASSUME NEW n \in Name, PostAccepted(n) PROVE ProgressInv'
  BY <1>12, AnswerLocals DEF PostAccepted, Outcome, Event, Version
<1>13. ASSUME NEW n \in Name, PostFailed(n) PROVE ProgressInv'
  BY <1>13, AnswerLocals DEF PostFailed, Outcome, Event
<1>14. ASSUME NEW n \in Name, MoveToSent(n) PROVE ProgressInv'
  BY <1>14 DEF MoveToSent, Skip, Event
<1>15. ASSUME NEW n \in Name, MoveToDeadLetter(n) PROVE ProgressInv'
  BY <1>15 DEF MoveToDeadLetter, Skip
<1>16. ASSUME NEW n \in Name, WriteSource(n) PROVE ProgressInv'
  <2>1. UNCHANGED <<pc, cur, accepted, documents>>
    BY <1>16 DEF WriteSource
  <2>2. Loaded => Event' = Event
    BY <2>1, <1>16, ContentStable DEF Event
  <2> QED
    BY <2>1, <2>2
<1>17. ASSUME NEW n \in Name, WriteEvent(n) PROVE ProgressInv'
  <2>1. UNCHANGED <<pc, cur, accepted, documents>>
    BY <1>17 DEF WriteEvent, Loaded
  <2>2. Loaded => Event' = Event
    BY <2>1, <1>17, ContentStable DEF Event
  <2> QED
    BY <2>1, <2>2
<1>18. ASSUME NEW n \in Name, ReplayLink(n) PROVE ProgressInv'
  <2>1. UNCHANGED <<pc, cur, accepted, documents>>
    BY <1>18 DEF ReplayLink
  <2>2. Loaded => Event' = Event
    BY <2>1, <1>18, ContentStable DEF Event
  <2> QED
    BY <2>1, <2>2
<1>19. ASSUME NEW n \in Name, ReplayUnlink(n) PROVE ProgressInv'
  <2>1. UNCHANGED <<pc, cur, accepted, documents>>
    BY <1>19 DEF ReplayUnlink
  <2>2. Loaded => Event' = Event
    BY <2>1, <1>19, ContentStable DEF Event
  <2> QED
    BY <2>1, <2>2
<1>20. ASSUME NEW n \in Name, ReplayTorn(n) PROVE ProgressInv'
  <2>1. UNCHANGED <<pc, cur, accepted, documents>>
    BY <1>20 DEF ReplayTorn
  <2>2. Loaded => Event' = Event
    BY <2>1, <1>20, ContentStable DEF Event
  <2> QED
    BY <2>1, <2>2
<1>21. CASE UNCHANGED vars
  BY <1>21 DEF vars, Event
<1> QED
  BY <1>1, <1>2, <1>3, <1>4, <1>5, <1>6, <1>7, <1>8, <1>9, <1>10, <1>11,
     <1>12, <1>13, <1>14, <1>15, <1>16, <1>17, <1>18, <1>19, <1>20, <1>21
     DEF Next, ForwarderStep, Environment

LEMMA WindowStep ==
  ASSUME Typed, ProgressInv, WindowInv, [Next]_vars
  PROVE  WindowInv'
<1> USE DEF Typed, TypeOK, SpoolTypeOK, ProducersTypeOK, BackendTypeOK,
        ForwarderTypeOK, ScanInv,
        WindowInv, Loaded, Waiting
<1> USE DEF spool, producers, backend, forwarder, replayer
<1>1. CASE StartScan
  BY <1>1 DEF StartScan
<1>2. CASE EndScan
  BY <1>2 DEF EndScan
<1>3. CASE InspectSource
  BY <1>3, HoldLocals, AnswerLocals
     DEF InspectSource, NoSource, SourceRead, SourceUnread, SourceDiffers, Skip
<1>4. CASE Recheck
  BY <1>4 DEF Recheck, Skip, SameIdentity
<1>5. CASE MoveFailed
  BY <1>5 DEF MoveFailed
<1>6. CASE StatSource
  BY <1>6 DEF StatSource, Skip
<1>7. CASE UnlinkSource
  BY <1>7 DEF UnlinkSource, Skip
<1>8. CASE Crash
  BY <1>8 DEF Crash
<1>9. ASSUME NEW n \in Name, ReadEvent(n) PROVE WindowInv'
  BY <1>9 DEF ReadEvent
<1>10. ASSUME NEW n \in Name, UploadAccepted(n) PROVE WindowInv'
  BY <1>10 DEF UploadAccepted
<1>11. ASSUME NEW n \in Name, UploadFailed(n) PROVE WindowInv'
  BY <1>11 DEF UploadFailed
<1>12. ASSUME NEW n \in Name, PostAccepted(n) PROVE WindowInv'
  BY <1>12 DEF PostAccepted
<1>13. ASSUME NEW n \in Name, PostFailed(n) PROVE WindowInv'
  BY <1>13 DEF PostFailed
<1>14. ASSUME NEW n \in Name, MoveToSent(n) PROVE WindowInv'
  BY <1>14 DEF MoveToSent, Leave, Skip, Version
<1>15. ASSUME NEW n \in Name, MoveToDeadLetter(n) PROVE WindowInv'
  BY <1>15 DEF MoveToDeadLetter, Leave, Skip
<1>16. ASSUME NEW n \in Name, WriteSource(n) PROVE WindowInv'
  BY <1>16 DEF WriteSource, MayWrite, InWindow
<1>17. ASSUME NEW n \in Name, WriteEvent(n) PROVE WindowInv'
  BY <1>17 DEF WriteEvent, MayWrite, InWindow
<1>18. ASSUME NEW n \in Name, ReplayLink(n) PROVE WindowInv'
  BY <1>18 DEF ReplayLink
<1>19. ASSUME NEW n \in Name, ReplayUnlink(n) PROVE WindowInv'
  BY <1>19 DEF ReplayUnlink
<1>20. ASSUME NEW n \in Name, ReplayTorn(n) PROVE WindowInv'
  BY <1>20 DEF ReplayTorn
<1>21. CASE UNCHANGED vars
  BY <1>21 DEF vars
<1> QED
  BY <1>1, <1>2, <1>3, <1>4, <1>5, <1>6, <1>7, <1>8, <1>9, <1>10, <1>11,
     <1>12, <1>13, <1>14, <1>15, <1>16, <1>17, <1>18, <1>19, <1>20, <1>21
     DEF Next, ForwarderStep, Environment

LEMMA SentStep ==
  ASSUME Typed, ProgressInv, WindowInv, FiledWasAccepted, [Next]_vars
  PROVE  FiledWasAccepted'
<1> USE DEF Typed, TypeOK, SpoolTypeOK, ProducersTypeOK, BackendTypeOK,
        ForwarderTypeOK, Version,
        FiledWasAccepted, Unraced
<1> USE DEF spool, producers, backend, forwarder, replayer
<1>1. CASE StartScan
  BY <1>1 DEF StartScan
<1>2. CASE EndScan
  BY <1>2 DEF EndScan
<1>3. CASE InspectSource
  BY <1>3 DEF InspectSource
<1>4. CASE Recheck
  BY <1>4 DEF Recheck
<1>5. CASE MoveFailed
  BY <1>5 DEF MoveFailed
<1>6. CASE StatSource
  BY <1>6 DEF StatSource
<1>7. CASE UnlinkSource
  BY <1>7 DEF UnlinkSource
<1>8. CASE Crash
  BY <1>8 DEF Crash
<1>9. ASSUME NEW n \in Name, ReadEvent(n) PROVE FiledWasAccepted'
  BY <1>9 DEF ReadEvent
<1>10. ASSUME NEW n \in Name, UploadAccepted(n) PROVE FiledWasAccepted'
  BY <1>10 DEF UploadAccepted
<1>11. ASSUME NEW n \in Name, UploadFailed(n) PROVE FiledWasAccepted'
  BY <1>11 DEF UploadFailed
<1>12. ASSUME NEW n \in Name, PostAccepted(n) PROVE FiledWasAccepted'
  BY <1>12 DEF PostAccepted
<1>13. ASSUME NEW n \in Name, PostFailed(n) PROVE FiledWasAccepted'
  BY <1>13 DEF PostFailed
<1>14. ASSUME NEW n \in Name, MoveToSent(n) PROVE FiledWasAccepted'
  BY <1>14 DEF MoveToSent, WindowInv, ProgressInv, Loaded, Waiting
<1>15. ASSUME NEW n \in Name, MoveToDeadLetter(n) PROVE FiledWasAccepted'
  BY <1>15 DEF MoveToDeadLetter
<1>16. ASSUME NEW n \in Name, WriteSource(n) PROVE FiledWasAccepted'
  BY <1>16 DEF WriteSource
<1>17. ASSUME NEW n \in Name, WriteEvent(n) PROVE FiledWasAccepted'
  BY <1>17 DEF WriteEvent
<1>18. ASSUME NEW n \in Name, ReplayLink(n) PROVE FiledWasAccepted'
  BY <1>18 DEF ReplayLink
<1>19. ASSUME NEW n \in Name, ReplayUnlink(n) PROVE FiledWasAccepted'
  BY <1>19 DEF ReplayUnlink
<1>20. ASSUME NEW n \in Name, ReplayTorn(n) PROVE FiledWasAccepted'
  BY <1>20 DEF ReplayTorn
<1>21. CASE UNCHANGED vars
  BY <1>21 DEF vars
<1> QED
  BY <1>1, <1>2, <1>3, <1>4, <1>5, <1>6, <1>7, <1>8, <1>9, <1>10, <1>11,
     <1>12, <1>13, <1>14, <1>15, <1>16, <1>17, <1>18, <1>19, <1>20, <1>21
     DEF Next, ForwarderStep, Environment

LEMMA DocumentStep ==
  ASSUME Typed, ProgressInv, AcceptedFaxHasDocument, [Next]_vars
  PROVE  AcceptedFaxHasDocument'
<1> USE DEF Typed, TypeOK, SpoolTypeOK, ProducersTypeOK, BackendTypeOK,
        ForwarderTypeOK, WrittenInv,
        AcceptedFaxHasDocument
<1> USE DEF spool, producers, backend, forwarder, replayer
<1>1. CASE StartScan
  BY <1>1 DEF StartScan
<1>2. CASE EndScan
  BY <1>2 DEF EndScan
<1>3. CASE InspectSource
  BY <1>3 DEF InspectSource
<1>4. CASE Recheck
  BY <1>4 DEF Recheck
<1>5. CASE MoveFailed
  BY <1>5 DEF MoveFailed
<1>6. CASE StatSource
  BY <1>6 DEF StatSource
<1>7. CASE UnlinkSource
  BY <1>7 DEF UnlinkSource
<1>8. CASE Crash
  BY <1>8 DEF Crash
<1>9. ASSUME NEW n \in Name, ReadEvent(n) PROVE AcceptedFaxHasDocument'
  BY <1>9 DEF ReadEvent
<1>10. ASSUME NEW n \in Name, UploadAccepted(n) PROVE AcceptedFaxHasDocument'
  BY <1>10 DEF UploadAccepted
<1>11. ASSUME NEW n \in Name, UploadFailed(n) PROVE AcceptedFaxHasDocument'
  BY <1>11 DEF UploadFailed
<1>12. ASSUME NEW n \in Name, PostAccepted(n) PROVE AcceptedFaxHasDocument'
  BY <1>12 DEF PostAccepted, ProgressInv, Event, Loaded, Waiting
<1>13. ASSUME NEW n \in Name, PostFailed(n) PROVE AcceptedFaxHasDocument'
  BY <1>13 DEF PostFailed, ProgressInv, Event, Loaded, Waiting
<1>14. ASSUME NEW n \in Name, MoveToSent(n) PROVE AcceptedFaxHasDocument'
  BY <1>14 DEF MoveToSent
<1>15. ASSUME NEW n \in Name, MoveToDeadLetter(n) PROVE AcceptedFaxHasDocument'
  BY <1>15 DEF MoveToDeadLetter
<1>16. ASSUME NEW n \in Name, WriteSource(n) PROVE AcceptedFaxHasDocument'
  BY <1>16 DEF WriteSource
<1>17. ASSUME NEW n \in Name, WriteEvent(n) PROVE AcceptedFaxHasDocument'
  <2>1. UNCHANGED <<accepted, documents>>
    BY <1>17 DEF WriteEvent
  <2>2. ASSUME NEW m \in Name, NEW k \in accepted[m]
        PROVE  content'[m][k] = content[m][k]
    <3>1. k \in 1 .. writes[m]
      BY <2>2
    <3> QED
      BY <3>1, ContentStable
  <2>3. ASSUME NEW m \in Name, NEW k \in accepted'[m], content'[m][k].needs
        PROVE  \E v \in documents'[m] : content'[m][k].src \in {0, v}
    <3>1. k \in accepted[m] /\ documents' = documents
      BY <2>1, <2>3
    <3> QED
      BY <2>2, <2>3, <3>1
  <2> QED
    BY <2>3
<1>18. ASSUME NEW n \in Name, ReplayLink(n) PROVE AcceptedFaxHasDocument'
  BY <1>18 DEF ReplayLink
<1>19. ASSUME NEW n \in Name, ReplayUnlink(n) PROVE AcceptedFaxHasDocument'
  BY <1>19 DEF ReplayUnlink
<1>20. ASSUME NEW n \in Name, ReplayTorn(n) PROVE AcceptedFaxHasDocument'
  BY <1>20 DEF ReplayTorn
<1>21. CASE UNCHANGED vars
  BY <1>21 DEF vars
<1> QED
  BY <1>1, <1>2, <1>3, <1>4, <1>5, <1>6, <1>7, <1>8, <1>9, <1>10, <1>11,
     <1>12, <1>13, <1>14, <1>15, <1>16, <1>17, <1>18, <1>19, <1>20, <1>21
     DEF Next, ForwarderStep, Environment

Delivered ==
  Typed /\ ContentInv /\ ProgressInv /\ AcceptedFaxHasDocument

LEMMA DeliveredInit == Init => Delivered
  BY TypedInit, ConstantsAssumption
     DEF Init, Delivered, ContentInv, Blank, ProgressInv, Loaded, Waiting,
         AcceptedFaxHasDocument, Version

LEMMA DeliveredStep == Delivered /\ [Next]_vars => Delivered'
  BY TypeStep, ScanStep, WrittenStep, ContentStep, ProgressStep, DocumentStep
     DEF Delivered, Typed

(* A received FAX enters the backend's history only after its document,    *)
(* with the bytes its event is bound to, whatever answers get lost and     *)
(* whenever the forwarder crashes or a file is rewritten.                  *)
THEOREM FaxNeverWithoutDocument == Spec => []AcceptedFaxHasDocument
<1>1. Delivered => AcceptedFaxHasDocument
  BY DEF Delivered
<1> QED
  BY DeliveredInit, DeliveredStep, <1>1, PTL DEF Spec

Acknowledged == Delivered /\ WindowInv /\ FiledWasAccepted

LEMMA AcknowledgedInit == Init => Acknowledged
  BY DeliveredInit DEF Init, Acknowledged, WindowInv, FiledWasAccepted, Unraced

LEMMA AcknowledgedStep == Acknowledged /\ [Next]_vars => Acknowledged'
<1> SUFFICES ASSUME Acknowledged, [Next]_vars PROVE Acknowledged'
  OBVIOUS
<1>1. Delivered'
  BY DeliveredStep DEF Acknowledged
<1>2. WindowInv' /\ FiledWasAccepted'
  BY WindowStep, SentStep DEF Acknowledged, Delivered
<1> QED
  BY <1>1, <1>2 DEF Acknowledged

LEMMA AcknowledgedAlways == Spec => []Acknowledged
  BY AcknowledgedInit, AcknowledgedStep, PTL DEF Spec

(* Only events the backend has processed are filed under sent/, whatever   *)
(* crashes, lost answers, rewrites and replays happen: of every name that  *)
(* is not rewritten between an identity check and the rename it guards,    *)
(* also while other names are.                                             *)
THEOREM FiledOnlyWhenAccepted ==
  Spec => [](\A n \in Unraced : sent[n] \subseteq accepted[n])
<1>1. Acknowledged => (\A n \in Unraced : sent[n] \subseteq accepted[n])
  BY DEF Acknowledged, FiledWasAccepted
<1> QED
  BY AcknowledgedAlways, <1>1, PTL

(* SentWasAccepted, for all names when none is rewritten there.            *)
THEOREM SentOnlyWhenAccepted ==
  ASSUME Raced = {}
  PROVE  Spec => []SentWasAccepted
<1>1. Acknowledged => SentWasAccepted
  BY DEF Acknowledged, FiledWasAccepted, Unraced, SentWasAccepted
<1> QED
  BY AcknowledgedAlways, <1>1, PTL

(* A step that makes a TIFF disappear is the forwarder's unlink, and what  *)
(* allows it was established.                                              *)
LEMMA RemovalStep ==
  ASSUME Acknowledged, [Next]_vars, NEW n \in Unraced,
         source[n] # 0, source'[n] = 0
  PROVE  Releasable(n)
<1> USE DEF Unraced
<1>1. UnlinkSource
  BY DEF Acknowledged, Delivered, Typed, TypeOK, ProducersTypeOK, spool, producers,
     Next, ForwarderStep, Environment, vars, StartScan, EndScan,
     InspectSource, Recheck, MoveFailed, StatSource, Crash, ReadEvent,
     UploadAccepted, UploadFailed, PostAccepted, PostFailed, MoveToSent,
     MoveToDeadLetter, WriteSource, WriteEvent, ReplayLink, ReplayUnlink, ReplayTorn
<1>2. pc = "unlink" /\ n = cur.name
  BY <1>1 DEF UnlinkSource, Acknowledged, Delivered, Typed, TypeOK, ProducersTypeOK
<1>3. /\ cur.id \in sent[n] /\ cur.id \in accepted[n]
      /\ Event.src = source[n] /\ Event.cleanup
      /\ Event.needs => source[n] \in documents[n]
  BY <1>2 DEF Acknowledged, Delivered, WindowInv, ProgressInv, Loaded, Waiting
<1>4. Kind[n] = "faxes" => Event.needs
  <2>1. n \in Name /\ cur.id \in Version /\ source[n] \in 0 .. MaxSources
    BY <1>2, CurrentVersion DEF Acknowledged, Delivered, Typed, TypeOK,
       ProducersTypeOK, Loaded, Waiting
  <2> QED
    BY <1>2, <1>3, <2>1 DEF Acknowledged, Delivered, ContentInv, Event
<1> QED
  BY <1>2, <1>3, <1>4 DEF Releasable, Event

(* No TIFF is removed before an event bound to that very version was       *)
(* accepted and filed, and a received FAX's bytes were stored: for every   *)
(* name that is not rewritten between a check and the unlink it guards.    *)
THEOREM UnracedSourceSafe ==
  Spec => [][\A n \in Unraced : source[n] # 0 /\ source'[n] = 0 => Releasable(n)]_vars
<1>1. Acknowledged /\ [Next]_vars =>
        [\A n \in Unraced : source[n] # 0 /\ source'[n] = 0 => Releasable(n)]_vars
  BY RemovalStep
<1> QED
  BY AcknowledgedAlways, <1>1, PTL DEF Spec

(* SourceRemovedOnlyAfterAck, for all names when none is rewritten there.  *)
THEOREM SourceSafe ==
  ASSUME Raced = {}
  PROVE  Spec => SourceRemovedOnlyAfterAck
<1>1. Acknowledged /\ [Next]_vars =>
        [\A n \in Name : source[n] # 0 /\ source'[n] = 0 => Releasable(n)]_vars
  BY RemovalStep DEF Unraced
<1> QED
  BY AcknowledgedAlways, <1>1, PTL DEF Spec, SourceRemovedOnlyAfterAck

-----------------------------------------------------------------------------
(* Loss                                                                    *)

(* The file a replay has linked is still dead-letter/<name>.json, and it   *)
(* has arrived somewhere else unless the producer has overwritten it.      *)
ReplayInv ==
  \A n \in Name : replay[n] # 0 =>
    /\ dead[n] = replay[n]
    /\ \/ replay[n] \in {pending[n]} \cup sent[n] \cup deadCopies[n]
       \/ replay[n] < writes[n]

Kept == Typed /\ ReplayInv /\ LatestEventKept

LEMMA KeptStep ==
  ASSUME Kept, [Next]_vars
  PROVE  ReplayInv' /\ LatestEventKept'
<1> USE DEF Kept, Typed, TypeOK, SpoolTypeOK, ProducersTypeOK, ReplayerTypeOK,
        WrittenInv, ReplayInv, LatestEventKept
<1> USE DEF spool, producers, backend, forwarder, replayer
<1>1. CASE StartScan
  BY <1>1 DEF StartScan
<1>2. CASE EndScan
  BY <1>2 DEF EndScan
<1>3. CASE InspectSource
  BY <1>3 DEF InspectSource
<1>4. CASE Recheck
  BY <1>4 DEF Recheck
<1>5. CASE MoveFailed
  BY <1>5 DEF MoveFailed
<1>6. CASE StatSource
  BY <1>6 DEF StatSource
<1>7. CASE UnlinkSource
  BY <1>7 DEF UnlinkSource
<1>8. CASE Crash
  BY <1>8 DEF Crash
<1>9. ASSUME NEW n \in Name, ReadEvent(n) PROVE ReplayInv' /\ LatestEventKept'
  BY <1>9 DEF ReadEvent
<1>10. ASSUME NEW n \in Name, UploadAccepted(n) PROVE ReplayInv' /\ LatestEventKept'
  BY <1>10 DEF UploadAccepted
<1>11. ASSUME NEW n \in Name, UploadFailed(n) PROVE ReplayInv' /\ LatestEventKept'
  BY <1>11 DEF UploadFailed
<1>12. ASSUME NEW n \in Name, PostAccepted(n) PROVE ReplayInv' /\ LatestEventKept'
  BY <1>12 DEF PostAccepted
<1>13. ASSUME NEW n \in Name, PostFailed(n) PROVE ReplayInv' /\ LatestEventKept'
  BY <1>13 DEF PostFailed
<1>14. ASSUME NEW n \in Name, MoveToSent(n) PROVE ReplayInv' /\ LatestEventKept'
  BY <1>14 DEF MoveToSent, Leave
<1>15. ASSUME NEW n \in Name, MoveToDeadLetter(n) PROVE ReplayInv' /\ LatestEventKept'
  BY <1>15 DEF MoveToDeadLetter, Leave
<1>16. ASSUME NEW n \in Name, WriteSource(n) PROVE ReplayInv' /\ LatestEventKept'
  BY <1>16 DEF WriteSource
<1>17. ASSUME NEW n \in Name, WriteEvent(n) PROVE ReplayInv' /\ LatestEventKept'
  BY <1>17 DEF WriteEvent
<1>18. ASSUME NEW n \in Name, ReplayLink(n) PROVE ReplayInv' /\ LatestEventKept'
  BY <1>18 DEF ReplayLink
<1>19. ASSUME NEW n \in Name, ReplayUnlink(n) PROVE ReplayInv' /\ LatestEventKept'
  BY <1>19 DEF ReplayUnlink
<1>20. ASSUME NEW n \in Name, ReplayTorn(n) PROVE ReplayInv' /\ LatestEventKept'
  BY <1>20 DEF ReplayTorn
<1>21. CASE UNCHANGED vars
  BY <1>21 DEF vars
<1> QED
  BY <1>1, <1>2, <1>3, <1>4, <1>5, <1>6, <1>7, <1>8, <1>9, <1>10, <1>11,
     <1>12, <1>13, <1>14, <1>15, <1>16, <1>17, <1>18, <1>19, <1>20, <1>21
     DEF Next, ForwarderStep, Environment

(* The newest event of every name is in pending/, sent/ or dead-letter/ at *)
(* all times: no move, collision or interrupted replay loses it.           *)
THEOREM NewestEventNeverLost == Spec => []LatestEventKept
<1>1. Init => Kept
  BY TypedInit DEF Init, Kept, ReplayInv, LatestEventKept
<1>2. Kept /\ [Next]_vars => Kept'
  BY KeptStep, TypeStep, ScanStep, WrittenStep DEF Kept, Typed
<1>3. Kept => LatestEventKept
  BY DEF Kept
<1> QED
  BY <1>1, <1>2, <1>3, PTL DEF Spec
=============================================================================
