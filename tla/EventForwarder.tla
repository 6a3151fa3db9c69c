--------------------------- MODULE EventForwarder ---------------------------
(***************************************************************************)
(* The PBX event spool and its forwarder.                                  *)
(*                                                                         *)
(* Asterisk's handlers write one JSON file per call, received FAX or FAX   *)
(* attempt into pending/ (pbx_event_spool.py).  The forwarder              *)
(* (forwarder.py) scans pending/, inspects the bound FAX TIFF, uploads the *)
(* document, posts the event to the backend, and then moves the file to    *)
(* sent/ or dead-letter/ and removes the TIFF.  An operator replays a      *)
(* dead letter by linking it back into pending/.                           *)
(*                                                                         *)
(* A file is named by its event name n and a version number: the k-th      *)
(* file a producer wrote under that name.  A TIFF is its version number    *)
(* too; 0 is "no file" everywhere.  A version stands for the bytes and for *)
(* the inode.  The forwarder is one process and every disk or network      *)
(* operation after which another process can run is a step of its own.     *)
(* A dead letter is replayed under its own name; the replay of a dated     *)
(* copy, which brings the event back under another name, is left out.      *)
(*                                                                         *)
(* An operator X_Fault is X with a fault the code does not have.  No       *)
(* specification uses it; it shows that a property notices the fault.      *)
(***************************************************************************)
EXTENDS Naturals, FiniteSets

CONSTANTS
  Name,         \* event file names, <pbx_unique_id>.json
  None,         \* no event
  Kind,         \* the event kind of each name
  Rewritten,    \* names a producer, or the owner of the TIFF, writes again
  Raced,        \* rewritten names whose rewrite may land between a check of
                \* a file's identity and the rename or unlink that follows it
  Broken,       \* names for which no request and no move need ever succeed
  MaxWrites,    \* bound: files written under one event name
  MaxSources,   \* bound: TIFFs written under one basename
  MaxCrashes    \* bound: forwarder crashes

Kinds == {"calls", "faxes", "fax-attempts"}

ASSUME ConstantsAssumption ==
  /\ None \notin Name
  /\ Kind \in [Name -> Kinds]
  /\ Rewritten \subseteq Name
  /\ Raced \subseteq Rewritten
  /\ Broken \subseteq Name
  /\ MaxWrites \in Nat \ {0}
  /\ MaxSources \in Nat
  /\ MaxCrashes \in Nat

VARIABLES
  \* the spool directory
  pending,      \* pending/<name>.json: its version
  touched,      \* its ctime moved since it appeared under pending/
  sent,         \* versions in sent/
  dead,         \* dead-letter/<name>.json: its version
  deadCopies,   \* versions in dead-letter/<name>-<time>.json
  writes,       \* versions written so far
  content,      \* what each version says
  \* the FAX spool directory
  source,       \* <basename>.tif: its version
  made,         \* TIFF versions written so far
  \* the backend
  accepted,     \* event versions it has processed
  documents,    \* TIFF versions it has stored
  \* the forwarder process
  pc, todo, cur, crashes,
  \* the operator's replay command
  replay,       \* version linked into pending/ and not yet unlinked
  torn          \* names whose replay stopped between link and unlink

spool     == <<pending, touched, sent, dead, deadCopies>>
producers == <<writes, content, made>>
backend   == <<accepted, documents>>
forwarder == <<pc, todo, cur>>
replayer  == <<replay, torn>>
vars == <<spool, producers, source, backend, forwarder, crashes, replayer>>

Version == 1 .. MaxWrites
Source  == 1 .. MaxSources

(* needs:   the payload refers to fax-spool://, the document is uploaded   *)
(* src:     the TIFF whose size and digest fax_local records, 0 without it *)
(* cleanup: fax_local allows the TIFF's removal                            *)
Content == [needs: BOOLEAN, src: 0 .. MaxSources, cleanup: BOOLEAN]
Blank   == [needs |-> FALSE, src |-> 0, cleanup |-> FALSE]

Outcome == {"none", "sent", "dead-letter", "retry"}
Control == {"sleep", "next", "inspect", "upload", "post", "recheck",
            "move", "stat", "unlink"}

(* The locals of one iteration of process_once: the event read and whether *)
(* its ctime had moved, the TIFF version read (0 when inspection failed or *)
(* there is none: cleanup_ready is held # 0) and deliver's answer.         *)
Locals == [name: Name \cup {None}, id: 0 .. MaxWrites, touched: BOOLEAN,
           held: 0 .. MaxSources, outcome: Outcome]
Idle == [name |-> None, id |-> 0, touched |-> FALSE,
         held |-> 0, outcome |-> "none"]

SpoolTypeOK ==
  /\ pending \in [Name -> 0 .. MaxWrites]
  /\ touched \in [Name -> BOOLEAN]
  /\ sent \in [Name -> SUBSET Version]
  /\ dead \in [Name -> 0 .. MaxWrites]
  /\ deadCopies \in [Name -> SUBSET Version]

ProducersTypeOK ==
  /\ writes \in [Name -> 0 .. MaxWrites]
  /\ content \in [Name -> [Version -> Content]]
  /\ source \in [Name -> 0 .. MaxSources]
  /\ made \in [Name -> 0 .. MaxSources]

BackendTypeOK ==
  /\ accepted \in [Name -> SUBSET Version]
  /\ documents \in [Name -> SUBSET Source]

ForwarderTypeOK ==
  /\ pc \in Control
  /\ todo \in SUBSET Name
  /\ cur \in Locals
  /\ crashes \in 0 .. MaxCrashes

ReplayerTypeOK ==
  /\ replay \in [Name -> 0 .. MaxWrites]
  /\ torn \in SUBSET Name

TypeOK == /\ SpoolTypeOK /\ ProducersTypeOK /\ BackendTypeOK
          /\ ForwarderTypeOK /\ ReplayerTypeOK

Init ==
  /\ pending = [n \in Name |-> 0]
  /\ touched = [n \in Name |-> FALSE]
  /\ sent = [n \in Name |-> {}]
  /\ dead = [n \in Name |-> 0]
  /\ deadCopies = [n \in Name |-> {}]
  /\ writes = [n \in Name |-> 0]
  /\ content = [n \in Name |-> [k \in Version |-> Blank]]
  /\ source = [n \in Name |-> 0]
  /\ made = [n \in Name |-> 0]
  /\ accepted = [n \in Name |-> {}]
  /\ documents = [n \in Name |-> {}]
  /\ pc = "sleep"
  /\ todo = {}
  /\ cur = Idle
  /\ crashes = 0
  /\ replay = [n \in Name |-> 0]
  /\ torn = {}

-----------------------------------------------------------------------------
(* Producers: Asterisk, its hangup handlers and the FAX worker.            *)

(* The forwarder has compared an identity of n's files and not yet acted.  *)
InWindow(n) == cur.name = n /\ pc \in {"move", "unlink"}
MayWrite(n) == InWindow(n) => n \in Raced

(* ReceiveFAX, or Ghostscript in prepare, writes the TIFF of n.            *)
WriteSource(n) ==
  /\ Kind[n] # "calls"
  /\ n \in Rewritten \/ (writes[n] = 0 /\ made[n] = 0)
  /\ made[n] < MaxSources
  /\ MayWrite(n)
  /\ made' = [made EXCEPT ![n] = @ + 1]
  /\ source' = [source EXCEPT ![n] = made[n] + 1]
  /\ UNCHANGED <<spool, writes, content, backend, forwarder, crashes, replayer>>

(* What build_event and result_event can put in an event of n.  A received *)
(* FAX binds its TIFF and allows cleanup, refers to it without a binding   *)
(* when inspection failed, or has none; an attempt binds its TIFF, with    *)
(* cleanup unless its FAX and dial status are both unknown, or does not.   *)
ContentOf(n) ==
  {c \in Content :
     /\ c.src \in {0, source[n]}
     /\ c.cleanup => c.src # 0
     /\ Kind[n] = "calls" => c.src = 0
     /\ Kind[n] = "faxes" => (c.src # 0 => c.needs /\ c.cleanup)
     /\ Kind[n] # "faxes" => ~c.needs}

(* write_event: the complete file replaces pending/<name>.json atomically. *)
WriteEvent(n) ==
  /\ writes[n] = 0 \/ n \in Rewritten
  /\ writes[n] < MaxWrites
  /\ MayWrite(n)
  /\ writes' = [writes EXCEPT ![n] = @ + 1]
  /\ \E c \in ContentOf(n) : content' = [content EXCEPT ![n][writes[n] + 1] = c]
  /\ pending' = [pending EXCEPT ![n] = writes[n] + 1]
  /\ touched' = [touched EXCEPT ![n] = FALSE]
  /\ UNCHANGED <<sent, dead, deadCopies, made, source, backend, forwarder, crashes, replayer>>

-----------------------------------------------------------------------------
(* The forwarder: main's loop around process_once.                         *)

(* pending.glob: the names present when the scan starts.                   *)
StartScan ==
  /\ pc = "sleep"
  /\ pc' = "next"
  /\ todo' = {n \in Name : pending[n] # 0}
  /\ UNCHANGED <<spool, producers, source, backend, cur, crashes, replayer>>

EndScan ==
  /\ pc = "next" /\ todo = {}
  /\ pc' = "sleep"
  /\ UNCHANGED <<spool, producers, source, backend, todo, cur, crashes, replayer>>

(* read_regular and local_binding: the bytes, the binding and the identity *)
(* of the file.  The order of the scan is left open.                       *)
ReadEvent(n) ==
  /\ pc = "next" /\ n \in todo
  /\ pc' = "inspect"
  /\ todo' = todo \ {n}
  /\ cur' = [name |-> n, id |-> pending[n], touched |-> touched[n],
              held |-> 0, outcome |-> "none"]
  /\ UNCHANGED <<spool, producers, source, backend, crashes, replayer>>

Event == content[cur.name][cur.id]
Holding(v)  == [cur EXCEPT !.held = v]
Answered(o) == [cur EXCEPT !.outcome = o]
(* The next file: this event stays where it is and is retried.             *)
Skip == pc' = "next" /\ cur' = Idle

(* Opening, measuring and hashing the TIFF.  Without it an attempt's       *)
(* result is still delivered; a received FAX with no TIFF is retried and   *)
(* one whose TIFF differs from its binding becomes a dead letter.          *)
NoSource ==
  /\ Event.src = 0 /\ ~Event.needs
  /\ pc' = "post" /\ UNCHANGED cur

(* Faulty: the version that was opened is not kept.                        *)
SourceRead_NotKept ==
  /\ Event.src # 0 \/ Event.needs
  /\ source[cur.name] # 0
  /\ Event.src \in {0, source[cur.name]}
  /\ pc' = (IF Event.needs THEN "upload" ELSE "post")
  /\ UNCHANGED cur

(* Faulty: the event is posted without its document.                       *)
SourceRead_NotUploaded ==
  /\ Event.src # 0 \/ Event.needs
  /\ source[cur.name] # 0
  /\ Event.src \in {0, source[cur.name]}
  /\ pc' = "post"
  /\ cur' = Holding(source[cur.name])

SourceRead ==
  /\ Event.src # 0 \/ Event.needs
  /\ source[cur.name] # 0
  /\ Event.src \in {0, source[cur.name]}
  /\ pc' = (IF Event.needs THEN "upload" ELSE "post")
  /\ cur' = Holding(source[cur.name])

(* There is no TIFF, or it cannot be opened or read.                       *)
SourceUnread ==
  /\ Event.src # 0 \/ Event.needs
  /\ \/ Kind[cur.name] = "fax-attempts" /\ pc' = "post" /\ UNCHANGED cur
     \/ Kind[cur.name] # "fax-attempts" /\ Skip

SourceDiffers ==
  /\ Event.src # 0
  /\ source[cur.name] \notin {0, Event.src}
  /\ \/ Kind[cur.name] = "fax-attempts" /\ pc' = "post" /\ UNCHANGED cur
     \/ /\ Kind[cur.name] # "fax-attempts"
        /\ pc' = "recheck"
        /\ cur' = Answered("dead-letter")

InspectSource ==
  /\ pc = "inspect"
  /\ NoSource \/ SourceRead \/ SourceUnread \/ SourceDiffers
  /\ UNCHANGED <<spool, producers, source, backend, todo, crashes, replayer>>

(* deliver, first request: the document of a received FAX.                 *)
UploadAccepted(n) ==
  /\ pc = "upload" /\ cur.name = n
  /\ pc' = "post"
  /\ documents' = [documents EXCEPT ![n] = @ \cup {cur.held}]
  /\ UNCHANGED <<spool, producers, source, accepted, todo, cur, crashes, replayer>>

(* A refusal, an answer that does not match, a 5xx or a lost answer.  The  *)
(* backend may have stored the document all the same.                      *)
UploadFailed(n) ==
  /\ pc = "upload" /\ cur.name = n
  /\ pc' = "recheck"
  /\ \E o \in {"dead-letter", "retry"} : cur' = Answered(o)
  /\ \E stored \in {{}, {cur.held}} :
       documents' = [documents EXCEPT ![n] = @ \cup stored]
  /\ UNCHANGED <<spool, producers, source, accepted, todo, crashes, replayer>>

(* deliver, second request: the event itself.                              *)
PostAccepted(n) ==
  /\ pc = "post" /\ cur.name = n
  /\ pc' = "recheck"
  /\ cur' = Answered("sent")
  /\ accepted' = [accepted EXCEPT ![n] = @ \cup {cur.id}]
  /\ UNCHANGED <<spool, producers, source, documents, todo, crashes, replayer>>

(* Faulty: any answer of the backend counts as its acknowledgement.        *)
PostFailed_Acknowledged(n) ==
  /\ pc = "post" /\ cur.name = n
  /\ pc' = "recheck"
  /\ cur' = Answered("sent")
  /\ UNCHANGED <<spool, producers, source, backend, todo, crashes, replayer>>

(* As for the upload; the answer to a call event has no body to mismatch.  *)
PostFailed(n) ==
  /\ pc = "post" /\ cur.name = n
  /\ pc' = "recheck"
  /\ \E o \in {"dead-letter", "retry"}, processed \in {{}, {cur.id}} :
       /\ o = "dead-letter" /\ Kind[n] = "calls" => processed = {}
       /\ cur' = Answered(o)
       /\ accepted' = [accepted EXCEPT ![n] = @ \cup processed]
  /\ UNCHANGED <<spool, producers, source, documents, todo, crashes, replayer>>

(* Faulty: some file of that name is enough.                               *)
SameIdentity_NameOnly == pending[cur.name] # 0

(* Faulty: the ctime is compared with that of the write.                   *)
SameIdentity_AsWritten == pending[cur.name] = cur.id /\ ~touched[cur.name]

(* The file under pending/ is still the one that was read.                 *)
SameIdentity ==
  pending[cur.name] = cur.id /\ touched[cur.name] = cur.touched

(* Faulty: an event that is retried ends the scan.                         *)
Recheck_EndsScan ==
  /\ pc = "recheck"
  /\ \/ /\ SameIdentity /\ cur.outcome # "retry"
        /\ pc' = "move" /\ UNCHANGED <<cur, todo>>
     \/ /\ ~SameIdentity \/ cur.outcome = "retry"
        /\ pc' = "sleep" /\ todo' = {} /\ cur' = Idle
  /\ UNCHANGED <<spool, producers, source, backend, crashes, replayer>>

Recheck ==
  /\ pc = "recheck"
  /\ \/ /\ SameIdentity /\ cur.outcome # "retry"
        /\ pc' = "move" /\ UNCHANGED cur
     \/ /\ ~SameIdentity \/ cur.outcome = "retry"
        /\ Skip
  /\ UNCHANGED <<spool, producers, source, backend, todo, crashes, replayer>>

Leave(n) ==
  /\ pending' = [pending EXCEPT ![n] = 0]
  /\ touched' = [touched EXCEPT ![n] = FALSE]

(* move: the file that is under pending/ now goes to sent/.  The TIFF is   *)
(* considered for removal only afterwards.                                 *)
MoveToSent(n) ==
  /\ pc = "move" /\ cur.name = n /\ cur.outcome = "sent"
  /\ Leave(n)
  /\ sent' = [sent EXCEPT ![n] = @ \cup {pending[n]}]
  /\ \/ /\ cur.held # 0 /\ Event.src # 0 /\ Event.cleanup
        /\ pc' = "stat" /\ UNCHANGED cur
     \/ /\ cur.held = 0 \/ Event.src = 0 \/ ~Event.cleanup
        /\ Skip
  /\ UNCHANGED <<dead, deadCopies, producers, source, backend, todo, crashes, replayer>>

MoveToDeadLetter(n) ==
  /\ pc = "move" /\ cur.name = n /\ cur.outcome = "dead-letter"
  /\ Leave(n)
  /\ \/ /\ dead[n] = 0
        /\ dead' = [dead EXCEPT ![n] = pending[n]]
        /\ UNCHANGED deadCopies
     \/ /\ dead[n] # 0
        /\ deadCopies' = [deadCopies EXCEPT ![n] = @ \cup {pending[n]}]
        /\ UNCHANGED dead
  /\ Skip
  /\ UNCHANGED <<sent, producers, source, backend, todo, crashes, replayer>>

(* The event became a dead letter where its TIFF was inspected.            *)
InHandler ==
  /\ cur.outcome = "dead-letter" /\ cur.held = 0
  /\ Event.src # 0 /\ Kind[cur.name] # "fax-attempts"

(* An OSError from the rename leaves the event pending.  Where it happens  *)
(* in the handler of the inspection's ValueError, nobody catches it: main  *)
(* ends and the container starts it again.                                 *)
MoveFailed ==
  /\ pc = "move"
  /\ cur' = Idle
  /\ \/ InHandler /\ pc' = "sleep" /\ todo' = {}
     \/ ~InHandler /\ pc' = "next" /\ UNCHANGED todo
  /\ UNCHANGED <<spool, producers, source, backend, crashes, replayer>>

(* Faulty: the TIFF is removed by its name.                                *)
StatSource_NameOnly ==
  /\ pc = "stat"
  /\ pc' = "unlink" /\ UNCHANGED cur
  /\ UNCHANGED <<spool, producers, source, backend, todo, crashes, replayer>>

(* The TIFF must still be the file that was read ...                       *)
StatSource ==
  /\ pc = "stat"
  /\ \/ source[cur.name] = cur.held /\ pc' = "unlink" /\ UNCHANGED cur
     \/ source[cur.name] # cur.held /\ Skip
  /\ UNCHANGED <<spool, producers, source, backend, todo, crashes, replayer>>

(* ... and is then removed by name, unless unlink raises an OSError.       *)
UnlinkSource ==
  /\ pc = "unlink"
  /\ source' \in {source, [source EXCEPT ![cur.name] = 0]}
  /\ Skip
  /\ UNCHANGED <<spool, producers, backend, todo, crashes, replayer>>

(* The process is killed, or an exception nobody handles ends main; the    *)
(* container starts it again.                                              *)
Crash ==
  /\ pc # "sleep"
  /\ crashes < MaxCrashes
  /\ crashes' = crashes + 1
  /\ pc' = "sleep" /\ todo' = {} /\ cur' = Idle
  /\ UNCHANGED <<spool, producers, source, backend, replayer>>

-----------------------------------------------------------------------------
(* The operator: replay_dead_letter links the file into pending/ without   *)
(* replacing anything, then unlinks it from dead-letter/.                  *)

(* Faulty: a rename, which replaces what a producer wrote meanwhile.       *)
ReplayLink_Replaces(n) ==
  /\ replay[n] = 0
  /\ dead[n] # 0
  /\ pending' = [pending EXCEPT ![n] = dead[n]]
  /\ replay' = [replay EXCEPT ![n] = dead[n]]
  /\ UNCHANGED <<touched, sent, dead, deadCopies, producers, source, backend, forwarder, crashes, torn>>

ReplayLink(n) ==
  /\ replay[n] = 0
  /\ dead[n] # 0
  /\ pending[n] = 0
  /\ pending' = [pending EXCEPT ![n] = dead[n]]
  /\ replay' = [replay EXCEPT ![n] = dead[n]]
  /\ UNCHANGED <<touched, sent, dead, deadCopies, producers, source, backend, forwarder, crashes, torn>>

(* Faulty: the dead letter stays.                                          *)
ReplayUnlink_Stays(n) ==
  /\ replay[n] # 0
  /\ replay' = [replay EXCEPT ![n] = 0]
  /\ UNCHANGED <<spool, producers, source, backend, forwarder, crashes, torn>>

(* Unlinking one of the two names of the file moves its ctime.             *)
ReplayUnlink(n) ==
  /\ replay[n] # 0
  /\ dead' = [dead EXCEPT ![n] = 0]
  /\ touched' = [touched EXCEPT ![n] = @ \/ pending[n] = replay[n]]
  /\ replay' = [replay EXCEPT ![n] = 0]
  /\ UNCHANGED <<pending, sent, deadCopies, producers, source, backend, forwarder, crashes, torn>>

ReplayTorn(n) ==
  /\ replay[n] # 0
  /\ replay' = [replay EXCEPT ![n] = 0]
  /\ torn' = torn \cup {n}
  /\ UNCHANGED <<spool, producers, source, backend, forwarder, crashes>>

-----------------------------------------------------------------------------
ForwarderStep ==
  \/ StartScan \/ EndScan \/ InspectSource \/ Recheck
  \/ MoveFailed \/ StatSource \/ UnlinkSource
  \/ \E n \in Name :
       \/ ReadEvent(n)
       \/ UploadAccepted(n) \/ UploadFailed(n)
       \/ PostAccepted(n) \/ PostFailed(n)
       \/ MoveToSent(n) \/ MoveToDeadLetter(n)

Environment ==
  \/ Crash
  \/ \E n \in Name :
       \/ WriteSource(n) \/ WriteEvent(n)
       \/ ReplayLink(n) \/ ReplayUnlink(n) \/ ReplayTorn(n)

Next == ForwarderStep \/ Environment

Spec == Init /\ [][Next]_vars

ReadSource(n) == cur.name = n /\ (SourceRead \/ SourceDiffers) /\ InspectSource

(* The loop never stops.  A TIFF, the backend and the directories, tried   *)
(* for ever, can be read, accept and take the file at some time; for the   *)
(* names in Broken they never need to.                                     *)
Fairness ==
  /\ WF_vars(ForwarderStep)
  /\ \A n \in Name \ Broken : SF_vars(ReadSource(n))
                            /\ SF_vars(UploadAccepted(n))
                            /\ SF_vars(PostAccepted(n))
                            /\ SF_vars(MoveToSent(n) \/ MoveToDeadLetter(n))

FairSpec == Spec /\ Fairness

-----------------------------------------------------------------------------
(* Safety                                                                  *)

(* Only an event the backend has processed is filed under sent/: a file    *)
(* that replaced the delivered one has no acknowledgement and stays.       *)
SentWasAccepted == \A n \in Name : sent[n] \subseteq accepted[n]

(* Whatever fails or is replayed, the newest event of a name is still in   *)
(* one of the three directories: no rename or link replaces it.            *)
LatestEventKept ==
  \A n \in Name : writes[n] # 0 =>
    writes[n] \in {pending[n], dead[n]} \cup sent[n] \cup deadCopies[n]

(* A received FAX is in the backend's history only together with its       *)
(* document, and with the very bytes its binding names.                    *)
AcceptedFaxHasDocument ==
  \A n \in Name : \A k \in accepted[n] : content[n][k].needs =>
    \E v \in documents[n] : content[n][k].src \in {0, v}

(* An event file is in one place, so that nothing filed under sent/ is     *)
(* posted again.  The exceptions are a replay under way, which holds the   *)
(* file under two names, and a replay that was cut short there.            *)
OnePlace ==
  \A n \in Name \ torn :
    /\ pending[n] # 0 => pending[n] \notin sent[n] \cup deadCopies[n]
    /\ sent[n] \cap deadCopies[n] = {}
    /\ dead[n] # 0 /\ dead[n] \in {pending[n]} \cup sent[n] \cup deadCopies[n]
         => replay[n] = dead[n]

(* The only copy of a FAX page is never removed early: a TIFF goes away    *)
(* only after an event bound to that very version, allowing its cleanup,   *)
(* was accepted and filed under sent/, and for a received FAX only after   *)
(* the backend stored its bytes.                                           *)
Releasable(n) ==
  /\ \E k \in sent[n] \cap accepted[n] :
       content[n][k].src = source[n] /\ content[n][k].cleanup
  /\ Kind[n] = "faxes" => source[n] \in documents[n]

SourceRemovedOnlyAfterAck ==
  [][\A n \in Name : source[n] # 0 /\ source'[n] = 0 => Releasable(n)]_vars

(* Refinement                                                              *)

(* All that was set aside under a name; 0 is no file.                      *)
Refused == [n \in Name |-> deadCopies[n] \cup ({dead[n]} \ {0})]

Delivery == INSTANCE EventDelivery
              WITH written <- writes, waiting <- pending, known <- accepted,
                   filed <- sent, refused <- Refused

(* The directories keep the promise of EventDelivery at every step: of a   *)
(* name only one event waits, what is filed was processed, nothing that    *)
(* waits is replaced by a replay, and no newest event disappears.          *)
ImplementsDelivery == Delivery!Spec

(* Liveness                                                                *)

(* A received FAX whose TIFF is gone is retried for ever.                  *)
SourceGone(n) ==
  /\ pending[n] # 0 /\ source[n] = 0
  /\ Kind[n] = "faxes" /\ content[n][pending[n]].needs

(* Every pending event is filed sooner or later, through crashes, outages  *)
(* and replays, unless its TIFF is missing; an event that is refused or    *)
(* retried for ever does not keep the scan from the others.                *)
EventuallyFiled ==
  \A n \in Name \ Broken : pending[n] # 0 ~> (pending[n] = 0 \/ SourceGone(n))
=============================================================================

