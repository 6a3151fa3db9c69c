------------------------ MODULE EventDeliveryProofs ------------------------
(***************************************************************************)
(* EventForwarder implements EventDelivery for the names outside Raced,    *)
(* whatever happens to the files of the others, and so for all names when  *)
(* Raced is empty; and every event file is in one place.                   *)
(***************************************************************************)
EXTENDS EventForwarderProofs

(* The promise of EventDelivery, seen at some of the names only.           *)
At(f) == [n \in Unraced |-> f[n]]

UnracedDelivery == INSTANCE EventDelivery
  WITH Name <- Unraced, written <- At(writes), waiting <- At(pending),
       known <- At(accepted), filed <- At(sent), refused <- At(Refused)

(* What the refinement rests on: the acknowledgement of the event in hand, *)
(* and where the file of a replay under way is.                            *)
Promise == Acknowledged /\ ReplayInv /\ LatestEventKept

LEMMA PromiseInit == Init => Promise
  BY AcknowledgedInit DEF Init, Promise, ReplayInv, LatestEventKept

LEMMA PromiseStep == Promise /\ [Next]_vars => Promise'
<1> SUFFICES ASSUME Promise, [Next]_vars PROVE Promise'
  OBVIOUS
<1>1. Kept
  BY DEF Promise, Acknowledged, Delivered, Kept
<1> QED
  BY <1>1, KeptStep, AcknowledgedStep DEF Promise

(* The abstract state is a function of these variables.                    *)
LEMMA DeliveryStutters ==
  ASSUME UNCHANGED <<pending, sent, dead, deadCopies, writes, accepted>>
  PROVE  UNCHANGED UnracedDelivery!vars
  BY DEF UnracedDelivery!vars, At, Refused

(* The typing that the steps below rest on.                                *)
LEMMA PromiseType ==
  ASSUME Promise
  PROVE  /\ pending \in [Name -> 0 .. MaxWrites] /\ dead \in [Name -> 0 .. MaxWrites]
         /\ sent \in [Name -> SUBSET Version] /\ deadCopies \in [Name -> SUBSET Version]
         /\ accepted \in [Name -> SUBSET Version] /\ writes \in [Name -> 0 .. MaxWrites]
         /\ 0 \notin Version
  BY DEF Promise, Acknowledged, Delivered, Typed, TypeOK, SpoolTypeOK, ProducersTypeOK,
     BackendTypeOK, Version

LEMMA NameUnraced == ASSUME NEW n \in Unraced PROVE n \in Name /\ n \notin Raced
  BY DEF Unraced

(* A step on the files of a raced name is invisible here.                  *)
LEMMA RacedStutters ==
  ASSUME NEW n \in Name \ Unraced, [Next]_vars, Promise,
         \/ WriteEvent(n) \/ PostAccepted(n) \/ PostFailed(n) \/ MoveToSent(n)
         \/ MoveToDeadLetter(n) \/ ReplayLink(n) \/ ReplayUnlink(n)
  PROVE  UNCHANGED UnracedDelivery!vars
<1>1. ASSUME NEW m \in Unraced
      PROVE  /\ writes'[m] = writes[m] /\ pending'[m] = pending[m] /\ sent'[m] = sent[m]
             /\ accepted'[m] = accepted[m] /\ dead'[m] = dead[m] /\ deadCopies'[m] = deadCopies[m]
  BY PromiseType, NameUnraced
     DEF WriteEvent, PostAccepted, PostFailed, MoveToSent, MoveToDeadLetter, Leave,
         ReplayLink, ReplayUnlink, spool, producers, backend
<1>2. \A m \in Unraced : Refused'[m] = Refused[m]
  BY <1>1, NameUnraced DEF Refused
<1> QED
  BY <1>1, <1>2 DEF UnracedDelivery!vars, At

LEMMA WriteMaps ==
  ASSUME Promise, NEW n \in Unraced, WriteEvent(n)
  PROVE  UnracedDelivery!Write(n)
<1>1. /\ writes' = [writes EXCEPT ![n] = @ + 1]
      /\ pending' = [pending EXCEPT ![n] = writes[n] + 1]
      /\ UNCHANGED <<accepted, sent, dead, deadCopies>>
  BY DEF WriteEvent, backend
<1> QED
  BY <1>1, PromiseType, NameUnraced DEF UnracedDelivery!Write, At, Refused

LEMMA PostMaps ==
  ASSUME Promise, NEW n \in Unraced, PostAccepted(n) \/ PostFailed(n)
  PROVE  UnracedDelivery!Deliver(n) \/ UNCHANGED UnracedDelivery!vars
<1>1. /\ UNCHANGED <<pending, sent, dead, deadCopies, writes>>
      /\ pc = "post" /\ cur.name = n
  BY DEF PostAccepted, PostFailed, spool, producers
<1>2. cur.id \in 1 .. writes[n]
  BY <1>1 DEF Promise, Acknowledged, Delivered, Typed, ScanInv, Loaded, Waiting
<1>3. \/ accepted' = [accepted EXCEPT ![n] = @ \cup {cur.id}]
      \/ accepted' = [accepted EXCEPT ![n] = @ \cup {}]
  BY DEF PostAccepted, PostFailed
<1>4. CASE accepted' = [accepted EXCEPT ![n] = @ \cup {cur.id}]
  <2>1. At(accepted)' = [At(accepted) EXCEPT ![n] = @ \cup {cur.id}]
    BY <1>4, PromiseType, NameUnraced DEF At
  <2>2. cur.id \in 1 .. At(writes)[n]
    BY <1>2 DEF At
  <2>3. UNCHANGED <<At(writes), At(pending), At(sent), At(Refused)>>
    BY <1>1 DEF At, Refused
  <2> QED
    BY <2>1, <2>2, <2>3 DEF UnracedDelivery!Deliver
<1>5. CASE accepted' = [accepted EXCEPT ![n] = @ \cup {}]
  <2>1. accepted' = accepted
    BY <1>5, PromiseType, NameUnraced
  <2> QED
    BY <1>1, <2>1, DeliveryStutters
<1> QED
  BY <1>3, <1>4, <1>5

LEMMA SentMaps ==
  ASSUME Promise, NEW n \in Unraced, MoveToSent(n)
  PROVE  UnracedDelivery!File(n)
<1>1. pending[n] \in accepted[n]
  BY NameUnraced DEF MoveToSent, Promise, Acknowledged, Delivered, WindowInv, ProgressInv,
     Loaded, Waiting
<1>2. /\ pending' = [pending EXCEPT ![n] = 0]
      /\ sent' = [sent EXCEPT ![n] = @ \cup {pending[n]}]
      /\ UNCHANGED <<writes, accepted, dead, deadCopies>>
  BY DEF MoveToSent, Leave, producers, backend
<1> QED
  BY <1>1, <1>2, PromiseType, NameUnraced DEF UnracedDelivery!File, At, Refused

LEMMA DeadLetterMaps ==
  ASSUME Promise, NEW n \in Unraced, MoveToDeadLetter(n)
  PROVE  UnracedDelivery!Refuse(n)
<1> USE NameUnraced
<1>1. pending[n] # 0
  BY DEF MoveToDeadLetter, Promise, Acknowledged, Delivered, Typed, ScanInv
<1>2. /\ pending' = [pending EXCEPT ![n] = 0]
      /\ UNCHANGED <<writes, accepted, sent>>
  BY DEF MoveToDeadLetter, Leave, producers, backend
<1>3. Refused' = [Refused EXCEPT ![n] = @ \cup {pending[n]}]
  <2>1. \A k \in Name \ {n} : Refused'[k] = Refused[k]
    BY PromiseType DEF MoveToDeadLetter, Refused
  <2>2. Refused'[n] = Refused[n] \cup {pending[n]}
    BY <1>1, PromiseType DEF MoveToDeadLetter, Refused
  <2> QED
    BY <2>1, <2>2 DEF Refused
<1>4. At(Refused)' = [At(Refused) EXCEPT ![n] = @ \cup {pending[n]}]
  <2>1. DOMAIN Refused = Name
    BY DEF Refused
  <2> QED
    BY <1>3, <2>1 DEF At, Unraced
<1> QED
  BY <1>1, <1>2, <1>4, PromiseType DEF UnracedDelivery!Refuse, At

LEMMA LinkMaps ==
  ASSUME Promise, NEW n \in Unraced, ReplayLink(n)
  PROVE  UnracedDelivery!Replay(n)
<1> USE NameUnraced
<1>1. dead[n] \in At(Refused)[n]
  BY DEF ReplayLink, Refused, At
<1>2. /\ pending[n] = 0 /\ pending' = [pending EXCEPT ![n] = dead[n]]
      /\ UNCHANGED <<writes, accepted, sent, dead, deadCopies>>
  BY DEF ReplayLink, producers, backend
<1>3. At(pending)' = [At(pending) EXCEPT ![n] = dead[n]]
  BY <1>2, PromiseType DEF At
<1> QED
  BY <1>1, <1>2, <1>3 DEF UnracedDelivery!Replay, At, Refused

(* A dead letter that has a copy of its own version stays set aside.       *)
LEMMA UnlinkMaps ==
  ASSUME Promise, NEW n \in Unraced, ReplayUnlink(n)
  PROVE  UnracedDelivery!Forget(n) \/ UNCHANGED UnracedDelivery!vars
<1> USE NameUnraced
<1>1. dead[n] = replay[n] /\ dead[n] # 0
  BY DEF ReplayUnlink, Promise, ReplayInv
<1>2. \A k \in Name \ {n} : Refused'[k] = Refused[k]
  BY PromiseType DEF ReplayUnlink, Refused
<1>3. Refused'[n] = deadCopies[n]
  BY PromiseType DEF ReplayUnlink, Refused
<1>4. Refused[n] = deadCopies[n] \cup {dead[n]}
  BY <1>1 DEF Refused
<1>5. UNCHANGED <<pending, sent, writes, accepted>>
  BY DEF ReplayUnlink, producers, backend
<1>6. CASE dead[n] \in deadCopies[n]
  <2>1. Refused' = Refused
    BY <1>2, <1>3, <1>4, <1>6 DEF Refused
  <2> QED
    BY <1>5, <2>1 DEF UnracedDelivery!vars, At
<1>7. CASE dead[n] \notin deadCopies[n]
  <2>1. dead[n] = pending[n] \/ dead[n] \in sent[n] \/ dead[n] < writes[n]
    BY <1>1, <1>7 DEF Promise, ReplayInv
  <2>2. Refused'[n] = Refused[n] \ {dead[n]}
    BY <1>3, <1>4, <1>7
  <2>3. At(Refused)' = [At(Refused) EXCEPT ![n] = @ \ {dead[n]}]
    BY <1>2, <2>2 DEF At, Unraced
  <2>4. dead[n] \in At(Refused)[n]
    BY <1>4 DEF At
  <2>5. dead[n] = At(pending)[n] \/ dead[n] \in At(sent)[n] \/ dead[n] < At(writes)[n]
    BY <2>1 DEF At
  <2>6. UNCHANGED <<At(pending), At(sent), At(writes), At(accepted)>>
    BY <1>5 DEF At
  <2> QED
    BY <2>3, <2>4, <2>5, <2>6 DEF UnracedDelivery!Forget
<1> QED
  BY <1>6, <1>7

(* Each step of the spool and its forwarder is one of EventDelivery, or    *)
(* leaves the abstract state alone.                                        *)
LEMMA StepMaps ==
  ASSUME Promise, [Next]_vars
  PROVE  UnracedDelivery!Next \/ UNCHANGED UnracedDelivery!vars
<1> DEFINE Goal == UnracedDelivery!Next \/ UNCHANGED UnracedDelivery!vars
<1>1. ASSUME NEW n \in Name,
             \/ WriteEvent(n) \/ PostAccepted(n) \/ PostFailed(n) \/ MoveToSent(n)
             \/ MoveToDeadLetter(n) \/ ReplayLink(n) \/ ReplayUnlink(n)
      PROVE  Goal
  <2>1. CASE n \notin Unraced
    BY <1>1, <2>1, RacedStutters
  <2>2. CASE n \in Unraced
    BY <1>1, <2>2, WriteMaps, PostMaps, SentMaps, DeadLetterMaps, LinkMaps, UnlinkMaps
       DEF UnracedDelivery!Next
  <2> QED
    BY <2>1, <2>2
<1>2. ASSUME \/ UNCHANGED vars \/ Crash
             \/ StartScan \/ EndScan \/ InspectSource \/ Recheck
             \/ MoveFailed \/ StatSource \/ UnlinkSource
             \/ \E n \in Name : \/ ReadEvent(n) \/ UploadAccepted(n) \/ UploadFailed(n)
                                \/ WriteSource(n) \/ ReplayTorn(n)
      PROVE  Goal
  <2>1. UNCHANGED <<pending, sent, dead, deadCopies, writes, accepted>>
    BY <1>2 DEF vars, Crash, StartScan, EndScan, InspectSource, Recheck, MoveFailed,
       StatSource, UnlinkSource, ReadEvent, UploadAccepted, UploadFailed, WriteSource,
       ReplayTorn, spool, producers, backend
  <2> QED
    BY <2>1, DeliveryStutters
<1> QED
  BY <1>1, <1>2 DEF Next, ForwarderStep, Environment

LEMMA InitMaps == Init => UnracedDelivery!Init
  BY NameUnraced DEF Init, UnracedDelivery!Init, At, Refused

(* Whatever crashes, fails, is rewritten or replayed, the three            *)
(* directories, seen without files, requests and program counters, keep    *)
(* the promise of EventDelivery for every name that is not rewritten       *)
(* between an identity check and the rename it guards; a name that is      *)
(* harms no other.                                                         *)
THEOREM UnracedDelivers == Spec => UnracedDelivery!Spec
<1>1. Promise /\ [Next]_vars => [UnracedDelivery!Next]_(UnracedDelivery!vars)
  BY StepMaps
<1> QED
  BY InitMaps, PromiseInit, PromiseStep, <1>1, PTL DEF Spec, UnracedDelivery!Spec

(* When no name is raced the abstract state is that of all names.          *)
LEMMA AllUnraced ==
  ASSUME Raced = {}, Promise
  PROVE  /\ Unraced = Name
         /\ At(writes) = writes /\ At(pending) = pending /\ At(accepted) = accepted
         /\ At(sent) = sent /\ At(Refused) = Refused
<1>1. Unraced = Name
  BY DEF Unraced
<1> QED
  BY <1>1, PromiseType DEF At, Refused

(* ImplementsDelivery: the promise for all names, when none is rewritten   *)
(* between a check and the rename it guards.                               *)
THEOREM ForwarderDelivers ==
  ASSUME Raced = {}
  PROVE  Spec => ImplementsDelivery
<1>1. Init => Delivery!Init
  BY DEF Init, Delivery!Init, Refused
<1>2. ASSUME Promise, Promise', [Next]_vars
      PROVE  [Delivery!Next]_(Delivery!vars)
  <2>1. UnracedDelivery!Next \/ UNCHANGED UnracedDelivery!vars
    BY <1>2, StepMaps
  <2>2. /\ Unraced = Name
        /\ At(writes) = writes /\ At(pending) = pending /\ At(accepted) = accepted
        /\ At(sent) = sent /\ At(Refused) = Refused
    BY <1>2, AllUnraced
  <2>3. /\ At(writes)' = writes' /\ At(pending)' = pending' /\ At(accepted)' = accepted'
        /\ At(sent)' = sent' /\ At(Refused)' = Refused'
    <3>1. /\ writes' \in [Name -> 0 .. MaxWrites] /\ pending' \in [Name -> 0 .. MaxWrites]
          /\ accepted' \in [Name -> SUBSET Version] /\ sent' \in [Name -> SUBSET Version]
      BY <1>2 DEF Promise, Acknowledged, Delivered, Typed, TypeOK, SpoolTypeOK,
         ProducersTypeOK, BackendTypeOK
    <3> QED
      BY <2>2, <3>1 DEF At, Refused
  <2>4. CASE UNCHANGED UnracedDelivery!vars
    BY <2>2, <2>3, <2>4 DEF UnracedDelivery!vars, Delivery!vars
  <2>5. CASE UnracedDelivery!Next
    BY <2>2, <2>3, <2>5
       DEF UnracedDelivery!Next, UnracedDelivery!Write, UnracedDelivery!Deliver,
           UnracedDelivery!File, UnracedDelivery!Refuse, UnracedDelivery!Replay,
           UnracedDelivery!Forget, Delivery!Next, Delivery!Write, Delivery!Deliver,
           Delivery!File, Delivery!Refuse, Delivery!Replay, Delivery!Forget
  <2> QED
    BY <2>1, <2>4, <2>5
<1> QED
  BY <1>1, <1>2, PromiseInit, PromiseStep, PTL DEF Spec, ImplementsDelivery, Delivery!Spec

-----------------------------------------------------------------------------
(* One place                                                               *)

(* The copies of dead letters are events that were written.                *)
CopiesWritten == \A n \in Name : deadCopies[n] \subseteq 1 .. writes[n]

Placed == Typed /\ CopiesWritten /\ OnePlace

LEMMA PlacedStep ==
  ASSUME Placed, [Next]_vars
  PROVE  CopiesWritten' /\ OnePlace'
<1> DEFINE Goal == CopiesWritten' /\ OnePlace'
<1> USE DEF Placed, Typed, TypeOK, SpoolTypeOK, ProducersTypeOK, ReplayerTypeOK, WrittenInv,
        CopiesWritten, OnePlace, Version
<1>1. ASSUME NEW n \in Name, WriteEvent(n) PROVE Goal
  BY <1>1 DEF WriteEvent, replayer
<1>2. ASSUME NEW n \in Name, MoveToSent(n) PROVE Goal
  BY <1>2 DEF MoveToSent, Leave, producers, replayer
<1>3. ASSUME NEW n \in Name, MoveToDeadLetter(n) PROVE Goal
  <2>1. pending[n] # 0 /\ pending[n] \in 1 .. writes[n]
    BY <1>3 DEF MoveToDeadLetter, ScanInv
  <2>2. ASSUME NEW m \in Name
        PROVE  deadCopies'[m] \subseteq 1 .. writes'[m]
    <3>1. writes' = writes /\ deadCopies'[m] \subseteq deadCopies[m] \cup {pending[n]}
      BY <1>3 DEF MoveToDeadLetter, producers
    <3>2. m # n => deadCopies'[m] = deadCopies[m]
      BY <1>3 DEF MoveToDeadLetter
    <3> QED
      BY <2>1, <3>1, <3>2
  <2>3. OnePlace'
    BY <1>3, <2>1 DEF MoveToDeadLetter, Leave, replayer
  <2> QED
    BY <2>2, <2>3
<1>4. ASSUME NEW n \in Name, ReplayLink(n) PROVE Goal
  BY <1>4 DEF ReplayLink, producers
<1>5. ASSUME NEW n \in Name, ReplayUnlink(n) PROVE Goal
  BY <1>5 DEF ReplayUnlink, producers
<1>6. ASSUME NEW n \in Name, ReplayTorn(n) PROVE Goal
  BY <1>6 DEF ReplayTorn, spool, producers
<1>7. ASSUME \/ UNCHANGED vars \/ Crash
             \/ StartScan \/ EndScan \/ InspectSource \/ Recheck
             \/ MoveFailed \/ StatSource \/ UnlinkSource
             \/ \E n \in Name : \/ ReadEvent(n) \/ UploadAccepted(n) \/ UploadFailed(n)
                                \/ PostAccepted(n) \/ PostFailed(n) \/ WriteSource(n)
      PROVE  Goal
  <2>1. UNCHANGED <<spool, writes, replayer>>
    BY <1>7 DEF vars, Crash, StartScan, EndScan, InspectSource, Recheck, MoveFailed,
       StatSource, UnlinkSource, ReadEvent, UploadAccepted, UploadFailed, PostAccepted,
       PostFailed, WriteSource, producers
  <2> QED
    BY <2>1 DEF spool, replayer
<1> QED
  BY <1>1, <1>2, <1>3, <1>4, <1>5, <1>6, <1>7 DEF Next, ForwarderStep, Environment

(* Races, crashes and failing renames included, an event file is in one    *)
(* directory, except while a replay holds it under two names or was cut    *)
(* short there.                                                            *)
THEOREM FilesHaveOnePlace == Spec => []OnePlace
<1>1. Init => Placed
  BY TypedInit DEF Init, Placed, CopiesWritten, OnePlace
<1>2. Placed /\ [Next]_vars => Placed'
  BY PlacedStep, TypeStep, ScanStep, WrittenStep DEF Placed, Typed
<1>3. Placed => OnePlace
  BY DEF Placed
<1> QED
  BY <1>1, <1>2, <1>3, PTL DEF Spec
=============================================================================
