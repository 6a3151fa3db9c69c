------------------------- MODULE FaxDispatchProofs -------------------------
(***************************************************************************)
(* Theorems about FaxDispatch, for any jobs and any number of claims and   *)
(* restarts.  The inductive invariant says of each attempt when it may     *)
(* still act, also when a restart has left its call file after its result, *)
(* what its stage has left on the disk, what an answer excludes for good,  *)
(* and what its result claims.  The TIFF of an earlier call is what stops  *)
(* a second one; the parts that rest on it except the attempts whose TIFF  *)
(* was removed under a running prepare.  From the same invariant, every    *)
(* step is one of FaxDelivery or none.                                     *)
(***************************************************************************)
EXTENDS FaxDispatch, TLAPS

InHand(a) == claims[a[1]] = a[2] /\ state[a[1]] \in {"sending", "unconfirmed"}
Undoing == {"undoTiff", "undoPdf"}
Bound == {"publish", "ready"} \cup Calling

(* Who acts before a report acts on the last claim of a job that is not    *)
(* back in the queue.  After it only the channel is left to close, or the  *)
(* call file was launched again.                                           *)
ActiveOf(a) ==
  /\ a \in held => a \notin callfile /\ result[a] = NoResult
  /\ a \in held \cup callfile /\ result[a] = NoResult => InHand(a)
  /\ a \in callfile /\ result[a] # NoResult =>
       a \in reopened \/ stage[a] \in Undoing \cup {"closing"}
  /\ a \in reopened => result[a] # NoResult
  /\ a \in exposed => a \in reopened

(* A launched call has its call file, from the conversion on its TIFF, and *)
(* pages are sent to whoever answered.                                     *)
StageOf(a) ==
  /\ stage[a] \notin {"none", "over"} => a \in callfile
  /\ stage[a] \in Bound => a \in tif
  /\ stage[a] \in {"answered", "transmitting"} => a \in answered
  /\ a \in transmitted => a \in answered
  /\ stage[a] = "undoTiff" => result[a].outcome = "permanent_failure" /\ ~result[a].cleanup

(* The TIFF of a call that was reported stays until the backend has the    *)
(* report, and for the cleanup; nobody prepares that call again over it.   *)
KeptOf(a) ==
  /\ a \in acked => ~InHand(a)
  /\ result[a].cleanup /\ (InHand(a) \/ a \in acked) => a \in tif /\ stage[a] \notin Bound
  /\ a \in callfile /\ InHand(a) /\ result[a].outcome \in {"sent", "retryable_failure"} =>
       a \in tif /\ stage[a] \notin Bound

(* A call file that is launched again after a call was reported is stopped *)
(* by the TIFF, or by the comparison of the claims before that.            *)
StoppedOf(a) ==
  a \in callfile /\ a \notin exposed =>
    /\ result[a].outcome \in {"sent", "retryable_failure"} =>
         /\ stage[a] \notin Bound \cup {"undoTiff"}
         /\ stage[a] \in {"fetch", "convert"} => a \in tif
    /\ stage[a] \in {"fetch", "convert"} /\ a \notin tif =>
         claims[a[1]] = a[2] /\ state[a[1]] # "queued"
    /\ stage[a] \in Bound => claims[a[1]] = a[2] /\ state[a[1]] # "queued"
    /\ stage[a] \in Undoing /\ a \notin reopened =>
         /\ claims[a[1]] = a[2] /\ state[a[1]] # "queued"
         /\ result[a].outcome \in {"none", "permanent_failure"}

(* An answered attempt is the last of its job, and when its call file is   *)
(* launched again the TIFF it left, or the claim, keeps it from dialling.  *)
AnsweredOf(a) ==
  a \in answered /\ a \notin exposed =>
    /\ claims[a[1]] = a[2] /\ state[a[1]] # "queued" /\ a \notin held
    /\ a \in callfile =>
         /\ stage[a] \notin {"publish", "ready", "dialing", "undoTiff"}
         /\ InHand(a) \/ stage[a] \in {"fetch", "convert"} => a \in tif

(* What an attempt reported is so.                                         *)
ReportOf(a) ==
  /\ result[a] # NoResult => result[a].outcome # "none" /\ a[2] <= claims[a[1]]
  /\ result[a].outcome = "retryable_failure" /\ a \notin exposed => a \notin answered
  /\ result[a].outcome = "sent" => a \in transmitted
  /\ a \in acked => result[a] # NoResult

AttemptOf(a) ==
  /\ ActiveOf(a) /\ StageOf(a) /\ KeptOf(a)
  /\ StoppedOf(a) /\ AnsweredOf(a) /\ ReportOf(a)

AttemptInv == \A a \in Attempt : AttemptOf(a)

SentInv == \A j \in Job : state[j] = "sent" => <<j, claims[j]>> \in transmitted

IInv == TypeOK /\ AttemptInv /\ SentInv

LEMMA Pairs ==
  /\ \A a \in Attempt : a[1] \in Job /\ a[2] \in 1 .. MaxAttempts /\ a = <<a[1], a[2]>>
  /\ \A j \in Job, k \in 1 .. MaxAttempts :
       <<j, k>> \in Attempt /\ <<j, k>>[1] = j /\ <<j, k>>[2] = k
  /\ \A a, b \in Attempt : a[1] = b[1] /\ a[2] = b[2] => a = b
  BY DEF Attempt

(* A report changes the event of its attempt and takes back what was       *)
(* acknowledged of an earlier one.                                         *)
LEMMA Reports ==
  ASSUME TypeOK, NEW a \in Attempt, NEW outcome \in {"sent", "retryable_failure", "permanent_failure"},
         NEW cleanup \in BOOLEAN, Report(a, outcome, cleanup)
  PROVE  /\ result' \in [Attempt -> Result]
         /\ result'[a] # NoResult /\ result'[a].outcome = outcome /\ result'[a].cleanup = cleanup
         /\ \A b \in Attempt \ {a} : result'[b] = result[b]
         /\ acked' = acked \ {a}
<1>1. [outcome |-> outcome, cleanup |-> cleanup] \in Result
  BY DEF Result
<1>2. [outcome |-> outcome, cleanup |-> cleanup] # NoResult
  BY DEF NoResult
<1> QED
  BY <1>1, <1>2 DEF Report, TypeOK

(* What complete reports of an answered and of an unanswered call.         *)
LEMMA Completes ==
  ASSUME TypeOK, NEW a \in Attempt, NEW fax \in {"SUCCESS", "FAILED", "UNKNOWN"},
         NEW dial \in Busy \cup {"CANCEL", "UNKNOWN", "ANSWER"}, Complete(a, fax, dial)
  PROVE  /\ result' \in [Attempt -> Result]
         /\ \A b \in Attempt \ {a} : result'[b] = result[b]
         /\ \/ result' = result /\ acked' = acked
            \/ /\ result'[a] # NoResult /\ result'[a].outcome \in {"sent", "retryable_failure", "permanent_failure"}
               /\ result'[a].outcome = "sent" => fax = "SUCCESS"
               /\ result'[a].outcome = "retryable_failure" => dial # "ANSWER"
               /\ acked' = acked \ {a}
<1>1. OutcomeOf(fax, dial) \in {"sent", "retryable_failure", "permanent_failure"}
      /\ (OutcomeOf(fax, dial) = "sent" => fax = "SUCCESS")
      /\ (OutcomeOf(fax, dial) = "retryable_failure" => dial # "ANSWER")
  BY DEF OutcomeOf, Busy
<1>2. CASE UNCHANGED events
  BY <1>2 DEF TypeOK, events
<1>3. ASSUME NEW bound \in BOOLEAN,
             Report(a, OutcomeOf(fax, dial),
                    bound /\ (fax \in {"SUCCESS", "FAILED"} \/ dial \in Busy))
      PROVE  /\ result' \in [Attempt -> Result]
             /\ \A b \in Attempt \ {a} : result'[b] = result[b]
             /\ result'[a] # NoResult /\ result'[a].outcome = OutcomeOf(fax, dial)
             /\ acked' = acked \ {a}
  <2>1. PICK cleanup \in BOOLEAN : cleanup = (bound /\ (fax \in {"SUCCESS", "FAILED"} \/ dial \in Busy))
    OBVIOUS
  <2>2. Report(a, OutcomeOf(fax, dial), cleanup)
    BY <1>3, <2>1
  <2> QED
    BY <1>1, <2>2, Reports
<1> QED
  BY <1>1, <1>2, <1>3 DEF Complete

(* What each step that may report does to the events.                      *)
LEMMA QueueReports ==
  ASSUME TypeOK, NEW a \in Attempt, EnqueueFails(a)
  PROVE  /\ result' \in [Attempt -> Result]
         /\ \A b \in Attempt \ {a} : result'[b] = result[b]
         /\ \/ result' = result /\ acked' = acked
            \/ /\ result'[a] # NoResult /\ result'[a].outcome = "retryable_failure"
               /\ ~result'[a].cleanup /\ acked' = acked \ {a}
<1>1. CASE Report(a, "retryable_failure", FALSE)
  BY <1>1, Reports
<1>2. CASE UNCHANGED events
  BY <1>2 DEF TypeOK, events
<1> QED
  BY <1>1, <1>2 DEF EnqueueFails

LEMMA PrepareReports ==
  ASSUME TypeOK, NEW a \in Attempt, PrepareFails(a)
  PROVE  /\ result' \in [Attempt -> Result]
         /\ \A b \in Attempt \ {a} : result'[b] = result[b]
         /\ \/ result' = result /\ acked' = acked /\ stage'[a] # "undoTiff"
            \/ /\ result'[a] # NoResult /\ result'[a].outcome = "permanent_failure"
               /\ ~result'[a].cleanup /\ acked' = acked \ {a}
         /\ stage'[a] \in {"closing", "undoTiff", "undoPdf"}
         /\ stage'[a] = "undoTiff" => stage[a] = "publish"
         /\ \A b \in Attempt \ {a} : stage'[b] = stage[b]
         /\ stage' \in [Attempt -> Stage]
<1>1. PICK reported \in BOOLEAN :
        /\ IF reported THEN Report(a, "permanent_failure", FALSE) ELSE UNCHANGED events
        /\ stage' = [stage EXCEPT ![a] =
             IF @ = "fetch" THEN "closing"
             ELSE IF @ = "publish" /\ reported THEN "undoTiff" ELSE "undoPdf"]
  BY DEF PrepareFails
<1>2. /\ stage'[a] \in {"closing", "undoTiff", "undoPdf"}
      /\ stage'[a] = "undoTiff" => stage[a] = "publish" /\ reported
      /\ \A b \in Attempt \ {a} : stage'[b] = stage[b]
      /\ stage' \in [Attempt -> Stage]
  BY <1>1 DEF TypeOK, Stage, Preparing
<1>3. CASE reported
  BY <1>1, <1>2, <1>3, Reports
<1>4. CASE ~reported
  BY <1>1, <1>2, <1>4 DEF TypeOK, events
<1> QED
  BY <1>2, <1>3, <1>4

LEMMA DialReports ==
  ASSUME TypeOK, NEW a \in Attempt, DialFails(a)
  PROVE  /\ result' \in [Attempt -> Result]
         /\ \A b \in Attempt \ {a} : result'[b] = result[b]
         /\ \/ result' = result /\ acked' = acked
            \/ /\ result'[a] # NoResult
               /\ result'[a].outcome \in {"retryable_failure", "permanent_failure"}
               /\ acked' = acked \ {a}
<1>1. PICK dial \in Busy \cup {"CANCEL", "UNKNOWN"} : Complete(a, "UNKNOWN", dial)
  BY DEF DialFails
<1> QED
  BY <1>1, Completes

LEMMA TransmitReports ==
  ASSUME TypeOK, NEW a \in Attempt, TransmitEnds(a)
  PROVE  /\ result' \in [Attempt -> Result]
         /\ \A b \in Attempt \ {a} : result'[b] = result[b]
         /\ \/ result' = result /\ acked' = acked
            \/ /\ result'[a] # NoResult /\ result'[a].outcome \in {"sent", "permanent_failure"}
               /\ result'[a].outcome = "sent" => a \in transmitted'
               /\ acked' = acked \ {a}
         /\ transmitted' = transmitted \/ transmitted' = transmitted \cup {a}
<1>1. PICK fax \in {"SUCCESS", "FAILED", "UNKNOWN"}, arrived \in {{}, {a}} :
        /\ fax = "SUCCESS" => arrived = {a}
        /\ transmitted' = transmitted \cup arrived
        /\ Complete(a, fax, "ANSWER")
  BY DEF TransmitEnds
<1> QED
  BY <1>1, Completes

LEMMA TypeStep ==
  ASSUME IInv, [Next]_vars
  PROVE  TypeOK'
<1> USE ConstantsAssumption DEF IInv, TypeOK, Stage, Preparing, Calling, JobState, Over, backend,
        files, events, history
<1>1. ASSUME NEW j \in Job, Claim(j) PROVE TypeOK'
  BY <1>1, Pairs DEF Claim
<1>2. ASSUME NEW j \in Job, Expire(j) PROVE TypeOK'
  BY <1>2, Pairs DEF Expire
<1>3. ASSUME NEW a \in Attempt, Enqueue(a) PROVE TypeOK'
  BY <1>3, Pairs DEF Enqueue
<1>4. ASSUME NEW a \in Attempt, EnqueueFails(a) PROVE TypeOK'
  <2>1. result' \in [Attempt -> Result] /\ acked' \subseteq acked
    BY <1>4, QueueReports
  <2> QED
    BY <1>4, <2>1, Pairs DEF EnqueueFails
<1>5. ASSUME NEW a \in Attempt, Launch(a) PROVE TypeOK'
  BY <1>5, Pairs DEF Launch
<1>6. ASSUME NEW a \in Attempt, CheckClaim(a) PROVE TypeOK'
  BY <1>6, Pairs DEF CheckClaim
<1>7. ASSUME NEW a \in Attempt, CheckRefused(a) PROVE TypeOK'
  BY <1>7, Pairs DEF CheckRefused
<1>8. ASSUME NEW a \in Attempt, Fetch(a) PROVE TypeOK'
  BY <1>8, Pairs DEF Fetch
<1>9. ASSUME NEW a \in Attempt, Convert(a) PROVE TypeOK'
  BY <1>9, Pairs DEF Convert
<1>10. ASSUME NEW a \in Attempt, Publish(a) PROVE TypeOK'
  BY <1>10, Pairs DEF Publish
<1>11. ASSUME NEW a \in Attempt, PrepareFails(a) PROVE TypeOK'
  <2>1. result' \in [Attempt -> Result] /\ acked' \subseteq acked /\ stage' \in [Attempt -> Stage]
    BY <1>11, PrepareReports
  <2> QED
    BY <1>11, <2>1, Pairs DEF PrepareFails
<1>12. ASSUME NEW a \in Attempt, DiscardTiff(a) PROVE TypeOK'
  BY <1>12, Pairs DEF DiscardTiff
<1>13. ASSUME NEW a \in Attempt, DiscardPdf(a) PROVE TypeOK'
  BY <1>13, Pairs DEF DiscardPdf
<1>14. ASSUME NEW a \in Attempt, Killed(a) PROVE TypeOK'
  BY <1>14, Pairs DEF Killed
<1>15. ASSUME NEW a \in Attempt, Dial(a) PROVE TypeOK'
  BY <1>15, Pairs DEF Dial
<1>16. ASSUME NEW a \in Attempt, DialFails(a) PROVE TypeOK'
  <2>1. result' \in [Attempt -> Result] /\ acked' \subseteq acked
    BY <1>16, DialReports
  <2> QED
    BY <1>16, <2>1, Pairs DEF DialFails
<1>17. ASSUME NEW a \in Attempt, Answer(a) PROVE TypeOK'
  BY <1>17, Pairs DEF Answer
<1>18. ASSUME NEW a \in Attempt, AnswerLost(a) PROVE TypeOK'
  BY <1>18, Pairs DEF AnswerLost
<1>19. ASSUME NEW a \in Attempt, Transmit(a) PROVE TypeOK'
  BY <1>19, Pairs DEF Transmit
<1>20. ASSUME NEW a \in Attempt, TransmitEnds(a) PROVE TypeOK'
  <2>1. result' \in [Attempt -> Result] /\ acked' \subseteq acked /\ transmitted' \subseteq Attempt
    BY <1>20, TransmitReports
  <2> QED
    BY <1>20, <2>1, Pairs DEF TransmitEnds
<1>21. ASSUME NEW a \in Attempt, Close(a) PROVE TypeOK'
  BY <1>21, Pairs DEF Close
<1>22. ASSUME NEW a \in Attempt, Settle(a) PROVE TypeOK'
  BY <1>22, Pairs DEF Settle
<1>23. ASSUME NEW a \in Attempt, RemoveTiff(a) PROVE TypeOK'
  BY <1>23, Pairs DEF RemoveTiff
<1>24. CASE Restart
  BY <1>24, Pairs DEF Restart
<1>25. CASE UNCHANGED vars
  BY <1>25 DEF vars
<1> QED
  BY <1>1, <1>2, <1>3, <1>4, <1>5, <1>6, <1>7, <1>8, <1>9, <1>10, <1>11, <1>12, <1>13,
     <1>14, <1>15, <1>16, <1>17, <1>18, <1>19, <1>20, <1>21, <1>22, <1>23, <1>24, <1>25
     DEF Next, CallStep

LEMMA ActiveStep ==
  ASSUME IInv, [Next]_vars
  PROVE  \A b \in Attempt : ActiveOf(b)'
<1> SUFFICES ASSUME NEW b \in Attempt PROVE ActiveOf(b)'
  OBVIOUS
<1> USE ConstantsAssumption DEF IInv, TypeOK, AttemptInv, AttemptOf, ActiveOf, ReportOf, StageOf,
        InHand, Undoing, Bound, Calling, Preparing, Over, backend, files, events, history
<1>1. ASSUME NEW j \in Job, Claim(j) PROVE ActiveOf(b)'
  BY <1>1, Pairs DEF Claim
<1>2. ASSUME NEW j \in Job, Expire(j) PROVE ActiveOf(b)'
  BY <1>2, Pairs DEF Expire
<1>3. ASSUME NEW a \in Attempt, Enqueue(a) PROVE ActiveOf(b)'
  BY <1>3, Pairs DEF Enqueue
<1>4. ASSUME NEW a \in Attempt, EnqueueFails(a) PROVE ActiveOf(b)'
  <2> DEFINE Reported == /\ result' \in [Attempt -> Result]
                         /\ \A c \in Attempt \ {a} : result'[c] = result[c]
                         /\ \/ result' = result /\ acked' = acked
                            \/ /\ result'[a] # NoResult /\ result'[a].outcome = "retryable_failure"
                               /\ ~result'[a].cleanup /\ acked' = acked \ {a}
  <2>1. Reported
    BY <1>4, QueueReports
  <2>2. CASE b = a
    BY <1>4, <2>1, <2>2 DEF EnqueueFails
  <2>3. CASE b # a
    BY <1>4, <2>1, <2>3 DEF EnqueueFails
  <2> QED
    BY <2>2, <2>3
<1>5. ASSUME NEW a \in Attempt, Launch(a) PROVE ActiveOf(b)'
  BY <1>5, Pairs DEF Launch
<1>6. ASSUME NEW a \in Attempt, CheckClaim(a) PROVE ActiveOf(b)'
  BY <1>6, Pairs DEF CheckClaim
<1>7. ASSUME NEW a \in Attempt, CheckRefused(a) PROVE ActiveOf(b)'
  BY <1>7, Pairs DEF CheckRefused
<1>8. ASSUME NEW a \in Attempt, Fetch(a) PROVE ActiveOf(b)'
  BY <1>8, Pairs DEF Fetch
<1>9. ASSUME NEW a \in Attempt, Convert(a) PROVE ActiveOf(b)'
  BY <1>9, Pairs DEF Convert
<1>10. ASSUME NEW a \in Attempt, Publish(a) PROVE ActiveOf(b)'
  BY <1>10, Pairs DEF Publish
<1>11. ASSUME NEW a \in Attempt, PrepareFails(a) PROVE ActiveOf(b)'
  <2> DEFINE Reported == /\ result' \in [Attempt -> Result]
                         /\ \A c \in Attempt \ {a} : result'[c] = result[c]
                         /\ \/ result' = result /\ acked' = acked /\ stage'[a] # "undoTiff"
                            \/ /\ result'[a] # NoResult /\ result'[a].outcome = "permanent_failure"
                               /\ ~result'[a].cleanup /\ acked' = acked \ {a}
                         /\ stage'[a] \in {"closing", "undoTiff", "undoPdf"}
                         /\ stage'[a] = "undoTiff" => stage[a] = "publish"
                         /\ \A c \in Attempt \ {a} : stage'[c] = stage[c]
  <2>1. Reported
    BY <1>11, PrepareReports
  <2>2. CASE b = a
    BY <1>11, <2>1, <2>2 DEF PrepareFails
  <2>3. CASE b # a
    BY <1>11, <2>1, <2>3 DEF PrepareFails
  <2> QED
    BY <2>2, <2>3
<1>12. ASSUME NEW a \in Attempt, DiscardTiff(a) PROVE ActiveOf(b)'
  BY <1>12, Pairs DEF DiscardTiff
<1>13. ASSUME NEW a \in Attempt, DiscardPdf(a) PROVE ActiveOf(b)'
  BY <1>13, Pairs DEF DiscardPdf
<1>14. ASSUME NEW a \in Attempt, Killed(a) PROVE ActiveOf(b)'
  BY <1>14, Pairs DEF Killed
<1>15. ASSUME NEW a \in Attempt, Dial(a) PROVE ActiveOf(b)'
  BY <1>15, Pairs DEF Dial
<1>16. ASSUME NEW a \in Attempt, DialFails(a) PROVE ActiveOf(b)'
  <2> DEFINE Reported == /\ result' \in [Attempt -> Result]
                         /\ \A c \in Attempt \ {a} : result'[c] = result[c]
                         /\ \/ result' = result /\ acked' = acked
                            \/ /\ result'[a] # NoResult
                               /\ result'[a].outcome \in {"retryable_failure", "permanent_failure"}
                               /\ acked' = acked \ {a}
  <2>1. Reported
    BY <1>16, DialReports
  <2>2. CASE b = a
    <3>1. stage'[a] = "closing" /\ a \in callfile /\ a \notin held /\ held' = held /\ callfile' = callfile
      BY <1>16 DEF DialFails
    <3>2. UNCHANGED <<claims, state, reopened, exposed>>
      BY <1>16 DEF DialFails
    <3> QED
      BY <2>1, <2>2, <3>1, <3>2
  <2>3. CASE b # a
    BY <1>16, <2>1, <2>3 DEF DialFails
  <2> QED
    BY <2>2, <2>3
<1>17. ASSUME NEW a \in Attempt, Answer(a) PROVE ActiveOf(b)'
  BY <1>17, Pairs DEF Answer
<1>18. ASSUME NEW a \in Attempt, AnswerLost(a) PROVE ActiveOf(b)'
  BY <1>18, Pairs DEF AnswerLost
<1>19. ASSUME NEW a \in Attempt, Transmit(a) PROVE ActiveOf(b)'
  BY <1>19, Pairs DEF Transmit
<1>20. ASSUME NEW a \in Attempt, TransmitEnds(a) PROVE ActiveOf(b)'
  <2> DEFINE Reported == /\ result' \in [Attempt -> Result]
                         /\ \A c \in Attempt \ {a} : result'[c] = result[c]
                         /\ \/ result' = result /\ acked' = acked
                            \/ /\ result'[a] # NoResult /\ result'[a].outcome \in {"sent", "permanent_failure"}
                               /\ result'[a].outcome = "sent" => a \in transmitted'
                               /\ acked' = acked \ {a}
                         /\ transmitted' = transmitted \/ transmitted' = transmitted \cup {a}
  <2>1. Reported
    BY <1>20, TransmitReports
  <2>2. CASE b = a
    <3>1. stage'[a] = "closing" /\ a \in callfile /\ a \notin held /\ held' = held /\ callfile' = callfile
      BY <1>20 DEF TransmitEnds
    <3>2. UNCHANGED <<claims, state, reopened, exposed>>
      BY <1>20 DEF TransmitEnds
    <3> QED
      BY <2>1, <2>2, <3>1, <3>2
  <2>3. CASE b # a
    BY <1>20, <2>1, <2>3 DEF TransmitEnds
  <2> QED
    BY <2>2, <2>3
<1>21. ASSUME NEW a \in Attempt, Close(a) PROVE ActiveOf(b)'
  BY <1>21, Pairs DEF Close
<1>22. ASSUME NEW a \in Attempt, Settle(a) PROVE ActiveOf(b)'
  <2>1. claims[a[1]] = a[2] /\ result[a] # NoResult
    BY <1>22 DEF Settle, Accepts, IsCurrent
  <2>2. CASE b[1] = a[1] /\ b # a
    <3>1. claims[b[1]] # b[2]
      BY <2>1, <2>2, Pairs
    <3> QED
      BY <1>22, <2>1, <3>1 DEF Settle
  <2>3. CASE b = a
    BY <1>22, <2>1, <2>3 DEF Settle
  <2>4. CASE b[1] # a[1]
    <3>1. state'[b[1]] = state[b[1]]
      BY <1>22, <2>4, Pairs DEF Settle
    <3> QED
      BY <1>22, <3>1 DEF Settle
  <2> QED
    BY <2>2, <2>3, <2>4
<1>23. ASSUME NEW a \in Attempt, RemoveTiff(a) PROVE ActiveOf(b)'
  BY <1>23, Pairs DEF RemoveTiff
<1>24. CASE Restart
  BY <1>24, Pairs DEF Restart
<1>25. CASE UNCHANGED vars
  BY <1>25 DEF vars
<1> QED
  BY <1>1, <1>2, <1>3, <1>4, <1>5, <1>6, <1>7, <1>8, <1>9, <1>10, <1>11, <1>12, <1>13,
     <1>14, <1>15, <1>16, <1>17, <1>18, <1>19, <1>20, <1>21, <1>22, <1>23, <1>24, <1>25
     DEF Next, CallStep

LEMMA StageStep ==
  ASSUME IInv, [Next]_vars
  PROVE  \A b \in Attempt : StageOf(b)'
<1> SUFFICES ASSUME NEW b \in Attempt PROVE StageOf(b)'
  OBVIOUS
<1> USE ConstantsAssumption DEF IInv, TypeOK, AttemptInv, AttemptOf, ActiveOf, KeptOf, StageOf,
        InHand, Undoing, Bound, Calling, Preparing, Over, backend, files, events, history
<1>1. ASSUME NEW j \in Job, Claim(j) PROVE StageOf(b)'
  BY <1>1, Pairs DEF Claim
<1>2. ASSUME NEW j \in Job, Expire(j) PROVE StageOf(b)'
  BY <1>2, Pairs DEF Expire
<1>3. ASSUME NEW a \in Attempt, Enqueue(a) PROVE StageOf(b)'
  BY <1>3, Pairs DEF Enqueue
<1>4. ASSUME NEW a \in Attempt, EnqueueFails(a) PROVE StageOf(b)'
  <2> DEFINE Reported == /\ result' \in [Attempt -> Result]
                         /\ \A c \in Attempt \ {a} : result'[c] = result[c]
                         /\ \/ result' = result /\ acked' = acked
                            \/ /\ result'[a] # NoResult /\ result'[a].outcome = "retryable_failure"
                               /\ ~result'[a].cleanup /\ acked' = acked \ {a}
  <2>1. Reported
    BY <1>4, QueueReports
  <2>2. CASE b = a
    BY <1>4, <2>1, <2>2 DEF EnqueueFails
  <2>3. CASE b # a
    BY <1>4, <2>1, <2>3 DEF EnqueueFails
  <2> QED
    BY <2>2, <2>3
<1>5. ASSUME NEW a \in Attempt, Launch(a) PROVE StageOf(b)'
  BY <1>5, Pairs DEF Launch
<1>6. ASSUME NEW a \in Attempt, CheckClaim(a) PROVE StageOf(b)'
  BY <1>6, Pairs DEF CheckClaim
<1>7. ASSUME NEW a \in Attempt, CheckRefused(a) PROVE StageOf(b)'
  BY <1>7, Pairs DEF CheckRefused
<1>8. ASSUME NEW a \in Attempt, Fetch(a) PROVE StageOf(b)'
  BY <1>8, Pairs DEF Fetch
<1>9. ASSUME NEW a \in Attempt, Convert(a) PROVE StageOf(b)'
  BY <1>9, Pairs DEF Convert
<1>10. ASSUME NEW a \in Attempt, Publish(a) PROVE StageOf(b)'
  BY <1>10, Pairs DEF Publish
<1>11. ASSUME NEW a \in Attempt, PrepareFails(a) PROVE StageOf(b)'
  <2> DEFINE Reported == /\ result' \in [Attempt -> Result]
                         /\ \A c \in Attempt \ {a} : result'[c] = result[c]
                         /\ \/ result' = result /\ acked' = acked /\ stage'[a] # "undoTiff"
                            \/ /\ result'[a] # NoResult /\ result'[a].outcome = "permanent_failure"
                               /\ ~result'[a].cleanup /\ acked' = acked \ {a}
                         /\ stage'[a] \in {"closing", "undoTiff", "undoPdf"}
                         /\ stage'[a] = "undoTiff" => stage[a] = "publish"
                         /\ \A c \in Attempt \ {a} : stage'[c] = stage[c]
  <2>1. Reported
    BY <1>11, PrepareReports
  <2>2. CASE b = a
    BY <1>11, <2>1, <2>2 DEF PrepareFails
  <2>3. CASE b # a
    BY <1>11, <2>1, <2>3 DEF PrepareFails
  <2> QED
    BY <2>2, <2>3
<1>12. ASSUME NEW a \in Attempt, DiscardTiff(a) PROVE StageOf(b)'
  BY <1>12, Pairs DEF DiscardTiff
<1>13. ASSUME NEW a \in Attempt, DiscardPdf(a) PROVE StageOf(b)'
  BY <1>13, Pairs DEF DiscardPdf
<1>14. ASSUME NEW a \in Attempt, Killed(a) PROVE StageOf(b)'
  BY <1>14, Pairs DEF Killed
<1>15. ASSUME NEW a \in Attempt, Dial(a) PROVE StageOf(b)'
  BY <1>15, Pairs DEF Dial
<1>16. ASSUME NEW a \in Attempt, DialFails(a) PROVE StageOf(b)'
  <2> DEFINE Reported == /\ result' \in [Attempt -> Result]
                         /\ \A c \in Attempt \ {a} : result'[c] = result[c]
                         /\ \/ result' = result /\ acked' = acked
                            \/ /\ result'[a] # NoResult
                               /\ result'[a].outcome \in {"retryable_failure", "permanent_failure"}
                               /\ acked' = acked \ {a}
  <2>1. Reported
    BY <1>16, DialReports
  <2>2. CASE b = a
    BY <1>16, <2>1, <2>2 DEF DialFails
  <2>3. CASE b # a
    BY <1>16, <2>1, <2>3 DEF DialFails
  <2> QED
    BY <2>2, <2>3
<1>17. ASSUME NEW a \in Attempt, Answer(a) PROVE StageOf(b)'
  BY <1>17, Pairs DEF Answer
<1>18. ASSUME NEW a \in Attempt, AnswerLost(a) PROVE StageOf(b)'
  BY <1>18, Pairs DEF AnswerLost
<1>19. ASSUME NEW a \in Attempt, Transmit(a) PROVE StageOf(b)'
  BY <1>19, Pairs DEF Transmit
<1>20. ASSUME NEW a \in Attempt, TransmitEnds(a) PROVE StageOf(b)'
  <2> DEFINE Reported == /\ result' \in [Attempt -> Result]
                         /\ \A c \in Attempt \ {a} : result'[c] = result[c]
                         /\ \/ result' = result /\ acked' = acked
                            \/ /\ result'[a] # NoResult /\ result'[a].outcome \in {"sent", "permanent_failure"}
                               /\ result'[a].outcome = "sent" => a \in transmitted'
                               /\ acked' = acked \ {a}
                         /\ transmitted' = transmitted \/ transmitted' = transmitted \cup {a}
  <2>1. Reported
    BY <1>20, TransmitReports
  <2>2. CASE b = a
    BY <1>20, <2>1, <2>2 DEF TransmitEnds
  <2>3. CASE b # a
    BY <1>20, <2>1, <2>3 DEF TransmitEnds
  <2> QED
    BY <2>2, <2>3
<1>21. ASSUME NEW a \in Attempt, Close(a) PROVE StageOf(b)'
  BY <1>21, Pairs DEF Close
<1>22. ASSUME NEW a \in Attempt, Settle(a) PROVE StageOf(b)'
  BY <1>22, Pairs DEF Settle
<1>23. ASSUME NEW a \in Attempt, RemoveTiff(a) PROVE StageOf(b)'
  BY <1>23, Pairs DEF RemoveTiff
<1>24. CASE Restart
  BY <1>24, Pairs DEF Restart
<1>25. CASE UNCHANGED vars
  BY <1>25 DEF vars
<1> QED
  BY <1>1, <1>2, <1>3, <1>4, <1>5, <1>6, <1>7, <1>8, <1>9, <1>10, <1>11, <1>12, <1>13,
     <1>14, <1>15, <1>16, <1>17, <1>18, <1>19, <1>20, <1>21, <1>22, <1>23, <1>24, <1>25
     DEF Next, CallStep

LEMMA KeptStep ==
  ASSUME IInv, [Next]_vars
  PROVE  \A b \in Attempt : KeptOf(b)'
<1> SUFFICES ASSUME NEW b \in Attempt PROVE KeptOf(b)'
  OBVIOUS
<1> USE ConstantsAssumption DEF IInv, TypeOK, AttemptInv, AttemptOf, ActiveOf, KeptOf, ReportOf, StageOf,
        InHand, Undoing, Bound, Calling, Preparing, Over, backend, files, events, history
<1>1. ASSUME NEW j \in Job, Claim(j) PROVE KeptOf(b)'
  <2>1. b \in acked \/ result[b].outcome # "none" \/ result[b].cleanup => b[2] <= claims[b[1]]
    BY DEF Result, NoResult
  <2>2. CASE b[1] = j
    <3>1. claims[j] \in Nat /\ claims'[j] = claims[j] + 1 /\ b[2] \in Nat
      BY <1>1, Pairs DEF Claim
    <3>2. b[2] <= claims[b[1]] => claims'[b[1]] # b[2]
      BY <2>2, <3>1
    <3>3. ~InHand(b)
      BY <1>1, <2>2 DEF Claim
    <3> QED
      BY <1>1, <2>1, <3>2, <3>3 DEF Claim
  <2>3. CASE b[1] # j
    <3>1. state'[b[1]] = state[b[1]] /\ claims'[b[1]] = claims[b[1]]
      BY <1>1, <2>3, Pairs DEF Claim
    <3> QED
      BY <1>1, <3>1 DEF Claim
  <2> QED
    BY <2>2, <2>3
<1>2. ASSUME NEW j \in Job, Expire(j) PROVE KeptOf(b)'
  BY <1>2, Pairs DEF Expire
<1>3. ASSUME NEW a \in Attempt, Enqueue(a) PROVE KeptOf(b)'
  <2>1. result[a] = NoResult
    BY <1>3 DEF Enqueue
  <2> QED
    BY <1>3, <2>1 DEF Enqueue, NoResult
<1>4. ASSUME NEW a \in Attempt, EnqueueFails(a) PROVE KeptOf(b)'
  <2> DEFINE Reported == /\ result' \in [Attempt -> Result]
                         /\ \A c \in Attempt \ {a} : result'[c] = result[c]
                         /\ \/ result' = result /\ acked' = acked
                            \/ /\ result'[a] # NoResult /\ result'[a].outcome = "retryable_failure"
                               /\ ~result'[a].cleanup /\ acked' = acked \ {a}
  <2>1. Reported
    BY <1>4, QueueReports
  <2>2. CASE b = a
    BY <1>4, <2>1, <2>2 DEF EnqueueFails
  <2>3. CASE b # a
    BY <1>4, <2>1, <2>3 DEF EnqueueFails
  <2> QED
    BY <2>2, <2>3
<1>5. ASSUME NEW a \in Attempt, Launch(a) PROVE KeptOf(b)'
  BY <1>5, Pairs DEF Launch
<1>6. ASSUME NEW a \in Attempt, CheckClaim(a) PROVE KeptOf(b)'
  BY <1>6, Pairs DEF CheckClaim
<1>7. ASSUME NEW a \in Attempt, CheckRefused(a) PROVE KeptOf(b)'
  BY <1>7, Pairs DEF CheckRefused
<1>8. ASSUME NEW a \in Attempt, Fetch(a) PROVE KeptOf(b)'
  BY <1>8, Pairs DEF Fetch
<1>9. ASSUME NEW a \in Attempt, Convert(a) PROVE KeptOf(b)'
  BY <1>9, Pairs DEF Convert
<1>10. ASSUME NEW a \in Attempt, Publish(a) PROVE KeptOf(b)'
  BY <1>10, Pairs DEF Publish
<1>11. ASSUME NEW a \in Attempt, PrepareFails(a) PROVE KeptOf(b)'
  <2> DEFINE Reported == /\ result' \in [Attempt -> Result]
                         /\ \A c \in Attempt \ {a} : result'[c] = result[c]
                         /\ \/ result' = result /\ acked' = acked /\ stage'[a] # "undoTiff"
                            \/ /\ result'[a] # NoResult /\ result'[a].outcome = "permanent_failure"
                               /\ ~result'[a].cleanup /\ acked' = acked \ {a}
                         /\ stage'[a] \in {"closing", "undoTiff", "undoPdf"}
                         /\ stage'[a] = "undoTiff" => stage[a] = "publish"
                         /\ \A c \in Attempt \ {a} : stage'[c] = stage[c]
  <2>1. Reported
    BY <1>11, PrepareReports
  <2>2. CASE b = a
    BY <1>11, <2>1, <2>2 DEF PrepareFails
  <2>3. CASE b # a
    BY <1>11, <2>1, <2>3 DEF PrepareFails
  <2> QED
    BY <2>2, <2>3
<1>12. ASSUME NEW a \in Attempt, DiscardTiff(a) PROVE KeptOf(b)'
  BY <1>12, Pairs DEF DiscardTiff
<1>13. ASSUME NEW a \in Attempt, DiscardPdf(a) PROVE KeptOf(b)'
  BY <1>13, Pairs DEF DiscardPdf
<1>14. ASSUME NEW a \in Attempt, Killed(a) PROVE KeptOf(b)'
  BY <1>14, Pairs DEF Killed
<1>15. ASSUME NEW a \in Attempt, Dial(a) PROVE KeptOf(b)'
  BY <1>15, Pairs DEF Dial
<1>16. ASSUME NEW a \in Attempt, DialFails(a) PROVE KeptOf(b)'
  <2> DEFINE Reported == /\ result' \in [Attempt -> Result]
                         /\ \A c \in Attempt \ {a} : result'[c] = result[c]
                         /\ \/ result' = result /\ acked' = acked
                            \/ /\ result'[a] # NoResult
                               /\ result'[a].outcome \in {"retryable_failure", "permanent_failure"}
                               /\ acked' = acked \ {a}
  <2>1. Reported
    BY <1>16, DialReports
  <2>2. CASE b = a
    BY <1>16, <2>1, <2>2 DEF DialFails
  <2>3. CASE b # a
    BY <1>16, <2>1, <2>3 DEF DialFails
  <2> QED
    BY <2>2, <2>3
<1>17. ASSUME NEW a \in Attempt, Answer(a) PROVE KeptOf(b)'
  BY <1>17, Pairs DEF Answer
<1>18. ASSUME NEW a \in Attempt, AnswerLost(a) PROVE KeptOf(b)'
  BY <1>18, Pairs DEF AnswerLost
<1>19. ASSUME NEW a \in Attempt, Transmit(a) PROVE KeptOf(b)'
  BY <1>19, Pairs DEF Transmit
<1>20. ASSUME NEW a \in Attempt, TransmitEnds(a) PROVE KeptOf(b)'
  <2> DEFINE Reported == /\ result' \in [Attempt -> Result]
                         /\ \A c \in Attempt \ {a} : result'[c] = result[c]
                         /\ \/ result' = result /\ acked' = acked
                            \/ /\ result'[a] # NoResult /\ result'[a].outcome \in {"sent", "permanent_failure"}
                               /\ result'[a].outcome = "sent" => a \in transmitted'
                               /\ acked' = acked \ {a}
                         /\ transmitted' = transmitted \/ transmitted' = transmitted \cup {a}
  <2>1. Reported
    BY <1>20, TransmitReports
  <2>2. CASE b = a
    BY <1>20, <2>1, <2>2 DEF TransmitEnds
  <2>3. CASE b # a
    BY <1>20, <2>1, <2>3 DEF TransmitEnds
  <2> QED
    BY <2>2, <2>3
<1>21. ASSUME NEW a \in Attempt, Close(a) PROVE KeptOf(b)'
  BY <1>21, Pairs DEF Close
<1>22. ASSUME NEW a \in Attempt, Settle(a) PROVE KeptOf(b)'
  <2>1. InHand(a) /\ result[a] # NoResult
    BY <1>22 DEF Settle, Accepts, IsCurrent
  <2>2. state'[a[1]] \in {"sent", "failed", "queued"}
    BY <1>22, Pairs DEF Settle
  <2>3. CASE b[1] = a[1]
    <3>1. ~InHand(b)'
      BY <1>22, <2>2, <2>3 DEF Settle
    <3>2. b # a => ~InHand(b)
      BY <2>1, <2>3, Pairs
    <3> QED
      BY <1>22, <2>1, <3>1, <3>2 DEF Settle
  <2>4. CASE b[1] # a[1]
    <3>1. state'[b[1]] = state[b[1]] /\ b # a
      BY <1>22, <2>4, Pairs DEF Settle
    <3> QED
      BY <1>22, <3>1 DEF Settle
  <2> QED
    BY <2>3, <2>4
<1>23. ASSUME NEW a \in Attempt, RemoveTiff(a) PROVE KeptOf(b)'
  BY <1>23, Pairs DEF RemoveTiff
<1>24. CASE Restart
  BY <1>24, Pairs DEF Restart
<1>25. CASE UNCHANGED vars
  BY <1>25 DEF vars
<1> QED
  BY <1>1, <1>2, <1>3, <1>4, <1>5, <1>6, <1>7, <1>8, <1>9, <1>10, <1>11, <1>12, <1>13,
     <1>14, <1>15, <1>16, <1>17, <1>18, <1>19, <1>20, <1>21, <1>22, <1>23, <1>24, <1>25
     DEF Next, CallStep

LEMMA StoppedStep ==
  ASSUME IInv, [Next]_vars
  PROVE  \A b \in Attempt : StoppedOf(b)'
<1> SUFFICES ASSUME NEW b \in Attempt PROVE StoppedOf(b)'
  OBVIOUS
<1> USE ConstantsAssumption DEF IInv, TypeOK, AttemptInv, AttemptOf, ActiveOf, KeptOf, ReportOf, StageOf, StoppedOf,
        InHand, Undoing, Bound, Calling, Preparing, Over, backend, files, events, history
<1>1. ASSUME NEW j \in Job, Claim(j) PROVE StoppedOf(b)'
  BY <1>1, Pairs DEF Claim
<1>2. ASSUME NEW j \in Job, Expire(j) PROVE StoppedOf(b)'
  BY <1>2, Pairs DEF Expire
<1>3. ASSUME NEW a \in Attempt, Enqueue(a) PROVE StoppedOf(b)'
  BY <1>3, Pairs DEF Enqueue
<1>4. ASSUME NEW a \in Attempt, EnqueueFails(a) PROVE StoppedOf(b)'
  <2> DEFINE Reported == /\ result' \in [Attempt -> Result]
                         /\ \A c \in Attempt \ {a} : result'[c] = result[c]
                         /\ \/ result' = result /\ acked' = acked
                            \/ /\ result'[a] # NoResult /\ result'[a].outcome = "retryable_failure"
                               /\ ~result'[a].cleanup /\ acked' = acked \ {a}
  <2>1. Reported
    BY <1>4, QueueReports
  <2>2. CASE b = a
    BY <1>4, <2>1, <2>2 DEF EnqueueFails
  <2>3. CASE b # a
    BY <1>4, <2>1, <2>3 DEF EnqueueFails
  <2> QED
    BY <2>2, <2>3
<1>5. ASSUME NEW a \in Attempt, Launch(a) PROVE StoppedOf(b)'
  BY <1>5, Pairs DEF Launch
<1>6. ASSUME NEW a \in Attempt, CheckClaim(a) PROVE StoppedOf(b)'
  <2>1. InHand(a)
    BY <1>6 DEF CheckClaim, IsCurrent
  <2>2. CASE b = a
    BY <1>6, <2>1, <2>2 DEF CheckClaim
  <2>3. CASE b # a
    BY <1>6, <2>3 DEF CheckClaim
  <2> QED
    BY <2>2, <2>3
<1>7. ASSUME NEW a \in Attempt, CheckRefused(a) PROVE StoppedOf(b)'
  BY <1>7, Pairs DEF CheckRefused
<1>8. ASSUME NEW a \in Attempt, Fetch(a) PROVE StoppedOf(b)'
  BY <1>8, Pairs DEF Fetch
<1>9. ASSUME NEW a \in Attempt, Convert(a) PROVE StoppedOf(b)'
  BY <1>9, Pairs DEF Convert
<1>10. ASSUME NEW a \in Attempt, Publish(a) PROVE StoppedOf(b)'
  BY <1>10, Pairs DEF Publish
<1>11. ASSUME NEW a \in Attempt, PrepareFails(a) PROVE StoppedOf(b)'
  <2> DEFINE Reported == /\ result' \in [Attempt -> Result]
                         /\ \A c \in Attempt \ {a} : result'[c] = result[c]
                         /\ \/ result' = result /\ acked' = acked /\ stage'[a] # "undoTiff"
                            \/ /\ result'[a] # NoResult /\ result'[a].outcome = "permanent_failure"
                               /\ ~result'[a].cleanup /\ acked' = acked \ {a}
                         /\ stage'[a] \in {"closing", "undoTiff", "undoPdf"}
                         /\ stage'[a] = "undoTiff" => stage[a] = "publish"
                         /\ \A c \in Attempt \ {a} : stage'[c] = stage[c]
  <2>1. Reported
    BY <1>11, PrepareReports
  <2>2. CASE b = a
    <3>1. a \in callfile /\ stage[a] \notin Undoing \cup {"closing"}
      BY <1>11 DEF PrepareFails
    <3>2. a \notin reopened => result[a] = NoResult /\ InHand(a)
      BY <3>1
    <3>3. UNCHANGED <<claims, state, reopened, exposed, callfile, tif>>
      BY <1>11 DEF PrepareFails
    <3>4. stage'[a] \notin Bound \cup {"fetch", "convert"}
      BY <2>1
    <3>5. result'[a].outcome \in {"sent", "retryable_failure"} => stage'[a] # "undoTiff"
      BY <2>1
    <3>6. a \notin reopened => result'[a].outcome \in {"none", "permanent_failure"}
      BY <2>1, <3>2 DEF NoResult
    <3> QED
      BY <2>2, <3>2, <3>3, <3>4, <3>5, <3>6
  <2>3. CASE b # a
    BY <1>11, <2>1, <2>3 DEF PrepareFails
  <2> QED
    BY <2>2, <2>3
<1>12. ASSUME NEW a \in Attempt, DiscardTiff(a) PROVE StoppedOf(b)'
  BY <1>12, Pairs DEF DiscardTiff
<1>13. ASSUME NEW a \in Attempt, DiscardPdf(a) PROVE StoppedOf(b)'
  BY <1>13, Pairs DEF DiscardPdf
<1>14. ASSUME NEW a \in Attempt, Killed(a) PROVE StoppedOf(b)'
  BY <1>14, Pairs DEF Killed
<1>15. ASSUME NEW a \in Attempt, Dial(a) PROVE StoppedOf(b)'
  BY <1>15, Pairs DEF Dial
<1>16. ASSUME NEW a \in Attempt, DialFails(a) PROVE StoppedOf(b)'
  <2> DEFINE Reported == /\ result' \in [Attempt -> Result]
                         /\ \A c \in Attempt \ {a} : result'[c] = result[c]
                         /\ \/ result' = result /\ acked' = acked
                            \/ /\ result'[a] # NoResult
                               /\ result'[a].outcome \in {"retryable_failure", "permanent_failure"}
                               /\ acked' = acked \ {a}
  <2>1. Reported
    BY <1>16, DialReports
  <2>2. CASE b = a
    BY <1>16, <2>1, <2>2 DEF DialFails
  <2>3. CASE b # a
    BY <1>16, <2>1, <2>3 DEF DialFails
  <2> QED
    BY <2>2, <2>3
<1>17. ASSUME NEW a \in Attempt, Answer(a) PROVE StoppedOf(b)'
  BY <1>17, Pairs DEF Answer
<1>18. ASSUME NEW a \in Attempt, AnswerLost(a) PROVE StoppedOf(b)'
  BY <1>18, Pairs DEF AnswerLost
<1>19. ASSUME NEW a \in Attempt, Transmit(a) PROVE StoppedOf(b)'
  BY <1>19, Pairs DEF Transmit
<1>20. ASSUME NEW a \in Attempt, TransmitEnds(a) PROVE StoppedOf(b)'
  <2> DEFINE Reported == /\ result' \in [Attempt -> Result]
                         /\ \A c \in Attempt \ {a} : result'[c] = result[c]
                         /\ \/ result' = result /\ acked' = acked
                            \/ /\ result'[a] # NoResult /\ result'[a].outcome \in {"sent", "permanent_failure"}
                               /\ result'[a].outcome = "sent" => a \in transmitted'
                               /\ acked' = acked \ {a}
                         /\ transmitted' = transmitted \/ transmitted' = transmitted \cup {a}
  <2>1. Reported
    BY <1>20, TransmitReports
  <2>2. CASE b = a
    BY <1>20, <2>1, <2>2 DEF TransmitEnds
  <2>3. CASE b # a
    BY <1>20, <2>1, <2>3 DEF TransmitEnds
  <2> QED
    BY <2>2, <2>3
<1>21. ASSUME NEW a \in Attempt, Close(a) PROVE StoppedOf(b)'
  BY <1>21, Pairs DEF Close
<1>22. ASSUME NEW a \in Attempt, Settle(a) PROVE StoppedOf(b)'
  <2>1. claims[a[1]] = a[2] /\ result[a] # NoResult /\ InHand(a)
    BY <1>22 DEF Settle, Accepts, IsCurrent
  <2>2. state'[a[1]] = "queued" => result[a].outcome \notin {"sent", "permanent_failure"}
    BY <1>22, Pairs DEF Settle
  <2>3. state'[a[1]] = "queued" => result[a].outcome = "retryable_failure"
    BY <2>1, <2>2 DEF Result
  <2>4. CASE b = a
    BY <1>22, <2>1, <2>3, <2>4 DEF Settle
  <2>5. CASE b[1] = a[1] /\ b # a
    <3>1. claims[b[1]] # b[2]
      BY <2>1, <2>5, Pairs
    <3> QED
      BY <1>22, <3>1 DEF Settle
  <2>6. CASE b[1] # a[1]
    <3>1. state'[b[1]] = state[b[1]]
      BY <1>22, <2>6, Pairs DEF Settle
    <3> QED
      BY <1>22, <3>1 DEF Settle
  <2> QED
    BY <2>4, <2>5, <2>6
<1>23. ASSUME NEW a \in Attempt, RemoveTiff(a) PROVE StoppedOf(b)'
  BY <1>23, Pairs DEF RemoveTiff
<1>24. CASE Restart
  BY <1>24, Pairs DEF Restart
<1>25. CASE UNCHANGED vars
  BY <1>25 DEF vars
<1> QED
  BY <1>1, <1>2, <1>3, <1>4, <1>5, <1>6, <1>7, <1>8, <1>9, <1>10, <1>11, <1>12, <1>13,
     <1>14, <1>15, <1>16, <1>17, <1>18, <1>19, <1>20, <1>21, <1>22, <1>23, <1>24, <1>25
     DEF Next, CallStep

LEMMA AnsweredStep ==
  ASSUME IInv, [Next]_vars
  PROVE  \A b \in Attempt : AnsweredOf(b)'
<1> SUFFICES ASSUME NEW b \in Attempt PROVE AnsweredOf(b)'
  OBVIOUS
<1> USE ConstantsAssumption DEF IInv, TypeOK, AttemptInv, AttemptOf, ActiveOf, AnsweredOf, KeptOf, ReportOf, StageOf, StoppedOf,
        InHand, Undoing, Bound, Calling, Preparing, Over, backend, files, events, history
<1>1. ASSUME NEW j \in Job, Claim(j) PROVE AnsweredOf(b)'
  BY <1>1, Pairs DEF Claim
<1>2. ASSUME NEW j \in Job, Expire(j) PROVE AnsweredOf(b)'
  BY <1>2, Pairs DEF Expire
<1>3. ASSUME NEW a \in Attempt, Enqueue(a) PROVE AnsweredOf(b)'
  BY <1>3, Pairs DEF Enqueue
<1>4. ASSUME NEW a \in Attempt, EnqueueFails(a) PROVE AnsweredOf(b)'
  <2> DEFINE Reported == /\ result' \in [Attempt -> Result]
                         /\ \A c \in Attempt \ {a} : result'[c] = result[c]
                         /\ \/ result' = result /\ acked' = acked
                            \/ /\ result'[a] # NoResult /\ result'[a].outcome = "retryable_failure"
                               /\ ~result'[a].cleanup /\ acked' = acked \ {a}
  <2>1. Reported
    BY <1>4, QueueReports
  <2>2. CASE b = a
    BY <1>4, <2>1, <2>2 DEF EnqueueFails
  <2>3. CASE b # a
    BY <1>4, <2>1, <2>3 DEF EnqueueFails
  <2> QED
    BY <2>2, <2>3
<1>5. ASSUME NEW a \in Attempt, Launch(a) PROVE AnsweredOf(b)'
  BY <1>5, Pairs DEF Launch
<1>6. ASSUME NEW a \in Attempt, CheckClaim(a) PROVE AnsweredOf(b)'
  <2>1. InHand(a)
    BY <1>6 DEF CheckClaim, IsCurrent
  <2>2. CASE b = a
    BY <1>6, <2>1, <2>2 DEF CheckClaim
  <2>3. CASE b # a
    BY <1>6, <2>3 DEF CheckClaim
  <2> QED
    BY <2>2, <2>3
<1>7. ASSUME NEW a \in Attempt, CheckRefused(a) PROVE AnsweredOf(b)'
  BY <1>7, Pairs DEF CheckRefused
<1>8. ASSUME NEW a \in Attempt, Fetch(a) PROVE AnsweredOf(b)'
  BY <1>8, Pairs DEF Fetch
<1>9. ASSUME NEW a \in Attempt, Convert(a) PROVE AnsweredOf(b)'
  BY <1>9, Pairs DEF Convert
<1>10. ASSUME NEW a \in Attempt, Publish(a) PROVE AnsweredOf(b)'
  BY <1>10, Pairs DEF Publish
<1>11. ASSUME NEW a \in Attempt, PrepareFails(a) PROVE AnsweredOf(b)'
  <2> DEFINE Reported == /\ result' \in [Attempt -> Result]
                         /\ \A c \in Attempt \ {a} : result'[c] = result[c]
                         /\ \/ result' = result /\ acked' = acked /\ stage'[a] # "undoTiff"
                            \/ /\ result'[a] # NoResult /\ result'[a].outcome = "permanent_failure"
                               /\ ~result'[a].cleanup /\ acked' = acked \ {a}
                         /\ stage'[a] \in {"closing", "undoTiff", "undoPdf"}
                         /\ stage'[a] = "undoTiff" => stage[a] = "publish"
                         /\ \A c \in Attempt \ {a} : stage'[c] = stage[c]
  <2>1. Reported
    BY <1>11, PrepareReports
  <2>2. CASE b = a
    BY <1>11, <2>1, <2>2 DEF PrepareFails
  <2>3. CASE b # a
    BY <1>11, <2>1, <2>3 DEF PrepareFails
  <2> QED
    BY <2>2, <2>3
<1>12. ASSUME NEW a \in Attempt, DiscardTiff(a) PROVE AnsweredOf(b)'
  BY <1>12, Pairs DEF DiscardTiff
<1>13. ASSUME NEW a \in Attempt, DiscardPdf(a) PROVE AnsweredOf(b)'
  BY <1>13, Pairs DEF DiscardPdf
<1>14. ASSUME NEW a \in Attempt, Killed(a) PROVE AnsweredOf(b)'
  BY <1>14, Pairs DEF Killed
<1>15. ASSUME NEW a \in Attempt, Dial(a) PROVE AnsweredOf(b)'
  BY <1>15, Pairs DEF Dial
<1>16. ASSUME NEW a \in Attempt, DialFails(a) PROVE AnsweredOf(b)'
  <2> DEFINE Reported == /\ result' \in [Attempt -> Result]
                         /\ \A c \in Attempt \ {a} : result'[c] = result[c]
                         /\ \/ result' = result /\ acked' = acked
                            \/ /\ result'[a] # NoResult
                               /\ result'[a].outcome \in {"retryable_failure", "permanent_failure"}
                               /\ acked' = acked \ {a}
  <2>1. Reported
    BY <1>16, DialReports
  <2>2. CASE b = a
    BY <1>16, <2>1, <2>2 DEF DialFails
  <2>3. CASE b # a
    BY <1>16, <2>1, <2>3 DEF DialFails
  <2> QED
    BY <2>2, <2>3
<1>17. ASSUME NEW a \in Attempt, Answer(a) PROVE AnsweredOf(b)'
  BY <1>17, Pairs DEF Answer
<1>18. ASSUME NEW a \in Attempt, AnswerLost(a) PROVE AnsweredOf(b)'
  BY <1>18, Pairs DEF AnswerLost
<1>19. ASSUME NEW a \in Attempt, Transmit(a) PROVE AnsweredOf(b)'
  BY <1>19, Pairs DEF Transmit
<1>20. ASSUME NEW a \in Attempt, TransmitEnds(a) PROVE AnsweredOf(b)'
  <2> DEFINE Reported == /\ result' \in [Attempt -> Result]
                         /\ \A c \in Attempt \ {a} : result'[c] = result[c]
                         /\ \/ result' = result /\ acked' = acked
                            \/ /\ result'[a] # NoResult /\ result'[a].outcome \in {"sent", "permanent_failure"}
                               /\ result'[a].outcome = "sent" => a \in transmitted'
                               /\ acked' = acked \ {a}
                         /\ transmitted' = transmitted \/ transmitted' = transmitted \cup {a}
  <2>1. Reported
    BY <1>20, TransmitReports
  <2>2. CASE b = a
    BY <1>20, <2>1, <2>2 DEF TransmitEnds
  <2>3. CASE b # a
    BY <1>20, <2>1, <2>3 DEF TransmitEnds
  <2> QED
    BY <2>2, <2>3
<1>21. ASSUME NEW a \in Attempt, Close(a) PROVE AnsweredOf(b)'
  BY <1>21, Pairs DEF Close
<1>22. ASSUME NEW a \in Attempt, Settle(a) PROVE AnsweredOf(b)'
  <2>1. claims[a[1]] = a[2] /\ result[a] # NoResult /\ InHand(a)
    BY <1>22 DEF Settle, Accepts, IsCurrent
  <2>2. state'[a[1]] = "queued" => result[a].outcome \notin {"sent", "permanent_failure"}
    BY <1>22, Pairs DEF Settle
  <2>3. state'[a[1]] = "queued" => result[a].outcome = "retryable_failure"
    BY <2>1, <2>2 DEF Result
  <2>4. CASE b = a
    <3>1. state'[a[1]] \in {"sent", "failed", "queued"}
      BY <1>22, Pairs DEF Settle
    <3> QED
      BY <1>22, <2>1, <2>3, <2>4, <3>1 DEF Settle
  <2>5. CASE b[1] = a[1] /\ b # a
    <3>1. claims[b[1]] # b[2]
      BY <2>1, <2>5, Pairs
    <3> QED
      BY <1>22, <3>1 DEF Settle
  <2>6. CASE b[1] # a[1]
    <3>1. state'[b[1]] = state[b[1]]
      BY <1>22, <2>6, Pairs DEF Settle
    <3> QED
      BY <1>22, <3>1 DEF Settle
  <2> QED
    BY <2>4, <2>5, <2>6
<1>23. ASSUME NEW a \in Attempt, RemoveTiff(a) PROVE AnsweredOf(b)'
  BY <1>23, Pairs DEF RemoveTiff
<1>24. CASE Restart
  BY <1>24, Pairs DEF Restart
<1>25. CASE UNCHANGED vars
  BY <1>25 DEF vars
<1> QED
  BY <1>1, <1>2, <1>3, <1>4, <1>5, <1>6, <1>7, <1>8, <1>9, <1>10, <1>11, <1>12, <1>13,
     <1>14, <1>15, <1>16, <1>17, <1>18, <1>19, <1>20, <1>21, <1>22, <1>23, <1>24, <1>25
     DEF Next, CallStep

LEMMA ReportStep ==
  ASSUME IInv, [Next]_vars
  PROVE  \A b \in Attempt : ReportOf(b)'
<1> SUFFICES ASSUME NEW b \in Attempt PROVE ReportOf(b)'
  OBVIOUS
<1> USE ConstantsAssumption DEF IInv, TypeOK, AttemptInv, AttemptOf, ActiveOf, AnsweredOf, ReportOf, StageOf, StoppedOf,
        InHand, Undoing, Bound, Calling, Preparing, Over, backend, files, events, history
<1>1. ASSUME NEW j \in Job, Claim(j) PROVE ReportOf(b)'
  BY <1>1, Pairs DEF Claim
<1>2. ASSUME NEW j \in Job, Expire(j) PROVE ReportOf(b)'
  BY <1>2, Pairs DEF Expire
<1>3. ASSUME NEW a \in Attempt, Enqueue(a) PROVE ReportOf(b)'
  BY <1>3, Pairs DEF Enqueue
<1>4. ASSUME NEW a \in Attempt, EnqueueFails(a) PROVE ReportOf(b)'
  <2> DEFINE Reported == /\ result' \in [Attempt -> Result]
                         /\ \A c \in Attempt \ {a} : result'[c] = result[c]
                         /\ \/ result' = result /\ acked' = acked
                            \/ /\ result'[a] # NoResult /\ result'[a].outcome = "retryable_failure"
                               /\ ~result'[a].cleanup /\ acked' = acked \ {a}
  <2>1. Reported
    BY <1>4, QueueReports
  <2>2. CASE b = a
    <3>1. a[2] <= claims[a[1]] /\ claims' = claims /\ answered' = answered /\ exposed' = exposed
      <4>1. claims[a[1]] = a[2] \/ result[a] # NoResult
        BY <1>4 DEF EnqueueFails
      <4>2. claims[a[1]] \in Nat /\ a[2] \in Nat
        BY Pairs
      <4>3. a[2] <= claims[a[1]]
        BY <4>1, <4>2
      <4> QED
        BY <1>4, <4>3 DEF EnqueueFails
    <3>2. result'[a].outcome = "retryable_failure" /\ a \notin exposed => a \notin answered
      BY <1>4, <2>1 DEF EnqueueFails
    <3>3. a \in acked' => result'[a] # NoResult
      BY <2>1
    <3>4. result'[a].outcome = "sent" => a \in transmitted'
      BY <1>4, <2>1 DEF EnqueueFails
    <3>5. result'[a] # NoResult => result'[a].outcome # "none"
      BY <2>1
    <3> QED
      BY <2>2, <3>1, <3>2, <3>3, <3>4, <3>5
  <2>3. CASE b # a
    BY <1>4, <2>1, <2>3 DEF EnqueueFails
  <2> QED
    BY <2>2, <2>3
<1>5. ASSUME NEW a \in Attempt, Launch(a) PROVE ReportOf(b)'
  BY <1>5, Pairs DEF Launch
<1>6. ASSUME NEW a \in Attempt, CheckClaim(a) PROVE ReportOf(b)'
  BY <1>6, Pairs DEF CheckClaim
<1>7. ASSUME NEW a \in Attempt, CheckRefused(a) PROVE ReportOf(b)'
  BY <1>7, Pairs DEF CheckRefused
<1>8. ASSUME NEW a \in Attempt, Fetch(a) PROVE ReportOf(b)'
  BY <1>8, Pairs DEF Fetch
<1>9. ASSUME NEW a \in Attempt, Convert(a) PROVE ReportOf(b)'
  BY <1>9, Pairs DEF Convert
<1>10. ASSUME NEW a \in Attempt, Publish(a) PROVE ReportOf(b)'
  BY <1>10, Pairs DEF Publish
<1>11. ASSUME NEW a \in Attempt, PrepareFails(a) PROVE ReportOf(b)'
  <2> DEFINE Reported == /\ result' \in [Attempt -> Result]
                         /\ \A c \in Attempt \ {a} : result'[c] = result[c]
                         /\ \/ result' = result /\ acked' = acked /\ stage'[a] # "undoTiff"
                            \/ /\ result'[a] # NoResult /\ result'[a].outcome = "permanent_failure"
                               /\ ~result'[a].cleanup /\ acked' = acked \ {a}
                         /\ stage'[a] \in {"closing", "undoTiff", "undoPdf"}
                         /\ stage'[a] = "undoTiff" => stage[a] = "publish"
                         /\ \A c \in Attempt \ {a} : stage'[c] = stage[c]
  <2>1. Reported
    BY <1>11, PrepareReports
  <2>2. CASE b = a
    <3>1. a[2] <= claims[a[1]] /\ claims' = claims /\ answered' = answered /\ exposed' = exposed
      <4>1. claims[a[1]] = a[2] \/ result[a] # NoResult
        BY <1>11 DEF PrepareFails
      <4>2. claims[a[1]] \in Nat /\ a[2] \in Nat
        BY Pairs
      <4>3. a[2] <= claims[a[1]]
        BY <4>1, <4>2
      <4> QED
        BY <1>11, <4>3 DEF PrepareFails
    <3>2. result'[a].outcome = "retryable_failure" /\ a \notin exposed => a \notin answered
      BY <1>11, <2>1 DEF PrepareFails
    <3>3. a \in acked' => result'[a] # NoResult
      BY <2>1
    <3>4. result'[a].outcome = "sent" => a \in transmitted'
      BY <1>11, <2>1 DEF PrepareFails
    <3>5. result'[a] # NoResult => result'[a].outcome # "none"
      BY <2>1
    <3> QED
      BY <2>2, <3>1, <3>2, <3>3, <3>4, <3>5
  <2>3. CASE b # a
    BY <1>11, <2>1, <2>3 DEF PrepareFails
  <2> QED
    BY <2>2, <2>3
<1>12. ASSUME NEW a \in Attempt, DiscardTiff(a) PROVE ReportOf(b)'
  BY <1>12, Pairs DEF DiscardTiff
<1>13. ASSUME NEW a \in Attempt, DiscardPdf(a) PROVE ReportOf(b)'
  BY <1>13, Pairs DEF DiscardPdf
<1>14. ASSUME NEW a \in Attempt, Killed(a) PROVE ReportOf(b)'
  BY <1>14, Pairs DEF Killed
<1>15. ASSUME NEW a \in Attempt, Dial(a) PROVE ReportOf(b)'
  BY <1>15, Pairs DEF Dial
<1>16. ASSUME NEW a \in Attempt, DialFails(a) PROVE ReportOf(b)'
  <2> DEFINE Reported == /\ result' \in [Attempt -> Result]
                         /\ \A c \in Attempt \ {a} : result'[c] = result[c]
                         /\ \/ result' = result /\ acked' = acked
                            \/ /\ result'[a] # NoResult
                               /\ result'[a].outcome \in {"retryable_failure", "permanent_failure"}
                               /\ acked' = acked \ {a}
  <2>1. Reported
    BY <1>16, DialReports
  <2>2. CASE b = a
    <3>1. a[2] <= claims[a[1]] /\ claims' = claims /\ answered' = answered /\ exposed' = exposed
      <4>1. claims[a[1]] = a[2] \/ result[a] # NoResult
        BY <1>16 DEF DialFails
      <4>2. claims[a[1]] \in Nat /\ a[2] \in Nat
        BY Pairs
      <4>3. a[2] <= claims[a[1]]
        BY <4>1, <4>2
      <4> QED
        BY <1>16, <4>3 DEF DialFails
    <3>2. result'[a].outcome = "retryable_failure" /\ a \notin exposed => a \notin answered
      BY <1>16, <2>1 DEF DialFails
    <3>3. a \in acked' => result'[a] # NoResult
      BY <2>1
    <3>4. result'[a].outcome = "sent" => a \in transmitted'
      BY <1>16, <2>1 DEF DialFails
    <3>5. result'[a] # NoResult => result'[a].outcome # "none"
      BY <2>1
    <3> QED
      BY <2>2, <3>1, <3>2, <3>3, <3>4, <3>5
  <2>3. CASE b # a
    BY <1>16, <2>1, <2>3 DEF DialFails
  <2> QED
    BY <2>2, <2>3
<1>17. ASSUME NEW a \in Attempt, Answer(a) PROVE ReportOf(b)'
  BY <1>17, Pairs DEF Answer
<1>18. ASSUME NEW a \in Attempt, AnswerLost(a) PROVE ReportOf(b)'
  BY <1>18, Pairs DEF AnswerLost
<1>19. ASSUME NEW a \in Attempt, Transmit(a) PROVE ReportOf(b)'
  BY <1>19, Pairs DEF Transmit
<1>20. ASSUME NEW a \in Attempt, TransmitEnds(a) PROVE ReportOf(b)'
  <2> DEFINE Reported == /\ result' \in [Attempt -> Result]
                         /\ \A c \in Attempt \ {a} : result'[c] = result[c]
                         /\ \/ result' = result /\ acked' = acked
                            \/ /\ result'[a] # NoResult /\ result'[a].outcome \in {"sent", "permanent_failure"}
                               /\ result'[a].outcome = "sent" => a \in transmitted'
                               /\ acked' = acked \ {a}
                         /\ transmitted' = transmitted \/ transmitted' = transmitted \cup {a}
  <2>1. Reported
    BY <1>20, TransmitReports
  <2>2. CASE b = a
    <3>1. a[2] <= claims[a[1]] /\ claims' = claims /\ answered' = answered /\ exposed' = exposed
      <4>1. claims[a[1]] = a[2] \/ result[a] # NoResult
        BY <1>20 DEF TransmitEnds
      <4>2. claims[a[1]] \in Nat /\ a[2] \in Nat
        BY Pairs
      <4>3. a[2] <= claims[a[1]]
        BY <4>1, <4>2
      <4> QED
        BY <1>20, <4>3 DEF TransmitEnds
    <3>2. result'[a].outcome = "retryable_failure" /\ a \notin exposed => a \notin answered
      BY <1>20, <2>1 DEF TransmitEnds
    <3>3. a \in acked' => result'[a] # NoResult
      BY <2>1
    <3>4. result'[a].outcome = "sent" => a \in transmitted'
      BY <1>20, <2>1 DEF TransmitEnds
    <3>5. result'[a] # NoResult => result'[a].outcome # "none"
      BY <2>1
    <3> QED
      BY <2>2, <3>1, <3>2, <3>3, <3>4, <3>5
  <2>3. CASE b # a
    BY <1>20, <2>1, <2>3 DEF TransmitEnds
  <2> QED
    BY <2>2, <2>3
<1>21. ASSUME NEW a \in Attempt, Close(a) PROVE ReportOf(b)'
  BY <1>21, Pairs DEF Close
<1>22. ASSUME NEW a \in Attempt, Settle(a) PROVE ReportOf(b)'
  BY <1>22, Pairs DEF Settle
<1>23. ASSUME NEW a \in Attempt, RemoveTiff(a) PROVE ReportOf(b)'
  BY <1>23, Pairs DEF RemoveTiff
<1>24. CASE Restart
  BY <1>24, Pairs DEF Restart
<1>25. CASE UNCHANGED vars
  BY <1>25 DEF vars
<1> QED
  BY <1>1, <1>2, <1>3, <1>4, <1>5, <1>6, <1>7, <1>8, <1>9, <1>10, <1>11, <1>12, <1>13,
     <1>14, <1>15, <1>16, <1>17, <1>18, <1>19, <1>20, <1>21, <1>22, <1>23, <1>24, <1>25
     DEF Next, CallStep

LEMMA SentStep ==
  ASSUME IInv, [Next]_vars
  PROVE  SentInv'
<1> USE ConstantsAssumption DEF IInv, TypeOK, Over, backend, files, events, history
<1>1. CASE UNCHANGED <<state, claims>> /\ transmitted \subseteq transmitted'
  BY <1>1 DEF SentInv
<1>2. ASSUME NEW j \in Job, Claim(j) PROVE SentInv'
  BY <1>2 DEF Claim, SentInv
<1>3. ASSUME NEW j \in Job, Expire(j) PROVE SentInv'
  BY <1>3 DEF Expire, SentInv
<1>4. ASSUME NEW a \in Attempt, Settle(a) PROVE SentInv'
  <2>1. a[1] \in Job /\ a = <<a[1], a[2]>> /\ claims[a[1]] = a[2]
    BY <1>4, Pairs DEF Settle, Accepts, IsCurrent
  <2>2. result[a].outcome = "sent" => a \in transmitted
    BY DEF AttemptInv, AttemptOf, ReportOf
  <2> QED
    BY <1>4, <2>1, <2>2 DEF Settle, SentInv
<1>5. ASSUME NEW a \in Attempt, Enqueue(a) \/ EnqueueFails(a) \/ CallStep(a) \/ RemoveTiff(a)
      PROVE  UNCHANGED <<state, claims>> /\ transmitted \subseteq transmitted'
  BY <1>5 DEF Enqueue, EnqueueFails, RemoveTiff, CallStep, Launch, CheckClaim, CheckRefused, Fetch,
              Convert, Publish, PrepareFails, DiscardTiff, DiscardPdf, Killed, Dial, DialFails, Answer, AnswerLost, Transmit,
              TransmitEnds, Close
<1>6. CASE Restart \/ UNCHANGED vars
  BY <1>1, <1>6 DEF Restart, vars
<1> QED
  BY <1>1, <1>2, <1>3, <1>4, <1>5, <1>6 DEF Next

LEMMA InvInit == Init => IInv
<1> SUFFICES ASSUME Init PROVE IInv
  OBVIOUS
<1>1. NoResult \in Result /\ NoResult.outcome = "none" /\ ~NoResult.cleanup
  BY DEF NoResult, Result
<1>2. TypeOK
  BY <1>1, ConstantsAssumption DEF Init, TypeOK, JobState, Stage
<1>3. AttemptInv
  BY <1>1 DEF Init, AttemptInv, AttemptOf, ActiveOf, StageOf, KeptOf, StoppedOf, AnsweredOf, ReportOf,
              Bound, Calling, Undoing
<1>4. SentInv
  BY DEF Init, SentInv
<1> QED
  BY <1>2, <1>3, <1>4 DEF IInv

THEOREM Invariance == Spec => []IInv
<1>1. IInv /\ [Next]_vars => IInv'
  <2> SUFFICES ASSUME IInv, [Next]_vars PROVE IInv'
    OBVIOUS
  <2>1. \A b \in Attempt : AttemptOf(b)'
    BY ActiveStep, StageStep, KeptStep, StoppedStep, AnsweredStep, ReportStep DEF AttemptOf
  <2> QED
    BY <2>1, TypeStep, SentStep DEF IInv, AttemptInv
<1> QED
  BY <1>1, InvInit, PTL DEF Spec

(* TypeOK: every stage, result and file the worker and the dialplan reach  *)
(* is one of theirs, for any number of claims and restarts.                *)
THEOREM Typed == Spec => []TypeOK
<1>1. IInv => TypeOK
  BY DEF IInv
<1> QED
  BY <1>1, Invariance, PTL

(* OnlyLastClaimActive: poll and the call-file spool work on the last      *)
(* claim of a job.  An older one has at most a channel that is closing, or *)
(* a call file that a restart left after the result; no document is        *)
(* published for it and no number dialled, unless the forwarder took the   *)
(* TIFF from under its prepare.                                            *)
THEOREM LastClaimActs == Spec => []OnlyLastClaimActive
<1>1. IInv => OnlyLastClaimActive
  <2> SUFFICES ASSUME IInv, NEW a \in Attempt, claims[a[1]] # a[2]
               PROVE  /\ a \in held \cup callfile => a \in reopened \/ stage[a] = "closing"
                      /\ stage[a] \in Bound => Exposed(a[1])
    BY DEF OnlyLastClaimActive, Bound
  <2>1. ActiveOf(a) /\ StageOf(a) /\ StoppedOf(a)
    BY DEF IInv, AttemptInv, AttemptOf
  <2>2. a \in exposed => Exposed(a[1])
    BY Pairs DEF Exposed
  <2>3. a \in held \cup callfile => a \in reopened \/ stage[a] = "closing"
    BY <2>1 DEF ActiveOf, StoppedOf, InHand, Undoing
  <2>4. stage[a] \in Bound => Exposed(a[1])
    BY <2>1, <2>2 DEF StageOf, StoppedOf, Bound, Calling
  <2> QED
    BY <2>3, <2>4
<1> QED
  BY <1>1, Invariance, PTL

(* TiffDuringCall: neither the forwarder nor a failing prepare removes the *)
(* TIFF of a call that may still send it.                                  *)
THEOREM TiffStays == Spec => []TiffDuringCall
<1>1. IInv => TiffDuringCall
  BY DEF IInv, AttemptInv, AttemptOf, StageOf, TiffDuringCall, Bound
<1> QED
  BY <1>1, Invariance, PTL

(* StateIsTruthful: a job is sent only when its pages arrived, and queued  *)
(* again only while nobody has answered for it, also when a restart came   *)
(* between a report and the end of its call; the second half ends with the *)
(* removal of a TIFF under a prepare that is running.                      *)
THEOREM StateTruthful == Spec => []StateIsTruthful
<1>1. IInv => StateIsTruthful
  <2> SUFFICES ASSUME IInv, NEW j \in Job
               PROVE  /\ state[j] = "sent" => <<j, claims[j]>> \in transmitted
                      /\ state[j] = "queued" /\ ~Exposed(j) =>
                           \A k \in 1 .. MaxAttempts : <<j, k>> \notin answered
    BY DEF StateIsTruthful
  <2>1. state[j] = "sent" => <<j, claims[j]>> \in transmitted
    BY DEF IInv, SentInv
  <2>2. ASSUME state[j] = "queued", ~Exposed(j), NEW k \in 1 .. MaxAttempts, <<j, k>> \in answered
        PROVE  FALSE
    <3>1. <<j, k>> \in Attempt /\ <<j, k>> \notin exposed
      BY <2>2 DEF Exposed, Attempt
    <3>2. AnsweredOf(<<j, k>>)
      BY <3>1 DEF IInv, AttemptInv, AttemptOf
    <3> QED
      BY <2>2, <3>1, <3>2 DEF AnsweredOf
  <2> QED
    BY <2>1, <2>2
<1> QED
  BY <1>1, Invariance, PTL

(* NoCallAfterAnswer: no dialplan run, not even one that a restart         *)
(* launches again after its result, dials for a job that somebody has      *)
(* answered, while the TIFF of the earlier call is where it was left.      *)
THEOREM NeverCalledAgain == Spec => NoCallAfterAnswer
<1>1. IInv => [\A a \in Attempt : stage[a] = "ready" /\ stage'[a] = "dialing" =>
                 \/ Exposed(a[1])
                 \/ \A k \in 1 .. MaxAttempts : <<a[1], k>> \notin answered]_vars
  <2> SUFFICES ASSUME IInv, NEW a \in Attempt, stage[a] = "ready", ~Exposed(a[1]),
                      NEW k \in 1 .. MaxAttempts, <<a[1], k>> \in answered
               PROVE  FALSE
    OBVIOUS
  <2>1. a[1] \in Job /\ a[2] \in 1 .. MaxAttempts /\ a = <<a[1], a[2]>> /\ <<a[1], k>> \in Attempt
    BY DEF Attempt
  <2>2. a \notin exposed /\ <<a[1], k>> \notin exposed
    BY <2>1 DEF Exposed
  <2>3. StageOf(a) /\ StoppedOf(a) /\ AnsweredOf(a) /\ AnsweredOf(<<a[1], k>>)
    BY <2>1 DEF IInv, AttemptInv, AttemptOf
  <2>4. a \in callfile /\ claims[a[1]] = a[2]
    BY <2>2, <2>3 DEF StageOf, StoppedOf, Bound
  <2>5. claims[a[1]] = k
    BY <2>2, <2>3 DEF AnsweredOf
  <2>6. a \in answered
    BY <2>1, <2>4, <2>5
  <2> QED
    BY <2>2, <2>3, <2>4, <2>6 DEF AnsweredOf
<1> QED
  BY <1>1, Invariance, PTL DEF NoCallAfterAnswer

(* Who reports an attempt again had its call file launched again.          *)
LEMMA ResultStays ==
  ASSUME IInv, [Next]_vars, NEW b \in Attempt, result[b] # NoResult
  PROVE  \/ result'[b] = result[b]
         \/ /\ b \in reopened
            /\ \/ "permanent_failure" \in {result[b].outcome, result'[b].outcome}
               \/ b \in exposed
<1> DEFINE Goal == \/ result'[b] = result[b]
                   \/ /\ b \in reopened
                      /\ \/ "permanent_failure" \in {result[b].outcome, result'[b].outcome}
                         \/ b \in exposed
<1>1. ActiveOf(b) /\ StageOf(b) /\ StoppedOf(b) /\ ReportOf(b) /\ TypeOK
  BY DEF IInv, AttemptInv, AttemptOf
<1>2. result[b].outcome \in {"sent", "retryable_failure", "permanent_failure"}
  BY <1>1 DEF TypeOK, Result, ReportOf
<1>3. ASSUME NEW a \in Attempt, EnqueueFails(a) PROVE Goal
  <2>1. \A c \in Attempt \ {a} : result'[c] = result[c]
    BY <1>1, <1>3, QueueReports
  <2>2. a # b
    BY <1>1, <1>3 DEF EnqueueFails, ActiveOf
  <2> QED
    BY <2>1, <2>2
<1>4. ASSUME NEW a \in Attempt, PrepareFails(a) PROVE Goal
  <2>1. /\ \A c \in Attempt \ {a} : result'[c] = result[c]
        /\ result' = result \/ result'[a].outcome = "permanent_failure"
    BY <1>1, <1>4, PrepareReports
  <2>2. a = b => b \in reopened
    BY <1>1, <1>4 DEF PrepareFails, ActiveOf, StageOf, Undoing
  <2> QED
    BY <2>1, <2>2
<1>5. ASSUME NEW a \in Attempt, DialFails(a) \/ TransmitEnds(a) PROVE Goal
  <2>1. \A c \in Attempt \ {a} : result'[c] = result[c]
    BY <1>1, <1>5, DialReports, TransmitReports
  <2>2. a = b => b \in callfile /\ stage[b] \in Bound
    BY <1>1, <1>5 DEF DialFails, TransmitEnds, StageOf, Bound, Calling
  <2>3. a = b => b \in reopened
    BY <1>1, <2>2 DEF ActiveOf, Bound, Undoing, Calling
  <2>4. a = b => result[b].outcome = "permanent_failure" \/ b \in exposed
    BY <1>1, <1>2, <2>2 DEF StoppedOf
  <2> QED
    BY <2>1, <2>3, <2>4
<1>6. ASSUME NEW a \in Attempt,
             \/ Enqueue(a) \/ Launch(a) \/ CheckClaim(a) \/ CheckRefused(a) \/ Fetch(a) \/ Convert(a)
             \/ Publish(a) \/ DiscardTiff(a) \/ DiscardPdf(a) \/ Killed(a) \/ Dial(a) \/ Answer(a)
             \/ AnswerLost(a) \/ Transmit(a) \/ Close(a) \/ Settle(a) \/ RemoveTiff(a)
      PROVE  UNCHANGED result
  BY <1>6 DEF Enqueue, Launch, CheckClaim, CheckRefused, Fetch, Convert, Publish, DiscardTiff, DiscardPdf,
              Killed, Dial, Answer, AnswerLost, Transmit, Close, Settle, RemoveTiff, events
<1>7. ASSUME NEW j \in Job, Claim(j) \/ Expire(j) PROVE UNCHANGED result
  BY <1>7 DEF Claim, Expire, events
<1>8. CASE Restart \/ UNCHANGED vars
  BY <1>8 DEF Restart, vars, events
<1> QED
  BY <1>3, <1>4, <1>5, <1>6, <1>7, <1>8 DEF Next, CallStep

(* ReportsReplaced: the event of a claim is overwritten only after a       *)
(* restart between that event and the end of its call file, and then a     *)
(* call's own report only by INPUT_UNAVAILABLE, unless its TIFF was gone.  *)
THEOREM OnlyReopenedReplaced == Spec => ReportsReplaced
<1>1. IInv /\ [Next]_vars =>
        [\A a \in Attempt : result[a] # NoResult =>
           \/ result'[a] = result[a]
           \/ /\ a \in reopened
              /\ \/ "permanent_failure" \in {result[a].outcome, result'[a].outcome}
                 \/ a \in exposed]_vars
  BY ResultStays
<1> QED
  BY <1>1, Invariance, PTL DEF Spec, ReportsReplaced

-----------------------------------------------------------------------------
(* Refinement                                                              *)

InCall == {a \in Attempt : stage[a] \in Calling}
Open(j) == j \in JobsOf(reopened)

(* The abstract state is a function of these.                              *)
LEMMA DeliveryStutters ==
  ASSUME UNCHANGED <<state, claims, answered, transmitted, Outcomes, InCall, reopened>>
  PROVE  UNCHANGED Delivery!vars
  BY DEF Delivery!vars, Delivery!job, InCall, JobsOf

(* While a job is not open, a claim that has not reported is its last, and *)
(* no other attempt of it has a call or an answer.                         *)
LEMMA ActiveWorks ==
  ASSUME IInv, NEW a \in Attempt, ~Open(a[1]), a \in held \cup callfile,
         stage[a] \notin Undoing \cup {"closing"} \/ a \in held
  PROVE  /\ a[1] \in Job /\ claims[a[1]] = a[2]
         /\ Delivery!Working(a[1])
         /\ \A b \in InCall \cup answered : b[1] = a[1] => b = a
<1>1. a[1] \in Job /\ a[2] \in 1 .. MaxAttempts /\ a = <<a[1], a[2]>>
  BY Pairs
<1>2. a \notin reopened
  BY DEF Open, JobsOf
<1>3. claims[a[1]] = a[2] /\ state[a[1]] \in {"sending", "unconfirmed"} /\ result[a] = NoResult
  BY <1>2 DEF IInv, AttemptInv, AttemptOf, ActiveOf, InHand
<1>4. Outcomes[a[1]][claims[a[1]]] = "none"
  BY <1>1, <1>3 DEF Outcomes, NoResult
<1>5. ASSUME NEW b \in InCall \cup answered, b[1] = a[1]
      PROVE  b = a
  <2>1. b \in Attempt /\ ActiveOf(b) /\ StageOf(b) /\ AnsweredOf(b)
    BY DEF InCall, IInv, TypeOK, AttemptInv, AttemptOf
  <2>2. b \notin reopened /\ b \notin exposed
    BY <1>5, <2>1 DEF Open, JobsOf, ActiveOf
  <2>3. claims[b[1]] = b[2]
    BY <2>1, <2>2 DEF InCall, Calling, ActiveOf, StageOf, AnsweredOf, InHand, Undoing
  <2>4. b[2] = a[2]
    BY <1>3, <1>5, <2>3
  <2> QED
    BY <1>5, <2>1, <2>4, Pairs
<1> QED
  BY <1>1, <1>3, <1>4, <1>5 DEF Delivery!Working

(* Only the outcomes of one job change with the result of its attempt.     *)
LEMMA OutcomesChange ==
  ASSUME IInv, NEW a \in Attempt, NEW outcome, result'[a].outcome = outcome,
         \A b \in Attempt \ {a} : result'[b] = result[b]
  PROVE  Outcomes' = [Outcomes EXCEPT ![a[1]][a[2]] = outcome]
<1>1. a[1] \in Job /\ a[2] \in 1 .. MaxAttempts /\ a = <<a[1], a[2]>>
  BY Pairs
<1>2. ASSUME NEW j \in Job, NEW k \in 1 .. MaxAttempts
      PROVE  Outcomes'[j][k] = IF j = a[1] /\ k = a[2] THEN outcome ELSE Outcomes[j][k]
  BY <1>1, Pairs DEF Outcomes
<1>3. Outcomes'[a[1]] = [Outcomes[a[1]] EXCEPT ![a[2]] = outcome]
  BY <1>1, <1>2 DEF Outcomes
<1>4. \A j \in Job \ {a[1]} : Outcomes'[j] = Outcomes[j]
  BY <1>2 DEF Outcomes
<1>5. DOMAIN Outcomes = Job /\ Outcomes' = [j \in Job |-> Outcomes'[j]]
  BY DEF Outcomes
<1> QED
  BY <1>1, <1>3, <1>4, <1>5

(* What an active attempt reports is its job's one report.                 *)
LEMMA ReportMaps ==
  ASSUME IInv, NEW a \in Attempt, ~Open(a[1]), a \in held \cup callfile,
         stage[a] \notin Undoing \cup {"closing"} \/ a \in held,
         NEW outcome \in {"sent", "retryable_failure", "permanent_failure"},
         outcome = "retryable_failure" => a \notin answered,
         result'[a].outcome = outcome, \A b \in Attempt \ {a} : result'[b] = result[b]
  PROVE  Delivery!Report(a[1], outcome)
<1>1. /\ a[1] \in Job /\ claims[a[1]] = a[2] /\ Delivery!Working(a[1])
      /\ a[2] \in 1 .. MaxAttempts /\ a = <<a[1], a[2]>>
  BY ActiveWorks, Pairs
<1>2. a \notin answered => a[1] \notin JobsOf(answered)
  BY ActiveWorks DEF JobsOf
<1>3. Outcomes' = [Outcomes EXCEPT ![a[1]][a[2]] = outcome]
  BY OutcomesChange
<1> QED
  BY <1>1, <1>2, <1>3 DEF Delivery!Report

LEMMA OutcomesStay ==
  ASSUME UNCHANGED result
  PROVE  UNCHANGED Outcomes
  BY DEF Outcomes

LEMMA ClaimMaps ==
  ASSUME IInv, NEW j \in Job, Claim(j)
  PROVE  Delivery!Claim(j)
  BY OutcomesStay DEF Claim, Delivery!Claim, JobsOf, events, history

LEMMA ExpireMaps ==
  ASSUME IInv, NEW j \in Job, Expire(j)
  PROVE  Delivery!Lapse(j)
  BY OutcomesStay DEF Expire, Delivery!Lapse, JobsOf, events, history

(* Sets of attempts that differ at most in one differ in its job at most.  *)
LEMMA JobsDiffer ==
  ASSUME NEW a, NEW S, NEW T, S \ {a} = T \ {a}
  PROVE  JobsOf(S) \ {a[1]} = JobsOf(T) \ {a[1]}
  BY DEF JobsOf

(* What an attempt of an open job may do to the calls, the answers, the    *)
(* pages and the reports.                                                  *)
LEMMA AstrayMaps ==
  ASSUME IInv, NEW a \in Attempt, Open(a[1]),
         UNCHANGED <<state, claims, reopened>>,
         result' \in [Attempt -> Result], \A b \in Attempt \ {a} : result'[b] = result[b],
         InCall' \ {a} = InCall \ {a},
         answered' = answered \/ answered' = answered \cup {a},
         \/ transmitted' = transmitted
         \/ a \in answered /\ transmitted' = transmitted \cup {a}
  PROVE  Delivery!Astray(a[1])
<1>1. a[1] \in Job /\ a[2] \in 1 .. MaxAttempts /\ a = <<a[1], a[2]>>
  BY Pairs
<1>2. \E s \in {"queued", "sending", "sent", "failed", "unconfirmed"} :
        /\ state' = [state EXCEPT ![a[1]] = s]
        /\ s = "sent" /\ state[a[1]] # "sent" => a[1] \in JobsOf(transmitted)
  <2>1. state[a[1]] \in {"queued", "sending", "sent", "failed", "unconfirmed"}
        /\ state' = [state EXCEPT ![a[1]] = state[a[1]]]
    BY <1>1 DEF IInv, TypeOK, JobState
  <2> QED
    BY <2>1
<1>3. \E k \in {claims[a[1]], claims[a[1]] + 1} : claims' = [claims EXCEPT ![a[1]] = k]
  BY <1>1 DEF IInv, TypeOK
<1>4. \E r \in [1 .. MaxAttempts -> Delivery!Outcome] : Outcomes' = [Outcomes EXCEPT ![a[1]] = r]
  <2>1. Outcomes' = [Outcomes EXCEPT ![a[1]][a[2]] = result'[a].outcome]
    BY OutcomesChange
  <2>2. Outcomes' = [Outcomes EXCEPT ![a[1]] = Outcomes'[a[1]]]
    BY <1>1, <2>1 DEF Outcomes
  <2>3. \A k \in 1 .. MaxAttempts : result'[<<a[1], k>>].outcome \in Delivery!Outcome
    BY <1>1 DEF Result, Delivery!Outcome, Attempt
  <2>4. Outcomes'[a[1]] \in [1 .. MaxAttempts -> Delivery!Outcome]
    BY <1>1, <2>3 DEF Outcomes
  <2> QED
    BY <2>2, <2>4
<1>5. Delivery!OnlyIn(a[1], JobsOf(InCall), JobsOf(InCall)')
  BY JobsDiffer DEF Delivery!OnlyIn, JobsOf
<1>6. Delivery!OnlyIn(a[1], JobsOf(answered), JobsOf(answered)') /\ JobsOf(answered) \subseteq JobsOf(answered)'
  BY DEF Delivery!OnlyIn, JobsOf
<1>7. /\ Delivery!OnlyIn(a[1], JobsOf(transmitted), JobsOf(transmitted)')
      /\ JobsOf(transmitted) \subseteq JobsOf(transmitted)'
  BY DEF Delivery!OnlyIn, JobsOf
<1>8. a[1] \in JobsOf(transmitted)' => a[1] \in JobsOf(answered)
  <2>1. \A b \in transmitted : b \in answered
    BY DEF IInv, TypeOK, AttemptInv, AttemptOf, StageOf
  <2> QED
    BY <2>1 DEF JobsOf
<1>9. UNCHANGED JobsOf(reopened) /\ a[1] \in JobsOf(reopened)
  BY DEF Open, JobsOf
<1> QED
  BY <1>2, <1>3, <1>4, <1>5, <1>6, <1>7, <1>8, <1>9 DEF Delivery!Astray, InCall, JobsOf

(* A step of an attempt that neither starts nor ends a call.               *)
LEMMA NoCallChange ==
  ASSUME IInv, NEW a \in Attempt, NEW s \in Stage, stage[a] \notin Calling, s \notin Calling,
         stage' = [stage EXCEPT ![a] = s]
  PROVE  UNCHANGED InCall
<1>1. \A b \in Attempt : stage'[b] \in Calling <=> stage[b] \in Calling
  BY DEF IInv, TypeOK
<1> QED
  BY <1>1 DEF InCall

LEMMA QuietMaps ==
  ASSUME IInv, NEW a \in Attempt,
         \/ Enqueue(a) \/ Launch(a) \/ CheckClaim(a) \/ CheckRefused(a) \/ Fetch(a)
         \/ Convert(a) \/ Publish(a) \/ DiscardTiff(a) \/ DiscardPdf(a) \/ Killed(a)
         \/ Transmit(a) \/ Close(a) \/ RemoveTiff(a)
  PROVE  UNCHANGED Delivery!vars
<1>1. UNCHANGED <<state, claims, answered, transmitted, result, reopened>>
  BY DEF Enqueue, Launch, CheckClaim, CheckRefused, Fetch, Convert, Publish, DiscardTiff, DiscardPdf,
         Killed, Transmit, Close, RemoveTiff, backend, events, history
<1>2. UNCHANGED stage \/ Transmit(a) \/ (\E s \in Stage \ Calling :
        stage[a] \notin Calling /\ stage' = [stage EXCEPT ![a] = s])
  BY DEF Enqueue, Launch, CheckClaim, CheckRefused, Fetch, Convert, Publish, DiscardTiff, DiscardPdf,
         Killed, Close, RemoveTiff, Over, Stage, Calling, Preparing
<1>3. UNCHANGED InCall
  <2>1. CASE UNCHANGED stage
    BY <2>1 DEF InCall
  <2>2. ASSUME NEW s \in Stage \ Calling, stage[a] \notin Calling, stage' = [stage EXCEPT ![a] = s]
        PROVE  UNCHANGED InCall
    <3>1. s \in Stage /\ s \notin Calling
      BY <2>2
    <3> QED
      BY <2>2, <3>1, NoCallChange
  <2>3. CASE Transmit(a)
    BY <2>3 DEF Transmit, InCall, Calling, IInv, TypeOK
  <2> QED
    BY <1>2, <2>1, <2>2, <2>3
<1> QED
  BY <1>1, <1>3, OutcomesStay, DeliveryStutters

(* A report before, or instead of, a call.                                 *)
LEMMA GiveUpMaps ==
  ASSUME IInv, NEW a \in Attempt, EnqueueFails(a) \/ PrepareFails(a)
  PROVE  Delivery!GiveUp(a[1]) \/ Delivery!Astray(a[1]) \/ UNCHANGED Delivery!vars
<1>1. UNCHANGED <<state, claims, answered, transmitted, reopened>>
  BY DEF EnqueueFails, PrepareFails, backend, history
<1>2. UNCHANGED InCall
  <2>1. CASE EnqueueFails(a)
    BY <2>1 DEF EnqueueFails, InCall
  <2>2. CASE PrepareFails(a)
    <3>1. /\ stage[a] \notin Calling /\ stage'[a] \notin Calling
          /\ \A b \in Attempt \ {a} : stage'[b] = stage[b]
      BY <2>2, PrepareReports DEF IInv, PrepareFails, Calling
    <3> QED
      BY <3>1 DEF InCall
  <2> QED
    BY <2>1, <2>2
<1>3. /\ a \in held \cup callfile /\ a \notin InCall
      /\ stage[a] \notin Undoing \cup {"closing"} \/ a \in held
  BY DEF EnqueueFails, PrepareFails, InCall, Calling, Undoing, IInv, AttemptInv, AttemptOf, StageOf, ActiveOf
<1>4. /\ result' \in [Attempt -> Result]
      /\ \A b \in Attempt \ {a} : result'[b] = result[b]
      /\ \/ result' = result
         \/ EnqueueFails(a) /\ result'[a].outcome = "retryable_failure"
         \/ result'[a].outcome = "permanent_failure"
  BY QueueReports, PrepareReports DEF IInv
<1>5. CASE result' = result
  BY <1>1, <1>2, <1>5, OutcomesStay, DeliveryStutters
<1>6. CASE Open(a[1])
  BY <1>1, <1>2, <1>4, <1>6, AstrayMaps
<1>7. CASE ~Open(a[1]) /\ result' # result
  <2>1. PICK outcome \in {"retryable_failure", "permanent_failure"} : outcome = result'[a].outcome
    BY <1>4, <1>7
  <2>2. EnqueueFails(a) => a \notin answered
    <3>1. a \notin exposed /\ (a \in held => a \notin answered)
      BY <1>7, Pairs DEF IInv, AttemptInv, AttemptOf, AnsweredOf, ActiveOf, Open, JobsOf
    <3> QED
      BY <3>1 DEF EnqueueFails
  <2>3. outcome = "retryable_failure" => a \notin answered
    BY <1>4, <1>7, <2>1, <2>2
  <2>4. Delivery!Report(a[1], outcome)
    BY <1>3, <1>4, <1>7, <2>1, <2>3, ReportMaps
  <2>5. a[1] \notin JobsOf(InCall)
    BY <1>3, <1>7, ActiveWorks DEF JobsOf
  <2> QED
    BY <1>1, <1>2, <2>4, <2>5 DEF Delivery!GiveUp, JobsOf, InCall
<1> QED
  BY <1>5, <1>6, <1>7

LEMMA DialMaps ==
  ASSUME IInv, NEW a \in Attempt, Dial(a)
  PROVE  Delivery!Call(a[1]) \/ Delivery!Astray(a[1])
<1>1. InCall' = InCall \cup {a}
  BY DEF Dial, InCall, Calling, IInv, TypeOK
<1>2. CASE ~Open(a[1])
  <2>1. /\ a \in callfile /\ a \notin InCall
        /\ stage[a] \notin Undoing \cup {"closing"}
    BY DEF Dial, IInv, AttemptInv, AttemptOf, StageOf, InCall, Calling, Undoing
  <2>2. a \notin answered
    <3>1. a \notin exposed
      BY <1>2 DEF IInv, AttemptInv, AttemptOf, ActiveOf, Open, JobsOf
    <3> QED
      BY <2>1, <3>1 DEF Dial, IInv, AttemptInv, AttemptOf, AnsweredOf
  <2>3. a[1] \notin JobsOf(InCall) \cup JobsOf(answered)
    BY <1>2, <2>1, <2>2, ActiveWorks DEF JobsOf
  <2>4. JobsOf(InCall)' = JobsOf(InCall) \cup {a[1]}
    BY <1>1 DEF JobsOf
  <2>5. Delivery!Working(a[1])
    BY <1>2, <2>1, ActiveWorks
  <2> QED
    BY <2>3, <2>4, <2>5, OutcomesStay DEF Dial, Delivery!Call, InCall, JobsOf, backend, events, history
<1>3. CASE Open(a[1])
  BY <1>1, <1>3, AstrayMaps DEF Dial, backend, events, history, IInv, TypeOK
<1> QED
  BY <1>2, <1>3

LEMMA AnswerMaps ==
  ASSUME IInv, NEW a \in Attempt, Answer(a)
  PROVE  Delivery!Answer(a[1]) \/ Delivery!Astray(a[1])
<1>1. InCall' = InCall
  BY DEF Answer, InCall, Calling, IInv, TypeOK
<1>2. CASE ~Open(a[1])
  <2>1. /\ a \in callfile /\ a \in InCall
        /\ stage[a] \notin Undoing \cup {"closing"}
    BY DEF Answer, IInv, AttemptInv, AttemptOf, StageOf, InCall, Calling, Undoing
  <2>2. a \notin answered
    <3>1. a \notin exposed
      BY <1>2 DEF IInv, AttemptInv, AttemptOf, ActiveOf, Open, JobsOf
    <3> QED
      BY <2>1, <3>1 DEF Answer, IInv, AttemptInv, AttemptOf, AnsweredOf
  <2>3. a[1] \in JobsOf(InCall) \ JobsOf(answered)
    BY <1>2, <2>1, <2>2, ActiveWorks DEF JobsOf
  <2>4. JobsOf(answered)' = JobsOf(answered) \cup {a[1]}
    BY DEF Answer, JobsOf
  <2> QED
    BY <1>1, <2>3, <2>4, OutcomesStay DEF Answer, Delivery!Answer, InCall, JobsOf, backend, events
<1>3. CASE Open(a[1])
  BY <1>1, <1>3, AstrayMaps DEF Answer, backend, events, IInv, TypeOK
<1> QED
  BY <1>2, <1>3

(* The end of a call, with or without pages, with or without a report.     *)
LEMMA HangUpMaps ==
  ASSUME IInv, NEW a \in Attempt, DialFails(a) \/ AnswerLost(a) \/ TransmitEnds(a)
  PROVE  Delivery!HangUp(a[1]) \/ Delivery!Astray(a[1])
<1>1. /\ a \in callfile /\ a \in InCall
      /\ stage[a] \notin Undoing \cup {"closing"}
  BY DEF DialFails, AnswerLost, TransmitEnds, IInv, AttemptInv, AttemptOf, StageOf, InCall, Calling, Undoing
<1>2. a[1] \in JobsOf(InCall)
  BY <1>1 DEF JobsOf
<1>3. InCall' = InCall \ {a}
  BY DEF DialFails, AnswerLost, TransmitEnds, Over, InCall, Calling, IInv, TypeOK
<1>4. /\ \/ UNCHANGED transmitted
         \/ a \in answered /\ transmitted' = transmitted \cup {a}
      /\ UNCHANGED <<state, claims, answered, reopened>>
  BY DEF DialFails, AnswerLost, TransmitEnds, backend, history, IInv, AttemptInv, AttemptOf, StageOf
<1>5. /\ result' \in [Attempt -> Result]
      /\ \A b \in Attempt \ {a} : result'[b] = result[b]
      /\ \/ UNCHANGED result
         \/ /\ result'[a].outcome \in {"sent", "retryable_failure", "permanent_failure"}
            /\ result'[a].outcome = "sent" => a \in transmitted'
            /\ result'[a].outcome = "retryable_failure" => DialFails(a)
  <2>1. CASE AnswerLost(a)
    BY <2>1 DEF AnswerLost, events, IInv, TypeOK
  <2>2. CASE DialFails(a)
    BY <2>2, DialReports DEF IInv
  <2>3. CASE TransmitEnds(a)
    BY <2>3, TransmitReports DEF IInv
  <2> QED
    BY <2>1, <2>2, <2>3
<1>6. CASE Open(a[1])
  <2>1. InCall' \ {a} = InCall \ {a}
    BY <1>3
  <2> QED
    BY <1>4, <1>5, <1>6, <2>1, AstrayMaps
<1>7. CASE ~Open(a[1])
  <2>1. JobsOf(InCall)' = JobsOf(InCall) \ {a[1]}
    BY <1>1, <1>3, <1>7, ActiveWorks DEF JobsOf
  <2>2. \/ JobsOf(transmitted)' = JobsOf(transmitted)
        \/ a[1] \in JobsOf(answered) /\ JobsOf(transmitted)' = JobsOf(transmitted) \cup {a[1]}
    BY <1>4 DEF JobsOf
  <2>3. CASE UNCHANGED result
    BY <1>2, <1>4, <2>1, <2>2, <2>3, OutcomesStay DEF Delivery!HangUp, InCall, JobsOf
  <2>4. CASE result' # result
    <3>1. PICK outcome \in {"sent", "retryable_failure", "permanent_failure"} :
            outcome = result'[a].outcome
      BY <1>5, <2>4
    <3>2. DialFails(a) => a \notin answered
      <4>1. a \notin exposed
        BY <1>7 DEF IInv, AttemptInv, AttemptOf, ActiveOf, Open, JobsOf
      <4> QED
        BY <1>1, <4>1 DEF DialFails, IInv, AttemptInv, AttemptOf, AnsweredOf
    <3>3. outcome = "retryable_failure" => a \notin answered
      BY <1>5, <2>4, <3>1, <3>2
    <3>4. Delivery!Report(a[1], outcome)
      BY <1>1, <1>5, <1>7, <3>1, <3>3, ReportMaps
    <3>5. outcome = "sent" => a[1] \in JobsOf(transmitted)'
      BY <1>5, <2>4, <3>1 DEF JobsOf
    <3> QED
      BY <1>2, <1>4, <2>1, <2>2, <3>4, <3>5 DEF Delivery!HangUp, InCall, JobsOf
  <2> QED
    BY <2>3, <2>4
<1> QED
  BY <1>6, <1>7

LEMMA SettleMaps ==
  ASSUME IInv, NEW a \in Attempt, Settle(a)
  PROVE  Delivery!Settle(a[1])
<1>1. /\ a[1] \in Job /\ a[2] \in 1 .. MaxAttempts /\ a = <<a[1], a[2]>>
      /\ claims[a[1]] = a[2] /\ state[a[1]] \in {"sending", "unconfirmed"}
      /\ state[a[1]] = "unconfirmed" => result[a].outcome = "sent"
  BY Pairs DEF Settle, Accepts, IsCurrent
<1>2. result[a].outcome \in {"sent", "retryable_failure", "permanent_failure"}
  BY DEF Settle, IInv, TypeOK, Result, AttemptInv, AttemptOf, ReportOf
<1>3. Outcomes[a[1]][claims[a[1]]] = result[a].outcome
  BY <1>1 DEF Outcomes
<1>4. state' = [state EXCEPT ![a[1]] =
        IF result[a].outcome = "sent" THEN "sent"
        ELSE IF result[a].outcome = "retryable_failure" /\ claims[a[1]] < MaxAttempts THEN "queued"
        ELSE "failed"]
  BY <1>2 DEF Settle
<1>5. ~Delivery!Working(a[1])
  BY <1>2, <1>3 DEF Delivery!Working
<1>6. UNCHANGED <<claims, Outcomes, InCall, answered, transmitted, reopened>>
  BY OutcomesStay DEF Settle, InCall, history
<1> QED
  BY <1>1, <1>3, <1>4, <1>5, <1>6 DEF Delivery!Settle, InCall, JobsOf

LEMMA RestartMaps ==
  ASSUME IInv, Restart
  PROVE  Delivery!Interrupt
<1>1. InCall' \subseteq InCall
  BY DEF Restart, InCall, Calling, IInv, TypeOK
<1>2. JobsOf(InCall)' \subseteq JobsOf(InCall)
  BY <1>1 DEF JobsOf
<1>3. UNCHANGED <<state, claims, Outcomes, answered, transmitted>>
  BY OutcomesStay DEF Restart, backend, events
<1>4. reopened \subseteq reopened' /\ \A a \in reopened' \ reopened : a \in Attempt /\ result[a] # NoResult
  BY DEF Restart, IInv, TypeOK
<1>5. JobsOf(reopened) \subseteq JobsOf(reopened)'
  BY <1>4 DEF JobsOf
<1>6. ASSUME NEW j \in JobsOf(reopened)' \ JobsOf(reopened)
      PROVE  \E k \in 1 .. claims[j] : Outcomes[j][k] # "none"
  <2>1. PICK a \in reopened' \ reopened : j = a[1]
    BY DEF JobsOf
  <2>2. a \in Attempt /\ result[a] # NoResult
    BY <1>4, <2>1
  <2>3. result[a].outcome # "none" /\ a[2] <= claims[a[1]]
    BY <2>2 DEF IInv, AttemptInv, AttemptOf, ReportOf
  <2>4. a[1] \in Job /\ a[2] \in 1 .. MaxAttempts /\ a = <<a[1], a[2]>>
    BY <2>2, Pairs
  <2>5. Outcomes[a[1]][a[2]] = result[a].outcome
    BY <2>4 DEF Outcomes
  <2>6. a[2] \in 1 .. claims[a[1]]
    BY <2>3, <2>4, ConstantsAssumption DEF IInv, TypeOK
  <2> QED
    BY <2>1, <2>3, <2>5, <2>6
<1> QED
  BY <1>2, <1>3, <1>5, <1>6 DEF Delivery!Interrupt, InCall, JobsOf

LEMMA StepMaps ==
  ASSUME IInv, [Next]_vars
  PROVE  Delivery!Next \/ UNCHANGED Delivery!vars
<1> DEFINE Goal == Delivery!Next \/ UNCHANGED Delivery!vars
<1>1. ASSUME NEW j \in Job, Claim(j) \/ Expire(j)
      PROVE  Goal
  BY <1>1, ClaimMaps, ExpireMaps DEF Delivery!Next
<1>2. ASSUME NEW a \in Attempt, Enqueue(a) \/ EnqueueFails(a) \/ CallStep(a) \/ Settle(a) \/ RemoveTiff(a)
      PROVE  Goal
  <2>1. a[1] \in Job
    BY Pairs
  <2> QED
    BY <1>2, <2>1, QuietMaps, GiveUpMaps, DialMaps, AnswerMaps, HangUpMaps, SettleMaps
       DEF CallStep, Delivery!Next
<1>3. CASE Restart
  BY <1>3, RestartMaps DEF Delivery!Next
<1>4. CASE UNCHANGED vars
  BY <1>4, OutcomesStay, DeliveryStutters DEF vars, backend, events, history, InCall
<1> QED
  BY <1>1, <1>2, <1>3, <1>4 DEF Next

LEMMA InitMaps == Init => Delivery!Init
<1> SUFFICES ASSUME Init PROVE Delivery!Init
  OBVIOUS
<1>1. Outcomes = [j \in Job |-> [k \in 1 .. MaxAttempts |-> "none"]]
  BY Pairs DEF Init, Outcomes, NoResult
<1>2. InCall = {}
  BY DEF Init, InCall, Calling
<1> QED
  BY <1>1, <1>2 DEF Init, Delivery!Init, InCall, JobsOf

(* ImplementsFaxDelivery: whatever is lost, expires, is cut by a restart   *)
(* or launched again, the worker, the dialplan and the backend together    *)
(* treat every job as FaxDelivery promises.  A job whose call a restart    *)
(* begins anew after the report is open there from then on; for every      *)
(* other job nothing is taken back.                                        *)
THEOREM DispatchDelivers == Spec => ImplementsFaxDelivery
<1>1. IInv /\ [Next]_vars => [Delivery!Next]_(Delivery!vars)
  BY StepMaps
<1> QED
  BY InitMaps, Invariance, <1>1, PTL DEF Spec, ImplementsFaxDelivery, Delivery!Spec
=============================================================================
