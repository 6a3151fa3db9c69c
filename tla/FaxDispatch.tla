----------------------------- MODULE FaxDispatch -----------------------------
(***************************************************************************)
(* Sending a FAX job: the worker that claims jobs and writes call files    *)
(* (pbx_fax_worker.py --poll), Asterisk's call-file spool and the dialplan *)
(* contexts fax-dispatch, fax-transmit and the two hangup handlers         *)
(* (extensions.conf), the AGI commands prepare and complete, and the       *)
(* result event that goes back to the backend.                             *)
(*                                                                         *)
(* An attempt <<j, k>> is the k-th claim of job j.  Its call file, PDF,    *)
(* TIFF and result event are all named by it, so each is a function of it. *)
(* The backend is the owner of the jobs and is not part of this            *)
(* repository; its steps are what the worker and the forwarder use of it.  *)
(* The event spool is reduced to what EventForwarder says of it: a result  *)
(* is delivered, perhaps late, unless another event of the same name takes *)
(* its place before, and then the bound TIFF may be removed.               *)
(*                                                                         *)
(* A handler that has written its result still holds the channel, and the  *)
(* call file goes only when the channel is over.  A PBX that restarts in   *)
(* between launches the call file of a claim that has reported.            *)
(*                                                                         *)
(* An operator X_Fault is X with a fault the code does not have.  No       *)
(* specification uses it; it shows that a property notices the fault.      *)
(***************************************************************************)
EXTENDS Naturals, FiniteSets

CONSTANTS
  Job,
  MaxAttempts,    \* claims of one job the backend makes before it gives up
  MaxRestarts     \* bound: restarts of the PBX container

ASSUME ConstantsAssumption ==
  MaxAttempts \in Nat \ {0} /\ MaxRestarts \in Nat

Attempt == Job \X (1 .. MaxAttempts)

VARIABLES
  \* the backend
  state,        \* queued, sending, sent, failed or unconfirmed
  claims,       \* claims made so far; the last one is the current one
  \* the worker's poll loop
  held,         \* the claim it has received and not yet queued, as a set
  \* the PBX
  callfile,     \* attempts with a file in outgoing/
  stage,        \* where the launched call of an attempt is
  pdf, tif,     \* attempts with a converted document on disk
  result,       \* result event of an attempt
  acked,        \* attempts whose event, as it is, the backend has accepted
                \* and whose TIFF the forwarder has not removed since
  restarts,
  \* history
  answered,     \* attempts whose call was answered
  transmitted,  \* attempts whose pages reached the receiver
  reopened,     \* attempts whose call file a restart left after the result
  exposed       \* attempts whose TIFF went while their prepare was running

backend == <<state, claims>>
files   == <<pdf, tif>>
events  == <<result, acked>>
history == <<answered, transmitted, reopened, exposed>>
vars == <<backend, held, callfile, stage, files, events, restarts, history>>

JobState == {"queued", "sending", "sent", "failed", "unconfirmed"}
(* prepare is in check (before the claim is compared), fetch, convert or   *)
(* publish, or removes what it created (undoTiff, undoPdf); then the call  *)
(* is ready, dialing, answered or transmitting, and its channel closing.   *)
Preparing == {"check", "fetch", "convert", "publish", "undoTiff", "undoPdf"}
Calling   == {"dialing", "answered", "transmitting"}
Stage     == {"none", "over", "ready", "closing"} \cup Preparing \cup Calling
(* An outcome, and whether the event is bound to the TIFF for cleanup.     *)
NoResult == [outcome |-> "none", cleanup |-> FALSE]
Result == [outcome: {"none", "sent", "retryable_failure", "permanent_failure"},
           cleanup: BOOLEAN]

TypeOK ==
  /\ state \in [Job -> JobState]
  /\ claims \in [Job -> 0 .. MaxAttempts]
  /\ held \subseteq Attempt
  /\ callfile \subseteq Attempt
  /\ stage \in [Attempt -> Stage]
  /\ pdf \subseteq Attempt /\ tif \subseteq Attempt
  /\ result \in [Attempt -> Result]
  /\ acked \subseteq Attempt
  /\ restarts \in 0 .. MaxRestarts
  /\ answered \subseteq Attempt /\ transmitted \subseteq Attempt
  /\ reopened \subseteq Attempt /\ exposed \subseteq Attempt

Init ==
  /\ state = [j \in Job |-> "queued"]
  /\ claims = [j \in Job |-> 0]
  /\ held = {} /\ callfile = {}
  /\ stage = [a \in Attempt |-> "none"]
  /\ pdf = {} /\ tif = {}
  /\ result = [a \in Attempt |-> NoResult]
  /\ acked = {}
  /\ restarts = 0
  /\ answered = {} /\ transmitted = {} /\ reopened = {} /\ exposed = {}

IsCurrent(a) == state[a[1]] = "sending" /\ claims[a[1]] = a[2]
(* write_event: the event takes the place of an earlier one of its name.   *)
Report(a, outcome, cleanup) ==
  /\ result' = [result EXCEPT ![a] = [outcome |-> outcome, cleanup |-> cleanup]]
  /\ acked' = acked \ {a}

-----------------------------------------------------------------------------
(* poll                                                                    *)

(* The claim request.  When its answer is lost nobody works on the claim.  *)
Claim(j) ==
  /\ held = {}
  /\ state[j] = "queued" /\ claims[j] < MaxAttempts
  /\ state' = [state EXCEPT ![j] = "sending"]
  /\ claims' = [claims EXCEPT ![j] = @ + 1]
  /\ held' \in {{<<j, claims[j] + 1>>}, {}}
  /\ UNCHANGED <<callfile, stage, files, events, restarts, history>>

(* enqueue: the complete call file appears in outgoing/.                   *)
Enqueue(a) ==
  /\ a \in held
  /\ held' = {}
  /\ callfile' = callfile \cup {a}
  /\ UNCHANGED <<backend, stage, files, events, restarts, history>>

(* An OSError before that is reported as LOCAL_QUEUE_UNAVAILABLE; when the *)
(* report fails too, the claim is dropped.                                 *)
EnqueueFails(a) ==
  /\ a \in held
  /\ held' = {}
  /\ Report(a, "retryable_failure", FALSE) \/ UNCHANGED events
  /\ UNCHANGED <<backend, callfile, stage, files, restarts, history>>

-----------------------------------------------------------------------------
(* A launched call file and prepare                                        *)

(* Asterisk launches a call file once (MaxRetries: 0), and again when it   *)
(* was interrupted before the channel was over.                            *)
Launch(a) ==
  /\ a \in callfile /\ stage[a] = "none"
  /\ stage' = [stage EXCEPT ![a] = "check"]
  /\ UNCHANGED <<backend, held, callfile, files, events, restarts, history>>

(* The channel is over and its call file gone.  A restart just before is   *)
(* one of the step before, unless that step has written something: such a  *)
(* step leaves the channel closing.                                        *)
Over(a) ==
  /\ stage' = [stage EXCEPT ![a] = "over"]
  /\ callfile' = callfile \ {a}

(* Faulty: the job is sending, and whose claim that is does not matter.    *)
CheckClaim_AnyClaim(a) ==
  /\ stage[a] = "check"
  /\ state[a[1]] = "sending"
  /\ stage' = [stage EXCEPT ![a] = "fetch"]
  /\ UNCHANGED <<backend, held, callfile, files, events, restarts, history>>

(* current: only the claim the call file was written for goes on.          *)
CheckClaim(a) ==
  /\ stage[a] = "check"
  /\ IsCurrent(a)
  /\ stage' = [stage EXCEPT ![a] = "fetch"]
  /\ UNCHANGED <<backend, held, callfile, files, events, restarts, history>>

(* Another claim, no job or no answer: FAX_JOB_READY is not 1.             *)
CheckRefused(a) ==
  /\ stage[a] = "check"
  /\ Over(a)
  /\ UNCHANGED <<backend, held, files, events, restarts, history>>

(* The route and the document are there; the PDF is created exclusively.   *)
Fetch(a) ==
  /\ stage[a] = "fetch"
  /\ a \notin pdf
  /\ pdf' = pdf \cup {a}
  /\ stage' = [stage EXCEPT ![a] = "convert"]
  /\ UNCHANGED <<backend, held, callfile, tif, events, restarts, history>>

(* Faulty: an existing TIFF is overwritten.                                *)
Convert_Overwrites(a) ==
  /\ stage[a] = "convert"
  /\ tif' = tif \cup {a}
  /\ stage' = [stage EXCEPT ![a] = "publish"]
  /\ UNCHANGED <<backend, held, callfile, pdf, events, restarts, history>>

(* So is the TIFF, which Ghostscript then fills.                           *)
Convert(a) ==
  /\ stage[a] = "convert"
  /\ a \notin tif
  /\ tif' = tif \cup {a}
  /\ stage' = [stage EXCEPT ![a] = "publish"]
  /\ UNCHANGED <<backend, held, callfile, pdf, events, restarts, history>>

(* Faulty: the TIFF goes too.                                              *)
Publish_CleansBoth(a) ==
  /\ stage[a] = "publish"
  /\ pdf' = pdf \ {a} /\ tif' = tif \ {a}
  /\ stage' = [stage EXCEPT ![a] = "ready"]
  /\ UNCHANGED <<backend, held, callfile, events, restarts, history>>

(* The channel variables bind the attempt to the call; the PDF goes.       *)
Publish(a) ==
  /\ stage[a] = "publish"
  /\ pdf' = pdf \ {a}
  /\ stage' = [stage EXCEPT ![a] = "ready"]
  /\ UNCHANGED <<backend, held, callfile, tif, events, restarts, history>>

(* Faulty: FAX_JOB_READY was set before the failure.                       *)
PrepareFails_Ready(a) ==
  /\ stage[a] = "publish"
  /\ Report(a, "permanent_failure", FALSE)
  /\ stage' = [stage EXCEPT ![a] = "ready"]
  /\ UNCHANGED <<backend, held, callfile, files, restarts, history>>

(* Any exception, an existing PDF or TIFF among them: INPUT_UNAVAILABLE,   *)
(* which may itself fail.  Only what this run of prepare created is then   *)
(* removed, and the TIFF only when the event could be written.             *)
PrepareFails(a) ==
  /\ stage[a] \in {"fetch", "convert", "publish"}
  /\ \E reported \in BOOLEAN :
       /\ IF reported THEN Report(a, "permanent_failure", FALSE) ELSE UNCHANGED events
       /\ stage' = [stage EXCEPT ![a] =
            IF @ = "fetch" THEN "closing"
            ELSE IF @ = "publish" /\ reported THEN "undoTiff" ELSE "undoPdf"]
  /\ UNCHANGED <<backend, held, callfile, files, restarts, history>>

DiscardTiff(a) ==
  /\ stage[a] = "undoTiff"
  /\ tif' = tif \ {a}
  /\ stage' = [stage EXCEPT ![a] = "undoPdf"]
  /\ UNCHANGED <<backend, held, callfile, pdf, events, restarts, history>>

DiscardPdf(a) ==
  /\ stage[a] = "undoPdf"
  /\ pdf' = pdf \ {a}
  /\ stage' = [stage EXCEPT ![a] = "closing"]
  /\ UNCHANGED <<backend, held, callfile, tif, events, restarts, history>>

(* The channel ends (TIMEOUT(absolute), a hangup) before the job's hangup  *)
(* handler is pushed: prepare dies where it is and reports nothing more.   *)
Killed(a) ==
  /\ stage[a] \in Preparing \cup {"ready"}
  /\ Over(a)
  /\ UNCHANGED <<backend, held, files, events, restarts, history>>

-----------------------------------------------------------------------------
(* The call                                                                *)

(* fax-dispatch pushes fax-job-hangup and dials.                           *)
Dial(a) ==
  /\ stage[a] = "ready"
  /\ stage' = [stage EXCEPT ![a] = "dialing"]
  /\ UNCHANGED <<backend, held, callfile, files, events, restarts, history>>

(* Dial statuses after which the number may be dialled again.              *)
Busy == {"BUSY", "NOANSWER", "CONGESTION", "CHANUNAVAIL"}

(* Faulty: a FAX that failed after the answer is sent again.               *)
OutcomeOf_Retries(fax, dial) ==
  IF fax = "SUCCESS" THEN "sent"
  ELSE IF dial \in Busy \/ fax = "FAILED" THEN "retryable_failure" ELSE "permanent_failure"

(* Faulty: the status of the dial is passed on.                            *)
OutcomeOf_Passes(fax, dial) ==
  IF fax = "SUCCESS" THEN "sent"
  ELSE IF dial \in Busy THEN "retryable_failure" ELSE dial

(* complete: the result of the FAX and dial status, bound to the TIFF      *)
(* unless its inspection fails; no result when the event cannot be         *)
(* written.                                                                *)
OutcomeOf(fax, dial) ==
  IF fax = "SUCCESS" THEN "sent"
  ELSE IF dial \in Busy THEN "retryable_failure" ELSE "permanent_failure"

Complete(a, fax, dial) ==
  \/ \E bound \in BOOLEAN :
       /\ bound => a \in tif
       /\ Report(a, OutcomeOf(fax, dial),
                 bound /\ (fax \in {"SUCCESS", "FAILED"} \/ dial \in Busy))
  \/ UNCHANGED events

(* fax-job-hangup: the call ended without an answer.                       *)
DialFails(a) ==
  /\ stage[a] = "dialing"
  /\ \E dial \in Busy \cup {"CANCEL", "UNKNOWN"} : Complete(a, "UNKNOWN", dial)
  /\ stage' = [stage EXCEPT ![a] = "closing"]
  /\ UNCHANGED <<backend, held, callfile, files, restarts, history>>

Answer(a) ==
  /\ stage[a] = "dialing"
  /\ stage' = [stage EXCEPT ![a] = "answered"]
  /\ answered' = answered \cup {a}
  /\ UNCHANGED <<backend, held, callfile, files, events, restarts, transmitted, reopened, exposed>>

(* The answering channel is gone before fax-transmit pushes its handler;   *)
(* fax-job-hangup finds DIALSTATUS ANSWER and reports nothing.             *)
AnswerLost(a) ==
  /\ stage[a] = "answered"
  /\ Over(a)
  /\ UNCHANGED <<backend, held, files, events, restarts, history>>

Transmit(a) ==
  /\ stage[a] = "answered"
  /\ stage' = [stage EXCEPT ![a] = "transmitting"]
  /\ UNCHANGED <<backend, held, callfile, files, events, restarts, history>>

(* fax-send-hangup: SendFAX is over.  Pages may have arrived although its  *)
(* status is a failure or was never set.                                   *)
TransmitEnds(a) ==
  /\ stage[a] = "transmitting"
  /\ \E fax \in {"SUCCESS", "FAILED", "UNKNOWN"}, arrived \in {{}, {a}} :
       /\ fax = "SUCCESS" => arrived = {a}
       /\ transmitted' = transmitted \cup arrived
       /\ Complete(a, fax, "ANSWER")
  /\ stage' = [stage EXCEPT ![a] = "closing"]
  /\ UNCHANGED <<backend, held, callfile, files, restarts, answered, reopened, exposed>>

(* The handler is done: the channel ends and its call file with it.        *)
Close(a) ==
  /\ stage[a] = "closing"
  /\ Over(a)
  /\ UNCHANGED <<backend, held, files, events, restarts, history>>

(* Faulty: the call file of an interrupted call lies there for ever.       *)
Restart_Forgets ==
  /\ restarts < MaxRestarts
  /\ restarts' = restarts + 1
  /\ held' = {}
  /\ stage' = [a \in Attempt |->
       IF a \in callfile /\ stage[a] # "none" THEN "over" ELSE stage[a]]
  /\ UNCHANGED <<backend, callfile, files, events, history>>

(* The container restarts: calls, AGI processes and the poll loop are      *)
(* gone, the files remain.  A call file whose channel was interrupted is   *)
(* launched again or never, also when its claim has reported.              *)
Restart ==
  /\ restarts < MaxRestarts
  /\ restarts' = restarts + 1
  /\ held' = {}
  /\ \E dropped \in SUBSET {a \in callfile : stage[a] # "none"} :
       /\ callfile' = callfile \ dropped
       /\ stage' = [a \in Attempt |->
            IF a \in dropped THEN "over" ELSE IF a \in callfile THEN "none" ELSE stage[a]]
       /\ reopened' = reopened \cup {a \in callfile \ dropped : result[a] # NoResult}
  /\ UNCHANGED <<backend, files, events, answered, transmitted, exposed>>

-----------------------------------------------------------------------------
(* The backend and the forwarder                                           *)

(* The result request.  A result of another claim is refused (409); after  *)
(* the claim expired only a success is still taken.                        *)
Accepts(a) ==
  \/ IsCurrent(a)
  \/ /\ state[a[1]] = "unconfirmed" /\ claims[a[1]] = a[2]
     /\ result[a].outcome = "sent"

Settle(a) ==
  /\ result[a] # NoResult
  /\ Accepts(a)
  /\ acked' = acked \cup {a}
  /\ state' = [state EXCEPT ![a[1]] =
       CASE result[a].outcome = "sent" -> "sent"
         [] result[a].outcome = "permanent_failure" -> "failed"
         [] OTHER -> IF claims[a[1]] < MaxAttempts THEN "queued" ELSE "failed"]
  /\ UNCHANGED <<claims, held, callfile, stage, files, result, restarts, history>>

(* The forwarder has the acknowledgement of the event that is there and    *)
(* removes the TIFF it is bound to.  A prepare that a restart has launched *)
(* again may be past the comparison of its claim by then.                  *)
RemoveTiff(a) ==
  /\ a \in acked \cap tif /\ result[a].cleanup
  /\ tif' = tif \ {a}
  /\ acked' = acked \ {a}
  /\ exposed' = exposed \cup (IF stage[a] \in {"fetch", "convert"} THEN {a} ELSE {})
  /\ UNCHANGED <<backend, held, callfile, stage, pdf, result, restarts, answered, transmitted, reopened>>

(* A sending job without a result becomes DELIVERY_UNCONFIRMED.            *)
Expire(j) ==
  /\ state[j] = "sending"
  /\ state' = [state EXCEPT ![j] = "unconfirmed"]
  /\ UNCHANGED <<claims, held, callfile, stage, files, events, restarts, history>>

-----------------------------------------------------------------------------
CallStep(a) ==
  \/ Launch(a)
  \/ CheckClaim(a) \/ CheckRefused(a) \/ Fetch(a) \/ Convert(a) \/ Publish(a)
  \/ PrepareFails(a) \/ DiscardTiff(a) \/ DiscardPdf(a) \/ Killed(a)
  \/ Dial(a) \/ DialFails(a) \/ Answer(a) \/ AnswerLost(a)
  \/ Transmit(a) \/ TransmitEnds(a) \/ Close(a)

Next ==
  \/ \E j \in Job : Claim(j) \/ Expire(j)
  \/ \E a \in Attempt :
       \/ Enqueue(a) \/ EnqueueFails(a) \/ CallStep(a)
       \/ Settle(a) \/ RemoveTiff(a)
  \/ Restart

Spec == Init /\ [][Next]_vars

(* Asterisk and the AGI commands run on, calls end, the forwarder delivers.*)
Fairness ==
  \A a \in Attempt : /\ WF_vars(Enqueue(a) \/ EnqueueFails(a))
                     /\ WF_vars(CallStep(a))
                     /\ WF_vars(Settle(a))

FairSpec == Spec /\ Fairness

-----------------------------------------------------------------------------
(* Safety                                                                  *)

(* A physical FAX is never sent again once somebody picked up: a job is    *)
(* dialled only if no call of any of its claims was answered, even when    *)
(* the PBX restarts in the middle of a call, or after its result, and      *)
(* launches its file again.  It takes the TIFF the first call left: the    *)
(* promise ends where the forwarder removes it under a prepare that had    *)
(* already compared its claim.                                             *)
Exposed(j) == \E k \in 1 .. MaxAttempts : <<j, k>> \in exposed

NoCallAfterAnswer ==
  [][\A a \in Attempt : stage[a] = "ready" /\ stage'[a] = "dialing" =>
       \/ Exposed(a[1])
       \/ \A k \in 1 .. MaxAttempts : <<a[1], k>> \notin answered]_vars

(* A claim's report is replaced, under the same file name, only when its   *)
(* call file was launched again after it, and what a call reported then    *)
(* gives way to INPUT_UNAVAILABLE alone: there was no second call, unless  *)
(* the TIFF that stops it was gone.                                        *)
ReportsReplaced ==
  [][\A a \in Attempt : result[a] # NoResult =>
       \/ result'[a] = result[a]
       \/ /\ a \in reopened
          /\ \/ "permanent_failure" \in {result[a].outcome, result'[a].outcome}
             \/ a \in exposed]_vars

(* The job's state tells what happened: sent only when the pages of the    *)
(* current claim arrived, back in the queue only when nobody answered.     *)
StateIsTruthful ==
  \A j \in Job :
    /\ state[j] = "sent" => <<j, claims[j]>> \in transmitted
    /\ state[j] = "queued" /\ ~Exposed(j) =>
         \A k \in 1 .. MaxAttempts : <<j, k>> \notin answered

(* Whoever works on a claim works on the job's last one, or its channel is *)
(* just closing.  A call file that a restart left after its result may be  *)
(* older too, and is then stopped where prepare compares the claims: no    *)
(* document is published and nobody dialled for an older claim.            *)
OnlyLastClaimActive ==
  \A a \in Attempt : claims[a[1]] # a[2] =>
    /\ a \in held \cup callfile => a \in reopened \/ stage[a] = "closing"
    /\ stage[a] \in {"publish", "ready"} \cup Calling => Exposed(a[1])

(* SendFAX finds its file: nobody removes the TIFF of a call under way.    *)
TiffDuringCall ==
  \A a \in Attempt : stage[a] \in {"ready"} \cup Calling => a \in tif

(* Refinement                                                              *)

Outcomes == [j \in Job |-> [k \in 1 .. MaxAttempts |-> result[<<j, k>>].outcome]]
JobsOf(attempts) == {a[1] : a \in attempts}

Delivery == INSTANCE FaxDelivery
              WITH MaxClaims <- MaxAttempts, tries <- claims, report <- Outcomes,
                   calling <- JobsOf({a \in Attempt : stage[a] \in Calling}),
                   answered <- JobsOf(answered), arrived <- JobsOf(transmitted),
                   open <- JobsOf(reopened)

(* The worker and the dialplan keep the promise of FaxDelivery at every    *)
(* step: one call of a job at a time and none after an answer, one report  *)
(* of each claim, which is true and never replaced, and the job's state    *)
(* follows from it, however often the PBX restarts. A job whose call file  *)
(* a restart left after its claim had reported is open from then on:       *)
(* FaxDelivery promises less of it.                                        *)
ImplementsFaxDelivery == Delivery!Spec

(* Liveness                                                                *)

(* The claim ended without a result event: a lost claim answer, a hangup   *)
(* before a handler was pushed, an event that could not be written.        *)
Unreported(j) ==
  LET a == <<j, claims[j]>>
  IN  a \notin held \cup callfile /\ result[a] = NoResult

(* A job is not left sending by a claim that was reported: it is settled,  *)
(* expires, or its claim ended without a report.                           *)
EventuallySettled ==
  \A j \in Job : state[j] = "sending" ~> (state[j] # "sending" \/ Unreported(j))
=============================================================================

