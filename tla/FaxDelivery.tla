----------------------------- MODULE FaxDelivery -----------------------------
(***************************************************************************)
(* What the PBX promises for the FAX jobs of the backend, with no call     *)
(* file, converted document, dialplan, handler or restart in sight.  A job *)
(* is tried claim after claim, and at most one call is made for it at a    *)
(* time.  Once somebody has answered it is never called again.  Of each    *)
(* claim at most one report is made: of success only when the pages        *)
(* arrived, of a failure worth another claim only when nobody answered.    *)
(*                                                                         *)
(* The promise for a job ends when the PBX stops between a report and the  *)
(* end of the call it is about, and begins that call anew.  Such a job is  *)
(* open again; what is left of the promise is that its state is sent only  *)
(* when pages arrived, that pages go to whoever answered, and that no      *)
(* claim is given up.  The other jobs are not affected.  FaxDispatch       *)
(* implements this specification.                                          *)
(***************************************************************************)
EXTENDS Naturals

CONSTANTS
  Job,
  MaxClaims     \* claims of one job before it is given up

VARIABLES
  state,        \* queued, sending, sent, failed or unconfirmed
  tries,        \* claims of each job made so far
  report,       \* what was reported of each of its claims, or "none"
  calling,      \* jobs with a call that rings or is up
  answered,     \* jobs whose call was answered
  arrived,      \* jobs whose pages reached the receiver
  open          \* jobs the PBX has begun anew after a report

job == <<state, tries, report, calling, answered, arrived>>
vars == <<job, open>>

Outcome == {"none", "sent", "retryable_failure", "permanent_failure"}

Init ==
  /\ state = [j \in Job |-> "queued"]
  /\ tries = [j \in Job |-> 0]
  /\ report = [j \in Job |-> [k \in 1 .. MaxClaims |-> "none"]]
  /\ calling = {} /\ answered = {} /\ arrived = {} /\ open = {}

Claim(j) ==
  /\ state[j] = "queued" /\ tries[j] < MaxClaims
  /\ state' = [state EXCEPT ![j] = "sending"]
  /\ tries' = [tries EXCEPT ![j] = @ + 1]
  /\ UNCHANGED <<report, calling, answered, arrived, open>>

(* A claim may lapse while it is worked on; nobody works on an older one.  *)
Working(j) ==
  /\ state[j] \in {"sending", "unconfirmed"}
  /\ report[j][tries[j]] = "none"

Call(j) ==
  /\ Working(j)
  /\ j \notin calling \cup answered
  /\ calling' = calling \cup {j}
  /\ UNCHANGED <<state, tries, report, answered, arrived, open>>

Answer(j) ==
  /\ j \in calling \ answered
  /\ answered' = answered \cup {j}
  /\ UNCHANGED <<state, tries, report, calling, arrived, open>>

(* The one report of a claim.                                              *)
Report(j, outcome) ==
  /\ Working(j)
  /\ outcome = "retryable_failure" => j \notin answered
  /\ report' = [report EXCEPT ![j][tries[j]] = outcome]

(* The pages may arrive without a success, and a call may end unreported.  *)
HangUp(j) ==
  /\ j \in calling
  /\ calling' = calling \ {j}
  /\ \/ UNCHANGED arrived
     \/ j \in answered /\ arrived' = arrived \cup {j}
  /\ \/ UNCHANGED report
     \/ \E outcome \in {"sent", "retryable_failure", "permanent_failure"} :
          /\ outcome = "sent" => j \in arrived'
          /\ Report(j, outcome)
  /\ UNCHANGED <<state, tries, answered, open>>

(* A report without a call: none was made, or none will be made again.     *)
GiveUp(j) ==
  /\ j \notin calling
  /\ \E outcome \in {"retryable_failure", "permanent_failure"} : Report(j, outcome)
  /\ UNCHANGED <<state, tries, calling, answered, arrived, open>>

(* The PBX stops: some calls, or all, are cut, and some of the jobs that   *)
(* have a report are begun anew.                                           *)
Interrupt ==
  /\ calling' \in SUBSET calling
  /\ open \subseteq open'
  /\ \A j \in open' \ open : \E k \in 1 .. tries[j] : report[j][k] # "none"
  /\ UNCHANGED <<state, tries, report, answered, arrived>>

(* The last claim's report reaches the backend; after the claim has lapsed *)
(* only a success counts.                                                  *)
Settle(j) ==
  /\ state[j] \in {"sending", "unconfirmed"} /\ ~Working(j)
  /\ LET outcome == report[j][tries[j]]
     IN  /\ state[j] = "unconfirmed" => outcome = "sent"
         /\ state' = [state EXCEPT ![j] =
              IF outcome = "sent" THEN "sent"
              ELSE IF outcome = "retryable_failure" /\ tries[j] < MaxClaims THEN "queued"
              ELSE "failed"]
  /\ UNCHANGED <<tries, report, calling, answered, arrived, open>>

Lapse(j) ==
  /\ state[j] = "sending"
  /\ state' = [state EXCEPT ![j] = "unconfirmed"]
  /\ UNCHANGED <<tries, report, calling, answered, arrived, open>>

(* The two sets differ at most in job j.                                   *)
OnlyIn(j, before, after) == before \ {j} = after \ {j}

(* What a job that is open may still do.                                   *)
Astray(j) ==
  /\ j \in open
  /\ \E s \in {"queued", "sending", "sent", "failed", "unconfirmed"} :
       /\ state' = [state EXCEPT ![j] = s]
       /\ s = "sent" /\ state[j] # "sent" => j \in arrived
  /\ \E k \in {tries[j], tries[j] + 1} : tries' = [tries EXCEPT ![j] = k]
  /\ \E r \in [1 .. MaxClaims -> Outcome] : report' = [report EXCEPT ![j] = r]
  /\ OnlyIn(j, calling, calling')
  /\ OnlyIn(j, answered, answered') /\ answered \subseteq answered'
  /\ OnlyIn(j, arrived, arrived') /\ arrived \subseteq arrived'
  /\ j \in arrived' => j \in answered
  /\ UNCHANGED open

Next ==
  \/ Interrupt
  \/ \E j \in Job : \/ Claim(j) \/ Call(j) \/ Answer(j) \/ HangUp(j)
                    \/ GiveUp(j) \/ Settle(j) \/ Lapse(j) \/ Astray(j)

Spec == Init /\ [][Next]_vars
=============================================================================
