----------------------- MODULE EndpointConfigProofs -----------------------
(***************************************************************************)
(* Theorems about EndpointConfig, for any configurations and any number of *)
(* changes and restarts. The fetched configuration is one whenever a round *)
(* is under way, and a round that came to acknowledge has the PBX serve    *)
(* what it acknowledges, or its file was replaced.                         *)
(***************************************************************************)
EXTENDS EndpointConfig, TLAPS

RoundInv == pc # "sleep" => value \in Config

AckInv == pc = "acknowledge" /\ file = last => Applied = Extensions[last]

IInv == TypeOK /\ RoundInv /\ AckInv

LEMMA InvInit == Init => IInv
<1> SUFFICES ASSUME Init PROVE IInv
  OBVIOUS
<1>1. reloading \in BOOLEAN
  BY DEF Init
<1>2. changes \in 0 .. MaxChanges /\ restarts \in 0 .. MaxRestarts
  BY ConstantsAssumption DEF Init
<1>3. TypeOK
  BY <1>1, <1>2 DEF Init, TypeOK, Phase
<1> QED
  BY <1>3 DEF Init, IInv, RoundInv, AckInv

LEMMA InvStep == IInv /\ [Next]_vars => IInv'
<1> SUFFICES ASSUME IInv, [Next]_vars
             PROVE  IInv'
  OBVIOUS
<1> USE ConstantsAssumption DEF IInv, TypeOK, RoundInv, AckInv, Applied, Phase, backend, pbx,
      poller, bounds
<1>1. CASE Fetch
  BY <1>1 DEF Fetch
<1>2. CASE Observe
  BY <1>2 DEF Observe
<1>3. CASE Write
  BY <1>3 DEF Write
<1>4. CASE Reload
  BY <1>4 DEF Reload
<1>5. CASE Confirm
  BY <1>5 DEF Confirm
<1>6. CASE Acknowledge
  BY <1>6 DEF Acknowledge
<1>7. CASE RoundFails \/ ReloadFails
  BY <1>7 DEF RoundFails, ReloadFails, EndRound
<1>8. CASE PbxLoads
  BY <1>8 DEF PbxLoads
<1>9. CASE Change
  BY <1>9 DEF Change
<1>10. CASE Restart
  <2>1. reloading' \in BOOLEAN
    BY <1>10 DEF Restart
  <2>2. restarts' \in 0 .. MaxRestarts /\ changes' \in 0 .. MaxChanges
    BY <1>10 DEF Restart
  <2> QED
    BY <1>10, <2>1, <2>2 DEF Restart
<1>11. CASE UNCHANGED vars
  BY <1>11 DEF vars
<1> QED
  BY <1>1, <1>2, <1>3, <1>4, <1>5, <1>6, <1>7, <1>8, <1>9, <1>10, <1>11 DEF Next, PollStep

THEOREM Invariance == Spec => []IInv
  BY InvInit, InvStep, PTL DEF Spec

(* TypeOK: whatever reloads, failures and restarts come, what the loop     *)
(* writes, compares and acknowledges (poll) is a configuration.            *)
THEOREM Typed == Spec => []TypeOK
<1>1. IInv => TypeOK
  BY DEF IInv
<1> QED
  BY <1>1, Invariance, PTL

(* AckedEndpointsServed: poll tells the backend a revision only while the  *)
(* PBX serves exactly its extensions, unless the file was emptied by a     *)
(* restart meanwhile; late reloads of earlier files cannot break it.       *)
THEOREM ServedWhenAcked == Spec => AckedEndpointsServed
<1>1. IInv => [pc = "acknowledge" /\ acked' = last /\ pc' = "sleep" /\ file = last
                 => Applied = Extensions[last]]_vars
  BY DEF IInv, AckInv
<1> QED
  BY <1>1, Invariance, PTL DEF AckedEndpointsServed
=============================================================================
