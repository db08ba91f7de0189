--------------------------- MODULE ServerGroupProofs ---------------------------
(***************************************************************************)
(* Proofs about ServerGroup, for any calls: any numbers of batches, hosts  *)
(* and connections, and any budget of retries.                             *)
(***************************************************************************)
EXTENDS ServerGroup, FiniteSetTheorems, TLAPS

\* Servers that are connected or connecting are no more than planned.
WaveFits ==
    /\ Cardinality(connected \cup wave) <= HostCount
    /\ phase # "connecting" => wave = {} /\ (PoolCount = HostCount \/ connected \cup failed = Host)

\* What has happened to the batches and the clients follows from the phase.
PhaseFits ==
    /\ phase = "connecting" => \A b \in Batch : future[b].state = "absent"
    /\ phase \in {"connecting", "running"} => outcome = "open"
    /\ phase \in {"running", "draining"} => connected # {}
    /\ phase \in {"connecting", "running", "draining"} => closed = {}
    /\ phase \in {"closing", "done"} => InState("queued") \cup InState("running") = {}

\* Where the attempts of a batch go.
AttemptsFit ==
    \A b \in Batch : future[b].state # "absent" =>
        /\ connected # {}
        /\ future[b].pool \in 0 .. PoolCount - 1
        /\ future[b].attempt = 0 => future[b].pool = b % PoolCount
        /\ future[b].attempt = 1 => future[b].pool # b % PoolCount

\* Threads of a pool that are at work.
ThreadsFit == \A p \in Nat : Cardinality(BusyIn(p)) <= Workers

IInv == TypeOK /\ PhaseFits /\ AttemptsFit /\ OutcomeIsEarned

-----------------------------------------------------------------------------
(***************************************************************************)
(* Facts about the numbers of a plan, and about finite sets of hosts.      *)
(***************************************************************************)
LEMMA PlanNumbers ==
    ASSUME call \in Calls
    PROVE  /\ call.batches \in Nat /\ call.hosts \in Nat /\ call.retries \in Nat
           /\ call.connections \in Nat \ {0}
           /\ HostCount \in Nat /\ HostCount <= call.hosts /\ HostCount <= call.batches
           /\ HostCount = 0 <=> (call.batches = 0 \/ call.hosts = 0)
  <1>1. call \in [batches : Nat, hosts : Nat, connections : Nat \ {0}, retries : Nat]
    BY CallsAssumption
  <1>2. /\ call.batches \in Nat /\ call.hosts \in Nat /\ call.retries \in Nat
        /\ call.connections \in Nat \ {0}
    BY <1>1
  <1> QED BY <1>2 DEF HostCount, SmallerOf

LEMMA PlanWorkers ==
    ASSUME call \in Calls
    PROVE  /\ ConnectionsPerServer \in Int /\ Workers \in Int
           /\ Workers >= 0 /\ Workers <= ConnectionsPerServer /\ ConnectionsPerServer <= call.connections
  <1>1. CASE HostCount = 0
    BY <1>1, PlanNumbers DEF ConnectionsPerServer, Workers, SmallerOf
  <1>2. CASE HostCount # 0
    <2>1. call.batches + HostCount - 1 \in Int /\ HostCount \in Nat \ {0}
      BY <1>2, PlanNumbers
    <2>2. CeilDiv(call.batches, HostCount) \in Nat
      BY <2>1, PlanNumbers DEF CeilDiv
    <2> QED BY <1>2, <2>2, PlanNumbers DEF ConnectionsPerServer, Workers, SmallerOf
  <1> QED BY <1>1, <1>2

LEMMA HostsAreFinite ==
    ASSUME call \in Calls, candidate \in 0 .. call.hosts, created \subseteq 0 .. candidate - 1,
           NEW S \in SUBSET created
    PROVE  IsFiniteSet(S) /\ Cardinality(S) \in Nat
  <1>1. candidate \in Nat
    BY PlanNumbers
  <1>2. IsFiniteSet(0 .. candidate - 1)
    BY <1>1, FS_Interval
  <1>3. IsFiniteSet(S)
    BY <1>2, FS_Subset
  <1> QED BY <1>3, FS_CardinalityType

LEMMA PoolNumber ==
    ASSUME TypeOK
    PROVE  /\ IsFiniteSet(connected) /\ PoolCount \in Nat
           /\ connected # {} <=> PoolCount > 0
  <1>1. IsFiniteSet(connected) /\ PoolCount \in Nat
    BY HostsAreFinite DEF TypeOK, PoolCount
  <1>2. connected # {} <=> PoolCount # 0
    BY <1>1, FS_EmptySet DEF PoolCount
  <1> QED BY <1>1, <1>2

\* The retry after the first attempt goes to another pool.
LEMMA NextIsAnother ==
    ASSUME NEW n \in Nat, n > 1, NEW x \in 0 .. n - 1
    PROVE  (x + 1) % n # x /\ (x + 1) % n \in 0 .. n - 1
  <1>1. CASE x + 1 < n
    <2>1. (x + 1) % n = x + 1
      BY <1>1
    <2> QED BY <1>1, <2>1
  <1>2. CASE x + 1 = n
    <2>1. (x + 1) % n = 0
      BY <1>2
    <2> QED BY <1>2, <2>1
  <1> QED BY <1>1, <1>2

LEMMA ModIsPool ==
    ASSUME NEW n \in Nat, n > 0, NEW x \in Nat
    PROVE  x % n \in 0 .. n - 1
  OBVIOUS

-----------------------------------------------------------------------------
(***************************************************************************)
(* Type correctness, and that hosts are tried once and in order.           *)
(***************************************************************************)
LEMMA TypeInit == Init => TypeOK
  <1> SUFFICES ASSUME Init PROVE TypeOK
    OBVIOUS
  <1>1. call \in Calls
    BY DEF Init
  <1>2. call.hosts \in Nat /\ call.retries \in Nat
    BY <1>1, PlanNumbers
  <1>3. phase \in Phase /\ outcome \in {"open", "result", "error"}
    BY DEF Init, Phase
  <1>4. future \in [Batch -> [pool : Nat, attempt : 0 .. call.retries, state : State]]
    BY <1>2 DEF Init, State
  <1>5. candidate \in 0 .. call.hosts /\ (0 .. candidate - 1) = {}
    BY <1>2 DEF Init
  <1> QED BY <1>1, <1>3, <1>4, <1>5 DEF Init, TypeOK

LEMMA TypeStep == TypeOK /\ [Next]_vars => TypeOK'
  <1> SUFFICES ASSUME TypeOK, [Next]_vars PROVE TypeOK'
    OBVIOUS
  <1>a. /\ call \in Calls /\ call.batches \in Nat /\ call.hosts \in Nat /\ call.retries \in Nat
        /\ HostCount \in Nat /\ PoolCount \in Nat /\ candidate \in 0 .. call.hosts
    BY PlanNumbers, PoolNumber DEF TypeOK
  <1>1. CASE TakeWave
    <2>1. candidate' \in candidate .. call.hosts
      BY <1>a, <1>1 DEF TakeWave, SmallerOf
    <2>2. PICK refused \in SUBSET (candidate .. candidate' - 1) :
            /\ wave' = (candidate .. candidate' - 1) \ refused
            /\ created' = created \cup wave'
            /\ failed' = failed \cup refused
      BY <1>1 DEF TakeWave
    <2>3. wave = {} /\ UNCHANGED <<call, phase, outcome, connected, future, closed>> /\ Batch' = Batch
      BY <1>1 DEF TakeWave, Batch
    <2>4. 0 .. candidate' - 1 = (0 .. candidate - 1) \cup (candidate .. candidate' - 1)
      BY <1>a, <2>1
    <2>5. \A h \in candidate .. candidate' - 1 : h \notin 0 .. candidate - 1
      BY <1>a, <2>1
    <2>6. created' \subseteq 0 .. candidate' - 1
      BY <2>2, <2>4 DEF TypeOK
    <2>7. connected' \subseteq created' \ wave'
      BY <2>2, <2>3, <2>5 DEF TypeOK
    <2>8. failed' = (0 .. candidate' - 1) \ (wave' \cup connected')
      BY <2>2, <2>3, <2>4, <2>5 DEF TypeOK
    <2>9. wave' \subseteq created' /\ closed' \subseteq created'
      BY <2>2, <2>3 DEF TypeOK
    <2>10. candidate' \in 0 .. call'.hosts
      BY <1>a, <2>1, <2>3
    <2> QED BY <2>3, <2>6, <2>7, <2>8, <2>9, <2>10 DEF TypeOK
  <1>2. ASSUME NEW h \in Host, ConnectEnds(h) PROVE TypeOK'
    <2>1. /\ h \in wave /\ wave' = wave \ {h}
          /\ UNCHANGED <<call, phase, outcome, candidate, created, future, closed>>
          /\ Batch' = Batch
      BY <1>2 DEF ConnectEnds, Batch
    <2>2. CASE connected' = connected \cup {h} /\ UNCHANGED failed
      BY <2>1, <2>2 DEF TypeOK
    <2>3. CASE failed' = failed \cup {h} /\ UNCHANGED connected
      BY <2>1, <2>3 DEF TypeOK
    <2> QED BY <1>2, <2>2, <2>3 DEF ConnectEnds
  <1>3. CASE NoneConnected
    BY <1>3 DEF NoneConnected, TypeOK, hostVars, Batch, Phase
  <1>4. CASE SubmitBatches
    <2>1. PoolCount > 0
      BY <1>4, PoolNumber DEF SubmitBatches
    <2>2. \A b \in Batch : b % PoolCount \in Nat
      BY <1>a, <2>1, ModIsPool DEF Batch
    <2>3. future' \in [Batch -> [pool : Nat, attempt : 0 .. call.retries, state : State]]
      BY <1>a, <1>4, <2>2 DEF SubmitBatches, State
    <2> QED BY <1>4, <2>3 DEF SubmitBatches, TypeOK, hostVars, Batch, Phase
  <1>5. ASSUME NEW b \in Batch, StartRequest(b) \/ EndRequest(b) \/ TakeAnswer(b) PROVE TypeOK'
    <2>1. \E s \in State : future' = [future EXCEPT ![b].state = s]
      BY <1>5 DEF StartRequest, EndRequest, TakeAnswer, State
    <2>2. UNCHANGED <<call, phase, outcome, hostVars, closed>>
      BY <1>5 DEF StartRequest, EndRequest, TakeAnswer
    <2>3. future' \in [Batch -> [pool : Nat, attempt : 0 .. call.retries, state : State]]
      BY <1>5, <2>1 DEF TypeOK
    <2> QED BY <2>2, <2>3 DEF TypeOK, hostVars, Batch
  <1>6. ASSUME NEW b \in Batch, Retry(b) PROVE TypeOK'
    <2>1. future[b].pool \in Nat /\ future[b].attempt \in Nat /\ PoolCount > 0
          /\ future[b].attempt < call.retries
      BY <1>a, <1>6 DEF Retry, MayNotRetry, TypeOK
    <2>2. NextPool(b) \in Nat
      BY <1>a, <2>1, ModIsPool DEF NextPool
    <2>3. future' \in [Batch -> [pool : Nat, attempt : 0 .. call.retries, state : State]]
      BY <1>a, <1>6, <2>1, <2>2 DEF Retry, TypeOK, State
    <2> QED BY <1>6, <2>3 DEF Retry, TypeOK, hostVars, Batch
  <1>7. ASSUME NEW b \in Batch, RaiseError(b) PROVE TypeOK'
    BY <1>7 DEF RaiseError, TypeOK, hostVars, Batch, Phase
  <1>8. CASE AllAnswered
    BY <1>8 DEF AllAnswered, TypeOK, hostVars, Batch, Phase
  <1>9. CASE ShutDownPools
    BY <1>9 DEF ShutDownPools, TypeOK, hostVars, Batch, Phase
  <1>10. ASSUME NEW h \in Host, CloseClient(h) PROVE TypeOK'
    BY <1>10 DEF CloseClient, StillOpen, TypeOK, hostVars, Batch
  <1>11. CASE Finish
    BY <1>11 DEF Finish, TypeOK, hostVars, Batch, Phase
  <1>12. CASE UNCHANGED vars
    BY <1>12 DEF vars, TypeOK, hostVars, Batch
  <1> QED BY <1>1, <1>2, <1>3, <1>4, <1>5, <1>6, <1>7, <1>8, <1>9, <1>10, <1>11, <1>12
          DEF Next, MainStep, PoolStep

\* Every variable keeps its type, hosts are tried once and in order, and no
\* batch has more attempts than the retries allow.
THEOREM TypeInvariant == Spec => []TypeOK
  BY TypeInit, TypeStep, PTL DEF Spec

-----------------------------------------------------------------------------
(***************************************************************************)
(* The limits of the caller.                                               *)
(***************************************************************************)
LEMMA WaveLength ==
    ASSUME NEW first \in Int, NEW next \in Int, NEW free \in Int, next <= first + free
    PROVE  (next - 1) - first + 1 <= free
  OBVIOUS

LEMMA WaveStep == TypeOK /\ WaveFits /\ [Next]_vars => WaveFits'
  <1> SUFFICES ASSUME TypeOK, WaveFits, [Next]_vars PROVE WaveFits'
    OBVIOUS
  <1>a. /\ call \in Calls /\ call.batches \in Nat /\ call.hosts \in Nat
        /\ HostCount \in Nat /\ PoolCount \in Nat /\ candidate \in 0 .. call.hosts
        /\ IsFiniteSet(connected)
    BY PlanNumbers, PoolNumber DEF TypeOK
  <1>b. TypeOK'
    BY TypeStep
  <1>1. CASE TakeWave
    <2>1. /\ wave = {} /\ phase = "connecting" /\ connected' = connected /\ phase' = phase
          /\ HostCount' = HostCount /\ PoolCount < HostCount
          /\ wave' \subseteq candidate .. candidate' - 1
      BY <1>1 DEF TakeWave, HostCount
    <2>2. candidate' \in Nat /\ candidate' <= candidate + HostCount - PoolCount
      BY <1>a, <1>1 DEF TakeWave, SmallerOf
    <2>3. IsFiniteSet(candidate .. candidate' - 1)
      BY <1>a, <2>2, FS_Interval
    <2>4. Cardinality(candidate .. candidate' - 1) <= HostCount - PoolCount
      <3> DEFINE last == candidate' - 1
      <3>1. candidate \in Int /\ last \in Int
        BY <1>a, <2>2
      <3>2. Cardinality(candidate .. last) = IF candidate > last THEN 0 ELSE last - candidate + 1
        BY <3>1, FS_Interval
      <3>a. candidate' \in Int /\ HostCount - PoolCount \in Int
            /\ candidate' <= candidate + (HostCount - PoolCount)
        BY <1>a, <2>2
      <3>3. last - candidate + 1 <= HostCount - PoolCount
        BY <3>1, <3>a, WaveLength
      <3>4. HostCount - PoolCount > 0
        BY <1>a, <2>1
      <3> HIDE DEF last
      <3>5. Cardinality(candidate .. last) <= HostCount - PoolCount
        BY <1>a, <3>1, <3>2, <3>3, <3>4
      <3> QED BY <3>5 DEF last
    <2>5. IsFiniteSet(wave') /\ Cardinality(wave') <= Cardinality(candidate .. candidate' - 1)
      BY <2>1, <2>3, FS_Subset
    <2>6. /\ Cardinality(wave') \in Nat
          /\ Cardinality(candidate .. candidate' - 1) \in Nat
          /\ Cardinality(connected \cap wave') \in Nat
      <3>1. IsFiniteSet(connected \cap wave')
        BY <1>a, FS_Subset, connected \cap wave' \subseteq connected
      <3> QED BY <2>3, <2>5, <3>1, FS_CardinalityType
    <2>7. Cardinality(connected \cup wave') =
            Cardinality(connected) + Cardinality(wave') - Cardinality(connected \cap wave')
      BY <1>a, <2>5, FS_Union
    <2>8. Cardinality(connected' \cup wave') <= HostCount'
      BY <1>a, <2>1, <2>4, <2>5, <2>6, <2>7 DEF PoolCount
    <2> QED BY <2>1, <2>8 DEF WaveFits
  <1>2. ASSUME NEW h \in Host, ConnectEnds(h) PROVE WaveFits'
    <2>1. /\ phase' = phase /\ phase = "connecting" /\ HostCount' = HostCount
          /\ connected' \cup wave' \subseteq connected \cup wave
      BY <1>2 DEF ConnectEnds, HostCount
    <2>2. IsFiniteSet(connected \cup wave) /\ Cardinality(connected \cup wave) \in Nat
      BY HostsAreFinite DEF TypeOK
    <2>3. Cardinality(connected' \cup wave') <= Cardinality(connected \cup wave)
          /\ Cardinality(connected' \cup wave') \in Nat
      BY <2>1, <2>2, FS_Subset, FS_CardinalityType
    <2> QED BY <1>a, <2>1, <2>2, <2>3 DEF WaveFits
  <1>3. CASE NoneConnected \/ SubmitBatches
    <2>1. /\ phase = "connecting" /\ WavesAreOver /\ UNCHANGED <<call, hostVars>>
      BY <1>3 DEF NoneConnected, SubmitBatches
    <2>2. HostCount' = HostCount /\ PoolCount' = PoolCount /\ Host' = Host
      BY <2>1 DEF HostCount, PoolCount, Host, hostVars
    <2>3. wave = {} /\ (PoolCount >= HostCount \/ candidate >= call.hosts)
      BY <2>1 DEF WavesAreOver
    <2>4. PoolCount <= HostCount
      <3>1. connected \cup wave = connected
        BY <2>3
      <3> QED BY <3>1 DEF WaveFits, PoolCount
    <2>5. CASE candidate >= call.hosts
      <3>1. 0 .. candidate - 1 = Host
        BY <1>a, <2>5 DEF Host
      <3>2. connected \subseteq 0 .. candidate - 1 /\ failed = (0 .. candidate - 1) \ connected
        BY <2>3 DEF TypeOK
      <3>3. connected \cup failed = Host
        BY <3>1, <3>2
      <3> QED BY <2>1, <2>2, <2>3, <3>3 DEF WaveFits, hostVars
    <2>6. CASE PoolCount >= HostCount
      BY <1>a, <2>1, <2>2, <2>3, <2>4, <2>6 DEF WaveFits, hostVars
    <2> QED BY <2>3, <2>5, <2>6
  <1>4. CASE phase # "connecting" /\ phase' # "connecting" /\ UNCHANGED <<call, hostVars>>
    BY <1>4 DEF WaveFits, HostCount, PoolCount, Host, hostVars
  <1>5. CASE phase = phase' /\ UNCHANGED <<call, hostVars>>
    BY <1>5 DEF WaveFits, HostCount, PoolCount, Host, hostVars
  <1>6. ASSUME NEW b \in Batch, PoolStep(b) \/ TakeAnswer(b) \/ Retry(b) PROVE WaveFits'
    BY <1>5, <1>6 DEF PoolStep, StartRequest, EndRequest, TakeAnswer, Retry
  <1>7. ASSUME NEW b \in Batch, RaiseError(b) PROVE WaveFits'
    BY <1>4, <1>7 DEF RaiseError
  <1>8. CASE AllAnswered \/ ShutDownPools \/ Finish
    BY <1>4, <1>8 DEF AllAnswered, ShutDownPools, Finish
  <1>9. ASSUME NEW h \in Host, CloseClient(h) PROVE WaveFits'
    BY <1>5, <1>9 DEF CloseClient
  <1>10. CASE UNCHANGED vars
    BY <1>5, <1>10 DEF vars
  <1> QED BY <1>1, <1>2, <1>3, <1>6, <1>7, <1>8, <1>9, <1>10 DEF Next, MainStep

LEMMA BusyNumber ==
    ASSUME TypeOK, NEW p
    PROVE  IsFiniteSet(BusyIn(p)) /\ Cardinality(BusyIn(p)) \in Nat
  <1>1. call.batches \in Nat
    BY PlanNumbers DEF TypeOK
  <1>2. IsFiniteSet(Batch)
    BY <1>1, FS_Interval DEF Batch
  <1>3. BusyIn(p) \subseteq Batch
    BY DEF BusyIn, InState
  <1>4. IsFiniteSet(BusyIn(p))
    BY <1>2, <1>3, FS_Subset
  <1> QED BY <1>4, FS_CardinalityType

\* A step that starts no request leaves no pool with more threads at work.
LEMMA NoMoreBusy ==
    ASSUME TypeOK, ThreadsFit, Workers' = Workers, \A p \in Nat : BusyIn(p)' \subseteq BusyIn(p)
    PROVE  ThreadsFit'
  <1>1. ASSUME NEW p \in Nat PROVE Cardinality(BusyIn(p)') <= Workers'
    <2>1. IsFiniteSet(BusyIn(p)) /\ Cardinality(BusyIn(p)) \in Nat
      BY BusyNumber
    <2>2. Cardinality(BusyIn(p)') <= Cardinality(BusyIn(p)) /\ IsFiniteSet(BusyIn(p)')
      BY <2>1, FS_Subset
    <2>3. Cardinality(BusyIn(p)') \in Nat
      BY <2>2, FS_CardinalityType
    <2>4. Workers \in Int
      BY PlanWorkers DEF TypeOK
    <2> QED BY <2>1, <2>2, <2>3, <2>4 DEF ThreadsFit
  <1> QED BY <1>1 DEF ThreadsFit

LEMMA ThreadsStep == TypeOK /\ ThreadsFit /\ [Next]_vars => ThreadsFit'
  <1> SUFFICES ASSUME TypeOK, ThreadsFit, [Next]_vars PROVE ThreadsFit'
    OBVIOUS
  <1>a. call' = call /\ Workers' = Workers /\ Batch' = Batch
    <2>1. call' = call
      BY DEF Next, MainStep, PoolStep, vars, TakeWave, ConnectEnds, NoneConnected, SubmitBatches,
             StartRequest, EndRequest, TakeAnswer, Retry, RaiseError, AllAnswered,
             ShutDownPools, CloseClient, Finish
    <2> QED BY <2>1 DEF Workers, ConnectionsPerServer, HostCount, Batch
  <1>1. CASE UNCHANGED future
    BY <1>a, <1>1, NoMoreBusy DEF BusyIn, InState
  <1>2. CASE SubmitBatches
    <2>1. \A p \in Nat : BusyIn(p)' \subseteq BusyIn(p)
      BY <1>a, <1>2 DEF SubmitBatches, BusyIn, InState
    <2> QED BY <1>a, <2>1, NoMoreBusy
  <1>3. ASSUME NEW b \in Batch, EndRequest(b) \/ TakeAnswer(b) \/ Retry(b) PROVE ThreadsFit'
    <2>1. \A c \in Batch \ {b} : future'[c] = future[c]
      BY <1>3 DEF EndRequest, TakeAnswer, Retry, TypeOK
    <2>2. future'[b].state # "running"
      BY <1>3 DEF EndRequest, TakeAnswer, Retry, TypeOK
    <2>3. \A p \in Nat : BusyIn(p)' \subseteq BusyIn(p)
      BY <1>a, <2>1, <2>2 DEF BusyIn, InState
    <2> QED BY <1>a, <2>3, NoMoreBusy
  <1>4. ASSUME NEW b \in Batch, StartRequest(b) PROVE ThreadsFit'
    <2>1. /\ \A c \in Batch \ {b} : future'[c] = future[c]
          /\ future'[b].state = "running" /\ future'[b].pool = future[b].pool
          /\ future[b].state = "queued" /\ Cardinality(BusyIn(future[b].pool)) < Workers
      BY <1>4 DEF StartRequest, HasThread, InState, TypeOK
    <2>2. ASSUME NEW p \in Nat PROVE Cardinality(BusyIn(p)') <= Workers'
      <3>1. IsFiniteSet(BusyIn(p)) /\ Cardinality(BusyIn(p)) \in Nat /\ Workers \in Int
        BY BusyNumber, PlanWorkers DEF TypeOK
      <3>2. CASE p = future[b].pool
        <4>1. BusyIn(p)' = BusyIn(p) \cup {b} /\ b \notin BusyIn(p)
          BY <1>a, <2>1, <3>2 DEF BusyIn, InState
        <4>2. Cardinality(BusyIn(p) \cup {b}) = Cardinality(BusyIn(p)) + 1
          BY <3>1, <4>1, FS_AddElement
        <4> QED BY <1>a, <2>1, <3>1, <3>2, <4>1, <4>2
      <3>3. CASE p # future[b].pool
        <4>1. BusyIn(p)' = BusyIn(p)
          BY <1>a, <2>1, <3>3 DEF BusyIn, InState
        <4> QED BY <1>a, <4>1 DEF ThreadsFit
      <3> QED BY <3>2, <3>3
    <2> QED BY <2>2 DEF ThreadsFit
  <1>5. ASSUME NEW h \in Host, ConnectEnds(h) \/ CloseClient(h) PROVE UNCHANGED future
    BY <1>5 DEF ConnectEnds, CloseClient
  <1>6. ASSUME NEW b \in Batch, RaiseError(b) PROVE UNCHANGED future
    BY <1>6 DEF RaiseError
  <1>7. CASE TakeWave \/ NoneConnected \/ AllAnswered \/ ShutDownPools \/ Finish \/ UNCHANGED vars
    BY <1>1, <1>7 DEF TakeWave, NoneConnected, AllAnswered, ShutDownPools, Finish, vars
  <1> QED BY <1>1, <1>2, <1>3, <1>4, <1>5, <1>6, <1>7 DEF Next, MainStep, PoolStep

LEMMA LimitsInit == Init => WaveFits /\ ThreadsFit
  <1> SUFFICES ASSUME Init PROVE WaveFits /\ ThreadsFit
    OBVIOUS
  <1>1. TypeOK
    BY TypeInit
  <1>2. call \in Calls /\ HostCount \in Nat
    BY PlanNumbers DEF Init
  <1>3. connected = {} /\ wave = {} /\ Cardinality(connected \cup wave) = 0 /\ PoolCount = 0
    BY FS_EmptySet DEF Init, PoolCount
  <1>4. WaveFits
    BY <1>2, <1>3 DEF Init, WaveFits
  <1>5. \A p \in Nat : BusyIn(p) = {}
    BY DEF Init, BusyIn, InState
  <1>6. ThreadsFit
    BY <1>2, <1>5, FS_EmptySet, PlanWorkers DEF ThreadsFit
  <1> QED BY <1>4, <1>6

LEMMA LimitsHold == TypeOK /\ WaveFits /\ ThreadsFit => WithinLimits
  <1> SUFFICES ASSUME TypeOK, WaveFits, ThreadsFit PROVE WithinLimits
    OBVIOUS
  <1>1. call \in Calls /\ HostCount \in Nat /\ PoolCount \in Nat
    BY PlanNumbers, PoolNumber DEF TypeOK
  <1>2. PoolCount <= HostCount
    <2>1. IsFiniteSet(connected \cup wave) /\ Cardinality(connected \cup wave) \in Nat
      BY HostsAreFinite DEF TypeOK
    <2>2. Cardinality(connected) <= Cardinality(connected \cup wave)
      BY <2>1, FS_Subset
    <2> QED BY <1>1, <2>1, <2>2 DEF WaveFits, PoolCount
  <1>3. \A p \in Host : Cardinality(BusyIn(p)) <= ConnectionsPerServer
    <2> SUFFICES ASSUME NEW p \in Host PROVE Cardinality(BusyIn(p)) <= ConnectionsPerServer
      OBVIOUS
    <2>1. p \in Nat
      BY <1>1, PlanNumbers DEF Host
    <2>2. Cardinality(BusyIn(p)) \in Nat /\ Cardinality(BusyIn(p)) <= Workers
      BY <2>1, BusyNumber DEF ThreadsFit
    <2> QED BY <1>1, <2>2, PlanWorkers
  <1>4. phase # "connecting" => PoolCount = HostCount \/ connected \cup failed = Host
    BY DEF WaveFits
  <1> QED BY <1>1, <1>2, <1>3, <1>4, PlanWorkers DEF WithinLimits

\* No more servers are connected than planned, no server has more requests at
\* once than its client has connections, and a planned server is missing only
\* when no host is left, whatever connects and requests fail.
THEOREM LimitsInvariant == Spec => []WithinLimits
  <1>1. Init => TypeOK /\ WaveFits /\ ThreadsFit
    BY TypeInit, LimitsInit
  <1>2. TypeOK /\ WaveFits /\ ThreadsFit /\ [Next]_vars => (TypeOK /\ WaveFits /\ ThreadsFit)'
    BY TypeStep, WaveStep, ThreadsStep
  <1> QED BY <1>1, <1>2, LimitsHold, PTL DEF Spec

-----------------------------------------------------------------------------
(***************************************************************************)
(* How a call ends.                                                        *)
(***************************************************************************)
LEMMA PhaseStep == TypeOK /\ PhaseFits /\ [Next]_vars => PhaseFits'
  <1> SUFFICES ASSUME TypeOK, PhaseFits, [Next]_vars PROVE PhaseFits'
    OBVIOUS
  <1>1. CASE TakeWave
    BY <1>1 DEF TakeWave, PhaseFits, Batch
  <1>2. ASSUME NEW h \in Host, ConnectEnds(h) PROVE PhaseFits'
    BY <1>2 DEF ConnectEnds, PhaseFits, Batch
  <1>3. CASE NoneConnected
    BY <1>3 DEF NoneConnected, PhaseFits, InState, Batch
  <1>4. CASE SubmitBatches
    BY <1>4 DEF SubmitBatches, PhaseFits, hostVars
  <1>5. ASSUME NEW b \in Batch, StartRequest(b) \/ EndRequest(b) PROVE PhaseFits'
    <2>1. future[b].state \in {"queued", "running"} /\ UNCHANGED <<call, phase, outcome, hostVars, closed>>
      BY <1>5 DEF StartRequest, EndRequest, InState
    <2>2. phase \in {"running", "draining"}
      BY <1>5, <2>1 DEF PhaseFits, InState, TypeOK, Phase
    <2> QED BY <2>1, <2>2 DEF PhaseFits, hostVars
  <1>6. ASSUME NEW b \in Batch, TakeAnswer(b) \/ Retry(b) PROVE PhaseFits'
    BY <1>6 DEF TakeAnswer, Retry, PhaseFits, hostVars
  <1>7. ASSUME NEW b \in Batch, RaiseError(b) PROVE PhaseFits'
    BY <1>7 DEF RaiseError, PhaseFits, hostVars
  <1>8. CASE AllAnswered
    BY <1>8 DEF AllAnswered, PhaseFits, hostVars
  <1>9. CASE ShutDownPools
    BY <1>9 DEF ShutDownPools, PoolsAreIdle, PhaseFits, InState, Batch
  <1>10. ASSUME NEW h \in Host, CloseClient(h) PROVE PhaseFits'
    BY <1>10 DEF CloseClient, PhaseFits, InState, Batch
  <1>11. CASE Finish
    BY <1>11 DEF Finish, PhaseFits, InState, Batch
  <1>12. CASE UNCHANGED vars
    BY <1>12 DEF vars, hostVars, PhaseFits, InState, Batch
  <1> QED BY <1>1, <1>2, <1>3, <1>4, <1>5, <1>6, <1>7, <1>8, <1>9, <1>10, <1>11, <1>12
          DEF Next, MainStep, PoolStep

LEMMA AttemptsStep == TypeOK /\ PhaseFits /\ AttemptsFit /\ [Next]_vars => AttemptsFit'
  <1> SUFFICES ASSUME TypeOK, PhaseFits, AttemptsFit, [Next]_vars PROVE AttemptsFit'
    OBVIOUS
  <1>a. call.batches \in Nat /\ PoolCount \in Nat /\ (connected # {} <=> PoolCount > 0)
    BY PlanNumbers, PoolNumber DEF TypeOK
  <1>1. CASE UNCHANGED <<call, connected, future>>
    BY <1>1 DEF AttemptsFit, PoolCount, Batch
  <1>2. CASE phase = "connecting" /\ UNCHANGED <<call, future>>
    BY <1>2 DEF AttemptsFit, PhaseFits, Batch
  <1>3. CASE SubmitBatches
    <2>1. /\ connected # {} /\ UNCHANGED <<call, connected>>
          /\ \A b \in Batch : future'[b].pool = b % PoolCount /\ future'[b].attempt = 0
      BY <1>3 DEF SubmitBatches, hostVars
    <2>2. \A b \in Batch : b % PoolCount \in 0 .. PoolCount - 1
      BY <1>a, <2>1, ModIsPool DEF Batch
    <2> QED BY <2>1, <2>2 DEF AttemptsFit, PoolCount, Batch
  <1>4. ASSUME NEW b \in Batch, StartRequest(b) \/ EndRequest(b) \/ TakeAnswer(b) PROVE AttemptsFit'
    <2>1. /\ future[b].state # "absent" /\ UNCHANGED <<call, connected>>
          /\ \A c \in Batch : future'[c].pool = future[c].pool /\ future'[c].attempt = future[c].attempt
          /\ \A c \in Batch \ {b} : future'[c] = future[c]
      BY <1>4 DEF StartRequest, EndRequest, TakeAnswer, InState, hostVars, TypeOK
    <2> QED BY <2>1 DEF AttemptsFit, PoolCount, Batch
  <1>5. ASSUME NEW b \in Batch, Retry(b) PROVE AttemptsFit'
    <2>1. /\ phase = "running" /\ future[b].state = "failed" /\ ~MayNotRetry(b)
          /\ UNCHANGED <<call, connected>>
          /\ future'[b] = [pool |-> NextPool(b), attempt |-> future[b].attempt + 1, state |-> "queued"]
          /\ \A c \in Batch \ {b} : future'[c] = future[c]
      BY <1>5 DEF Retry, InState, hostVars, TypeOK
    <2>2. connected # {} /\ PoolCount > 1
      BY <1>a, <2>1 DEF PhaseFits, MayNotRetry
    <2>3. /\ future[b].attempt \in Nat /\ future[b].pool \in 0 .. PoolCount - 1
          /\ future[b].attempt = 0 => future[b].pool = b % PoolCount
      BY <2>1, PlanNumbers DEF AttemptsFit, TypeOK
    <2>4. NextPool(b) \in 0 .. PoolCount - 1
      BY <1>a, <2>2, <2>3, ModIsPool DEF NextPool
    <2>5. future[b].attempt = 0 => NextPool(b) # b % PoolCount
      <3>1. CASE future[b].attempt = 0
        <4>1. NextPool(b) = (future[b].pool + 1) % PoolCount
          BY <2>3, <3>1 DEF NextPool
        <4> QED BY <1>a, <2>2, <2>3, <3>1, <4>1, NextIsAnother
      <3> QED BY <3>1
    <2>6. PoolCount' = PoolCount /\ Batch' = Batch
      BY <2>1 DEF PoolCount, Batch
    <2>7. future[b].attempt + 1 # 0 /\ (future[b].attempt + 1 = 1 => future[b].attempt = 0)
      BY <2>3
    <2> QED BY <2>1, <2>2, <2>4, <2>5, <2>6, <2>7 DEF AttemptsFit
  <1>6. CASE TakeWave \/ \E h \in Host : ConnectEnds(h)
    BY <1>2, <1>6 DEF TakeWave, ConnectEnds
  <1>7. CASE NoneConnected \/ AllAnswered \/ ShutDownPools \/ Finish \/ UNCHANGED vars
    BY <1>1, <1>7 DEF NoneConnected, AllAnswered, ShutDownPools, Finish, vars, hostVars
  <1>8. ASSUME NEW h \in Host, CloseClient(h) PROVE AttemptsFit'
    BY <1>1, <1>8 DEF CloseClient, hostVars
  <1>9. ASSUME NEW b \in Batch, RaiseError(b) PROVE AttemptsFit'
    BY <1>1, <1>9 DEF RaiseError, hostVars
  <1> QED BY <1>3, <1>4, <1>5, <1>6, <1>7, <1>8, <1>9 DEF Next, MainStep, PoolStep

\* What earns an error.
Hopeless(b) ==
    /\ future[b].state = "failed"
    /\ \/ PoolCount = 1
       \/ call.retries = 0
       \/ /\ future[b].attempt = call.retries
          /\ call.retries = 1 => future[b].pool # b % PoolCount

LEMMA OutcomeStep ==
    TypeOK /\ PhaseFits /\ AttemptsFit /\ OutcomeIsEarned /\ [Next]_vars => OutcomeIsEarned'
  <1> SUFFICES ASSUME TypeOK, PhaseFits, AttemptsFit, OutcomeIsEarned, [Next]_vars
               PROVE OutcomeIsEarned'
    OBVIOUS
  <1>1. CASE UNCHANGED <<call, connected, future, outcome>>
    BY <1>1 DEF OutcomeIsEarned, PoolCount, Batch, InState
  <1>2. CASE outcome = "open" /\ outcome' = outcome
    BY <1>2 DEF OutcomeIsEarned
  <1>3. CASE NoneConnected
    BY <1>3 DEF NoneConnected, hostVars, OutcomeIsEarned
  <1>4. CASE AllAnswered
    BY <1>4 DEF AllAnswered, NothingPending, OutcomeIsEarned, InState, Batch
  <1>5. ASSUME NEW b \in Batch, RaiseError(b) PROVE OutcomeIsEarned'
    <2>1. /\ phase = "running" /\ future[b].state = "failed" /\ MayNotRetry(b)
          /\ outcome' = "error" /\ UNCHANGED <<call, connected, future>>
      BY <1>5 DEF RaiseError, InState, hostVars
    <2>2. PoolCount \in Nat /\ PoolCount > 0
      BY <2>1, PoolNumber DEF PhaseFits
    <2>3. future[b].attempt \in 0 .. call.retries /\ call.retries \in Nat
      BY PlanNumbers DEF TypeOK
    <2>4. future[b].attempt = 1 => future[b].pool # b % PoolCount
      BY <2>1 DEF AttemptsFit
    <2>5. Hopeless(b)
      <3>1. CASE PoolCount < 2
        BY <2>1, <2>2, <3>1 DEF Hopeless
      <3>2. CASE future[b].attempt >= call.retries
        <4>1. future[b].attempt = call.retries
          BY <2>3, <3>2
        <4> QED BY <2>1, <2>4, <4>1 DEF Hopeless
      <3> QED BY <2>1, <3>1, <3>2 DEF MayNotRetry
    <2> QED BY <2>1, <2>5 DEF Hopeless, OutcomeIsEarned, InState, PoolCount, Batch
  <1>6. ASSUME NEW b \in Batch, StartRequest(b) \/ EndRequest(b) PROVE OutcomeIsEarned'
    <2>1. /\ future[b].state \in {"queued", "running"}
          /\ \A c \in Batch \ {b} : future'[c] = future[c]
          /\ UNCHANGED <<call, connected, outcome>> /\ Batch' = Batch /\ PoolCount' = PoolCount
      BY <1>6 DEF StartRequest, EndRequest, InState, hostVars, TypeOK, Batch, PoolCount
    <2>2. ASSUME outcome = "result" PROVE FALSE
      BY <1>6, <2>1, <2>2 DEF OutcomeIsEarned
    <2>3. ASSUME outcome = "error", connected # {}
          PROVE \E c \in Batch : Hopeless(c)'
      <3>1. PICK c \in Batch : Hopeless(c)
        BY <2>3 DEF OutcomeIsEarned, Hopeless, InState
      <3>2. future'[c] = future[c]
        BY <2>1, <3>1 DEF Hopeless
      <3>3. Hopeless(c)'
        BY <2>1, <3>1, <3>2 DEF Hopeless
      <3> QED BY <3>3
    <2> QED BY <2>1, <2>2, <2>3 DEF OutcomeIsEarned, Hopeless, InState
  <1>7. CASE TakeWave \/ \E h \in Host : ConnectEnds(h)
    BY <1>2, <1>7 DEF TakeWave, ConnectEnds, PhaseFits
  <1>8. CASE SubmitBatches
    BY <1>2, <1>8 DEF SubmitBatches, PhaseFits
  <1>9. ASSUME NEW b \in Batch, TakeAnswer(b) \/ Retry(b) PROVE OutcomeIsEarned'
    BY <1>2, <1>9 DEF TakeAnswer, Retry, PhaseFits
  <1>10. CASE ShutDownPools \/ Finish \/ UNCHANGED vars
    BY <1>1, <1>10 DEF ShutDownPools, Finish, vars, hostVars
  <1>11. ASSUME NEW h \in Host, CloseClient(h) PROVE OutcomeIsEarned'
    BY <1>1, <1>11 DEF CloseClient, hostVars
  <1> QED BY <1>3, <1>4, <1>5, <1>6, <1>7, <1>8, <1>9, <1>10, <1>11 DEF Next, MainStep, PoolStep

LEMMA IInvInit == Init => IInv
  <1> SUFFICES ASSUME Init PROVE IInv
    OBVIOUS
  <1>1. TypeOK
    BY TypeInit
  <1>2. call.batches \in Nat /\ call.hosts \in Nat
        /\ (HostCount = 0 <=> call.batches = 0 \/ call.hosts = 0)
    BY PlanNumbers DEF Init
  <1>3. \A b \in Batch : future[b].state = "absent"
    BY DEF Init
  <1>4. outcome = "result" => Batch = {}
    BY <1>2 DEF Init, Batch
  <1>5. PhaseFits
    <2>1. phase = "connecting" => outcome = "open"
      BY <1>2 DEF Init
    <2>2. InState("queued") \cup InState("running") = {}
      BY <1>3 DEF InState
    <2> QED BY <1>3, <2>1, <2>2 DEF Init, PhaseFits
  <1>6. AttemptsFit
    BY <1>3 DEF AttemptsFit
  <1>7. OutcomeIsEarned
    BY <1>4 DEF Init, OutcomeIsEarned
  <1> QED BY <1>1, <1>5, <1>6, <1>7 DEF IInv

LEMMA IInvStep == IInv /\ [Next]_vars => IInv'
  BY TypeStep, PhaseStep, AttemptsStep, OutcomeStep DEF IInv

LEMMA ClosedAfterUse == IInv => NoUseAfterClose
  BY DEF IInv, TypeOK, Phase, PhaseFits, NoUseAfterClose

\* A result has the answers of all batches, and an error a batch that failed
\* on two servers, or had no second server or no retry to try.
THEOREM OutcomeInvariant == Spec => []OutcomeIsEarned
  <1>1. IInv => OutcomeIsEarned
    BY DEF IInv
  <1> QED BY <1>1, IInvInit, IInvStep, PTL DEF Spec

\* No client is closed while a request still runs or waits on it.
THEOREM CloseInvariant == Spec => []NoUseAfterClose
  BY IInvInit, IInvStep, ClosedAfterUse, PTL DEF Spec
=============================================================================
