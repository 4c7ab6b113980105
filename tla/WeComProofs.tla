----------------------------- MODULE WeComProofs -----------------------------
(* Proofs about WeCom: when the connector gives up, and which heartbeats run, *)
(* for any limits and any number of connections and messages.                 *)
EXTENDS WeCom, FiniteSetTheorems, TLAPS

\* The failures that Since counts.
Failures(kind, l) ==
  {i \in DOMAIN l : l[i] = kind /\ \A j \in DOMAIN l : j > i => l[j] # "clean"}

\* A clean end forgets the failures before it.
LEMMA FailuresEmpty ==
  ASSUME NEW l \in Seq(Outcome), NEW kind \in {"io", "auth"}
  PROVE  Failures(kind, Append(l, "clean")) = {}
<1>1. /\ DOMAIN Append(l, "clean") = 1..Len(l) + 1 /\ Len(l) \in Nat
      /\ Append(l, "clean")[Len(l) + 1] = "clean"
  BY DEF Outcome
<1> QED
  BY <1>1 DEF Failures

\* An error of another kind changes nothing for this one.
LEMMA FailuresSame ==
  ASSUME NEW l \in Seq(Outcome), NEW kind \in {"io", "auth"}, NEW o \in Outcome,
         o # "clean", o # kind
  PROVE  Failures(kind, Append(l, o)) = Failures(kind, l)
<1>1. /\ DOMAIN Append(l, o) = 1..Len(l) + 1 /\ DOMAIN l = 1..Len(l) /\ Len(l) \in Nat
      /\ Append(l, o)[Len(l) + 1] = o
      /\ \A i \in 1..Len(l) : Append(l, o)[i] = l[i]
  OBVIOUS
<1> QED
  BY <1>1 DEF Failures

\* An error counts as a failure of its kind.
LEMMA FailuresMore ==
  ASSUME NEW l \in Seq(Outcome), NEW kind \in {"io", "auth"}
  PROVE  Failures(kind, Append(l, kind)) = Failures(kind, l) \cup {Len(l) + 1}
<1>1. /\ DOMAIN Append(l, kind) = 1..Len(l) + 1 /\ DOMAIN l = 1..Len(l) /\ Len(l) \in Nat
      /\ Append(l, kind)[Len(l) + 1] = kind
      /\ \A i \in 1..Len(l) : Append(l, kind)[i] = l[i]
  BY DEF Outcome
<1> QED
  BY <1>1 DEF Failures

\* There are finitely many failures, all in the log.
LEMMA FailuresFinite ==
  ASSUME NEW l \in Seq(Outcome), NEW kind \in {"io", "auth"}
  PROVE  IsFiniteSet(Failures(kind, l)) /\ Len(l) + 1 \notin Failures(kind, l)
<1>1. DOMAIN l = 1..Len(l) /\ Len(l) \in Nat
  OBVIOUS
<1>2. Failures(kind, l) \subseteq 1..Len(l)
  BY <1>1 DEF Failures
<1>3. IsFiniteSet(1..Len(l))
  BY <1>1, FS_Interval
<1> QED
  BY <1>1, <1>2, <1>3, FS_Subset

\* How the end of a connection changes the count of failures.
LEMMA SinceAppend ==
  ASSUME log \in Seq(Outcome), NEW kind \in {"io", "auth"}, NEW o \in Outcome,
         log' = Append(log, o)
  PROVE  Since(kind)' = IF o = "clean" THEN 0
                        ELSE IF o = kind THEN Since(kind) + 1 ELSE Since(kind)
<1>1. Since(kind) = Cardinality(Failures(kind, log))
  BY DEF Since, Failures
<1>2. Since(kind)' = Cardinality(Failures(kind, Append(log, o)))
  BY DEF Since, Failures
<1>3. CASE o = "clean"
  BY <1>2, <1>3, FailuresEmpty, FS_EmptySet
<1>4. CASE o = kind
  <2>1. Failures(kind, Append(log, o)) = Failures(kind, log) \cup {Len(log) + 1}
    BY <1>4, FailuresMore
  <2>2. IsFiniteSet(Failures(kind, log)) /\ Len(log) + 1 \notin Failures(kind, log)
    BY FailuresFinite
  <2>3. Since(kind)' = Since(kind) + 1
    BY <1>1, <1>2, <2>1, <2>2, FS_AddElement
  <2> QED
    BY <1>4, <2>3
<1>5. CASE o # "clean" /\ o # kind
  BY <1>1, <1>2, <1>5, FailuresSame
<1> QED
  BY <1>3, <1>4, <1>5

-----------------------------------------------------------------------------

Kinds == {"io", "auth"}

\* A counter is over its limit.
Over(kind) == limits[kind] >= 0 /\ attempts[kind] > limits[kind]

\* What is needed of the types.
Types ==
  /\ limits \in [io : Int, auth : Int]
  /\ phase \in Phase
  /\ attempts \in [io : Nat, auth : Nat]
  /\ log \in Seq(Outcome)
  /\ phase \in {"auth", "serve"} => Current \in Connections
  /\ socket \in [Connections -> {"none", "open", "closed"}]
  /\ heartbeat \in [Connections -> {"none", "running", "ended"}]

\* The counters of run_forever count the failures since the last clean end.
CountInv == \A kind \in Kinds : attempts[kind] = Since(kind)

\* The connector has ended exactly when a counter is over its limit or a failure was fatal.
EndInv ==
  (phase = "ended") <=>
    (log # <<>> /\ log[Len(log)] = "fatal") \/ \E kind \in Kinds : Over(kind)

Inv == Types /\ CountInv /\ EndInv /\ HeartbeatsExplained

\* The initial states satisfy the invariant.
LEMMA InitInv == Init => Inv
<1> SUFFICES ASSUME Init PROVE Inv
  OBVIOUS
<1>1. Types
  BY WeComAssumption DEF Init, Types, Phase, Current
<1>2. \A kind \in Kinds : Since(kind) = 0
  <2> SUFFICES ASSUME NEW kind \in Kinds PROVE Since(kind) = 0
    OBVIOUS
  <2>1. DOMAIN log = {}
    BY DEF Init
  <2>2. {i \in DOMAIN log : log[i] = kind /\ \A j \in DOMAIN log : j > i => log[j] # "clean"} = {}
    BY <2>1
  <2> QED
    BY <2>2, FS_EmptySet DEF Since
<1>3. CountInv
  BY <1>2 DEF Init, CountInv, Kinds
<1>4. EndInv
  BY <1>1 DEF Init, EndInv, Kinds, Over, Types
<1>5. HeartbeatsExplained
  BY DEF Init, HeartbeatsExplained
<1> QED
  BY <1>1, <1>3, <1>4, <1>5 DEF Inv

\* The end of a connection, with whatever outcome, is counted and decided upon.
LEMMA EndsStep ==
  ASSUME Inv, phase \in {"connect", "auth", "serve"}, Current \in Connections,
         NEW o \in Outcome, Ends(o), UNCHANGED <<limits, socket>>,
         o = "clean" => phase = "serve", phase = "serve" => o # "auth"
  PROVE  Inv'
<1>1. /\ log' = Append(log, o) /\ log \in Seq(Outcome) /\ Len(log) \in Nat
      /\ Append(log, o) \in Seq(Outcome)
      /\ Len(log') = Len(log) + 1 /\ log'[Len(log')] = o /\ log' # <<>>
      /\ \A i \in 1..Len(log) : log'[i] = log[i]
  <2>1. log' = Append(log, o)
    BY DEF Ends, EndsCleanly, EndsWithError, EndsForGood
  <2> QED
    BY <2>1 DEF Inv, Types
<1>2. Current = Len(log) + 1 /\ Current' = Current + 1
  BY <1>1 DEF Current
<1>3. attempts' = [kind \in Kinds |->
                     IF o = "clean" THEN 0 ELSE IF o = kind THEN attempts[kind] + 1
                     ELSE attempts[kind]]
  BY DEF Ends, EndsCleanly, EndsWithError, EndsForGood, Kinds, Inv, Types, Outcome
<1>4. CountInv'
  BY <1>1, <1>3, SinceAppend DEF CountInv, Kinds, Inv
<1>5. ~(log # <<>> /\ log[Len(log)] = "fatal") /\ \A kind \in Kinds : ~Over(kind)
  BY DEF Inv, EndInv
<1>6. phase' = IF o = "fatal" \/ (o \in Kinds /\ Over(o)') THEN "ended" ELSE "pause"
  <2>1. CASE o = "clean"
    BY <2>1 DEF Ends, EndsCleanly, Kinds
  <2>2. CASE o = "fatal"
    BY <2>2 DEF Ends, EndsForGood, Exit
  <2>3. CASE o \in Kinds
    BY <1>3, <2>3 DEF Ends, EndsWithError, Exit, Kinds, Over, ReachedRetryLimit
  <2> QED
    BY <2>1, <2>2, <2>3 DEF Outcome, Kinds
<1>7. \A kind \in Kinds : o # kind => ~Over(kind)'
  BY <1>3, <1>5 DEF Over, Kinds, Inv, Types
<1>8. EndInv'
  BY <1>1, <1>6, <1>7 DEF EndInv, Kinds
<1>9. heartbeat' \in [Connections -> {"none", "running", "ended"}]
  BY DEF Ends, EndsCleanly, EndsWithError, EndsForGood, Exit, Inv, Types
<1>10. Types'
  BY <1>1, <1>3, <1>6, <1>9 DEF Types, Inv, Phase, Kinds
<1>11. \A c \in Connections : heartbeat'[c] = "running" =>
          heartbeat[c] = "running" /\ ~(o = "clean" /\ c = Current)
  BY DEF Ends, EndsCleanly, EndsWithError, EndsForGood, Exit, Inv, Types
<1>12. \A c \in Connections : heartbeat'[c] = "running" => o # "fatal"
  BY DEF Ends, EndsForGood, Exit, Inv, Types
<1>13. HeartbeatsExplained'
  <2> SUFFICES ASSUME NEW c \in Connections, heartbeat'[c] = "running"
               PROVE  c < Current' /\ log'[c] = "io"
    BY <1>6 DEF HeartbeatsExplained
  <2>1. CASE c = Current /\ phase = "serve"
    BY <1>1, <1>2, <1>11, <1>12, <2>1 DEF Outcome, Connections
  <2>2. CASE c < Current /\ log[c] = "io"
    BY <1>1, <1>2, <2>2 DEF Connections
  <2> QED
    BY <1>11, <2>1, <2>2 DEF Inv, HeartbeatsExplained
<1> QED
  BY <1>4, <1>8, <1>10, <1>13 DEF Inv

\* Every step keeps the invariant.
LEMMA StepInv ==
  ASSUME Inv, [Next]_vars
  PROVE  Inv'
<1>2. CASE ConnectFails
  BY <1>2, EndsStep DEF ConnectFails, Outcome
<1>3. CASE AuthenticationFails
  BY <1>3, EndsStep DEF AuthenticationFails, Outcome, Inv, Types
<1>4. CASE AuthenticationTimesOut
  BY <1>4, EndsStep DEF AuthenticationTimesOut, Outcome, Inv, Types
<1>5. CASE ReadEnd
  BY <1>5, EndsStep DEF ReadEnd, Outcome, Inv, Types
<1>6. ASSUME UNCHANGED <<limits, attempts, log>>, Types', HeartbeatsExplained',
             phase # "ended", phase' # "ended"
      PROVE  Inv'
  <2>1. CountInv'
    BY <1>6 DEF Inv, CountInv, Since
  <2>2. EndInv'
    BY <1>6 DEF Inv, EndInv, Over
  <2> QED
    BY <1>6, <2>1, <2>2 DEF Inv
<1>7. ASSUME UNCHANGED loopVars, Types', HeartbeatsExplained' PROVE Inv'
  <2>1. CountInv'
    BY <1>7 DEF Inv, CountInv, Since, loopVars
  <2>2. EndInv'
    BY <1>7 DEF Inv, EndInv, Over, loopVars
  <2> QED
    BY <1>7, <2>1, <2>2 DEF Inv
<1>8. CASE Connect
  <2>1. Types'
    BY <1>8 DEF Connect, Types, Inv, Phase, Current
  <2>2. HeartbeatsExplained'
    BY <1>8 DEF Connect, HeartbeatsExplained, Inv, Current
  <2> QED
    BY <1>6, <1>8, <2>1, <2>2 DEF Connect
<1>9. CASE Authenticated
  <2>1. Types'
    BY <1>9 DEF Authenticated, Types, Inv, Phase, Current
  <2>2. HeartbeatsExplained'
    BY <1>9 DEF Authenticated, HeartbeatsExplained, Inv, Types, Current
  <2> QED
    BY <1>6, <1>9, <2>1, <2>2 DEF Authenticated
<1>10. CASE Wake
  <2>1. Types'
    BY <1>10 DEF Wake, Types, Inv, Phase, Current
  <2>2. HeartbeatsExplained'
    BY <1>10 DEF Wake, HeartbeatsExplained, Inv, Current
  <2> QED
    BY <1>6, <1>10, <2>1, <2>2 DEF Wake
<1>11. CASE ReadFrame
  <2>1. CASE Ends("io") \/ Ends("fatal")
    BY <1>11, <2>1, EndsStep DEF ReadFrame, Outcome, Inv, Types
  <2>2. CASE UNCHANGED <<phase, attempts, pause, log, heartbeat>>
    <3>1. Types'
      BY <1>11, <2>2 DEF ReadFrame, Types, Inv, Current
    <3>2. HeartbeatsExplained'
      BY <1>11, <2>2 DEF ReadFrame, HeartbeatsExplained, Inv, Current
    <3> QED
      BY <1>6, <1>11, <2>2, <3>1, <3>2 DEF ReadFrame
  <2> QED
    BY <1>11, <2>1, <2>2 DEF ReadFrame
<1>12. ASSUME NEW c \in Connections, ServerCloses(c) PROVE Inv'
  <2>1. Types'
    BY <1>12 DEF ServerCloses, loopVars, Types, Inv, Current
  <2>2. HeartbeatsExplained'
    BY <1>12 DEF ServerCloses, loopVars, HeartbeatsExplained, Inv, Types, Current
  <2> QED
    BY <1>7, <1>12, <2>1, <2>2 DEF ServerCloses
<1>13. ASSUME NEW c \in Connections, HeartbeatFails(c) PROVE Inv'
  <2>1. Types'
    BY <1>13 DEF HeartbeatFails, loopVars, Types, Inv, Current
  <2>2. HeartbeatsExplained'
    BY <1>13 DEF HeartbeatFails, loopVars, HeartbeatsExplained, Inv, Types, Current
  <2> QED
    BY <1>7, <1>13, <2>1, <2>2 DEF HeartbeatFails
<1>14. ASSUME UNCHANGED <<loopVars, socket, heartbeat>> PROVE Inv'
  <2>1. Types'
    BY <1>14 DEF loopVars, Types, Inv, Current
  <2>2. HeartbeatsExplained'
    BY <1>14 DEF loopVars, HeartbeatsExplained, Inv, Current
  <2> QED
    BY <1>7, <1>14, <2>1, <2>2
<1>15. ASSUME NEW m \in Messages, Answer(m) PROVE Inv'
  BY <1>14, <1>15 DEF Answer
<1>16. CASE UNCHANGED vars
  BY <1>14, <1>16 DEF vars
<1> QED
  BY <1>2, <1>3, <1>4, <1>5, <1>8, <1>9, <1>10, <1>11, <1>12, <1>13, <1>15, <1>16
  DEF Next, LoopStep

\* The connector gives up exactly when a failure was fatal or a kind of failure came more
\* often than its limit since the last clean end (run_forever), for any limits.
THEOREM GivesUpAtLimit == Spec => []RetryBudget
<1>1. Inv => RetryBudget
  <2> SUFFICES ASSUME Inv PROVE RetryBudget
    OBVIOUS
  <2>1. \A kind \in Kinds : Over(kind) <=> Exhausted(kind)
    BY DEF Inv, CountInv, Over, Exhausted
  <2> QED
    BY <2>1 DEF Inv, EndInv, RetryBudget, Kinds
<1> QED
  BY InitInv, StepInv, <1>1, PTL DEF Spec

\* A served connection has its heartbeat, and a heartbeat without one is of a connection
\* that ended with an error (spawn_heartbeat, run_connection), for any number of them.
THEOREM HeartbeatsAccounted == Spec => []HeartbeatsExplained
<1>1. Inv => HeartbeatsExplained
  BY DEF Inv
<1> QED
  BY InitInv, StepInv, <1>1, PTL DEF Spec

-----------------------------------------------------------------------------
(* Types *)

\* A pause is no shorter than the delay that is doubled, and no longer than its maximum,
\* which does not bound the doubling (backoff_delay).
LEMMA DelayBounded ==
  ASSUME NEW n \in Nat \ {0}
  PROVE  BackoffDelay(n) \in Delay..MaxDelay
<1> DEFINE k == Smaller(n - 1, 10)
<1>1. k \in Nat
  BY DEF Smaller
<1> HIDE DEF k
<1>2. 2 ^ k \in Nat /\ 2 ^ k # 0
  <2>1. IsFiniteSet(1..k) /\ Cardinality(1..k) = k
    BY <1>1, FS_Interval
  <2>2. IsFiniteSet(SUBSET (1..k)) /\ Cardinality(SUBSET (1..k)) = 2 ^ k
    BY <2>1, FS_SUBSET
  <2>3. SUBSET (1..k) # {}
    OBVIOUS
  <2>4. Cardinality(SUBSET (1..k)) # 0
    BY <2>2, <2>3, FS_EmptySet
  <2> QED
    BY <2>2, <2>4, FS_CardinalityType
<1>3. BackoffDelay(n) = Smaller(Delay * 2 ^ k, MaxDelay)
  BY DEF BackoffDelay, k
<1> DEFINE power == 2 ^ k
<1>4. power \in Nat \ {0} /\ BackoffDelay(n) = Smaller(Delay * power, MaxDelay)
  BY <1>2, <1>3
<1> HIDE DEF power
<1>5. /\ Delay * power \in Nat /\ Delay \in Nat /\ MaxDelay \in Nat
      /\ Delay <= Delay * power /\ Delay <= MaxDelay
  BY <1>4, WeComAssumption
<1> QED
  BY <1>4, <1>5 DEF Smaller

\* The types that Types leaves out.
MoreTypes ==
  /\ limits \in Limits
  /\ pause \in 0..MaxDelay
  /\ phase = "pause" => pause >= Delay
  /\ Len(log) <= MaxConnections
  /\ task \in [Messages -> {"none", "waiting", "sent", "failed", "lost"}]
  /\ via \in [Messages -> 0..MaxConnections]

\* The end of a connection keeps them.
LEMMA EndsTypes ==
  ASSUME Types, MoreTypes, Current \in Connections, NEW o \in Outcome, Ends(o),
         UNCHANGED <<limits, via>>
  PROVE  MoreTypes'
<1>1. \A kind \in {"io", "auth"} : attempts[kind] + 1 \in Nat \ {0}
  BY DEF Types
<1>2. pause' \in 0..MaxDelay /\ (phase' = "pause" => pause' >= Delay)
  <2>1. CASE EndsCleanly
    BY <2>1, WeComAssumption DEF EndsCleanly
  <2>2. CASE o \in {"io", "auth"} /\ EndsWithError(o)
    <3>1. CASE phase' = "ended" /\ UNCHANGED pause
      BY <3>1 DEF MoreTypes
    <3>2. CASE pause' = BackoffDelay(attempts[o] + 1)
      <4>1. BackoffDelay(attempts[o] + 1) \in Delay..MaxDelay
        BY <1>1, <2>2, DelayBounded
      <4> QED
        BY <3>2, <4>1, WeComAssumption
    <3> QED
      BY <2>2, <3>1, <3>2 DEF EndsWithError, Exit
  <2>3. CASE EndsForGood
    BY <2>3 DEF EndsForGood, Exit, MoreTypes
  <2> QED
    BY <2>1, <2>2, <2>3 DEF Ends
<1>3. Len(log') <= MaxConnections
  <2>1. log' = Append(log, o)
    BY DEF Ends, EndsCleanly, EndsWithError, EndsForGood
  <2> QED
    BY <2>1, WeComAssumption DEF Types, Current, Connections
<1>4. task' \in [Messages -> {"none", "waiting", "sent", "failed", "lost"}]
  BY DEF Ends, EndsCleanly, EndsWithError, EndsForGood, Exit, MoreTypes
<1> QED
  BY <1>2, <1>3, <1>4 DEF MoreTypes

\* Every step keeps them.
LEMMA MoreTypesStep ==
  ASSUME Types, MoreTypes, [Next]_vars
  PROVE  MoreTypes'
<1>1. CASE ConnectFails
  BY <1>1, EndsTypes DEF ConnectFails, Outcome
<1>2. CASE AuthenticationFails
  BY <1>2, EndsTypes DEF AuthenticationFails, Outcome, Types
<1>3. CASE AuthenticationTimesOut
  BY <1>3, EndsTypes DEF AuthenticationTimesOut, Outcome, Types
<1>4. CASE ReadEnd
  BY <1>4, EndsTypes DEF ReadEnd, Outcome, Types
<1>5. CASE ReadFrame
  <2>1. CASE (Ends("io") \/ Ends("fatal")) /\ UNCHANGED via
    BY <1>5, <2>1, EndsTypes DEF ReadFrame, Outcome, Types
  <2>2. ASSUME NEW m \in Messages, Spawn(m), UNCHANGED <<phase, attempts, pause, log>>
        PROVE  MoreTypes'
    <3>1. Current \in 0..MaxConnections
      BY <1>5, WeComAssumption DEF ReadFrame, Types, Connections
    <3> QED
      BY <1>5, <2>2, <3>1 DEF ReadFrame, Spawn, MoreTypes
  <2> QED
    BY <1>5, <2>1, <2>2 DEF ReadFrame
<1>6. CASE Connect \/ Authenticated \/ Wake
  BY <1>6 DEF Connect, Authenticated, Wake, MoreTypes
<1>7. ASSUME NEW c \in Connections, ServerCloses(c) \/ HeartbeatFails(c) PROVE MoreTypes'
  BY <1>7 DEF ServerCloses, HeartbeatFails, loopVars, MoreTypes
<1>8. ASSUME NEW m \in Messages, Answer(m) PROVE MoreTypes'
  BY <1>8 DEF Answer, loopVars, MoreTypes
<1>9. CASE UNCHANGED vars
  BY <1>9 DEF vars, loopVars, MoreTypes
<1> QED
  BY <1>1, <1>2, <1>3, <1>4, <1>5, <1>6, <1>7, <1>8, <1>9 DEF Next, LoopStep

\* Every reachable state is well typed: a pause is between the delay that is doubled and
\* its maximum, and no message is answered on a connection that never was.
THEOREM TypeCorrect == Spec => []TypeOK
<1>1. Init => MoreTypes
  BY WeComAssumption DEF Init, MoreTypes
<1>2. Inv /\ MoreTypes => TypeOK
  BY DEF Inv, Types, MoreTypes, TypeOK
<1>3. Inv /\ MoreTypes /\ [Next]_vars => (Inv /\ MoreTypes)'
  BY StepInv, MoreTypesStep DEF Inv
<1> QED
  BY InitInv, <1>1, <1>2, <1>3, PTL DEF Spec

=============================================================================
